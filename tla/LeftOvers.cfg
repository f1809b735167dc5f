SPECIFICATION Spec
CONSTANTS
  o1 = o1
  o2 = o2
  video = video
  subs = subs
  Output <- OneStep
  RingLines = 2
  FullLogCap = 6
  Sources <- NoObjects
  MaxMetrics = 1
  Parts <- OnePart
  OnS3 = TRUE
  CrcNames = TRUE
  MaxAttempts = 2
  MaxCrashes = 0
INVARIANTS NothingPartialPublished
CHECK_DEADLOCK FALSE
