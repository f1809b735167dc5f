SPECIFICATION Spec
CONSTANTS
  o1 = o1
  o2 = o2
  video = video
  subs = subs
  Output <- TwoSteps
  RingLines = 2
  FullLogCap = 6
  Sources <- TwoObjects
  MaxMetrics = 1
  Parts <- TwoParts
  OnS3 = TRUE
  CrcNames = FALSE
  MaxAttempts = 2
  MaxCrashes = 1
INVARIANTS OutputIsTold DoneMeansReleased OnlyWholeRunsPublished
CHECK_DEADLOCK FALSE
