SPECIFICATION FairSpec
CONSTANTS
  r1 = r1
  r2 = r2
  s1 = s1
  Replica <- TwoReplicas
  Stream <- OneStream
  Cap = 2
  MaxRetries = 1
  MaxAttempts = 3
  OperatorActions = {"cancel", "retry", "delete"}
  MaxOps = 1
  MaxCrashes = 1
INVARIANT OnlySettledIsFinal
PROPERTY StreamEnds
CHECK_DEADLOCK FALSE
