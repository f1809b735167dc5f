SPECIFICATION Spec
CONSTANTS
  r1 = r1
  r2 = r2
  Replica <- TwoReplicas
  NoReplica = NoReplica
  Faults = {"break"}
  MaxFaults = 1
  Episode <- OneEpisode
  Files <- PlainFolder
  Present <- PlainFolder
  Listing <- BySorting
  OnS3 = FALSE
  OperatorActions = {}
  MaxOps = 1
  MaxJobs = 2

INVARIANT ExactlyOneScans
