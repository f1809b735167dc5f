SPECIFICATION FairSpec
CONSTANTS
  r1 = r1
  r2 = r2
  Replica <- TwoReplicas
  NoReplica = NoReplica
  Faults = {"break", "sigterm", "crash"}
  MaxFaults = 1
  Episode <- TwoEpisodes
  Files <- TwoFolders
  Present <- SecondPresent
  Listing <- BySorting
  OnS3 = FALSE
  OperatorActions = {"cancel", "delete", "hold", "create", "retry"}
  MaxOps = 1
  MaxJobs = 5
PROPERTIES NoDuplicateByScanner ReadyIsQueued
