SPECIFICATION FairSpec
CONSTANTS
  r1 = r1
  r2 = r2
  n1 = n1
  n2 = n2
  Replicas <- OneReplica
  Nodes <- OneNode
  MaxRelease = 3
  Tools = {}
  MaxVersion = 1
  MaxPublishes = 2
  Troubles = {"rollback"}
  MaxTroubles = 2
  Junk = Junk
PROPERTY RollbacksConverge
CHECK_DEADLOCK FALSE
