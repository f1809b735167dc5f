SPECIFICATION Spec
CONSTANTS
  r1 = r1
  r2 = r2
  n1 = n1
  n2 = n2
  Replicas <- OneReplica
  Nodes <- OneNode
  MaxRelease = 3
  Tools = {}
  MaxVersion = 1
  MaxPublishes = 3
  Troubles = {"diskFull"}
  MaxTroubles = 1
  Junk = Junk
INVARIANT ReleaseIsKept
CHECK_DEADLOCK FALSE
