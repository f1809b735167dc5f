SPECIFICATION FairSpec
CONSTANTS
  r1 = r1
  r2 = r2
  n1 = n1
  n2 = n2
  Replicas <- OneReplica
  Nodes <- OneNode
  MaxRelease = 3
  Tools = {"lib", "bin"}
  MaxVersion = 2
  MaxPublishes = 3
  Troubles = {"rollback", "crash", "locked", "restart", "diskFull"}
  MaxTroubles = 3
  Junk = Junk
INVARIANTS PayloadsMatchManifest WorksWithWholeTools
PROPERTIES InstallsWhatWasOffered FleetConverges
CHECK_DEADLOCK FALSE
