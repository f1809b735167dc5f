SPECIFICATION FairSpec
CONSTANTS
  n1 = n1
  n2 = n2
  h1 = h1
  h2 = h2
  Nodes <- OneNode
  Handlers <- OneHandler
  Jobs <- ThreeJobs
  Routable <- Everywhere
  Renders <- NotTheLast
  MaxSlots = 2
  MaxLocalJobs = 4
  MaxRetries = 1
  Priorities <- OneWeight
  OperatorActions = {}
  MaxOps = 0
  Faults = {}
  MaxFaults = 0
  NoNode = NoNode
  NoJob = NoJob
  NoHandler = NoHandler
INVARIANT EncodersWithinSlots
PROPERTIES AutoRetryCounts EveryJobSettles
