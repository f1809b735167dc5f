SPECIFICATION Spec
CONSTANTS
  n1 = n1
  n2 = n2
  h1 = h1
  h2 = h2
  Nodes <- OneNode
  Handlers <- OneHandler
  Jobs <- OneJob
  Routable <- Everywhere
  Renders <- Everywhere
  MaxSlots = 1
  MaxLocalJobs = 2
  MaxRetries = 0
  Priorities <- OneWeight
  OperatorActions = {"node"}
  MaxOps = 1
  Faults = {}
  MaxFaults = 0
  NoNode = NoNode
  NoJob = NoJob
  NoHandler = NoHandler
PROPERTY EnabledByOperatorOnly
