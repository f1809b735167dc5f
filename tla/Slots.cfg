SPECIFICATION Spec
CONSTANTS
  n1 = n1
  n2 = n2
  h1 = h1
  h2 = h2
  Nodes <- OneNode
  Handlers <- TwoHandlers
  Jobs <- TwoJobs
  Routable <- Everywhere
  Renders <- Everywhere
  MaxSlots = 2
  MaxLocalJobs = 3
  MaxRetries = 0
  Priorities <- TwoWeights
  OperatorActions = {"node","patch"}
  MaxOps = 1
  Faults = {"restart","late"}
  MaxFaults = 1
  NoNode = NoNode
  NoJob = NoJob
  NoHandler = NoHandler
INVARIANT CapacityHolds
PROPERTY NoOvershoot
SYMMETRY HandlerSymmetry
