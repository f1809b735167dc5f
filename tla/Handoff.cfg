SPECIFICATION Spec
CONSTANTS
  n1 = n1
  n2 = n2
  h1 = h1
  h2 = h2
  Nodes <- TwoNodes
  Handlers <- TwoHandlers
  Jobs <- OneJob
  Routable <- Everywhere
  Renders <- Everywhere
  MaxSlots = 1
  MaxLocalJobs = 2
  MaxRetries = 1
  Priorities <- OneWeight
  OperatorActions = {"cancel","retry","delete","node","deleteNode"}
  MaxOps = 1
  Faults = {"kill"}
  MaxFaults = 2
  NoNode = NoNode
  NoJob = NoJob
  NoHandler = NoHandler
INVARIANTS OwnerFollowsStatus EncoderOwnsJob
PROPERTIES TerminalSticks OnlyOwnerFinishes ImplementsLifecycle
SYMMETRY Symmetry
CHECK_DEADLOCK FALSE
