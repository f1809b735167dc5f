SPECIFICATION Spec
CONSTANTS
  u1 = u1
  u2 = u2
  root = root
  guest = guest
  standard = standard
  other = other
  third = third
  MaxRequests = 3
  Mixes <- Mix
  Nil = Nil
  Admins <- TwoAdmins
  NameOf <- Named2
  Configured = root
  ForceReset = TRUE
  Seeded = Seeded
  DefaultFlow = standard
  OtherFlow = other
  FlowName <- FlowNames
  Custom = Custom
  Reseeded = Reseeded
  n1 = n1
  n2 = n2
  NodeName <- NodeNames
  KeepRuns = 1
  ListedRuns = 1
  MaxBackups = 1
  MaxBoots = 1
CHECK_DEADLOCK FALSE
INVARIANTS LastAdminStays SessionsFollowPassword DefaultFlowStays FlowsRender DumpsCanBeRestored CodeIsOneShot PairingLeavesNoResidue RunsAreAlive
PROPERTY RestoreSparesQueue
