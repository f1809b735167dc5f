SPECIFICATION Spec
CONSTANTS
  r1 = r1
  r2 = r2
  k1 = k1
  k2 = k2
  Replica <- TwoReplicas
  NoReplica = NoReplica
  Faults = {"break", "sigterm", "crash"}
  MaxFaults = 1
  Outcome <- TwoOutcomes
  MaxFlips = 2
INVARIANT OneReplicaAlerts
CHECK_DEADLOCK FALSE
SYMMETRY OutcomeSymmetry
