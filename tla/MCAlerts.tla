------------------------------ MODULE MCAlerts ------------------------------
(* Small instances of Alerts for TLC. *)
EXTENDS Alerts, TLC
CONSTANTS r1, r2, k1, k2
TwoReplicas == {r1, r2}
TwoOutcomes == {k1, k2}
OutcomeSymmetry == Permutations(TwoOutcomes)
=============================================================================
