----------------------------- MODULE MCUpdates -----------------------------
(* Small instances of Updates for TLC. *)
EXTENDS Updates

CONSTANTS r1, r2, n1, n2
OneReplica == {r1}
TwoReplicas == {r1, r2}
OneNode == {n1}
TwoNodes == {n1, n2}
=============================================================================
