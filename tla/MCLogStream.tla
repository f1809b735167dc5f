---------------------------- MODULE MCLogStream ----------------------------
(* Small instances of LogStream for TLC. *)
EXTENDS LogStream
CONSTANTS r1, r2, s1
TwoReplicas == {r1, r2}
OneStream == {s1}
=============================================================================
