---------------------------- MODULE MCNodeCycle ----------------------------
(* Small instances of NodeCycle for TLC. *)
EXTENDS NodeCycle, TLC

CONSTANTS j1, j2, j3, u1, u2
TwoJobs == {j1, j2}
ThreeJobs == {j1, j2, j3}
OneUpdater == {u1}
TwoUpdaters == {u1, u2}
JobSymmetry == Permutations(Jobs) \cup Permutations(Updaters)
=============================================================================
