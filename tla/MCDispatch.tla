----------------------------- MODULE MCDispatch -----------------------------
(* Small instances of Dispatch for TLC. *)
EXTENDS Dispatch, TLC

CONSTANTS n1, n2, h1, h2
OneNode == {n1}
TwoNodes == {n1, n2}
OneHandler == {h1}
TwoHandlers == {h1, h2}
OneJob == {1}
TwoJobs == {1, 2}
Everywhere == {1, 2, 3} \X TwoNodes
ThreeJobs == {1, 2, 3}
NotTheLast == TwoJobs \X TwoNodes
OneWeight == {0}
TwoWeights == {0, 1}
Symmetry == Permutations(Handlers) \cup Permutations(Nodes)
HandlerSymmetry == Permutations(Handlers)
=============================================================================
