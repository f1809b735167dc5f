------------------------------ MODULE Election ------------------------------
(***************************************************************************)
(* What the supervision of a singleton loop promises (store/leader.go,     *)
(* cmd/controller/main.go): the loop has one leader or none, and passes    *)
(* from one replica to another only through none.                          *)
(***************************************************************************)
CONSTANTS Replica, NoReplica
VARIABLE leader

Init == leader = NoReplica

Elect(r) == leader = NoReplica /\ leader' = r
Abdicate == leader # NoReplica /\ leader' = NoReplica

Next == (\E r \in Replica : Elect(r)) \/ Abdicate
Spec == Init /\ [][Next]_leader
=============================================================================
