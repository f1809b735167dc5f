---------------------------- MODULE JobLifecycle ----------------------------
(***************************************************************************)
(* What the job store promises, with every handler atomic: the life of a   *)
(* job (model/model.go, "Safety invariants enforced by the store/API" in   *)
(* Architecture.md).  A job waits in the queue without an owner, is given  *)
(* to one node that has a free slot, is finished only while that node owns *)
(* it, and once it is terminal leaves that state only by going back to the *)
(* queue, or away.                                                         *)
(***************************************************************************)
EXTENDS Naturals, FiniteSets

CONSTANTS Nodes, Jobs, MaxSlots, NoNode

VARIABLES status, owner
vars == <<status, owner>>

Active   == {"assigned", "running"}
Terminal == {"done", "failed", "cancelled"}

ActiveOn(n) == {j \in Jobs : owner[j] = n /\ status[j] \in Active}

Init ==
  /\ status = [j \in Jobs |-> "unborn"]
  /\ owner = [j \in Jobs |-> NoNode]

Become(j, next) ==
  /\ status' = [status EXCEPT ![j] = next]
  /\ UNCHANGED owner

Create(j) == status[j] = "unborn" /\ Become(j, "pending")

Assign(j, n) ==
  /\ status[j] = "pending"
  /\ Cardinality(ActiveOn(n)) < MaxSlots
  /\ status' = [status EXCEPT ![j] = "assigned"]
  /\ owner' = [owner EXCEPT ![j] = n]

Start(j) == status[j] = "assigned" /\ Become(j, "running")

Finish(j) ==
  /\ status[j] \in Active
  /\ \E outcome \in {"done", "failed"} : Become(j, outcome)

(* The controller refuses a job it cannot render. *)
Refuse(j) == status[j] = "pending" /\ Become(j, "failed")

Cancel(j) == status[j] \in {"pending", "assigned"} /\ Become(j, "cancelled")

Requeue(j) ==
  /\ status[j] \in Terminal
  /\ status' = [status EXCEPT ![j] = "pending"]
  /\ owner' = [owner EXCEPT ![j] = NoNode]

Delete(j) == status[j] \in Terminal /\ Become(j, "deleted")

Next ==
  \E j \in Jobs :
    \/ Create(j) \/ (\E n \in Nodes : Assign(j, n)) \/ Start(j) \/ Finish(j)
    \/ Refuse(j) \/ Cancel(j) \/ Requeue(j) \/ Delete(j)

Spec == Init /\ [][Next]_vars
=============================================================================
