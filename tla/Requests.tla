------------------------------ MODULE Requests ------------------------------
(***************************************************************************)
(* The requests the management plane is serving (api/server.go, Routes).   *)
(* A handler runs in a goroutine of its own and goes from one statement of *)
(* the database to the next; what it read it keeps, and acts on later.     *)
(* Every step of a handler is an action.                                   *)
(***************************************************************************)
EXTENDS Naturals

CONSTANTS
  MaxRequests,  \* bound on requests
  Mixes,        \* sets of operations; those of one behaviour are all in one set
  Nil           \* no value: a row that is not there, an argument not given

Request == 1..MaxRequests    \* in the order they come

ASSUME RequestsAssumption ==
  /\ MaxRequests \in Nat
  /\ Nil \notin Request /\ "none" \notin UNION Mixes

VARIABLE req

(* What one handler holds: the operation, its next statement, its object,  *)
(* an argument of the request, and what it has read.  "after" is history:  *)
(* the requests that had ended before this one came.                       *)
Unserved ==
  [op |-> "none", pc |-> "none", on |-> Nil, with |-> Nil, seen |-> Nil, after |-> {}]

RequestsInit == req = [q \in Request |-> Unserved]

At(q, op, pc) == req[q].op = op /\ req[q].pc = pc
Ended == {q \in Request : req[q].pc \in {"end", "cut"}}
InService == {q \in Request : req[q].pc \notin {"none", "end", "cut"}}

AskedFor(op) ==
  LET before == {req[p].op : p \in Request} \ {"none"} IN
  \E mix \in Mixes : before \cup {op} \subseteq mix

(* The next request to come. *)
Arriving(q) == req[q].pc = "none" /\ \A p \in 1..q-1 : req[p].pc # "none"

Begin(q, op, pc, on, with, seen) ==
  /\ AskedFor(op)
  /\ req' = [req EXCEPT ![q] = [op |-> op, pc |-> pc, on |-> on, with |-> with,
                                seen |-> seen, after |-> Ended]]

Goto(q, pc) == req' = [req EXCEPT ![q].pc = pc]
End(q) == Goto(q, "end")

(* A handler that is cut off does not reach its next statement: the client *)
(* went away and cancelled the request's context.                          *)
CutOff(q) == q \in InService /\ Goto(q, "cut")

(* A process that dies takes all its handlers with it. *)
AllCutOff ==
  req' = [q \in Request |->
            IF q \in InService THEN [req[q] EXCEPT !.pc = "cut"] ELSE req[q]]

(* Two requests that were in service at the same time, perhaps not now.    *)
Overlap(p, q) ==
  /\ p # q /\ req[p].op # "none" /\ req[q].op # "none"
  /\ p \notin req[q].after /\ q \notin req[p].after
=============================================================================
