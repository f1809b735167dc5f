----------------------------- MODULE LogStream -----------------------------
(***************************************************************************)
(* The live log stream of one job (api/logstream.go).  Handlers of the     *)
(* agent's requests write the job's row and then publish an event to the   *)
(* hub of their own replica; a client's stream reads the row, subscribes   *)
(* to the hub of the replica it is connected to, relays what is published  *)
(* there, and looks at the row again every 15 s.                           *)
(*                                                                         *)
(* What a progress event says is left out: it takes a place in a channel.  *)
(* Whatever brings the row to a terminal status is an end of the job, and  *)
(* ends are numbered: a final event is of the end that it tells.           *)
(***************************************************************************)
EXTENDS Naturals, Sequences, FiniteSets

CONSTANTS
  Replica,
  Stream,           \* the clients' connections
  Cap,              \* logStreamChanCap
  MaxRetries,       \* the retry budget of the job's flow
  MaxAttempts,      \* bound on the attempts, the operator's retries included
  OperatorActions,  \* "cancel", "retry", "delete"
  MaxOps,           \* bound on operator requests
  MaxCrashes        \* bound on restarts of replicas and of the agent

ASSUME StreamAssumption ==
  /\ Replica # {}
  /\ Cap \in Nat \ {0}
  /\ {MaxRetries, MaxAttempts, MaxOps, MaxCrashes} \subseteq Nat

VARIABLES
  row,       \* the job: its status, the ends it has had, its retry count
  attempts,  \* how often the job was given out
  encoding,  \* the agent works on the job
  beat,      \* the heartbeat being served: where, and its next step
  finish,    \* each outcome being recorded: where, what, and its next step
  stream,    \* each connection
  retried,   \* the ends taken back by an automatic retry
  ops, crashes

vars == <<row, attempts, encoding, beat, finish, stream, retried, ops, crashes>>

(* Who records an outcome: the handler of the agent's report, and that of  *)
(* a heartbeat that does not list the job any more.                        *)
Kind == {"completion", "sweep"}

Outcome  == {"done", "failed"}
Terminal == {"done", "failed", "cancelled"}
Active   == {"assigned", "running"}

(* "early": the end is still to be decided about by whoever wrote it. *)
Event    == [type: {"none", "progress", "final"}, end: Nat, early: BOOLEAN]
Nothing  == [type |-> "none", end |-> 0, early |-> FALSE]
Progress == [type |-> "progress", end |-> 0, early |-> FALSE]
Final(end, early) == [type |-> "final", end |-> end, early |-> early]

SomeReplica == CHOOSE r \in Replica : TRUE
NoBeat   == [pc |-> "none", at |-> SomeReplica]
NoFinish == [pc |-> "none", at |-> SomeReplica, status |-> "failed", end |-> 0, count |-> 0]
Closed   == [pc |-> "closed", at |-> SomeReplica, ch |-> <<>>, told |-> Nothing]

(* Every row, handler and connection is what its type says. *)
TypeOK ==
  /\ row \in [status: Terminal \cup Active \cup {"pending", "deleted"},
              end: Nat, count: 0..MaxRetries]
  /\ attempts \in 0..MaxAttempts
  /\ encoding \in BOOLEAN
  /\ beat \in [pc: {"none", "write", "publish"}, at: Replica]
  /\ finish \in [Kind -> [pc: {"none", "write", "reread", "decide", "publish"},
                          at: Replica, status: Outcome, end: Nat, count: 0..MaxRetries]]
  /\ \A s \in Stream :
       /\ stream[s].pc \in {"closed", "snapshot", "open", "ended"}
       /\ stream[s].at \in Replica
       /\ Len(stream[s].ch) <= Cap
       /\ stream[s].told \in Event
  /\ retried \subseteq [end: Nat, own: BOOLEAN]
  /\ ops \in 0..MaxOps /\ crashes \in 0..MaxCrashes

Init ==
  /\ row = [status |-> "pending", end |-> 0, count |-> 0]
  /\ attempts = 0
  /\ encoding = FALSE
  /\ beat = NoBeat
  /\ finish = [k \in Kind |-> NoFinish]
  /\ stream = [s \in Stream |-> Closed]
  /\ retried = {}
  /\ ops = 0 /\ crashes = 0

----------------------------------------------------------------------------
(* The hub.                                                                *)

(* publish: whoever is subscribed on that replica; a full channel drops. *)
Publish(r, event) ==
  stream' = [s \in Stream |->
    IF /\ stream[s].pc = "open" /\ stream[s].at = r
       /\ Len(stream[s].ch) < Cap
    THEN [stream[s] EXCEPT !.ch = Append(@, event)]
    ELSE stream[s]]

----------------------------------------------------------------------------
(* The agent and its requests.                                             *)

(* The job is given out; the farm has one slot. *)
Start ==
  /\ row.status = "pending" /\ ~encoding /\ attempts < MaxAttempts
  /\ row' = [row EXCEPT !.status = "assigned"]
  /\ attempts' = attempts + 1
  /\ encoding' = TRUE
  /\ UNCHANGED <<beat, finish, stream, retried, ops, crashes>>

(* The agent restarts, and the encode with it. *)
AgentDies ==
  /\ encoding /\ crashes < MaxCrashes
  /\ encoding' = FALSE
  /\ crashes' = crashes + 1
  /\ UNCHANGED <<row, attempts, beat, finish, stream, retried, ops>>

(* A heartbeat lists the job; its handler finds it not terminal.  The      *)
(* agent sends the next one when this one is answered.                     *)
BeatRead(r) ==
  /\ beat.pc = "none"
  /\ encoding
  /\ row.status \in Active
  /\ beat' = [pc |-> "write", at |-> r]
  /\ UNCHANGED <<row, attempts, encoding, finish, stream, retried, ops, crashes>>

(* UpdateJobStatus: no error when the guard on the status matches no row. *)
BeatWrite ==
  /\ beat.pc = "write"
  /\ row' = IF row.status \in Active THEN [row EXCEPT !.status = "running"] ELSE row
  /\ beat' = [beat EXCEPT !.pc = "publish"]
  /\ UNCHANGED <<attempts, encoding, finish, stream, retried, ops, crashes>>

BeatPublish ==
  /\ beat.pc = "publish"
  /\ Publish(beat.at, Progress)
  /\ beat' = NoBeat
  /\ UNCHANGED <<row, attempts, encoding, finish, retried, ops, crashes>>

----------------------------------------------------------------------------
(* Outcomes.                                                               *)

Recording(r, status) ==
  [pc |-> "write", at |-> r, status |-> status, end |-> 0, count |-> row.count]

(* The encode ends and its report is served by r; a job that is not its    *)
(* node's any more, or that is terminal, is answered right away.           *)
CompletionRead(r) ==
  /\ encoding /\ finish["completion"].pc = "none"
  /\ encoding' = FALSE
  /\ IF row.status \in Active
     THEN \E status \in Outcome :
            finish' = [finish EXCEPT !["completion"] = Recording(r, status)]
     ELSE UNCHANGED finish
  /\ UNCHANGED <<row, attempts, beat, stream, retried, ops, crashes>>

(* A heartbeat, served by r, does not list the job that its node has been  *)
(* running: the agent has restarted, or has given up a report that is      *)
(* still being served.                                                     *)
SweepRead(r) ==
  /\ ~encoding /\ finish["sweep"].pc = "none"
  /\ row.status = "running"
  /\ finish' = [finish EXCEPT !["sweep"] = Recording(r, "failed")]
  /\ UNCHANGED <<row, attempts, encoding, beat, stream, retried, ops, crashes>>

(* FinishJobWithReport looks at the status, and when the job has left the  *)
(* live states nothing follows; FinishJob writes any row there is.         *)
Writable(k) ==
  IF k = "completion" THEN row.status \in Active ELSE row.status # "deleted"

FinishWrite(k) ==
  /\ finish[k].pc = "write"
  /\ IF Writable(k)
     THEN row' = [row EXCEPT !.status = finish[k].status, !.end = @ + 1]
     ELSE UNCHANGED row
  /\ finish' = [finish EXCEPT ![k] =
       IF Writable(k)
       THEN [finish[k] EXCEPT !.pc = IF k = "completion" THEN "decide" ELSE "reread",
                              !.end = row.end + 1]
       ELSE NoFinish]
  /\ UNCHANGED <<attempts, encoding, beat, stream, retried, ops, crashes>>

(* The sweep reads the job again for its retry count. *)
FinishReread(k) ==
  /\ finish[k].pc = "reread"
  /\ finish' = [finish EXCEPT ![k] =
       IF row.status = "deleted" THEN NoFinish
       ELSE [finish[k] EXCEPT !.pc = "decide", !.count = row.count]]
  /\ UNCHANGED <<row, attempts, encoding, beat, stream, retried, ops, crashes>>

(* shouldAutoRetry has a retry left for a failure. *)
RetryLeft(k) == finish[k].status = "failed" /\ finish[k].count < MaxRetries

(* ScheduleJobRetry, guarded by the status alone: the end it takes back    *)
(* may be one that another handler has written since.                      *)
ScheduleJobRetry(k) ==
  IF row.status = "failed"
  THEN /\ row' = [row EXCEPT !.status = "pending", !.count = finish[k].count + 1]
       /\ retried' = retried \cup {[end |-> row.end, own |-> row.end = finish[k].end]}
  ELSE UNCHANGED <<row, retried>>

(* Mutant: the handler goes on to the final event after a retry. *)
FinishDecideAndPublish(k) ==
  /\ finish[k].pc = "decide"
  /\ finish' = [finish EXCEPT ![k].pc = "publish"]
  /\ IF RetryLeft(k) THEN ScheduleJobRetry(k) ELSE UNCHANGED <<row, retried>>
  /\ UNCHANGED <<attempts, encoding, beat, stream, ops, crashes>>

(* A failure that is retried by itself is not told. *)
FinishDecide(k) ==
  /\ finish[k].pc = "decide"
  /\ IF RetryLeft(k)
     THEN /\ ScheduleJobRetry(k)
          /\ finish' = [finish EXCEPT ![k] = NoFinish]
     ELSE /\ finish' = [finish EXCEPT ![k].pc = "publish"]
          /\ UNCHANGED <<row, retried>>
  /\ UNCHANGED <<attempts, encoding, beat, stream, ops, crashes>>

FinishPublish(k) ==
  /\ finish[k].pc = "publish"
  /\ Publish(finish[k].at, Final(finish[k].end, FALSE))
  /\ finish' = [finish EXCEPT ![k] = NoFinish]
  /\ UNCHANGED <<row, attempts, encoding, beat, retried, ops, crashes>>

----------------------------------------------------------------------------
(* A client's stream.                                                      *)

(* The end in the row is one whose handler may still take it back. *)
Undecided ==
  \E k \in Kind : finish[k].pc \in {"reread", "decide"} /\ finish[k].end = row.end

(* The final event that a reader makes of a terminal row. *)
FinalOfRow == Final(row.end, Undecided)

(* handleJobLogStream: the snapshot; a terminal job ends it right away. *)
Open(s, r) ==
  /\ stream[s].pc = "closed"
  /\ row.status # "deleted"
  /\ stream' = [stream EXCEPT ![s] =
       IF row.status \in Terminal
       THEN [pc |-> "ended", at |-> r, ch |-> <<>>, told |-> FinalOfRow]
       ELSE [pc |-> "snapshot", at |-> r, ch |-> <<>>, told |-> Progress]]
  /\ UNCHANGED <<row, attempts, encoding, beat, finish, retried, ops, crashes>>

Subscribe(s) ==
  /\ stream[s].pc = "snapshot"
  /\ stream' = [stream EXCEPT ![s].pc = "open"]
  /\ UNCHANGED <<row, attempts, encoding, beat, finish, retried, ops, crashes>>

(* An event reaches the client; a final one ends the stream. *)
Relay(s) ==
  /\ stream[s].pc = "open" /\ stream[s].ch # <<>>
  /\ LET event == Head(stream[s].ch) IN
       stream' = [stream EXCEPT ![s] =
         IF event.type = "final"
         THEN [stream[s] EXCEPT !.pc = "ended", !.ch = <<>>, !.told = event]
         ELSE [stream[s] EXCEPT !.ch = Tail(stream[s].ch), !.told = event]]
  /\ UNCHANGED <<row, attempts, encoding, beat, finish, retried, ops, crashes>>

(* Mutant: the ticker does not know that a cancelled job is over. *)
KeepaliveOutcome(s) ==
  /\ stream[s].pc = "open"
  /\ row.status \in Outcome
  /\ stream' = [stream EXCEPT ![s].pc = "ended", ![s].ch = <<>>, ![s].told = FinalOfRow]
  /\ UNCHANGED <<row, attempts, encoding, beat, finish, retried, ops, crashes>>

(* The ticker: a terminal job ends the stream, all else is a ping. *)
Keepalive(s) ==
  /\ stream[s].pc = "open"
  /\ row.status \in Terminal
  /\ stream' = [stream EXCEPT ![s].pc = "ended", ![s].ch = <<>>, ![s].told = FinalOfRow]
  /\ UNCHANGED <<row, attempts, encoding, beat, finish, retried, ops, crashes>>

(* The client leaves, or comes back after its stream has ended. *)
Leave(s) ==
  /\ stream[s].pc \in {"open", "ended"}
  /\ stream' = [stream EXCEPT ![s] = Closed]
  /\ UNCHANGED <<row, attempts, encoding, beat, finish, retried, ops, crashes>>

----------------------------------------------------------------------------
(* Operators and restarts.  None of the three requests publishes anything. *)

Operator(action) ==
  /\ action \in OperatorActions /\ ops < MaxOps
  /\ ops' = ops + 1
  /\ UNCHANGED <<attempts, encoding, beat, finish, stream, retried, crashes>>

CancelJob ==
  /\ Operator("cancel")
  /\ row.status \in {"pending", "assigned"}
  /\ row' = [row EXCEPT !.status = "cancelled", !.end = @ + 1]

(* A job in its backoff is released from it; either way the budget is new. *)
RetryJob ==
  /\ Operator("retry")
  /\ row.status \in Terminal \/ (row.status = "pending" /\ row.count > 0)
  /\ row' = [row EXCEPT !.status = "pending", !.count = 0]

DeleteJob ==
  /\ Operator("delete")
  /\ row.status \in Terminal
  /\ row' = [row EXCEPT !.status = "deleted"]

(* A replica restarts: its handlers, its hub and its connections are gone. *)
Restart(r) ==
  /\ crashes < MaxCrashes
  /\ crashes' = crashes + 1
  /\ beat' = IF beat.at = r THEN NoBeat ELSE beat
  /\ finish' = [k \in Kind |-> IF finish[k].at = r THEN NoFinish ELSE finish[k]]
  /\ stream' = [s \in Stream |-> IF stream[s].at = r THEN Closed ELSE stream[s]]
  /\ UNCHANGED <<row, attempts, encoding, retried, ops>>

Beat      == (\E r \in Replica : BeatRead(r)) \/ BeatWrite \/ BeatPublish
Begin     == \E r \in Replica : CompletionRead(r) \/ SweepRead(r)
Finish(k) == FinishWrite(k) \/ FinishReread(k) \/ FinishDecide(k) \/ FinishPublish(k)
Client(s) == (\E r \in Replica : Open(s, r)) \/ Leave(s)
Serve(s)  == Subscribe(s) \/ Relay(s) \/ Keepalive(s)

Next ==
  \/ Start \/ AgentDies \/ Beat \/ Begin
  \/ \E k \in Kind : Finish(k)
  \/ \E s \in Stream : Client(s) \/ Serve(s)
  \/ CancelJob \/ RetryJob \/ DeleteJob
  \/ \E r \in Replica : Restart(r)

Spec == Init /\ [][Next]_vars

(* A connection that is served goes on: its loop runs and its ticker ticks. *)
FairSpec == Spec /\ \A s \in Stream : WF_vars(Serve(s))

----------------------------------------------------------------------------
(* Properties.                                                             *)

(* What a client was told last, and what is on the way to it. *)
Sent(s) == {stream[s].told} \cup {stream[s].ch[i] : i \in DOMAIN stream[s].ch}

(* A failure that is retried by itself is "NOT terminal - the stream stays *)
(* open" (handlers.go): no channel event, keepalive or opening snapshot    *)
(* gives a client as the end of its job one that the handler which wrote   *)
(* it takes back, whatever comes between the failure, the decision and the *)
(* publication.  The exception are the keepalive and the snapshot that     *)
(* read the row between the failure and the decision.  An end that another *)
(* handler takes back is not meant: a late sweep may overwrite any end.    *)
OnlySettledIsFinal ==
  \A s \in Stream : \A event \in Sent(s) :
    event.type = "final" /\ [end |-> event.end, own |-> TRUE] \in retried => event.early

(* The claim without its exceptions ("NOT terminal - the stream stays      *)
(* open"): no client is told the end of an attempt that is retried by      *)
(* itself.  It does not hold; EarlyFinal.cfg shows how.                    *)
RetriedIsNeverFinal ==
  \A s \in Stream : \A event \in Sent(s) : \A taken \in retried :
    event.type = "final" => event.end # taken.end

(* A stream does not outlive its job: when the job has ended for good, the *)
(* stream is ended too, although the end was published on another replica, *)
(* before the subscription, to a full channel, or never.                   *)
StreamEnds ==
  \A s \in Stream : <>[](row.status \in Terminal) =>
    []<>(stream[s].pc \in {"closed", "ended"})
=============================================================================
