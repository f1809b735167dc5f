-------------------------- MODULE LogStream_proofs --------------------------
(***************************************************************************)
(* Proofs about the live log stream: for every number of replicas and      *)
(* connections, every size of the channel and every budget of retries,     *)
(* operator requests and restarts.                                         *)
(***************************************************************************)
EXTENDS LogStream, TLAPS

Row == [status: Terminal \cup Active \cup {"pending", "deleted"},
        end: Nat, count: 0..MaxRetries]

Heartbeat == [pc: {"none", "write", "publish"}, at: Replica]

Handler == [pc: {"none", "write", "reread", "decide", "publish"},
            at: Replica, status: Outcome, end: Nat, count: 0..MaxRetries]

Connection == [pc: {"closed", "snapshot", "open", "ended"}, at: Replica,
               ch: Seq(Event), told: Event]

(* The types of TypeOK, with those of the events in the channels. *)
RowTypes ==
  /\ row \in Row
  /\ attempts \in 0..MaxAttempts
  /\ encoding \in BOOLEAN
  /\ retried \subseteq [end: Nat, own: BOOLEAN]
  /\ ops \in 0..MaxOps /\ crashes \in 0..MaxCrashes

HandlerTypes == beat \in Heartbeat /\ finish \in [Kind -> Handler]

StreamTypes ==
  /\ stream \in [Stream -> Connection]
  /\ \A s \in Stream : Len(stream[s].ch) <= Cap

(* The handler has written its end. *)
Written(k) == finish[k].pc \in {"reread", "decide", "publish"}

(* Numbers are given once: an end that was taken back is not in the row    *)
(* again, and a handler's end is no later than the row's, no other         *)
(* handler's, and not taken back by the handler while it holds it.         *)
EndsInOrder ==
  /\ row.status \in Terminal => \A taken \in retried : taken.end # row.end
  /\ \A k \in Kind : finish[k].end <= row.end
  /\ \A taken \in retried : taken.end <= row.end
  /\ \A k \in Kind : Written(k) => [end |-> finish[k].end, own |-> TRUE] \notin retried
  /\ \A k, l \in Kind :
       k # l /\ Written(k) /\ Written(l) => finish[k].end # finish[l].end

(* A final event that was not early tells an end about which all has been  *)
(* decided, and that its handler did not take back: given the row, the     *)
(* ends taken back and the handlers.                                       *)
SettledIn(event, r, taken, handlers) ==
  event.type = "final" =>
    /\ event.end <= r.end
    /\ \/ event.early
       \/ /\ [end |-> event.end, own |-> TRUE] \notin taken
          /\ \A k \in Kind :
               handlers[k].pc \in {"reread", "decide"} => handlers[k].end # event.end

Settled(event)     == SettledIn(event, row, retried, finish)
SettledNext(event) == SettledIn(event, row', retried', finish')

FinalsSettled ==
  \A s \in Stream :
    /\ Settled(stream[s].told)
    /\ \A i \in DOMAIN stream[s].ch : Settled(stream[s].ch[i])

StreamInv == RowTypes /\ HandlerTypes /\ EndsInOrder /\ StreamTypes /\ FinalsSettled

(* What a step of the handlers has to keep. *)
OrderKept ==
  /\ RowTypes' /\ HandlerTypes' /\ EndsInOrder'
  /\ \A event \in Event : Settled(event) => SettledNext(event)

----------------------------------------------------------------------------
(* The bounds are numbers. *)
LEMMA BoundsAreNat ==
  /\ MaxRetries \in Nat /\ MaxAttempts \in Nat
  /\ MaxOps \in Nat /\ MaxCrashes \in Nat /\ Cap \in Nat \ {0}
BY StreamAssumption

(* The records that stand for nothing are of their types. *)
LEMMA EmptyTypes ==
  /\ NoBeat \in Heartbeat
  /\ NoFinish \in Handler
  /\ Closed \in Connection
  /\ NoFinish.pc = "none" /\ NoFinish.end = 0
  /\ Closed.ch = <<>> /\ Closed.told = Nothing
  /\ Nothing \in Event /\ Progress \in Event
  /\ Nothing.type # "final" /\ Progress.type # "final"
<1>1. SomeReplica \in Replica
  BY StreamAssumption DEF SomeReplica
<1>2. 0 \in Nat /\ 0 \in 0..MaxRetries
  BY BoundsAreNat
<1>3. <<>> \in Seq(Event)
  OBVIOUS
<1>4. Nothing \in Event /\ Progress \in Event
  BY <1>2 DEF Nothing, Progress, Event
<1>5. NoBeat \in Heartbeat /\ NoFinish \in Handler
  BY <1>1, <1>2 DEF NoBeat, NoFinish, Heartbeat, Handler, Outcome
<1>6. Closed \in Connection
  BY <1>1, <1>3, <1>4 DEF Closed, Connection
<1>7. /\ NoFinish.pc = "none" /\ NoFinish.end = 0
      /\ Closed.ch = <<>> /\ Closed.told = Nothing
      /\ Nothing.type # "final" /\ Progress.type # "final"
  BY DEF NoFinish, Closed, Nothing, Progress
<1>8. QED
  BY <1>4, <1>5, <1>6, <1>7

(* The two kinds are handlers, and there is no third. *)
LEMMA Kinds == Kind = {"completion", "sweep"} /\ \A k \in Kind : k = "completion" \/ k = "sweep"
BY DEF Kind

(* Everything is in order at the start. *)
LEMMA InitStreamInv == Init => StreamInv
<1>1. SUFFICES ASSUME Init PROVE StreamInv
  OBVIOUS
<1>2. RowTypes
  <2>1. row \in Row
    BY <1>1, BoundsAreNat DEF Init, Row
  <2>2. encoding \in BOOLEAN
    BY <1>1 DEF Init
  <2>3. retried \subseteq [end: Nat, own: BOOLEAN]
    BY <1>1 DEF Init
  <2>4. attempts \in 0..MaxAttempts /\ ops \in 0..MaxOps /\ crashes \in 0..MaxCrashes
    BY <1>1, BoundsAreNat DEF Init
  <2>5. QED
    BY <2>1, <2>2, <2>3, <2>4 DEF RowTypes
<1>3. HandlerTypes
  BY <1>1, EmptyTypes DEF Init, HandlerTypes
<1>4. \A k \in Kind : finish[k].pc = "none" /\ finish[k].end = 0
  BY <1>1, EmptyTypes DEF Init
<1>5. EndsInOrder
  BY <1>1, <1>4 DEF Init, EndsInOrder, Written
<1>6. StreamTypes
  BY <1>1, EmptyTypes, BoundsAreNat DEF Init, StreamTypes
<1>7. FinalsSettled
  BY <1>1, EmptyTypes DEF Init, FinalsSettled, Settled, SettledIn
<1>8. QED
  BY <1>2, <1>3, <1>5, <1>6, <1>7 DEF StreamInv

----------------------------------------------------------------------------
(* Steps of the agent, the operators and the handlers.                     *)

(* A step that gives no end a new standing: the row's number does not go   *)
(* back, a row that comes to its end has a new one, none is taken back,    *)
(* and no handler comes to hold one.                                       *)
LEMMA NothingEnds ==
  ASSUME StreamInv, RowTypes', HandlerTypes', row'.end >= row.end, UNCHANGED retried,
         row'.status \in Terminal => row'.end > row.end \/ row.status \in Terminal,
         \A k \in Kind : \/ finish'[k].end <= row.end /\ finish'[k].pc \in {"none", "write"}
                         \/ /\ finish'[k].end = finish[k].end
                            /\ finish'[k].pc = finish[k].pc
                         \/ /\ finish'[k].end = finish[k].end
                            /\ finish[k].pc \in {"reread", "decide"}
                            /\ finish'[k].pc \in {"decide", "publish"}
  PROVE  OrderKept
<1> USE DEF StreamInv, RowTypes, HandlerTypes, Row, Handler
<1>1. row.end \in Nat /\ row'.end \in Nat
  OBVIOUS
<1>2. \A k \in Kind : finish[k].end \in Nat /\ finish'[k].end \in Nat
  OBVIOUS
<1>3. \A taken \in retried : taken.end \in Nat
  OBVIOUS
<1>4. EndsInOrder'
  <2>1. \A k \in Kind : finish'[k].end <= row'.end
    BY <1>1, <1>2 DEF EndsInOrder
  <2>2. \A taken \in retried' : taken.end <= row'.end
    BY <1>1, <1>3 DEF EndsInOrder
  <2>3. \A k \in Kind : Written(k)' => Written(k) /\ finish'[k].end = finish[k].end
    BY DEF Written
  <2>4. ASSUME row'.status \in Terminal, NEW taken \in retried
        PROVE  taken.end # row'.end
    <3>1. CASE row'.end > row.end
      BY <1>1, <1>3, <3>1 DEF EndsInOrder
    <3>2. CASE row.status \in Terminal
      BY <1>1, <1>3, <2>4, <3>2 DEF EndsInOrder
    <3>3. QED
      BY <2>4, <3>1, <3>2
  <2>5. QED
    BY <2>1, <2>2, <2>3, <2>4 DEF EndsInOrder
<1>5. ASSUME NEW event \in Event, Settled(event)
      PROVE  SettledNext(event)
  <2>1. event.end \in Nat
    BY DEF Event
  <2>2. event.type = "final" => event.end <= row'.end
    BY <1>1, <1>5, <2>1 DEF Settled, SettledNext, SettledIn
  <2>3. \A k \in Kind : finish'[k].pc \in {"reread", "decide"} =>
          finish[k].pc \in {"reread", "decide"} /\ finish'[k].end = finish[k].end
    OBVIOUS
  <2>4. QED
    BY <1>5, <2>2, <2>3 DEF Settled, SettledNext, SettledIn
<1>6. QED
  BY <1>4, <1>5 DEF OrderKept

(* Dispatch and the agent's end leave the outcomes alone. *)
LEMMA AgentSteps ==
  ASSUME StreamInv, Start \/ AgentDies
  PROVE  OrderKept
<1>1. /\ UNCHANGED <<finish, retried>> /\ row'.end = row.end /\ row.end \in Nat
      /\ row'.status \in Terminal => row.status \in Terminal
  BY DEF StreamInv, RowTypes, Row, Terminal, Start, AgentDies
<1>2. RowTypes'
  <2>1. row' \in Row
    BY DEF StreamInv, RowTypes, Row, Active, Start, AgentDies
  <2>2. encoding' \in BOOLEAN
    BY DEF Start, AgentDies
  <2>3. attempts' \in 0..MaxAttempts /\ crashes' \in 0..MaxCrashes
    BY BoundsAreNat DEF StreamInv, RowTypes, Start, AgentDies
  <2>4. UNCHANGED <<retried, ops>>
    BY DEF Start, AgentDies
  <2>5. QED
    BY <2>1, <2>2, <2>3, <2>4 DEF StreamInv, RowTypes
<1>3. HandlerTypes'
  BY DEF StreamInv, HandlerTypes, Start, AgentDies
<1>4. QED
  BY <1>1, <1>2, <1>3, NothingEnds

(* So do the operators, but for a cancellation, which is an end of its own. *)
LEMMA OperatorSteps ==
  ASSUME StreamInv, CancelJob \/ RetryJob \/ DeleteJob
  PROVE  OrderKept
<1>1. UNCHANGED <<attempts, encoding, beat, finish, retried, crashes>> /\ ops' = ops + 1 /\ ops < MaxOps
  BY DEF CancelJob, RetryJob, DeleteJob, Operator
<1>2. /\ row' \in Row /\ row'.end >= row.end
      /\ row'.status \in Terminal => row'.end > row.end \/ row.status \in Terminal
  <2>1. row \in Row /\ row.end \in Nat /\ 0 \in 0..MaxRetries
    BY BoundsAreNat DEF StreamInv, RowTypes, Row
  <2>2. CASE CancelJob
    <3>1. row' = [row EXCEPT !.status = "cancelled", !.end = row.end + 1]
      BY <2>2 DEF CancelJob
    <3>2. row.end + 1 \in Nat
      BY <2>1
    <3>3. row' \in Row
      BY <2>1, <3>1, <3>2 DEF Row, Terminal
    <3>4. row'.end = row.end + 1
      BY <2>1, <3>1 DEF Row
    <3>5. QED
      BY <2>1, <3>3, <3>4
  <2>3. CASE RetryJob
    <3>1. row' = [row EXCEPT !.status = "pending", !.count = 0]
      BY <2>3 DEF RetryJob
    <3>2. row' \in Row
      BY <2>1, <3>1 DEF Row
    <3>3. row'.end = row.end /\ row'.status \notin Terminal
      BY <2>1, <3>1 DEF Row, Terminal
    <3>4. QED
      BY <2>1, <3>2, <3>3
  <2>4. CASE DeleteJob
    BY <2>1, <2>4 DEF Row, Terminal, DeleteJob
  <2>5. QED
    BY <2>2, <2>3, <2>4
<1>3. RowTypes'
  BY <1>1, <1>2, BoundsAreNat DEF StreamInv, RowTypes
<1>4. HandlerTypes'
  BY <1>1 DEF StreamInv, HandlerTypes
<1>5. QED
  BY <1>1, <1>2, <1>3, <1>4, NothingEnds

(* A heartbeat reads the row and writes its progress. *)
LEMMA BeatSteps ==
  ASSUME StreamInv, BeatWrite \/ BeatPublish \/ \E r \in Replica : BeatRead(r)
  PROVE  OrderKept
<1>1. /\ UNCHANGED <<finish, retried>> /\ row' \in Row /\ row'.end = row.end /\ row.end \in Nat
      /\ row'.status \in Terminal => row.status \in Terminal
  BY DEF StreamInv, RowTypes, Row, Active, Terminal, BeatWrite, BeatPublish, BeatRead
<1>2. RowTypes'
  BY <1>1 DEF StreamInv, RowTypes, BeatWrite, BeatPublish, BeatRead
<1>3. HandlerTypes'
  BY EmptyTypes DEF StreamInv, HandlerTypes, Heartbeat, BeatWrite, BeatPublish, BeatRead
<1>4. QED
  BY <1>1, <1>2, <1>3, NothingEnds

(* An outcome comes in. *)
LEMMA BeginSteps ==
  ASSUME StreamInv, Begin
  PROVE  OrderKept
<1>1. PICK r \in Replica : CompletionRead(r) \/ SweepRead(r)
  BY DEF Begin
<1>2. UNCHANGED <<row, attempts, beat, retried, ops, crashes>> /\ encoding' \in BOOLEAN
  BY <1>1 DEF StreamInv, RowTypes, CompletionRead, SweepRead
<1>3. \/ UNCHANGED finish
      \/ \E k \in Kind : \E status \in Outcome :
           finish' = [finish EXCEPT ![k] = Recording(r, status)]
  BY <1>1, Kinds DEF CompletionRead, SweepRead, Outcome
<1>4. ASSUME NEW status \in Outcome
      PROVE  /\ Recording(r, status) \in Handler
             /\ Recording(r, status).pc = "write" /\ Recording(r, status).end = 0
  BY DEF StreamInv, RowTypes, Row, Handler, Recording
<1>5. HandlerTypes'
  BY <1>2, <1>3, <1>4 DEF StreamInv, HandlerTypes
<1>6. RowTypes' /\ row.end \in Nat
  BY <1>2 DEF StreamInv, RowTypes, Row
<1>7. \A k \in Kind : \/ finish'[k].end = 0 /\ finish'[k].pc = "write"
                      \/ finish'[k] = finish[k]
  BY <1>3, <1>4 DEF StreamInv, HandlerTypes
<1>8. QED
  BY <1>2, <1>5, <1>6, <1>7, NothingEnds

(* An end is written: it is the latest. *)
LEMMA WriteStep ==
  ASSUME StreamInv, NEW k \in Kind, FinishWrite(k)
  PROVE  OrderKept
<1> USE DEF StreamInv
<1>0. /\ row \in Row /\ row.end \in Nat /\ finish \in [Kind -> Handler]
      /\ \A l \in Kind : finish[l] \in Handler /\ finish[l].end \in Nat
  BY DEF RowTypes, HandlerTypes, Row, Handler
<1>1. UNCHANGED <<attempts, encoding, beat, retried, ops, crashes>>
  BY DEF FinishWrite
<1>2. CASE ~Writable(k)
  <2>1. UNCHANGED row /\ finish' = [finish EXCEPT ![k] = NoFinish]
    BY <1>2 DEF FinishWrite
  <2>2. RowTypes' /\ HandlerTypes'
    BY <1>0, <1>1, <2>1, EmptyTypes DEF RowTypes, HandlerTypes
  <2>3. \A l \in Kind : \/ finish'[l].end = 0 /\ finish'[l].pc = "none"
                        \/ finish'[l] = finish[l]
    BY <1>0, <2>1, EmptyTypes
  <2>4. QED
    BY <1>0, <1>1, <2>1, <2>2, <2>3, NothingEnds
<1>3. CASE Writable(k)
  <2> DEFINE new == [finish[k] EXCEPT !.pc = IF k = "completion" THEN "decide" ELSE "reread",
                                      !.end = row.end + 1]
  <2>1. /\ row' = [row EXCEPT !.status = finish[k].status, !.end = @ + 1]
        /\ finish' = [finish EXCEPT ![k] = new]
    BY <1>3 DEF FinishWrite
  <2>2. /\ row' \in Row /\ row'.end = row.end + 1
        /\ new \in Handler /\ new.end = row.end + 1
    <3>1. finish[k] \in Handler /\ finish[k].status \in Terminal /\ row.end + 1 \in Nat
      BY <1>0 DEF Handler, Terminal, Outcome
    <3>2. row' \in Row /\ row'.end = row.end + 1
      BY <1>0, <2>1, <3>1 DEF Row
    <3>3. new \in Handler /\ new.end = row.end + 1
      BY <3>1 DEF Handler
    <3>4. QED
      BY <3>2, <3>3
  <2> HIDE DEF new
  <2>3. /\ finish' \in [Kind -> Handler] /\ finish'[k].end = row.end + 1
        /\ \A l \in Kind \ {k} : finish'[l] = finish[l]
    BY <1>0, <2>1, <2>2
  <2>4. RowTypes' /\ HandlerTypes'
    BY <1>1, <2>2, <2>3 DEF RowTypes, HandlerTypes
  <2>5. \A taken \in retried : taken.end \in Nat /\ taken.end <= row.end
    BY DEF RowTypes, EndsInOrder
  <2>6. \A l \in Kind : finish[l].end <= row.end
    BY DEF EndsInOrder
  <2>7. EndsInOrder'
    <3>1. \A l \in Kind : finish'[l].end <= row'.end
      BY <1>0, <2>2, <2>3, <2>6
    <3>2. \A taken \in retried' : taken.end <= row'.end
      BY <1>0, <1>1, <2>2, <2>5
    <3>3. [end |-> row.end + 1, own |-> TRUE] \notin retried
      BY <1>0, <2>5
    <3>4. \A l \in Kind : Written(l)' => [end |-> finish'[l].end, own |-> TRUE] \notin retried'
      BY <1>1, <2>3, <3>3 DEF EndsInOrder, Written
    <3>7. \A taken \in retried' : taken.end # row'.end
      BY <1>0, <1>1, <2>2, <2>5
    <3>5. \A l, m \in Kind :
            l # m /\ Written(l)' /\ Written(m)' => finish'[l].end # finish'[m].end
      <4>1. \A l \in Kind : finish[l].end # row.end + 1
        BY <1>0, <2>6
      <4>2. QED
        BY <2>3, <4>1 DEF EndsInOrder, Written
    <3>6. QED
      BY <3>1, <3>2, <3>4, <3>5, <3>7 DEF EndsInOrder
  <2>8. ASSUME NEW event \in Event, Settled(event)
        PROVE  SettledNext(event)
    <3>1. event.end \in Nat
      BY DEF Event
    <3>2. event.type = "final" => event.end <= row'.end /\ event.end # finish'[k].end
      BY <1>0, <2>2, <2>3, <2>8, <3>1 DEF Settled, SettledNext, SettledIn
    <3>3. QED
      BY <1>1, <2>3, <2>8, <3>2 DEF Settled, SettledNext, SettledIn
  <2>9. QED
    BY <2>4, <2>7, <2>8 DEF OrderKept
<1>4. QED
  BY <1>2, <1>3

(* The sweep reads the row again. *)
LEMMA RereadStep ==
  ASSUME StreamInv, NEW k \in Kind, FinishReread(k)
  PROVE  OrderKept
<1> USE DEF StreamInv
<1>0. /\ row \in Row /\ row.end \in Nat /\ finish \in [Kind -> Handler]
      /\ finish[k] \in Handler /\ finish[k].pc = "reread"
  BY DEF RowTypes, HandlerTypes, Row, FinishReread
<1>1. UNCHANGED <<row, attempts, encoding, beat, retried, ops, crashes>>
  BY DEF FinishReread
<1>2. RowTypes'
  BY <1>1 DEF RowTypes
<1>3. PICK new \in Handler :
        /\ finish' = [finish EXCEPT ![k] = new]
        /\ \/ new.end = 0 /\ new.pc = "none"
           \/ new.end = finish[k].end /\ new.pc = "decide"
  <2>1. CASE finish' = [finish EXCEPT ![k] = NoFinish]
    BY <2>1, EmptyTypes
  <2>2. CASE finish' = [finish EXCEPT ![k] = [finish[k] EXCEPT !.pc = "decide", !.count = row.count]]
    <3>1. [finish[k] EXCEPT !.pc = "decide", !.count = row.count] \in Handler
      BY <1>0 DEF Handler, Row
    <3>2. /\ [finish[k] EXCEPT !.pc = "decide", !.count = row.count].pc = "decide"
          /\ [finish[k] EXCEPT !.pc = "decide", !.count = row.count].end = finish[k].end
      BY <1>0 DEF Handler
    <3>3. QED
      BY <2>2, <3>1, <3>2
  <2>3. QED
    BY <2>1, <2>2 DEF FinishReread
<1>4. HandlerTypes'
  BY <1>0, <1>1, <1>3 DEF HandlerTypes
<1>5. /\ finish'[k] = new
      /\ \A l \in Kind \ {k} : finish'[l] = finish[l]
  BY <1>0, <1>3
<1>6. QED
  BY <1>0, <1>1, <1>2, <1>3, <1>4, <1>5, NothingEnds

(* What a handler decides: to let the end be told, or to take back what    *)
(* the row says, and then to go.                                           *)
LEMMA DecideStep ==
  ASSUME StreamInv, NEW k \in Kind, FinishDecide(k)
  PROVE  OrderKept
<1> USE DEF StreamInv
<1>0. /\ row \in Row /\ row.end \in Nat /\ finish \in [Kind -> Handler]
      /\ \A l \in Kind : finish[l] \in Handler /\ finish[l].end \in Nat
      /\ finish[k].pc = "decide"
  BY DEF RowTypes, HandlerTypes, Row, Handler, FinishDecide
<1>1. UNCHANGED <<attempts, encoding, beat, ops, crashes>>
  BY DEF FinishDecide
<1>2. CASE ~RetryLeft(k)
  <2> DEFINE new == [finish[k] EXCEPT !.pc = "publish"]
  <2>1. finish' = [finish EXCEPT ![k] = new] /\ UNCHANGED <<row, retried>>
    BY <1>2 DEF FinishDecide
  <2>2. new \in Handler /\ new.end = finish[k].end /\ new.pc = "publish"
    BY <1>0 DEF Handler
  <2> HIDE DEF new
  <2>3. RowTypes' /\ HandlerTypes'
    BY <1>0, <1>1, <2>1, <2>2 DEF RowTypes, HandlerTypes
  <2>4. finish'[k] = new /\ \A l \in Kind \ {k} : finish'[l] = finish[l]
    BY <1>0, <2>1
  <2>5. QED
    BY <1>0, <2>1, <2>2, <2>3, <2>4, NothingEnds
<1>3. CASE RetryLeft(k)
  <2>1. /\ finish' = [finish EXCEPT ![k] = NoFinish]
        /\ ScheduleJobRetry(k)
    BY <1>3 DEF FinishDecide
  <2>2. /\ HandlerTypes'
        /\ finish'[k].pc = "none" /\ finish'[k].end = 0
        /\ \A l \in Kind \ {k} : finish'[l] = finish[l]
    BY <1>0, <1>1, <2>1, EmptyTypes DEF HandlerTypes
  <2>3. CASE row.status # "failed"
    <3>1. UNCHANGED <<row, retried>>
      BY <2>1, <2>3 DEF ScheduleJobRetry
    <3>2. RowTypes'
      BY <1>1, <3>1 DEF RowTypes
    <3>3. QED
      BY <1>0, <2>2, <3>1, <3>2, NothingEnds
  <2>4. CASE row.status = "failed"
    <3> DEFINE taken == [end |-> row.end, own |-> row.end = finish[k].end]
    <3>1. /\ row' = [row EXCEPT !.status = "pending", !.count = finish[k].count + 1]
          /\ retried' = retried \cup {taken}
      BY <2>1, <2>4 DEF ScheduleJobRetry
    <3>2. finish[k].count + 1 \in 0..MaxRetries
      BY <1>0, <1>3, BoundsAreNat DEF Handler, RetryLeft
    <3>3. row' \in Row /\ row'.end = row.end /\ row'.status \notin Terminal
      BY <1>0, <3>1, <3>2 DEF Row, Terminal
    <3>4. /\ taken \in [end: Nat, own: BOOLEAN] /\ taken.end = row.end
          /\ taken.own => row.end = finish[k].end
      BY <1>0
    <3> HIDE DEF taken
    <3>5. RowTypes'
      BY <1>1, <3>1, <3>3, <3>4 DEF RowTypes
    <3>6. ASSUME NEW end, [end |-> end, own |-> TRUE] \in retried'
          PROVE  [end |-> end, own |-> TRUE] \in retried \/ end = finish[k].end
      <4>1. CASE [end |-> end, own |-> TRUE] = taken
        <5>1. taken.end = end /\ taken.own
          BY <4>1
        <5>2. QED
          BY <3>4, <5>1
      <4>2. QED
        BY <3>1, <3>6, <4>1
    <3>7. EndsInOrder'
      <4>1. \A l \in Kind : finish'[l].end <= row'.end
        BY <1>0, <2>2, <3>3 DEF EndsInOrder
      <4>2. \A t \in retried' : t.end <= row'.end
        BY <1>0, <3>1, <3>3, <3>4 DEF EndsInOrder
      <4>3. \A l \in Kind : Written(l)' => l # k /\ Written(l)
        BY <2>2 DEF Written
      <4>4. Written(k)
        BY <1>0 DEF Written
      <4>5. \A l \in Kind : Written(l)' => [end |-> finish'[l].end, own |-> TRUE] \notin retried'
        BY <2>2, <3>6, <4>3, <4>4 DEF EndsInOrder
      <4>6. \A l, m \in Kind :
              l # m /\ Written(l)' /\ Written(m)' => finish'[l].end # finish'[m].end
        BY <2>2, <4>3 DEF EndsInOrder
      <4>7. QED
        BY <3>3, <4>1, <4>2, <4>5, <4>6 DEF EndsInOrder
    <3>8. ASSUME NEW event \in Event, Settled(event)
          PROVE  SettledNext(event)
      <4>1. event.type = "final" => event.end <= row'.end
        BY <3>3, <3>8 DEF Settled, SettledNext, SettledIn
      <4>2. ASSUME event.type = "final", ~event.early
            PROVE  [end |-> event.end, own |-> TRUE] \notin retried'
        <5>1. event.end # finish[k].end
          BY <1>0, <3>8, <4>2 DEF Settled, SettledNext, SettledIn
        <5>2. [end |-> event.end, own |-> TRUE] \notin retried
          BY <3>8, <4>2 DEF Settled, SettledNext, SettledIn
        <5>3. QED
          BY <3>6, <5>1, <5>2
      <4>3. ASSUME event.type = "final", ~event.early
            PROVE  \A l \in Kind :
                     finish'[l].pc \in {"reread", "decide"} => finish'[l].end # event.end
        BY <2>2, <3>8, <4>3 DEF Settled, SettledNext, SettledIn
      <4>4. QED
        BY <4>1, <4>2, <4>3 DEF Settled, SettledNext, SettledIn
    <3>9. QED
      BY <2>2, <3>5, <3>7, <3>8 DEF OrderKept
  <2>5. QED
    BY <2>3, <2>4
<1>4. QED
  BY <1>2, <1>3

(* A handler goes when it has published, or with its replica. *)
LEMMA LeavingStep ==
  ASSUME StreamInv,
         UNCHANGED <<row, attempts, encoding, retried, ops>>, crashes' \in 0..MaxCrashes,
         beat' \in Heartbeat, finish' \in [Kind -> Handler],
         \A k \in Kind : finish'[k] = NoFinish \/ finish'[k] = finish[k]
  PROVE  OrderKept
<1>1. RowTypes' /\ HandlerTypes' /\ row.end \in Nat
  BY DEF StreamInv, RowTypes, HandlerTypes, Row
<1>2. \A k \in Kind : \/ finish'[k].end = 0 /\ finish'[k].pc = "none"
                      \/ finish'[k] = finish[k]
  BY EmptyTypes
<1>3. QED
  BY <1>1, <1>2, NothingEnds

----------------------------------------------------------------------------
(* Steps of the hub and of the connections.                                *)

(* Channels that are not touched stay in order. *)
LEMMA ChannelsKeep ==
  ASSUME StreamInv, UNCHANGED stream, OrderKept
  PROVE  StreamInv'
<1>1. ASSUME NEW s \in Stream
      PROVE  /\ stream[s].told \in Event
             /\ \A i \in DOMAIN stream[s].ch : stream[s].ch[i] \in Event
  <2>1. stream[s] \in Connection
    BY DEF StreamInv, StreamTypes
  <2>2. stream[s].told \in Event /\ stream[s].ch \in Seq(Event)
    BY <2>1 DEF Connection
  <2>3. QED
    BY <2>2
<1>2. FinalsSettled'
  BY <1>1 DEF StreamInv, FinalsSettled, OrderKept, Settled, SettledNext
<1>3. QED
  BY <1>2 DEF StreamInv, StreamTypes, OrderKept

(* A connection holds what it held, takes one event more into its channel  *)
(* when there is room, is told its first, or holds nothing.                *)
LEMMA ConnectionsKeep ==
  ASSUME StreamInv, OrderKept, stream' \in [Stream -> Connection],
         \A s \in Stream :
           /\ \/ stream'[s].told = stream[s].told
              \/ SettledNext(stream'[s].told)
              \/ stream[s].ch # <<>> /\ stream'[s].told = Head(stream[s].ch)
           /\ \/ stream'[s].ch = <<>>
              \/ stream'[s].ch = stream[s].ch
              \/ stream[s].ch # <<>> /\ stream'[s].ch = Tail(stream[s].ch)
              \/ \E event \in Event : /\ SettledNext(event)
                                      /\ Len(stream[s].ch) < Cap
                                      /\ stream'[s].ch = Append(stream[s].ch, event)
  PROVE  StreamInv'
<1>1. ASSUME NEW s \in Stream
      PROVE  /\ Len(stream'[s].ch) <= Cap
             /\ SettledNext(stream'[s].told)
             /\ \A i \in DOMAIN stream'[s].ch : SettledNext(stream'[s].ch[i])
  <2>1. stream[s] \in Connection /\ Len(stream[s].ch) <= Cap
    BY DEF StreamInv, StreamTypes
  <2>2. stream[s].ch \in Seq(Event) /\ stream[s].told \in Event
    BY <2>1 DEF Connection
  <2>3. \A i \in DOMAIN stream[s].ch : stream[s].ch[i] \in Event /\ SettledNext(stream[s].ch[i])
    BY <2>2 DEF StreamInv, FinalsSettled, OrderKept
  <2>4. SettledNext(stream'[s].told)
    <3>1. CASE stream'[s].told = stream[s].told
      <4>1. \A event \in Event : event = stream[s].told => SettledNext(event)
        BY <2>2 DEF StreamInv, FinalsSettled, OrderKept
      <4>2. QED
        BY <2>2, <3>1, <4>1
    <3>2. CASE stream[s].ch # <<>> /\ stream'[s].told = Head(stream[s].ch)
      <4>1. 1 \in DOMAIN stream[s].ch /\ stream'[s].told = stream[s].ch[1]
        BY <2>2, <3>2
      <4>2. QED
        BY <2>3, <4>1
    <3>3. QED
      BY <3>1, <3>2
  <2>5. CASE stream'[s].ch = <<>>
    BY <2>4, <2>5, BoundsAreNat
  <2>6. CASE stream'[s].ch = stream[s].ch
    BY <2>1, <2>3, <2>4, <2>6
  <2>7. CASE stream[s].ch # <<>> /\ stream'[s].ch = Tail(stream[s].ch)
    <3>1. Len(stream'[s].ch) = Len(stream[s].ch) - 1 /\ Len(stream[s].ch) \in Nat
      BY <2>2, <2>7
    <3>2. \A i \in DOMAIN stream'[s].ch :
            i + 1 \in DOMAIN stream[s].ch /\ stream'[s].ch[i] = stream[s].ch[i + 1]
      BY <2>2, <2>7
    <3>3. Len(stream'[s].ch) <= Cap
      BY <2>1, <3>1, BoundsAreNat
    <3>4. QED
      BY <2>3, <2>4, <3>2, <3>3
  <2>8. ASSUME NEW event \in Event, SettledNext(event), Len(stream[s].ch) < Cap,
               stream'[s].ch = Append(stream[s].ch, event)
        PROVE  /\ Len(stream'[s].ch) <= Cap
               /\ \A i \in DOMAIN stream'[s].ch : SettledNext(stream'[s].ch[i])
    <3>1. Len(stream'[s].ch) = Len(stream[s].ch) + 1 /\ Len(stream[s].ch) \in Nat
      BY <2>2, <2>8
    <3>2. \A i \in DOMAIN stream'[s].ch :
            \/ stream'[s].ch[i] = event
            \/ i \in DOMAIN stream[s].ch /\ stream'[s].ch[i] = stream[s].ch[i]
      BY <2>2, <2>8
    <3>3. Len(stream'[s].ch) <= Cap
      BY <2>8, <3>1, BoundsAreNat
    <3>4. QED
      BY <2>3, <2>8, <3>2, <3>3
  <2>9. QED
    BY <2>4, <2>5, <2>6, <2>7, <2>8
<1>2. StreamTypes' /\ FinalsSettled'
  BY <1>1 DEF StreamTypes, FinalsSettled, Settled, SettledNext
<1>3. QED
  BY <1>2 DEF StreamInv, OrderKept

(* A channel that has room takes the event. *)
LEMMA PublishKeeps ==
  ASSUME StreamInv, OrderKept, NEW r \in Replica, NEW event \in Event, Publish(r, event),
         SettledNext(event)
  PROVE  StreamInv'
<1>1. ASSUME NEW s \in Stream
      PROVE  /\ stream'[s] \in Connection
             /\ stream'[s].told = stream[s].told
             /\ \/ stream'[s].ch = stream[s].ch
                \/ /\ Len(stream[s].ch) < Cap
                   /\ stream'[s].ch = Append(stream[s].ch, event)
  <2>1. stream[s] \in Connection /\ stream[s].ch \in Seq(Event)
    BY DEF StreamInv, StreamTypes, Connection
  <2>2. CASE stream'[s] = stream[s]
    BY <2>1, <2>2
  <2>3. CASE /\ Len(stream[s].ch) < Cap
             /\ stream'[s] = [stream[s] EXCEPT !.ch = Append(@, event)]
    <3> DEFINE longer == Append(stream[s].ch, event)
    <3>1. longer \in Seq(Event) /\ stream'[s] = [stream[s] EXCEPT !.ch = longer]
      BY <2>1, <2>3
    <3> HIDE DEF longer
    <3>2. /\ stream'[s] \in Connection /\ stream'[s].ch = longer
          /\ stream'[s].told = stream[s].told
      BY <2>1, <3>1 DEF Connection
    <3>3. QED
      BY <2>3, <3>2 DEF longer
  <2>4. QED
    BY <2>2, <2>3 DEF Publish
<1>2. stream' \in [Stream -> Connection]
  BY <1>1 DEF Publish
<1>3. QED
  BY <1>1, <1>2, ConnectionsKeep

(* Progress is published. *)
LEMMA BeatPublishStep ==
  ASSUME StreamInv, BeatPublish
  PROVE  StreamInv'
<1>1. beat.at \in Replica /\ Progress \in Event /\ SettledNext(Progress)
  BY EmptyTypes DEF StreamInv, HandlerTypes, Heartbeat, SettledNext, SettledIn
<1>2. OrderKept
  BY BeatSteps
<1>3. QED
  BY <1>1, <1>2, PublishKeeps DEF BeatPublish

(* An end is published: its handler has decided, and no other has that end. *)
LEMMA FinishPublishStep ==
  ASSUME StreamInv, NEW k \in Kind, FinishPublish(k)
  PROVE  StreamInv'
<1>0. /\ finish \in [Kind -> Handler] /\ finish[k] \in Handler /\ row.end \in Nat
      /\ finish[k].at \in Replica /\ finish[k].end \in Nat /\ finish[k].end <= row.end
  BY DEF StreamInv, RowTypes, HandlerTypes, EndsInOrder, Row, Handler
<1>1. /\ finish' = [finish EXCEPT ![k] = NoFinish]
      /\ UNCHANGED <<row, attempts, encoding, beat, retried, ops, crashes>>
  BY DEF FinishPublish
<1>2. /\ finish' \in [Kind -> Handler] /\ finish'[k] = NoFinish
      /\ \A l \in Kind \ {k} : finish'[l] = finish[l]
  BY <1>0, <1>1, EmptyTypes
<1>3. OrderKept
  BY <1>1, <1>2, LeavingStep DEF StreamInv, RowTypes, HandlerTypes
<1> DEFINE event == Final(finish[k].end, FALSE)
<1>4. event \in Event /\ event.end = finish[k].end
  BY <1>0 DEF Final, Event
<1>5. [end |-> finish[k].end, own |-> TRUE] \notin retried
  BY DEF StreamInv, EndsInOrder, Written, FinishPublish
<1>6. \A l \in Kind : finish'[l].pc \in {"reread", "decide"} => finish'[l].end # finish[k].end
  BY <1>2, EmptyTypes DEF StreamInv, EndsInOrder, Written, FinishPublish
<1>7. ASSUME NEW e \in Event, e.end = finish[k].end
      PROVE  SettledNext(e)
  BY <1>0, <1>1, <1>5, <1>6, <1>7 DEF Settled, SettledNext, SettledIn
<1>8. ASSUME NEW e \in Event, e = event
      PROVE  StreamInv'
  <2>1. Publish(finish[k].at, e) /\ SettledNext(e)
    BY <1>4, <1>7, <1>8 DEF FinishPublish
  <2>2. QED
    BY <1>0, <1>3, <2>1, PublishKeeps
<1>9. QED
  BY <1>4, <1>8

(* A reader of a terminal row tells an end that is settled, or tells it    *)
(* early.                                                                  *)
LEMMA FinalOfRowSettled ==
  ASSUME StreamInv, row.status \in Terminal
  PROVE  FinalOfRow \in Event /\ Settled(FinalOfRow)
<1>1. row.end \in Nat
  BY DEF StreamInv, RowTypes, Row
<1>2. Undecided \in BOOLEAN
  BY DEF Undecided
<1>3. /\ FinalOfRow \in Event /\ FinalOfRow.end = row.end
      /\ FinalOfRow.early = Undecided
  BY <1>1, <1>2 DEF FinalOfRow, Final, Event
<1>4. ASSUME ~Undecided
      PROVE  \A k \in Kind : finish[k].pc \in {"reread", "decide"} => finish[k].end # row.end
  BY <1>4 DEF Undecided
<1>5. [end |-> row.end, own |-> TRUE] \notin retried
  BY DEF StreamInv, EndsInOrder
<1>6. QED
  BY <1>1, <1>3, <1>4, <1>5 DEF Settled, SettledIn

(* The loop that serves a connection, and its client. *)
LEMMA ClientSteps ==
  ASSUME StreamInv, NEW s \in Stream, Client(s) \/ Serve(s)
  PROVE  StreamInv'
<1>1. UNCHANGED <<row, attempts, encoding, beat, finish, retried, ops, crashes>>
  BY DEF Client, Serve, Open, Leave, Subscribe, Relay, Keepalive
<1>2. OrderKept
  BY <1>1, LeavingStep DEF StreamInv, RowTypes, HandlerTypes
<1>3. \A event \in Event : Settled(event) => SettledNext(event)
  BY <1>2 DEF OrderKept
<1>4. /\ stream \in [Stream -> Connection] /\ stream[s] \in Connection
      /\ stream[s].ch \in Seq(Event) /\ stream[s].told \in Event /\ <<>> \in Seq(Event)
      /\ SettledNext(Nothing) /\ SettledNext(Progress)
  BY EmptyTypes DEF StreamInv, StreamTypes, Connection, SettledNext, SettledIn
<1>5. ASSUME NEW new \in Connection, stream' = [stream EXCEPT ![s] = new],
             \/ new.told = stream[s].told
             \/ SettledNext(new.told)
             \/ stream[s].ch # <<>> /\ new.told = Head(stream[s].ch),
             \/ new.ch = <<>>
             \/ new.ch = stream[s].ch
             \/ stream[s].ch # <<>> /\ new.ch = Tail(stream[s].ch)
      PROVE  StreamInv'
  <2>1. stream' \in [Stream -> Connection] /\ stream'[s] = new
    BY <1>4, <1>5
  <2>2. \A t \in Stream \ {s} : stream'[t] = stream[t]
    BY <1>4, <1>5
  <2>3. QED
    BY <1>2, <1>5, <2>1, <2>2, ConnectionsKeep
<1>6. ASSUME NEW r \in Replica, Open(s, r)
      PROVE  StreamInv'
  <2>1. CASE row.status \in Terminal
    <3> DEFINE new == [pc |-> "ended", at |-> r, ch |-> <<>>, told |-> FinalOfRow]
    <3>1. stream' = [stream EXCEPT ![s] = new]
      BY <1>6, <2>1 DEF Open
    <3>2. FinalOfRow \in Event /\ SettledNext(FinalOfRow)
      BY <1>3, <2>1, FinalOfRowSettled
    <3>3. new \in Connection /\ new.ch = <<>> /\ new.told = FinalOfRow
      BY <1>4, <3>2 DEF Connection
    <3> HIDE DEF new
    <3>4. QED
      BY <1>5, <3>1, <3>2, <3>3
  <2>2. CASE row.status \notin Terminal
    <3> DEFINE new == [pc |-> "snapshot", at |-> r, ch |-> <<>>, told |-> Progress]
    <3>1. stream' = [stream EXCEPT ![s] = new]
      BY <1>6, <2>2 DEF Open
    <3>2. new \in Connection /\ new.ch = <<>> /\ new.told = Progress
      BY <1>4, EmptyTypes DEF Connection
    <3> HIDE DEF new
    <3>3. QED
      BY <1>4, <1>5, <3>1, <3>2
  <2>3. QED
    BY <2>1, <2>2
<1>7. CASE Subscribe(s)
  <2> DEFINE new == [stream[s] EXCEPT !.pc = "open"]
  <2>1. new \in Connection /\ new.ch = stream[s].ch /\ new.told = stream[s].told
    BY <1>4 DEF Connection
  <2>2. stream' = [stream EXCEPT ![s] = new]
    BY <1>7 DEF Subscribe
  <2> HIDE DEF new
  <2>3. QED
    BY <1>5, <2>1, <2>2
<1>8. CASE Relay(s)
  <2> DEFINE event == Head(stream[s].ch)
             rest == Tail(stream[s].ch)
             ended == [stream[s] EXCEPT !.pc = "ended", !.ch = <<>>, !.told = event]
             shown == [stream[s] EXCEPT !.ch = rest, !.told = event]
  <2>1. stream[s].ch # <<>> /\ event \in Event /\ rest \in Seq(Event)
    BY <1>4, <1>8 DEF Relay
  <2>2. \/ stream' = [stream EXCEPT ![s] = ended]
        \/ stream' = [stream EXCEPT ![s] = shown]
    <3>1. stream' = [stream EXCEPT ![s] = IF event.type = "final" THEN ended ELSE shown]
      BY <1>8 DEF Relay
    <3>2. QED
      BY <3>1, Zenon
  <2> HIDE DEF event, rest
  <2>3. ended \in Connection /\ ended.ch = <<>> /\ ended.told = event
    BY <1>4, <2>1 DEF Connection
  <2>4. shown \in Connection /\ shown.ch = rest /\ shown.told = event
    BY <1>4, <2>1 DEF Connection
  <2> HIDE DEF ended, shown
  <2>5. QED
    BY <1>5, <2>1, <2>2, <2>3, <2>4 DEF event, rest
<1>9. CASE Keepalive(s)
  <2> DEFINE new == [stream[s] EXCEPT !.pc = "ended", !.ch = <<>>, !.told = FinalOfRow]
  <2>1. FinalOfRow \in Event /\ SettledNext(FinalOfRow)
    BY <1>3, <1>9, FinalOfRowSettled DEF Keepalive
  <2>2. new \in Connection /\ new.ch = <<>> /\ new.told = FinalOfRow
    BY <1>4, <2>1 DEF Connection
  <2>3. stream' = [stream EXCEPT ![s] = new]
    BY <1>4, <1>9 DEF Keepalive
  <2> HIDE DEF new
  <2>4. QED
    BY <1>5, <2>1, <2>2, <2>3
<1>10. CASE Leave(s)
  BY <1>4, <1>5, <1>10, EmptyTypes DEF Leave
<1>11. QED
  BY <1>6, <1>7, <1>8, <1>9, <1>10 DEF Client, Serve

(* A replica that restarts forgets. *)
LEMMA RestartStep ==
  ASSUME StreamInv, NEW r \in Replica, Restart(r)
  PROVE  StreamInv'
<1>1. crashes' \in 0..MaxCrashes /\ UNCHANGED <<row, attempts, encoding, retried, ops>>
  BY BoundsAreNat DEF StreamInv, RowTypes, Restart
<1>2. beat' \in Heartbeat
  BY EmptyTypes DEF StreamInv, HandlerTypes, Restart
<1>3. /\ \A k \in Kind : finish'[k] = NoFinish \/ finish'[k] = finish[k]
      /\ finish' \in [Kind -> Handler]
  BY EmptyTypes DEF StreamInv, HandlerTypes, Restart
<1>4. OrderKept
  BY <1>1, <1>2, <1>3, LeavingStep
<1>5. \A s \in Stream : stream'[s] = stream[s] \/ stream'[s] = Closed
  BY DEF Restart
<1>6. stream' \in [Stream -> Connection]
  BY EmptyTypes DEF StreamInv, StreamTypes, Restart
<1>7. SettledNext(Closed.told)
  BY EmptyTypes DEF SettledNext, SettledIn
<1>8. QED
  BY <1>4, <1>5, <1>6, <1>7, EmptyTypes, ConnectionsKeep

(* Every step keeps the invariant. *)
LEMMA NextStreamInv == StreamInv /\ [Next]_vars => StreamInv'
<1>1. SUFFICES ASSUME StreamInv, [Next]_vars PROVE StreamInv'
  OBVIOUS
<1>2. CASE UNCHANGED vars
  BY <1>1, <1>2 DEF vars, StreamInv, RowTypes, HandlerTypes, EndsInOrder, Written, StreamTypes,
     FinalsSettled, Settled, SettledIn
<1>3. CASE Start \/ AgentDies
  <2>1. UNCHANGED stream
    BY <1>3 DEF Start, AgentDies
  <2>2. QED
    BY <1>1, <1>3, <2>1, AgentSteps, ChannelsKeep
<1>4. CASE CancelJob \/ RetryJob \/ DeleteJob
  <2>1. UNCHANGED stream
    BY <1>4 DEF CancelJob, RetryJob, DeleteJob, Operator
  <2>2. QED
    BY <1>1, <1>4, <2>1, OperatorSteps, ChannelsKeep
<1>5. CASE Beat
  <2>1. CASE BeatWrite \/ \E r \in Replica : BeatRead(r)
    <3>1. UNCHANGED stream
      BY <2>1 DEF BeatWrite, BeatRead
    <3>2. QED
      BY <1>1, <2>1, <3>1, BeatSteps, ChannelsKeep
  <2>2. QED
    BY <1>1, <1>5, <2>1, BeatPublishStep DEF Beat
<1>6. CASE Begin
  <2>1. UNCHANGED stream
    BY <1>6 DEF Begin, CompletionRead, SweepRead
  <2>2. QED
    BY <1>1, <1>6, <2>1, BeginSteps, ChannelsKeep
<1>7. ASSUME NEW k \in Kind, Finish(k)
      PROVE  StreamInv'
  <2>1. CASE FinishWrite(k)
    BY <1>1, <2>1, WriteStep, ChannelsKeep DEF FinishWrite
  <2>2. CASE FinishReread(k)
    BY <1>1, <2>2, RereadStep, ChannelsKeep DEF FinishReread
  <2>3. CASE FinishDecide(k)
    BY <1>1, <2>3, DecideStep, ChannelsKeep DEF FinishDecide
  <2>4. QED
    BY <1>1, <1>7, <2>1, <2>2, <2>3, FinishPublishStep DEF Finish
<1>8. CASE \E s \in Stream : Client(s) \/ Serve(s)
  BY <1>1, <1>8, ClientSteps
<1>9. CASE \E r \in Replica : Restart(r)
  BY <1>1, <1>9, RestartStep
<1>10. QED
  BY <1>1, <1>2, <1>3, <1>4, <1>5, <1>6, <1>7, <1>8, <1>9 DEF Next

----------------------------------------------------------------------------
(* The invariant, and with it the types of all rows, handlers, channels.   *)
THEOREM StreamInvHolds == Spec => []StreamInv
<1>1. QED
  BY InitStreamInv, NextStreamInv, PTL DEF Spec

(* Whoever sends it, the channel, the keepalive or the opening snapshot: a *)
(* final event is not of an end that the handler which wrote it takes back *)
(* by an automatic retry, unless the row was read before that handler had  *)
(* decided.                                                                *)
THEOREM OnlySettledIsEverFinal == Spec => []OnlySettledIsFinal
<1>1. StreamInv => OnlySettledIsFinal
  BY DEF StreamInv, FinalsSettled, Settled, SettledIn, OnlySettledIsFinal, Sent
<1>2. QED
  BY StreamInvHolds, <1>1, PTL

(* Type correctness. *)
THEOREM StreamTypesHold == Spec => []TypeOK
<1>1. StreamInv => TypeOK
  BY DEF StreamInv, RowTypes, HandlerTypes, StreamTypes, Row, Heartbeat, Handler, Connection,
     TypeOK
<1>2. QED
  BY StreamInvHolds, <1>1, PTL
=============================================================================
