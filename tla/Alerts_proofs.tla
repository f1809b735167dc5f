---------------------------- MODULE Alerts_proofs ----------------------------
(***************************************************************************)
(* Proofs about the alerts: that no job alert is doubled or dropped, that  *)
(* node and disk alerts have their causes, that types are kept, and that   *)
(* both loops elect their leaders; for every number of replicas, of        *)
(* outcomes and of faults of both loops.                                   *)
(***************************************************************************)
EXTENDS Alerts, FiniteSetTheorems, TLAPS

Phase == {"none", "decide", "push", "post", "over"}

DigestTypes ==
  /\ request \in [Outcome -> [pc: Phase, at: Replica]]
  /\ buffer \in [Replica -> SUBSET Outcome]
  /\ draining \in [Replica -> SUBSET Outcome]
  /\ told \in [Outcome -> Nat]
  /\ excused \subseteq Outcome

(* The replicas that hold k in f, which is buffer or draining. *)
Holding(k, f) == {r \in Replica : k \in f[r]}

(* Where an outcome is: with the request, in a buffer, with a flush, with  *)
(* the operators, or given up.  Until the job has ended it is nowhere.     *)
InRequest(k) == IF request[k].pc \in {"decide", "push", "post"} THEN 1 ELSE 0
Buffered(k)  == Cardinality(Holding(k, buffer))
Drained(k)   == Cardinality(Holding(k, draining))
GivenUp(k)   == IF k \in excused THEN 1 ELSE 0
Ended(k)     == IF request[k].pc = "none" THEN 0 ELSE 1

Conserved ==
  \A k \in Outcome : told[k] + InRequest(k) + Buffered(k) + Drained(k) + GivenUp(k) = Ended(k)

DigestInv == DigestTypes /\ Conserved

----------------------------------------------------------------------------
(* Holders are finitely many. *)
LEMMA HoldersFinite ==
  ASSUME NEW k, NEW f
  PROVE  IsFiniteSet(Holding(k, f)) /\ Cardinality(Holding(k, f)) \in Nat
<1>1. Holding(k, f) \subseteq Replica
  BY DEF Holding
<1>2. QED
  BY <1>1, AlertsAssumption, FS_Subset, FS_CardinalityType

(* A replica that comes by k is one holder more. *)
LEMMA HolderJoins ==
  ASSUME NEW k, NEW f, NEW g, NEW r \in Replica, k \notin f[r], k \in g[r],
         \A s \in Replica \ {r} : g[s] = f[s]
  PROVE  Cardinality(Holding(k, g)) = Cardinality(Holding(k, f)) + 1
<1>1. Holding(k, g) = Holding(k, f) \cup {r} /\ r \notin Holding(k, f)
  BY DEF Holding
<1>2. QED
  BY <1>1, HoldersFinite, FS_AddElement

(* One that loses k is one less. *)
LEMMA HolderLeaves ==
  ASSUME NEW k, NEW f, NEW g, NEW r \in Replica, k \in f[r], k \notin g[r],
         \A s \in Replica \ {r} : g[s] = f[s]
  PROVE  Cardinality(Holding(k, g)) = Cardinality(Holding(k, f)) - 1
<1>1. Cardinality(Holding(k, f)) = Cardinality(Holding(k, g)) + 1
  BY HolderJoins
<1>2. QED
  BY <1>1, HoldersFinite

(* Otherwise they are as many as before. *)
LEMMA HoldersSame ==
  ASSUME NEW k, NEW f, NEW g, \A r \in Replica : k \in g[r] <=> k \in f[r]
  PROVE  Cardinality(Holding(k, g)) = Cardinality(Holding(k, f))
<1>1. Holding(k, g) = Holding(k, f)
  BY DEF Holding
<1>2. QED
  BY <1>1

(* A replica that has k is counted. *)
LEMMA HolderCounts ==
  ASSUME NEW k, NEW f, NEW r \in Replica, k \in f[r]
  PROVE  Cardinality(Holding(k, f)) >= 1
<1>1. Holding(k, f) # {}
  BY DEF Holding
<1>2. QED
  BY <1>1, HoldersFinite, FS_EmptySet

(* The places of an outcome are counted by numbers. *)
LEMMA Parts ==
  ASSUME DigestTypes, NEW k \in Outcome
  PROVE  /\ told[k] \in Nat /\ Buffered(k) \in Nat /\ Drained(k) \in Nat
         /\ InRequest(k) \in {0, 1} /\ GivenUp(k) \in {0, 1} /\ Ended(k) \in {0, 1}
BY HoldersFinite DEF DigestTypes, Buffered, Drained, InRequest, GivenUp, Ended

(* An outcome that is in one place is in no other. *)
LEMMA OnePlace ==
  ASSUME DigestInv, NEW k \in Outcome
  PROVE  /\ InRequest(k) = 1 \/ Ended(k) = 0 =>
              told[k] = 0 /\ Buffered(k) = 0 /\ Drained(k) = 0 /\ k \notin excused
         /\ \A r \in Replica : k \in buffer[r] =>
              Buffered(k) = 1 /\ Drained(k) = 0 /\ InRequest(k) = 0 /\ k \notin excused
         /\ \A r \in Replica : k \in draining[r] =>
              Buffered(k) = 0 /\ Drained(k) = 1 /\ InRequest(k) = 0 /\ k \notin excused
<1>1. \A r \in Replica : k \in buffer[r] => Buffered(k) >= 1
  BY HolderCounts DEF Buffered
<1>2. \A r \in Replica : k \in draining[r] => Drained(k) >= 1
  BY HolderCounts DEF Drained
<1>3. k \in excused => GivenUp(k) = 1
  BY DEF GivenUp
<1>4. /\ told[k] \in Nat /\ Buffered(k) \in Nat /\ Drained(k) \in Nat
      /\ InRequest(k) \in Nat /\ GivenUp(k) \in Nat
  BY Parts DEF DigestInv
<1>5. /\ InRequest(k) = 1 \/ Ended(k) = 0 =>
           told[k] = 0 /\ Buffered(k) = 0 /\ Drained(k) = 0 /\ GivenUp(k) = 0
      /\ Buffered(k) >= 1 =>
           Buffered(k) = 1 /\ Drained(k) = 0 /\ InRequest(k) = 0 /\ GivenUp(k) = 0
      /\ Drained(k) >= 1 =>
           Buffered(k) = 0 /\ Drained(k) = 1 /\ InRequest(k) = 0 /\ GivenUp(k) = 0
  <2> DEFINE a == told[k]
             b == InRequest(k)
             c == Buffered(k)
             d == Drained(k)
             e == GivenUp(k)
             f == Ended(k)
  <2>1. /\ a \in Nat /\ b \in Nat /\ c \in Nat /\ d \in Nat /\ e \in Nat
        /\ a + b + c + d + e = f /\ f \in {0, 1}
    BY <1>4, Parts DEF DigestInv, Conserved
  <2> HIDE DEF a, b, c, d, e, f
  <2>2. /\ b = 1 \/ f = 0 => a = 0 /\ c = 0 /\ d = 0 /\ e = 0
        /\ c >= 1 => c = 1 /\ d = 0 /\ b = 0 /\ e = 0
        /\ d >= 1 => c = 0 /\ d = 1 /\ b = 0 /\ e = 0
    BY <2>1
  <2>3. QED
    BY <2>2 DEF a, b, c, d, e, f
<1>6. GivenUp(k) = 0 => k \notin excused
  BY <1>3
<1>7. QED
  BY <1>1, <1>2, <1>5, <1>6

----------------------------------------------------------------------------
(* The end of a job, and what its request decides or posts. *)
LEMMA RequestSteps ==
  ASSUME DigestInv, NEW k \in Outcome,
         Notify(k) \/ Post(k) \/ \E r \in Replica : JobFinished(k, r)
  PROVE  DigestInv'
<1> USE DEF DigestInv
<1>1. DigestTypes'
  <2>1. CASE Notify(k)
    BY <2>1 DEF DigestTypes, Phase, Notify
  <2>2. CASE Post(k)
    BY <2>2 DEF DigestTypes, Phase, Post, Posted
  <2>3. CASE \E r \in Replica : JobFinished(k, r)
    BY <2>3 DEF DigestTypes, Phase, JobFinished
  <2>4. QED
    BY <2>1, <2>2, <2>3
<1>2. UNCHANGED <<buffer, draining>>
  BY DEF Notify, Post, JobFinished
<1>3. \A m \in Outcome : UNCHANGED <<Buffered(m), Drained(m)>>
  BY <1>2 DEF Buffered, Drained
<1>4. ASSUME NEW m \in Outcome, m # k
      PROVE  UNCHANGED <<told[m], InRequest(m), GivenUp(m), Ended(m)>>
  BY <1>4 DEF DigestTypes, Notify, Post, Posted, JobFinished, InRequest, GivenUp, Ended
<1>5. /\ Buffered(k) = 0 /\ Drained(k) = 0 /\ Ended(k)' = 1
      /\ told'[k] + InRequest(k)' + GivenUp(k)' = 1
  <2>1. CASE Notify(k)
    <3>1. /\ request[k].pc = "decide" /\ told[k] = 0 /\ k \notin excused /\ told' = told
          /\ Buffered(k) = 0 /\ Drained(k) = 0
      BY <2>1, OnePlace DEF Notify, InRequest
    <3>2. CASE request' = [request EXCEPT ![k].pc = "over"] /\ excused' = excused \cup {k}
      <4>1. request'[k].pc = "over" /\ k \in excused'
        BY <3>2 DEF DigestTypes
      <4>2. QED
        BY <3>1, <4>1 DEF InRequest, GivenUp, Ended
    <3>3. CASE (\E pc \in {"push", "post"} : request' = [request EXCEPT ![k].pc = pc])
               /\ UNCHANGED excused
      <4>1. request'[k].pc \in {"push", "post"} /\ k \notin excused'
        BY <3>1, <3>3 DEF DigestTypes
      <4>2. QED
        BY <3>1, <4>1 DEF InRequest, GivenUp, Ended
    <3>4. QED
      BY <2>1, <3>2, <3>3 DEF Notify
  <2>2. CASE Post(k)
    <3>1. /\ told[k] = 0 /\ k \notin excused /\ request'[k].pc = "over"
          /\ Buffered(k) = 0 /\ Drained(k) = 0
      BY <2>2, OnePlace DEF Post, InRequest, DigestTypes
    <3>2. \/ told'[k] = 1 /\ k \notin excused'
          \/ told'[k] = 0 /\ k \in excused'
      BY <2>2, <3>1 DEF Post, Posted
    <3>3. QED
      BY <3>1, <3>2 DEF InRequest, GivenUp, Ended
  <2>3. CASE \E r \in Replica : JobFinished(k, r)
    <3>1. /\ told[k] = 0 /\ k \notin excused /\ request'[k].pc = "decide"
          /\ Buffered(k) = 0 /\ Drained(k) = 0 /\ UNCHANGED <<told, excused>>
      BY <2>3, OnePlace DEF JobFinished, Ended, DigestTypes
    <3>2. QED
      BY <3>1 DEF InRequest, GivenUp, Ended
  <2>4. QED
    BY <2>1, <2>2, <2>3
<1>6. ASSUME NEW m \in Outcome
      PROVE  told'[m] + InRequest(m)' + Buffered(m)' + Drained(m)' + GivenUp(m)' = Ended(m)'
  <2>1. CASE m = k
    <3>1. Buffered(k)' = 0 /\ Drained(k)' = 0
      BY <1>3, <1>5
    <3>2. told'[k] \in Nat /\ InRequest(k)' \in Nat /\ GivenUp(k)' \in Nat
      BY <1>1 DEF DigestTypes, InRequest, GivenUp
    <3>3. told'[k] + InRequest(k)' + 0 + 0 + GivenUp(k)' = 1
      BY <1>5, <3>2
    <3>4. QED
      BY <1>5, <2>1, <3>1, <3>3
  <2>2. CASE m # k
    BY <1>3, <1>4, <2>2 DEF Conserved
  <2>3. QED
    BY <2>1, <2>2
<1>7. QED
  BY <1>1, <1>6 DEF Conserved

(* An outcome is put into the buffer of the replica that served the report. *)
LEMMA PushStep == ASSUME DigestInv, NEW k \in Outcome, Push(k) PROVE DigestInv'
<1> USE DEF DigestInv
<1>1. /\ request[k].pc = "push" /\ request[k].at \in Replica
      /\ buffer' = [buffer EXCEPT ![request[k].at] = @ \cup {k}]
      /\ request' = [request EXCEPT ![k].pc = "over"]
      /\ UNCHANGED <<draining, told, excused>>
  BY DEF Push, DigestTypes
<1>2. DigestTypes'
  BY <1>1 DEF DigestTypes, Phase
<1>3. ASSUME NEW m \in Outcome
      PROVE  /\ InRequest(m)' + Buffered(m)' = InRequest(m) + Buffered(m)
             /\ UNCHANGED <<told[m], Drained(m), GivenUp(m), Ended(m)>>
  <2>1. CASE m = k
    <3>1. InRequest(k) = 1 /\ InRequest(k)' = 0 /\ UNCHANGED Ended(k)
      BY <1>1 DEF InRequest, Ended, DigestTypes
    <3>2. k \notin buffer[request[k].at]
      BY <1>1, <3>1, OnePlace
    <3>3. k \in buffer'[request[k].at]
      BY <1>1 DEF DigestTypes
    <3>4. \A s \in Replica \ {request[k].at} : buffer'[s] = buffer[s]
      BY <1>1 DEF DigestTypes
    <3>5. Buffered(k)' = Buffered(k) + 1
      BY <1>1, <3>2, <3>3, <3>4, HolderJoins DEF Buffered
    <3>6. QED
      BY <1>1, <2>1, <3>1, <3>5, Parts DEF Drained, GivenUp
  <2>2. CASE m # k
    <3>1. \A r \in Replica : m \in buffer'[r] <=> m \in buffer[r]
      BY <1>1, <2>2 DEF DigestTypes
    <3>2. Buffered(m)' = Buffered(m)
      BY <3>1, HoldersSame DEF Buffered
    <3>3. QED
      BY <1>1, <2>2, <3>2 DEF InRequest, Drained, GivenUp, Ended, DigestTypes
  <2>3. QED
    BY <2>1, <2>2
<1>4. QED
  <2>1. ASSUME NEW m \in Outcome
        PROVE  told'[m] + InRequest(m)' + Buffered(m)' + Drained(m)' + GivenUp(m)' = Ended(m)'
    <3>1. InRequest(m)' \in {0, 1} /\ Buffered(m)' \in Nat
      BY HoldersFinite DEF InRequest, Buffered
    <3>2. told[m] + InRequest(m) + Buffered(m) + Drained(m) + GivenUp(m) = Ended(m)
      BY DEF Conserved
    <3>3. QED
      BY <1>3, <3>1, <3>2, Parts
  <2>2. QED
    BY <1>2, <2>1 DEF Conserved

(* A flush takes the buffer ... *)
LEMMA DrainStep == ASSUME DigestInv, NEW r \in Replica, Drain(r) PROVE DigestInv'
<1> USE DEF DigestInv
<1>1. /\ draining' = [draining EXCEPT ![r] = buffer[r]]
      /\ buffer' = [buffer EXCEPT ![r] = {}]
      /\ draining[r] = {}
      /\ UNCHANGED <<request, told, excused>>
  BY DEF Drain
<1>2. DigestTypes'
  BY <1>1 DEF DigestTypes
<1>3. /\ buffer'[r] = {} /\ draining'[r] = buffer[r]
      /\ \A s \in Replica \ {r} : buffer'[s] = buffer[s] /\ draining'[s] = draining[s]
  BY <1>1 DEF DigestTypes
<1>4. ASSUME NEW k \in Outcome
      PROVE  Buffered(k)' + Drained(k)' = Buffered(k) + Drained(k)
  <2>1. CASE k \in buffer[r]
    <3>1. Buffered(k)' = Buffered(k) - 1
      BY <1>3, <2>1, HolderLeaves DEF Buffered
    <3>2. Drained(k)' = Drained(k) + 1
      <4>1. k \notin draining[r] /\ k \in draining'[r]
        BY <1>1, <1>3, <2>1
      <4>2. QED
        BY <1>3, <4>1, HolderJoins DEF Drained
    <3>3. /\ told[k] \in Nat /\ Buffered(k) \in Nat /\ Drained(k) \in Nat
          /\ InRequest(k) \in {0, 1} /\ GivenUp(k) \in {0, 1} /\ Ended(k) \in {0, 1}
      BY Parts
    <3>4. QED
      BY <3>1, <3>2, <3>3
  <2>2. CASE k \notin buffer[r]
    <3>1. Buffered(k)' = Buffered(k)
      BY <1>3, <2>2, HoldersSame DEF Buffered
    <3>2. Drained(k)' = Drained(k)
      <4>1. \A s \in Replica : k \in draining'[s] <=> k \in draining[s]
        BY <1>1, <1>3, <2>2
      <4>2. QED
        BY <4>1, HoldersSame DEF Drained
    <3>3. QED
      BY <3>1, <3>2
  <2>3. QED
    BY <2>1, <2>2
<1>5. ASSUME NEW k \in Outcome
      PROVE  told'[k] + InRequest(k)' + Buffered(k)' + Drained(k)' + GivenUp(k)' = Ended(k)'
  <2>1. UNCHANGED <<told[k], InRequest(k), GivenUp(k), Ended(k)>>
    BY <1>1 DEF InRequest, GivenUp, Ended
  <2>2. Buffered(k)' \in Nat /\ Drained(k)' \in Nat
    BY HoldersFinite DEF Buffered, Drained
  <2>3. told[k] + InRequest(k) + Buffered(k) + Drained(k) + GivenUp(k) = Ended(k)
    BY DEF Conserved
  <2>4. /\ told[k] \in Nat /\ Buffered(k) \in Nat /\ Drained(k) \in Nat
        /\ InRequest(k) \in {0, 1} /\ GivenUp(k) \in {0, 1} /\ Ended(k) \in {0, 1}
    BY Parts
  <2>5. QED
    BY <1>4, <2>1, <2>2, <2>3, <2>4
<1>6. QED
  BY <1>2, <1>5 DEF Conserved

(* ... and posts what it took, which arrives or does not. *)
LEMMA FlushStep == ASSUME DigestInv, NEW r \in Replica, Flush(r) PROVE DigestInv'
<1> USE DEF DigestInv
<1>1. /\ draining' = [draining EXCEPT ![r] = {}]
      /\ Posted(draining[r])
      /\ UNCHANGED <<request, buffer>>
  BY DEF Flush
<1>2. DigestTypes'
  BY <1>1 DEF DigestTypes, Posted
<1>3. draining'[r] = {} /\ \A s \in Replica \ {r} : draining'[s] = draining[s]
  BY <1>1 DEF DigestTypes
<1>4. ASSUME NEW k \in Outcome
      PROVE  told'[k] + Drained(k)' + GivenUp(k)' = told[k] + Drained(k) + GivenUp(k)
  <2>1. CASE k \in draining[r]
    <3>1. Drained(k)' = Drained(k) - 1
      BY <1>3, <2>1, HolderLeaves DEF Drained
    <3>2. k \notin excused
      BY <2>1, OnePlace
    <3>3. told'[k] + GivenUp(k)' = told[k] + GivenUp(k) + 1
      BY <1>1, <2>1, <3>2, Parts DEF Posted, GivenUp
    <3>4. told'[k] \in Nat /\ GivenUp(k)' \in {0, 1}
      BY <1>2 DEF DigestTypes, GivenUp
    <3>5. QED
      BY <3>1, <3>3, <3>4, Parts
  <2>2. CASE k \notin draining[r]
    <3>1. Drained(k)' = Drained(k)
      BY <1>3, <2>2, HoldersSame DEF Drained
    <3>2. told'[k] = told[k] /\ GivenUp(k)' = GivenUp(k)
      BY <1>1, <2>2, Parts DEF Posted, GivenUp
    <3>3. QED
      BY <3>1, <3>2
  <2>3. QED
    BY <2>1, <2>2
<1>5. ASSUME NEW k \in Outcome
      PROVE  told'[k] + InRequest(k)' + Buffered(k)' + Drained(k)' + GivenUp(k)' = Ended(k)'
  <2>1. UNCHANGED <<InRequest(k), Buffered(k), Ended(k)>>
    BY <1>1 DEF InRequest, Buffered, Ended
  <2>2. told'[k] \in Nat /\ GivenUp(k)' \in {0, 1} /\ Drained(k)' \in Nat
    BY <1>2, HoldersFinite DEF DigestTypes, GivenUp, Drained
  <2>3. told[k] + InRequest(k) + Buffered(k) + Drained(k) + GivenUp(k) = Ended(k)
    BY DEF Conserved
  <2>4. QED
    BY <1>4, <2>1, <2>2, <2>3, Parts
<1>6. QED
  BY <1>2, <1>5 DEF Conserved

(* A process that goes away takes its requests, its buffer and its flush   *)
(* with it, and nothing else.                                              *)
LEMMA ForgetStep == ASSUME DigestInv, NEW r \in Replica, Forget(r) PROVE DigestInv'
<1> USE DEF DigestInv
<1> DEFINE served == {k \in Outcome :
                        request[k].at = r /\ request[k].pc \notin {"none", "over"}}
           lost == served \cup buffer[r] \cup draining[r]
<1>1. /\ request' = [k \in Outcome |->
           IF k \in served THEN [request[k] EXCEPT !.pc = "over"] ELSE request[k]]
      /\ excused' = excused \cup lost
      /\ buffer' = [buffer EXCEPT ![r] = {}]
      /\ draining' = [draining EXCEPT ![r] = {}]
      /\ UNCHANGED told
  BY DEF Forget
<1>2. DigestTypes'
  BY <1>1 DEF DigestTypes, Phase
<1>3. /\ buffer'[r] = {} /\ draining'[r] = {}
      /\ \A s \in Replica \ {r} : buffer'[s] = buffer[s] /\ draining'[s] = draining[s]
  BY <1>1 DEF DigestTypes
<1>4. ASSUME NEW k \in Outcome
      PROVE  /\ InRequest(k)' = IF k \in served THEN 0 ELSE InRequest(k)
             /\ Buffered(k)' = IF k \in buffer[r] THEN Buffered(k) - 1 ELSE Buffered(k)
             /\ Drained(k)' = IF k \in draining[r] THEN Drained(k) - 1 ELSE Drained(k)
             /\ GivenUp(k)' = IF k \in lost THEN 1 ELSE GivenUp(k)
             /\ UNCHANGED <<told[k], Ended(k)>>
  <2>1. InRequest(k)' = IF k \in served THEN 0 ELSE InRequest(k)
    BY <1>1 DEF InRequest, DigestTypes, Phase
  <2>2. Buffered(k)' = IF k \in buffer[r] THEN Buffered(k) - 1 ELSE Buffered(k)
    BY <1>3, HolderLeaves, HoldersSame DEF Buffered
  <2>3. Drained(k)' = IF k \in draining[r] THEN Drained(k) - 1 ELSE Drained(k)
    BY <1>3, HolderLeaves, HoldersSame DEF Drained
  <2>4. GivenUp(k)' = IF k \in lost THEN 1 ELSE GivenUp(k)
    BY <1>1 DEF GivenUp
  <2>5. UNCHANGED <<told[k], Ended(k)>>
    BY <1>1 DEF Ended, DigestTypes, Phase
  <2>6. QED
    BY <2>1, <2>2, <2>3, <2>4, <2>5
<1>5. ASSUME NEW k \in Outcome
      PROVE  told'[k] + InRequest(k)' + Buffered(k)' + Drained(k)' + GivenUp(k)' = Ended(k)'
  <2>1. told[k] + InRequest(k) + Buffered(k) + Drained(k) + GivenUp(k) = Ended(k)
    BY DEF Conserved
  <2>2. k \in served => InRequest(k) = 1
    BY DEF InRequest, DigestTypes, Phase
  <2>3. k \notin excused => GivenUp(k) = 0
    BY DEF GivenUp
  <2> HIDE DEF served
  <2>4. CASE k \in served
    BY <1>4, <2>1, <2>2, <2>3, <2>4, OnePlace, Parts
  <2>5. CASE k \in buffer[r]
    BY <1>4, <2>1, <2>2, <2>3, <2>5, OnePlace, Parts
  <2>6. CASE k \in draining[r]
    BY <1>4, <2>1, <2>2, <2>3, <2>6, OnePlace, Parts
  <2>7. CASE k \notin lost
    BY <1>4, <2>1, <2>7
  <2>8. QED
    BY <2>4, <2>5, <2>6, <2>7
<1>6. QED
  BY <1>2, <1>5 DEF Conserved

(* Every step conserves the outcomes. *)
LEMMA NextDigestInv == DigestInv /\ [Next]_vars => DigestInv'
<1>1. SUFFICES ASSUME DigestInv, [Next]_vars PROVE DigestInv'
  OBVIOUS
<1>2. CASE UNCHANGED digestVars
  <2>1. UNCHANGED <<request, buffer, draining, told, excused>>
    BY <1>2 DEF digestVars
  <2>2. QED
    BY <1>1, <2>1 DEF DigestInv, DigestTypes, Conserved, InRequest, Buffered, Drained,
       GivenUp, Ended
<1>3. UNCHANGED vars => UNCHANGED digestVars
  BY DEF vars
<1>4. Flip \/ Database \/ (\E a \in sending : Send(a)) => UNCHANGED digestVars
  BY DEF Flip, Database, Send
<1>5. ASSUME NEW r \in Replica,
             Tick(r) \/ CheckDisk(r) \/ DigestLoop(r) \/ AlertLoop(r)
               \/ TerminateProcess(r)
      PROVE  UNCHANGED digestVars
  BY <1>5 DEF Tick, CheckDisk, DigestLoop, AlertLoop, TerminateProcess
<1>6. ASSUME NEW r \in Replica, CrashProcess(r) \/ BootProcess(r)
      PROVE  DigestInv'
  BY <1>1, <1>6, ForgetStep DEF CrashProcess, BootProcess
<1>7. QED
  BY <1>1, <1>2, <1>3, <1>4, <1>5, <1>6, RequestSteps, PushStep, DrainStep, FlushStep
  DEF Next

(* At the start no job has ended, and no outcome is anywhere. *)
LEMMA InitDigestInv == Init => DigestInv
<1>1. SUFFICES ASSUME Init PROVE DigestInv
  OBVIOUS
<1>2. NoRequest \in [pc: Phase, at: Replica] /\ NoRequest.pc = "none"
  <2>1. (CHOOSE r \in Replica : TRUE) \in Replica
    BY AlertsAssumption
  <2>2. QED
    BY <2>1 DEF NoRequest, Phase
<1>3. DigestTypes
  BY <1>1, <1>2 DEF Init, DigestTypes
<1>4. ASSUME NEW k \in Outcome
      PROVE  told[k] + InRequest(k) + Buffered(k) + Drained(k) + GivenUp(k) = Ended(k)
  <2>1. Holding(k, buffer) = {} /\ Holding(k, draining) = {}
    BY <1>1 DEF Init, Holding
  <2>2. Buffered(k) = 0 /\ Drained(k) = 0
    BY <2>1, FS_EmptySet DEF Buffered, Drained
  <2>3. told[k] = 0 /\ InRequest(k) = 0 /\ GivenUp(k) = 0 /\ Ended(k) = 0
    BY <1>1, <1>2 DEF Init, InRequest, GivenUp, Ended
  <2>4. QED
    BY <2>2, <2>3
<1>5. QED
  BY <1>3, <1>4 DEF DigestInv, Conserved

----------------------------------------------------------------------------
(* An outcome is told once at most, and until then somebody still has it   *)
(* unless its process went away: on every replica, whatever becomes of the *)
(* lock of either loop.                                                    *)
THEOREM NothingIsEverDropped == Spec => []NothingDropped
<1>1. DigestInv => NothingDropped
  <2>1. SUFFICES ASSUME DigestInv, NEW k \in Outcome, request[k].pc # "none"
                 PROVE  told[k] + (InRequest(k) + Buffered(k) + Drained(k)) + GivenUp(k) = 1
    BY Zenon DEF NothingDropped, InRequest, Buffered, Drained, GivenUp, Holding
  <2>2. told[k] + InRequest(k) + Buffered(k) + Drained(k) + GivenUp(k) = 1
    BY <2>1 DEF DigestInv, Conserved, Ended
  <2>3. QED
    BY <2>1, <2>2, Parts DEF DigestInv
<1>2. QED
  BY InitDigestInv, NextDigestInv, <1>1, PTL DEF Spec

----------------------------------------------------------------------------
(* Disk alerts and their causes.                                           *)

(* The fault that ends a process is counted before its cooldowns go, and   *)
(* pays for the alert that it may have sent meanwhile.                     *)
Stopped == {r \in Replica : phase[r] \in {"stopping", "down"}}
Cooling == quiet \ Stopped
LastWords == {r \in Stopped : Up(r) /\ r \notin quiet}

DiskInv ==
  /\ phase \in [Replica -> {"standby", "leading", "draining", "stopping", "down"}]
  /\ alertPhase \in [Replica -> {"standby", "leading", "draining", "stopping", "down"}]
  /\ faults \in Nat
  /\ \A r \in Replica : r \in Stopped <=> alertPhase[r] \in {"stopping", "down"}
  /\ quiet \subseteq Replica /\ lowDisk \in Nat
  /\ lowDisk + Cardinality(LastWords) <= Cardinality(Cooling) + faults

----------------------------------------------------------------------------
(* Most steps leave the loop of the node alerts alone, or what it knows.   *)
LEMMA AlertSteps ==
  ASSUME Next
  PROVE  \/ UNCHANGED <<alertLead, nodeVars>>
         \/ UNCHANGED alertLead /\ (Flip \/ \E r \in Replica : Tick(r))
         \/ UNCHANGED alertLead /\ \E a \in sending : Send(a)
         \/ \E r \in Replica : AlertLoop(r)
         \/ \E r \in Replica : Alert!Terminate(r) /\ UNCHANGED nodeVars
         \/ \E r \in Replica : (Alert!Crash(r) \/ Alert!Boot(r)) /\ Forget(r)
         \/ Alert!SessionEnds /\ UNCHANGED nodeVars
<1>1. ASSUME NEW k \in Outcome,
             Notify(k) \/ Push(k) \/ Post(k) \/ \E r \in Replica : JobFinished(k, r)
      PROVE  UNCHANGED <<alertLead, nodeVars>>
  BY <1>1 DEF Notify, Push, Post, JobFinished
<1>2. ASSUME NEW r \in Replica, Drain(r) \/ Flush(r) \/ CheckDisk(r) \/ DigestLoop(r)
      PROVE  UNCHANGED <<alertLead, nodeVars>>
  BY <1>2 DEF Drain, Flush, CheckDisk, DigestLoop
<1>3. /\ \A r \in Replica : Tick(r) => UNCHANGED alertLead
      /\ \A a \in sending : Send(a) => UNCHANGED alertLead
  BY DEF Tick, Send
<1>4. Flip => UNCHANGED alertLead
  BY DEF Flip
<1>5. \A r \in Replica : TerminateProcess(r) => Alert!Terminate(r) /\ UNCHANGED nodeVars
  BY DEF TerminateProcess
<1>6. \A r \in Replica :
        /\ CrashProcess(r) => Alert!Crash(r) /\ Forget(r)
        /\ BootProcess(r) => Alert!Boot(r) /\ Forget(r)
  BY DEF CrashProcess, BootProcess
<1>7. Database => \/ UNCHANGED <<alertLead, nodeVars>>
                  \/ Alert!SessionEnds /\ UNCHANGED nodeVars
  BY DEF Database
<1> QED
  BY <1>1, <1>2, <1>3, <1>4, <1>5, <1>6, <1>7 DEF Next

----------------------------------------------------------------------------
(* Sets of replicas, counted. *)
LEMMA Counts ==
  ASSUME NEW S \in SUBSET Replica, NEW T \in SUBSET Replica, NEW r
  PROVE  /\ Cardinality(S) \in Nat /\ Cardinality(T) \in Nat
         /\ T \subseteq S => Cardinality(T) <= Cardinality(S)
         /\ T \subseteq S \cup {r} => Cardinality(T) <= Cardinality(S) + 1
         /\ r \in S /\ T \subseteq S \ {r} => Cardinality(T) + 1 <= Cardinality(S)
<1>1. IsFiniteSet(S) /\ IsFiniteSet(T) /\ Cardinality(S) \in Nat /\ Cardinality(T) \in Nat
  BY AlertsAssumption, FS_Subset, FS_CardinalityType
<1>2. ASSUME T \subseteq S PROVE Cardinality(T) <= Cardinality(S)
  BY <1>1, <1>2, FS_Subset
<1>3. ASSUME T \subseteq S \cup {r} PROVE Cardinality(T) <= Cardinality(S) + 1
  <2>1. /\ IsFiniteSet(S \cup {r})
        /\ Cardinality(S \cup {r}) = (IF r \in S THEN Cardinality(S) ELSE Cardinality(S) + 1)
    BY <1>1, FS_AddElement
  <2>2. Cardinality(T) <= Cardinality(S \cup {r})
    BY <1>3, <2>1, FS_Subset
  <2> QED
    BY <1>1, <2>1, <2>2
<1>4. ASSUME r \in S, T \subseteq S \ {r} PROVE Cardinality(T) + 1 <= Cardinality(S)
  <2>1. IsFiniteSet(S \ {r}) /\ Cardinality(S \ {r}) = Cardinality(S) - 1
    BY <1>1, <1>4, FS_RemoveElement
  <2>2. Cardinality(T) <= Cardinality(S \ {r})
    BY <1>4, <2>1, FS_Subset
  <2> QED
    BY <1>1, <2>1, <2>2
<1> QED
  BY <1>1, <1>2, <1>3, <1>4

(* Most steps leave the cooldowns and the processes alone. *)
LEMMA DiskSteps ==
  ASSUME Next
  PROVE  \/ UNCHANGED <<leaderVars, alertLead, diskVars>>
         \/ UNCHANGED <<leaderVars, alertLead>> /\ \E r \in Replica : CheckDisk(r)
         \/ UNCHANGED diskVars /\ \E r \in Replica : DigestLoop(r) \/ AlertLoop(r)
         \/ UNCHANGED diskVars /\ \E r \in Replica : Terminate(r) /\ Alert!Terminate(r)
         \/ \E r \in Replica : CrashProcess(r) \/ BootProcess(r)
         \/ UNCHANGED <<phase, alertPhase, faults, diskVars>>
<1>1. ASSUME NEW k \in Outcome,
             Notify(k) \/ Push(k) \/ Post(k) \/ \E r \in Replica : JobFinished(k, r)
      PROVE  UNCHANGED <<leaderVars, alertLead, diskVars>>
  BY <1>1 DEF Notify, Push, Post, JobFinished
<1>2. ASSUME NEW r \in Replica, Drain(r) \/ Flush(r) \/ Tick(r)
      PROVE  UNCHANGED <<leaderVars, alertLead, diskVars>>
  BY <1>2 DEF Drain, Flush, Tick
<1>3. /\ Flip => UNCHANGED <<leaderVars, alertLead, diskVars>>
      /\ \A a \in sending : Send(a) => UNCHANGED <<leaderVars, alertLead, diskVars>>
  BY DEF Flip, Send
<1>4. \A r \in Replica : CheckDisk(r) => UNCHANGED <<leaderVars, alertLead>>
  BY DEF CheckDisk
<1>5. \A r \in Replica : DigestLoop(r) \/ AlertLoop(r) => UNCHANGED diskVars
  BY DEF DigestLoop, AlertLoop
<1>6. \A r \in Replica :
        TerminateProcess(r) => UNCHANGED diskVars /\ Terminate(r) /\ Alert!Terminate(r)
  BY DEF TerminateProcess
<1>7. Database => UNCHANGED <<phase, alertPhase, faults, diskVars>>
  BY DEF Database, SessionEnds, Alert!SessionEnds, alertLead
<1> QED
  BY <1>1, <1>2, <1>3, <1>4, <1>5, <1>6, <1>7 DEF Next

(* While nothing is posted and no process ends, fewer may have last words, *)
(* and no fewer are cooling.                                               *)
LEMMA DiskCalm ==
  ASSUME DiskInv, UNCHANGED diskVars, Stopped' = Stopped, faults' \in Nat, faults' >= faults,
         phase' \in [Replica -> {"standby", "leading", "draining", "stopping", "down"}],
         alertPhase' \in [Replica -> {"standby", "leading", "draining", "stopping", "down"}],
         \A r \in Replica : r \in Stopped' <=> alertPhase'[r] \in {"stopping", "down"},
         \A r \in Replica : Up(r)' => Up(r)
  PROVE  DiskInv'
<1>1. LastWords' \subseteq LastWords /\ Cooling' = Cooling
  BY DEF LastWords, Cooling, diskVars, Stopped
<1>2. LastWords' \subseteq Replica /\ LastWords \subseteq Replica /\ Cooling \subseteq Replica
  BY DEF LastWords, Cooling, Stopped, DiskInv
<1>3. Cardinality(LastWords') <= Cardinality(LastWords) /\ Cardinality(LastWords) \in Nat
      /\ Cardinality(LastWords') \in Nat /\ Cardinality(Cooling) \in Nat
  BY <1>1, <1>2, Counts
<1>4. lowDisk' + Cardinality(LastWords') <= Cardinality(Cooling') + faults'
  BY <1>1, <1>3 DEF DiskInv, diskVars
<1> QED
  BY <1>4 DEF DiskInv, diskVars

(* The fault of a process that ends pays for the cooldown that goes, or    *)
(* for the alert that may still come.                                      *)
LEMMA DiskStep ==
  ASSUME DiskInv, Next
  PROVE  DiskInv'
<1>1. /\ phase \in [Replica -> {"standby", "leading", "draining", "stopping", "down"}]
      /\ alertPhase \in [Replica -> {"standby", "leading", "draining", "stopping", "down"}]
      /\ \A r \in Replica : r \in Stopped <=> alertPhase[r] \in {"stopping", "down"}
      /\ faults \in Nat /\ quiet \subseteq Replica /\ lowDisk \in Nat
      /\ lowDisk + Cardinality(LastWords) <= Cardinality(Cooling) + faults
  BY DEF DiskInv
<1>2. LastWords \subseteq Replica /\ Cooling \subseteq Replica
      /\ Cardinality(LastWords) \in Nat /\ Cardinality(Cooling) \in Nat
  <2>1. LastWords \subseteq Replica /\ Cooling \subseteq Replica
    BY <1>1 DEF LastWords, Cooling, Stopped
  <2> QED
    BY <2>1, Counts
<1>3. CASE UNCHANGED <<phase, alertPhase, faults, diskVars>>
  <2>1. Stopped' = Stopped /\ (\A r \in Replica : Up(r)' => Up(r))
    BY <1>3 DEF Stopped, Up
  <2> QED
    BY <1>1, <1>3, <2>1, DiskCalm
<1>4. ASSUME NEW r \in Replica, CheckDisk(r), UNCHANGED <<leaderVars, alertLead>>
      PROVE  DiskInv'
  <2>1. Up(r) /\ r \notin quiet /\ quiet' = quiet \cup {r} /\ lowDisk' = lowDisk + 1
        /\ UNCHANGED <<phase, alertPhase, faults>>
    BY <1>4 DEF CheckDisk, leaderVars, alertLead
  <2>2. Stopped' = Stopped /\ \A s \in Replica : Up(s)' <=> Up(s)
    BY <2>1 DEF Stopped, Up
  <2>3. CASE r \in Stopped
    <3>1. r \in LastWords /\ LastWords' \subseteq LastWords \ {r} /\ Cooling' = Cooling
      BY <2>1, <2>2, <2>3 DEF LastWords, Cooling, Stopped
    <3>2. LastWords' \subseteq Replica
      BY <1>2, <3>1
    <3>3. Cardinality(LastWords') + 1 <= Cardinality(LastWords) /\ Cardinality(LastWords') \in Nat
      BY <1>2, <3>1, <3>2, Counts
    <3>4. lowDisk' + Cardinality(LastWords') <= Cardinality(Cooling') + faults'
      BY <1>1, <1>2, <2>1, <3>1, <3>3
    <3> QED
      BY <1>1, <2>1, <2>2, <3>4 DEF DiskInv
  <2>4. CASE r \notin Stopped
    <3>1. LastWords' = LastWords /\ r \in Cooling' /\ Cooling \subseteq Cooling' \ {r}
          /\ Cooling' \subseteq Replica
      BY <1>1, <2>1, <2>2, <2>4 DEF LastWords, Cooling, Stopped
    <3>2. Cardinality(Cooling) + 1 <= Cardinality(Cooling') /\ Cardinality(Cooling') \in Nat
      BY <1>2, <3>1, Counts
    <3>3. lowDisk' + Cardinality(LastWords') <= Cardinality(Cooling') + faults'
      BY <1>1, <1>2, <2>1, <3>1, <3>2
    <3> QED
      BY <1>1, <2>1, <2>2, <3>3 DEF DiskInv
  <2> QED
    BY <2>3, <2>4
<1>5. ASSUME NEW r \in Replica, DigestLoop(r), UNCHANGED diskVars PROVE DiskInv'
  <2>1. alertPhase' = alertPhase
    BY <1>5 DEF DigestLoop, alertLead
  <2>2. \/ /\ phase[r] = "standby" /\ phase' = [phase EXCEPT ![r] = "leading"]
           /\ faults' = faults
        \/ /\ phase[r] = "leading" /\ phase' = [phase EXCEPT ![r] = "draining"]
           /\ faults' = faults
        \/ phase' = phase /\ faults' = faults + 1
        \/ /\ phase[r] = "draining" /\ phase' = [phase EXCEPT ![r] = "standby"]
           /\ faults' = faults
        \/ /\ phase[r] = "stopping" /\ phase' = [phase EXCEPT ![r] = "down"]
           /\ faults' = faults
    BY <1>1, <1>5 DEF DigestLoop, Supervise, Acquire, KeepaliveFails, SessionBreaks, Release
  <2>3. /\ phase' \in [Replica -> {"standby", "leading", "draining", "stopping", "down"}]
        /\ faults' \in Nat /\ faults' >= faults
    BY <1>1, <2>2
  <2>4. Stopped' = Stopped /\ (\A s \in Replica : Up(s)' => Up(s))
    BY <1>1, <2>1, <2>2 DEF Stopped, Up
  <2> QED
    BY <1>1, <1>5, <2>1, <2>3, <2>4, DiskCalm
<1>6. ASSUME NEW r \in Replica, AlertLoop(r), UNCHANGED diskVars PROVE DiskInv'
  <2>1. phase' = phase
    BY <1>6 DEF AlertLoop
  <2>2. \/ /\ alertPhase[r] = "standby" /\ alertPhase' = [alertPhase EXCEPT ![r] = "leading"]
           /\ faults' = faults
        \/ /\ alertPhase[r] = "leading" /\ alertPhase' = [alertPhase EXCEPT ![r] = "draining"]
           /\ faults' = faults
        \/ alertPhase' = alertPhase /\ faults' = faults + 1
        \/ /\ alertPhase[r] = "draining" /\ alertPhase' = [alertPhase EXCEPT ![r] = "standby"]
           /\ faults' = faults
        \/ /\ alertPhase[r] = "stopping" /\ alertPhase' = [alertPhase EXCEPT ![r] = "down"]
           /\ faults' = faults
    BY <1>1, <1>6 DEF AlertLoop, Alert!Acquire, Alert!KeepaliveFails, Alert!SessionBreaks,
       Alert!Release
  <2>3. /\ alertPhase' \in [Replica -> {"standby", "leading", "draining", "stopping", "down"}]
        /\ faults' \in Nat /\ faults' >= faults
    BY <1>1, <2>2
  <2>4. Stopped' = Stopped
    BY <2>1 DEF Stopped
  <2>5. \A s \in Replica : alertPhase'[s] \in {"stopping", "down"}
                           <=> alertPhase[s] \in {"stopping", "down"}
    BY <1>1, <2>2
  <2>6. \A s \in Replica : Up(s)' => Up(s)
    BY <1>1, <2>1, <2>2 DEF Up
  <2> QED
    BY <1>1, <1>6, <2>1, <2>3, <2>4, <2>5, <2>6, DiskCalm
<1>7. ASSUME NEW r \in Replica, Terminate(r), Alert!Terminate(r), UNCHANGED diskVars
      PROVE  DiskInv'
  <2>1. /\ phase[r] \in {"standby", "leading"} /\ faults' = faults + 1
        /\ phase' = [phase EXCEPT ![r] = IF @ = "leading" THEN "stopping" ELSE "down"]
        /\ alertPhase' = [alertPhase EXCEPT ![r] = IF @ = "leading" THEN "stopping" ELSE "down"]
    BY <1>7 DEF Terminate, Alert!Terminate
  <2>2. /\ phase' \in [Replica -> {"standby", "leading", "draining", "stopping", "down"}]
        /\ alertPhase' \in [Replica -> {"standby", "leading", "draining", "stopping", "down"}]
        /\ faults' \in Nat
    BY <1>1, <2>1
  <2>3. Stopped' = Stopped \cup {r} /\ r \notin Stopped
        /\ \A s \in Replica : s \in Stopped' <=> alertPhase'[s] \in {"stopping", "down"}
    BY <1>1, <2>1 DEF Stopped
  <2>4. \A s \in Replica : Up(s)' => Up(s)
    BY <1>1, <2>1 DEF Up
  <2>5. quiet' = quiet /\ lowDisk' = lowDisk
    BY <1>7 DEF diskVars
  <2>6. lowDisk' + Cardinality(LastWords') <= Cardinality(Cooling') + faults'
    <3>0. Stopped \subseteq Replica
      BY DEF Stopped
    <3>1. CASE r \in quiet
      <4>1. LastWords' \subseteq LastWords /\ Cooling \subseteq Cooling' \cup {r}
            /\ Cooling' \subseteq Replica
        BY <1>1, <2>3, <2>4, <2>5, <3>0, <3>1 DEF LastWords, Cooling
      <4>2. LastWords' \subseteq Replica
        BY <1>2, <4>1
      <4>3. Cardinality(LastWords') <= Cardinality(LastWords) /\ Cardinality(LastWords') \in Nat
        BY <1>2, <4>1, <4>2, Counts
      <4>4. Cardinality(Cooling) <= Cardinality(Cooling') + 1 /\ Cardinality(Cooling') \in Nat
        BY <1>2, <4>1, Counts
      <4> QED
        BY <1>1, <1>2, <2>1, <2>5, <4>3, <4>4
    <3>2. CASE r \notin quiet
      <4>1. LastWords' \subseteq LastWords \cup {r} /\ Cooling' = Cooling
        BY <1>1, <2>3, <2>4, <2>5, <3>0, <3>2 DEF LastWords, Cooling
      <4>2. LastWords' \subseteq Replica
        BY <1>2, <4>1
      <4>3. Cardinality(LastWords') <= Cardinality(LastWords) + 1
            /\ Cardinality(LastWords') \in Nat
        BY <1>2, <4>1, <4>2, Counts
      <4> QED
        BY <1>1, <1>2, <2>1, <2>5, <4>1, <4>3
    <3> QED
      BY <3>1, <3>2
  <2> QED
    BY <1>1, <2>2, <2>3, <2>5, <2>6 DEF DiskInv
<1>8. ASSUME NEW r \in Replica, CrashProcess(r) PROVE DiskInv'
  <2>1. /\ faults' = faults + 1 /\ quiet' = quiet \ {r} /\ lowDisk' = lowDisk
        /\ phase' = [phase EXCEPT ![r] = "down"]
        /\ alertPhase' = [alertPhase EXCEPT ![r] = "down"]
    BY <1>8 DEF CrashProcess, Crash, Alert!Crash, Forget
  <2>2. /\ phase' \in [Replica -> {"standby", "leading", "draining", "stopping", "down"}]
        /\ alertPhase' \in [Replica -> {"standby", "leading", "draining", "stopping", "down"}]
        /\ faults' \in Nat
    BY <1>1, <2>1
  <2>3. Stopped' = Stopped \cup {r} /\ ~Up(r)'
        /\ \A s \in Replica : s \in Stopped' <=> alertPhase'[s] \in {"stopping", "down"}
    BY <1>1, <2>1 DEF Stopped, Up
  <2>4. \A s \in Replica : Up(s)' => Up(s)
    BY <1>1, <2>1 DEF Up
  <2>. Stopped \subseteq Replica
    BY DEF Stopped
  <2>5. LastWords' \subseteq LastWords /\ Cooling \subseteq Cooling' \cup {r}
        /\ Cooling' \subseteq Replica
    BY <1>1, <2>1, <2>3, <2>4 DEF LastWords, Cooling
  <2>6. LastWords' \subseteq Replica
    BY <1>2, <2>5
  <2>7. Cardinality(LastWords') <= Cardinality(LastWords) /\ Cardinality(LastWords') \in Nat
    BY <1>2, <2>5, <2>6, Counts
  <2>8. Cardinality(Cooling) <= Cardinality(Cooling') + 1 /\ Cardinality(Cooling') \in Nat
    BY <1>2, <2>5, Counts
  <2>9. lowDisk' + Cardinality(LastWords') <= Cardinality(Cooling') + faults'
    BY <1>1, <1>2, <2>1, <2>7, <2>8
  <2> QED
    BY <1>1, <2>1, <2>2, <2>3, <2>9 DEF DiskInv
<1>9. ASSUME NEW r \in Replica, BootProcess(r) PROVE DiskInv'
  <2>1. /\ faults' = faults /\ quiet' = quiet \ {r} /\ lowDisk' = lowDisk
        /\ phase[r] = "down" /\ alertPhase[r] = "down"
        /\ phase' = [phase EXCEPT ![r] = "standby"]
        /\ alertPhase' = [alertPhase EXCEPT ![r] = "standby"]
    BY <1>9 DEF BootProcess, Boot, Alert!Boot, Forget
  <2>2. /\ phase' \in [Replica -> {"standby", "leading", "draining", "stopping", "down"}]
        /\ alertPhase' \in [Replica -> {"standby", "leading", "draining", "stopping", "down"}]
    BY <1>1, <2>1
  <2>3. Stopped' = Stopped \ {r} /\ r \in Stopped
        /\ \A s \in Replica : s \in Stopped' <=> alertPhase'[s] \in {"stopping", "down"}
    BY <1>1, <2>1 DEF Stopped
  <2>4. \A s \in Replica \ {r} : Up(s)' => Up(s)
    BY <1>1, <2>1 DEF Up
  <2>. Stopped \subseteq Replica
    BY DEF Stopped
  <2>5. LastWords' \subseteq LastWords /\ Cooling' = Cooling
    BY <1>1, <2>1, <2>3, <2>4 DEF LastWords, Cooling
  <2>6. LastWords' \subseteq Replica
    BY <1>2, <2>5
  <2>7. Cardinality(LastWords') <= Cardinality(LastWords) /\ Cardinality(LastWords') \in Nat
    BY <1>2, <2>5, <2>6, Counts
  <2>8. lowDisk' + Cardinality(LastWords') <= Cardinality(Cooling') + faults'
    BY <1>1, <1>2, <2>1, <2>5, <2>7
  <2> QED
    BY <1>1, <2>1, <2>2, <2>3, <2>8 DEF DiskInv
<1>10. CASE UNCHANGED <<leaderVars, alertLead, diskVars>>
  BY <1>3, <1>10 DEF leaderVars, alertLead
<1> QED
  BY <1>3, <1>4, <1>5, <1>6, <1>7, <1>8, <1>9, <1>10, DiskSteps

----------------------------------------------------------------------------
(* Types.                                                                  *)

(* What is left of the types beside those of the digest. *)
RestTypes ==
  /\ LeaderTypeOK /\ Alert!LeaderTypeOK
  /\ flips \in 0..MaxFlips
  /\ prev \in [Replica -> {Empty} \cup 0..MaxFlips] /\ \A r \in Replica : prev[r] <= flips
  /\ sending \subseteq NodeAlert /\ alerts \subseteq NodeAlert
  /\ missed \subseteq 1..MaxFlips
  /\ quiet \subseteq Replica /\ lowDisk \in Nat

(* A step of the digest loop's supervision keeps its types.                *)
LEMMA DigestLoopTypes ==
  ASSUME LeaderTypeOK, NEW r \in Replica,
         \/ Supervise(r) \/ SessionBreaks(r) \/ Release(r)
         \/ Terminate(r) \/ Crash(r) \/ Boot(r)
  PROVE  LeaderTypeOK'
<1> USE FaultsAssumption DEF LeaderTypeOK
<1>1. CASE Supervise(r)
  BY <1>1 DEF Supervise, Acquire, KeepaliveFails
<1>2. CASE SessionBreaks(r)
  BY <1>2 DEF SessionBreaks
<1>3. CASE Release(r)
  BY <1>3 DEF Release
<1>4. CASE Terminate(r)
  BY <1>4 DEF Terminate
<1>5. CASE Crash(r)
  BY <1>5 DEF Crash
<1>6. CASE Boot(r)
  BY <1>6 DEF Boot
<1> QED
  BY <1>1, <1>2, <1>3, <1>4, <1>5, <1>6

(* So does a step of the alert loop's.                                     *)
LEMMA AlertLoopTypes ==
  ASSUME Alert!LeaderTypeOK, NEW r \in Replica,
         \/ Alert!Acquire(r) \/ Alert!KeepaliveFails(r) \/ Alert!SessionBreaks(r)
         \/ Alert!Release(r) \/ Alert!Terminate(r) \/ Alert!Crash(r) \/ Alert!Boot(r)
  PROVE  Alert!LeaderTypeOK'
<1> USE FaultsAssumption DEF Alert!LeaderTypeOK
<1>1. CASE Alert!Acquire(r) \/ Alert!KeepaliveFails(r)
  BY <1>1 DEF Alert!Acquire, Alert!KeepaliveFails
<1>2. CASE Alert!SessionBreaks(r)
  BY <1>2 DEF Alert!SessionBreaks
<1>3. CASE Alert!Release(r)
  BY <1>3 DEF Alert!Release
<1>4. CASE Alert!Terminate(r)
  BY <1>4 DEF Alert!Terminate
<1>5. CASE Alert!Crash(r)
  BY <1>5 DEF Alert!Crash
<1>6. CASE Alert!Boot(r)
  BY <1>6 DEF Alert!Boot
<1> QED
  BY <1>1, <1>2, <1>3, <1>4, <1>5, <1>6

(* The two loops share nothing but the count of the faults.                *)
LEMMA LoopsApart ==
  ASSUME LeaderTypeOK, Alert!LeaderTypeOK
  PROVE  /\ UNCHANGED <<lock, conn, phase>> /\ Alert!LeaderTypeOK' => LeaderTypeOK'
         /\ UNCHANGED alertLead /\ LeaderTypeOK' => Alert!LeaderTypeOK'
BY DEF LeaderTypeOK, Alert!LeaderTypeOK, alertLead

(* A tick finds the last change or none, and misses what lies between.     *)
LEMMA TickFinds ==
  ASSUME NEW r \in Replica, Tick(r)
  PROVE  \E found \in SUBSET {flips} :
           /\ found # {} => prev[r] # Empty /\ prev[r] # flips
           /\ sending' = sending \cup
                {[change |-> c, by |-> r, sound |-> alertConn[r] = "good"] : c \in found}
           /\ missed' = missed \cup (Behind(r) \ found)
<1> DEFINE Found(on) == IF on /\ prev[r] # Empty /\ Online(prev[r]) # Online(flips)
                        THEN {flips} ELSE {}
<1>1. PICK on \in BOOLEAN :
        /\ sending' = sending \cup
             {[change |-> c, by |-> r, sound |-> alertConn[r] = "good"] : c \in Found(on)}
        /\ missed' = missed \cup (Behind(r) \ Found(on))
  BY DEF Tick
<1>2. /\ Found(on) \in SUBSET {flips}
      /\ Found(on) # {} => prev[r] # Empty /\ prev[r] # flips
  OBVIOUS
<1> HIDE DEF Found
<1> QED
  BY <1>1, <1>2

(* Every step keeps the rest of the types, too.                            *)
LEMMA RestStep == RestTypes /\ [Next]_vars => RestTypes'
<1> SUFFICES ASSUME RestTypes, [Next]_vars PROVE RestTypes'
  OBVIOUS
<1>1. LeaderTypeOK /\ Alert!LeaderTypeOK
  BY DEF RestTypes
<1> DEFINE Memory ==
             /\ flips \in 0..MaxFlips
             /\ prev \in [Replica -> {Empty} \cup 0..MaxFlips]
             /\ \A r \in Replica : prev[r] <= flips
             /\ sending \subseteq NodeAlert /\ alerts \subseteq NodeAlert
             /\ missed \subseteq 1..MaxFlips
             /\ quiet \subseteq Replica /\ lowDisk \in Nat
<1>2. Memory
  BY DEF RestTypes
<1>3. ASSUME UNCHANGED <<leaderVars, alertLead>>, Memory' PROVE RestTypes'
  BY <1>1, <1>3 DEF RestTypes, LeaderTypeOK, Alert!LeaderTypeOK, leaderVars, alertLead
<1>4. ASSUME LeaderTypeOK', Alert!LeaderTypeOK', Memory' PROVE RestTypes'
  BY <1>4 DEF RestTypes
<1>5. UNCHANGED <<nodeVars, diskVars>> => Memory'
  BY <1>2 DEF nodeVars, diskVars
<1>0. \A r \in Replica : Behind(r) \subseteq 1..MaxFlips
  BY <1>2, AlertsAssumption DEF Behind, Empty
<1>6. ASSUME NEW r \in Replica, Forget(r) PROVE Memory'
  BY <1>0, <1>2, <1>6 DEF Forget, NodeAlert, Empty
<1> HIDE DEF Memory
<1>7. CASE UNCHANGED vars
  BY <1>3, <1>5, <1>7 DEF vars
<1>8. ASSUME NEW k \in Outcome,
             Notify(k) \/ Push(k) \/ Post(k) \/ \E r \in Replica : JobFinished(k, r)
      PROVE  RestTypes'
  BY <1>3, <1>5, <1>8 DEF Notify, Push, Post, JobFinished
<1>9. ASSUME NEW r \in Replica, Drain(r) \/ Flush(r) PROVE RestTypes'
  BY <1>3, <1>5, <1>9 DEF Drain, Flush
<1>10. ASSUME NEW r \in Replica, Tick(r) PROVE RestTypes'
  <2>1. PICK found \in SUBSET {flips} :
          /\ found # {} => prev[r] # Empty /\ prev[r] # flips
          /\ sending' = sending \cup
               {[change |-> c, by |-> r, sound |-> alertConn[r] = "good"] : c \in found}
          /\ missed' = missed \cup (Behind(r) \ found)
    BY <1>10, TickFinds
  <2>2. found \subseteq 1..MaxFlips
    BY <1>2, <2>1 DEF Memory, Empty, Online
  <2>3. \A c \in found : [change |-> c, by |-> r, sound |-> alertConn[r] = "good"] \in NodeAlert
    BY <2>2 DEF NodeAlert
  <2>4. sending' \subseteq NodeAlert /\ missed' \subseteq 1..MaxFlips
    BY <1>0, <1>2, <2>1, <2>3 DEF Memory
  <2>5. /\ prev' = [prev EXCEPT ![r] = flips] /\ flips' = flips /\ alerts' = alerts
        /\ UNCHANGED diskVars
    BY <1>10 DEF Tick
  <2>6. Memory'
    BY <1>2, <2>4, <2>5 DEF Memory, diskVars
  <2> QED
    BY <1>3, <1>10, <2>6 DEF Tick
<1>11. ASSUME NEW a \in sending, Send(a) PROVE RestTypes'
  <2>1. Memory'
    BY <1>2, <1>11 DEF Memory, Send, diskVars, NodeAlert
  <2> QED
    BY <1>3, <1>11, <2>1 DEF Send
<1>12. ASSUME NEW r \in Replica, CheckDisk(r) PROVE RestTypes'
  <2>1. Memory'
    BY <1>2, <1>12 DEF Memory, CheckDisk, nodeVars
  <2> QED
    BY <1>3, <1>12, <2>1 DEF CheckDisk
<1>13. CASE Flip
  <2>1. Memory'
    BY <1>2, <1>13, AlertsAssumption DEF Memory, Flip, diskVars, Empty
  <2> QED
    BY <1>3, <1>13, <2>1 DEF Flip
<1>14. ASSUME NEW r \in Replica, DigestLoop(r) PROVE RestTypes'
  <2>1. LeaderTypeOK' /\ UNCHANGED <<alertLead, nodeVars, diskVars>>
    BY <1>1, <1>14, DigestLoopTypes DEF DigestLoop
  <2> QED
    BY <1>1, <1>4, <1>5, <2>1, LoopsApart
<1>15. ASSUME NEW r \in Replica, AlertLoop(r) PROVE RestTypes'
  <2>1. Alert!LeaderTypeOK' /\ UNCHANGED <<lock, conn, phase>>
    BY <1>1, <1>15, AlertLoopTypes DEF AlertLoop
  <2>2. Memory'
    <3>1. /\ prev' = prev \/ prev' = [prev EXCEPT ![r] = Empty]
          /\ missed' = missed \/ missed' = missed \cup Behind(r)
          /\ UNCHANGED <<flips, sending, alerts, diskVars>>
      BY <1>15 DEF AlertLoop
    <3>2. missed' \subseteq 1..MaxFlips
      BY <1>0, <1>2, <3>1 DEF Memory
    <3>3. prev' \in [Replica -> {Empty} \cup 0..MaxFlips]
      BY <1>2, <3>1 DEF Memory
    <3>4. \A s \in Replica : prev'[s] <= flips
      BY <1>2, <3>1 DEF Memory, Empty
    <3> QED
      BY <1>2, <3>1, <3>2, <3>3, <3>4 DEF Memory, diskVars
  <2> QED
    BY <1>1, <1>4, <2>1, <2>2, LoopsApart
<1>16. ASSUME NEW r \in Replica, TerminateProcess(r) PROVE RestTypes'
  BY <1>1, <1>4, <1>5, <1>16, DigestLoopTypes, AlertLoopTypes DEF TerminateProcess
<1>17. ASSUME NEW r \in Replica, CrashProcess(r) \/ BootProcess(r) PROVE RestTypes'
  BY <1>1, <1>4, <1>6, <1>17, DigestLoopTypes, AlertLoopTypes DEF CrashProcess, BootProcess
<1>18. CASE Database
  <2>1. UNCHANGED <<nodeVars, diskVars>>
    BY <1>18 DEF Database
  <2>2. CASE SessionEnds /\ UNCHANGED alertLead
    <3>1. LeaderTypeOK'
      BY <1>1, <2>2 DEF LeaderTypeOK, SessionEnds
    <3> QED
      BY <1>1, <1>4, <1>5, <2>1, <2>2, <3>1, LoopsApart
  <2>3. CASE Alert!SessionEnds /\ UNCHANGED <<lock, conn, phase>>
    <3>1. Alert!LeaderTypeOK'
      BY <1>1, <2>3 DEF Alert!LeaderTypeOK, Alert!SessionEnds
    <3> QED
      BY <1>1, <1>4, <1>5, <2>1, <2>3, <3>1, LoopsApart
  <2> QED
    BY <1>18, <2>2, <2>3 DEF Database
<1> QED
  BY <1>7, <1>8, <1>9, <1>10, <1>11, <1>12, <1>13, <1>14, <1>15, <1>16, <1>17, <1>18 DEF Next

(* Every buffer, baseline and counter is what its type says, broken        *)
(* sessions of either loop included; an outcome is told once at most.      *)
THEOREM TypesHold == Spec => []TypeOK
<1>1. Init => RestTypes
  BY FaultsAssumption, AlertsAssumption
  DEF Init, LeaderInit, Alert!LeaderInit, RestTypes, LeaderTypeOK, Alert!LeaderTypeOK,
      Empty
<1>2. DigestInv /\ RestTypes => TypeOK
  <2> SUFFICES ASSUME DigestInv, RestTypes PROVE TypeOK
    OBVIOUS
  <2>1. told \in [Outcome -> 0..2]
    <3>1. ASSUME NEW k \in Outcome PROVE told[k] \in 0..2
      <4>1. told[k] + InRequest(k) + Buffered(k) + Drained(k) + GivenUp(k) = Ended(k)
        BY DEF DigestInv, Conserved
      <4>2. /\ told[k] \in Nat /\ Buffered(k) \in Nat /\ Drained(k) \in Nat
            /\ InRequest(k) \in {0, 1} /\ GivenUp(k) \in {0, 1} /\ Ended(k) \in {0, 1}
        BY Parts DEF DigestInv
      <4> QED
        BY <4>1, <4>2
    <3> QED
      BY <3>1 DEF DigestInv, DigestTypes
  <2> QED
    BY <2>1 DEF TypeOK, RestTypes, DigestInv, DigestTypes, Phase
<1> QED
  BY <1>1, <1>2, RestStep, InitDigestInv, NextDigestInv, PTL DEF Spec
----------------------------------------------------------------------------
(* Elections.  The two loops count their faults together, so neither is a  *)
(* behaviour of Leader by itself; but a session and a lock do not see the  *)
(* count.  The argument is about any loop with a lock l, connections c and *)
(* phases p, which become l2, c2 and p2.                                   *)

InBody == {"leading", "draining", "stopping"}

(* A session that lives has the lock, and has a body to serve. *)
Held(l, c, p) ==
  /\ l \in Replica \cup {NoReplica}
  /\ c \in [Replica -> {"none", "good", "broken"}]
  /\ p \in [Replica -> InBody \cup {"standby", "down"}]
  /\ \A r \in Replica :
       /\ c[r] = "good" => l = r
       /\ c[r] # "none" => p[r] \in InBody

(* A free lock is taken. *)
Takes(r, l, c, p, l2, c2, p2) ==
  /\ l = NoReplica /\ l2 = r
  /\ c2 = [c EXCEPT ![r] = "good"]
  /\ p2 = [p EXCEPT ![r] = "leading"]

(* A session ends for its replica, which frees no lock but its own. *)
Loses(r, l, c, p, l2, c2, p2) ==
  /\ l2 = l \/ (l = r /\ l2 = NoReplica)
  /\ c2 = [c EXCEPT ![r] = "none"]
  /\ \E next \in InBody \cup {"standby", "down"} : p2 = [p EXCEPT ![r] = next]

(* It breaks unnoticed. *)
Breaks(r, l, c, p, l2, c2, p2) ==
  /\ c[r] = "good"
  /\ l2 = l /\ c2 = [c EXCEPT ![r] = "broken"] /\ p2 = p

(* The supervisor turns to something else, and leaves no session behind. *)
Turns(r, l, c, p, l2, c2, p2) ==
  /\ l2 = l /\ c2 = c
  /\ \E next \in InBody \cup {"standby", "down"} :
       /\ p2 = [p EXCEPT ![r] = next]
       /\ c[r] # "none" => next \in InBody

(* The database finds the holder's session gone. *)
Freed(l, c, p, l2, c2, p2) ==
  /\ \A r \in Replica : l = r => c[r] # "good"
  /\ l2 = NoReplica /\ c2 = c /\ p2 = p

Supervised(l, c, p, l2, c2, p2) ==
  \/ \E r \in Replica :
       \/ Takes(r, l, c, p, l2, c2, p2) \/ Loses(r, l, c, p, l2, c2, p2)
       \/ Breaks(r, l, c, p, l2, c2, p2) \/ Turns(r, l, c, p, l2, c2, p2)
  \/ Freed(l, c, p, l2, c2, p2)
  \/ l2 = l /\ c2 = c /\ p2 = p

(* The leader of the election. *)
Sound(l, c) == IF \E r \in Replica : c[r] = "good" THEN l ELSE NoReplica

(* A supervised loop keeps the bond of sessions, lock and body. *)
LEMMA LoopKeeps ==
  ASSUME NEW l, NEW c, NEW p, NEW l2, NEW c2, NEW p2,
         Held(l, c, p), Supervised(l, c, p, l2, c2, p2)
  PROVE  Held(l2, c2, p2)
<1> USE NoReplicaAssumption DEF Held
<1>1. ASSUME NEW r \in Replica, Takes(r, l, c, p, l2, c2, p2) PROVE Held(l2, c2, p2)
  BY <1>1 DEF Takes, InBody
<1>2. ASSUME NEW r \in Replica, Loses(r, l, c, p, l2, c2, p2) PROVE Held(l2, c2, p2)
  BY <1>2 DEF Loses
<1>3. ASSUME NEW r \in Replica, Breaks(r, l, c, p, l2, c2, p2) PROVE Held(l2, c2, p2)
  BY <1>3 DEF Breaks
<1>4. ASSUME NEW r \in Replica, Turns(r, l, c, p, l2, c2, p2) PROVE Held(l2, c2, p2)
  BY <1>4 DEF Turns
<1>5. CASE Freed(l, c, p, l2, c2, p2)
  BY <1>5 DEF Freed
<1> QED
  BY <1>1, <1>2, <1>3, <1>4, <1>5 DEF Supervised

(* It elects a leader where there is none, deposes one, or does neither. *)
LEMMA LoopElects ==
  ASSUME NEW l, NEW c, NEW p, NEW l2, NEW c2, NEW p2,
         Held(l, c, p), Held(l2, c2, p2), Supervised(l, c, p, l2, c2, p2)
  PROVE  \/ Sound(l2, c2) = Sound(l, c)
         \/ Sound(l, c) = NoReplica /\ \E r \in Replica : Sound(l2, c2) = r
         \/ Sound(l, c) # NoReplica /\ Sound(l2, c2) = NoReplica
<1> DEFINE Some == \E r \in Replica : c[r] = "good"
           Some2 == \E r \in Replica : c2[r] = "good"
<1>1. Some => l \in Replica /\ c[l] = "good"  BY DEF Held
<1>2. Some2 => l2 \in Replica  BY DEF Held
<1>3. Some /\ Some2 => l2 = l
  <2> SUFFICES ASSUME Some, Some2 PROVE l2 = l  OBVIOUS
  <2>1. l \in Replica /\ c[l] = "good" /\ l # NoReplica
    BY <1>1, NoReplicaAssumption
  <2>2. c2[l2] = "good" /\ l2 \in Replica /\ l2 # NoReplica
    BY <1>2, NoReplicaAssumption DEF Held
  <2> QED
    BY <2>1, <2>2 DEF Supervised, Takes, Loses, Breaks, Turns, Freed
<1> QED
  BY <1>1, <1>2, <1>3, NoReplicaAssumption DEF Sound

(* The digest loop is supervised ... *)
LEMMA DigestIsSupervised ==
  ASSUME Held(lock, conn, phase), [Next]_vars
  PROVE  Supervised(lock, conn, phase, lock', conn', phase')
<1> DEFINE Step == Supervised(lock, conn, phase, lock', conn', phase')
<1> USE DEF InBody
<1>0. ASSUME UNCHANGED <<lock, conn, phase>> PROVE Step
  BY <1>0 DEF Supervised
<1>1. ASSUME NEW r \in Replica, Acquire(r) PROVE Step
  BY <1>1 DEF Supervised, Takes, Acquire
<1>2. ASSUME NEW r \in Replica, KeepaliveFails(r) PROVE Step
  <2>1. Turns(r, lock, conn, phase, lock', conn', phase')
    BY <1>2 DEF Turns, KeepaliveFails
  <2> QED  BY <2>1 DEF Supervised
<1>3. ASSUME NEW r \in Replica, SessionBreaks(r) PROVE Step
  BY <1>3 DEF Supervised, Breaks, SessionBreaks
<1>4. ASSUME NEW r \in Replica, Release(r) PROVE Step
  <2>1. Loses(r, lock, conn, phase, lock', conn', phase')
    BY <1>4 DEF Loses, Release
  <2> QED  BY <2>1 DEF Supervised
<1>5. ASSUME NEW r \in Replica, Terminate(r) PROVE Step
  <2>1. Turns(r, lock, conn, phase, lock', conn', phase')
    BY <1>5 DEF Turns, Terminate, Held
  <2> QED  BY <2>1 DEF Supervised
<1>6. ASSUME NEW r \in Replica, Crash(r) PROVE Step
  <2>1. Loses(r, lock, conn, phase, lock', conn', phase')
    BY <1>6 DEF Loses, Crash
  <2> QED  BY <2>1 DEF Supervised
<1>7. ASSUME NEW r \in Replica, Boot(r) PROVE Step
  <2>1. Turns(r, lock, conn, phase, lock', conn', phase')
    BY <1>7 DEF Turns, Boot, Held
  <2> QED  BY <2>1 DEF Supervised
<1>8. SessionEnds => Step
  BY DEF Supervised, Freed, SessionEnds
<1> HIDE DEF Step
<1>9. ASSUME NEW r \in Replica, DigestLoop(r) PROVE Step
  BY <1>1, <1>2, <1>3, <1>4, <1>9 DEF DigestLoop, Supervise
<1>10. ASSUME NEW r \in Replica,
              TerminateProcess(r) \/ CrashProcess(r) \/ BootProcess(r)
       PROVE  Step
  BY <1>5, <1>6, <1>7, <1>10 DEF TerminateProcess, CrashProcess, BootProcess
<1>11. ASSUME NEW k \in Outcome,
              Notify(k) \/ Push(k) \/ Post(k) \/ \E r \in Replica : JobFinished(k, r)
       PROVE  Step
  BY <1>0, <1>11 DEF Notify, Push, Post, JobFinished, leaderVars
<1>12. ASSUME NEW r \in Replica,
              Drain(r) \/ Flush(r) \/ Tick(r) \/ CheckDisk(r) \/ AlertLoop(r)
       PROVE  Step
  BY <1>0, <1>12 DEF Drain, Flush, Tick, CheckDisk, AlertLoop, leaderVars
<1>13. (Flip \/ \E a \in sending : Send(a)) => Step
  BY <1>0 DEF Flip, Send, leaderVars
<1>14. Database => Step
  BY <1>0, <1>8 DEF Database
<1>15. UNCHANGED vars => Step
  BY <1>0 DEF vars, leaderVars
<1> QED
  BY <1>9, <1>10, <1>11, <1>12, <1>13, <1>14, <1>15 DEF Next, Step

(* ... and so is the alert loop. *)
LEMMA AlertLoopIsSupervised ==
  ASSUME Held(alertLock, alertConn, alertPhase), [Next]_vars
  PROVE  Supervised(alertLock, alertConn, alertPhase, alertLock', alertConn', alertPhase')
<1> DEFINE Step ==
      Supervised(alertLock, alertConn, alertPhase, alertLock', alertConn', alertPhase')
<1> USE DEF InBody
<1>0. ASSUME UNCHANGED alertLead PROVE Step
  BY <1>0 DEF Supervised, alertLead
<1>1. ASSUME NEW r \in Replica, Alert!Acquire(r) PROVE Step
  BY <1>1 DEF Supervised, Takes, Alert!Acquire
<1>2. ASSUME NEW r \in Replica, Alert!KeepaliveFails(r) PROVE Step
  <2>1. Turns(r, alertLock, alertConn, alertPhase, alertLock', alertConn', alertPhase')
    BY <1>2 DEF Turns, Alert!KeepaliveFails
  <2> QED  BY <2>1 DEF Supervised
<1>3. ASSUME NEW r \in Replica, Alert!SessionBreaks(r) PROVE Step
  BY <1>3 DEF Supervised, Breaks, Alert!SessionBreaks
<1>4. ASSUME NEW r \in Replica, Alert!Release(r) PROVE Step
  <2>1. Loses(r, alertLock, alertConn, alertPhase, alertLock', alertConn', alertPhase')
    BY <1>4 DEF Loses, Alert!Release
  <2> QED  BY <2>1 DEF Supervised
<1>5. ASSUME NEW r \in Replica, Alert!Terminate(r) PROVE Step
  <2>1. Turns(r, alertLock, alertConn, alertPhase, alertLock', alertConn', alertPhase')
    BY <1>5 DEF Turns, Alert!Terminate, Held
  <2> QED  BY <2>1 DEF Supervised
<1>6. ASSUME NEW r \in Replica, Alert!Crash(r) PROVE Step
  <2>1. Loses(r, alertLock, alertConn, alertPhase, alertLock', alertConn', alertPhase')
    BY <1>6 DEF Loses, Alert!Crash
  <2> QED  BY <2>1 DEF Supervised
<1>7. ASSUME NEW r \in Replica, Alert!Boot(r) PROVE Step
  <2>1. Turns(r, alertLock, alertConn, alertPhase, alertLock', alertConn', alertPhase')
    BY <1>7 DEF Turns, Alert!Boot, Held
  <2> QED  BY <2>1 DEF Supervised
<1>8. Alert!SessionEnds => Step
  BY DEF Supervised, Freed, Alert!SessionEnds
<1> HIDE DEF Step
<1>9. ASSUME Next PROVE Step
  BY <1>0, <1>1, <1>2, <1>3, <1>4, <1>5, <1>6, <1>7, <1>8, <1>9, AlertSteps DEF AlertLoop
<1>10. UNCHANGED vars => Step
  BY <1>0 DEF vars
<1> QED
  BY <1>9, <1>10 DEF Step

BothHeld == Held(lock, conn, phase) /\ Held(alertLock, alertConn, alertPhase)

(* Both loops start without a holder and keep the bond. *)
LEMMA BothAlwaysHeld == Spec => []BothHeld
<1>1. Init => BothHeld
  BY DEF Init, LeaderInit, Alert!LeaderInit, BothHeld, Held
<1>2. BothHeld /\ [Next]_vars => BothHeld'
  BY DigestIsSupervised, AlertLoopIsSupervised, LoopKeeps DEF BothHeld
<1> QED
  BY <1>1, <1>2, PTL DEF Spec

(* In the controller with both loops, too, whoever runs a loop's body on a *)
(* session that lives has that loop's lock, whatever breaks or ends either *)
(* of them or the whole process.                                           *)
THEOREM SoundLeadersHaveLocks ==
  Spec => [](SoundLeaderHasLock /\ Alert!SoundLeaderHasLock)
<1>1. BothHeld => SoundLeaderHasLock /\ Alert!SoundLeaderHasLock
  BY DEF BothHeld, Held, SoundLeaderHasLock, Running,
     Alert!SoundLeaderHasLock, Alert!Running
<1> QED
  BY <1>1, BothAlwaysHeld, PTL

(* Which sound leader it is. *)
LEMMA SoundLeaderOf ==
  ASSUME NEW l, NEW c, NEW p, Held(l, c, p)
  PROVE  LET Bodies == {r \in Replica : p[r] \in InBody}
         IN  Sound(l, c) = IF \E r \in Bodies : c[r] = "good"
                           THEN CHOOSE r \in Bodies : c[r] = "good" ELSE NoReplica
<1> DEFINE Bodies == {r \in Replica : p[r] \in InBody}
<1>1. CASE \E r \in Replica : c[r] = "good"
  <2>1. PICK r \in Bodies : c[r] = "good"
    BY <1>1 DEF Held
  <2>2. \A s \in Bodies : c[s] = "good" => s = l
    BY DEF Held
  <2>3. (CHOOSE s \in Bodies : c[s] = "good") = l
    BY <2>1, <2>2
  <2> QED
    BY <1>1, <2>1, <2>3 DEF Sound
<1>2. CASE ~\E r \in Replica : c[r] = "good"
  BY <1>2 DEF Sound
<1> QED
  BY <1>1, <1>2

(* The leaders of both loops are the ones of the argument. *)
LEMMA SoundLeaders ==
  BothHeld => /\ SoundLeader = Sound(lock, conn)
              /\ Alert!SoundLeader = Sound(alertLock, alertConn)
<1> SUFFICES ASSUME BothHeld
             PROVE  /\ SoundLeader = Sound(lock, conn)
                    /\ Alert!SoundLeader = Sound(alertLock, alertConn)
  OBVIOUS
<1>1. SoundLeader = Sound(lock, conn)
  BY SoundLeaderOf DEF BothHeld, SoundLeader, Running, InBody
<1>2. Alert!SoundLeader = Sound(alertLock, alertConn)
  BY SoundLeaderOf DEF BothHeld, Alert!SoundLeader, Alert!Running, InBody
<1> QED
  BY <1>1, <1>2

(* So they are after a step. *)
LEMMA NextSoundLeaders ==
  BothHeld' => /\ SoundLeader' = Sound(lock', conn')
               /\ Alert!SoundLeader' = Sound(alertLock', alertConn')
<1>1. BothHeld' => (/\ SoundLeader = Sound(lock, conn)
                    /\ Alert!SoundLeader = Sound(alertLock, alertConn))'
  BY SoundLeaders, PTL
<1> QED
  BY <1>1 DEF Sound

(* The digest has one leader on a sound session or none, and none between  *)
(* two, although its replicas run, end and die with those of another loop. *)
THEOREM DigestIsElected == Spec => IsAnElection
<1>1. Init => Election!Init
  BY DEF Init, LeaderInit, Election!Init, SoundLeader, Running
<1>2. BothHeld /\ BothHeld' /\ [Next]_vars => [Election!Next]_SoundLeader
  <2> SUFFICES ASSUME BothHeld, BothHeld', [Next]_vars
               PROVE  \/ SoundLeader' = SoundLeader
                      \/ SoundLeader = NoReplica /\ \E r \in Replica : SoundLeader' = r
                      \/ SoundLeader # NoReplica /\ SoundLeader' = NoReplica
    BY DEF Election!Next, Election!Elect, Election!Abdicate
  <2>1. Held(lock, conn, phase) /\ Held(lock', conn', phase')
    BY DEF BothHeld, Held
  <2> QED
    BY <2>1, DigestIsSupervised, LoopElects, SoundLeaders, NextSoundLeaders
<1> QED
  BY <1>1, <1>2, BothAlwaysHeld, PTL DEF Spec, IsAnElection, Election!Spec

(* And so have the node alerts, with or without broken sessions.           *)
THEOREM AlertLoopIsElected == Spec => Alert!IsAnElection
<1>1. Init => Alert!Election!Init
  BY DEF Init, Alert!LeaderInit, Alert!Election!Init, Alert!SoundLeader, Alert!Running
<1>2. BothHeld /\ BothHeld' /\ [Next]_vars => [Alert!Election!Next]_(Alert!SoundLeader)
  <2> SUFFICES ASSUME BothHeld, BothHeld', [Next]_vars
               PROVE  \/ Alert!SoundLeader' = Alert!SoundLeader
                      \/ /\ Alert!SoundLeader = NoReplica
                         /\ \E r \in Replica : Alert!SoundLeader' = r
                      \/ Alert!SoundLeader # NoReplica /\ Alert!SoundLeader' = NoReplica
    BY DEF Alert!Election!Next, Alert!Election!Elect, Alert!Election!Abdicate
  <2>1. /\ Held(alertLock, alertConn, alertPhase)
        /\ Held(alertLock', alertConn', alertPhase')
    BY DEF BothHeld, Held
  <2> QED
    BY <2>1, AlertLoopIsSupervised, LoopElects, SoundLeaders, NextSoundLeaders
<1> QED
  BY <1>1, <1>2, BothAlwaysHeld, PTL DEF Spec, Alert!IsAnElection, Alert!Election!Spec
----------------------------------------------------------------------------
(* Node alerts and their causes, broken sessions included.                 *)

(* What is known of a change: a loop with a baseline knows each change     *)
(* that it has found, and, on a session that lives, each change that was   *)
(* found on one.                                                           *)
Knows(r, a) == prev[r] = Empty \/ a.change <= prev[r]

Baselines ==
  /\ flips \in 0..MaxFlips
  /\ prev \in [Replica -> {Empty} \cup 0..MaxFlips]
  /\ sending \subseteq NodeAlert /\ alerts \subseteq NodeAlert
  /\ \A r \in Replica :
       prev[r] # Empty => prev[r] <= flips /\ alertPhase[r] \in InBody

Knowledge ==
  \A r \in Replica : \A a \in sending \cup alerts :
    a.by = r \/ (a.sound /\ alertConn[r] = "good") => Knows(r, a)

NodeInv == Baselines /\ Knowledge /\ OneAlertEach /\ NoChangeForgotten

(* The leader finds a change that nobody has found before it, unless one   *)
(* of the two has lost its session.                                        *)
LEMMA TickStep ==
  ASSUME NodeInv, Held(alertLock, alertConn, alertPhase), UNCHANGED alertLead,
         NEW r \in Replica, Tick(r)
  PROVE  NodeInv'
<1>1. Baselines /\ Knowledge /\ OneAlertEach /\ NoChangeForgotten
  BY DEF NodeInv
<1>2. PICK found \in SUBSET {flips} :
        /\ found # {} => prev[r] # Empty /\ prev[r] # flips
        /\ sending' = sending \cup
             {[change |-> c, by |-> r, sound |-> alertConn[r] = "good"] : c \in found}
        /\ missed' = missed \cup (Behind(r) \ found)
  BY TickFinds
<1> DEFINE new == [change |-> flips, by |-> r, sound |-> alertConn[r] = "good"]
<1>3. /\ alertPhase[r] = "leading" /\ prev' = [prev EXCEPT ![r] = flips]
      /\ flips' = flips /\ alerts' = alerts /\ alertConn' = alertConn /\ alertPhase' = alertPhase
  BY DEF Tick, Alert!Live, alertLead
<1>4. \/ sending' = sending
      \/ /\ sending' = sending \cup {new} /\ prev[r] # Empty /\ prev[r] < flips
         /\ flips \in 1..MaxFlips
  BY <1>1, <1>2 DEF Baselines, Empty
<1>5. new.change = flips /\ new.by = r /\ new.sound = (alertConn[r] = "good")
  OBVIOUS
<1>6. flips \in 1..MaxFlips => new \in NodeAlert
  BY DEF NodeAlert
<1> HIDE DEF new
<1>7. Baselines'
  BY <1>1, <1>3, <1>4, <1>6 DEF Baselines, InBody
<1>8. \A a \in sending \cup alerts : a.change \in Nat /\ a.change <= flips
  BY <1>1 DEF Baselines, OneAlertEach, NodeAlert
<1>9. Knowledge'
  <2> SUFFICES ASSUME NEW s \in Replica, NEW a \in sending' \cup alerts',
                      a.by = s \/ (a.sound /\ alertConn[s] = "good")
               PROVE  Knows(s, a)'
    BY <1>3 DEF Knowledge
  <2>1. CASE s = r
    BY <1>1, <1>3, <1>4, <1>5, <1>8, <2>1 DEF Knows, Baselines
  <2>2. CASE s # r /\ a \in sending \cup alerts
    BY <1>1, <1>3, <2>2 DEF Knowledge, Knows, Baselines
  <2>3. CASE s # r /\ a = new
    BY <1>5, <2>3 DEF Held
  <2> QED
    BY <1>3, <1>4, <2>1, <2>2, <2>3
<1>10. OneAlertEach'
  <2>1. \A a \in sending' \cup alerts' : a.change <= flips'
    BY <1>1, <1>3, <1>4, <1>5, <1>8 DEF Baselines
  <2>2. ASSUME sending' # sending, NEW b \in sending \cup alerts, b.change = flips
        PROVE  b.by # r /\ ~(b.sound /\ alertConn[r] = "good")
    <3>1. ~Knows(r, b)
      BY <1>1, <1>4, <2>2 DEF Knows, Baselines
    <3> QED
      BY <1>1, <3>1 DEF Knowledge
  <2>3. ASSUME NEW a \in sending', NEW b \in alerts' \cup (sending' \ {a}), a.change = b.change
        PROVE  a.by # b.by /\ ~(a.sound /\ b.sound)
    <3>1. CASE a \in sending /\ b \in sending \cup alerts
      BY <1>1, <1>3, <1>4, <2>3, <3>1 DEF OneAlertEach
    <3>2. CASE a \notin sending
      <4>1. sending' = sending \cup {new} /\ a = new /\ b \in sending \cup alerts
        BY <1>3, <1>4, <2>3, <3>2
      <4> QED
        BY <1>5, <2>2, <2>3, <3>2, <4>1
    <3>3. CASE a \in sending /\ b \notin sending \cup alerts
      <4>1. sending' # sending /\ b = new
        BY <1>3, <1>4, <2>3, <3>3
      <4> QED
        BY <1>5, <2>2, <2>3, <3>3, <4>1
    <3> QED
      BY <3>1, <3>2, <3>3
  <2> QED
    BY <2>1, <2>3 DEF OneAlertEach
<1>11. NoChangeForgotten'
  <2> SUFFICES ASSUME NEW n \in 1..flips
               PROVE  \/ n \in missed'
                      \/ \E a \in sending' \cup alerts' : a.change = n
                      \/ \E s \in Replica : n \in Behind(s)'
    BY <1>3 DEF NoChangeForgotten
  <2>1. CASE n \in missed \/ \E a \in sending \cup alerts : a.change = n
    BY <1>2, <1>3, <2>1
  <2>2. ASSUME NEW s \in Replica \ {r}, n \in Behind(s) PROVE n \in Behind(s)'
    BY <1>1, <1>3, <2>2 DEF Behind, Baselines
  <2>3. CASE n \in Behind(r)
    <3>1. CASE n \notin found
      BY <1>2, <2>3, <3>1
    <3>2. CASE n \in found
      <4>1. n = flips /\ new \in sending'
        BY <1>2, <3>2 DEF new
      <4> QED
        BY <1>5, <4>1
    <3> QED
      BY <3>1, <3>2
  <2> QED
    BY <1>1, <2>1, <2>2, <2>3 DEF NoChangeForgotten
<1> QED
  BY <1>7, <1>9, <1>10, <1>11 DEF NodeInv

(* What ends a loop on r, or its process, leaves the alerts of the others, *)
(* and gives up the changes it had before it.                              *)
LEMMA EndOfLoop ==
  ASSUME NodeInv, NEW r \in Replica, UNCHANGED <<flips, alerts>>,
         NEW unsent \in SUBSET sending, sending' = sending \ unsent,
         prev' = [prev EXCEPT ![r] = Empty],
         missed' = missed \cup Behind(r) \cup {a.change : a \in unsent},
         \A s \in Replica \ {r} :
           /\ alertPhase[s] \in InBody => alertPhase'[s] \in InBody
           /\ alertConn'[s] = "good" => alertConn[s] = "good"
  PROVE  NodeInv'
<1>1. Baselines /\ Knowledge /\ OneAlertEach /\ NoChangeForgotten
  BY DEF NodeInv
<1>2. Baselines'
  BY <1>1 DEF Baselines
<1>3. Knowledge'
  BY <1>1 DEF Knowledge, Knows, Baselines
<1>4. OneAlertEach'
  BY <1>1 DEF OneAlertEach
<1>5. ASSUME NEW n \in 1..flips
      PROVE  \/ n \in missed'
             \/ \E a \in sending' \cup alerts' : a.change = n
             \/ \E s \in Replica : n \in Behind(s)'
  <2>1. ASSUME NEW s \in Replica \ {r}, n \in Behind(s) PROVE n \in Behind(s)'
    BY <1>1, <2>1 DEF Behind, Baselines
  <2>2. ASSUME NEW a \in sending \cup alerts, a.change = n
        PROVE  n \in missed' \/ a \in sending' \cup alerts'
    BY <2>2
  <2> QED
    BY <1>1, <2>1, <2>2 DEF NoChangeForgotten
<1>6. NoChangeForgotten'
  BY <1>5 DEF NoChangeForgotten
<1> QED
  BY <1>2, <1>3, <1>4, <1>6 DEF NodeInv

(* A step of the supervision that starts no loop on a baseline and ends    *)
(* none leaves what is known.                                              *)
LEMMA SupervisionStep ==
  ASSUME NodeInv, UNCHANGED nodeVars,
         \A s \in Replica :
           /\ alertPhase[s] \in InBody => alertPhase'[s] \in InBody
           /\ alertConn'[s] = "good" => alertConn[s] = "good" \/ prev[s] = Empty
  PROVE  NodeInv'
<1>1. Baselines /\ Knowledge /\ OneAlertEach /\ NoChangeForgotten
  BY DEF NodeInv
<1>2. Baselines' /\ OneAlertEach' /\ NoChangeForgotten'
  BY <1>1 DEF nodeVars, Baselines, OneAlertEach, NoChangeForgotten, Behind
<1>3. Knowledge'
  BY <1>1 DEF nodeVars, Knowledge, Knows
<1> QED
  BY <1>2, <1>3 DEF NodeInv

(* Each step leaves every alert its change, and every change its alert or  *)
(* its excuse.                                                             *)
LEMMA NodeStep ==
  ASSUME NodeInv, Held(alertLock, alertConn, alertPhase), Alert!LeaderTypeOK, Next
  PROVE  NodeInv'
<1>1. Baselines /\ Knowledge /\ OneAlertEach /\ NoChangeForgotten
  BY DEF NodeInv
<1>2. CASE UNCHANGED <<alertLead, nodeVars>>
  BY <1>2, SupervisionStep DEF alertLead
<1>3. CASE UNCHANGED alertLead /\ Flip
  <2>1. /\ flips < MaxFlips /\ flips' = flips + 1 /\ UNCHANGED <<prev, sending, alerts>>
        /\ missed' = IF \A r \in Replica : prev[r] = Empty THEN missed \cup {flips'} ELSE missed
    BY <1>3 DEF Flip
  <2>2. Baselines' /\ Knowledge'
    BY <1>1, <1>3, <2>1, AlertsAssumption DEF Baselines, Knowledge, Knows, alertLead
  <2>3. OneAlertEach'
    <3>1. \A a \in sending \cup alerts : a.change \in Nat
      BY <1>1 DEF Baselines, NodeAlert
    <3> QED
      BY <1>1, <2>1, <3>1 DEF OneAlertEach, Baselines
  <2>4. ASSUME NEW n \in 1..flips'
        PROVE  \/ n \in missed'
               \/ \E a \in sending' \cup alerts' : a.change = n
               \/ \E s \in Replica : n \in Behind(s)'
    <3>1. CASE n \in 1..flips
      <4>1. \A s \in Replica : n \in Behind(s) => n \in Behind(s)'
        BY <1>1, <2>1 DEF Behind, Baselines
      <4> QED
        BY <1>1, <2>1, <3>1, <4>1 DEF NoChangeForgotten
    <3>2. CASE n = flips'
      <4>1. ASSUME NEW r \in Replica, prev[r] # Empty PROVE n \in Behind(r)'
        BY <1>1, <2>1, <3>2, <4>1 DEF Behind, Baselines
      <4> QED
        BY <2>1, <3>2, <4>1
    <3> QED
      BY <1>1, <2>1, <3>1, <3>2 DEF Baselines
  <2>5. NoChangeForgotten'
    BY <2>4 DEF NoChangeForgotten
  <2> QED
    BY <2>2, <2>3, <2>5 DEF NodeInv
<1>4. ASSUME UNCHANGED alertLead, NEW r \in Replica, Tick(r) PROVE NodeInv'
  BY <1>4, TickStep
<1>5. ASSUME UNCHANGED alertLead, NEW a \in sending, Send(a) PROVE NodeInv'
  <2>1. /\ sending' = sending \ {a} /\ UNCHANGED <<flips, prev>>
        /\ \/ alerts' = alerts \cup {a} /\ missed' = missed
           \/ alerts' = alerts /\ missed' = missed \cup {a.change}
    BY <1>5 DEF Send
  <2>2. Baselines' /\ Knowledge'
    BY <1>1, <1>5, <2>1 DEF Baselines, Knowledge, Knows, alertLead
  <2>3. OneAlertEach'
    BY <1>1, <2>1 DEF OneAlertEach
  <2>4. NoChangeForgotten'
    BY <1>1, <2>1 DEF NoChangeForgotten, Behind
  <2> QED
    BY <2>2, <2>3, <2>4 DEF NodeInv
<1>6. ASSUME NEW r \in Replica, AlertLoop(r) PROVE NodeInv'
  <2>1. CASE /\ Alert!Acquire(r) \/ Alert!KeepaliveFails(r) \/ Alert!SessionBreaks(r)
             /\ UNCHANGED nodeVars
    <3>1. ASSUME NEW s \in Replica
          PROVE  /\ alertPhase[s] \in InBody => alertPhase'[s] \in InBody
                 /\ alertConn'[s] = "good" => alertConn[s] = "good" \/ prev[s] = Empty
      <4>1. CASE Alert!Acquire(r)
        BY <1>1, <4>1 DEF Alert!Acquire, Alert!LeaderTypeOK, Baselines, InBody
      <4>2. CASE Alert!KeepaliveFails(r) \/ Alert!SessionBreaks(r)
        BY <4>2 DEF Alert!KeepaliveFails, Alert!SessionBreaks, Alert!LeaderTypeOK, InBody
      <4> QED
        BY <2>1, <4>1, <4>2
    <3> QED
      BY <2>1, <3>1, SupervisionStep
  <2>2. CASE /\ Alert!Release(r) /\ prev' = [prev EXCEPT ![r] = Empty]
             /\ missed' = missed \cup Behind(r) /\ UNCHANGED <<flips, sending, alerts>>
    <3>1. \A s \in Replica \ {r} :
            alertPhase'[s] = alertPhase[s] /\ alertConn'[s] = alertConn[s]
      BY <2>2 DEF Alert!Release, Alert!LeaderTypeOK
    <3> DEFINE unsent == {}
    <3>2. /\ unsent \in SUBSET sending /\ sending' = sending \ unsent
          /\ missed' = missed \cup Behind(r) \cup {a.change : a \in unsent}
      BY <2>2
    <3> HIDE DEF unsent
    <3> QED
      BY <2>2, <3>1, <3>2, EndOfLoop
  <2> QED
    BY <1>6, <2>1, <2>2 DEF AlertLoop, nodeVars
<1>7. ASSUME NEW r \in Replica, Alert!Terminate(r), UNCHANGED nodeVars PROVE NodeInv'
  <2>1. \A s \in Replica : alertPhase[s] \in InBody => alertPhase'[s] \in InBody
    BY <1>7 DEF Alert!Terminate, Alert!LeaderTypeOK, InBody
  <2>2. alertConn' = alertConn
    BY <1>7 DEF Alert!Terminate
  <2> QED
    BY <1>7, <2>1, <2>2, SupervisionStep
<1>8. ASSUME NEW r \in Replica, Alert!Crash(r) \/ Alert!Boot(r), Forget(r) PROVE NodeInv'
  <2>1. \A s \in Replica \ {r} :
          /\ alertPhase'[s] = alertPhase[s]
          /\ alertConn'[s] = "good" => alertConn[s] = "good"
    BY <1>8 DEF Alert!Crash, Alert!Boot, Alert!LeaderTypeOK
  <2> DEFINE unsent == {a \in sending : a.by = r}
  <2>2. /\ unsent \in SUBSET sending /\ sending' = sending \ unsent
        /\ prev' = [prev EXCEPT ![r] = Empty] /\ UNCHANGED <<flips, alerts>>
        /\ missed' = missed \cup Behind(r) \cup {a.change : a \in unsent}
    BY <1>8 DEF Forget
  <2> HIDE DEF unsent
  <2> QED
    BY <2>1, <2>2, EndOfLoop
<1>9. CASE Alert!SessionEnds /\ UNCHANGED nodeVars
  BY <1>9, SupervisionStep DEF Alert!SessionEnds
<1> QED
  BY <1>2, <1>3, <1>4, <1>5, <1>6, <1>7, <1>8, <1>9, AlertSteps

(* Theorem (AlertsHaveCauses): a node alert has a change behind it and is  *)
(* the only one for it but across a broken session, a change without one   *)
(* was missed, and there are no more disk alerts than replicas and faults: *)
(* for any number of replicas, of changes, and of faults of both loops.    *)
THEOREM AlertsAlwaysHaveCauses == Spec => []AlertsHaveCauses
<1>1. Init => NodeInv /\ DiskInv
  <2> SUFFICES ASSUME Init PROVE NodeInv /\ DiskInv
    OBVIOUS
  <2>1. alertConn = [r \in Replica |-> "none"] /\ alertPhase = [r \in Replica |-> "standby"]
        /\ phase = [r \in Replica |-> "standby"] /\ faults = 0
    BY DEF Init, LeaderInit, Alert!LeaderInit
  <2>2. NodeInv
    BY <2>1, AlertsAssumption DEF Init, NodeInv, Baselines, Knowledge, OneAlertEach, NoChangeForgotten
  <2>4. Stopped = {} /\ LastWords = {} /\ Cooling = {}
    BY <2>1 DEF Init, Stopped, LastWords, Cooling
  <2>5. Cardinality(LastWords) = 0 /\ Cardinality(Cooling) = 0
    BY <2>4, FS_EmptySet
  <2>6. DiskInv
    BY <2>1, <2>4, <2>5 DEF Init, DiskInv
  <2> QED
    BY <2>2, <2>6
<1>2. NodeInv /\ DiskInv /\ BothHeld /\ TypeOK /\ [Next]_vars => (NodeInv /\ DiskInv)'
  <2> SUFFICES ASSUME NodeInv, DiskInv, BothHeld, TypeOK, [Next]_vars PROVE NodeInv' /\ DiskInv'
    OBVIOUS
  <2>1. CASE Next
    <3>1. Held(alertLock, alertConn, alertPhase) /\ Alert!LeaderTypeOK
      BY DEF BothHeld, TypeOK
    <3> QED
      BY <2>1, <3>1, NodeStep, DiskStep
  <2>2. CASE UNCHANGED vars
    <3>1. UNCHANGED <<alertLead, nodeVars, phase, faults, diskVars>>
      BY <2>2 DEF vars, leaderVars
    <3>2. NodeInv'
      BY <3>1, SupervisionStep DEF alertLead
    <3>3. DiskInv'
      BY <3>1 DEF DiskInv, Stopped, LastWords, Cooling, Up, alertLead, diskVars
    <3> QED
      BY <3>2, <3>3
  <2> QED
    BY <2>1, <2>2
<1>3. NodeInv /\ DiskInv => AlertsHaveCauses
  <2> SUFFICES ASSUME NodeInv, DiskInv PROVE lowDisk <= Cardinality(Replica) + faults
    BY DEF AlertsHaveCauses, NodeInv, DisksArePatient
  <2>1. LastWords \subseteq Replica /\ Cooling \subseteq Replica
    BY DEF LastWords, Cooling, Stopped, DiskInv
  <2>2. /\ Cardinality(LastWords) \in Nat /\ Cardinality(Cooling) \in Nat
        /\ Cardinality(Replica) \in Nat /\ Cardinality(Cooling) <= Cardinality(Replica)
    BY <2>1, Counts
  <2> QED
    BY <2>2 DEF DiskInv
<1> QED
  BY <1>1, <1>2, <1>3, BothAlwaysHeld, TypesHold, PTL DEF Spec
=============================================================================
