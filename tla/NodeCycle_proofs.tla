-------------------------- MODULE NodeCycle_proofs --------------------------
(* What holds of NodeCycle for any number of jobs and slots, any limits, any *)
(* number of updates at once, and any number of releases, requests, lost     *)
(* replies and early failures.                                               *)
EXTENDS NodeCycle, FiniteSetTheorems, TLAPS

(* The steps of the agent by itself, and those of everybody else. *)
AgentStep ==
  \/ \E j \in Jobs : EndEncode(j) \/ FailEarly(j) \/ Complete(j) \/ BumpCounter(j)
  \/ \E u \in Updaters : \/ UpdateBegin(u) \/ UpdateCheck(u)
                         \/ \E ok \in BOOLEAN : UpdateEnd(u, ok)
  \/ PowerCycle

WorldStep ==
  \/ \E j \in Jobs : NewJob(j) \/ Cancel(j)
  \/ Publish \/ RebootRequestRead \/ RebootRequestWrite \/ GraceExpires

(* The free slots a request counts are a number of slots. *)
LEMMA FreeSlotsType ==
  ASSUME NEW holding \in SUBSET Jobs
  PROVE  FreeSlots(holding) \in 0..Slots
<1>1. Cardinality(holding) \in Nat
  BY FS_Subset, FS_CardinalityType, JobsFinite
<1>2. Slots \in Nat  BY CycleAssumption
<1> QED  BY <1>1, <1>2 DEF FreeSlots

(* No request is one too. *)
LEMMA NoRequestType == NoRequest \in Request
BY CycleAssumption DEF Request, NoRequest, NoRow, Row, Releases

(* No update is one too. *)
LEMMA NoUpdateType == NoUpdate \in Update
BY CycleAssumption DEF NoUpdate, Update, Releases

(* All variables are typed at the start. *)
LEMMA InitType == Init => TypeOK
<1> SUFFICES ASSUME Init PROVE TypeOK  OBVIOUS
<1>1. row \in Row /\ release \in Releases /\ installed \in Releases
  BY CycleAssumption DEF Init, Row, NoRow, Releases
<1>2. hb \in Request /\ update \in [Updaters -> Update]
  BY NoRequestType, NoUpdateType DEF Init
<1>3. requests \in 0..MaxRequests /\ faults \in 0..MaxFaults /\ counter \in Nat
  BY CycleAssumption DEF Init
<1>4. admin \in [reading: BOOLEAN, tasks: Nat]
  BY DEF Init, NobodyAsks
<1> QED  BY <1>1, <1>2, <1>3, <1>4 DEF Init, TypeOK

(* A heartbeat is sent with the agent's report and a copy of the row. *)
LEMMA SendType == ASSUME TypeOK, SendHeartbeat PROVE TypeOK'
<1>1. hb' \in Request
  <2> DEFINE isEarly == Updating # {} /\ ~syncing
  <2>1. isEarly \in BOOLEAN /\ Registry \in SUBSET Jobs  BY DEF Registry
  <2>2. hb' = [NoRequest EXCEPT
                !.pc = "record", !.live = TRUE, !.copy = row,
                !.reported = Registry, !.tasks = counter,
                !.syncing = syncing, !.version = installed, !.early = isEarly]
    BY DEF SendHeartbeat
  <2>3. row \in Row /\ counter \in Nat /\ installed \in Releases /\ syncing \in BOOLEAN
    BY DEF TypeOK
  <2> HIDE DEF isEarly
  <2> QED  BY <2>1, <2>2, <2>3, NoRequestType DEF Request
<1> QED  BY <1>1 DEF TypeOK, SendHeartbeat, agentVars, updateVars, history, countVars

(* Recording the report keeps row, jobs and request typed. *)
LEMMA RecordType == ASSUME TypeOK, HbRecord PROVE TypeOK'
<1> DEFINE orphans == {j \in Jobs \ hb.reported : job[j] = "running"}
<1>1. FreeSlots(ActiveJobs \ orphans) \in 0..Slots
  BY FreeSlotsType DEF ActiveJobs
<1>2. row' \in Row
  BY DEF TypeOK, HbRecord, Request, Row
<1>3. hb' \in Request
  <2> DEFINE free == FreeSlots(ActiveJobs \ orphans)
             active == hb.syncing \/ hb.reported \cap ActiveJobs # {}
  <2>1. hb' = [hb EXCEPT !.pc = "decide", !.copy = row', !.active = active,
                         !.free = free, !.reported = {}]
    BY DEF HbRecord
  <2>2. free \in 0..Slots /\ active \in BOOLEAN /\ hb \in Request
    BY <1>1 DEF TypeOK
  <2> HIDE DEF free, active
  <2> QED  BY <1>2, <2>1, <2>2 DEF Request
<1>4. job' \in [Jobs -> {"over", "queued"} \cup Active]
  BY DEF TypeOK, HbRecord, Active
<1> QED
  BY <1>2, <1>3, <1>4
  DEF TypeOK, HbRecord, agentVars, updateVars, history, countVars

(* So does each of the answers. *)
LEMMA AnswerType ==
  ASSUME TypeOK, HbReboot \/ HbUpdate \/ HbNone \/ HbAssign
  PROVE  TypeOK'
<1> USE DEF agentVars, updateVars, history, countVars
<1>1. CASE HbReboot
  <2>1. row' \in Row  BY <1>1 DEF TypeOK, HbReboot, Request, Row
  <2>2. hb' \in Request
    BY <1>1, NoRequestType DEF TypeOK, HbReboot, Answer, Request
  <2> QED  BY <1>1, <2>1, <2>2 DEF TypeOK, HbReboot
<1>2. CASE HbUpdate
  <2>1. hb' \in Request
    BY <1>2, NoRequestType DEF TypeOK, HbUpdate, Request
  <2> QED  BY <1>2, <2>1 DEF TypeOK, HbUpdate
<1>3. CASE HbNone
  <2>1. hb' \in Request
    BY <1>3, NoRequestType DEF TypeOK, HbNone, Answer, Request
  <2> QED  BY <1>3, <2>1 DEF TypeOK, HbNone
<1>4. CASE HbAssign
  <2>1. PICK given \in SUBSET Queue :
          /\ job' = [j \in Jobs |-> IF j \in given THEN "assigned" ELSE job[j]]
          /\ hb' = [NoRequest EXCEPT !.pc = "reply", !.live = hb.live,
                                     !.answer = "jobs", !.jobs = given,
                                     !.early = hb.early]
    BY <1>4 DEF HbAssign
  <2>2. hb' \in Request
    <3>1. given \in SUBSET Jobs  BY DEF Queue
    <3>2. hb.live \in BOOLEAN /\ hb.early \in BOOLEAN  BY DEF TypeOK, Request
    <3> QED  BY <2>1, <3>1, <3>2, NoRequestType DEF Request
  <2>3. job' \in [Jobs -> {"over", "queued"} \cup Active]
    BY <2>1 DEF TypeOK, Active
  <2> QED  BY <1>4, <2>2, <2>3 DEF TypeOK, HbAssign
<1> QED  BY <1>1, <1>2, <1>3, <1>4

(* The agent does as it is told, or never hears of it. *)
LEMMA ReplyType == ASSUME TypeOK, HbReply \/ LoseReply PROVE TypeOK'
<1>1. CASE HbReply
  <2> DEFINE answer == IF hb.live THEN hb.answer ELSE "none"
  <2>1. hb' \in Request  BY <1>1, NoRequestType DEF HbReply
  <2>2. /\ hb.jobs \subseteq Jobs /\ hb.offer \in Releases
    BY DEF TypeOK, Request
  <2>3. CASE answer = "reboot"
    <3> DEFINE crossing == Updating # {}
    <3>1. \/ /\ machine' = "closing" /\ counter' = 0
             /\ crossed' = (crossed \/ crossing)
          \/ UNCHANGED <<machine, counter, crossed>>
      BY <1>1, <2>3 DEF HbReply, AgentReboot
    <3>2. crossing \in BOOLEAN  OBVIOUS
    <3> HIDE DEF crossing
    <3>3. crossed' \in BOOLEAN  BY <3>1, <3>2 DEF TypeOK
    <3>4. machine' \in {"up", "closing"} /\ counter' \in Nat  BY <3>1 DEF TypeOK
    <3> QED
      BY <1>1, <2>1, <2>3, <3>3, <3>4 DEF TypeOK, HbReply, updateVars, countVars
  <2>4. CASE answer = "update"
    <3>1. PICK u \in Updaters \ Updating :
            update' = [update EXCEPT ![u] = [stage |-> "begun", offer |-> hb.offer]]
      BY <1>1, <2>4 DEF HbReply
    <3>2. update' \in [Updaters -> Update]
      BY <2>2, <3>1 DEF TypeOK, Update
    <3> QED  BY <1>1, <2>1, <2>4, <3>2 DEF TypeOK, HbReply, countVars
  <2>5. CASE answer = "jobs"
    <3>1. PICK taken \in Accepts(hb.jobs) :
            /\ work' = [j \in Jobs |-> IF j \in taken THEN "encoding" ELSE work[j]]
            /\ landed' = IF hb.early THEN landed \cup taken ELSE landed \ taken
      BY <1>1, <2>5 DEF HbReply, AgentJobs
    <3>2. taken \subseteq Jobs  BY <2>2 DEF Accepts
    <3> QED
      BY <1>1, <2>1, <2>5, <3>1, <3>2 DEF TypeOK, HbReply, updateVars, countVars
  <2>6. CASE answer = "none"
    BY <1>1, <2>1, <2>6 DEF TypeOK, HbReply, agentVars, updateVars, countVars
  <2> QED  BY <1>1, <2>3, <2>4, <2>5, <2>6 DEF HbReply
<1>2. CASE LoseReply
  <2>1. hb' \in Request
    BY <1>2 DEF TypeOK, LoseReply, Request
  <2>2. faults' \in 0..MaxFaults
    BY <1>2, CycleAssumption DEF TypeOK, LoseReply
  <2> QED  BY <1>2, <2>1, <2>2 DEF TypeOK, LoseReply, agentVars, updateVars, history
<1> QED  BY <1>1, <1>2

(* The encodes, updates and reboots of the agent keep it typed. *)
LEMMA AgentType == ASSUME TypeOK, AgentStep PROVE TypeOK'
<1> USE DEF updateVars, history, countVars
<1>1. ASSUME NEW j \in Jobs, EndEncode(j) PROVE TypeOK'
  BY <1>1 DEF TypeOK, EndEncode
<1>2. ASSUME NEW j \in Jobs, FailEarly(j) PROVE TypeOK'
  BY <1>2, CycleAssumption DEF TypeOK, FailEarly
<1>3. ASSUME NEW j \in Jobs, Complete(j) PROVE TypeOK'
  BY <1>3 DEF TypeOK, Complete, Active
<1>4. ASSUME NEW j \in Jobs, BumpCounter(j) PROVE TypeOK'
  BY <1>4 DEF TypeOK, BumpCounter
<1>5. ASSUME NEW u \in Updaters, UpdateBegin(u) PROVE TypeOK'
  BY <1>5 DEF TypeOK, UpdateBegin, Update
<1>6. ASSUME NEW u \in Updaters, UpdateCheck(u) PROVE TypeOK'
  <2>1. /\ \/ update' = [update EXCEPT ![u] = NoUpdate] /\ syncing' = FALSE
           \/ update' = [update EXCEPT ![u].stage = "swapping"] /\ UNCHANGED syncing
        /\ UNCHANGED <<row, job, release, machine, counter, work, installed,
                       hb, admin, history, countVars>>
    BY <1>6 DEF UpdateCheck
  <2>2. update' \in [Updaters -> Update]
    <3>1. CASE update' = [update EXCEPT ![u] = NoUpdate]
      BY <3>1, NoUpdateType DEF TypeOK
    <3>2. CASE update' = [update EXCEPT ![u].stage = "swapping"]
      BY <3>2 DEF TypeOK, Update
    <3> QED  BY <2>1, <3>1, <3>2
  <2>3. syncing' \in BOOLEAN  BY <2>1 DEF TypeOK
  <2> QED  BY <2>1, <2>2, <2>3 DEF TypeOK
<1>7. ASSUME NEW u \in Updaters, NEW ok \in BOOLEAN, UpdateEnd(u, ok) PROVE TypeOK'
  BY <1>7, NoUpdateType DEF TypeOK, UpdateEnd, Update
<1>8. CASE PowerCycle
  <2>1. hb' \in Request  BY <1>8 DEF TypeOK, PowerCycle, Request
  <2> QED  BY <1>8, <2>1, NoUpdateType DEF TypeOK, PowerCycle
<1> QED  BY <1>1, <1>2, <1>3, <1>4, <1>5, <1>6, <1>7, <1>8 DEF AgentStep

(* The queue, the operator and the clock keep the variables typed. *)
LEMMA WorldType == ASSUME TypeOK, WorldStep PROVE TypeOK'
<1> USE DEF agentVars, updateVars, history, countVars
<1>1. ASSUME NEW j \in Jobs, NewJob(j) PROVE TypeOK'
  BY <1>1 DEF TypeOK, NewJob
<1>2. ASSUME NEW j \in Jobs, Cancel(j) PROVE TypeOK'
  BY <1>2, CycleAssumption DEF TypeOK, Cancel
<1>3. CASE Publish
  BY <1>3, CycleAssumption DEF TypeOK, Publish, Releases
<1>4. CASE RebootRequestRead
  BY <1>4, CycleAssumption DEF TypeOK, RebootRequestRead, Row
<1>5. CASE RebootRequestWrite
  <2>1. row' \in Row  BY <1>5 DEF TypeOK, RebootRequestWrite, Row
  <2>2. admin' \in [reading: BOOLEAN, tasks: Nat]
    BY <1>5 DEF RebootRequestWrite, NobodyAsks
  <2> QED  BY <1>5, <2>1, <2>2 DEF TypeOK, RebootRequestWrite
<1>6. CASE GraceExpires
  <2>1. \A r \in Row : Aged(r) \in Row  BY DEF Aged, Row
  <2>2. hb' \in Request  BY <1>6, <2>1 DEF TypeOK, GraceExpires, Request
  <2> QED  BY <1>6, <2>1, <2>2 DEF TypeOK, GraceExpires
<1> QED  BY <1>1, <1>2, <1>3, <1>4, <1>5, <1>6 DEF WorldStep

(* A step is one of the heartbeat, of the agent or of the world. *)
LEMMA StepOf ==
  ASSUME Next
  PROVE  SendHeartbeat \/ Controller \/ HbReply \/ LoseReply \/ AgentStep \/ WorldStep
BY DEF Next, AgentStep, WorldStep

(* Every step keeps the variables typed. *)
LEMMA NextType == TypeOK /\ [Next]_vars => TypeOK'
<1> SUFFICES ASSUME TypeOK, [Next]_vars PROVE TypeOK'  OBVIOUS
<1>1. CASE Next
  BY <1>1, StepOf, SendType, RecordType, AnswerType, ReplyType, AgentType, WorldType
  DEF Controller
<1>2. CASE UNCHANGED vars
  BY <1>2 DEF TypeOK, vars, agentVars, updateVars, history, countVars
<1> QED  BY <1>1, <1>2

(* Row, counter, registry, updates and request keep their types, for all   *)
(* limits.                                                                 *)
THEOREM CycleTypes == Spec => []TypeOK
BY InitType, NextType, PTL DEF Spec

-----------------------------------------------------------------------------
(* What a request in flight knows about the agent, although it has read    *)
(* it at an earlier moment: until it is answered the agent starts nothing, *)
(* so a request that found the agent without active work is right to the   *)
(* end, but for the jobs that were cancelled after they were handed out.   *)

(* What the agent has, and whose end the controller has not recorded. *)
Busy == {j \in Jobs : work[j] \in {"encoding", "failing", "reporting"}}
Held == Busy \ disowned

Knowledge ==
  /\ Held \subseteq ActiveJobs
  /\ hb.pc = "record" => Held \subseteq hb.reported
  /\ hb.pc = "decide" => hb.active \/ Held = {}
  /\ hb.pc = "reply" /\ hb.answer = "reboot" => Held = {}
  /\ hb.pc = "reply" /\ hb.answer = "jobs" =>
       \A j \in hb.jobs \ disowned : job[j] \in Active /\ j \notin Held

(* And about its updates: a request served while one is under way left     *)
(* with the flag, or early.                                                *)
SyncKnown ==
  /\ syncing => Updating # {}
  /\ Updating # {} =>
       /\ hb.pc \in {"record", "decide"} => hb.early \/ hb.syncing
       /\ hb.pc = "reply" /\ hb.answer = "jobs" => hb.early

CycleInv == TypeOK /\ Knowledge /\ SyncKnown /\ NoJobMidSwap

(* At the start the agent does nothing. *)
LEMMA InitKnowledge == Init => Knowledge /\ SyncKnown /\ NoJobMidSwap
BY DEF Init, Knowledge, SyncKnown, NoJobMidSwap, Held, Busy, Encoding, Updating,
   Swapping, NoRequest, NoUpdate

(* The request is the same as far as the invariant looks at it. *)
SameRequest ==
  /\ hb'.pc = hb.pc /\ hb'.active = hb.active /\ hb'.jobs = hb.jobs
  /\ hb'.syncing = hb.syncing /\ hb'.answer = hb.answer /\ hb'.early = hb.early
  /\ hb'.reported = hb.reported

(* What leaves agent, table and request as they are keeps it. *)
LEMMA NothingKnown ==
  ASSUME CycleInv, SameRequest, UNCHANGED <<job, work, update, syncing, landed, disowned>>
  PROVE  Knowledge' /\ SyncKnown' /\ NoJobMidSwap'
<1>1. /\ Held' = Held /\ ActiveJobs' = ActiveJobs /\ Updating' = Updating
      /\ Swapping' = Swapping /\ Encoding' = Encoding
  BY DEF Held, Busy, ActiveJobs, Updating, Swapping, Encoding
<1> QED
  BY <1>1 DEF CycleInv, Knowledge, SyncKnown, NoJobMidSwap, SameRequest

(* What leaves the updates as they are keeps what is known of them. *)
LEMMA SameUpdates ==
  ASSUME CycleInv, SameRequest \/ hb'.pc = "idle", UNCHANGED <<update, syncing>>
  PROVE  SyncKnown' /\ Updating' = Updating /\ Swapping' = Swapping
<1>1. Updating' = Updating /\ Swapping' = Swapping
  BY DEF Updating, Swapping
<1> QED  BY <1>1 DEF CycleInv, SyncKnown, SameRequest

(* Sending a heartbeat takes the snapshot the rest relies on. *)
LEMMA SendKnowledge ==
  ASSUME CycleInv, SendHeartbeat
  PROVE  Knowledge' /\ SyncKnown' /\ NoJobMidSwap'
<1> DEFINE isEarly == Updating # {} /\ ~syncing
<1>1. /\ hb'.pc = "record" /\ hb'.reported = Registry /\ hb'.syncing = syncing
      /\ hb'.early = isEarly
  BY DEF SendHeartbeat, NoRequest
<1>2. Held \subseteq Registry  BY DEF Held, Busy, Registry
<1>3. UNCHANGED <<job, work, update, syncing, landed, disowned>>
  BY DEF SendHeartbeat, agentVars, updateVars, history
<1>4. /\ Held' = Held /\ ActiveJobs' = ActiveJobs /\ Updating' = Updating
      /\ Swapping' = Swapping /\ Encoding' = Encoding
  BY <1>3 DEF Held, Busy, ActiveJobs, Updating, Swapping, Encoding
<1>5. Knowledge'
  BY <1>1, <1>2, <1>4 DEF CycleInv, Knowledge
<1>6. SyncKnown'
  BY <1>1, <1>3, <1>4 DEF CycleInv, SyncKnown
<1> QED  BY <1>3, <1>4, <1>5, <1>6 DEF CycleInv, NoJobMidSwap

(* A request that finds no job reported and active finds the agent with    *)
(* none; a reported job is no orphan.                                      *)
LEMMA RecordKnowledge ==
  ASSUME CycleInv, HbRecord
  PROVE  Knowledge' /\ SyncKnown' /\ NoJobMidSwap'
<1> DEFINE mine == hb.reported \cap ActiveJobs
           orphans == {j \in Jobs \ hb.reported : job[j] = "running"}
<1>1. /\ hb.pc = "record" /\ hb'.pc = "decide" /\ hb'.syncing = hb.syncing
      /\ hb'.early = hb.early
      /\ hb'.active = (hb.syncing \/ mine # {})
      /\ job' = [j \in Jobs |-> IF j \in orphans THEN "over"
                                ELSE IF j \in mine THEN "running" ELSE job[j]]
      /\ UNCHANGED <<work, update, syncing, landed, disowned>>
  BY DEF HbRecord, CycleInv, TypeOK, Request, agentVars, updateVars, history
<1>2. Held \subseteq mine /\ Held' = Held
  BY <1>1 DEF CycleInv, Knowledge, Held, Busy
<1>3. Held' \subseteq ActiveJobs'
  BY <1>1, <1>2 DEF ActiveJobs, Active
<1>4. hb'.active \/ Held' = {}  BY <1>1, <1>2
<1>5. Updating' = Updating /\ Swapping' = Swapping /\ Encoding' = Encoding
  BY <1>1 DEF Updating, Swapping, Encoding
<1>6. Knowledge'  BY <1>1, <1>3, <1>4 DEF Knowledge
<1>7. SyncKnown'  BY <1>1, <1>5 DEF CycleInv, SyncKnown
<1> QED  BY <1>1, <1>5, <1>6, <1>7 DEF CycleInv, NoJobMidSwap

(* What is answered is right for the agent as it is now. *)
LEMMA AnswerKnowledge ==
  ASSUME CycleInv, HbReboot \/ HbUpdate \/ HbNone \/ HbAssign
  PROVE  Knowledge' /\ SyncKnown' /\ NoJobMidSwap'
<1>0. /\ hb.pc = "decide" /\ hb'.pc = "reply"
      /\ UNCHANGED <<work, update, syncing, landed, disowned>>
  BY DEF HbReboot, HbUpdate, HbNone, HbAssign, Answer, NoRequest, agentVars,
     updateVars, history
<1>1. /\ Updating' = Updating /\ Swapping' = Swapping
      /\ Encoding' = Encoding /\ Held' = Held
  BY <1>0 DEF Updating, Swapping, Encoding, Held, Busy
<1>2. CASE HbReboot \/ HbUpdate \/ HbNone
  <2>1. /\ UNCHANGED job /\ hb'.answer # "jobs"
        /\ hb'.answer = "reboot" => ~hb.active
    <3>1. CASE HbReboot
      BY <3>1 DEF HbReboot, RebootNow, Answer, NoRequest
    <3>2. CASE HbUpdate
      BY <3>2 DEF HbUpdate, NoRequest
    <3>3. CASE HbNone
      BY <3>3 DEF HbNone, Answer, NoRequest
    <3> QED  BY <1>2, <3>1, <3>2, <3>3
  <2>2. ActiveJobs' = ActiveJobs  BY <2>1 DEF ActiveJobs
  <2> QED
    BY <1>0, <1>1, <2>1, <2>2 DEF CycleInv, Knowledge, SyncKnown, NoJobMidSwap
<1>3. CASE HbAssign
  <2>1. PICK given \in SUBSET Queue :
          /\ job' = [j \in Jobs |-> IF j \in given THEN "assigned" ELSE job[j]]
          /\ hb' = [NoRequest EXCEPT !.pc = "reply", !.live = hb.live,
                                     !.answer = "jobs", !.jobs = given,
                                     !.early = hb.early]
    BY <1>3 DEF HbAssign
  <2>2. hb'.answer = "jobs" /\ hb'.jobs = given /\ hb'.early = hb.early
    BY <2>1 DEF NoRequest
  <2>3. Updating # {} => hb.early
    BY <1>0, <1>3 DEF HbAssign, MayAssign, CycleInv, SyncKnown
  <2>4. \A j \in given : job'[j] = "assigned" /\ j \notin Held
    BY <2>1 DEF CycleInv, Knowledge, Queue, ActiveJobs, Active
  <2>5. Held' \subseteq ActiveJobs'
    BY <1>1, <2>1 DEF CycleInv, Knowledge, ActiveJobs, Active
  <2>6. Knowledge'
    BY <1>0, <1>1, <2>2, <2>4, <2>5 DEF Knowledge, Active
  <2>7. SyncKnown'
    BY <1>0, <1>1, <2>2, <2>3 DEF CycleInv, SyncKnown
  <2> QED  BY <1>0, <1>1, <2>6, <2>7 DEF CycleInv, NoJobMidSwap
<1> QED  BY <1>2, <1>3

(* Jobs that arrive while an update is under way came with a heartbeat     *)
(* that had left early.                                                    *)
LEMMA ReplyKnowledge ==
  ASSUME CycleInv, HbReply \/ LoseReply
  PROVE  Knowledge' /\ SyncKnown' /\ NoJobMidSwap'
<1>1. CASE LoseReply
  BY <1>1, NothingKnown
  DEF LoseReply, agentVars, updateVars, history, SameRequest, CycleInv, TypeOK, Request
<1>2. CASE HbReply
  <2> DEFINE answer == IF hb.live THEN hb.answer ELSE "none"
  <2>1. hb.pc = "reply" /\ hb'.pc = "idle" /\ UNCHANGED <<job, disowned>>
    BY <1>2 DEF HbReply, NoRequest
  <2>2. ActiveJobs' = ActiveJobs  BY <2>1 DEF ActiveJobs
  <2>3. CASE answer \in {"reboot", "none"}
    <3>1. UNCHANGED <<work, update, syncing, landed>>
      BY <1>2, <2>3 DEF HbReply, agentVars, updateVars
    <3>2. Encoding' = Encoding /\ Held' = Held
      BY <2>1, <3>1 DEF Encoding, Held, Busy
    <3> QED
      BY <2>1, <2>2, <3>1, <3>2, SameUpdates DEF CycleInv, Knowledge, NoJobMidSwap
  <2>4. CASE answer = "update"
    <3>1. PICK u \in Updaters \ Updating :
            update' = [update EXCEPT ![u] = [stage |-> "begun", offer |-> hb.offer]]
      BY <1>2, <2>4 DEF HbReply
    <3>2. UNCHANGED <<work, syncing, landed>>
      BY <1>2, <2>4 DEF HbReply
    <3>3. Updating' # {} /\ Swapping' = Swapping
      BY <3>1 DEF CycleInv, TypeOK, Updating, Swapping
    <3>4. Encoding' = Encoding /\ Held' = Held
      BY <2>1, <3>2 DEF Encoding, Held, Busy
    <3> QED
      BY <2>1, <2>2, <3>2, <3>3, <3>4
      DEF CycleInv, Knowledge, SyncKnown, NoJobMidSwap
  <2>5. CASE answer = "jobs"
    <3>1. PICK taken \in Accepts(hb.jobs) :
            /\ work' = [j \in Jobs |-> IF j \in taken THEN "encoding" ELSE work[j]]
            /\ landed' = IF hb.early THEN landed \cup taken ELSE landed \ taken
      BY <1>2, <2>5 DEF HbReply, AgentJobs
    <3>2. taken \subseteq hb.jobs /\ UNCHANGED <<update, syncing>>
      BY <1>2, <2>5 DEF Accepts, HbReply, updateVars
    <3>3. SyncKnown' /\ Swapping' = Swapping /\ Updating' = Updating
      BY <2>1, <3>2, SameUpdates
    <3>4. Held' \subseteq ActiveJobs'
      <4>1. Held' \subseteq Held \cup (hb.jobs \ disowned)
        BY <2>1, <3>1, <3>2 DEF Held, Busy
      <4>2. hb.jobs \ disowned \subseteq ActiveJobs
        BY <2>1, <2>5 DEF CycleInv, Knowledge, ActiveJobs, TypeOK, Request
      <4> QED  BY <2>2, <4>1, <4>2 DEF CycleInv, Knowledge
    <3>5. NoJobMidSwap'
      <4>1. SUFFICES ASSUME Swapping # {} PROVE Encoding' \subseteq landed'
        BY <3>3 DEF NoJobMidSwap
      <4>2. hb.early
        BY <2>1, <2>5, <4>1 DEF CycleInv, SyncKnown, Updating, Swapping
      <4>3. Encoding' \subseteq Encoding \cup taken
        BY <3>1 DEF Encoding
      <4> QED  BY <3>1, <4>1, <4>2, <4>3 DEF CycleInv, NoJobMidSwap
    <3> QED  BY <2>1, <3>3, <3>4, <3>5 DEF Knowledge
  <2> QED  BY <1>2, <2>3, <2>4, <2>5 DEF HbReply
<1> QED  BY <1>1, <1>2

(* The agent by itself starts no encode. *)
LEMMA WorkKnowledge ==
  ASSUME CycleInv, NEW j \in Jobs,
         EndEncode(j) \/ FailEarly(j) \/ Complete(j) \/ BumpCounter(j)
  PROVE  Knowledge' /\ SyncKnown' /\ NoJobMidSwap'
<1>0. /\ SameRequest /\ UNCHANGED <<update, syncing, disowned>>
  BY DEF EndEncode, FailEarly, Complete, BumpCounter, updateVars, history, SameRequest
<1>1. SyncKnown' /\ Swapping' = Swapping
  BY <1>0, SameUpdates
<1>2. CASE EndEncode(j) \/ FailEarly(j)
  <2>1. /\ work[j] = "encoding" /\ UNCHANGED job /\ landed' = landed \ {j}
        /\ work' \in {[work EXCEPT ![j] = "reporting"], [work EXCEPT ![j] = "failing"]}
    BY <1>2 DEF EndEncode, FailEarly
  <2>2. /\ Encoding' = Encoding \ {j} /\ Busy' = Busy /\ ActiveJobs' = ActiveJobs
    BY <2>1 DEF CycleInv, TypeOK, Encoding, Busy, ActiveJobs
  <2>3. Held' = Held  BY <1>0, <2>2 DEF Held
  <2> QED
    BY <1>0, <1>1, <2>1, <2>2, <2>3
    DEF CycleInv, Knowledge, NoJobMidSwap, SameRequest
<1>3. CASE Complete(j)
  <2>1. /\ work[j] \in {"reporting", "failing"} /\ UNCHANGED landed
        /\ work' \in {[work EXCEPT ![j] = "counting"], [work EXCEPT ![j] = "none"]}
        /\ job' = [job EXCEPT ![j] = IF job[j] \in Active THEN "over" ELSE job[j]]
    BY <1>3 DEF Complete, history
  <2>2. Encoding' = Encoding /\ Busy' = Busy \ {j} /\ j \in Busy
    BY <2>1 DEF CycleInv, TypeOK, Encoding, Busy
  <2>3. ActiveJobs' = ActiveJobs \ {j}
    BY <2>1 DEF CycleInv, TypeOK, ActiveJobs, Active
  <2>4. Held' = Held \ {j}  BY <1>0, <2>2 DEF Held
  <2>5. hb.pc = "reply" /\ hb.answer = "jobs" => j \notin hb.jobs \ disowned
    BY <2>2 DEF CycleInv, Knowledge, Held
  <2>6. \A i \in Jobs \ {j} : job'[i] = job[i]
    BY <2>1 DEF CycleInv, TypeOK
  <2>7. hb.jobs \subseteq Jobs  BY DEF CycleInv, TypeOK, Request
  <2>8. hb'.pc = "reply" /\ hb'.answer = "jobs" =>
          \A i \in hb'.jobs \ disowned' : job'[i] \in Active /\ i \notin Held'
    BY <1>0, <2>4, <2>5, <2>6, <2>7 DEF CycleInv, Knowledge, SameRequest
  <2>9. Knowledge'
    BY <1>0, <2>3, <2>4, <2>8 DEF CycleInv, Knowledge, SameRequest
  <2> QED  BY <1>1, <2>1, <2>2, <2>9 DEF CycleInv, NoJobMidSwap
<1>4. CASE BumpCounter(j)
  <2>1. /\ work[j] = "counting" /\ UNCHANGED <<job, landed>>
        /\ work' = [work EXCEPT ![j] = "none"]
    BY <1>4 DEF BumpCounter, history
  <2>2. Encoding' = Encoding /\ Busy' = Busy /\ ActiveJobs' = ActiveJobs
    BY <2>1 DEF CycleInv, TypeOK, Encoding, Busy, ActiveJobs
  <2>3. Held' = Held  BY <1>0, <2>2 DEF Held
  <2> QED
    BY <1>0, <1>1, <2>1, <2>2, <2>3
    DEF CycleInv, Knowledge, NoJobMidSwap, SameRequest
<1> QED  BY <1>2, <1>3, <1>4

(* An update goes on only when the registry is empty. *)
LEMMA UpdateKnowledge ==
  ASSUME CycleInv, NEW u \in Updaters,
         \/ UpdateBegin(u) \/ UpdateCheck(u)
         \/ \E ok \in BOOLEAN : UpdateEnd(u, ok)
  PROVE  Knowledge' /\ SyncKnown' /\ NoJobMidSwap'
<1>0. /\ UNCHANGED <<job, work, hb, landed, disowned>> /\ u \in Updating
  BY DEF UpdateBegin, UpdateCheck, UpdateEnd, history, Updating
<1>1. /\ Held' = Held /\ ActiveJobs' = ActiveJobs /\ Encoding' = Encoding
  BY <1>0 DEF Held, Busy, ActiveJobs, Encoding
<1>2. Knowledge'
  BY <1>0, <1>1 DEF CycleInv, Knowledge
<1>3. syncing' => Updating' # {}
  <2>1. CASE syncing' = FALSE
    BY <2>1
  <2>2. ASSUME NEW stage \in {"flagged", "swapping"},
               update' = [update EXCEPT ![u].stage = stage]
        PROVE  Updating' # {}
    <3>1. update'[u].stage = stage  BY <2>2 DEF CycleInv, TypeOK, Update
    <3> QED  BY <3>1 DEF Updating
  <2> QED  BY <2>1, <2>2 DEF UpdateBegin, UpdateCheck, UpdateEnd
<1>4. SyncKnown'
  BY <1>0, <1>3 DEF CycleInv, SyncKnown
<1>5. Swapping' # {} => Swapping # {} \/ Registry = {}
  BY DEF CycleInv, TypeOK, UpdateBegin, UpdateCheck, UpdateEnd, Swapping, Update,
     NoUpdate
<1>6. Registry = {} => Encoding = {}  BY DEF Registry, Encoding
<1>7. NoJobMidSwap'
  BY <1>0, <1>1, <1>5, <1>6 DEF CycleInv, NoJobMidSwap
<1> QED  BY <1>2, <1>4, <1>7

(* After a power cycle there is nothing to know. *)
LEMMA AgentKnowledge ==
  ASSUME CycleInv, AgentStep
  PROVE  Knowledge' /\ SyncKnown' /\ NoJobMidSwap'
<1>1. CASE PowerCycle
  <2>1. /\ SameRequest /\ syncing' = FALSE /\ UNCHANGED <<job, disowned>>
        /\ \A j \in Jobs : work'[j] = "none"
        /\ \A u \in Updaters : update'[u] = NoUpdate
    BY <1>1 DEF PowerCycle, CycleInv, TypeOK, Request, SameRequest
  <2>2. /\ Held' = {} /\ Encoding' = {} /\ Updating' = {} /\ ActiveJobs' = ActiveJobs
    BY <2>1 DEF Held, Busy, Encoding, Updating, NoUpdate, ActiveJobs
  <2> QED
    BY <2>1, <2>2 DEF CycleInv, Knowledge, SyncKnown, NoJobMidSwap, SameRequest
<1>2. CASE ~PowerCycle
  BY <1>2, WorkKnowledge, UpdateKnowledge DEF AgentStep
<1> QED  BY <1>1, <1>2

(* A job that is cancelled is no longer held; a new one is nowhere yet. *)
LEMMA WorldKnowledge ==
  ASSUME CycleInv, WorldStep
  PROVE  Knowledge' /\ SyncKnown' /\ NoJobMidSwap'
<1>1. ASSUME NEW j \in Jobs, NewJob(j) \/ Cancel(j)
      PROVE  Knowledge' /\ SyncKnown' /\ NoJobMidSwap'
  <2>0. /\ SameRequest /\ UNCHANGED <<work, update, syncing, landed>>
        /\ \A i \in Jobs \ {j} : job'[i] = job[i]
    BY <1>1 DEF NewJob, Cancel, agentVars, updateVars, SameRequest, CycleInv, TypeOK
  <2>1. SyncKnown' /\ Swapping' = Swapping
    BY <2>0, SameUpdates
  <2>2. Encoding' = Encoding /\ Busy' = Busy
    BY <2>0 DEF Encoding, Busy
  <2>3. /\ Held' \subseteq Held
        /\ hb.jobs \ disowned' \subseteq hb.jobs \ disowned
    <3>1. CASE NewJob(j)
      BY <2>2, <3>1 DEF NewJob, Held, Busy
    <3>2. CASE Cancel(j)
      BY <2>2, <3>2 DEF Cancel, Held
    <3> QED  BY <1>1, <3>1, <3>2
  <2>4. /\ j \notin Held'
        /\ hb.pc = "reply" /\ hb.answer = "jobs" => j \notin hb.jobs \ disowned'
    <3>1. CASE job[j] = "assigned"
      BY <1>1, <3>1 DEF NewJob, Cancel, Held
    <3>2. CASE job[j] # "assigned"
      <4>1. job[j] \notin Active  BY <1>1, <3>2 DEF NewJob, Cancel, Active
      <4>2. j \notin Held  BY <4>1 DEF CycleInv, Knowledge, ActiveJobs
      <4>3. hb.pc = "reply" /\ hb.answer = "jobs" => j \notin hb.jobs \ disowned
        BY <4>1 DEF CycleInv, Knowledge
      <4> QED  BY <2>3, <4>2, <4>3
    <3> QED  BY <3>1, <3>2
  <2>5. Held' \subseteq ActiveJobs'
    BY <2>0, <2>3, <2>4 DEF CycleInv, Knowledge, ActiveJobs, Held, Busy
  <2>6. hb'.pc = "reply" /\ hb'.answer = "jobs" =>
          \A i \in hb'.jobs \ disowned' : job'[i] \in Active /\ i \notin Held'
    <3>1. hb.jobs \subseteq Jobs  BY DEF CycleInv, TypeOK, Request
    <3> QED  BY <2>0, <2>3, <2>4, <3>1 DEF CycleInv, Knowledge, SameRequest
  <2>7. Knowledge'
    BY <2>0, <2>3, <2>5, <2>6 DEF CycleInv, Knowledge, SameRequest
  <2> QED  BY <2>0, <2>1, <2>2, <2>7 DEF CycleInv, NoJobMidSwap
<1>2. CASE Publish \/ RebootRequestRead \/ RebootRequestWrite
  BY <1>2, NothingKnown
  DEF Publish, RebootRequestRead, RebootRequestWrite, agentVars, updateVars, history,
      SameRequest
<1>3. CASE GraceExpires
  BY <1>3, NothingKnown
  DEF GraceExpires, agentVars, updateVars, history, SameRequest, CycleInv, TypeOK,
      Request
<1> QED  BY <1>1, <1>2, <1>3 DEF WorldStep

(* The invariant holds at the start and every step keeps it. *)
THEOREM CycleCorrect == Spec => []CycleInv
<1>1. Init => CycleInv  BY InitType, InitKnowledge DEF CycleInv
<1>2. CycleInv /\ [Next]_vars => CycleInv'
  <2> SUFFICES ASSUME CycleInv, [Next]_vars PROVE CycleInv'  OBVIOUS
  <2>1. CASE Next
    BY <2>1, StepOf, NextType, SendKnowledge, RecordKnowledge, AnswerKnowledge,
       ReplyKnowledge, AgentKnowledge, WorldKnowledge
    DEF CycleInv, Controller
  <2>2. CASE UNCHANGED vars
    BY <2>2, NextType, NothingKnown
    DEF CycleInv, vars, agentVars, updateVars, history, SameRequest
  <2> QED  BY <2>1, <2>2
<1> QED  BY <1>1, <1>2, PTL DEF Spec

-----------------------------------------------------------------------------
(* No encode runs while lib and tools are replaced under it, unless the    *)
(* heartbeat that brought it had left without the flag.                    *)
THEOREM NeverMidSwap == Spec => []NoJobMidSwap
<1>1. CycleInv => NoJobMidSwap  BY DEF CycleInv
<1> QED  BY <1>1, CycleCorrect, PTL

(* Only a reply makes the machine accept a shutdown. *)
LEMMA ClosedByReply ==
  ASSUME Next, machine = "up", machine' = "closing"
  PROVE  /\ HbReply /\ hb.pc = "reply" /\ hb.answer = "reboot"
         /\ crossed' = (crossed \/ Updating # {})
<1>1. HbReply
  BY DEF Next, SendHeartbeat, Controller, HbRecord, HbReboot, HbUpdate, HbNone,
     HbAssign, LoseReply, EndEncode, FailEarly, Complete, BumpCounter, NewJob, Cancel,
     UpdateBegin, UpdateCheck, UpdateEnd, PowerCycle, Publish, RebootRequestRead,
     RebootRequestWrite, GraceExpires, agentVars
<1>2. hb.pc = "reply" /\ hb.answer = "reboot" /\ AgentReboot
  BY <1>1 DEF HbReply, agentVars
<1> QED  BY <1>1, <1>2 DEF AgentReboot

(* The machine accepts a shutdown only while nothing is being encoded but  *)
(* what was cancelled after it had been handed out, however old the report *)
(* is by which the controller judged.                                      *)
THEOREM RebootsBeginIdle == Spec => RebootAcceptedIdle
<1>1. CycleInv /\ [Next]_vars =>
        [machine = "up" /\ machine' = "closing" => Encoding \subseteq disowned]_vars
  <2> SUFFICES ASSUME CycleInv, Next, machine = "up", machine' = "closing"
               PROVE  Encoding \subseteq disowned
    BY DEF vars, agentVars
  <2>1. Held = {}  BY ClosedByReply DEF CycleInv, Knowledge
  <2> QED  BY <2>1 DEF Held, Busy, Encoding
<1> QED  BY <1>1, CycleCorrect, PTL DEF Spec, RebootAcceptedIdle

-----------------------------------------------------------------------------
(* How far the counter gets.  A task is under way from the reply that      *)
(* brings it until it is counted; the agent takes no more than its own cap *)
(* at once, and while a request is being served nothing joins, so counter  *)
(* and tasks under way together are within what the request reported and   *)
(* that cap.                                                               *)

(* Tasks of this boot, those under way included. *)
Tasks == counter + Cardinality(Registry)

TasksKept ==
  /\ Cardinality(Registry) <= MaxLocalJobs
  /\ hb.pc \in {"record", "decide"} =>
       hb.tasks <= counter /\ Tasks <= hb.tasks + MaxLocalJobs
  /\ hb.pc = "reply" /\ hb.answer = "jobs" =>
       Tasks < CfgLimit + MaxLocalJobs /\ Cardinality(hb.jobs) <= Slots
  /\ Tasks < CfgLimit + MaxLocalJobs + Slots

(* Sets of jobs have sizes, which grow with them. *)
LEMMA JobSets ==
  ASSUME NEW S \in SUBSET Jobs, NEW T \in SUBSET Jobs
  PROVE  /\ Cardinality(S) \in Nat
         /\ S \subseteq T => Cardinality(S) <= Cardinality(T)
         /\ Cardinality(S \cup T) <= Cardinality(S) + Cardinality(T)
<1>1. IsFiniteSet(S) /\ IsFiniteSet(T)
  BY FS_Subset, JobsFinite
<1>2. Cardinality(S) \in Nat /\ Cardinality(T) \in Nat
  BY <1>1, FS_CardinalityType
<1>3. S \subseteq T => Cardinality(S) <= Cardinality(T)
  BY <1>1, FS_Subset
<1>4. Cardinality(S \cup T)
        = Cardinality(S) + Cardinality(T) - Cardinality(S \cap T)
  BY <1>1, FS_Union
<1>5. IsFiniteSet(S \cap T)
  BY <1>1, FS_Subset
<1>6. Cardinality(S \cap T) \in Nat
  BY <1>5, FS_CardinalityType
<1> QED  BY <1>2, <1>3, <1>4, <1>6

(* The counts of the invariant are numbers. *)
LEMMA CountsAreNat ==
  ASSUME TypeOK
  PROVE  /\ Cardinality(Registry) \in Nat /\ Cardinality(hb.jobs) \in Nat
         /\ counter \in Nat /\ hb.tasks \in Nat /\ hb.free \in 0..Slots
         /\ Slots \in Nat \ {0} /\ CfgLimit \in Nat \ {0}
         /\ MaxLocalJobs \in Nat \ {0}
<1>1. Registry \in SUBSET Jobs /\ hb.jobs \in SUBSET Jobs
  BY DEF TypeOK, Request, Registry
<1> QED  BY <1>1, JobSets, CycleAssumption DEF TypeOK, Request

(* There is nothing to count at the start. *)
LEMMA InitBound == Init => TasksKept
<1> SUFFICES ASSUME Init PROVE TasksKept  OBVIOUS
<1>1. Registry = {} /\ hb.pc = "idle" /\ counter = 0
  BY DEF Init, Registry, NoRequest
<1>2. Cardinality({}) = 0  BY FS_EmptySet
<1> QED
  BY <1>1, <1>2, CycleAssumption DEF TasksKept, Tasks

(* Where the agent loses tasks or counts those it had, and the request is   *)
(* the same or done with, the bounds stay.                                  *)
LEMMA FewerTasks ==
  ASSUME TypeOK, TypeOK', TasksKept,
         Registry' \subseteq Registry, Tasks' <= Tasks,
         \/ hb'.pc = "idle"
         \/ /\ counter <= counter'
            /\ hb'.pc = hb.pc /\ hb'.tasks = hb.tasks
            /\ hb'.answer = hb.answer /\ hb'.jobs = hb.jobs
  PROVE  TasksKept'
<1>1. Cardinality(Registry') <= Cardinality(Registry)
  BY JobSets DEF Registry
<1>2. /\ Cardinality(Registry) \in Nat /\ Cardinality(Registry') \in Nat
      /\ counter \in Nat /\ counter' \in Nat /\ hb.tasks \in Nat
      /\ Tasks \in Nat /\ Tasks' \in Nat
      /\ Slots \in Nat /\ CfgLimit \in Nat /\ MaxLocalJobs \in Nat
  <2>1. Registry' \in SUBSET Jobs  BY DEF Registry
  <2>2. Cardinality(Registry') \in Nat  BY <2>1, JobSets
  <2> QED  BY <2>2, CountsAreNat DEF TypeOK, Tasks
<1>3. Cardinality(Registry') <= MaxLocalJobs
  BY <1>1, <1>2 DEF TasksKept
<1>4. Tasks' < CfgLimit + MaxLocalJobs + Slots
  BY <1>2 DEF TasksKept
<1>5. CASE hb'.pc = "idle"
  BY <1>3, <1>4, <1>5 DEF TasksKept
<1>6. CASE /\ counter <= counter'
           /\ hb'.pc = hb.pc /\ hb'.tasks = hb.tasks
           /\ hb'.answer = hb.answer /\ hb'.jobs = hb.jobs
  <2>1. hb'.pc \in {"record", "decide"} =>
          hb'.tasks <= counter' /\ Tasks' <= hb'.tasks + MaxLocalJobs
    BY <1>2, <1>6 DEF TasksKept
  <2>2. hb'.pc = "reply" /\ hb'.answer = "jobs" =>
          Tasks' < CfgLimit + MaxLocalJobs /\ Cardinality(hb'.jobs) <= Slots
    BY <1>2, <1>6 DEF TasksKept
  <2> QED  BY <1>3, <1>4, <2>1, <2>2 DEF TasksKept
<1> QED  BY <1>5, <1>6

(* A request reports the counter, and what is under way is within the cap. *)
LEMMA SendBound ==
  ASSUME TypeOK, TasksKept, SendHeartbeat
  PROVE  TasksKept'
<1>1. /\ hb'.pc = "record" /\ hb'.tasks = counter /\ UNCHANGED <<work, counter>>
  BY DEF SendHeartbeat, NoRequest, agentVars
<1>2. Registry' = Registry  BY <1>1 DEF Registry
<1>3. Tasks <= counter + MaxLocalJobs /\ counter <= counter
  BY CountsAreNat DEF TasksKept, Tasks
<1> QED  BY <1>1, <1>2, <1>3 DEF TasksKept, Tasks

(* Recording changes nothing of the agent's. *)
LEMMA RecordBound ==
  ASSUME TypeOK, TasksKept, HbRecord
  PROVE  TasksKept'
<1>1. /\ hb.pc = "record" /\ hb'.pc = "decide" /\ hb'.tasks = hb.tasks
      /\ UNCHANGED <<work, counter>>
  BY DEF HbRecord, TypeOK, Request, agentVars
<1>2. Registry' = Registry  BY <1>1 DEF Registry
<1> QED  BY <1>1, <1>2 DEF TasksKept, Tasks

(* Jobs are given within the free slots, and below the limit only.         *)
LEMMA AnswerBound ==
  ASSUME TypeOK, TasksKept, HbReboot \/ HbUpdate \/ HbNone \/ HbAssign
  PROVE  TasksKept'
<1>0. hb.pc = "decide" /\ hb'.pc = "reply" /\ UNCHANGED <<work, counter>>
  BY DEF HbReboot, HbUpdate, HbNone, HbAssign, Answer, NoRequest, agentVars
<1>1. Registry' = Registry  BY <1>0 DEF Registry
<1>2. CASE HbReboot \/ HbUpdate \/ HbNone
  <2>1. hb'.answer # "jobs"
    BY <1>2 DEF HbReboot, HbUpdate, HbNone, Answer, NoRequest
  <2> QED  BY <1>0, <1>1, <2>1 DEF TasksKept, Tasks
<1>3. CASE HbAssign
  <2>1. PICK given \in SUBSET Queue :
          /\ Cardinality(given) = IF Cardinality(Queue) < hb.free
                                    THEN Cardinality(Queue) ELSE hb.free
          /\ hb' = [NoRequest EXCEPT !.pc = "reply", !.live = hb.live,
                                     !.answer = "jobs", !.jobs = given,
                                     !.early = hb.early]
    BY <1>3 DEF HbAssign
  <2>2. hb'.jobs = given  BY <2>1 DEF NoRequest
  <2>3. Cardinality(Queue) \in Nat
    <3>1. Queue \in SUBSET Jobs  BY DEF Queue
    <3> QED  BY <3>1, JobSets
  <2>4. Cardinality(given) <= Slots
    BY <2>1, <2>3, CountsAreNat
  <2>5. hb.tasks < CfgLimit  BY <1>3 DEF HbAssign, MayAssign
  <2>6. Tasks < CfgLimit + MaxLocalJobs
    BY <1>0, <2>5, CountsAreNat DEF TasksKept, Tasks
  <2> QED  BY <1>0, <1>1, <2>2, <2>4, <2>6 DEF TasksKept, Tasks
<1> QED  BY <1>2, <1>3

(* Only a reply with jobs makes more tasks, and those were counted in.     *)
LEMMA ReplyBound ==
  ASSUME TypeOK, TypeOK', TasksKept, HbReply \/ LoseReply
  PROVE  TasksKept'
<1>1. CASE LoseReply
  <2>1. UNCHANGED <<work, counter>>  BY <1>1 DEF LoseReply, agentVars
  <2>2. Registry' = Registry  BY <2>1 DEF Registry
  <2>3. Tasks' <= Tasks /\ counter <= counter'
    BY <2>1, <2>2, CountsAreNat DEF Tasks
  <2> QED
    BY <1>1, <2>2, <2>3, FewerTasks DEF LoseReply, TypeOK, Request
<1>2. CASE HbReply
  <2> DEFINE answer == IF hb.live THEN hb.answer ELSE "none"
  <2>1. hb.pc = "reply" /\ hb'.pc = "idle"
    BY <1>2 DEF HbReply, NoRequest
  <2>2. CASE answer = "jobs"
    <3>1. PICK taken \in Accepts(hb.jobs) :
            work' = [j \in Jobs |-> IF j \in taken THEN "encoding" ELSE work[j]]
      BY <1>2, <2>2 DEF HbReply, AgentJobs
    <3>2. UNCHANGED counter  BY <1>2, <2>2 DEF HbReply
    <3>3. /\ taken \in SUBSET (hb.jobs \ Registry)
          /\ hb.jobs \in SUBSET Jobs /\ Registry \in SUBSET Jobs
      BY DEF Accepts, TypeOK, Request, Registry
    <3>4. Registry' = Registry \cup taken
      BY <3>1, <3>3 DEF Registry
    <3>5. /\ taken \in SUBSET Jobs /\ Registry' \in SUBSET Jobs
          /\ hb.jobs \ Registry \in SUBSET Jobs
      BY <3>3, <3>4
    <3>6. /\ Cardinality(Registry') <= Cardinality(Registry) + Cardinality(taken)
          /\ Cardinality(Registry') \in Nat /\ Cardinality(taken) \in Nat
          /\ Cardinality(hb.jobs \ Registry) \in Nat
          /\ Cardinality(taken) <= Cardinality(hb.jobs \ Registry)
          /\ Cardinality(hb.jobs \ Registry) <= Cardinality(hb.jobs)
      BY <3>3, <3>4, <3>5, JobSets
    <3>7. Cardinality(taken) <= Slots
      BY <2>1, <2>2, <3>6, CountsAreNat DEF TasksKept
    <3>8. Cardinality(Registry') <= MaxLocalJobs
      <4>1. LET room == MaxLocalJobs - Cardinality(Registry)
            IN \/ Cardinality(taken) <= room
               \/ Cardinality(taken) = IF room > 0 THEN room ELSE 0
        BY DEF Accepts
      <4> QED  BY <3>6, <4>1, CountsAreNat DEF TasksKept
    <3>9. Tasks' < CfgLimit + MaxLocalJobs + Slots
      BY <2>1, <2>2, <3>2, <3>6, <3>7, CountsAreNat DEF TasksKept, Tasks
    <3> QED  BY <2>1, <3>8, <3>9 DEF TasksKept
  <2>3. CASE answer # "jobs"
    <3>1. UNCHANGED work /\ (counter' = counter \/ counter' = 0)
      BY <1>2, <2>3 DEF HbReply, AgentReboot, agentVars
    <3>2. Registry' = Registry  BY <3>1 DEF Registry
    <3>3. Tasks' <= Tasks  BY <3>1, <3>2, CountsAreNat DEF Tasks
    <3> QED  BY <2>1, <3>2, <3>3, FewerTasks
  <2> QED  BY <2>2, <2>3
<1> QED  BY <1>1, <1>2

(* What ends is counted when it leaves the registry, or not at all. *)
LEMMA AgentBound ==
  ASSUME TypeOK, TypeOK', TasksKept, AgentStep
  PROVE  TasksKept'
<1>1. ASSUME NEW j \in Jobs, EndEncode(j) \/ FailEarly(j)
      PROVE  TasksKept'
  <2>1. /\ work[j] = "encoding" /\ UNCHANGED <<counter, hb>>
        /\ work' \in {[work EXCEPT ![j] = "reporting"], [work EXCEPT ![j] = "failing"]}
    BY <1>1 DEF EndEncode, FailEarly
  <2>2. Registry' = Registry  BY <2>1 DEF TypeOK, Registry
  <2> QED  BY <2>1, <2>2 DEF TasksKept, Tasks
<1>2. ASSUME NEW j \in Jobs, Complete(j)
      PROVE  TasksKept'
  <2>1. /\ work[j] \in {"reporting", "failing"} /\ UNCHANGED <<counter, hb>>
        /\ work' \in {[work EXCEPT ![j] = "counting"], [work EXCEPT ![j] = "none"]}
    BY <1>2 DEF Complete
  <2>2. Registry' \subseteq Registry  BY <2>1 DEF TypeOK, Registry
  <2>3. Registry \in SUBSET Jobs /\ Registry' \in SUBSET Jobs
    BY DEF Registry
  <2>4. /\ Cardinality(Registry') <= Cardinality(Registry)
        /\ Cardinality(Registry') \in Nat
    BY <2>2, <2>3, JobSets
  <2>5. Tasks' <= Tasks /\ counter <= counter'
    BY <2>1, <2>4, CountsAreNat DEF Tasks
  <2> QED  BY <2>1, <2>2, <2>5, FewerTasks
<1>3. ASSUME NEW j \in Jobs, BumpCounter(j)
      PROVE  TasksKept'
  <2>1. /\ work[j] = "counting" /\ work' = [work EXCEPT ![j] = "none"]
        /\ counter' = counter + 1 /\ UNCHANGED hb
    BY <1>3 DEF BumpCounter
  <2>2. Registry' = Registry \ {j} /\ j \in Registry
    BY <2>1 DEF TypeOK, Registry
  <2>3. Cardinality(Registry') = Cardinality(Registry) - 1
    <3>1. IsFiniteSet(Registry)
      BY FS_Subset, JobsFinite DEF Registry
    <3> QED  BY <2>2, <3>1, FS_RemoveElement
  <2>4. Tasks' <= Tasks /\ counter <= counter'
    BY <2>1, <2>3, CountsAreNat DEF Tasks
  <2> QED  BY <2>1, <2>2, <2>4, FewerTasks
<1>4. ASSUME NEW u \in Updaters,
             \/ UpdateBegin(u) \/ UpdateCheck(u)
             \/ \E ok \in BOOLEAN : UpdateEnd(u, ok)
      PROVE  TasksKept'
  <2>1. UNCHANGED <<work, counter, hb>>
    BY <1>4 DEF UpdateBegin, UpdateCheck, UpdateEnd
  <2> QED  BY <2>1 DEF TasksKept, Tasks, Registry
<1>5. CASE PowerCycle
  <2>1. /\ hb'.pc = hb.pc /\ hb'.tasks = hb.tasks
        /\ hb'.answer = hb.answer /\ hb'.jobs = hb.jobs
        /\ work' = [j \in Jobs |-> "none"] /\ UNCHANGED counter
    BY <1>5 DEF PowerCycle, TypeOK, Request
  <2>2. Registry' = {}  BY <2>1 DEF Registry
  <2>3. Cardinality(Registry') = 0  BY <2>2, FS_EmptySet
  <2>4. Tasks' <= Tasks /\ counter <= counter'
    BY <2>1, <2>3, CountsAreNat DEF Tasks
  <2> QED  BY <2>1, <2>2, <2>4, FewerTasks
<1> QED  BY <1>1, <1>2, <1>3, <1>4, <1>5 DEF AgentStep

(* Nobody else starts or ends a task. *)
LEMMA WorldBound ==
  ASSUME TypeOK, TasksKept, WorldStep
  PROVE  TasksKept'
<1>1. UNCHANGED <<work, counter>>
  BY DEF WorldStep, NewJob, Cancel, Publish, RebootRequestRead, RebootRequestWrite,
     GraceExpires, agentVars
<1>2. /\ hb'.pc = hb.pc /\ hb'.tasks = hb.tasks
      /\ hb'.answer = hb.answer /\ hb'.jobs = hb.jobs
  BY DEF WorldStep, NewJob, Cancel, Publish, RebootRequestRead, RebootRequestWrite,
     GraceExpires, agentVars, TypeOK, Request
<1>3. Registry' = Registry  BY <1>1 DEF Registry
<1> QED  BY <1>1, <1>2, <1>3 DEF TasksKept, Tasks

(* The bounds hold at the start and every step keeps them. *)
THEOREM BoundsHold == Spec => []TasksKept
<1>1. TypeOK /\ TasksKept /\ [Next]_vars => TasksKept'
  <2> SUFFICES ASSUME TypeOK, TasksKept, [Next]_vars PROVE TasksKept'  OBVIOUS
  <2>0. TypeOK'  BY NextType
  <2>1. CASE Next
    BY <2>0, <2>1, StepOf, SendBound, RecordBound, AnswerBound, ReplyBound, AgentBound,
       WorldBound
    DEF Controller
  <2>2. CASE UNCHANGED vars
    BY <2>2 DEF vars, agentVars, TasksKept, Tasks, Registry
  <2> QED  BY <2>1, <2>2
<1> QED  BY <1>1, InitBound, CycleTypes, PTL DEF Spec

-----------------------------------------------------------------------------
(* However heartbeats, slow completions, replies and cancellations         *)
(* interleave, the tasks of one boot go past the limit by no more than     *)
(* what the agent holds at once and what one reply brings.                 *)
THEOREM TasksAlwaysBounded == Spec => []TasksBounded
<1>1. TypeOK /\ TasksKept => TasksBounded
  <2> SUFFICES ASSUME TypeOK, TasksKept PROVE TasksBounded  OBVIOUS
  <2> QED  BY CountsAreNat DEF TasksKept, TasksBounded, Tasks
<1> QED  BY <1>1, BoundsHold, CycleTypes, PTL

-----------------------------------------------------------------------------
(* Until an operator asks, or a shutdown crosses an update, a pending       *)
(* reboot is due to the limit and nothing active is under way; the request  *)
(* in flight knows the row as it is; and it says "reboot" to an agent that  *)
(* is at the limit.                                                         *)
RegistryKnown ==
  /\ hb.pc = "record" => Registry \subseteq hb.reported
  /\ hb.pc = "decide" => hb.active \/ Registry \cap ActiveJobs = {}

RowIsKnown ==
  hb.pc \in {"record", "decide"} =>
    hb.copy.pending = row.pending /\ hb.copy.tasks = row.tasks

PendingIsDue ==
  row.pending =>
    /\ row.tasks >= SettingsLimit
    /\ Registry \cap ActiveJobs = {}
    /\ Updating # {} => counter >= row.tasks

PendingIsSeen ==
  /\ hb.pc = "record" /\ row.pending =>
       /\ hb.reported \cap ActiveJobs = {}
       /\ hb.syncing => hb.tasks >= row.tasks
  /\ hb.pc = "decide" => hb.tasks = row.tasks
  /\ hb.pc = "reply" /\ row.pending => hb.answer \notin {"jobs", "update"}

RebootIsDue == hb.pc = "reply" /\ hb.answer = "reboot" => counter >= SettingsLimit

Caused == ~admin.reading /\ RowIsKnown /\ PendingIsDue /\ PendingIsSeen /\ RebootIsDue
CauseInv == ~ordered /\ ~crossed => Caused

(* What the argument takes from the invariants above. *)
CauseBase == CycleInv /\ TasksKept /\ RegistryKnown

(* The numbers the argument compares. *)
LEMMA CauseNumbers ==
  ASSUME TypeOK
  PROVE  /\ counter \in Nat /\ row.tasks \in Nat /\ hb.tasks \in Nat
         /\ SettingsLimit \in Nat
BY CycleAssumption DEF TypeOK, Row, Request

(* No reboot is pending at the start. *)
LEMMA InitCause == Init => CauseInv /\ RegistryKnown
BY DEF Init, CauseInv, Caused, RegistryKnown, RowIsKnown, PendingIsDue, PendingIsSeen,
   RebootIsDue, NobodyAsks, NoRow, NoRequest

(* The registry grows by a reply only, the active jobs by an answer only. *)
LEMMA NextRegistryKnown ==
  ASSUME TypeOK, RegistryKnown, [Next]_vars
  PROVE  RegistryKnown'
<1>1. CASE SendHeartbeat
  BY <1>1 DEF SendHeartbeat, NoRequest, RegistryKnown, Registry, agentVars
<1>2. CASE HbRecord
  <2> DEFINE mine == hb.reported \cap ActiveJobs
  <2>1. /\ hb.pc = "record" /\ hb'.pc = "decide" /\ UNCHANGED work
        /\ hb'.active = (hb.syncing \/ mine # {})
    BY <1>2 DEF HbRecord, TypeOK, Request, agentVars
  <2>2. ActiveJobs' \subseteq ActiveJobs
    BY <1>2 DEF HbRecord, ActiveJobs, Active
  <2>3. Registry' = Registry  BY <2>1 DEF Registry
  <2> QED  BY <2>1, <2>2, <2>3 DEF RegistryKnown
<1>3. CASE HbReboot \/ HbUpdate \/ HbNone \/ HbAssign \/ HbReply
  <2>1. hb'.pc \in {"reply", "idle"}
    <3>1. CASE HbReboot \/ HbNone
      BY <3>1 DEF HbReboot, HbNone, Answer, NoRequest
    <3>2. CASE HbUpdate
      BY <3>2 DEF HbUpdate, NoRequest
    <3>3. CASE HbAssign
      BY <3>3 DEF HbAssign, NoRequest
    <3>4. CASE HbReply
      BY <3>4 DEF HbReply, NoRequest
    <3> QED  BY <1>3, <3>1, <3>2, <3>3, <3>4
  <2> QED  BY <2>1 DEF RegistryKnown
<1>4. CASE LoseReply
  BY <1>4 DEF LoseReply, RegistryKnown, TypeOK, Request
<1>5. ASSUME hb'.pc = hb.pc, hb'.reported = hb.reported, hb'.active = hb.active,
             Registry' \subseteq Registry, ActiveJobs' \subseteq ActiveJobs
      PROVE  RegistryKnown'
  BY <1>5 DEF RegistryKnown
<1>6. CASE AgentStep
  <2>1. hb'.pc = hb.pc /\ hb'.reported = hb.reported /\ hb'.active = hb.active
    BY <1>6 DEF AgentStep, EndEncode, FailEarly, Complete, BumpCounter, UpdateBegin,
       UpdateCheck, UpdateEnd, PowerCycle, TypeOK, Request
  <2>2. Registry' \subseteq Registry /\ ActiveJobs' \subseteq ActiveJobs
    BY <1>6 DEF AgentStep, EndEncode, FailEarly, Complete, BumpCounter, UpdateBegin,
       UpdateCheck, UpdateEnd, PowerCycle, TypeOK, Registry, ActiveJobs, Active
  <2> QED  BY <1>5, <2>1, <2>2
<1>7. CASE WorldStep
  <2>1. hb'.pc = hb.pc /\ hb'.reported = hb.reported /\ hb'.active = hb.active
    BY <1>7 DEF WorldStep, NewJob, Cancel, Publish, RebootRequestRead,
       RebootRequestWrite, GraceExpires, agentVars, TypeOK, Request
  <2>2. Registry' \subseteq Registry /\ ActiveJobs' \subseteq ActiveJobs
    BY <1>7 DEF WorldStep, NewJob, Cancel, Publish, RebootRequestRead,
       RebootRequestWrite, GraceExpires, agentVars, TypeOK, Registry, ActiveJobs, Active
  <2> QED  BY <1>5, <2>1, <2>2
<1>8. CASE UNCHANGED vars
  BY <1>8 DEF vars, agentVars, RegistryKnown, Registry, ActiveJobs
<1> QED  BY <1>1, <1>2, <1>3, <1>4, <1>6, <1>7, <1>8, StepOf DEF Controller

(* A request is sent with the row as it is. *)
LEMMA SendCause ==
  ASSUME CauseBase, Caused, SendHeartbeat
  PROVE  Caused'
<1>1. /\ hb'.pc = "record" /\ hb'.reported = Registry /\ hb'.copy = row
      /\ hb'.syncing = syncing /\ hb'.tasks = counter
      /\ UNCHANGED <<row, job, work, update, counter, admin>>
  BY DEF SendHeartbeat, NoRequest, agentVars, updateVars
<1>2. Registry' = Registry /\ ActiveJobs' = ActiveJobs /\ Updating' = Updating
  BY <1>1 DEF Registry, ActiveJobs, Updating
<1>3. syncing => Updating # {}  BY DEF CauseBase, CycleInv, SyncKnown
<1> QED
  BY <1>1, <1>2, <1>3
  DEF Caused, RowIsKnown, PendingIsDue, PendingIsSeen, RebootIsDue

(* A reboot that stays pending is still due: the counter did not drop, or  *)
(* an update is under way and it cannot have.                              *)
LEMMA RecordCause ==
  ASSUME CauseBase, Caused, HbRecord
  PROVE  Caused'
<1> DEFINE active == hb.syncing \/ hb.reported \cap ActiveJobs # {}
           over == \/ Returned(hb.copy, hb.tasks, active)
                   \/ Expired(hb.copy, active)
<1>1. /\ hb.pc = "record" /\ hb'.pc = "decide" /\ hb'.copy = row'
      /\ hb'.tasks = hb.tasks /\ row'.tasks = hb.tasks
      /\ row'.pending = (hb.copy.pending /\ ~over)
      /\ UNCHANGED <<work, update, counter, admin>>
  BY DEF HbRecord, CauseBase, CycleInv, TypeOK, Request, Row, agentVars, updateVars
<1>2. ActiveJobs' \subseteq ActiveJobs /\ Registry' = Registry /\ Updating' = Updating
  BY <1>1 DEF HbRecord, ActiveJobs, Active, Registry, Updating
<1>3. ASSUME row'.pending
      PROVE  /\ row'.tasks >= SettingsLimit /\ Registry \cap ActiveJobs = {}
             /\ counter >= row'.tasks
  <2>1. row.pending /\ hb.copy.tasks = row.tasks /\ hb.copy.pending /\ ~over
    BY <1>1, <1>3 DEF Caused, RowIsKnown
  <2>2. /\ row.tasks >= SettingsLimit /\ Registry \cap ActiveJobs = {}
        /\ active => hb.syncing
        /\ hb.syncing => hb.tasks >= row.tasks
    BY <1>1, <2>1 DEF Caused, PendingIsDue, PendingIsSeen
  <2>3. ~hb.syncing => ~(hb.tasks < row.tasks)
    BY <2>1, <2>2 DEF Returned
  <2>4. hb.tasks >= row.tasks  BY <2>2, <2>3, CauseNumbers DEF CauseBase, CycleInv
  <2>5. hb.tasks <= counter  BY <1>1 DEF CauseBase, TasksKept
  <2> QED  BY <1>1, <2>2, <2>4, <2>5, CauseNumbers DEF CauseBase, CycleInv
<1> QED
  BY <1>1, <1>2, <1>3
  DEF Caused, RowIsKnown, PendingIsDue, PendingIsSeen, RebootIsDue

(* A reboot is decided on at the limit, and with it pending nothing else.  *)
LEMMA AnswerCause ==
  ASSUME CauseBase, Caused, HbReboot \/ HbUpdate \/ HbNone \/ HbAssign
  PROVE  Caused'
<1>0. /\ hb.pc = "decide" /\ hb'.pc = "reply"
      /\ UNCHANGED <<work, update, counter, admin>>
  BY DEF HbReboot, HbUpdate, HbNone, HbAssign, Answer, NoRequest, agentVars, updateVars
<1>1. Registry' = Registry /\ Updating' = Updating
  BY <1>0 DEF Registry, Updating
<1>2. /\ hb.copy.pending = row.pending /\ hb.copy.tasks = row.tasks
      /\ hb.tasks = row.tasks /\ ~admin.reading /\ PendingIsDue
      /\ hb.tasks <= counter
      /\ hb.active \/ Registry \cap ActiveJobs = {}
  BY <1>0 DEF Caused, RowIsKnown, PendingIsSeen, CauseBase, TasksKept, RegistryKnown
<1>3. CASE HbReboot
  <2>1. /\ ~hb.active /\ (Due \/ row.pending) /\ hb'.answer = "reboot"
        /\ UNCHANGED job
    BY <1>2, <1>3 DEF HbReboot, RebootNow, Answer, NoRequest
  <2>2. row'.tasks = row.tasks
    BY <1>2, <1>3 DEF HbReboot, CauseBase, CycleInv, TypeOK, Request, Row
  <2>3. row.tasks >= SettingsLimit
    BY <1>2, <2>1 DEF Due, PendingIsDue
  <2>4. counter >= SettingsLimit /\ counter >= row.tasks
    BY <1>2, <2>3, CauseNumbers DEF CauseBase, CycleInv
  <2>5. ActiveJobs' = ActiveJobs  BY <2>1 DEF ActiveJobs
  <2> QED
    BY <1>0, <1>1, <1>2, <2>1, <2>2, <2>3, <2>4, <2>5
    DEF Caused, RowIsKnown, PendingIsDue, PendingIsSeen, RebootIsDue
<1>4. CASE HbUpdate \/ HbNone
  <2>1. UNCHANGED <<row, job>> /\ hb'.answer \notin {"reboot", "jobs"}
    BY <1>4 DEF HbUpdate, HbNone, Answer, NoRequest
  <2>2. hb'.answer = "update" => ~row.pending
    <3>1. CASE HbUpdate
      BY <1>2, <3>1 DEF HbUpdate, UpdateNow, RebootNow
    <3>2. CASE HbNone
      BY <3>2 DEF HbNone, Answer, NoRequest
    <3> QED  BY <1>4, <3>1, <3>2
  <2>3. ActiveJobs' = ActiveJobs  BY <2>1 DEF ActiveJobs
  <2> QED
    BY <1>0, <1>1, <1>2, <2>1, <2>2, <2>3
    DEF Caused, RowIsKnown, PendingIsDue, PendingIsSeen, RebootIsDue
<1>5. CASE HbAssign
  <2>1. UNCHANGED row /\ hb'.answer = "jobs" /\ ~row.pending
    BY <1>2, <1>5 DEF HbAssign, MayAssign, NoRequest
  <2> QED
    BY <1>0, <1>2, <2>1
    DEF Caused, RowIsKnown, PendingIsDue, PendingIsSeen, RebootIsDue
<1> QED  BY <1>3, <1>4, <1>5

(* With a reboot pending, no reply brings work or an update; and the       *)
(* counter falls only where no update is under way.                        *)
LEMMA ReplyCause ==
  ASSUME CauseBase, Caused, HbReply \/ LoseReply, ~crossed'
  PROVE  Caused'
<1>1. CASE LoseReply
  <2>1. /\ hb'.pc = hb.pc /\ hb'.answer = hb.answer /\ hb.pc = "reply"
        /\ UNCHANGED <<row, job, work, update, counter, admin>>
    BY <1>1 DEF LoseReply, agentVars, updateVars, CauseBase, CycleInv, TypeOK, Request
  <2>2. Registry' = Registry /\ ActiveJobs' = ActiveJobs /\ Updating' = Updating
    BY <2>1 DEF Registry, ActiveJobs, Updating
  <2> QED
    BY <2>1, <2>2
    DEF Caused, RowIsKnown, PendingIsDue, PendingIsSeen, RebootIsDue
<1>2. CASE HbReply
  <2>1. /\ hb.pc = "reply" /\ hb'.pc = "idle"
        /\ UNCHANGED <<row, job, admin>>
    BY <1>2 DEF HbReply, NoRequest
  <2>2. ASSUME row.pending
        PROVE  UNCHANGED <<work, update>> /\ (counter' = counter \/ Updating = {})
    BY <1>2, <2>1, <2>2
    DEF HbReply, AgentReboot, agentVars, updateVars, Caused, PendingIsSeen
  <2>3. row.pending =>
          /\ Registry' = Registry /\ ActiveJobs' = ActiveJobs /\ Updating' = Updating
    BY <2>1, <2>2 DEF Registry, ActiveJobs, Updating
  <2> QED
    BY <2>1, <2>2, <2>3
    DEF Caused, RowIsKnown, PendingIsDue, PendingIsSeen, RebootIsDue
<1> QED  BY <1>1, <1>2

(* Where row and request stay, work and updates do not grow, and the       *)
(* counter does not fall, a cause stays one.                               *)
LEMMA CauseStays ==
  ASSUME CauseBase, TypeOK', Caused,
         row'.pending = row.pending, row'.tasks = row.tasks,
         admin'.reading = admin.reading,
         hb'.copy.pending = hb.copy.pending, hb'.copy.tasks = hb.copy.tasks,
         hb'.pc = hb.pc, hb'.reported = hb.reported, hb'.syncing = hb.syncing,
         hb'.tasks = hb.tasks, hb'.answer = hb.answer,
         Registry' \subseteq Registry, ActiveJobs' \subseteq ActiveJobs,
         Updating' \subseteq Updating,
         counter' \in {counter, counter + 1}
  PROVE  Caused'
<1>1. \A n \in Nat : counter >= n => counter' >= n
  BY CauseNumbers DEF CauseBase, CycleInv
<1>2. row.tasks \in Nat /\ SettingsLimit \in Nat
  BY CauseNumbers DEF CauseBase, CycleInv
<1>3. PendingIsDue'
  BY <1>1, <1>2 DEF Caused, PendingIsDue
<1>4. RebootIsDue'
  BY <1>1, <1>2 DEF Caused, RebootIsDue
<1>5. RowIsKnown' /\ PendingIsSeen'
  BY DEF Caused, RowIsKnown, PendingIsSeen
<1> QED  BY <1>3, <1>4, <1>5 DEF Caused

(* The agent by itself starts nothing, and counts only upwards.            *)
LEMMA AgentCause ==
  ASSUME CauseBase, TypeOK', Caused, AgentStep
  PROVE  Caused'
<1>1. /\ UNCHANGED <<row, admin>>
      /\ hb'.pc = hb.pc /\ hb'.copy = hb.copy /\ hb'.reported = hb.reported
      /\ hb'.syncing = hb.syncing /\ hb'.tasks = hb.tasks /\ hb'.answer = hb.answer
  BY DEF AgentStep, EndEncode, FailEarly, Complete, BumpCounter, UpdateBegin,
     UpdateCheck, UpdateEnd, PowerCycle, CauseBase, CycleInv, TypeOK, Request
<1>2. Registry' \subseteq Registry /\ ActiveJobs' \subseteq ActiveJobs
  BY DEF AgentStep, EndEncode, FailEarly, Complete, BumpCounter, UpdateBegin,
     UpdateCheck, UpdateEnd, PowerCycle, CauseBase, CycleInv, TypeOK, Registry,
     ActiveJobs, Active
<1>3. counter' \in {counter, counter + 1}
  BY DEF AgentStep, EndEncode, FailEarly, Complete, BumpCounter, UpdateBegin,
     UpdateCheck, UpdateEnd, PowerCycle
<1>4. Updating' \subseteq Updating
  <2>1. ASSUME NEW u \in Updaters,
               \/ UpdateBegin(u) \/ UpdateCheck(u)
               \/ \E ok \in BOOLEAN : UpdateEnd(u, ok)
        PROVE  Updating' \subseteq Updating
    <3>1. u \in Updating
      BY <2>1 DEF UpdateBegin, UpdateCheck, UpdateEnd, Updating
    <3>2. \A v \in Updaters \ {u} : update'[v] = update[v]
      BY <2>1 DEF UpdateBegin, UpdateCheck, UpdateEnd, CauseBase, CycleInv, TypeOK
    <3> QED  BY <3>1, <3>2 DEF Updating
  <2>2. CASE UNCHANGED update
    BY <2>2 DEF Updating
  <2>3. CASE PowerCycle
    BY <2>3 DEF PowerCycle, Updating, NoUpdate
  <2> QED
    BY <2>1, <2>2, <2>3
    DEF AgentStep, EndEncode, FailEarly, Complete, BumpCounter, updateVars
<1> QED  BY <1>1, <1>2, <1>3, <1>4, CauseStays

(* While no operator asks for a reboot, time, queue and cancellations do    *)
(* not touch what matters here.                                             *)
LEMMA WorldCause ==
  ASSUME CauseBase, TypeOK', Caused, WorldStep, ~ordered'
  PROVE  Caused'
<1>1. CASE RebootRequestRead
  BY <1>1 DEF RebootRequestRead
<1>2. CASE RebootRequestWrite
  BY <1>2 DEF RebootRequestWrite, Caused
<1>3. CASE Publish \/ \E j \in Jobs : NewJob(j) \/ Cancel(j)
  <2>1. UNCHANGED <<row, hb, work, update, counter, admin>>
    BY <1>3 DEF Publish, NewJob, Cancel, agentVars, updateVars
  <2>2. ActiveJobs' \subseteq ActiveJobs
    BY <1>3 DEF Publish, NewJob, Cancel, ActiveJobs, Active, CauseBase, CycleInv, TypeOK
  <2>3. Registry' = Registry /\ Updating' = Updating
    BY <2>1 DEF Registry, Updating
  <2> QED  BY <2>1, <2>2, <2>3, CauseStays
<1>4. CASE GraceExpires
  <2>1. /\ row'.pending = row.pending /\ row'.tasks = row.tasks
        /\ hb'.copy.pending = hb.copy.pending /\ hb'.copy.tasks = hb.copy.tasks
        /\ hb'.pc = hb.pc /\ hb'.reported = hb.reported
        /\ hb'.syncing = hb.syncing /\ hb'.tasks = hb.tasks
        /\ hb'.answer = hb.answer
        /\ UNCHANGED <<job, work, update, counter, admin>>
    BY <1>4 DEF GraceExpires, Aged, agentVars, updateVars, CauseBase, CycleInv, TypeOK,
       Request, Row
  <2>2. Registry' = Registry /\ ActiveJobs' = ActiveJobs /\ Updating' = Updating
    BY <2>1 DEF Registry, ActiveJobs, Updating
  <2> QED  BY <2>1, <2>2, CauseStays
<1> QED  BY <1>1, <1>2, <1>3, <1>4 DEF WorldStep

(* What has been ordered or has crossed stays so. *)
LEMMA HistoryStays ==
  ASSUME TypeOK, [Next]_vars
  PROVE  (ordered => ordered') /\ (crossed => crossed')
<1> USE DEF TypeOK
<1>1. CASE HbReply
  BY <1>1 DEF HbReply, AgentReboot, agentVars
<1>2. CASE SendHeartbeat \/ Controller \/ LoseReply
  BY <1>2 DEF SendHeartbeat, Controller, HbRecord, HbReboot, HbUpdate, HbNone, HbAssign,
     LoseReply, history
<1>3. CASE AgentStep
  BY <1>3 DEF AgentStep, EndEncode, FailEarly, Complete, BumpCounter, UpdateBegin,
     UpdateCheck, UpdateEnd, PowerCycle, history
<1>4. CASE WorldStep
  <2>1. UNCHANGED crossed /\ (ordered' = TRUE \/ ordered' = ordered)
    BY <1>4 DEF WorldStep, NewJob, Cancel, Publish, RebootRequestRead,
       RebootRequestWrite, GraceExpires, history
  <2> QED  BY <2>1
<1>5. CASE UNCHANGED vars
  BY <1>5 DEF vars, history
<1> QED  BY <1>1, <1>2, <1>3, <1>4, <1>5, StepOf

(* Every step keeps the cause of a pending reboot. *)
LEMMA NextCause ==
  ASSUME CauseBase, CauseInv, [Next]_vars
  PROVE  CauseInv'
<1>1. SUFFICES ASSUME ~ordered', ~crossed' PROVE Caused'
  BY DEF CauseInv
<1>2. Caused  BY <1>1, HistoryStays DEF CauseInv, CauseBase, CycleInv
<1>3. TypeOK'  BY NextType DEF CauseBase, CycleInv
<1>4. CASE Next
  BY <1>1, <1>2, <1>3, <1>4, StepOf, SendCause, RecordCause, AnswerCause, ReplyCause,
     AgentCause, WorldCause
  DEF Controller
<1>5. CASE UNCHANGED vars
  BY <1>2, <1>5 DEF vars, agentVars, updateVars, Caused, RowIsKnown, PendingIsDue,
     PendingIsSeen, RebootIsDue, Registry, ActiveJobs, Updating
<1> QED  BY <1>4, <1>5

(* Without an operator the machine is shut down at the limit only, as long *)
(* as no shutdown has crossed an update: the reboot that the limit caused  *)
(* is over when the node is back, whatever replies were lost and however   *)
(* long it took.                                                           *)
THEOREM RebootsHaveCause == Spec => RebootHasCause
<1>1. CauseBase /\ CauseInv /\ [Next]_vars => CauseInv'
  BY NextCause
<1>2. Spec => []CauseBase
  <2>1. CycleInv /\ RegistryKnown /\ [Next]_vars => RegistryKnown'
    BY NextRegistryKnown DEF CycleInv
  <2>2. Init => RegistryKnown  BY InitCause
  <2>3. Spec => []RegistryKnown
    BY <2>1, <2>2, CycleCorrect, PTL DEF Spec
  <2>4. CycleInv /\ TasksKept /\ RegistryKnown => CauseBase
    BY DEF CauseBase
  <2> QED  BY <2>3, <2>4, CycleCorrect, BoundsHold, PTL
<1>3. Init => CauseInv  BY InitCause
<1>4. Spec => []CauseInv
  BY <1>1, <1>2, <1>3, PTL DEF Spec
<1>5. CauseBase /\ CauseInv /\ [Next]_vars =>
        [machine = "up" /\ machine' = "closing" =>
           counter >= SettingsLimit \/ ordered \/ crossed]_vars
  <2> SUFFICES ASSUME CauseBase, CauseInv, Next, machine = "up",
                      machine' = "closing", ~ordered, ~crossed
               PROVE  counter >= SettingsLimit
    BY DEF vars, agentVars
  <2>1. hb.pc = "reply" /\ hb.answer = "reboot"  BY ClosedByReply
  <2> QED  BY <2>1 DEF CauseInv, Caused, RebootIsDue
<1> QED
  BY <1>2, <1>4, <1>5, PTL DEF Spec, RebootHasCause
=============================================================================
