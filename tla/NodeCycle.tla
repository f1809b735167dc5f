------------------------------ MODULE NodeCycle ------------------------------
(***************************************************************************)
(* The life of one node between its heartbeats: the task counter and the   *)
(* reboot it leads to, updates, and the assignment of jobs, as decided by  *)
(* handleHeartbeat (api/handlers.go) and carried out by the agent          *)
(* (agent/agent.go).  The controller and the agent each act on what the    *)
(* other said last: the node row, the agent's report and the reply.        *)
(*                                                                         *)
(* Dispatch takes the handler apart statement by statement for the jobs    *)
(* table; here the job statements of one request are a step, and it is the *)
(* node row, the agent and the machine whose interleavings are kept.       *)
(***************************************************************************)
EXTENDS Naturals, FiniteSets

CONSTANTS
  Jobs,           \* ids; a new job may take the place of one that is over
  Slots,          \* max_concurrent_jobs
  CfgLimit,       \* ENCODE_TASKS_BEFORE_REBOOT, which gates assignment
  SettingsLimit,  \* tasks_before_reboot of the settings, which gates reboots
  ShutdownWorks,  \* the platform accepts "shutdown /r /t 30"
  MaxLocalJobs,   \* the agent's own cap on its registry
  Updaters,       \* goroutines of handleUpdate: bound on those at once
  MaxRequests,    \* bound on the operator's reboots and cancellations
  MaxReleases,    \* bound on the published releases
  MaxFaults       \* bound on lost replies and failures before the script

ASSUME JobsFinite == IsFiniteSet(Jobs)
ASSUME CycleAssumption ==
  /\ {Slots, CfgLimit, SettingsLimit, MaxLocalJobs} \subseteq Nat \ {0}
  /\ {MaxRequests, MaxReleases, MaxFaults} \subseteq Nat
  /\ ShutdownWorks \in BOOLEAN

VARIABLES
  row,       \* the node row: tasks_since_boot, reboot_pending, reboot_issued_at
  job,       \* the jobs table, as far as it concerns this node
  release,   \* what the update manifest offers
  machine,   \* "up", or "closing": shutdown has been accepted
  counter,   \* the agent's tasks_since_boot file
  work,      \* the agent's registry
  installed, \* the release of lib and tools the agent has
  update,    \* the goroutines of handleUpdate
  syncing,   \* the agent's flag, which they share
  hb,        \* the heartbeat being served
  admin,     \* a manual reboot request, with the column it read and keeps
  landed,    \* history: encodes that a heartbeat brought which left without
             \* the flag while an update was under way
  disowned,  \* history: jobs cancelled after they were handed out
  crossed,   \* history: a shutdown was accepted with an update under way
  ordered,   \* history: an operator has asked for a reboot
  requests, faults

updateVars == <<installed, update, syncing>>
agentVars == <<machine, counter, work, updateVars>>
countVars == <<requests, faults>>
history == <<landed, disowned, crossed, ordered>>
vars == <<row, job, release, agentVars, hb, admin, history, countVars>>

Active == {"assigned", "running"}
Releases == 1..(MaxReleases + 1)

Row == [tasks: Nat, pending: BOOLEAN, issued: {"none", "fresh", "expired"}]
NoRow == [tasks |-> 0, pending |-> FALSE, issued |-> "none"]

Update == [stage: {"none", "begun", "flagged", "swapping"}, offer: Releases]
NoUpdate == [stage |-> "none", offer |-> 1]

Request ==
  [pc: {"idle", "record", "decide", "reply"}, live: BOOLEAN, copy: Row,
   reported: SUBSET Jobs, tasks: Nat, syncing: BOOLEAN, version: Releases,
   early: BOOLEAN, active: BOOLEAN, free: 0..Slots,
   answer: {"none", "reboot", "update", "jobs"},
   offer: Releases, jobs: SUBSET Jobs]

NoRequest ==
  [pc |-> "idle", live |-> FALSE, copy |-> NoRow,
   reported |-> {}, tasks |-> 0, syncing |-> FALSE, version |-> 1,
   early |-> FALSE, active |-> FALSE, free |-> 0,
   answer |-> "none", offer |-> 1, jobs |-> {}]

(* Every column, file, flag and request is what its type says. *)
TypeOK ==
  /\ row \in Row
  /\ job \in [Jobs -> {"over", "queued"} \cup Active]
  /\ release \in Releases
  /\ machine \in {"up", "closing"}
  /\ counter \in Nat
  /\ work \in [Jobs -> {"none", "encoding", "failing", "reporting", "counting"}]
  /\ installed \in Releases
  /\ update \in [Updaters -> Update]
  /\ syncing \in BOOLEAN
  /\ landed \subseteq Jobs /\ disowned \subseteq Jobs
  /\ crossed \in BOOLEAN /\ ordered \in BOOLEAN
  /\ hb \in Request
  /\ admin \in [reading: BOOLEAN, tasks: Nat]
  /\ requests \in 0..MaxRequests
  /\ faults \in 0..MaxFaults

NobodyAsks == [reading |-> FALSE, tasks |-> 0]

Init ==
  /\ row = NoRow
  /\ job = [j \in Jobs |-> "over"]
  /\ release = 1 /\ installed = 1
  /\ update = [u \in Updaters |-> NoUpdate] /\ syncing = FALSE
  /\ machine = "up" /\ counter = 0
  /\ work = [j \in Jobs |-> "none"]
  /\ hb = NoRequest
  /\ admin = NobodyAsks
  /\ landed = {} /\ disowned = {} /\ crossed = FALSE /\ ordered = FALSE
  /\ requests = 0 /\ faults = 0

ActiveJobs == {j \in Jobs : job[j] \in Active}
Registry   == {j \in Jobs : work[j] # "none"}
Queue      == {j \in Jobs : job[j] = "queued"}
Updating   == {u \in Updaters : update[u].stage # "none"}

-----------------------------------------------------------------------------
(* The heartbeat.                                                          *)

(* The agent reports what it runs, and the request's authentication reads  *)
(* the row.  An update that an earlier reply started may not have set the  *)
(* flag yet, or another one that ended may have cleared it.                *)
SendHeartbeat ==
  /\ hb.pc = "idle"
  /\ hb' = [NoRequest EXCEPT
             !.pc = "record", !.live = TRUE, !.copy = row,
             !.reported = Registry, !.tasks = counter,
             !.syncing = syncing, !.version = installed,
             !.early = Updating # {} /\ ~syncing]
  /\ UNCHANGED <<row, job, release, agentVars, admin, history, countVars>>

(* Mutant: a decrease of the counter is not taken for a reboot. *)
ReturnedNever(copy, tasks, active) == FALSE

(* The node is back: the counter is lower than at the last heartbeat. *)
Returned(copy, tasks, active) ==
  copy.pending /\ ~active /\ tasks < copy.tasks

Expired(copy, active) ==
  copy.pending /\ ~active /\ copy.issued # "fresh"

FreeSlots(holding) ==
  IF Cardinality(holding) >= Slots THEN 0 ELSE Slots - Cardinality(holding)

(* Reports, orphans, the two ways out of a pending reboot, UpdateNode.     *)
HbRecord ==
  LET mine    == hb.reported \cap ActiveJobs
      orphans == {j \in Jobs \ hb.reported : job[j] = "running"}
      active  == hb.syncing \/ mine # {}
      over    == \/ Returned(hb.copy, hb.tasks, active)
                 \/ Expired(hb.copy, active)
      new     == [tasks |-> hb.tasks,
                  pending |-> hb.copy.pending /\ ~over,
                  issued |-> IF over THEN "none" ELSE hb.copy.issued]
  IN /\ hb.pc = "record"
     /\ job' = [j \in Jobs |-> IF j \in orphans THEN "over"
                               ELSE IF j \in mine THEN "running" ELSE job[j]]
     /\ row' = new
     /\ hb' = [hb EXCEPT !.pc = "decide", !.copy = new, !.active = active,
                         !.free = FreeSlots(ActiveJobs \ orphans),
                         !.reported = {}]
     /\ UNCHANGED <<release, agentVars, admin, history, countVars>>

Due == hb.tasks >= SettingsLimit

Answer(answer) ==
  hb' = [NoRequest EXCEPT !.pc = "reply", !.live = hb.live, !.answer = answer]

(* Mutants: a busy node is rebooted; the limit is one task too high. *)
RebootAnyway == Due \/ hb.copy.pending
RebootAbove == ~hb.active /\ (hb.tasks > SettingsLimit \/ hb.copy.pending)

RebootNow == ~hb.active /\ (Due \/ hb.copy.pending)

(* A node at its limit, or with a pending flag, is told to reboot, again   *)
(* at every heartbeat.  The second UpdateNode sets the flag.               *)
HbReboot ==
  /\ hb.pc = "decide" /\ RebootNow
  /\ row' = IF Due /\ ~hb.copy.pending
              THEN [hb.copy EXCEPT !.pending = TRUE, !.issued = "fresh"]
              ELSE row
  /\ Answer("reboot")
  /\ UNCHANGED <<job, release, agentVars, admin, history, countVars>>

UpdateNow == ~RebootNow /\ ~hb.active /\ hb.version # release

HbUpdate ==
  /\ hb.pc = "decide" /\ UpdateNow
  /\ hb' = [NoRequest EXCEPT !.pc = "reply", !.live = hb.live,
                             !.answer = "update", !.offer = release]
  /\ UNCHANGED <<row, job, release, agentVars, admin, history, countVars>>

(* No work: nothing is free, the node is held back by its own state, or a  *)
(* full disk or drain mode holds it back.                                  *)
HbNone ==
  /\ hb.pc = "decide" /\ ~RebootNow /\ ~UpdateNow
  /\ Answer("none")
  /\ UNCHANGED <<row, job, release, agentVars, admin, history, countVars>>

(* Mutants: the task limit, or the sync in progress, is not looked at. *)
MayAssignBeyond == ~hb.syncing /\ hb.free > 0 /\ ~hb.copy.pending
MayAssignMidSwap == hb.free > 0 /\ ~hb.copy.pending /\ hb.tasks < CfgLimit

MayAssign ==
  ~hb.syncing /\ hb.free > 0 /\ ~hb.copy.pending /\ hb.tasks < CfgLimit

HbAssign ==
  /\ hb.pc = "decide" /\ ~RebootNow /\ ~UpdateNow /\ MayAssign
  /\ \E given \in SUBSET Queue :
       /\ given # {}
       /\ Cardinality(given) = IF Cardinality(Queue) < hb.free
                                 THEN Cardinality(Queue) ELSE hb.free
       /\ job' = [j \in Jobs |-> IF j \in given THEN "assigned" ELSE job[j]]
       /\ hb' = [NoRequest EXCEPT !.pc = "reply", !.live = hb.live,
                                  !.answer = "jobs", !.jobs = given,
                                  !.early = hb.early]
  /\ UNCHANGED <<row, release, agentVars, admin, history, countVars>>

(* handleReboot: a second shutdown is refused while one is under way.      *)
AgentReboot ==
  IF ShutdownWorks /\ machine = "up"
    THEN /\ machine' = "closing" /\ counter' = 0
         /\ crossed' = (crossed \/ Updating # {})
    ELSE UNCHANGED <<machine, counter, crossed>>

(* spawnJobs: what the registry has already, or has no room for, is refused. *)
Accepts(given) ==
  LET new  == given \ Registry
      room == MaxLocalJobs - Cardinality(Registry)
  IN {taken \in SUBSET new :
        \/ taken = new /\ Cardinality(new) <= room
        \/ Cardinality(new) > room
             /\ Cardinality(taken) = IF room > 0 THEN room ELSE 0}

AgentJobs ==
  \E taken \in Accepts(hb.jobs) :
    /\ work' = [j \in Jobs |-> IF j \in taken THEN "encoding" ELSE work[j]]
    /\ landed' = IF hb.early THEN landed \cup taken ELSE landed \ taken

(* The agent does as it is told, if the reply still finds it waiting.  An  *)
(* update is begun: its goroutine goes its own way.                        *)
HbReply ==
  /\ hb.pc = "reply" /\ hb' = NoRequest
  /\ LET answer == IF hb.live THEN hb.answer ELSE "none"
     IN \/ /\ answer = "reboot" /\ AgentReboot
           /\ UNCHANGED <<work, updateVars, landed>>
        \/ /\ answer = "update"
           /\ \E u \in Updaters \ Updating :
                update' = [update EXCEPT ![u] = [stage |-> "begun", offer |-> hb.offer]]
           /\ UNCHANGED <<machine, counter, work, installed, syncing, landed, crossed>>
        \/ /\ answer = "jobs" /\ AgentJobs
           /\ UNCHANGED <<machine, counter, updateVars, crossed>>
        \/ answer = "none" /\ UNCHANGED <<agentVars, landed, crossed>>
  /\ UNCHANGED <<row, job, release, admin, disowned, ordered, countVars>>

(* The connection breaks before the reply; the request is served all the   *)
(* same, and the agent sends the next one an interval later.               *)
LoseReply ==
  /\ hb.pc = "reply" /\ hb.live /\ faults < MaxFaults
  /\ faults' = faults + 1
  /\ hb' = [hb EXCEPT !.live = FALSE]
  /\ UNCHANGED <<row, job, release, agentVars, admin, history, requests>>

-----------------------------------------------------------------------------
(* The agent and its machine.                                              *)

(* The script has run, well or not. *)
EndEncode(j) ==
  /\ work[j] = "encoding"
  /\ work' = [work EXCEPT ![j] = "reporting"]
  /\ landed' = landed \ {j}
  /\ UNCHANGED <<row, job, release, machine, counter, updateVars, hb,
                 admin, disowned, crossed, ordered, countVars>>

(* It never ran: no job directory, script file, library or source objects. *)
FailEarly(j) ==
  /\ work[j] = "encoding" /\ faults < MaxFaults
  /\ faults' = faults + 1
  /\ work' = [work EXCEPT ![j] = "failing"]
  /\ landed' = landed \ {j}
  /\ UNCHANGED <<row, job, release, machine, counter, updateVars, hb,
                 admin, disowned, crossed, ordered, requests>>

(* handleJobComplete commits; a job that is not active here is refused, or *)
(* answered as recorded.  An early failure leaves without being counted.   *)
Complete(j) ==
  /\ work[j] \in {"reporting", "failing"}
  /\ job' = [job EXCEPT ![j] = IF @ \in Active THEN "over" ELSE @]
  /\ work' = [work EXCEPT ![j] = IF @ = "reporting" THEN "counting" ELSE "none"]
  /\ UNCHANGED <<row, release, machine, counter, updateVars, hb, admin,
                 history, countVars>>

(* bumpCounter, after the report was answered; then the deferred finishJob. *)
BumpCounter(j) ==
  /\ work[j] = "counting"
  /\ counter' = counter + 1
  /\ work' = [work EXCEPT ![j] = "none"]
  /\ UNCHANGED <<row, job, release, machine, updateVars, hb, admin,
                 history, countVars>>

(* handleUpdate sets the flag. *)
UpdateBegin(u) ==
  /\ update[u].stage = "begun"
  /\ update' = [update EXCEPT ![u].stage = "flagged"]
  /\ syncing' = TRUE
  /\ UNCHANGED <<row, job, release, machine, counter, work, installed,
                 hb, admin, history, countVars>>

(* Nothing to do, or jobs are running and it is put off; else it goes on.  *)
UpdateCheck(u) ==
  /\ update[u].stage = "flagged"
  /\ IF installed = update[u].offer \/ Registry # {}
       THEN update' = [update EXCEPT ![u] = NoUpdate] /\ syncing' = FALSE
       ELSE update' = [update EXCEPT ![u].stage = "swapping"] /\ UNCHANGED syncing
  /\ UNCHANGED <<row, job, release, machine, counter, work, installed,
                 hb, admin, history, countVars>>

(* Mutant: an update that failed leaves the flag set, with nothing under   *)
(* way that could still succeed.                                           *)
UpdateEndStuck(u, ok) ==
  /\ update[u].stage = "swapping"
  /\ ok => update[u].offer = release
  /\ installed' = IF ok THEN update[u].offer ELSE installed
  /\ update' = [update EXCEPT ![u] = NoUpdate]
  /\ syncing' = ~ok
  /\ UNCHANGED <<row, job, release, machine, counter, work, hb, admin,
                 history, countVars>>

(* handleUpdate ends, and clears the flag whoever else still needs it.     *)
(* What it downloads is the release published then, and the checksum       *)
(* refuses any other than the one it was told of.                          *)
UpdateEnd(u, ok) ==
  /\ update[u].stage = "swapping"
  /\ ok => update[u].offer = release
  /\ installed' = IF ok THEN update[u].offer ELSE installed
  /\ update' = [update EXCEPT ![u] = NoUpdate]
  /\ syncing' = FALSE
  /\ UNCHANGED <<row, job, release, machine, counter, work, hb, admin,
                 history, countVars>>

(* 30 seconds later the machine goes down, with all that runs on it, and   *)
(* comes up again.                                                         *)
PowerCycle ==
  /\ machine = "closing"
  /\ machine' = "up"
  /\ work' = [j \in Jobs |-> "none"] /\ landed' = {}
  /\ update' = [u \in Updaters |-> NoUpdate] /\ syncing' = FALSE
  /\ hb' = [hb EXCEPT !.live = FALSE]
  /\ UNCHANGED <<row, job, release, counter, installed, admin, disowned,
                 crossed, ordered, countVars>>

-----------------------------------------------------------------------------
(* The queue, the operator and the clock.                                  *)

(* A new job, or a retry; the agent may still have the attempt before it.  *)
NewJob(j) ==
  /\ job[j] = "over"
  /\ job' = [job EXCEPT ![j] = "queued"]
  /\ disowned' = IF work[j] = "none" /\ j \notin hb.jobs
                   THEN disowned \ {j} ELSE disowned
  /\ UNCHANGED <<row, release, agentVars, hb, admin, landed, crossed, ordered,
                 countVars>>

(* An assigned job can be cancelled; the agent is not told, and goes on.   *)
Cancel(j) ==
  /\ job[j] \in {"queued", "assigned"} /\ requests < MaxRequests
  /\ requests' = requests + 1
  /\ job' = [job EXCEPT ![j] = "over"]
  /\ disowned' = IF job[j] = "assigned" THEN disowned \cup {j} ELSE disowned
  /\ UNCHANGED <<row, release, agentVars, hb, admin, landed, crossed, ordered,
                 faults>>

Publish ==
  /\ release <= MaxReleases
  /\ release' = release + 1
  /\ UNCHANGED <<row, job, agentVars, hb, admin, history, countVars>>

(* handleRebootNode reads the row, and writes all of it back: the flag, the *)
(* time, and the tasks as they were.                                       *)
RebootRequestRead ==
  /\ ~admin.reading /\ requests < MaxRequests
  /\ requests' = requests + 1
  /\ admin' = [reading |-> TRUE, tasks |-> row.tasks]
  /\ ordered' = TRUE
  /\ UNCHANGED <<row, job, release, agentVars, hb, landed, disowned, crossed,
                 faults>>

RebootRequestWrite ==
  /\ admin.reading
  /\ row' = [tasks |-> admin.tasks, pending |-> TRUE, issued |-> "fresh"]
  /\ admin' = NobodyAsks
  /\ UNCHANGED <<job, release, agentVars, hb, history, countVars>>

Aged(r) == [r EXCEPT !.issued = IF @ = "fresh" THEN "expired" ELSE @]

(* The grace period passes, for the row and for the copy a request holds.  *)
GraceExpires ==
  /\ row.issued = "fresh"
  /\ row' = Aged(row)
  /\ hb' = [hb EXCEPT !.copy = Aged(hb.copy)]
  /\ UNCHANGED <<job, release, agentVars, admin, history, countVars>>

-----------------------------------------------------------------------------
Controller == HbRecord \/ HbReboot \/ HbUpdate \/ HbNone \/ HbAssign

Next ==
  \/ SendHeartbeat \/ Controller \/ HbReply \/ LoseReply
  \/ \E j \in Jobs : \/ EndEncode(j) \/ FailEarly(j) \/ Complete(j) \/ BumpCounter(j)
                     \/ NewJob(j) \/ Cancel(j)
  \/ \E u \in Updaters : \/ UpdateBegin(u) \/ UpdateCheck(u)
                         \/ \E ok \in BOOLEAN : UpdateEnd(u, ok)
  \/ PowerCycle \/ Publish
  \/ RebootRequestRead \/ RebootRequestWrite \/ GraceExpires

Spec == Init /\ [][Next]_vars

(* The ticker, the goroutines of requests, encodes and updates, the        *)
(* machine and the clock.  HbAssign is strongly fair because nothing holds *)
(* a node back for ever, an UpdateEnd that is well because a download      *)
(* tried again and again succeeds.                                         *)
Fairness ==
  /\ WF_vars(SendHeartbeat) /\ WF_vars(Controller) /\ WF_vars(HbReply)
  /\ SF_vars(HbAssign)
  /\ \A j \in Jobs :
       WF_vars(EndEncode(j)) /\ WF_vars(Complete(j)) /\ WF_vars(BumpCounter(j))
  /\ \A u \in Updaters :
       /\ WF_vars(UpdateBegin(u)) /\ WF_vars(UpdateCheck(u))
       /\ WF_vars(\E ok \in BOOLEAN : UpdateEnd(u, ok))
  /\ SF_vars(\E u \in Updaters : UpdateEnd(u, TRUE))
  /\ WF_vars(PowerCycle) /\ WF_vars(RebootRequestWrite) /\ WF_vars(GraceExpires)

FairSpec == Spec /\ Fairness

-----------------------------------------------------------------------------
(* Properties.                                                             *)

Encoding == {j \in Jobs : work[j] = "encoding"}

(* "Node reboot after 10 tasks" (Architecture.md): what the agent has when *)
(* the limit is reached may still end, and the heartbeat that went out     *)
(* just below it may bring a job to every slot; beyond that no task runs   *)
(* in one boot, however many jobs wait, end or are cancelled.              *)
TasksBounded == counter <= CfgLimit - 1 + MaxLocalJobs + Slots

Swapping == {u \in Updaters : update[u].stage = "swapping"}

(* "Reboot is issued once ... the node has no active job" (handleHeartbeat):*)
(* when the machine accepts the shutdown, the only encodes on it are of    *)
(* jobs that an operator cancelled after they had been handed out, which   *)
(* the agent is never told.                                                *)
RebootAcceptedIdle ==
  [][machine = "up" /\ machine' = "closing" => Encoding \subseteq disowned]_vars

(* "No job lands mid-swap" (handleUpdate): lib and tools are replaced under *)
(* an encode only if the heartbeat that brought the job had left without   *)
(* the flag, with an update begun that had not set it yet or had it        *)
(* cleared by another.                                                     *)
NoJobMidSwap == Swapping # {} => Encoding \subseteq landed

(* The comment as it stands. *)
NoJobEverMidSwap == Swapping # {} => Encoding = {}

(* A reboot has a cause: the limit, or an operator.  The reboot that the   *)
(* limit caused is not repeated once the node is back, unless it crossed   *)
(* an update: the counter that drops in a heartbeat with the flag set is   *)
(* not taken for the node's return, and the next drop never comes.         *)
RebootHasCause ==
  [][machine = "up" /\ machine' = "closing" =>
       counter >= SettingsLimit \/ ordered \/ crossed]_vars

(* "A crash-reboot mid-job ...", but never one the controller ordered      *)
(* (Operations.md, "Reboot during a job"): no encode runs on a machine     *)
(* that goes down for a reboot.                                            *)
RebootSparesEncodes == [][machine' # machine => Encoding = {}]_vars

(* The limit leads to a reboot, whatever replies are lost.                 *)
LimitLeadsToReboot == counter >= SettingsLimit ~> machine = "closing"

(* "Nodes converge on next idle heartbeat" (Operations.md): every node     *)
(* comes to run the release that is offered, also when it is never out of  *)
(* work.                                                                   *)
UpdateArrives == installed # release ~> installed = release

(* "This guarantees no node can be locked out forever" (handleHeartbeat):  *)
(* a node that is up goes on getting work, if there is any.                *)
NeverLockedOut == []<>(Queue = {} \/ Encoding # {})
=============================================================================
