------------------------------ MODULE Dispatch ------------------------------
(***************************************************************************)
(* The job-dispatch core of the encode farm: the jobs and nodes tables of  *)
(* the shared database (store/store.go), the heartbeat and completion      *)
(* handlers of the controller replicas (api/handlers.go), and the agents   *)
(* that run the encodes (agent/agent.go, agent/jobs.go).                   *)
(*                                                                         *)
(* A request handler is not atomic: each of its database statements is a   *)
(* step of its own, so handlers of several requests, on one replica or on  *)
(* two, interleave between any two statements.  What a handler read from   *)
(* the database it keeps in its own record and may use when it is stale.   *)
(***************************************************************************)
EXTENDS Naturals, FiniteSets

CONSTANTS
  Nodes,           \* the nodes that have been paired
  Jobs,            \* job ids; FIFO order is the order of the ids
  Handlers,        \* heartbeat requests served at one time, on all replicas
  MaxSlots,        \* upper clamp of max_concurrent_jobs
  MaxLocalJobs,    \* the agent's own cap on simultaneous jobs
  MaxRetries,      \* the flow's automatic retry budget; 0 is no policy
  Routable,        \* <<j, n>>: the groups of j's series and of n match
  Renders,         \* <<j, n>>: j's flow renders in the dialect of n
  Priorities,      \* queue weights an operator may give a job
  OperatorActions, \* which operator requests the environment may send
  MaxOps,          \* how many of them
  Faults,          \* which faults may strike: "kill", "late", "restart"
  MaxFaults,       \* how many of them
  NoNode, NoJob, NoHandler

ASSUME JobsAssumption == Jobs \subseteq Nat /\ IsFiniteSet(Jobs)
ASSUME NullAssumption ==
  /\ NoNode \notin Nodes /\ NoJob \notin Jobs /\ NoHandler \notin Handlers
ASSUME LimitAssumption ==
  /\ MaxSlots \in Nat \ {0} /\ MaxLocalJobs \in Nat \ {0}
  /\ MaxRetries \in Nat /\ MaxOps \in Nat /\ MaxFaults \in Nat
  /\ 0 \in Priorities /\ Priorities \subseteq Nat

VARIABLES
  status, owner, retryCount, gate, lastFailed, priority, \* the jobs table
  registered, enabled, slots, busy,                      \* the nodes table
  work, awaiting,                                        \* the agents
  hb,                                                    \* heartbeat handlers
  report,                                                \* completion handlers
  ops, faults                                            \* budgets spent

jobVars   == <<status, owner, retryCount, gate, lastFailed, priority>>
nodeVars  == <<registered, enabled, slots, busy>>
agentVars == <<work, awaiting>>
vars == <<jobVars, nodeVars, agentVars, hb, report, ops, faults>>

-----------------------------------------------------------------------------
Active   == {"assigned", "running"}
Terminal == {"done", "failed", "cancelled"}
Statuses == {"unborn", "pending", "deleted"} \cup Active \cup Terminal

HbPhases == {"free", "reports", "mark", "orphans", "reread", "retry",
             "pick", "refuse", "bind", "reply"}
ReportPhases == {"none", "sent", "checked", "release", "retry"}

(* What one heartbeat request holds between its statements. *)
HandlerRecord ==
  [pc: HbPhases, node: Nodes \cup {NoNode},
   todo: SUBSET Jobs, reported: SUBSET Jobs, orphans: SUBSET Jobs,
   enabled: BOOLEAN, slots: 0..MaxSlots, used: Nat, free: Nat,
   cur: Jobs \cup {NoJob}, seen: Nat, payload: SUBSET Jobs]

IdleHandler ==
  [pc |-> "free", node |-> NoNode,
   todo |-> {}, reported |-> {}, orphans |-> {},
   enabled |-> FALSE, slots |-> 0, used |-> 0, free |-> 0,
   cur |-> NoJob, seen |-> 0, payload |-> {}]

(* What one completion request holds: the outcome and the retry count of   *)
(* the row it read before it wrote.                                        *)
ReportRecord == [pc: ReportPhases, ok: BOOLEAN, seen: Nat]
NoReport == [pc |-> "none", ok |-> FALSE, seen |-> 0]

JobTypes ==
  /\ status \in [Jobs -> Statuses]
  /\ owner \in [Jobs -> Nodes \cup {NoNode}]
  /\ retryCount \in [Jobs -> Nat]
  /\ gate \in [Jobs -> {"none", "closed", "open"}]
  /\ lastFailed \in [Jobs -> Nodes \cup {NoNode}]
  /\ priority \in [Jobs -> Priorities]

NodeTypes ==
  /\ registered \subseteq Nodes
  /\ enabled \subseteq Nodes
  /\ slots \in [Nodes -> 1..MaxSlots]
  /\ busy \subseteq Nodes

AgentTypes ==
  /\ work \in [Nodes -> [Jobs -> {"none", "encoding", "reporting"}]]
  /\ awaiting \in [Nodes -> Handlers \cup {NoHandler}]

(* Every column, registry, request and budget is what its type says. *)
TypeOK ==
  /\ JobTypes /\ NodeTypes /\ AgentTypes
  /\ hb \in [Handlers -> HandlerRecord]
  /\ report \in [Nodes -> [Jobs -> ReportRecord]]
  /\ ops \in 0..MaxOps
  /\ faults \in 0..MaxFaults

Init ==
  /\ status = [j \in Jobs |-> "unborn"]
  /\ owner = [j \in Jobs |-> NoNode]
  /\ retryCount = [j \in Jobs |-> 0]
  /\ gate = [j \in Jobs |-> "none"]
  /\ lastFailed = [j \in Jobs |-> NoNode]
  /\ priority = [j \in Jobs |-> 0]
  /\ registered = Nodes
  /\ enabled = Nodes
  /\ slots \in [Nodes -> 1..MaxSlots]
  /\ busy = {}
  /\ work = [n \in Nodes |-> [j \in Jobs |-> "none"]]
  /\ awaiting = [n \in Nodes |-> NoHandler]
  /\ hb = [h \in Handlers |-> IdleHandler]
  /\ report = [n \in Nodes |-> [j \in Jobs |-> NoReport]]
  /\ ops = 0
  /\ faults = 0

-----------------------------------------------------------------------------
(* Reads of the tables.                                                    *)

ActiveOn(n) == {j \in Jobs : owner[j] = n /\ status[j] \in Active}

Registry(n) == {j \in Jobs : work[n][j] # "none"}

(* Mutant: a job is never offered to the node that failed it last. *)
DispatchableElsewhere(j, n) ==
  /\ status[j] = "pending" /\ gate[j] # "closed" /\ <<j, n>> \in Routable
  /\ lastFailed[j] # n

Dispatchable(j, n) ==
  /\ status[j] = "pending" /\ gate[j] # "closed" /\ <<j, n>> \in Routable

(* ORDER BY priority DESC, (last_failed_node_id = n) ASC, id ASC *)
Precedes(j, k, n) ==
  \/ priority[j] > priority[k]
  \/ /\ priority[j] = priority[k]
     /\ \/ lastFailed[j] # n /\ lastFailed[k] = n
        \/ (lastFailed[j] = n) = (lastFailed[k] = n) /\ j < k

NextAssignable(j, n) ==
  /\ Dispatchable(j, n)
  /\ \A k \in Jobs \ {j} : Dispatchable(k, n) => Precedes(j, k, n)

-----------------------------------------------------------------------------
(* Statements that write the jobs table.  Each one sets all six columns.   *)

(* FinishJob(failed): WHERE id = ? and no guard on the status. *)
Fail(j) ==
  /\ lastFailed' = [lastFailed EXCEPT ![j] = owner[j]]
  /\ status' = [status EXCEPT ![j] = "failed"]
  /\ UNCHANGED <<owner, retryCount, gate, priority>>

(* FinishJobWithReport, when its guard matches the row. *)
Finish(j, ok) ==
  /\ status' = [status EXCEPT ![j] = IF ok THEN "done" ELSE "failed"]
  /\ lastFailed' = [lastFailed EXCEPT ![j] = IF ok THEN NoNode ELSE owner[j]]
  /\ UNCHANGED <<owner, retryCount, gate, priority>>

(* Mutant: the queued job keeps its last node. *)
RequeueKeepingOwner(j, count, g) ==
  /\ status' = [status EXCEPT ![j] = "pending"]
  /\ retryCount' = [retryCount EXCEPT ![j] = count]
  /\ gate' = [gate EXCEPT ![j] = g]
  /\ UNCHANGED <<owner, lastFailed, priority>>

Requeue(j, count, g) ==
  /\ status' = [status EXCEPT ![j] = "pending"]
  /\ owner' = [owner EXCEPT ![j] = NoNode]
  /\ retryCount' = [retryCount EXCEPT ![j] = count]
  /\ gate' = [gate EXCEPT ![j] = g]
  /\ UNCHANGED <<lastFailed, priority>>

(* Mutant: the retry is not counted. *)
AutoRetryUncounted(j, seen) ==
  IF seen < MaxRetries /\ status[j] = "failed"
    THEN Requeue(j, seen, "closed")
    ELSE UNCHANGED jobVars

(* ScheduleJobRetry, after shouldAutoRetry has compared the retry count    *)
(* the handler holds, seen, with the flow's budget.                        *)
AutoRetry(j, seen) ==
  IF seen < MaxRetries /\ status[j] = "failed"
    THEN Requeue(j, seen + 1, "closed")
    ELSE UNCHANGED jobVars

(* ReleaseNode: idle again when a slot is free; never sets busy. *)
ReleaseNode(n) ==
  busy' = IF Cardinality(ActiveOn(n)) < slots[n] THEN busy \ {n} ELSE busy

(* The heartbeat handler h, or the completion handler of job j of node n,  *)
(* goes on with the record r.                                              *)
Continue(h, r) == hb' = [hb EXCEPT ![h] = r]
Respond(n, j, r) == report' = [report EXCEPT ![n][j] = r]

-----------------------------------------------------------------------------
(* handleHeartbeat.                                                        *)

(* The agent snapshots its registry and posts; the controller's           *)
(* authentication reads the node row.  The agent sends no other heartbeat  *)
(* until this one is answered or its connection breaks.                    *)
SendHeartbeat(n, h) ==
  /\ n \in registered
  /\ awaiting[n] = NoHandler /\ hb[h].pc = "free"
  /\ awaiting' = [awaiting EXCEPT ![n] = h]
  /\ Continue(h, [IdleHandler EXCEPT
                   !.pc = "reports", !.node = n, !.todo = Registry(n),
                   !.enabled = n \in enabled, !.slots = slots[n]])
  /\ UNCHANGED <<jobVars, nodeVars, work, report, ops, faults>>

(* Mutant: an accepted job is not counted as reported until it runs. *)
HbReadReportedRunning(h) ==
  /\ hb[h].pc = "reports"
  /\ \E j \in hb[h].todo :
       /\ \A k \in hb[h].todo : j <= k
       /\ IF owner[j] = hb[h].node /\ status[j] \in {"pending"} \cup Active
            THEN Continue(h, [hb[h] EXCEPT !.pc = "mark", !.cur = j,
                   !.todo = @ \ {j},
                   !.reported = IF status[j] = "running" THEN @ \cup {j} ELSE @])
            ELSE Continue(h, [hb[h] EXCEPT !.todo = @ \ {j}])
  /\ UNCHANGED <<jobVars, nodeVars, agentVars, report, ops, faults>>

(* One reported job: GetJob, skipped when it is terminal or another's. *)
HbReadReported(h) ==
  /\ hb[h].pc = "reports"
  /\ \E j \in hb[h].todo :
       /\ \A k \in hb[h].todo : j <= k
       /\ IF owner[j] = hb[h].node /\ status[j] \in {"pending"} \cup Active
            THEN Continue(h, [hb[h] EXCEPT !.pc = "mark", !.cur = j,
                                           !.todo = @ \ {j},
                                           !.reported = @ \cup {j}])
            ELSE Continue(h, [hb[h] EXCEPT !.todo = @ \ {j}])
  /\ UNCHANGED <<jobVars, nodeVars, agentVars, report, ops, faults>>

(* Mutant: the update has no condition on the status. *)
HbMarkRunningAlways(h) ==
  /\ hb[h].pc = "mark"
  /\ status' = [status EXCEPT ![hb[h].cur] = "running"]
  /\ Continue(h, [hb[h] EXCEPT !.pc = "reports", !.cur = NoJob])
  /\ UNCHANGED <<owner, retryCount, gate, lastFailed, priority, nodeVars,
                 agentVars, report, ops, faults>>

(* UpdateJobStatus(running): WHERE status IN ('assigned','running'), with  *)
(* no condition on the node.                                               *)
HbMarkRunning(h) ==
  /\ hb[h].pc = "mark"
  /\ status' = IF status[hb[h].cur] \in Active
                 THEN [status EXCEPT ![hb[h].cur] = "running"]
                 ELSE status
  /\ Continue(h, [hb[h] EXCEPT !.pc = "reports", !.cur = NoJob])
  /\ UNCHANGED <<owner, retryCount, gate, lastFailed, priority, nodeVars,
                 agentVars, report, ops, faults>>

(* Mutant: every running job the agent did not report is its orphan. *)
HbReadActiveAnyNode(h) ==
  LET n == hb[h].node
      orphans == {j \in Jobs \ hb[h].reported : status[j] = "running"}
  IN /\ hb[h].pc = "reports" /\ hb[h].todo = {}
     /\ Continue(h, [hb[h] EXCEPT !.pc = "orphans", !.reported = {},
                                  !.orphans = orphans,
                                  !.used = Cardinality(ActiveOn(n) \ orphans)])
     /\ UNCHANGED <<jobVars, nodeVars, agentVars, report, ops, faults>>

(* ActiveJobsForNode: the running jobs the agent did not report are the    *)
(* orphans; the others occupy slots.                                       *)
HbReadActive(h) ==
  LET n == hb[h].node
      orphans == {j \in ActiveOn(n) \ hb[h].reported : status[j] = "running"}
  IN /\ hb[h].pc = "reports" /\ hb[h].todo = {}
     /\ Continue(h, [hb[h] EXCEPT !.pc = "orphans", !.reported = {},
                                  !.orphans = orphans,
                                  !.used = Cardinality(ActiveOn(n) \ orphans)])
     /\ UNCHANGED <<jobVars, nodeVars, agentVars, report, ops, faults>>

(* FinishJob(failed) of the next orphan, in the order of the snapshot. *)
HbFailOrphan(h) ==
  /\ hb[h].pc = "orphans"
  /\ \E j \in hb[h].orphans :
       /\ \A k \in hb[h].orphans : j <= k
       /\ IF status[j] # "deleted" THEN Fail(j) ELSE UNCHANGED jobVars
       /\ Continue(h, [hb[h] EXCEPT !.pc = "reread", !.cur = j,
                                    !.orphans = @ \ {j}])
  /\ UNCHANGED <<nodeVars, agentVars, report, ops, faults>>

(* GetJob of the job just failed, for its retry count. *)
HbReread(h) ==
  /\ hb[h].pc = "reread"
  /\ Continue(h, [hb[h] EXCEPT !.pc = "retry", !.seen = retryCount[hb[h].cur]])
  /\ UNCHANGED <<jobVars, nodeVars, agentVars, report, ops, faults>>

HbRetryOrphan(h) ==
  /\ hb[h].pc = "retry"
  /\ AutoRetry(hb[h].cur, hb[h].seen)
  /\ Continue(h, [hb[h] EXCEPT !.pc = "orphans", !.cur = NoJob, !.seen = 0])
  /\ UNCHANGED <<nodeVars, agentVars, report, ops, faults>>

(* UpdateNode writes the whole row back: the enabled flag is the one read  *)
(* when the request was authenticated.                                     *)
WriteNodeRow(h) ==
  LET n == hb[h].node
  IN IF n \in registered
       THEN /\ enabled' = IF hb[h].enabled THEN enabled \cup {n}
                                           ELSE enabled \ {n}
            /\ busy' = IF hb[h].used >= hb[h].slots THEN busy \cup {n}
                                                    ELSE busy \ {n}
       ELSE UNCHANGED <<enabled, busy>>

HbAfterOrphans(h) == hb[h].pc = "orphans" /\ hb[h].orphans = {}

(* Answered without work: a disabled or full node, or one held back by a   *)
(* reboot, an update, a low disk or drain mode.                            *)
HbHold(h) ==
  /\ HbAfterOrphans(h)
  /\ WriteNodeRow(h)
  /\ Continue(h, [hb[h] EXCEPT !.pc = "reply", !.enabled = FALSE, !.slots = 0,
                               !.used = 0])
  /\ UNCHANGED <<jobVars, registered, slots, agentVars, report, ops, faults>>

(* The node is offered one pending job per free slot. *)
HbOffer(h) ==
  /\ HbAfterOrphans(h)
  /\ hb[h].enabled /\ hb[h].used < hb[h].slots
  /\ WriteNodeRow(h)
  /\ Continue(h, [hb[h] EXCEPT !.pc = "pick",
                               !.free = hb[h].slots - hb[h].used,
                               !.enabled = FALSE, !.slots = 0, !.used = 0])
  /\ UNCHANGED <<jobVars, registered, slots, agentVars, report, ops, faults>>

(* NextAssignableJobForNode is an unlocked read; renderJob then decides    *)
(* whether the job can be handed to this node at all.                      *)
HbPick(h) ==
  LET n == hb[h].node
  IN /\ hb[h].pc = "pick"
     /\ \/ /\ hb[h].free > 0
           /\ \E j \in Jobs :
                /\ NextAssignable(j, n)
                /\ Continue(h, [hb[h] EXCEPT !.cur = j,
                     !.pc = IF <<j, n>> \in Renders THEN "bind" ELSE "refuse"])
        \/ /\ hb[h].free = 0 \/ \A j \in Jobs : ~Dispatchable(j, n)
           /\ Continue(h, [hb[h] EXCEPT !.pc = "reply", !.free = 0])
     /\ UNCHANGED <<jobVars, nodeVars, agentVars, report, ops, faults>>

(* A job whose script does not render is failed, whatever became of it     *)
(* since it was picked; no automatic retry.                                *)
HbRefuse(h) ==
  /\ hb[h].pc = "refuse"
  /\ IF status[hb[h].cur] # "deleted" THEN Fail(hb[h].cur)
                                      ELSE UNCHANGED jobVars
  /\ Continue(h, [hb[h] EXCEPT !.pc = "pick", !.cur = NoJob, !.free = @ - 1])
  /\ UNCHANGED <<nodeVars, agentVars, report, ops, faults>>

(* Mutants: the count is not repeated; the enabled flag is ignored.        *)
CanBindUncounted(j, n) ==
  n \in registered \cap enabled /\ status[j] = "pending"

CanBindDisabled(j, n) ==
  /\ n \in registered
  /\ Cardinality(ActiveOn(n)) < slots[n]
  /\ status[j] = "pending"

(* AssignJob: one transaction holding the node row's lock. *)
CanBind(j, n) ==
  /\ n \in registered \cap enabled
  /\ Cardinality(ActiveOn(n)) < slots[n]
  /\ status[j] = "pending"

HbBind(h) ==
  LET n == hb[h].node  j == hb[h].cur
  IN /\ hb[h].pc = "bind"
     /\ IF CanBind(j, n)
          THEN /\ status' = [status EXCEPT ![j] = "assigned"]
               /\ owner' = [owner EXCEPT ![j] = n]
               /\ busy' = IF Cardinality(ActiveOn(n)) + 1 >= slots[n]
                            THEN busy \cup {n} ELSE busy
               /\ Continue(h, [hb[h] EXCEPT !.pc = "pick", !.cur = NoJob,
                                            !.free = @ - 1,
                                            !.payload = @ \cup {j}])
          ELSE /\ UNCHANGED <<status, owner, busy>>
               /\ Continue(h, [hb[h] EXCEPT !.pc = "reply", !.cur = NoJob,
                                            !.free = 0])
     /\ UNCHANGED <<retryCount, gate, lastFailed, priority, registered,
                    enabled, slots, agentVars, report, ops, faults>>

(* The agent's registry accepts what it does not hold already, up to its   *)
(* own cap; what it refuses it only logs.                                  *)
Accept(n, offered) ==
  LET new == offered \ Registry(n)
      room == IF Cardinality(Registry(n)) >= MaxLocalJobs THEN 0
              ELSE MaxLocalJobs - Cardinality(Registry(n))
  IN \E taken \in SUBSET new :
       /\ Cardinality(taken) = IF Cardinality(new) <= room
                                 THEN Cardinality(new) ELSE room
       /\ work' = [work EXCEPT ![n] =
            [j \in Jobs |-> IF j \in taken THEN "encoding" ELSE work[n][j]]]

HbReply(h) ==
  LET n == hb[h].node
  IN /\ hb[h].pc = "reply"
     /\ Continue(h, IdleHandler)
     /\ IF awaiting[n] = h
          THEN /\ awaiting' = [awaiting EXCEPT ![n] = NoHandler]
               /\ Accept(n, hb[h].payload)
          ELSE UNCHANGED agentVars
     /\ UNCHANGED <<jobVars, nodeVars, report, ops, faults>>

HandlerStep(h) ==
  \/ HbReadReported(h) \/ HbMarkRunning(h) \/ HbReadActive(h)
  \/ HbFailOrphan(h) \/ HbReread(h) \/ HbRetryOrphan(h)
  \/ HbHold(h) \/ HbOffer(h)
  \/ HbPick(h) \/ HbRefuse(h) \/ HbBind(h) \/ HbReply(h)

-----------------------------------------------------------------------------
(* executeJob and handleJobComplete.                                       *)

(* The script ends and the agent posts its one completion report. *)
AgentFinish(n, j, ok) ==
  /\ work[n][j] = "encoding" /\ report[n][j].pc = "none"
  /\ work' = [work EXCEPT ![n][j] = "reporting"]
  /\ Respond(n, j, [pc |-> "sent", ok |-> ok, seen |-> 0])
  /\ UNCHANGED <<jobVars, nodeVars, awaiting, hb, ops, faults>>

(* GetJob: refused unless the job is n's and not yet terminal. *)
ReportCheck(n, j) ==
  /\ report[n][j].pc = "sent"
  /\ IF /\ n \in registered /\ owner[j] = n
        /\ status[j] \in {"pending"} \cup Active
       THEN Respond(n, j, [report[n][j] EXCEPT !.pc = "checked",
                                               !.seen = retryCount[j]])
       ELSE Respond(n, j, NoReport)
  /\ UNCHANGED <<jobVars, nodeVars, agentVars, hb, ops, faults>>

(* Mutant: a completion is recorded whatever became of the job. *)
ReportFinishAlways(n, j) ==
  /\ report[n][j].pc = "checked"
  /\ Finish(j, report[n][j].ok)
  /\ Respond(n, j, [report[n][j] EXCEPT !.pc = "release"])
  /\ UNCHANGED <<nodeVars, agentVars, hb, ops, faults>>

(* FinishJobWithReport: WHERE status IN ('assigned','running'). *)
ReportFinish(n, j) ==
  /\ report[n][j].pc = "checked"
  /\ IF status[j] \in Active
       THEN /\ Finish(j, report[n][j].ok)
            /\ Respond(n, j, [report[n][j] EXCEPT !.pc = "release"])
       ELSE /\ UNCHANGED jobVars
            /\ Respond(n, j, NoReport)
  /\ UNCHANGED <<nodeVars, agentVars, hb, ops, faults>>

ReportRelease(n, j) ==
  /\ report[n][j].pc = "release"
  /\ ReleaseNode(n)
  /\ Respond(n, j, IF report[n][j].ok
                     THEN NoReport ELSE [report[n][j] EXCEPT !.pc = "retry"])
  /\ UNCHANGED <<jobVars, registered, enabled, slots, agentVars, hb, ops,
                 faults>>

ReportRetry(n, j) ==
  /\ report[n][j].pc = "retry"
  /\ AutoRetry(j, report[n][j].seen)
  /\ Respond(n, j, NoReport)
  /\ UNCHANGED <<nodeVars, agentVars, hb, ops, faults>>

(* The report is answered: the deferred finishJob drops the job. *)
AgentForget(n, j) ==
  /\ work[n][j] = "reporting" /\ report[n][j].pc = "none"
  /\ work' = [work EXCEPT ![n][j] = "none"]
  /\ UNCHANGED <<jobVars, nodeVars, awaiting, hb, report, ops, faults>>

ReportStep(n, j) ==
  \/ ReportCheck(n, j) \/ ReportFinish(n, j)
  \/ ReportRelease(n, j) \/ ReportRetry(n, j)

-----------------------------------------------------------------------------
(* The queue, the clock and the operator.                                  *)

(* The scanner or an operator inserts the job (CreateJob). *)
CreateJob(j) ==
  /\ status[j] = "unborn"
  /\ status' = [status EXCEPT ![j] = "pending"]
  /\ UNCHANGED <<owner, retryCount, gate, lastFailed, priority, nodeVars,
                 agentVars, hb, report, ops, faults>>

(* next_retry_at is reached: at least a minute after the failure, so after *)
(* the 30 s an agent waits for the answer to its report.                   *)
GateOpens(j) ==
  /\ gate[j] = "closed"
  /\ \A n \in Nodes : work[n][j] # "reporting"
  /\ gate' = [gate EXCEPT ![j] = "open"]
  /\ UNCHANGED <<status, owner, retryCount, lastFailed, priority, nodeVars,
                 agentVars, hb, report, ops, faults>>

Request(action) ==
  /\ action \in OperatorActions /\ ops < MaxOps
  /\ ops' = ops + 1
  /\ UNCHANGED <<agentVars, hb, report, faults>>

(* CancelJob, WHERE status IN ('pending','assigned').  handleCancelJob      *)
(* releases the node of an assigned job; the bulk endpoint does not.       *)
CancelJob(j, bulk) ==
  /\ Request("cancel")
  /\ status[j] \in {"pending", "assigned"}
  /\ status' = [status EXCEPT ![j] = "cancelled"]
  /\ LET left == ActiveOn(owner[j]) \ {j}
     IN IF /\ ~bulk /\ status[j] = "assigned"
           /\ Cardinality(left) < slots[owner[j]]
          THEN busy' = busy \ {owner[j]}
          ELSE UNCHANGED busy
  /\ UNCHANGED <<owner, retryCount, gate, lastFailed, priority,
                 registered, enabled, slots>>

(* Mutant: a job can be queued again while a node has it. *)
RetryJobActive(j) ==
  /\ Request("retry")
  /\ status[j] \in Terminal \cup Active
  /\ Requeue(j, 0, "none")
  /\ UNCHANGED nodeVars

(* RetryJob: a terminal job, or one waiting behind its retry gate. *)
RetryJob(j) ==
  /\ Request("retry")
  /\ status[j] \in Terminal \/ (status[j] = "pending" /\ gate[j] # "none")
  /\ Requeue(j, 0, "none")
  /\ UNCHANGED nodeVars

DeleteJob(j) ==
  /\ Request("delete")
  /\ status[j] \in Terminal
  /\ status' = [status EXCEPT ![j] = "deleted"]
  /\ UNCHANGED <<owner, retryCount, gate, lastFailed, priority, nodeVars>>

PatchJob(j, p) ==
  /\ Request("patch")
  /\ status[j] = "pending"
  /\ priority' = [priority EXCEPT ![j] = p]
  /\ UNCHANGED <<status, owner, retryCount, gate, lastFailed, nodeVars>>

PatchNode(n, on, size) ==
  /\ Request("node")
  /\ n \in registered
  /\ enabled' = IF on THEN enabled \cup {n} ELSE enabled \ {n}
  /\ slots' = [slots EXCEPT ![n] = size]
  /\ UNCHANGED <<jobVars, registered, busy>>

(* DeleteNodeIfNotBusy: the guard looks at the node row only. *)
DeleteNode(n) ==
  /\ Request("deleteNode")
  /\ n \in registered \ busy
  /\ registered' = registered \ {n}
  /\ UNCHANGED <<jobVars, enabled, slots, busy>>

-----------------------------------------------------------------------------
(* Faults.                                                                 *)

Strike(fault) ==
  /\ fault \in Faults /\ faults < MaxFaults
  /\ faults' = faults + 1
  /\ UNCHANGED <<jobVars, nodeVars, ops>>

(* A replica dies, or a connection breaks, while it serves a heartbeat:    *)
(* what has been committed stays, the agent gets no answer.                *)
KillHeartbeat(h) ==
  LET n == hb[h].node
  IN /\ Strike("kill")
     /\ hb[h].pc # "free"
     /\ Continue(h, IdleHandler)
     /\ awaiting' = IF awaiting[n] = h THEN [awaiting EXCEPT ![n] = NoHandler]
                                       ELSE awaiting
     /\ UNCHANGED <<work, report>>

KillReport(n, j) ==
  /\ Strike("kill")
  /\ report[n][j].pc # "none"
  /\ Respond(n, j, NoReport)
  /\ UNCHANGED <<agentVars, hb>>

(* The agent's 30 s deadline passes while the report is still on its way   *)
(* or being served.                                                        *)
AgentGivesUp(n, j) ==
  /\ Strike("late")
  /\ work[n][j] = "reporting" /\ report[n][j].pc # "none"
  /\ work' = [work EXCEPT ![n][j] = "none"]
  /\ UNCHANGED <<awaiting, hb, report>>

(* The agent process dies and is started again with an empty registry;     *)
(* requests it has sent are still served.                                  *)
AgentRestart(n) ==
  /\ Strike("restart")
  /\ work' = [work EXCEPT ![n] = [j \in Jobs |-> "none"]]
  /\ awaiting' = [awaiting EXCEPT ![n] = NoHandler]
  /\ UNCHANGED <<hb, report>>

-----------------------------------------------------------------------------
OperatorStep ==
  \/ \E j \in Jobs :
       \/ \E bulk \in BOOLEAN : CancelJob(j, bulk)
       \/ RetryJob(j)
       \/ DeleteJob(j)
       \/ \E p \in Priorities : PatchJob(j, p)
  \/ \E n \in Nodes :
       \/ \E on \in BOOLEAN, size \in 1..MaxSlots : PatchNode(n, on, size)
       \/ DeleteNode(n)

FaultStep ==
  \/ \E h \in Handlers : KillHeartbeat(h)
  \/ \E n \in Nodes : AgentRestart(n)
  \/ \E n \in Nodes, j \in Jobs : KillReport(n, j) \/ AgentGivesUp(n, j)

AgentStep ==
  \/ \E n \in Nodes, h \in Handlers : SendHeartbeat(n, h)
  \/ \E n \in Nodes, j \in Jobs :
       \/ \E ok \in BOOLEAN : AgentFinish(n, j, ok)
       \/ AgentForget(n, j)

Next ==
  \/ \E j \in Jobs : CreateJob(j) \/ GateOpens(j)
  \/ AgentStep
  \/ \E h \in Handlers : HandlerStep(h)
  \/ \E n \in Nodes, j \in Jobs : ReportStep(n, j)
  \/ OperatorStep
  \/ FaultStep

Spec == Init /\ [][Next]_vars

(* What keeps running by itself: the agent's heartbeat ticker, the         *)
(* goroutines of requests being served and of encodes, and the clock.      *)
(* HbOffer is strongly fair: whatever holds a node back (a reboot, an      *)
(* update, a full disk, drain mode) does not hold it back for ever.        *)
Fairness ==
  /\ \A n \in Nodes : WF_vars(\E h \in Handlers : SendHeartbeat(n, h))
  /\ \A h \in Handlers : WF_vars(HandlerStep(h)) /\ SF_vars(HbOffer(h))
  /\ \A n \in Nodes, j \in Jobs :
       /\ WF_vars(\E ok \in BOOLEAN : AgentFinish(n, j, ok))
       /\ WF_vars(ReportStep(n, j))
       /\ WF_vars(AgentForget(n, j))
  /\ \A j \in Jobs : WF_vars(GateOpens(j))

FairSpec == Spec /\ Fairness

-----------------------------------------------------------------------------
(* Properties.                                                             *)

(* A node never holds more active jobs than the clamp on                   *)
(* max_concurrent_jobs, nor, until an operator lowers it, than its own cap, *)
(* whichever replicas assign to it at once (AssignJob's FOR UPDATE and     *)
(* count).                                                                 *)
CapacityHolds ==
  \A n \in Nodes :
    /\ Cardinality(ActiveOn(n)) <= MaxSlots
    /\ ops = 0 => Cardinality(ActiveOn(n)) <= slots[n]

(* A node gains an active job only while that leaves it within the cap its *)
(* row has at that moment, and only while it is enabled (AssignJob).       *)
NoOvershoot ==
  [][\A n \in Nodes :
       ActiveOn(n)' \subseteq ActiveOn(n)
       \/ (n \in enabled /\ Cardinality(ActiveOn(n)') <= slots[n])]_vars

(* The node column means what the handlers take it to mean: an active job  *)
(* is some node's, a queued job is nobody's.                               *)
OwnerFollowsStatus ==
  \A j \in Jobs : /\ status[j] \in Active => owner[j] \in Nodes
                  /\ status[j] = "pending" => owner[j] = NoNode

(* What an agent encodes is a live job of its own in the database, or one  *)
(* an operator cancelled under it: orphan recovery and automatic retries   *)
(* never take away a job that is being encoded, and so no job is encoded   *)
(* on two nodes.                                                           *)
EncoderOwnsJob ==
  \A n \in Nodes, j \in Jobs :
    work[n][j] = "encoding" =>
      owner[j] = n /\ status[j] \in Active \cup {"cancelled"}

(* An agent runs no more encodes at once than its node has slots.          *)
EncodersWithinSlots ==
  \A n \in Nodes :
    Cardinality({j \in Jobs : work[n][j] = "encoding"}) <= slots[n]

(* "Terminal jobs cannot regress via heartbeats" (Architecture.md): a      *)
(* terminal job stays what it is until it is queued again or deleted, and  *)
(* a done or cancelled one until an operator asks for it.                  *)
TerminalSticks ==
  [][\A j \in Jobs :
       status[j] \in Terminal =>
         \/ status'[j] = status[j]
         \/ status[j] = "failed" /\ status'[j] = "pending"
         \/ status'[j] \in {"pending", "deleted"} /\ ops' # ops]_vars

(* "A node may only report progress/completion for jobs assigned to it"    *)
(* (Architecture.md): an active job is finished by a request of its owner. *)
OnlyOwnerFinishes ==
  [][\A j \in Jobs :
       status[j] \in Active /\ status'[j] \in {"done", "failed"} =>
         \/ report'[owner[j]] # report[owner[j]]
         \/ \E h \in Handlers : hb[h].node = owner[j] /\ hb'[h] # hb[h]]_vars

(* Every automatic return to the queue uses up one retry of the budget,    *)
(* although the count it writes was read before the job was failed.        *)
AutoRetryCounts ==
  [][\A j \in Jobs :
       status[j] = "failed" /\ status'[j] = "pending" /\ ops' = ops =>
         /\ retryCount'[j] = retryCount[j] + 1
         /\ retryCount'[j] <= MaxRetries]_vars

(* Only an operator switches a node on or off (handlePatchNode).           *)
EnabledByOperatorOnly == [][enabled' # enabled => ops' # ops]_vars

(* The handlers implement the job's promised life, in which each of them   *)
(* is one step (JobLifecycle).                                             *)
Lifecycle == INSTANCE JobLifecycle WITH status <- status, owner <- owner
ImplementsLifecycle == Lifecycle!Spec

(* No queued job waits for ever: it reaches an outcome and keeps it.       *)
EveryJobSettles ==
  \A j \in Jobs : status[j] = "pending" ~> [](status[j] \in Terminal)
=============================================================================
