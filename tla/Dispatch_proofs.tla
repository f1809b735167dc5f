-------------------------- MODULE Dispatch_proofs --------------------------
(***************************************************************************)
(* Proofs about Dispatch: first what holds of every farm (any number of    *)
(* nodes, replicas and jobs, any slot caps, all operator requests and all  *)
(* faults), then that the quiet ones implement JobLifecycle.               *)
(***************************************************************************)
EXTENDS Dispatch, FiniteSetTheorems, TLAPS

(* What a heartbeat handler can count on at each of its statements: the    *)
(* node it serves, the job it is about, the slot it is about to fill.      *)
Shape(r) ==
  /\ r.pc # "free" => r.node \in Nodes
  /\ r.pc \in {"mark", "reread", "retry", "refuse", "bind"} => r.cur \in Jobs
  /\ r.pc \in {"refuse", "bind"} => r.free > 0

HandlerTypes ==
  /\ hb \in [Handlers -> HandlerRecord]
  /\ \A h \in Handlers : Shape(hb[h])

TypeInv == TypeOK /\ HandlerTypes

ReportTypes == report \in [Nodes -> [Jobs -> ReportRecord]]
BudgetTypes == ops \in 0..MaxOps /\ faults \in 0..MaxFaults

(* A job that was never inserted has no owner either. *)
UnbornUnowned == \A j \in Jobs : status[j] = "unborn" => owner[j] = NoNode

-----------------------------------------------------------------------------
(* A node's active jobs are finitely many. *)
LEMMA ActiveFinite ==
  ASSUME NEW n
  PROVE  /\ ActiveOn(n) \subseteq Jobs
         /\ IsFiniteSet(ActiveOn(n))
         /\ Cardinality(ActiveOn(n)) \in Nat
<1>1. ActiveOn(n) \subseteq Jobs  BY DEF ActiveOn
<1> QED  BY <1>1, FS_Subset, FS_CardinalityType, JobsAssumption

(* The type invariant, by groups of variables. *)
LEMMA TypeParts ==
  TypeInv <=> /\ JobTypes /\ NodeTypes /\ AgentTypes
              /\ HandlerTypes /\ ReportTypes /\ BudgetTypes
BY DEF TypeInv, TypeOK, HandlerTypes, ReportTypes, BudgetTypes

(* The same, after a step. *)
LEMMA NextTypeParts ==
  ASSUME JobTypes', NodeTypes', AgentTypes', HandlerTypes', ReportTypes', BudgetTypes'
  PROVE  TypeInv'
BY DEF TypeInv, TypeOK, HandlerTypes, ReportTypes, BudgetTypes

(* It holds at the start. *)
LEMMA InitTypeInv == Init => TypeInv
<1> SUFFICES ASSUME Init PROVE TypeInv  OBVIOUS
<1>1. JobTypes
  BY LimitAssumption DEF Init, JobTypes, Statuses
<1>2. NodeTypes /\ AgentTypes /\ ReportTypes /\ BudgetTypes
  BY LimitAssumption DEF Init, NodeTypes, AgentTypes, ReportTypes, BudgetTypes,
     ReportRecord, ReportPhases, NoReport
<1>3. HandlerTypes
  BY LimitAssumption
  DEF Init, HandlerTypes, Shape, HandlerRecord, IdleHandler, HbPhases
<1> QED  BY <1>1, <1>2, <1>3, TypeParts

-----------------------------------------------------------------------------
(* The statements on the jobs table keep its columns typed. *)
LEMMA FailTypes ==
  ASSUME JobTypes, NEW j \in Jobs, Fail(j) \/ UNCHANGED jobVars
  PROVE  JobTypes'
BY DEF JobTypes, Fail, jobVars, Statuses, Terminal

(* A recorded completion keeps the columns typed. *)
LEMMA FinishTypes ==
  ASSUME JobTypes, NEW j \in Jobs, NEW ok \in BOOLEAN, Finish(j, ok)
  PROVE  JobTypes'
BY DEF JobTypes, Finish, Statuses, Terminal

(* So does the return of a job to the queue. *)
LEMMA RequeueTypes ==
  ASSUME JobTypes, NEW j \in Jobs, NEW count \in Nat,
         NEW g \in {"none", "closed", "open"}, Requeue(j, count, g)
  PROVE  JobTypes'
BY DEF JobTypes, Requeue, Statuses

(* And so does an automatic retry, taken or refused. *)
LEMMA AutoRetryTypes ==
  ASSUME JobTypes, NEW j \in Jobs, NEW seen \in Nat, AutoRetry(j, seen)
  PROVE  JobTypes'
<1>1. CASE seen < MaxRetries /\ status[j] = "failed"
  BY <1>1, seen + 1 \in Nat, RequeueTypes DEF AutoRetry
<1>2. CASE ~(seen < MaxRetries /\ status[j] = "failed")
  BY <1>2 DEF AutoRetry, JobTypes, jobVars
<1> QED  BY <1>1, <1>2

(* A handler's record is replaced as a whole. *)
LEMMA ContinueTypes ==
  ASSUME HandlerTypes, NEW h \in Handlers, NEW r \in HandlerRecord, Shape(r),
         Continue(h, r)
  PROVE  HandlerTypes'
BY DEF HandlerTypes, Continue

(* A completion's record is replaced as a whole, too. *)
LEMMA RespondTypes ==
  ASSUME ReportTypes, NEW n \in Nodes, NEW j \in Jobs, NEW r \in ReportRecord,
         Respond(n, j, r)
  PROVE  ReportTypes'
BY DEF ReportTypes, Respond

(* Writing a heartbeat's node row keeps the node columns typed. *)
LEMMA WriteNodeRowTypes ==
  ASSUME TypeInv, NEW h \in Handlers, hb[h].pc # "free", WriteNodeRow(h),
         UNCHANGED <<registered, slots>>
  PROVE  NodeTypes'
BY DEF TypeInv, TypeOK, HandlerTypes, Shape, WriteNodeRow, NodeTypes

(* A handler that serves nobody is a handler. *)
LEMMA IdleTyped == IdleHandler \in HandlerRecord /\ Shape(IdleHandler)
BY LimitAssumption DEF IdleHandler, HandlerRecord, HbPhases, Shape

(* Variables that stay the same keep their types. *)
LEMMA UnchangedTypes ==
  ASSUME TypeInv
  PROVE  /\ UNCHANGED jobVars => JobTypes'
         /\ UNCHANGED nodeVars => NodeTypes'
         /\ UNCHANGED agentVars => AgentTypes'
         /\ UNCHANGED hb => HandlerTypes'
         /\ UNCHANGED report => ReportTypes'
         /\ UNCHANGED <<ops, faults>> => BudgetTypes'
BY DEF TypeInv, TypeOK, JobTypes, NodeTypes, AgentTypes, HandlerTypes, ReportTypes,
   BudgetTypes, jobVars, nodeVars, agentVars

-----------------------------------------------------------------------------
(* The steps of a heartbeat handler. *)
LEMMA HandlerStepTypes ==
  ASSUME TypeInv, NEW h \in Handlers, HandlerStep(h)
  PROVE  TypeInv'
<1>a. /\ JobTypes /\ NodeTypes /\ AgentTypes
      /\ HandlerTypes /\ ReportTypes /\ BudgetTypes
  BY TypeParts
<1>b. hb[h] \in HandlerRecord /\ Shape(hb[h])
  BY <1>a DEF HandlerTypes
<1> USE DEF HandlerRecord, HbPhases, Shape
<1>1. CASE HbReadReported(h)
  <2>1. PICK j \in hb[h].todo :
          /\ hb[h].pc = "reports"
          /\ \/ Continue(h, [hb[h] EXCEPT !.pc = "mark", !.cur = j, !.todo = @ \ {j},
                                          !.reported = @ \cup {j}])
             \/ Continue(h, [hb[h] EXCEPT !.todo = @ \ {j}])
    BY <1>1 DEF HbReadReported
  <2>2. HandlerTypes'
    BY <1>a, <1>b, <2>1, ContinueTypes
  <2> QED  BY <1>1, <1>a, <2>2, UnchangedTypes, NextTypeParts DEF HbReadReported
<1>2. CASE HbMarkRunning(h)
  <2>1. HandlerTypes'
    BY <1>2, <1>a, <1>b, ContinueTypes DEF HbMarkRunning
  <2>2. JobTypes'
    BY <1>2, <1>a DEF HbMarkRunning, JobTypes, Statuses, Active
  <2> QED  BY <1>2, <1>a, <2>1, <2>2, UnchangedTypes, NextTypeParts DEF HbMarkRunning
<1>3. CASE HbReadActive(h)
  <2> DEFINE n == hb[h].node
             gone == {j \in ActiveOn(n) \ hb[h].reported : status[j] = "running"}
  <2>1. gone \subseteq Jobs /\ Cardinality(ActiveOn(n) \ gone) \in Nat
    <3>1. IsFiniteSet(ActiveOn(n) \ gone)
      BY ActiveFinite, FS_Subset
    <3> QED  BY <3>1, ActiveFinite, FS_CardinalityType
  <2>2. /\ hb[h].pc = "reports"
        /\ Continue(h, [hb[h] EXCEPT !.pc = "orphans", !.reported = {}, !.orphans = gone,
                                     !.used = Cardinality(ActiveOn(n) \ gone)])
    BY <1>3 DEF HbReadActive
  <2> HIDE DEF gone
  <2>3. HandlerTypes'
    BY <1>a, <1>b, <2>1, <2>2, ContinueTypes
  <2> QED  BY <1>3, <1>a, <2>3, UnchangedTypes, NextTypeParts DEF HbReadActive
<1>4. CASE HbFailOrphan(h)
  <2>1. PICK j \in hb[h].orphans :
          /\ hb[h].pc = "orphans"
          /\ Fail(j) \/ UNCHANGED jobVars
          /\ Continue(h, [hb[h] EXCEPT !.pc = "reread", !.cur = j, !.orphans = @ \ {j}])
    BY <1>4 DEF HbFailOrphan
  <2>2. j \in Jobs  BY <1>b, <2>1
  <2>3. JobTypes'  BY <1>a, <2>1, <2>2, FailTypes
  <2>4. HandlerTypes'  BY <1>a, <1>b, <2>1, <2>2, ContinueTypes
  <2> QED  BY <1>4, <1>a, <2>3, <2>4, UnchangedTypes, NextTypeParts DEF HbFailOrphan
<1>5. CASE HbReread(h)
  <2>1. retryCount[hb[h].cur] \in Nat  BY <1>5, <1>a, <1>b DEF HbReread, JobTypes
  <2>2. HandlerTypes'  BY <1>5, <1>a, <1>b, <2>1, ContinueTypes DEF HbReread
  <2> QED  BY <1>5, <1>a, <2>2, UnchangedTypes, NextTypeParts DEF HbReread
<1>6. CASE HbRetryOrphan(h)
  <2>1. JobTypes'  BY <1>6, <1>a, <1>b, AutoRetryTypes DEF HbRetryOrphan
  <2>2. HandlerTypes'  BY <1>6, <1>a, <1>b, ContinueTypes DEF HbRetryOrphan
  <2> QED  BY <1>6, <1>a, <2>1, <2>2, UnchangedTypes, NextTypeParts DEF HbRetryOrphan
<1>7. CASE HbHold(h)
  <2>1. NodeTypes'  BY <1>7, WriteNodeRowTypes DEF HbHold, HbAfterOrphans
  <2> DEFINE r == [hb[h] EXCEPT !.pc = "reply", !.enabled = FALSE, !.slots = 0,
                               !.used = 0]
  <2>2. 0 \in 0..MaxSlots  BY LimitAssumption
  <2>3. r \in HandlerRecord /\ Shape(r)
    BY <1>7, <1>b, <2>2 DEF HbHold, HbAfterOrphans
  <2>4. HandlerTypes'  BY <1>7, <1>a, <2>3, ContinueTypes DEF HbHold
  <2> QED  BY <1>7, <1>a, <2>1, <2>4, UnchangedTypes, NextTypeParts DEF HbHold
<1>8. CASE HbOffer(h)
  <2>1. NodeTypes'  BY <1>8, WriteNodeRowTypes DEF HbOffer, HbAfterOrphans
  <2> DEFINE r == [hb[h] EXCEPT !.pc = "pick", !.free = hb[h].slots - hb[h].used,
                               !.enabled = FALSE, !.slots = 0, !.used = 0]
  <2>2. 0 \in 0..MaxSlots /\ hb[h].slots - hb[h].used \in Nat
    BY <1>8, <1>b, LimitAssumption DEF HbOffer
  <2>3. r \in HandlerRecord /\ Shape(r)
    BY <1>8, <1>b, <2>2 DEF HbOffer, HbAfterOrphans
  <2>4. HandlerTypes'  BY <1>8, <1>a, <2>3, ContinueTypes DEF HbOffer
  <2> QED  BY <1>8, <1>a, <2>1, <2>4, UnchangedTypes, NextTypeParts DEF HbOffer
<1>9. CASE HbPick(h)
  <2>1. HandlerTypes'
    BY <1>9, <1>a, <1>b, ContinueTypes DEF HbPick
  <2> QED  BY <1>9, <1>a, <2>1, UnchangedTypes, NextTypeParts DEF HbPick
<1>10. CASE HbRefuse(h)
  <2>1. JobTypes'  BY <1>10, <1>a, <1>b, FailTypes DEF HbRefuse
  <2> DEFINE r == [hb[h] EXCEPT !.pc = "pick", !.cur = NoJob, !.free = @ - 1]
  <2>2. hb[h].free - 1 \in Nat  BY <1>10, <1>b DEF HbRefuse
  <2>3. r \in HandlerRecord /\ Shape(r)  BY <1>10, <1>b, <2>2 DEF HbRefuse
  <2>4. HandlerTypes'  BY <1>10, <1>a, <2>3, ContinueTypes DEF HbRefuse
  <2> QED  BY <1>10, <1>a, <2>1, <2>4, UnchangedTypes, NextTypeParts DEF HbRefuse
<1>11. CASE HbBind(h)
  <2> DEFINE bound == [hb[h] EXCEPT !.pc = "pick", !.cur = NoJob, !.free = @ - 1,
                                   !.payload = @ \cup {hb[h].cur}]
             lost == [hb[h] EXCEPT !.pc = "reply", !.cur = NoJob, !.free = 0]
  <2>a. hb[h].free - 1 \in Nat /\ hb[h].cur \in Jobs  BY <1>11, <1>b DEF HbBind
  <2>b. /\ bound \in HandlerRecord /\ Shape(bound)
        /\ lost \in HandlerRecord /\ Shape(lost)
    BY <1>11, <1>b, <2>a DEF HbBind
  <2>c. Continue(h, bound) \/ Continue(h, lost)  BY <1>11 DEF HbBind
  <2>1. HandlerTypes'  BY <1>a, <2>b, <2>c, ContinueTypes
  <2>2. JobTypes'
    BY <1>11, <1>a, <1>b DEF HbBind, JobTypes, Statuses, Active
  <2>3. NodeTypes'
    BY <1>11, <1>a, <1>b DEF HbBind, NodeTypes
  <2> QED  BY <1>11, <1>a, <2>1, <2>2, <2>3, UnchangedTypes, NextTypeParts DEF HbBind
<1>12. CASE HbReply(h)
  <2>1. HandlerTypes'  BY <1>12, <1>a, IdleTyped, ContinueTypes DEF HbReply
  <2>2. AgentTypes'
    <3>1. CASE awaiting[hb[h].node] = h
      <4> DEFINE n == hb[h].node
      <4>1. awaiting' = [awaiting EXCEPT ![n] = NoHandler] /\ Accept(n, hb[h].payload)
        BY <1>12, <3>1 DEF HbReply
      <4>2. PICK taken \in SUBSET (hb[h].payload \ Registry(n)) :
              work' = [work EXCEPT ![n] =
                         [j \in Jobs |-> IF j \in taken THEN "encoding" ELSE work[n][j]]]
        BY <4>1 DEF Accept
      <4>3. n \in Nodes  BY <1>12, <1>b DEF HbReply
      <4> QED  BY <1>a, <4>1, <4>2, <4>3 DEF AgentTypes
    <3>2. CASE awaiting[hb[h].node] # h
      BY <1>12, <3>2, UnchangedTypes DEF HbReply
    <3> QED  BY <3>1, <3>2
  <2> QED  BY <1>12, <1>a, <2>1, <2>2, UnchangedTypes, NextTypeParts DEF HbReply
<1> QED
  BY <1>1, <1>2, <1>3, <1>4, <1>5, <1>6, <1>7, <1>8, <1>9, <1>10, <1>11, <1>12
  DEF HandlerStep

(* The steps of a completion handler. *)
LEMMA ReportStepTypes ==
  ASSUME TypeInv, NEW n \in Nodes, NEW j \in Jobs, ReportStep(n, j)
  PROVE  TypeInv'
<1>a. /\ JobTypes /\ NodeTypes /\ AgentTypes
      /\ HandlerTypes /\ ReportTypes /\ BudgetTypes
  BY TypeParts
<1>b. report[n][j] \in ReportRecord  BY <1>a DEF ReportTypes
<1>c. NoReport \in ReportRecord /\ retryCount[j] \in Nat
  BY <1>a DEF NoReport, ReportRecord, ReportPhases, JobTypes
<1>d. \A p \in ReportPhases, k \in Nat :
        /\ [report[n][j] EXCEPT !.pc = p] \in ReportRecord
        /\ [report[n][j] EXCEPT !.pc = p, !.seen = k] \in ReportRecord
  BY <1>b DEF ReportRecord
<1>e. {"checked", "release", "retry"} \subseteq ReportPhases  BY DEF ReportPhases
<1>1. CASE ReportCheck(n, j)
  <2>1. ReportTypes'
    BY <1>1, <1>a, <1>c, <1>d, <1>e, RespondTypes DEF ReportCheck
  <2> QED  BY <1>1, <1>a, <2>1, UnchangedTypes, NextTypeParts DEF ReportCheck
<1>2. CASE ReportFinish(n, j)
  <2>1. ReportTypes'
    BY <1>2, <1>a, <1>c, <1>d, <1>e, RespondTypes DEF ReportFinish
  <2>2. JobTypes'
    BY <1>2, <1>a, <1>b, FinishTypes, UnchangedTypes DEF ReportFinish, ReportRecord
  <2> QED  BY <1>2, <1>a, <2>1, <2>2, UnchangedTypes, NextTypeParts DEF ReportFinish
<1>3. CASE ReportRelease(n, j)
  <2>1. ReportTypes'
    BY <1>3, <1>a, <1>c, <1>d, <1>e, RespondTypes DEF ReportRelease
  <2>2. NodeTypes'
    BY <1>3, <1>a DEF ReportRelease, ReleaseNode, NodeTypes
  <2> QED  BY <1>3, <1>a, <2>1, <2>2, UnchangedTypes, NextTypeParts DEF ReportRelease
<1>4. CASE ReportRetry(n, j)
  <2>1. ReportTypes'
    BY <1>4, <1>a, <1>c, RespondTypes DEF ReportRetry
  <2>2. JobTypes'
    BY <1>4, <1>a, <1>b, AutoRetryTypes DEF ReportRetry, ReportRecord
  <2> QED  BY <1>4, <1>a, <2>1, <2>2, UnchangedTypes, NextTypeParts DEF ReportRetry
<1> QED  BY <1>1, <1>2, <1>3, <1>4 DEF ReportStep

(* The steps of the agents, and of what moves the queue along. *)
LEMMA AgentStepTypes ==
  ASSUME TypeInv,
         AgentStep \/ \E j \in Jobs : CreateJob(j) \/ GateOpens(j)
  PROVE  TypeInv'
<1>a. /\ JobTypes /\ NodeTypes /\ AgentTypes
      /\ HandlerTypes /\ ReportTypes /\ BudgetTypes
  BY TypeParts
<1>1. ASSUME NEW n \in Nodes, NEW h \in Handlers, SendHeartbeat(n, h) PROVE TypeInv'
  <2> DEFINE on == n \in enabled
             r == [IdleHandler EXCEPT
                     !.pc = "reports", !.node = n, !.todo = Registry(n),
                     !.enabled = on, !.slots = slots[n]]
  <2>a. on \in BOOLEAN  OBVIOUS
  <2>b. Continue(h, r)  BY <1>1 DEF SendHeartbeat
  <2> HIDE DEF on
  <2>1. Registry(n) \subseteq Jobs /\ slots[n] \in 0..MaxSlots
    BY <1>a, LimitAssumption DEF Registry, NodeTypes
  <2>2. r \in HandlerRecord /\ Shape(r)
    BY <2>a, <2>1, LimitAssumption DEF IdleHandler, HandlerRecord, HbPhases, Shape
  <2>3. HandlerTypes'  BY <1>a, <2>b, <2>2, ContinueTypes
  <2>4. AgentTypes'  BY <1>1, <1>a DEF SendHeartbeat, AgentTypes
  <2> QED  BY <1>1, <1>a, <2>3, <2>4, UnchangedTypes, NextTypeParts DEF SendHeartbeat
<1>2. ASSUME NEW n \in Nodes, NEW j \in Jobs, NEW ok \in BOOLEAN, AgentFinish(n, j, ok)
      PROVE  TypeInv'
  <2>1. [pc |-> "sent", ok |-> ok, seen |-> 0] \in ReportRecord
    BY DEF ReportRecord, ReportPhases
  <2>3. Respond(n, j, [pc |-> "sent", ok |-> ok, seen |-> 0])
    BY <1>2 DEF AgentFinish
  <2>4. ReportTypes'  BY <1>a, <2>1, <2>3, RespondTypes
  <2>2. AgentTypes'
    BY <1>2, <1>a DEF AgentFinish, AgentTypes
  <2> QED  BY <1>2, <1>a, <2>2, <2>4, UnchangedTypes, NextTypeParts DEF AgentFinish
<1>3. ASSUME NEW n \in Nodes, NEW j \in Jobs, AgentForget(n, j) PROVE TypeInv'
  <2>1. AgentTypes'
    BY <1>3, <1>a DEF AgentForget, AgentTypes
  <2> QED  BY <1>3, <1>a, <2>1, UnchangedTypes, NextTypeParts DEF AgentForget
<1>4. ASSUME NEW j \in Jobs, CreateJob(j) PROVE TypeInv'
  <2>1. JobTypes'
    BY <1>4, <1>a DEF CreateJob, JobTypes, Statuses
  <2> QED  BY <1>4, <1>a, <2>1, UnchangedTypes, NextTypeParts DEF CreateJob
<1>5. ASSUME NEW j \in Jobs, GateOpens(j) PROVE TypeInv'
  <2>1. JobTypes'
    BY <1>5, <1>a DEF GateOpens, JobTypes
  <2> QED  BY <1>5, <1>a, <2>1, UnchangedTypes, NextTypeParts DEF GateOpens
<1> QED  BY <1>1, <1>2, <1>3, <1>4, <1>5 DEF AgentStep

(* The operator's requests. *)
LEMMA OperatorStepTypes ==
  ASSUME TypeInv, OperatorStep
  PROVE  TypeInv'
<1>a. /\ JobTypes /\ NodeTypes /\ AgentTypes
      /\ HandlerTypes /\ ReportTypes /\ BudgetTypes
  BY TypeParts
<1>b. \A action : Request(action) =>
        AgentTypes' /\ HandlerTypes' /\ ReportTypes' /\ BudgetTypes'
  BY <1>a, UnchangedTypes, LimitAssumption DEF Request, BudgetTypes
<1>1. ASSUME NEW j \in Jobs, NEW bulk \in BOOLEAN, CancelJob(j, bulk) PROVE TypeInv'
  <2>1. JobTypes' /\ NodeTypes'
    BY <1>1, <1>a DEF CancelJob, JobTypes, NodeTypes, Statuses, Terminal
  <2> QED  BY <1>1, <1>a, <1>b, <2>1, NextTypeParts DEF CancelJob
<1>2. ASSUME NEW j \in Jobs, RetryJob(j) PROVE TypeInv'
  <2>1. JobTypes'  BY <1>2, <1>a, RequeueTypes DEF RetryJob
  <2> QED  BY <1>2, <1>a, <1>b, <2>1, UnchangedTypes, NextTypeParts DEF RetryJob
<1>3. ASSUME NEW j \in Jobs, DeleteJob(j) PROVE TypeInv'
  <2>1. JobTypes'  BY <1>3, <1>a DEF DeleteJob, JobTypes, Statuses
  <2> QED  BY <1>3, <1>a, <1>b, <2>1, UnchangedTypes, NextTypeParts DEF DeleteJob
<1>4. ASSUME NEW j \in Jobs, NEW p \in Priorities, PatchJob(j, p) PROVE TypeInv'
  <2>1. JobTypes'  BY <1>4, <1>a DEF PatchJob, JobTypes
  <2> QED  BY <1>4, <1>a, <1>b, <2>1, UnchangedTypes, NextTypeParts DEF PatchJob
<1>5. ASSUME NEW n \in Nodes, NEW on \in BOOLEAN, NEW size \in 1..MaxSlots,
             PatchNode(n, on, size)
      PROVE  TypeInv'
  <2>1. NodeTypes'  BY <1>5, <1>a DEF PatchNode, NodeTypes
  <2> QED  BY <1>5, <1>a, <1>b, <2>1, UnchangedTypes, NextTypeParts DEF PatchNode
<1>6. ASSUME NEW n \in Nodes, DeleteNode(n) PROVE TypeInv'
  <2>1. NodeTypes'  BY <1>6, <1>a DEF DeleteNode, NodeTypes
  <2> QED  BY <1>6, <1>a, <1>b, <2>1, UnchangedTypes, NextTypeParts DEF DeleteNode
<1> QED  BY <1>1, <1>2, <1>3, <1>4, <1>5, <1>6 DEF OperatorStep

(* The faults. *)
LEMMA FaultStepTypes ==
  ASSUME TypeInv, FaultStep
  PROVE  TypeInv'
<1>a. /\ JobTypes /\ NodeTypes /\ AgentTypes
      /\ HandlerTypes /\ ReportTypes /\ BudgetTypes
  BY TypeParts
<1>b. \A fault : Strike(fault) => JobTypes' /\ NodeTypes' /\ BudgetTypes'
  BY <1>a, UnchangedTypes, LimitAssumption DEF Strike, BudgetTypes
<1>1. ASSUME NEW h \in Handlers, KillHeartbeat(h) PROVE TypeInv'
  <2>1. HandlerTypes'  BY <1>1, <1>a, IdleTyped, ContinueTypes DEF KillHeartbeat
  <2>2. AgentTypes'  BY <1>1, <1>a DEF KillHeartbeat, AgentTypes
  <2> QED  BY <1>1, <1>a, <1>b, <2>1, <2>2, UnchangedTypes, NextTypeParts
  DEF KillHeartbeat
<1>2. ASSUME NEW n \in Nodes, NEW j \in Jobs, KillReport(n, j) PROVE TypeInv'
  <2>1. NoReport \in ReportRecord  BY DEF NoReport, ReportRecord, ReportPhases
  <2>2. ReportTypes'  BY <1>2, <1>a, <2>1, RespondTypes DEF KillReport
  <2> QED  BY <1>2, <1>a, <1>b, <2>2, UnchangedTypes, NextTypeParts DEF KillReport
<1>3. ASSUME NEW n \in Nodes, NEW j \in Jobs, AgentGivesUp(n, j) PROVE TypeInv'
  <2>1. AgentTypes'  BY <1>3, <1>a DEF AgentGivesUp, AgentTypes
  <2> QED  BY <1>3, <1>a, <1>b, <2>1, UnchangedTypes, NextTypeParts DEF AgentGivesUp
<1>4. ASSUME NEW n \in Nodes, AgentRestart(n) PROVE TypeInv'
  <2>1. AgentTypes'  BY <1>4, <1>a DEF AgentRestart, AgentTypes
  <2> QED  BY <1>4, <1>a, <1>b, <2>1, UnchangedTypes, NextTypeParts DEF AgentRestart
<1> QED  BY <1>1, <1>2, <1>3, <1>4 DEF FaultStep

(* Every step keeps the type invariant. *)
LEMMA NextTypeInv == TypeInv /\ [Next]_vars => TypeInv'
<1> SUFFICES ASSUME TypeInv, [Next]_vars PROVE TypeInv'  OBVIOUS
<1>1. CASE Next
  BY <1>1, HandlerStepTypes, ReportStepTypes, AgentStepTypes, OperatorStepTypes,
     FaultStepTypes DEF Next
<1>2. CASE UNCHANGED vars
  BY <1>2, TypeParts, UnchangedTypes, NextTypeParts DEF vars
<1> QED  BY <1>1, <1>2

(* Every variable keeps its type, and every handler knows its node, its    *)
(* job and its slot when it needs them, whatever interleaves with it.      *)
THEOREM TypeCorrect == Spec => []TypeInv
BY InitTypeInv, NextTypeInv, PTL DEF Spec

(* Every column, registry, request and budget of Dispatch keeps its type,
   for every farm. *)
THEOREM TypesHold == Spec => []TypeOK
<1>1. TypeInv => TypeOK  BY DEF TypeInv
<1> QED  BY <1>1, TypeCorrect, PTL

-----------------------------------------------------------------------------
(* Capacity.  Only AssignJob gives a node an active job: every other step  *)
(* keeps each active job's owner, or makes the job inactive.               *)
NoNewWork ==
  \A j \in Jobs :
    status'[j] \in Active => status[j] \in Active /\ owner'[j] = owner[j]

Bound(j, n) ==
  /\ CanBind(j, n)
  /\ status' = [status EXCEPT ![j] = "assigned"]
  /\ owner' = [owner EXCEPT ![j] = n]

(* The statements that do not assign leave no node with more work. *)
LEMMA WritesBringNoWork ==
  ASSUME JobTypes, NEW j \in Jobs
  PROVE  /\ UNCHANGED jobVars => NoNewWork
         /\ Fail(j) => NoNewWork
         /\ \A ok : Finish(j, ok) => NoNewWork
         /\ \A count, g : Requeue(j, count, g) => NoNewWork
         /\ \A seen : AutoRetry(j, seen) => NoNewWork
<1> USE DEF NoNewWork, JobTypes, Active
<1>1. UNCHANGED jobVars => NoNewWork  BY DEF jobVars
<1>2. Fail(j) => NoNewWork  BY DEF Fail
<1>3. ASSUME NEW ok, Finish(j, ok) PROVE NoNewWork
  <2>1. status'[j] \notin Active  BY <1>3 DEF Finish
  <2> QED  BY <1>3, <2>1 DEF Finish
<1>4. \A count, g : Requeue(j, count, g) => NoNewWork  BY DEF Requeue
<1>5. \A seen : AutoRetry(j, seen) => NoNewWork  BY <1>1, <1>4 DEF AutoRetry
<1> QED  BY <1>1, <1>2, <1>3, <1>4, <1>5

(* Of a heartbeat's statements only AssignJob gives a node work. *)
LEMMA HandlerWork ==
  ASSUME TypeInv, NEW h \in Handlers, HandlerStep(h)
  PROVE  NoNewWork \/ \E j \in Jobs, n \in Nodes : Bound(j, n)
<1>a. JobTypes /\ hb[h] \in HandlerRecord /\ Shape(hb[h])
  BY DEF TypeInv, TypeOK, HandlerTypes
<1>b. UNCHANGED jobVars => NoNewWork
  BY <1>a DEF NoNewWork, jobVars
<1>1. CASE HbMarkRunning(h)
  BY <1>1, <1>a DEF HbMarkRunning, NoNewWork, Active, JobTypes
<1>2. CASE HbFailOrphan(h)
  <2>1. PICK j \in hb[h].orphans : Fail(j) \/ UNCHANGED jobVars
    BY <1>2 DEF HbFailOrphan
  <2>2. j \in Jobs  BY <1>a, <2>1 DEF HandlerRecord
  <2> QED  BY <1>a, <2>1, <2>2, WritesBringNoWork
<1>3. CASE HbRetryOrphan(h)
  <2>1. hb[h].cur \in Jobs  BY <1>3, <1>a DEF HbRetryOrphan, Shape
  <2> QED  BY <1>3, <1>a, <2>1, WritesBringNoWork DEF HbRetryOrphan
<1>4. CASE HbRefuse(h)
  <2>1. hb[h].cur \in Jobs  BY <1>4, <1>a DEF HbRefuse, Shape
  <2> QED  BY <1>4, <1>a, <1>b, <2>1, WritesBringNoWork DEF HbRefuse
<1>5. CASE HbBind(h)
  <2>1. hb[h].cur \in Jobs /\ hb[h].node \in Nodes
    BY <1>5, <1>a DEF HbBind, Shape
  <2>2. CASE CanBind(hb[h].cur, hb[h].node)
    BY <1>5, <2>1, <2>2 DEF HbBind, Bound
  <2>3. CASE ~CanBind(hb[h].cur, hb[h].node)
    BY <1>5, <2>3 DEF HbBind, NoNewWork
  <2> QED  BY <2>2, <2>3
<1>6. CASE \/ HbReadReported(h) \/ HbReadActive(h) \/ HbReread(h) \/ HbHold(h)
           \/ HbOffer(h) \/ HbPick(h) \/ HbReply(h)
  BY <1>6, <1>b
  DEF HbReadReported, HbReadActive, HbReread, HbHold, HbOffer, HbPick, HbReply
<1> QED  BY <1>1, <1>2, <1>3, <1>4, <1>5, <1>6 DEF HandlerStep

(* And so it is for the steps of the whole system. *)
LEMMA StepWork ==
  ASSUME TypeInv, [Next]_vars
  PROVE  NoNewWork \/ \E j \in Jobs, n \in Nodes : Bound(j, n)
<1>a. JobTypes  BY DEF TypeInv, TypeOK
<1>b. UNCHANGED jobVars => NoNewWork
  BY <1>a DEF NoNewWork, jobVars
<1>1. ASSUME NEW h \in Handlers, HandlerStep(h)
      PROVE  NoNewWork \/ \E j \in Jobs, n \in Nodes : Bound(j, n)
  BY <1>1, HandlerWork
<1>2. ASSUME NEW n \in Nodes, NEW j \in Jobs, ReportStep(n, j) PROVE NoNewWork
  BY <1>2, <1>a, <1>b, WritesBringNoWork
  DEF ReportStep, ReportCheck, ReportFinish, ReportRelease, ReportRetry
<1>3. CASE AgentStep
  BY <1>3, <1>b DEF AgentStep, SendHeartbeat, AgentFinish, AgentForget
<1>4. CASE FaultStep
  BY <1>4, <1>b
  DEF FaultStep, KillHeartbeat, AgentRestart, KillReport, AgentGivesUp, Strike
<1>5. ASSUME NEW j \in Jobs, CreateJob(j) \/ GateOpens(j) PROVE NoNewWork
  BY <1>5, <1>a DEF CreateJob, GateOpens, NoNewWork, Active, JobTypes
<1>6. ASSUME NEW j \in Jobs, NEW bulk \in BOOLEAN, CancelJob(j, bulk) PROVE NoNewWork
  BY <1>6, <1>a DEF CancelJob, NoNewWork, Active, JobTypes
<1>7. ASSUME NEW j \in Jobs, RetryJob(j) PROVE NoNewWork
  BY <1>7, <1>a, WritesBringNoWork DEF RetryJob
<1>8. ASSUME NEW j \in Jobs, DeleteJob(j) \/ \E p \in Priorities : PatchJob(j, p)
      PROVE  NoNewWork
  BY <1>8, <1>a DEF DeleteJob, PatchJob, NoNewWork, Active, JobTypes
<1>9. ASSUME NEW n \in Nodes,
             \/ \E on \in BOOLEAN, size \in 1..MaxSlots : PatchNode(n, on, size)
             \/ DeleteNode(n)
      PROVE  NoNewWork
  BY <1>9, <1>b DEF PatchNode, DeleteNode
<1>10. CASE UNCHANGED vars
  BY <1>10, <1>b DEF vars, jobVars
<1> QED
  BY <1>1, <1>2, <1>3, <1>4, <1>5, <1>6, <1>7, <1>8, <1>9, <1>10 DEF Next, OperatorStep

(* What that means for the jobs a node has. *)
LEMMA NodeGains ==
  ASSUME TypeInv, [Next]_vars, NEW n \in Nodes
  PROVE  \/ ActiveOn(n)' \subseteq ActiveOn(n)
         \/ n \in enabled /\ Cardinality(ActiveOn(n)') <= slots[n]
<1>a. JobTypes /\ slots[n] \in Nat
  BY DEF TypeInv, TypeOK, NodeTypes
<1>1. CASE NoNewWork
  BY <1>1 DEF NoNewWork, ActiveOn
<1>2. ASSUME NEW j \in Jobs, NEW m \in Nodes, Bound(j, m)
      PROVE  \/ ActiveOn(n)' \subseteq ActiveOn(n)
             \/ n \in enabled /\ Cardinality(ActiveOn(n)') <= slots[n]
  <2>1. CASE n # m
    <3>1. ActiveOn(n)' \subseteq ActiveOn(n)
      BY <1>2, <1>a, <2>1 DEF Bound, ActiveOn, JobTypes
    <3> QED  BY <3>1
  <2>2. CASE n = m
    <3>1. ActiveOn(n)' = ActiveOn(n) \cup {j} /\ j \notin ActiveOn(n)
      BY <1>2, <1>a, <2>2 DEF Bound, CanBind, ActiveOn, JobTypes, Active
    <3>2. Cardinality(ActiveOn(n)') = Cardinality(ActiveOn(n)) + 1
      BY <3>1, ActiveFinite, FS_AddElement
    <3>3. n \in enabled /\ Cardinality(ActiveOn(n)) < slots[n]
      BY <1>2, <2>2 DEF Bound, CanBind
    <3> QED  BY <1>a, <3>2, <3>3, ActiveFinite
  <2> QED  BY <2>1, <2>2
<1> QED  BY <1>1, <1>2, StepWork

(* Whatever requests interleave, on however many replicas, and whatever is *)
(* lost or restarted, a node gains a job only within the cap its row has   *)
(* at that moment and only while it is enabled.                            *)
THEOREM NeverOvershoots == Spec => NoOvershoot
<1>1. TypeInv /\ [Next]_vars =>
        [\A n \in Nodes : ActiveOn(n)' \subseteq ActiveOn(n)
           \/ (n \in enabled /\ Cardinality(ActiveOn(n)') <= slots[n])]_vars
  BY NodeGains
<1> QED  BY <1>1, TypeCorrect, PTL DEF Spec, NoOvershoot

(* The caps are what they are while no operator changes them, or none has  *)
(* done anything yet. *)
CapsFixed == ops = 0 \/ "node" \notin OperatorActions

LEMMA CapsStay ==
  ASSUME TypeInv, [Next]_vars, CapsFixed'
  PROVE  CapsFixed /\ slots' = slots
<1> USE DEF CapsFixed
<1>1. ops \in Nat  BY LimitAssumption DEF TypeInv, TypeOK
<1>2. ASSUME NEW h \in Handlers, HandlerStep(h)
      PROVE  UNCHANGED <<ops, slots>>
  BY <1>2 DEF HandlerStep, HbReadReported, HbMarkRunning, HbReadActive,
     HbFailOrphan, HbReread, HbRetryOrphan, HbHold, HbOffer, HbPick, HbRefuse,
     HbBind, HbReply, nodeVars
<1>3. ASSUME NEW n \in Nodes, NEW j \in Jobs, ReportStep(n, j)
      PROVE  UNCHANGED <<ops, slots>>
  BY <1>3 DEF ReportStep, ReportCheck, ReportFinish, ReportRelease, ReportRetry,
     nodeVars
<1>4. CASE AgentStep
  BY <1>4 DEF AgentStep, SendHeartbeat, AgentFinish, AgentForget, nodeVars
<1>5. CASE FaultStep
  BY <1>5 DEF FaultStep, KillHeartbeat, KillReport, AgentGivesUp, AgentRestart,
     Strike, nodeVars
<1>6. ASSUME NEW j \in Jobs, CreateJob(j) \/ GateOpens(j)
      PROVE  UNCHANGED <<ops, slots>>
  BY <1>6 DEF CreateJob, GateOpens, nodeVars
<1>7. CASE OperatorStep
  <2>1. ops' = ops + 1 /\ (slots' = slots \/ "node" \in OperatorActions)
    BY <1>7 DEF OperatorStep, CancelJob, RetryJob, DeleteJob, PatchJob, PatchNode,
       DeleteNode, Request, nodeVars
  <2> QED  BY <1>1, <2>1
<1>8. CASE UNCHANGED vars  BY <1>8 DEF vars, nodeVars
<1> QED  BY <1>2, <1>3, <1>4, <1>5, <1>6, <1>7, <1>8 DEF Next

WithinCaps ==
  \A n \in Nodes :
    /\ Cardinality(ActiveOn(n)) <= MaxSlots
    /\ CapsFixed => Cardinality(ActiveOn(n)) <= slots[n]

LEMMA InitWithinCaps == Init => WithinCaps
<1> SUFFICES ASSUME Init, NEW n \in Nodes
             PROVE  /\ Cardinality(ActiveOn(n)) <= MaxSlots
                    /\ Cardinality(ActiveOn(n)) <= slots[n]
  BY DEF WithinCaps
<1>1. ActiveOn(n) = {}  BY DEF Init, ActiveOn, Active
<1>2. slots[n] \in 1..MaxSlots  BY DEF Init
<1> QED  BY <1>1, <1>2, FS_EmptySet, LimitAssumption

LEMMA NextWithinCaps ==
  ASSUME TypeInv, WithinCaps, [Next]_vars
  PROVE  WithinCaps'
<1> SUFFICES ASSUME NEW n \in Nodes
             PROVE  /\ Cardinality(ActiveOn(n)') <= MaxSlots
                    /\ CapsFixed' => Cardinality(ActiveOn(n)') <= slots'[n]
  BY DEF WithinCaps
<1>1. /\ Cardinality(ActiveOn(n)) <= MaxSlots /\ slots[n] \in 1..MaxSlots
      /\ MaxSlots \in Nat
  BY LimitAssumption DEF WithinCaps, TypeInv, TypeOK, NodeTypes
<1>2. ActiveOn(n)' \subseteq Jobs  BY DEF ActiveOn
<1>3. IsFiniteSet(ActiveOn(n)') /\ Cardinality(ActiveOn(n)') \in Nat
  BY <1>2, FS_Subset, FS_CardinalityType, JobsAssumption
<1>4. CapsFixed' => slots'[n] = slots[n] /\ Cardinality(ActiveOn(n)) <= slots[n]
  BY CapsStay DEF WithinCaps
<1>5. CASE ActiveOn(n)' \subseteq ActiveOn(n)
  <2>1. Cardinality(ActiveOn(n)') <= Cardinality(ActiveOn(n))
    BY <1>5, ActiveFinite, FS_Subset
  <2> QED  BY <1>1, <1>3, <1>4, <2>1, ActiveFinite
<1>6. CASE Cardinality(ActiveOn(n)') <= slots[n]
  BY <1>1, <1>3, <1>4, <1>6
<1> QED  BY <1>5, <1>6, NodeGains

(* ... and so it never has more active jobs than the clamp on the caps,    *)
(* nor than its own cap while that is what it was at the start.            *)
THEOREM CapacityAlways == Spec => []CapacityHolds
<1>1. TypeInv /\ WithinCaps /\ [Next]_vars => WithinCaps'
  BY NextWithinCaps
<1>2. WithinCaps => CapacityHolds
  BY DEF WithinCaps, CapacityHolds, CapsFixed
<1> QED  BY <1>1, <1>2, InitWithinCaps, TypeCorrect, PTL DEF Spec

-----------------------------------------------------------------------------
(* The node column.  Inductive together with the rows not yet inserted.    *)
Ownership == OwnerFollowsStatus /\ UnbornUnowned

(* The statements on the jobs table keep owner and status in agreement. *)
LEMMA WritesKeepOwnership ==
  ASSUME JobTypes, Ownership, NEW j \in Jobs
  PROVE  /\ UNCHANGED jobVars => Ownership'
         /\ Fail(j) => Ownership'
         /\ \A ok : Finish(j, ok) => Ownership'
         /\ \A count, g : Requeue(j, count, g) => Ownership'
         /\ \A seen : AutoRetry(j, seen) => Ownership'
<1> USE DEF Ownership, OwnerFollowsStatus, UnbornUnowned, JobTypes, Active
<1>1. UNCHANGED jobVars => Ownership'  BY DEF jobVars
<1>2. Fail(j) => Ownership'  BY DEF Fail
<1>3. ASSUME NEW ok, Finish(j, ok) PROVE Ownership'
  <2>1. status'[j] \in {"done", "failed"}  BY <1>3 DEF Finish
  <2> QED  BY <1>3, <2>1 DEF Finish
<1>4. \A count, g : Requeue(j, count, g) => Ownership'  BY DEF Requeue
<1>5. \A seen : AutoRetry(j, seen) => Ownership'  BY <1>1, <1>4 DEF AutoRetry
<1> QED  BY <1>1, <1>2, <1>3, <1>4, <1>5

(* Every statement of a heartbeat does. *)
LEMMA HandlerOwnership ==
  ASSUME TypeInv, Ownership, NEW h \in Handlers, HandlerStep(h)
  PROVE  Ownership'
<1>a. JobTypes /\ hb[h] \in HandlerRecord /\ Shape(hb[h])
  BY DEF TypeInv, TypeOK, HandlerTypes
<1>b. UNCHANGED jobVars => Ownership'
  BY DEF Ownership, OwnerFollowsStatus, UnbornUnowned, jobVars
<1>1. CASE HbMarkRunning(h)
  BY <1>1, <1>a
  DEF HbMarkRunning, Ownership, OwnerFollowsStatus, UnbornUnowned, Active, JobTypes
<1>2. CASE HbFailOrphan(h)
  <2>1. PICK j \in hb[h].orphans : Fail(j) \/ UNCHANGED jobVars
    BY <1>2 DEF HbFailOrphan
  <2>2. j \in Jobs  BY <1>a, <2>1 DEF HandlerRecord
  <2> QED  BY <1>a, <2>1, <2>2, WritesKeepOwnership
<1>3. CASE HbRetryOrphan(h)
  <2>1. hb[h].cur \in Jobs  BY <1>3, <1>a DEF HbRetryOrphan, Shape
  <2> QED  BY <1>3, <1>a, <2>1, WritesKeepOwnership DEF HbRetryOrphan
<1>4. CASE HbRefuse(h)
  <2>1. hb[h].cur \in Jobs  BY <1>4, <1>a DEF HbRefuse, Shape
  <2> QED  BY <1>4, <1>a, <1>b, <2>1, WritesKeepOwnership DEF HbRefuse
<1>5. CASE HbBind(h)
  <2>1. hb[h].cur \in Jobs /\ hb[h].node \in Nodes
    BY <1>5, <1>a DEF HbBind, Shape
  <2> QED
    BY <1>5, <1>a, <2>1
    DEF HbBind, Ownership, OwnerFollowsStatus, UnbornUnowned, Active, JobTypes
<1>6. CASE \/ HbReadReported(h) \/ HbReadActive(h) \/ HbReread(h) \/ HbHold(h)
           \/ HbOffer(h) \/ HbPick(h) \/ HbReply(h)
  BY <1>6, <1>b
  DEF HbReadReported, HbReadActive, HbReread, HbHold, HbOffer, HbPick, HbReply
<1> QED  BY <1>1, <1>2, <1>3, <1>4, <1>5, <1>6 DEF HandlerStep

(* Every step does. *)
LEMMA NextOwnership ==
  ASSUME TypeInv, Ownership, [Next]_vars
  PROVE  Ownership'
<1>a. JobTypes  BY DEF TypeInv, TypeOK
<1>b. UNCHANGED jobVars => Ownership'
  BY DEF Ownership, OwnerFollowsStatus, UnbornUnowned, jobVars
<1>1. ASSUME NEW h \in Handlers, HandlerStep(h) PROVE Ownership'
  BY <1>1, HandlerOwnership
<1>2. ASSUME NEW n \in Nodes, NEW j \in Jobs, ReportStep(n, j) PROVE Ownership'
  BY <1>2, <1>a, <1>b, WritesKeepOwnership
  DEF ReportStep, ReportCheck, ReportFinish, ReportRelease, ReportRetry
<1>3. CASE AgentStep
  BY <1>3, <1>b DEF AgentStep, SendHeartbeat, AgentFinish, AgentForget
<1>4. CASE FaultStep
  BY <1>4, <1>b
  DEF FaultStep, KillHeartbeat, AgentRestart, KillReport, AgentGivesUp, Strike
<1>5. ASSUME NEW j \in Jobs,
             \/ CreateJob(j) \/ GateOpens(j) \/ DeleteJob(j)
             \/ \E bulk \in BOOLEAN : CancelJob(j, bulk)
             \/ \E p \in Priorities : PatchJob(j, p)
      PROVE  Ownership'
  BY <1>5, <1>a
  DEF CreateJob, GateOpens, DeleteJob, CancelJob, PatchJob, Ownership,
      OwnerFollowsStatus, UnbornUnowned, Active, JobTypes
<1>6. ASSUME NEW j \in Jobs, RetryJob(j) PROVE Ownership'
  BY <1>6, <1>a, WritesKeepOwnership DEF RetryJob
<1>7. ASSUME NEW n \in Nodes,
             \/ \E on \in BOOLEAN, size \in 1..MaxSlots : PatchNode(n, on, size)
             \/ DeleteNode(n)
      PROVE  Ownership'
  BY <1>7, <1>b DEF PatchNode, DeleteNode
<1>8. CASE UNCHANGED vars
  BY <1>8, <1>b DEF vars, jobVars
<1> QED
  BY <1>1, <1>2, <1>3, <1>4, <1>5, <1>6, <1>7, <1>8 DEF Next, OperatorStep

(* Each active job belongs to a node and each queued job to none, even     *)
(* though most statements write the status without looking at the node.    *)
THEOREM OwnerAlwaysFollows == Spec => []OwnerFollowsStatus
<1>1. Init => Ownership
  BY DEF Init, Ownership, OwnerFollowsStatus, UnbornUnowned, Active
<1>2. TypeInv /\ Ownership /\ [Next]_vars => Ownership'
  BY NextOwnership
<1>3. Ownership => OwnerFollowsStatus  BY DEF Ownership
<1> QED  BY <1>1, <1>2, <1>3, TypeCorrect, PTL DEF Spec

-----------------------------------------------------------------------------
(***************************************************************************)
(* That Dispatch implements JobLifecycle, for every farm whose faults are  *)
(* broken connections and dying replicas, whose operators never queue a    *)
(* cancelled job again, and whose every job renders on all the nodes it is *)
(* for (or, where nobody cancels, on none of them).  A late report, an     *)
(* agent that restarts, a job that renders on one of its nodes only, or    *)
(* one that is cancelled and queued again while a node encodes it, breaks  *)
(* one of the properties below (README, section 6); so does a job that     *)
(* renders nowhere and is cancelled just before it is refused.             *)
(*                                                                         *)
(* The argument is about what a heartbeat handler may rely on although it  *)
(* is not atomic.  An agent has one request open at a time, so only that   *)
(* request can bring its node work.  Hence a job that is running for the   *)
(* node and was not in the agent's registry when the request was sent      *)
(* stays so until this same request fails it; no completion of it can be   *)
(* under way, since a job being reported is in the registry.               *)
(***************************************************************************)

(* No request to act so can follow one to cancel: there is none of the     *)
(* one, or of the other, or the operators have one request at most.        *)
NeverAfterCancel(action) ==
  {"cancel", action} \subseteq OperatorActions => MaxOps <= 1

(* A job renders on every node it may be offered to; or, where no operator *)
(* cancels, on every such node or on none.                                 *)
RendersAlike ==
  \/ Routable \subseteq Renders
  \/ /\ "cancel" \notin OperatorActions
     /\ \A j \in Jobs, n, m \in Nodes :
          {<<j, n>>, <<j, m>>} \subseteq Routable /\ <<j, n>> \in Renders =>
            <<j, m>> \in Renders

(* Those farms. *)
Quiet ==
  /\ Faults \subseteq {"kill"}
  /\ NeverAfterCancel("retry")
  /\ RendersAlike

-----------------------------------------------------------------------------
(* The invariant.                                                          *)

Held(n, j) == owner[j] = n /\ status[j] \in Active \cup {"cancelled"}

(* The request a handler serves is the one its agent waits for. *)
Serves(h) == hb[h].pc # "free" => awaiting[hb[h].node] = h

(* While it reads the jobs the agent reported, it misses none that is the  *)
(* agent's. *)
KnowsReported(h) ==
  hb[h].pc \in {"reports", "mark"} =>
    \A j \in ActiveOn(hb[h].node) :
      work[hb[h].node][j] # "none" => j \in hb[h].todo \cup hb[h].reported

(* The orphans it is about to fail are still running, still its node's,    *)
(* and still unknown to the agent.                                         *)
SweepsSoundly(h) ==
  /\ hb[h].orphans # {} => hb[h].pc \in {"orphans", "reread", "retry"}
  /\ \A j \in hb[h].orphans :
       /\ owner[j] = hb[h].node /\ status[j] = "running"
       /\ work[hb[h].node][j] = "none"

(* It gives its node only what renders there, and refuses only what does   *)
(* not.                                                                    *)
OffersRightly(h) ==
  /\ hb[h].pc = "bind" => <<hb[h].cur, hb[h].node>> \in Routable \cap Renders
  /\ hb[h].pc = "refuse" =>
       /\ <<hb[h].cur, hb[h].node>> \in Routable \ Renders
       /\ status[hb[h].cur] # "unborn"

HandlerCalm(h) ==
  Serves(h) /\ KnowsReported(h) /\ SweepsSoundly(h) /\ OffersRightly(h)

(* A completion is served while its agent waits for the answer, and is     *)
(* recorded for a job that is still that agent's.                          *)
ReportCalm(n, j) ==
  /\ report[n][j].pc # "none" => work[n][j] = "reporting"
  /\ report[n][j].pc = "checked" => status[j] = "deleted" \/ Held(n, j)

(* Only an operator cancels. *)
NoneCancelled ==
  ops = 0 \/ "cancel" \notin OperatorActions =>
    \A j \in Jobs : status[j] # "cancelled"

(* What may be refused no node ever gets. *)
Refusable(j) == \E n \in Nodes : <<j, n>> \in Routable \ Renders

RefusedIsIdle ==
  \A j \in Jobs : Refusable(j) => status[j] \in {"unborn", "pending", "failed", "deleted"}

Calm ==
  /\ TypeInv /\ Ownership /\ NoneCancelled /\ RefusedIsIdle
  /\ \A h \in Handlers : HandlerCalm(h)
  /\ \A n \in Nodes, j \in Jobs : ReportCalm(n, j)

-----------------------------------------------------------------------------
(* What a step does to the jobs table: one of these, to one job.           *)

MoveTo(j, next) ==
  /\ status' = [status EXCEPT ![j] = next]
  /\ UNCHANGED <<owner, gate, retryCount>>

Inserted(j) == status[j] = "unborn" /\ MoveTo(j, "pending")

BoundBy(h, j) ==
  /\ hb[h].pc = "bind" /\ j = hb[h].cur
  /\ hb'[h] # hb[h] /\ Bound(j, hb[h].node)
  /\ UNCHANGED <<gate, retryCount>>

Started(j) == status[j] = "assigned" /\ MoveTo(j, "running")

Swept(h, j) ==
  /\ j \in hb[h].orphans /\ hb[h].pc = "orphans"
  /\ hb'[h] # hb[h] /\ MoveTo(j, "failed")

Ended(n, j) ==
  /\ report[n][j].pc = "checked" /\ status[j] \in Active
  /\ report'[n][j] # report[n][j]
  /\ MoveTo(j, "done") \/ MoveTo(j, "failed")

Requeued(j, seen) ==
  /\ status[j] = "failed" /\ seen < MaxRetries
  /\ status' = [status EXCEPT ![j] = "pending"]
  /\ owner' = [owner EXCEPT ![j] = NoNode]
  /\ gate' = [gate EXCEPT ![j] = "closed"]
  /\ retryCount' = [retryCount EXCEPT ![j] = seen + 1]

RequeuedBy(h, j) ==
  /\ hb[h].pc = "retry" /\ j = hb[h].cur
  /\ hb'[h] # hb[h] /\ Requeued(j, hb[h].seen)

RequeuedFor(n, j) ==
  /\ report[n][j].pc = "retry"
  /\ report'[n][j] # report[n][j] /\ Requeued(j, report[n][j].seen)

Asked(action) ==
  action \in OperatorActions /\ ops < MaxOps /\ ops' = ops + 1

Dropped(j) ==
  /\ status[j] \in {"pending", "assigned"} /\ MoveTo(j, "cancelled")
  /\ Asked("cancel")

Removed(j) ==
  status[j] \in Terminal /\ MoveTo(j, "deleted") /\ Asked("delete")

(* Queued again by hand: a job that has ended, or waits for its retry. *)
Requested(j) ==
  /\ status[j] \in {"done", "failed"} \/ (status[j] = "pending" /\ gate[j] # "none")
  /\ status' = [status EXCEPT ![j] = "pending"]
  /\ owner' = [owner EXCEPT ![j] = NoNode]
  /\ gate' = [gate EXCEPT ![j] = "none"]
  /\ retryCount' = [retryCount EXCEPT ![j] = 0]
  /\ Asked("retry")

(* Refused by the controller, that cannot render it. *)
Refused(j) == status[j] = "pending" /\ MoveTo(j, "failed")

Stays ==
  /\ UNCHANGED <<status, owner, retryCount>>
  /\ gate' = gate \/ \E j \in Jobs : GateOpens(j)

Moves(j) ==
  \/ Inserted(j) \/ Started(j) \/ Dropped(j) \/ Removed(j)
  \/ Requested(j) \/ Refused(j)
  \/ \E h \in Handlers : BoundBy(h, j) \/ Swept(h, j) \/ RequeuedBy(h, j)
  \/ \E n \in Nodes : Ended(n, j) \/ RequeuedFor(n, j)

(* An automatic retry, taken or refused. *)
LEMMA AutoRetryMoves ==
  ASSUME JobTypes, NEW j \in Jobs, NEW seen, AutoRetry(j, seen)
  PROVE  Stays \/ Requeued(j, seen)
BY DEF AutoRetry, Requeue, Requeued, Stays, jobVars

(* What may be refused renders nowhere, and is not cancelled. *)
LEMMA RefusableNowhere ==
  ASSUME Quiet, NEW j \in Jobs, Refusable(j)
  PROVE  /\ "cancel" \notin OperatorActions
         /\ \A n \in Nodes : <<j, n>> \notin Routable \cap Renders
<1>1. PICK n \in Nodes : <<j, n>> \in Routable \ Renders
  BY DEF Refusable
<1>2. ~(Routable \subseteq Renders)
  BY <1>1
<1>3. /\ "cancel" \notin OperatorActions
      /\ \A m \in Nodes :
           <<j, m>> \in Routable /\ <<j, m>> \in Renders => <<j, n>> \in Renders
  BY <1>1, <1>2 DEF Quiet, RendersAlike
<1> QED  BY <1>1, <1>3

(* A job that is being refused waits, has failed or is gone. *)
LEMMA RefusingIdle ==
  ASSUME Calm, NEW h \in Handlers, hb[h].pc = "refuse"
  PROVE  /\ hb[h].cur \in Jobs /\ hb[h].node \in Nodes
         /\ status[hb[h].cur] \in {"pending", "failed", "deleted"}
<1>1. hb[h].cur \in Jobs /\ hb[h].node \in Nodes
  BY DEF Calm, TypeInv, HandlerTypes, Shape
<1>2. Refusable(hb[h].cur) /\ status[hb[h].cur] # "unborn"
  BY <1>1 DEF Calm, HandlerCalm, OffersRightly, Refusable
<1> QED  BY <1>1, <1>2 DEF Calm, RefusedIsIdle

(* A heartbeat's statements. *)
LEMMA HandlerMoves ==
  ASSUME Calm, NEW h \in Handlers, HandlerStep(h)
  PROVE  Stays \/ \E j \in Jobs : Moves(j)
<1>a. /\ JobTypes /\ hb \in [Handlers -> HandlerRecord]
      /\ hb[h] \in HandlerRecord /\ Shape(hb[h]) /\ HandlerCalm(h)
  BY DEF Calm, TypeInv, TypeOK, HandlerTypes
<1>b. UNCHANGED jobVars => Stays
  BY DEF Stays, jobVars
<1>1. CASE HbMarkRunning(h)
  <2> DEFINE j == hb[h].cur
  <2>1. j \in Jobs  BY <1>1, <1>a DEF HbMarkRunning, Shape
  <2>2. CASE status[j] = "assigned"
    BY <1>1, <2>1, <2>2 DEF HbMarkRunning, Active, Moves, Started, MoveTo
  <2>3. CASE status[j] # "assigned"
    <3>1. status' = status
      BY <1>1, <1>a, <2>1, <2>3 DEF HbMarkRunning, Active, JobTypes
    <3> QED  BY <1>1, <3>1 DEF HbMarkRunning, Stays
  <2> QED  BY <2>2, <2>3
<1>2. CASE HbFailOrphan(h)
  <2>1. PICK j \in hb[h].orphans :
          /\ hb[h].pc = "orphans"
          /\ IF status[j] # "deleted" THEN Fail(j) ELSE UNCHANGED jobVars
          /\ Continue(h, [hb[h] EXCEPT !.pc = "reread", !.cur = j,
                                       !.orphans = @ \ {j}])
    BY <1>2 DEF HbFailOrphan
  <2>2. j \in Jobs /\ status[j] = "running"
    BY <1>a, <2>1 DEF HandlerRecord, HandlerCalm, SweepsSoundly
  <2>3. hb'[h].pc = "reread"
    BY <1>a, <2>1 DEF Continue, HandlerRecord
  <2>4. Swept(h, j)
    BY <2>1, <2>2, <2>3 DEF Swept, Fail, MoveTo
  <2> QED  BY <2>2, <2>4 DEF Moves
<1>3. CASE HbRetryOrphan(h)
  <2>1. hb[h].cur \in Jobs  BY <1>3, <1>a DEF HbRetryOrphan, Shape
  <2>2. hb'[h].pc = "orphans"
    BY <1>3, <1>a DEF HbRetryOrphan, Continue, HandlerRecord
  <2>3. Stays \/ Requeued(hb[h].cur, hb[h].seen)
    BY <1>3, <1>a, <2>1, AutoRetryMoves DEF HbRetryOrphan
  <2> QED  BY <1>3, <2>1, <2>2, <2>3 DEF HbRetryOrphan, Moves, RequeuedBy
<1>4. CASE HbBind(h)
  <2>1. hb[h].cur \in Jobs  BY <1>4, <1>a DEF HbBind, Shape
  <2>2. CASE CanBind(hb[h].cur, hb[h].node)
    <3>1. Continue(h, [hb[h] EXCEPT !.pc = "pick", !.cur = NoJob, !.free = @ - 1,
                                    !.payload = @ \cup {hb[h].cur}])
      BY <1>4, <2>2 DEF HbBind
    <3>2. hb'[h].pc = "pick"
      BY <1>a, <3>1 DEF Continue, HandlerRecord
    <3>3. BoundBy(h, hb[h].cur)
      BY <1>4, <2>2, <3>2 DEF HbBind, BoundBy, Bound
    <3> QED  BY <2>1, <3>3 DEF Moves
  <2>3. CASE ~CanBind(hb[h].cur, hb[h].node)
    BY <1>4, <2>3 DEF HbBind, Stays
  <2> QED  BY <2>2, <2>3
<1>5. CASE HbRefuse(h)
  <2> DEFINE j == hb[h].cur
  <2>1. j \in Jobs /\ status[j] \in {"pending", "failed", "deleted"}
    BY <1>5, RefusingIdle DEF HbRefuse
  <2>2. CASE status[j] = "pending"
    <3>1. Refused(j)
      BY <1>5, <2>2 DEF HbRefuse, Fail, Refused, MoveTo
    <3> QED  BY <2>1, <3>1 DEF Moves
  <2>3. CASE status[j] = "failed"
    <3>1. status' = [status EXCEPT ![j] = "failed"] /\ UNCHANGED <<owner, retryCount, gate>>
      BY <1>5, <2>3 DEF HbRefuse, Fail
    <3>2. status' = status
      BY <1>a, <2>1, <2>3, <3>1 DEF JobTypes
    <3> QED  BY <3>1, <3>2 DEF Stays
  <2>4. CASE status[j] = "deleted"
    BY <1>5, <1>b, <2>4 DEF HbRefuse
  <2> QED  BY <2>1, <2>2, <2>3, <2>4
<1>6. CASE \/ HbReadReported(h) \/ HbReadActive(h) \/ HbReread(h) \/ HbHold(h)
           \/ HbOffer(h) \/ HbPick(h) \/ HbReply(h)
  BY <1>6, <1>b
  DEF HbReadReported, HbReadActive, HbReread, HbHold, HbOffer, HbPick, HbReply
<1> QED  BY <1>1, <1>2, <1>3, <1>4, <1>5, <1>6 DEF HandlerStep

(* A completion's statements. *)
LEMMA ReportMoves ==
  ASSUME Calm, NEW n \in Nodes, NEW j \in Jobs, ReportStep(n, j)
  PROVE  Stays \/ \E i \in Jobs : Moves(i)
<1>a. JobTypes /\ report \in [Nodes -> [Jobs -> ReportRecord]]
  BY DEF Calm, TypeInv, TypeOK
<1>b. UNCHANGED jobVars => Stays
  BY DEF Stays, jobVars
<1>1. CASE ReportFinish(n, j)
  <2>1. CASE status[j] \in Active
    <3>1. /\ report[n][j].pc = "checked"
          /\ Finish(j, report[n][j].ok)
          /\ Respond(n, j, [report[n][j] EXCEPT !.pc = "release"])
      BY <1>1, <2>1 DEF ReportFinish
    <3>2. report'[n][j].pc = "release"
      BY <1>a, <3>1 DEF Respond, ReportRecord
    <3>3. Ended(n, j)
      BY <2>1, <3>1, <3>2 DEF Ended, Finish, MoveTo
    <3> QED  BY <3>3 DEF Moves
  <2>2. CASE status[j] \notin Active
    BY <1>1, <1>b, <2>2 DEF ReportFinish
  <2> QED  BY <2>1, <2>2
<1>2. CASE ReportRetry(n, j)
  <2>1. report'[n][j].pc = "none"
    BY <1>2, <1>a DEF ReportRetry, Respond, NoReport
  <2>2. Stays \/ Requeued(j, report[n][j].seen)
    BY <1>2, <1>a, AutoRetryMoves DEF ReportRetry
  <2> QED  BY <1>2, <2>1, <2>2 DEF ReportRetry, Moves, RequeuedFor
<1>3. CASE ReportCheck(n, j) \/ ReportRelease(n, j)
  BY <1>3, <1>b DEF ReportCheck, ReportRelease
<1> QED  BY <1>1, <1>2, <1>3 DEF ReportStep

(* A cancelled job is not what an operator acts on when none may be. *)
LEMMA CancelledIsLeft ==
  ASSUME Calm, NEW action, NeverAfterCancel(action), Request(action),
         NEW j \in Jobs
  PROVE  status[j] # "cancelled"
<1>1. ops \in Nat /\ MaxOps \in Nat /\ ops < MaxOps /\ action \in OperatorActions
  BY LimitAssumption DEF Calm, TypeInv, TypeOK, Request
<1>2. CASE "cancel" \in OperatorActions
  <2>1. ops = 0  BY <1>1, <1>2 DEF NeverAfterCancel
  <2> QED  BY <2>1 DEF Calm, NoneCancelled
<1>3. CASE "cancel" \notin OperatorActions
  BY <1>3 DEF Calm, NoneCancelled
<1> QED  BY <1>2, <1>3

(* Every step changes one job at most, and in one of those ways. *)
LEMMA JobStep ==
  ASSUME Calm, Quiet, [Next]_vars
  PROVE  Stays \/ \E j \in Jobs : Moves(j)
<1>a. JobTypes /\ ops \in Nat
  BY LimitAssumption DEF Calm, TypeInv, TypeOK
<1>b. UNCHANGED jobVars => Stays
  BY DEF Stays, jobVars
<1>1. ASSUME NEW j \in Jobs, CreateJob(j) \/ GateOpens(j)
      PROVE  Stays \/ Moves(j)
  BY <1>1 DEF CreateJob, GateOpens, Moves, Inserted, MoveTo, Stays
<1>2. CASE AgentStep
  BY <1>2, <1>b DEF AgentStep, SendHeartbeat, AgentFinish, AgentForget
<1>3. CASE FaultStep
  BY <1>3, <1>b DEF FaultStep, KillHeartbeat, AgentRestart, KillReport,
     AgentGivesUp, Strike
<1>4. ASSUME NEW j \in Jobs,
             \/ \E bulk \in BOOLEAN : CancelJob(j, bulk)
             \/ DeleteJob(j)
      PROVE  Moves(j)
  BY <1>4, <1>a
  DEF CancelJob, DeleteJob, Request, Moves, Dropped, Removed, Asked, MoveTo
<1>5. ASSUME NEW j \in Jobs, \E p \in Priorities : PatchJob(j, p)
      PROVE  Stays
  BY <1>5 DEF PatchJob, Stays
<1>6. ASSUME NEW j \in Jobs, RetryJob(j) PROVE Moves(j)
  <2>1. Request("retry") /\ Requeue(j, 0, "none")
        /\ (status[j] \in Terminal \/ (status[j] = "pending" /\ gate[j] # "none"))
    BY <1>6 DEF RetryJob
  <2>2. status[j] # "cancelled"
    BY <2>1, CancelledIsLeft DEF Quiet
  <2>3. Requested(j)
    BY <2>1, <2>2 DEF Requested, Requeue, Request, Asked, Terminal
  <2> QED  BY <2>3 DEF Moves
<1>7. ASSUME NEW n \in Nodes,
             \/ \E on \in BOOLEAN, size \in 1..MaxSlots : PatchNode(n, on, size)
             \/ DeleteNode(n)
      PROVE  Stays
  BY <1>7, <1>b DEF PatchNode, DeleteNode
<1>8. CASE UNCHANGED vars  BY <1>8, <1>b DEF vars
<1> QED
  BY <1>1, <1>2, <1>3, <1>4, <1>5, <1>6, <1>7, <1>8, HandlerMoves, ReportMoves
  DEF Next, OperatorStep

(* The other jobs stay what they are. *)
LEMMA OthersStay ==
  ASSUME Calm, NEW i \in Jobs, NEW j \in Jobs, Moves(i), i # j
  PROVE  /\ status'[j] = status[j] /\ owner'[j] = owner[j]
         /\ gate'[j] = gate[j] /\ retryCount'[j] = retryCount[j]
<1>a. JobTypes  BY DEF Calm, TypeInv, TypeOK
<1>1. CASE Inserted(i) \/ Started(i) \/ Dropped(i) \/ Removed(i)
           \/ Requested(i) \/ Refused(i)
           \/ (\E h \in Handlers : Swept(h, i)) \/ (\E n \in Nodes : Ended(n, i))
  BY <1>1, <1>a
  DEF JobTypes, MoveTo, Inserted, Started, Dropped, Removed, Requested, Refused,
      Swept, Ended
<1>2. CASE \E h \in Handlers : BoundBy(h, i)
  BY <1>2, <1>a DEF JobTypes, BoundBy, Bound
<1>3. CASE \E seen : Requeued(i, seen)
  BY <1>3, <1>a DEF JobTypes, Requeued
<1> QED  BY <1>1, <1>2, <1>3 DEF Moves, RequeuedBy, RequeuedFor

-----------------------------------------------------------------------------
(* What a step does to the agents, the handlers and the reports.           *)

Accepts(h, n, j) ==
  /\ HbReply(h) /\ hb[h].node = n /\ j \in hb[h].payload
  /\ work[n][j] = "none" /\ work'[n][j] = "encoding"

WorkMoves(n, j) ==
  \/ work'[n][j] = work[n][j]
  \/ work[n][j] = "encoding" /\ work'[n][j] = "reporting"
  \/ /\ work[n][j] = "reporting" /\ report[n][j].pc = "none"
     /\ work'[n][j] = "none" /\ report' = report
  \/ \E h \in Handlers : Accepts(h, n, j)

ReportProceeds(n, j) ==
  \/ report'[n][j] = report[n][j]
  \/ /\ work[n][j] = "encoding" /\ work'[n][j] = "reporting"
     /\ report'[n][j].pc = "sent" /\ UNCHANGED <<status, owner>>
  \/ report'[n][j] = NoReport
  \/ ReportStep(n, j)

HandlerTurns(h) ==
  \/ hb'[h] = hb[h]
  \/ HandlerStep(h)
  \/ hb'[h] = IdleHandler
  \/ \E n \in Nodes : SendHeartbeat(n, h)

(* The registries.  Only an answered heartbeat brings a node work. *)
LEMMA WorkStep ==
  ASSUME Calm, Quiet, [Next]_vars, NEW n \in Nodes, NEW j \in Jobs
  PROVE  WorkMoves(n, j)
<1>a. /\ work \in [Nodes -> [Jobs -> {"none", "encoding", "reporting"}]]
      /\ \A h \in Handlers : hb[h].pc # "free" => hb[h].node \in Nodes
  BY DEF Calm, TypeInv, TypeOK, AgentTypes, HandlerTypes, Shape
<1>b. work' = work => WorkMoves(n, j)
  BY DEF WorkMoves
<1>1. ASSUME NEW h \in Handlers, HbReply(h) PROVE WorkMoves(n, j)
  <2> DEFINE m == hb[h].node
  <2>1. CASE awaiting[m] = h
    <3>1. PICK taken \in SUBSET (hb[h].payload \ Registry(m)) :
            work' = [work EXCEPT ![m] =
                      [i \in Jobs |-> IF i \in taken THEN "encoding" ELSE work[m][i]]]
      BY <1>1, <2>1 DEF HbReply, Accept
    <3>2. m \in Nodes  BY <1>1, <1>a DEF HbReply
    <3>3. CASE m = n /\ j \in taken
      <4>1. work'[n][j] = "encoding"  BY <1>a, <3>1, <3>2, <3>3
      <4>2. j \in hb[h].payload /\ work[n][j] = "none"
        BY <3>1, <3>3 DEF Registry
      <4> QED  BY <1>1, <3>3, <4>1, <4>2 DEF WorkMoves, Accepts
    <3>4. CASE ~(m = n /\ j \in taken)
      <4>1. work'[n][j] = work[n][j]  BY <1>a, <3>1, <3>2, <3>4
      <4> QED  BY <4>1 DEF WorkMoves
    <3> QED  BY <3>3, <3>4
  <2>2. CASE awaiting[m] # h
    BY <1>1, <1>b, <2>2 DEF HbReply, agentVars
  <2> QED  BY <2>1, <2>2
<1>2. ASSUME NEW h \in Handlers, HandlerStep(h), ~HbReply(h)
      PROVE  work' = work
  BY <1>2 DEF HandlerStep, HbReadReported, HbMarkRunning, HbReadActive,
     HbFailOrphan, HbReread, HbRetryOrphan, HbHold, HbOffer, HbPick, HbRefuse,
     HbBind, agentVars
<1>3. ASSUME NEW m \in Nodes, NEW i \in Jobs, ReportStep(m, i)
      PROVE  work' = work
  BY <1>3 DEF ReportStep, ReportCheck, ReportFinish, ReportRelease, ReportRetry,
     agentVars
<1>4. ASSUME NEW m \in Nodes, NEW i \in Jobs, NEW ok \in BOOLEAN,
             AgentFinish(m, i, ok)
      PROVE  WorkMoves(n, j)
  BY <1>4, <1>a DEF AgentFinish, WorkMoves
<1>5. ASSUME NEW m \in Nodes, NEW i \in Jobs, AgentForget(m, i)
      PROVE  WorkMoves(n, j)
  BY <1>5, <1>a DEF AgentForget, WorkMoves
<1>6. ASSUME NEW m \in Nodes, NEW h \in Handlers, SendHeartbeat(m, h)
      PROVE  work' = work
  BY <1>6 DEF SendHeartbeat
<1>7. CASE FaultStep
  BY <1>7, <1>b DEF FaultStep, KillHeartbeat, AgentRestart, KillReport,
     AgentGivesUp, Strike, Quiet, agentVars
<1>8. CASE OperatorStep
  BY <1>8, <1>b DEF OperatorStep, CancelJob, RetryJob, DeleteJob, PatchJob,
     PatchNode, DeleteNode, Request, agentVars
<1>9. ASSUME NEW i \in Jobs, CreateJob(i) \/ GateOpens(i) PROVE work' = work
  BY <1>9 DEF CreateJob, GateOpens, agentVars
<1>10. CASE UNCHANGED vars  BY <1>10, <1>b DEF vars, agentVars
<1> QED
  BY <1>1, <1>2, <1>3, <1>4, <1>5, <1>6, <1>7, <1>8, <1>9, <1>10, <1>b
  DEF Next, AgentStep

(* The completion requests. *)
LEMMA ReportsStep ==
  ASSUME Calm, Quiet, [Next]_vars, NEW n \in Nodes, NEW j \in Jobs
  PROVE  ReportProceeds(n, j)
<1>a. /\ report \in [Nodes -> [Jobs -> ReportRecord]]
      /\ work \in [Nodes -> [Jobs -> {"none", "encoding", "reporting"}]]
  BY DEF Calm, TypeInv, TypeOK, AgentTypes
<1>b. report' = report => ReportProceeds(n, j)
  BY DEF ReportProceeds
<1>1. ASSUME NEW m \in Nodes, NEW i \in Jobs, NEW r, Respond(m, i, r),
             ~(m = n /\ i = j)
      PROVE  ReportProceeds(n, j)
  BY <1>1, <1>a DEF Respond, ReportProceeds
<1>2. ASSUME NEW m \in Nodes, NEW i \in Jobs, ReportStep(m, i)
      PROVE  ReportProceeds(n, j)
  <2>1. CASE m = n /\ i = j  BY <1>2, <2>1 DEF ReportProceeds
  <2>2. CASE ~(m = n /\ i = j)
    <3>1. \E r : Respond(m, i, r)
      BY <1>2 DEF ReportStep, ReportCheck, ReportFinish, ReportRelease, ReportRetry
    <3> QED  BY <1>1, <2>2, <3>1
  <2> QED  BY <2>1, <2>2
<1>3. ASSUME NEW m \in Nodes, NEW i \in Jobs, NEW ok \in BOOLEAN,
             AgentFinish(m, i, ok)
      PROVE  ReportProceeds(n, j)
  BY <1>3, <1>a DEF AgentFinish, Respond, ReportProceeds, jobVars
<1>4. ASSUME NEW m \in Nodes, NEW i \in Jobs, KillReport(m, i)
      PROVE  ReportProceeds(n, j)
  BY <1>4, <1>a DEF KillReport, Respond, ReportProceeds
<1>5. ASSUME NEW h \in Handlers, HandlerStep(h) PROVE report' = report
  BY <1>5 DEF HandlerStep, HbReadReported, HbMarkRunning, HbReadActive,
     HbFailOrphan, HbReread, HbRetryOrphan, HbHold, HbOffer, HbPick, HbRefuse,
     HbBind, HbReply
<1>6. ASSUME NEW m \in Nodes, NEW i \in Jobs, AgentForget(m, i)
      PROVE  report' = report
  BY <1>6 DEF AgentForget
<1>7. ASSUME NEW m \in Nodes, NEW h \in Handlers, SendHeartbeat(m, h)
      PROVE  report' = report
  BY <1>7 DEF SendHeartbeat
<1>8. CASE FaultStep
  BY <1>4, <1>8, <1>b DEF FaultStep, KillHeartbeat, AgentRestart, AgentGivesUp,
     Strike, Quiet
<1>9. CASE OperatorStep
  BY <1>9, <1>b DEF OperatorStep, CancelJob, RetryJob, DeleteJob, PatchJob,
     PatchNode, DeleteNode, Request
<1>10. ASSUME NEW i \in Jobs, CreateJob(i) \/ GateOpens(i)
       PROVE  report' = report
  BY <1>10 DEF CreateJob, GateOpens
<1>11. CASE UNCHANGED vars  BY <1>11, <1>b DEF vars
<1> QED
  BY <1>1, <1>2, <1>3, <1>5, <1>6, <1>7, <1>8, <1>9, <1>10, <1>11, <1>b
  DEF Next, AgentStep

-----------------------------------------------------------------------------
(* A handler's part of the invariant.                                      *)

(* What can become of one handler in a step. *)
LEMMA HandlerTurn ==
  ASSUME Calm, Quiet, [Next]_vars, NEW h \in Handlers
  PROVE  HandlerTurns(h)
<1>a. hb \in [Handlers -> HandlerRecord]
  BY DEF Calm, TypeInv, TypeOK
<1>b. hb' = hb => HandlerTurns(h)
  BY DEF HandlerTurns
<1>1. ASSUME NEW g \in Handlers, NEW r, Continue(g, r), g # h
      PROVE  HandlerTurns(h)
  BY <1>1, <1>a DEF Continue, HandlerTurns
<1>2. ASSUME NEW g \in Handlers, HandlerStep(g)
      PROVE  HandlerTurns(h)
  <2>1. CASE g = h  BY <1>2, <2>1 DEF HandlerTurns
  <2>2. CASE g # h
    <3>1. \E r : Continue(g, r)
      BY <1>2 DEF HandlerStep, HbReadReported, HbMarkRunning, HbReadActive,
         HbFailOrphan, HbReread, HbRetryOrphan, HbHold, HbOffer, HbPick,
         HbRefuse, HbBind, HbReply
    <3> QED  BY <1>1, <2>2, <3>1
  <2> QED  BY <2>1, <2>2
<1>3. ASSUME NEW n \in Nodes, NEW g \in Handlers, SendHeartbeat(n, g)
      PROVE  HandlerTurns(h)
  <2>1. CASE g = h  BY <1>3, <2>1 DEF HandlerTurns
  <2>2. CASE g # h  BY <1>1, <1>3, <2>2 DEF SendHeartbeat
  <2> QED  BY <2>1, <2>2
<1>4. ASSUME NEW g \in Handlers, KillHeartbeat(g)
      PROVE  HandlerTurns(h)
  <2>1. CASE g = h
    BY <1>4, <1>a, <2>1 DEF KillHeartbeat, Continue, HandlerTurns
  <2>2. CASE g # h  BY <1>1, <1>4, <2>2 DEF KillHeartbeat
  <2> QED  BY <2>1, <2>2
<1>5. CASE FaultStep
  BY <1>4, <1>5, <1>b DEF FaultStep, AgentRestart, KillReport, AgentGivesUp,
     Strike, Quiet
<1>6. ASSUME NEW n \in Nodes, NEW j \in Jobs, ReportStep(n, j)
      PROVE  hb' = hb
  BY <1>6 DEF ReportStep, ReportCheck, ReportFinish, ReportRelease, ReportRetry
<1>7. ASSUME NEW n \in Nodes, NEW j \in Jobs,
             AgentForget(n, j) \/ \E ok \in BOOLEAN : AgentFinish(n, j, ok)
      PROVE  hb' = hb
  BY <1>7 DEF AgentFinish, AgentForget
<1>8. CASE OperatorStep
  BY <1>8, <1>b DEF OperatorStep, CancelJob, RetryJob, DeleteJob, PatchJob,
     PatchNode, DeleteNode, Request
<1>9. ASSUME NEW j \in Jobs, CreateJob(j) \/ GateOpens(j) PROVE hb' = hb
  BY <1>9 DEF CreateJob, GateOpens
<1>10. CASE UNCHANGED vars  BY <1>10, <1>b DEF vars
<1> QED
  BY <1>2, <1>3, <1>5, <1>6, <1>7, <1>8, <1>9, <1>10, <1>b DEF Next, AgentStep

(* No node is served by two handlers. *)
LEMMA OneServer ==
  ASSUME Calm, NEW h \in Handlers, NEW g \in Handlers,
         hb[h].pc # "free", hb[g].pc # "free", hb[h].node = hb[g].node
  PROVE  h = g
BY DEF Calm, HandlerCalm, Serves

(* What an agent waits for, it waits for until it is answered. *)
LEMMA StillServed ==
  ASSUME Calm, Quiet, [Next]_vars, NEW h \in Handlers,
         hb[h].pc # "free", hb'[h] = hb[h]
  PROVE  awaiting'[hb[h].node] = h
<1> DEFINE n == hb[h].node
<1>a. /\ hb \in [Handlers -> HandlerRecord]
      /\ awaiting \in [Nodes -> Handlers \cup {NoHandler}]
      /\ n \in Nodes /\ awaiting[n] = h
  BY DEF Calm, TypeInv, TypeOK, AgentTypes, HandlerTypes, Shape, HandlerCalm, Serves
<1>b. awaiting' = awaiting => awaiting'[n] = h
  BY <1>a
<1>c. IdleHandler.pc = "free"  BY DEF IdleHandler
<1>1. ASSUME NEW g \in Handlers, HbReply(g) PROVE awaiting'[n] = h
  <2>1. hb'[g] = IdleHandler /\ g # h
    BY <1>1, <1>a, <1>c DEF HbReply, Continue
  <2>2. hb[g].node # n
    BY <1>1, <2>1, OneServer DEF HbReply
  <2> QED  BY <1>1, <1>a, <2>2 DEF HbReply, agentVars
<1>2. ASSUME NEW g \in Handlers, HandlerStep(g), ~HbReply(g)
      PROVE  awaiting' = awaiting
  BY <1>2 DEF HandlerStep, HbReadReported, HbMarkRunning, HbReadActive,
     HbFailOrphan, HbReread, HbRetryOrphan, HbHold, HbOffer, HbPick, HbRefuse,
     HbBind, agentVars
<1>3. ASSUME NEW m \in Nodes, NEW g \in Handlers, SendHeartbeat(m, g)
      PROVE  awaiting'[n] = h
  <2>1. m # n  BY <1>3, <1>a, NullAssumption DEF SendHeartbeat
  <2> QED  BY <1>3, <1>a, <2>1 DEF SendHeartbeat
<1>4. ASSUME NEW g \in Handlers, KillHeartbeat(g) PROVE awaiting'[n] = h
  <2>1. g # h
    BY <1>4, <1>a, <1>c DEF KillHeartbeat, Continue
  <2>2. hb[g].node # n
    BY <1>4, <2>1, OneServer DEF KillHeartbeat
  <2> QED  BY <1>4, <1>a, <2>2 DEF KillHeartbeat
<1>5. CASE FaultStep
  BY <1>4, <1>5, <1>b DEF FaultStep, AgentRestart, KillReport, AgentGivesUp,
     Strike, Quiet, agentVars
<1>6. ASSUME NEW m \in Nodes, NEW j \in Jobs, ReportStep(m, j)
      PROVE  awaiting' = awaiting
  BY <1>6 DEF ReportStep, ReportCheck, ReportFinish, ReportRelease, ReportRetry,
     agentVars
<1>7. ASSUME NEW m \in Nodes, NEW j \in Jobs,
             AgentForget(m, j) \/ \E ok \in BOOLEAN : AgentFinish(m, j, ok)
      PROVE  awaiting' = awaiting
  BY <1>7 DEF AgentFinish, AgentForget
<1>8. CASE OperatorStep
  BY <1>8, <1>b DEF OperatorStep, CancelJob, RetryJob, DeleteJob, PatchJob,
     PatchNode, DeleteNode, Request, agentVars
<1>9. ASSUME NEW j \in Jobs, CreateJob(j) \/ GateOpens(j)
      PROVE  awaiting' = awaiting
  BY <1>9 DEF CreateJob, GateOpens, agentVars
<1>10. CASE UNCHANGED vars  BY <1>10, <1>b DEF vars, agentVars
<1> QED
  BY <1>1, <1>2, <1>3, <1>5, <1>6, <1>7, <1>8, <1>9, <1>10, <1>b
  DEF Next, AgentStep

(* While a handler waits for its turn, the others bring its node no work,  *)
(* and leave its orphans alone.                                            *)
LEMMA Undisturbed ==
  ASSUME Calm, Quiet, [Next]_vars, NEW h \in Handlers,
         hb[h].pc # "free", hb'[h] = hb[h]
  PROVE  /\ \A j \in Jobs : work[hb[h].node][j] = "none" =>
                              work'[hb[h].node][j] = "none"
         /\ ActiveOn(hb[h].node)' \subseteq ActiveOn(hb[h].node)
         /\ \A j \in hb[h].orphans : owner'[j] = owner[j] /\ status'[j] = status[j]
<1> DEFINE n == hb[h].node
<1>a. /\ hb \in [Handlers -> HandlerRecord] /\ n \in Nodes
      /\ \A g \in Handlers : hb[g].pc # "free" => hb[g].node \in Nodes
      /\ \A g \in Handlers : hb[g].orphans \subseteq Jobs
      /\ status \in [Jobs -> Statuses] /\ owner \in [Jobs -> Nodes \cup {NoNode}]
  BY DEF Calm, TypeInv, TypeOK, JobTypes, HandlerTypes, HandlerRecord, Shape
<1>1. ASSUME NEW j \in Jobs, work[n][j] = "none"
      PROVE  work'[n][j] = "none"
  <2>1. ASSUME NEW g \in Handlers, Accepts(g, n, j) PROVE FALSE
    <3>1. g = h  BY <2>1, OneServer DEF Accepts, HbReply
    <3>2. hb'[h] = IdleHandler
      BY <1>a, <2>1, <3>1 DEF Accepts, HbReply, Continue
    <3> QED  BY <3>2 DEF IdleHandler
  <2> QED  BY <1>a, <1>1, <2>1, WorkStep DEF WorkMoves
<1>2. ActiveOn(n)' \subseteq ActiveOn(n)
  <2>1. ASSUME NEW j \in Jobs, NEW g \in Handlers, BoundBy(g, j)
        PROVE  owner' = [owner EXCEPT ![j] = hb[g].node] /\ hb[g].node # n
    BY <2>1, OneServer DEF BoundBy, Bound
  <2>2. ASSUME NEW j \in Jobs, NEW g \in Handlers, BoundBy(g, j)
        PROVE  ActiveOn(n)' \subseteq ActiveOn(n)
    BY <1>a, <2>1, <2>2 DEF ActiveOn, BoundBy, Bound
  <2>3. ASSUME NEW j \in Jobs, Moves(j), \A g \in Handlers : ~BoundBy(g, j)
        PROVE  ActiveOn(n)' \subseteq ActiveOn(n)
    BY <1>a, <2>3
    DEF ActiveOn, Active, Moves, MoveTo, Inserted, Started, Dropped, Requeued,
        RequeuedBy, RequeuedFor, Removed, Requested, Refused, Swept, Ended
  <2>4. Stays => ActiveOn(n)' \subseteq ActiveOn(n)
    BY DEF Stays, ActiveOn
  <2> QED  BY <2>2, <2>3, <2>4, JobStep
<1>3. ASSUME NEW j \in hb[h].orphans
      PROVE  owner'[j] = owner[j] /\ status'[j] = status[j]
  <2>1. /\ j \in Jobs /\ owner[j] = n /\ status[j] = "running"
        /\ work[n][j] = "none"
    BY <1>a DEF Calm, HandlerCalm, SweepsSoundly
  <2>2. ASSUME NEW g \in Handlers, Swept(g, j) PROVE FALSE
    <3>1. owner[j] = hb[g].node /\ hb[g].pc # "free"
      BY <2>2 DEF Swept, Calm, HandlerCalm, SweepsSoundly
    <3>2. g = h  BY <2>1, <3>1, OneServer
    <3> QED  BY <2>2, <3>2 DEF Swept
  <2>3. ASSUME NEW m \in Nodes, Ended(m, j) PROVE FALSE
    <3>1. owner[j] = m /\ work[m][j] = "reporting"
      BY <2>1, <2>3 DEF Ended, Calm, ReportCalm, Held
    <3> QED  BY <2>1, <3>1
  <2>4. ASSUME NEW g \in Handlers, BoundBy(g, j) PROVE FALSE
    BY <2>1, <2>4 DEF BoundBy, Bound, CanBind
  <2>5. ~Moves(j)
    BY <2>1, <2>2, <2>3, <2>4
    DEF Moves, Inserted, Started, Dropped, Requeued, RequeuedBy, RequeuedFor,
        Removed, Requested, Refused, Terminal
  <2>6. ASSUME NEW i \in Jobs, Moves(i), i # j
        PROVE  owner'[j] = owner[j] /\ status'[j] = status[j]
    BY <2>1, <2>6, OthersStay
  <2> QED  BY <2>5, <2>6, JobStep DEF Stays
<1> QED  BY <1>1, <1>2, <1>3

(* No job is forgotten: what was inserted stays known to the table. *)
LEMMA InsertedOnce ==
  ASSUME Calm, Quiet, [Next]_vars, NEW j \in Jobs, status[j] # "unborn"
  PROVE  status'[j] # "unborn"
<1>1. JobTypes  BY DEF Calm, TypeInv, TypeOK
<1>2. CASE Moves(j)
  BY <1>1, <1>2
  DEF JobTypes, Moves, MoveTo, Inserted, Started, Dropped, Requeued, RequeuedBy,
      RequeuedFor, Removed, Requested, Refused, BoundBy, Bound, Swept, Ended
<1>3. ASSUME NEW i \in Jobs, Moves(i), i # j PROVE status'[j] = status[j]
  BY <1>3, OthersStay
<1> QED  BY <1>2, <1>3, JobStep DEF Stays

(* So what a handler relies on still holds when its turn comes ... *)
LEMMA BystanderCalm ==
  ASSUME Calm, Quiet, [Next]_vars, NEW h \in Handlers, hb'[h] = hb[h]
  PROVE  HandlerCalm(h)'
<1>a. HandlerCalm(h)  BY DEF Calm
<1>1. CASE hb[h].pc = "free"
  BY <1>1, <1>a
  DEF HandlerCalm, Serves, KnowsReported, SweepsSoundly, OffersRightly
<1>2. CASE hb[h].pc # "free"
  <2>1. Serves(h)'  BY <1>2, StillServed DEF Serves
  <2>2. KnowsReported(h)'
    <3>1. hb[h].node \in Nodes /\ ActiveOn(hb[h].node) \subseteq Jobs
      BY <1>2 DEF Calm, TypeInv, HandlerTypes, Shape, ActiveOn
    <3> QED
      BY <1>2, <1>a, <3>1, Undisturbed DEF HandlerCalm, KnowsReported
  <2>3. SweepsSoundly(h)'
    <3>1. hb[h].orphans \subseteq Jobs
      BY DEF Calm, TypeInv, HandlerTypes, HandlerRecord
    <3> QED
      BY <1>2, <1>a, <3>1, Undisturbed DEF HandlerCalm, SweepsSoundly
  <2>4. OffersRightly(h)'
    <3>1. hb[h].pc = "refuse" => status'[hb[h].cur] # "unborn"
      BY RefusingIdle, InsertedOnce
    <3> QED  BY <1>a, <3>1 DEF HandlerCalm, OffersRightly
  <2> QED  BY <2>1, <2>2, <2>3, <2>4 DEF HandlerCalm
<1> QED  BY <1>1, <1>2

(* ... a handler that serves nobody relies on nothing ... *)
LEMMA IdleCalm ==
  ASSUME NEW h \in Handlers, hb'[h] = IdleHandler
  PROVE  HandlerCalm(h)'
BY DEF IdleHandler, HandlerCalm, Serves, KnowsReported, SweepsSoundly, OffersRightly

(* ... a request that starts knows the agent's whole registry ... *)
LEMMA SentCalm ==
  ASSUME Calm, NEW n \in Nodes, NEW h \in Handlers, SendHeartbeat(n, h)
  PROVE  HandlerCalm(h)'
<1>a. /\ hb \in [Handlers -> HandlerRecord]
      /\ awaiting \in [Nodes -> Handlers \cup {NoHandler}]
  BY DEF Calm, TypeInv, TypeOK, AgentTypes
<1>1. /\ hb'[h].pc = "reports" /\ hb'[h].node = n
      /\ hb'[h].todo = Registry(n) /\ hb'[h].orphans = {}
  BY <1>a DEF SendHeartbeat, Continue, IdleHandler
<1>2. /\ awaiting'[n] = h /\ work' = work
      /\ status' = status /\ owner' = owner
  BY <1>a DEF SendHeartbeat, jobVars
<1>3. Serves(h)'  BY <1>1, <1>2 DEF Serves
<1>4. KnowsReported(h)'
  BY <1>1, <1>2 DEF KnowsReported, ActiveOn, Registry
<1> QED
  BY <1>1, <1>3, <1>4 DEF HandlerCalm, SweepsSoundly, OffersRightly

(* ... and each statement establishes what the next one relies on. *)
LEMMA TurnCalm ==
  ASSUME Calm, Quiet, NEW h \in Handlers, HandlerStep(h)
  PROVE  HandlerCalm(h)'
<1> DEFINE n == hb[h].node
<1>a. /\ hb \in [Handlers -> HandlerRecord] /\ hb[h] \in HandlerRecord
      /\ Shape(hb[h]) /\ HandlerCalm(h)
      /\ status \in [Jobs -> Statuses] /\ owner \in [Jobs -> Nodes \cup {NoNode}]
  BY DEF Calm, TypeInv, TypeOK, HandlerTypes, JobTypes
<1>b. hb[h].pc # "free" => awaiting[n] = h
  BY <1>a DEF HandlerCalm, Serves
<1>c. \A r : Continue(h, r) => hb'[h] = r
  BY <1>a DEF Continue
<1>d. hb[h].orphans # {} => hb[h].pc \in {"orphans", "reread", "retry"}
  BY <1>a DEF HandlerCalm, SweepsSoundly
<1>e. ASSUME hb[h].pc # "free", awaiting' = awaiting, hb'[h].node = n,
             hb'[h].pc \notin {"reports", "mark", "bind", "refuse"},
             hb'[h].orphans = {}
      PROVE  HandlerCalm(h)'
  BY <1>b, <1>e
  DEF HandlerCalm, Serves, KnowsReported, SweepsSoundly, OffersRightly
<1> USE DEF HandlerRecord
<1>1. CASE HbReadReported(h)
  <2>1. /\ hb[h].pc = "reports" /\ hb[h].orphans = {}
        /\ awaiting' = awaiting /\ work' = work
        /\ status' = status /\ owner' = owner
    BY <1>1, <1>d DEF HbReadReported, agentVars, jobVars
  <2>2. PICK j \in hb[h].todo :
          IF owner[j] = n /\ status[j] \in {"pending"} \cup Active
            THEN Continue(h, [hb[h] EXCEPT !.pc = "mark", !.cur = j,
                                           !.todo = @ \ {j},
                                           !.reported = @ \cup {j}])
            ELSE Continue(h, [hb[h] EXCEPT !.todo = @ \ {j}])
    BY <1>1 DEF HbReadReported
  <2>3. /\ hb'[h].node = n /\ hb'[h].orphans = {}
        /\ hb'[h].pc \in {"reports", "mark"}
        /\ \A i \in hb[h].todo \cup hb[h].reported :
             \/ i \in hb'[h].todo \cup hb'[h].reported
             \/ i = j /\ ~(owner[j] = n /\ status[j] \in Active)
    <3>1. CASE owner[j] = n /\ status[j] \in {"pending"} \cup Active
      <4>1. hb'[h] = [hb[h] EXCEPT !.pc = "mark", !.cur = j, !.todo = @ \ {j},
                                   !.reported = @ \cup {j}]
        BY <1>c, <2>2, <3>1
      <4> QED  BY <1>a, <2>1, <4>1
    <3>2. CASE ~(owner[j] = n /\ status[j] \in {"pending"} \cup Active)
      <4>1. hb'[h] = [hb[h] EXCEPT !.todo = @ \ {j}]
        BY <1>c, <2>2, <3>2
      <4> QED  BY <1>a, <2>1, <3>2, <4>1
    <3> QED  BY <3>1, <3>2
  <2>4. KnowsReported(h)'
    BY <1>a, <2>1, <2>3 DEF HandlerCalm, KnowsReported, ActiveOn
  <2> QED
    BY <1>b, <2>1, <2>3, <2>4
    DEF HandlerCalm, Serves, SweepsSoundly, OffersRightly
<1>2. CASE HbMarkRunning(h)
  <2>1. /\ hb[h].pc = "mark" /\ hb[h].orphans = {}
        /\ awaiting' = awaiting /\ work' = work /\ owner' = owner
        /\ Continue(h, [hb[h] EXCEPT !.pc = "reports", !.cur = NoJob])
    BY <1>2, <1>d DEF HbMarkRunning, agentVars
  <2>2. /\ hb'[h].node = n /\ hb'[h].orphans = {} /\ hb'[h].pc = "reports"
        /\ hb'[h].todo = hb[h].todo /\ hb'[h].reported = hb[h].reported
    <3>1. hb'[h] = [hb[h] EXCEPT !.pc = "reports", !.cur = NoJob]
      BY <1>c, <2>1
    <3>2. hb'[h].node = n /\ hb'[h].pc = "reports"
      BY <1>a, <3>1
    <3>3. /\ hb'[h].orphans = hb[h].orphans
          /\ hb'[h].todo = hb[h].todo /\ hb'[h].reported = hb[h].reported
      BY <1>a, <3>1
    <3> QED  BY <2>1, <3>2, <3>3
  <2>3. \A j \in Jobs : status'[j] \in Active => status[j] \in Active
    BY <1>2, <1>a DEF HbMarkRunning, Active
  <2>4. KnowsReported(h)'
    BY <1>a, <2>1, <2>2, <2>3 DEF HandlerCalm, KnowsReported, ActiveOn
  <2> QED
    BY <1>b, <2>1, <2>2, <2>4
    DEF HandlerCalm, Serves, SweepsSoundly, OffersRightly
<1>3. CASE HbReadActive(h)
  <2> DEFINE gone == {j \in ActiveOn(n) \ hb[h].reported : status[j] = "running"}
  <2>1. /\ hb[h].pc = "reports" /\ hb[h].todo = {}
        /\ awaiting' = awaiting /\ work' = work
        /\ status' = status /\ owner' = owner
        /\ Continue(h, [hb[h] EXCEPT !.pc = "orphans", !.reported = {},
                          !.orphans = gone,
                          !.used = Cardinality(ActiveOn(n) \ gone)])
    BY <1>3 DEF HbReadActive, agentVars, jobVars
  <2>2. \A j \in gone : owner[j] = n /\ status[j] = "running" /\ work[n][j] = "none"
    BY <1>a, <2>1 DEF HandlerCalm, KnowsReported, ActiveOn
  <2> HIDE DEF gone
  <2>3. hb'[h].pc = "orphans" /\ hb'[h].node = n /\ hb'[h].orphans = gone
    BY <1>a, <1>c, <2>1
  <2> QED
    BY <1>b, <2>1, <2>2, <2>3
    DEF HandlerCalm, Serves, KnowsReported, SweepsSoundly, OffersRightly
<1>4. CASE HbFailOrphan(h)
  <2>1. PICK j \in hb[h].orphans :
          /\ hb[h].pc = "orphans"
          /\ IF status[j] # "deleted" THEN Fail(j) ELSE UNCHANGED jobVars
          /\ Continue(h, [hb[h] EXCEPT !.pc = "reread", !.cur = j,
                                       !.orphans = @ \ {j}])
    BY <1>4 DEF HbFailOrphan
  <2>2. /\ awaiting' = awaiting /\ work' = work /\ owner' = owner
        /\ \A i \in Jobs \ {j} : status'[i] = status[i]
    BY <1>4, <1>a, <2>1 DEF HbFailOrphan, Fail, agentVars, jobVars
  <2>3. /\ hb'[h].pc = "reread" /\ hb'[h].node = n
        /\ hb'[h].orphans = hb[h].orphans \ {j} /\ hb[h].orphans \subseteq Jobs
    BY <1>a, <1>c, <2>1
  <2> QED
    BY <1>a, <1>b, <2>1, <2>2, <2>3
    DEF HandlerCalm, Serves, KnowsReported, SweepsSoundly, OffersRightly
<1>5. CASE HbReread(h)
  <2>1. /\ hb[h].pc = "reread" /\ awaiting' = awaiting /\ work' = work
        /\ status' = status /\ owner' = owner
        /\ Continue(h, [hb[h] EXCEPT !.pc = "retry", !.seen = retryCount[hb[h].cur]])
    BY <1>5 DEF HbReread, agentVars, jobVars
  <2>2. /\ hb'[h].pc = "retry" /\ hb'[h].node = n
        /\ hb'[h].orphans = hb[h].orphans
    BY <1>a, <1>c, <2>1
  <2> QED
    BY <1>a, <1>b, <2>1, <2>2
    DEF HandlerCalm, Serves, KnowsReported, SweepsSoundly, OffersRightly
<1>6. CASE HbRetryOrphan(h)
  <2>1. /\ hb[h].pc = "retry" /\ awaiting' = awaiting /\ work' = work
        /\ AutoRetry(hb[h].cur, hb[h].seen) /\ hb[h].cur \in Jobs
        /\ Continue(h, [hb[h] EXCEPT !.pc = "orphans", !.cur = NoJob, !.seen = 0])
    BY <1>6, <1>a DEF HbRetryOrphan, agentVars, Shape
  <2>2. /\ hb'[h].pc = "orphans" /\ hb'[h].node = n
        /\ hb'[h].orphans = hb[h].orphans /\ hb[h].orphans \subseteq Jobs
    BY <1>a, <1>c, <2>1
  <2>3. \A i \in Jobs : status[i] = "running" =>
                          status'[i] = status[i] /\ owner'[i] = owner[i]
    BY <1>a, <2>1 DEF AutoRetry, Requeue, jobVars
  <2> QED
    BY <1>a, <1>b, <2>1, <2>2, <2>3
    DEF HandlerCalm, Serves, KnowsReported, SweepsSoundly, OffersRightly
<1>7. CASE HbHold(h)
  <2>1. /\ hb[h].pc = "orphans" /\ hb[h].orphans = {} /\ awaiting' = awaiting
        /\ Continue(h, [hb[h] EXCEPT !.pc = "reply", !.enabled = FALSE,
                                     !.slots = 0, !.used = 0])
    BY <1>7 DEF HbHold, HbAfterOrphans, agentVars
  <2>2. hb'[h] = [hb[h] EXCEPT !.pc = "reply", !.enabled = FALSE,
                               !.slots = 0, !.used = 0]
    BY <1>c, <2>1
  <2>3. hb'[h].pc = "reply" /\ hb'[h].node = n /\ hb'[h].orphans = {}
    BY <1>a, <2>1, <2>2
  <2> QED  BY <1>e, <2>1, <2>3
<1>8. CASE HbOffer(h)
  <2>1. /\ hb[h].pc = "orphans" /\ hb[h].orphans = {} /\ awaiting' = awaiting
        /\ Continue(h, [hb[h] EXCEPT !.pc = "pick",
                          !.free = hb[h].slots - hb[h].used,
                          !.enabled = FALSE, !.slots = 0, !.used = 0])
    BY <1>8 DEF HbOffer, HbAfterOrphans, agentVars
  <2>2. hb'[h] = [hb[h] EXCEPT !.pc = "pick",
                    !.free = hb[h].slots - hb[h].used,
                    !.enabled = FALSE, !.slots = 0, !.used = 0]
    BY <1>c, <2>1
  <2>3. hb'[h].pc = "pick" /\ hb'[h].node = n /\ hb'[h].orphans = {}
    BY <1>a, <2>1, <2>2
  <2> QED  BY <1>e, <2>1, <2>3
<1>9. CASE HbPick(h)
  <2>1. /\ hb[h].pc = "pick" /\ awaiting' = awaiting /\ hb[h].orphans = {}
        /\ status' = status
    BY <1>9, <1>d DEF HbPick, agentVars, jobVars
  <2>2. \/ \E j \in Jobs :
             /\ NextAssignable(j, n)
             /\ Continue(h, [hb[h] EXCEPT !.cur = j,
                  !.pc = IF <<j, n>> \in Renders THEN "bind" ELSE "refuse"])
        \/ Continue(h, [hb[h] EXCEPT !.pc = "reply", !.free = 0])
    BY <1>9 DEF HbPick
  <2>3. ASSUME NEW j \in Jobs, NextAssignable(j, n),
               Continue(h, [hb[h] EXCEPT !.cur = j,
                 !.pc = IF <<j, n>> \in Renders THEN "bind" ELSE "refuse"])
        PROVE  HandlerCalm(h)'
    <3> DEFINE next == IF <<j, n>> \in Renders THEN "bind" ELSE "refuse"
    <3>1. <<j, n>> \in Routable /\ status[j] = "pending"
      BY <2>3 DEF NextAssignable, Dispatchable
    <3>2. hb'[h] = [hb[h] EXCEPT !.cur = j, !.pc = next]
      BY <1>c, <2>3
    <3>3. next \in {"bind", "refuse"} /\ (next = "bind" <=> <<j, n>> \in Renders)
      OBVIOUS
    <3> HIDE DEF next
    <3>4. hb'[h].pc = next /\ hb'[h].cur = j
      BY <1>a, <3>2
    <3>5. hb'[h].node = n /\ hb'[h].orphans = {}
      BY <1>a, <2>1, <3>2
    <3>6. OffersRightly(h)'
      BY <2>1, <3>1, <3>3, <3>4, <3>5 DEF OffersRightly
    <3> QED
      BY <1>b, <2>1, <3>3, <3>4, <3>5, <3>6
      DEF HandlerCalm, Serves, KnowsReported, SweepsSoundly
  <2>4. ASSUME Continue(h, [hb[h] EXCEPT !.pc = "reply", !.free = 0])
        PROVE  hb'[h].pc = "reply" /\ hb'[h].node = n /\ hb'[h].orphans = {}
    <3>1. hb'[h] = [hb[h] EXCEPT !.pc = "reply", !.free = 0]
      BY <1>c, <2>4
    <3> QED  BY <1>a, <2>1, <3>1
  <2> QED  BY <1>e, <2>1, <2>2, <2>3, <2>4
<1>10. CASE HbRefuse(h)
  <2>1. hb[h].pc = "refuse" /\ awaiting' = awaiting /\ hb[h].orphans = {}
    BY <1>10, <1>d DEF HbRefuse, agentVars
  <2>2. hb'[h] = [hb[h] EXCEPT !.pc = "pick", !.cur = NoJob, !.free = @ - 1]
    BY <1>10, <1>c DEF HbRefuse
  <2>3. hb'[h].pc = "pick" /\ hb'[h].node = n /\ hb'[h].orphans = {}
    BY <1>a, <2>1, <2>2
  <2> QED  BY <1>e, <2>1, <2>3
<1>11. CASE HbBind(h)
  <2>1. /\ hb[h].pc = "bind" /\ awaiting' = awaiting /\ hb[h].orphans = {}
        /\ \/ Continue(h, [hb[h] EXCEPT !.pc = "pick", !.cur = NoJob,
                             !.free = @ - 1, !.payload = @ \cup {hb[h].cur}])
           \/ Continue(h, [hb[h] EXCEPT !.pc = "reply", !.cur = NoJob, !.free = 0])
    BY <1>11, <1>d DEF HbBind, agentVars
  <2>2. hb'[h].pc \in {"pick", "reply"} /\ hb'[h].node = n /\ hb'[h].orphans = {}
    <3>1. \/ hb'[h] = [hb[h] EXCEPT !.pc = "pick", !.cur = NoJob,
                         !.free = @ - 1, !.payload = @ \cup {hb[h].cur}]
          \/ hb'[h] = [hb[h] EXCEPT !.pc = "reply", !.cur = NoJob, !.free = 0]
      BY <1>c, <2>1
    <3>2. hb'[h].pc \in {"pick", "reply"}
      BY <1>a, <3>1
    <3>3. hb'[h].node = n /\ hb'[h].orphans = hb[h].orphans
      BY <1>a, <3>1
    <3> QED  BY <2>1, <3>2, <3>3
  <2> QED  BY <1>e, <2>1, <2>2
<1>12. CASE HbReply(h)
  BY <1>12, <1>c, IdleCalm DEF HbReply
<1> QED
  BY <1>1, <1>2, <1>3, <1>4, <1>5, <1>6, <1>7, <1>8, <1>9, <1>10, <1>11, <1>12
  DEF HandlerStep

-----------------------------------------------------------------------------
(* What a completion has checked, it has just read. *)
LEMMA CheckedNow ==
  ASSUME Calm, NEW n \in Nodes, NEW j \in Jobs, ReportStep(n, j),
         report'[n][j].pc = "checked"
  PROVE  /\ UNCHANGED <<status, owner, retryCount>>
         /\ owner[j] = n /\ status[j] \in Active
         /\ report'[n][j].seen = retryCount[j]
<1>a. report \in [Nodes -> [Jobs -> ReportRecord]]
  BY DEF Calm, TypeInv, TypeOK
<1>b. \A r : Respond(n, j, r) => report'[n][j] = r
  BY <1>a DEF Respond
<1>1. CASE ReportCheck(n, j)
  <2>1. /\ owner[j] = n /\ status[j] \in {"pending"} \cup Active
        /\ report'[n][j] = [report[n][j] EXCEPT !.pc = "checked",
                                               !.seen = retryCount[j]]
    BY <1>1, <1>b DEF ReportCheck, NoReport
  <2>2. status[j] \in Active
    BY <2>1, NullAssumption DEF Calm, Ownership, OwnerFollowsStatus
  <2>3. report'[n][j].seen = retryCount[j]
    BY <1>a, <2>1 DEF ReportRecord
  <2> QED  BY <1>1, <2>1, <2>2, <2>3 DEF ReportCheck, jobVars
<1>2. CASE ReportFinish(n, j) \/ ReportRelease(n, j) \/ ReportRetry(n, j)
  <2>1. \/ report'[n][j] = NoReport
        \/ \E p \in {"release", "retry"} : report'[n][j] = [report[n][j] EXCEPT !.pc = p]
    BY <1>2, <1>b DEF ReportFinish, ReportRelease, ReportRetry
  <2>2. report'[n][j].pc # "checked"
    BY <1>a, <2>1 DEF ReportRecord, NoReport
  <2> QED  BY <2>2
<1> QED  BY <1>1, <1>2 DEF ReportStep

(* A completion's part of the invariant: its job stays its agent's until   *)
(* the completion itself, or an operator, decides otherwise.               *)
LEMMA ReportStaysCalm ==
  ASSUME Calm, Quiet, [Next]_vars, NEW n \in Nodes, NEW j \in Jobs
  PROVE  ReportCalm(n, j)'
<1>a. /\ ReportCalm(n, j) /\ ReportProceeds(n, j) /\ WorkMoves(n, j)
      /\ status \in [Jobs -> Statuses] /\ owner \in [Jobs -> Nodes \cup {NoNode}]
  BY WorkStep, ReportsStep DEF Calm, TypeInv, TypeOK, JobTypes
<1>1. report'[n][j].pc # "none" => work'[n][j] = "reporting"
  <2>1. CASE report'[n][j] = report[n][j]
    BY <1>a, <2>1 DEF ReportCalm, WorkMoves, Accepts
  <2>2. CASE report'[n][j] # report[n][j]
    BY <1>a, <2>2
    DEF ReportCalm, ReportProceeds, ReportStep, ReportCheck, ReportFinish,
        ReportRelease, ReportRetry, NoReport, agentVars
  <2> QED  BY <2>1, <2>2
<1>2. ASSUME report'[n][j].pc = "checked"
      PROVE  \/ status'[j] = "deleted"
             \/ owner'[j] = n /\ status'[j] \in Active \cup {"cancelled"}
  <2>1. CASE ReportStep(n, j)
    BY <1>2, <2>1, CheckedNow
  <2>2. CASE report'[n][j] = report[n][j]
    <3>1. work[n][j] = "reporting" /\ (status[j] = "deleted" \/ Held(n, j))
      BY <1>a, <1>2, <2>2 DEF ReportCalm
    <3>2. ASSUME NEW g \in Handlers, Swept(g, j) PROVE FALSE
      <4>1. /\ owner[j] = hb[g].node /\ status[j] = "running"
            /\ work[hb[g].node][j] = "none"
        BY <3>2 DEF Swept, Calm, HandlerCalm, SweepsSoundly
      <4>2. hb[g].node = n  BY <3>1, <4>1 DEF Held
      <4> QED  BY <3>1, <4>1, <4>2
    <3>3. ASSUME NEW m \in Nodes, Ended(m, j) PROVE FALSE
      <4>1. owner[j] = m /\ owner[j] = n
        BY <3>1, <3>3 DEF Ended, Calm, ReportCalm, Held, Active
      <4> QED  BY <2>2, <3>3, <4>1 DEF Ended
    <3>4. ASSUME NEW g \in Handlers, BoundBy(g, j) PROVE FALSE
      BY <3>1, <3>4 DEF BoundBy, Bound, CanBind, Held, Active
    <3>5. CASE Moves(j)
      BY <1>a, <3>1, <3>2, <3>3, <3>4, <3>5
      DEF Moves, MoveTo, Inserted, Started, Dropped, Requeued, RequeuedBy,
          RequeuedFor, Removed, Requested, Refused, Held, Active, Terminal
    <3>6. ASSUME NEW i \in Jobs, Moves(i), i # j
          PROVE  owner'[j] = owner[j] /\ status'[j] = status[j]
      BY <3>6, OthersStay
    <3> QED  BY <3>1, <3>5, <3>6, JobStep DEF Stays, Held
  <2> QED  BY <1>2, <1>a, <2>1, <2>2 DEF ReportProceeds, NoReport
<1> QED  BY <1>1, <1>2 DEF ReportCalm, Held

(* The operators' requests are counted. *)
LEMMA OpsStep ==
  ASSUME Calm, [Next]_vars
  PROVE  ops' = ops \/ (ops \in Nat /\ ops' = ops + 1)
<1>1. ASSUME NEW h \in Handlers, HandlerStep(h) PROVE ops' = ops
  BY <1>1 DEF HandlerStep, HbReadReported, HbMarkRunning, HbReadActive,
     HbFailOrphan, HbReread, HbRetryOrphan, HbHold, HbOffer, HbPick, HbRefuse,
     HbBind, HbReply
<1>2. ASSUME NEW n \in Nodes, NEW j \in Jobs, ReportStep(n, j) PROVE ops' = ops
  BY <1>2 DEF ReportStep, ReportCheck, ReportFinish, ReportRelease, ReportRetry
<1>3. CASE AgentStep
  BY <1>3 DEF AgentStep, SendHeartbeat, AgentFinish, AgentForget
<1>4. CASE FaultStep
  BY <1>4 DEF FaultStep, KillHeartbeat, AgentRestart, KillReport, AgentGivesUp,
     Strike
<1>5. ASSUME NEW j \in Jobs, CreateJob(j) \/ GateOpens(j) PROVE ops' = ops
  BY <1>5 DEF CreateJob, GateOpens
<1>6. CASE UNCHANGED vars  BY <1>6 DEF vars
<1>7. CASE OperatorStep
  <2>1. ops \in Nat  BY LimitAssumption DEF Calm, TypeInv, TypeOK
  <2>2. ops' = ops + 1
    BY <1>7 DEF OperatorStep, CancelJob, RetryJob, DeleteJob, PatchJob, PatchNode,
       DeleteNode, Request
  <2> QED  BY <2>1, <2>2
<1> QED  BY <1>1, <1>2, <1>3, <1>4, <1>5, <1>6, <1>7 DEF Next

(* A job that becomes cancelled has been cancelled by an operator. *)
LEMMA NoneGetsCancelled ==
  ASSUME Calm, Quiet, [Next]_vars
  PROVE  NoneCancelled'
<1> SUFFICES ASSUME ops' = 0 \/ "cancel" \notin OperatorActions, NEW j \in Jobs
             PROVE  status'[j] # "cancelled"
  BY DEF NoneCancelled
<1>1. JobTypes /\ ops \in Nat
  BY LimitAssumption DEF Calm, TypeInv, TypeOK
<1>2. ops = 0 \/ "cancel" \notin OperatorActions
  BY <1>1, OpsStep
<1>3. status[j] # "cancelled"
  BY <1>2 DEF Calm, NoneCancelled
<1>4. ~Dropped(j)
  BY <1>1 DEF Dropped, Asked
<1>5. CASE Moves(j)
  BY <1>1, <1>3, <1>4, <1>5
  DEF JobTypes, Moves, MoveTo, Inserted, Started, Requeued, RequeuedBy, RequeuedFor,
      Removed, Requested, Refused, BoundBy, Bound, Swept, Ended
<1>6. ASSUME NEW i \in Jobs, Moves(i), i # j PROVE status'[j] = status[j]
  BY <1>6, OthersStay
<1> QED  BY <1>3, <1>5, <1>6, JobStep DEF Stays

(* A job that does not render is given to nobody. *)
LEMMA RefusedStaysIdle ==
  ASSUME Calm, Quiet, [Next]_vars
  PROVE  RefusedIsIdle'
<1> DEFINE idle == {"unborn", "pending", "failed", "deleted"}
<1> SUFFICES ASSUME NEW j \in Jobs, Refusable(j)
             PROVE  status'[j] \in idle
  BY DEF RefusedIsIdle, Refusable
<1>1. JobTypes /\ status[j] \in idle
  BY DEF Calm, TypeInv, TypeOK, RefusedIsIdle
<1>2. ASSUME NEW h \in Handlers, BoundBy(h, j) PROVE FALSE
  <2>1. hb[h].node \in Nodes /\ <<j, hb[h].node>> \in Routable \cap Renders
    BY <1>2 DEF BoundBy, Calm, TypeInv, HandlerTypes, Shape, HandlerCalm, OffersRightly
  <2> QED  BY <2>1, RefusableNowhere
<1>3. ~Dropped(j)
  BY RefusableNowhere DEF Dropped, Asked
<1>4. CASE Moves(j)
  BY <1>1, <1>2, <1>3, <1>4
  DEF JobTypes, Moves, MoveTo, Inserted, Started, Requeued, RequeuedBy, RequeuedFor,
      Removed, Requested, Refused, Swept, Ended, Active
<1>5. ASSUME NEW i \in Jobs, Moves(i), i # j PROVE status'[j] = status[j]
  BY <1>5, OthersStay
<1> QED  BY <1>1, <1>4, <1>5, JobStep DEF Stays

(* It holds at the start, when no request is served. *)
LEMMA InitCalm == Init => Calm
<1> SUFFICES ASSUME Init PROVE Calm  OBVIOUS
<1>1. TypeInv  BY InitTypeInv
<1>2. Ownership
  BY DEF Init, Ownership, OwnerFollowsStatus, UnbornUnowned, Active
<1>3. \A h \in Handlers : HandlerCalm(h)
  BY DEF Init, IdleHandler, HandlerCalm, Serves, KnowsReported, SweepsSoundly,
     OffersRightly
<1>4. \A n \in Nodes, j \in Jobs : ReportCalm(n, j)
  BY DEF Init, NoReport, ReportCalm
<1>5. NoneCancelled /\ RefusedIsIdle
  BY DEF Init, NoneCancelled, RefusedIsIdle
<1> QED  BY <1>1, <1>2, <1>3, <1>4, <1>5 DEF Calm

(* The invariant is inductive. *)
LEMMA NextCalm ==
  ASSUME Quiet, Calm, [Next]_vars
  PROVE  Calm'
<1>1. TypeInv' /\ Ownership'
  BY NextTypeInv, NextOwnership DEF Calm
<1>2. ASSUME NEW h \in Handlers PROVE HandlerCalm(h)'
  BY HandlerTurn, BystanderCalm, IdleCalm, SentCalm, TurnCalm DEF HandlerTurns
<1>3. ASSUME NEW n \in Nodes, NEW j \in Jobs PROVE ReportCalm(n, j)'
  BY ReportStaysCalm
<1>4. NoneCancelled' /\ RefusedIsIdle'
  BY NoneGetsCancelled, RefusedStaysIdle
<1> QED  BY <1>1, <1>2, <1>3, <1>4 DEF Calm

(* Whatever interleaves with the requests being served, what each of them  *)
(* relies on between its statements holds. *)
THEOREM CalmAlways == ASSUME Quiet PROVE Spec => []Calm
<1>1. Calm /\ [Next]_vars => Calm'  BY NextCalm
<1> QED  BY <1>1, InitCalm, PTL DEF Spec

-----------------------------------------------------------------------------
(* What follows for the life of a job.                                     *)

(* A terminal job stays what it is until it is queued again or deleted,    *)
(* a done or cancelled one until an operator asks: the unguarded FinishJob *)
(* of the orphan sweep never meets a job that has an outcome.              *)
THEOREM TerminalAlwaysSticks == ASSUME Quiet PROVE Spec => TerminalSticks
<1>1. ASSUME Calm, [Next]_vars, NEW j \in Jobs, status[j] \in Terminal
      PROVE  \/ status'[j] = status[j]
             \/ status[j] = "failed" /\ status'[j] = "pending"
             \/ status'[j] \in {"pending", "deleted"} /\ ops' # ops
  <2>a. status \in [Jobs -> Statuses] /\ ops \in Nat
    BY <1>1, LimitAssumption DEF Calm, TypeInv, TypeOK, JobTypes
  <2>b. \A action : Asked(action) => ops' # ops
    BY <2>a DEF Asked
  <2>1. ASSUME NEW h \in Handlers, BoundBy(h, j) \/ Swept(h, j) PROVE FALSE
    BY <1>1, <2>1
    DEF BoundBy, Bound, CanBind, Swept, Calm, HandlerCalm, SweepsSoundly, Terminal
  <2>2. CASE Moves(j)
    BY <1>1, <2>a, <2>b, <2>1, <2>2
    DEF Moves, MoveTo, Inserted, Started, Dropped, Requeued, RequeuedBy,
        RequeuedFor, Removed, Requested, Refused, Ended, Active, Terminal
  <2>3. ASSUME NEW i \in Jobs, Moves(i), i # j PROVE status'[j] = status[j]
    BY <1>1, <2>3, OthersStay
  <2> QED  BY <1>1, <2>2, <2>3, JobStep DEF Stays
<1>2. Calm /\ [Next]_vars =>
        [\A j \in Jobs :
           status[j] \in Terminal =>
             \/ status'[j] = status[j]
             \/ status[j] = "failed" /\ status'[j] = "pending"
             \/ status'[j] \in {"pending", "deleted"} /\ ops' # ops]_vars
  BY <1>1
<1> QED  BY <1>2, CalmAlways, PTL DEF Spec, TerminalSticks

(* An active job is finished by a request of the node that owns it, though *)
(* neither FinishJob nor FinishJobWithReport names the node.               *)
THEOREM OwnerAlwaysFinishes == ASSUME Quiet PROVE Spec => OnlyOwnerFinishes
<1>1. ASSUME Calm, [Next]_vars, NEW j \in Jobs,
             status[j] \in Active, status'[j] \in {"done", "failed"}
      PROVE  \/ report'[owner[j]] # report[owner[j]]
             \/ \E h \in Handlers : hb[h].node = owner[j] /\ hb'[h] # hb[h]
  <2>a. status \in [Jobs -> Statuses]  BY <1>1 DEF Calm, TypeInv, TypeOK, JobTypes
  <2>1. CASE \E h \in Handlers : Swept(h, j)
    BY <1>1, <2>1 DEF Swept, Calm, HandlerCalm, SweepsSoundly
  <2>2. CASE \E n \in Nodes : Ended(n, j)
    <3>1. PICK n \in Nodes : Ended(n, j)  BY <2>2
    <3>2. owner[j] = n
      BY <1>1, <3>1 DEF Ended, Calm, ReportCalm, Held, Active
    <3> QED  BY <3>1, <3>2 DEF Ended
  <2>3. CASE /\ Moves(j) /\ ~\E h \in Handlers : Swept(h, j)
             /\ ~\E n \in Nodes : Ended(n, j)
    BY <1>1, <2>a, <2>3
    DEF Moves, MoveTo, Inserted, Started, Dropped, Requeued, RequeuedBy,
        RequeuedFor, Removed, Requested, Refused, BoundBy, Bound, CanBind,
        Active, Terminal
  <2>4. ASSUME NEW i \in Jobs, Moves(i), i # j PROVE status'[j] = status[j]
    BY <1>1, <2>4, OthersStay
  <2>5. ~Stays
    BY <1>1 DEF Stays, Active
  <2> QED  BY <1>1, <2>1, <2>2, <2>3, <2>4, <2>5, JobStep DEF Active
<1>2. Calm /\ [Next]_vars =>
        [\A j \in Jobs :
           status[j] \in Active /\ status'[j] \in {"done", "failed"} =>
             \/ report'[owner[j]] # report[owner[j]]
             \/ \E h \in Handlers : hb[h].node = owner[j] /\ hb'[h] # hb[h]]_vars
  BY <1>1
<1> QED  BY <1>2, CalmAlways, PTL DEF Spec, OnlyOwnerFinishes

(* Every statement of every handler is a step of the promised life, or no  *)
(* step of it: handlers that read and write in several statements          *)
(* implement handlers that are atomic.                                     *)
THEOREM LifecycleImplemented == ASSUME Quiet PROVE Spec => ImplementsLifecycle
<1> USE DEF Lifecycle!Active, Lifecycle!Terminal, Active, Terminal
<1>1. Init => Lifecycle!Init
  BY DEF Init, Lifecycle!Init
<1>2. ASSUME Calm, [Next]_vars PROVE [Lifecycle!Next]_(Lifecycle!vars)
  <2>1. ASSUME NEW j \in Jobs, NEW h \in Handlers, BoundBy(h, j)
        PROVE  Lifecycle!Next
    <3> DEFINE n == hb[h].node
    <3>1. n \in Nodes /\ slots[n] \in 1..MaxSlots
      BY <1>2, <2>1
      DEF BoundBy, Calm, TypeInv, TypeOK, NodeTypes, HandlerTypes, Shape
    <3>2. Lifecycle!ActiveOn(n) = ActiveOn(n)
      BY DEF ActiveOn, Lifecycle!ActiveOn
    <3>3. Lifecycle!Cardinality(Lifecycle!ActiveOn(n)) < MaxSlots
      <4>1. Cardinality(ActiveOn(n)) < slots[n]
        BY <2>1 DEF BoundBy, Bound, CanBind
      <4>2. Lifecycle!Cardinality(ActiveOn(n)) = Cardinality(ActiveOn(n))
        BY Zenon DEF Lifecycle!Cardinality, Cardinality
      <4> QED  BY <3>1, <3>2, <4>1, <4>2, ActiveFinite, LimitAssumption
    <3>4. /\ status[j] = "pending"
          /\ status' = [status EXCEPT ![j] = "assigned"]
          /\ owner' = [owner EXCEPT ![j] = n]
      BY <2>1 DEF BoundBy, Bound, CanBind
    <3> HIDE DEF n
    <3>5. Lifecycle!Assign(j, n)
      BY <3>3, <3>4 DEF Lifecycle!Assign
    <3> QED  BY <3>1, <3>5 DEF Lifecycle!Next
  <2>2. ASSUME NEW j \in Jobs, NEW h \in Handlers, Swept(h, j)
        PROVE  Lifecycle!Next
    <3>1. status[j] = "running"
      BY <1>2, <2>2 DEF Swept, Calm, HandlerCalm, SweepsSoundly
    <3>2. Lifecycle!Finish(j)
      BY <2>2, <3>1 DEF Swept, MoveTo, Lifecycle!Finish, Lifecycle!Become
    <3> QED  BY <3>2 DEF Lifecycle!Next
  <2>3. ASSUME NEW j \in Jobs, NEW n \in Nodes, Ended(n, j)
        PROVE  Lifecycle!Next
    <3>1. Lifecycle!Finish(j)
      BY <2>3 DEF Ended, MoveTo, Lifecycle!Finish, Lifecycle!Become
    <3> QED  BY <3>1 DEF Lifecycle!Next
  <2>4. ASSUME NEW j \in Jobs,
               \/ Inserted(j) \/ Started(j) \/ Dropped(j) \/ Removed(j) \/ Refused(j)
               \/ \E seen : Requeued(j, seen)
        PROVE  Lifecycle!Next
    <3>1. \/ Lifecycle!Create(j) \/ Lifecycle!Start(j) \/ Lifecycle!Requeue(j)
          \/ Lifecycle!Cancel(j) \/ Lifecycle!Delete(j) \/ Lifecycle!Refuse(j)
      BY <2>4
      DEF Inserted, Started, Dropped, Requeued, RequeuedBy, RequeuedFor, Removed,
          Requested, Refused, MoveTo, Lifecycle!Create, Lifecycle!Start,
          Lifecycle!Requeue, Lifecycle!Cancel, Lifecycle!Delete,
          Lifecycle!Refuse, Lifecycle!Become
    <3> QED  BY <3>1 DEF Lifecycle!Next
  <2>5. ASSUME NEW j \in Jobs, Requested(j)
        PROVE  Lifecycle!Next \/ UNCHANGED Lifecycle!vars
    <3>1. CASE status[j] \in {"done", "failed"}
      <4>1. Lifecycle!Requeue(j)
        BY <2>5, <3>1 DEF Requested, Lifecycle!Requeue
      <4> QED  BY <4>1 DEF Lifecycle!Next
    <3>2. CASE status[j] = "pending"
      <4>1. JobTypes /\ owner[j] = NoNode
        BY <1>2, <3>2 DEF Calm, TypeInv, TypeOK, Ownership, OwnerFollowsStatus
      <4>2. status' = status /\ owner' = owner
        BY <2>5, <3>2, <4>1 DEF Requested, JobTypes
      <4> QED  BY <4>2 DEF Lifecycle!vars
    <3> QED  BY <2>5, <3>1, <3>2 DEF Requested
  <2>6. Stays => UNCHANGED Lifecycle!vars
    BY DEF Stays, Lifecycle!vars
  <2> QED
    BY <1>2, <2>1, <2>2, <2>3, <2>4, <2>5, <2>6, JobStep
    DEF Moves, RequeuedBy, RequeuedFor
<1>3. Calm /\ [Next]_vars => [Lifecycle!Next]_(Lifecycle!vars)
  BY <1>2
<1> QED
  BY <1>1, <1>3, CalmAlways, PTL DEF Spec, ImplementsLifecycle, Lifecycle!Spec

-----------------------------------------------------------------------------
(* That agents encode their own jobs only.  Here no operator may delete a  *)
(* cancelled job either: it may be one that its node encodes.              *)

(* A report that is still to be recorded is for a job of its agent. *)
ReportsHeld(n, j) == report[n][j].pc \in {"sent", "checked"} => Held(n, j)

(* What a heartbeat is about to bring its node, is the node's job; the     *)
(* node may have a finished run of it left, but does not encode it, and    *)
(* has nothing more to report of it.                                       *)
BringsOwned(h) ==
  /\ hb[h].payload # {} => hb[h].pc \in {"pick", "bind", "refuse", "reply"}
  /\ \A j \in hb[h].payload :
       /\ Held(hb[h].node, j) /\ work[hb[h].node][j] # "encoding"
       /\ report[hb[h].node][j].pc \notin {"sent", "checked"}

Tidy ==
  /\ Calm /\ EncoderOwnsJob
  /\ \A n \in Nodes, j \in Jobs : ReportsHeld(n, j)
  /\ \A h \in Handlers : BringsOwned(h)

(* Nobody deletes a cancelled job, which an agent may still be encoding.   *)
NoDeletes == NeverAfterCancel("delete")

(* So what is deleted has ended otherwise. *)
LEMMA RemovedHasEnded ==
  ASSUME Calm, NoDeletes, NEW j \in Jobs, Removed(j)
  PROVE  status[j] \in {"done", "failed"}
<1>1. /\ ops \in Nat /\ MaxOps \in Nat /\ ops < MaxOps
      /\ "delete" \in OperatorActions /\ status[j] \in Terminal
  BY LimitAssumption DEF Calm, TypeInv, TypeOK, Removed, Asked
<1>2. CASE "cancel" \in OperatorActions
  <2>1. ops = 0  BY <1>1, <1>2 DEF NoDeletes, NeverAfterCancel
  <2> QED  BY <1>1, <2>1 DEF Calm, NoneCancelled, Terminal
<1>3. CASE "cancel" \notin OperatorActions
  BY <1>1, <1>3 DEF Calm, NoneCancelled, Terminal
<1> QED  BY <1>2, <1>3

(* A node's job stays its job unless it is swept or reported. *)
LEMMA HeldStays ==
  ASSUME Calm, Quiet, NoDeletes, [Next]_vars, NEW n \in Nodes, NEW j \in Jobs,
         Held(n, j), \A g \in Handlers : ~Swept(g, j), \A m \in Nodes : ~Ended(m, j)
  PROVE  Held(n, j)'
<1>a. status \in [Jobs -> Statuses] /\ owner \in [Jobs -> Nodes \cup {NoNode}]
  BY DEF Calm, TypeInv, TypeOK, JobTypes
<1>1. ASSUME NEW g \in Handlers, BoundBy(g, j) PROVE FALSE
  BY <1>1 DEF BoundBy, Bound, CanBind, Held, Active
<1>2. ~Removed(j)
  BY RemovedHasEnded DEF Held, Active
<1>3. CASE Moves(j)
  BY <1>a, <1>1, <1>2, <1>3
  DEF Moves, MoveTo, Inserted, Started, Dropped, Requeued, RequeuedBy, RequeuedFor,
      Requested, Refused, Held, Active
<1>4. ASSUME NEW i \in Jobs, Moves(i), i # j
      PROVE  owner'[j] = owner[j] /\ status'[j] = status[j]
  BY <1>4, OthersStay
<1> QED  BY <1>3, <1>4, JobStep DEF Stays, Held

(* A job being reported is with the agent that reports it. *)
LEMMA EndedIsOwn ==
  ASSUME Calm, NEW n \in Nodes, NEW j \in Jobs, Held(n, j),
         NEW m \in Nodes, Ended(m, j)
  PROVE  /\ m = n /\ work[n][j] = "reporting" /\ report[n][j].pc = "checked"
         /\ report'[n][j] # report[n][j]
BY DEF Calm, ReportCalm, Held, Ended, Active

(* A sweep is for a job its agent does not have. *)
LEMMA SweptIsUnknown ==
  ASSUME Calm, NEW g \in Handlers, NEW j \in Jobs, Swept(g, j)
  PROVE  work[owner[j]][j] = "none" /\ hb[g].node = owner[j]
BY DEF Calm, HandlerCalm, SweepsSoundly, Swept

(* Encodes stay with the owner ... *)
LEMMA EncodersStay ==
  ASSUME Tidy, Quiet, NoDeletes, [Next]_vars
  PROVE  EncoderOwnsJob'
<1> SUFFICES ASSUME NEW n \in Nodes, NEW j \in Jobs, work'[n][j] = "encoding"
             PROVE  Held(n, j)'
  BY DEF EncoderOwnsJob, Held
<1>1. CASE work[n][j] = "encoding"
  <2>1. Held(n, j)  BY <1>1 DEF Tidy, EncoderOwnsJob, Held
  <2>2. \A g \in Handlers : ~Swept(g, j)
    BY <1>1, <2>1, SweptIsUnknown DEF Tidy, Held
  <2>3. \A m \in Nodes : ~Ended(m, j)
    BY <1>1, <2>1, EndedIsOwn DEF Tidy
  <2> QED  BY <2>1, <2>2, <2>3, HeldStays DEF Tidy
<1>2. CASE work[n][j] # "encoding"
  <2>1. PICK h \in Handlers : Accepts(h, n, j)
    BY <1>2, WorkStep DEF Tidy, WorkMoves
  <2> QED
    BY <2>1 DEF Accepts, HbReply, Tidy, BringsOwned, Held, jobVars
<1> QED  BY <1>1, <1>2

(* ... and so do the reports of them ... *)
LEMMA ReportsStayHeld ==
  ASSUME Tidy, Quiet, NoDeletes, [Next]_vars, NEW n \in Nodes, NEW j \in Jobs
  PROVE  ReportsHeld(n, j)'
<1> SUFFICES ASSUME report'[n][j].pc \in {"sent", "checked"}
             PROVE  Held(n, j)'
  BY DEF ReportsHeld
<1>1. CASE report'[n][j] = report[n][j]
  <2>1. Held(n, j) /\ work[n][j] = "reporting"
    BY <1>1 DEF Tidy, ReportsHeld, Calm, ReportCalm
  <2>2. \A g \in Handlers : ~Swept(g, j)
    BY <2>1, SweptIsUnknown DEF Tidy, Held
  <2>3. \A m \in Nodes : ~Ended(m, j)
    BY <1>1, <2>1, EndedIsOwn DEF Tidy
  <2> QED  BY <2>1, <2>2, <2>3, HeldStays DEF Tidy
<1>2. CASE work[n][j] = "encoding" /\ UNCHANGED <<status, owner>>
  BY <1>2 DEF Tidy, EncoderOwnsJob, Held
<1>3. CASE ReportStep(n, j) /\ report'[n][j].pc = "checked"
  BY <1>3, CheckedNow DEF Tidy, Held
<1>4. ASSUME ReportStep(n, j) PROVE report'[n][j].pc # "sent"
  <2>1. report \in [Nodes -> [Jobs -> ReportRecord]]
    BY DEF Tidy, Calm, TypeInv, TypeOK
  <2>2. \A r : Respond(n, j, r) => report'[n][j] = r
    BY <2>1 DEF Respond
  <2>3. \/ report'[n][j] = NoReport
        \/ report'[n][j] = [report[n][j] EXCEPT !.pc = "checked", !.seen = retryCount[j]]
        \/ report'[n][j] = [report[n][j] EXCEPT !.pc = "release"]
        \/ report'[n][j] = [report[n][j] EXCEPT !.pc = "retry"]
    BY <1>4, <2>2 DEF ReportStep, ReportCheck, ReportFinish, ReportRelease, ReportRetry
  <2>4. /\ NoReport.pc # "sent"
        /\ [report[n][j] EXCEPT !.pc = "checked", !.seen = retryCount[j]].pc # "sent"
        /\ [report[n][j] EXCEPT !.pc = "release"].pc # "sent"
        /\ [report[n][j] EXCEPT !.pc = "retry"].pc # "sent"
    <3>1. report[n][j] \in ReportRecord  BY <2>1
    <3> QED  BY <3>1 DEF ReportRecord, NoReport
  <2> QED  BY <2>3, <2>4
<1> QED
  BY <1>1, <1>2, <1>3, <1>4, ReportsStep DEF Tidy, ReportProceeds, NoReport

(* ... while a handler waits, no other brings its node an encode, and      *)
(* nothing that was reported is reported again ...                         *)
LEMMA NothingNewMeanwhile ==
  ASSUME Calm, Quiet, [Next]_vars, NEW h \in Handlers, NEW j \in Jobs,
         hb[h].pc # "free", hb'[h] = hb[h], hb[h].node \in Nodes,
         work[hb[h].node][j] # "encoding",
         report[hb[h].node][j].pc \notin {"sent", "checked"}
  PROVE  /\ work'[hb[h].node][j] # "encoding"
         /\ report'[hb[h].node][j].pc \notin {"sent", "checked"}
<1> DEFINE n == hb[h].node
<1>a. hb \in [Handlers -> HandlerRecord] /\ report \in [Nodes -> [Jobs -> ReportRecord]]
  BY DEF Calm, TypeInv, TypeOK
<1>1. ASSUME NEW g \in Handlers, Accepts(g, n, j) PROVE FALSE
  <2>1. g = h  BY <1>1, OneServer DEF Accepts, HbReply
  <2>2. hb'[h] = IdleHandler
    BY <1>1, <1>a, <2>1 DEF Accepts, HbReply, Continue
  <2> QED  BY <2>2 DEF IdleHandler
<1>2. work'[n][j] # "encoding"
  BY <1>1, WorkStep DEF WorkMoves
<1>3. ASSUME ReportStep(n, j) PROVE report'[n][j].pc \notin {"sent", "checked"}
  <2>1. \A r : Respond(n, j, r) => report'[n][j] = r
    BY <1>a DEF Respond
  <2>2. \/ report'[n][j] = NoReport
        \/ report'[n][j] = [report[n][j] EXCEPT !.pc = "retry"]
    BY <1>3, <2>1 DEF ReportStep, ReportCheck, ReportFinish, ReportRelease, ReportRetry
  <2> QED  BY <1>a, <2>2 DEF ReportRecord, NoReport
<1>4. report'[n][j].pc \notin {"sent", "checked"}
  BY <1>3, ReportsStep DEF ReportProceeds, NoReport
<1> QED  BY <1>2, <1>4

(* ... a waiting handler's offer stays good ... *)
LEMMA OffersStayOwned ==
  ASSUME Tidy, Quiet, NoDeletes, [Next]_vars, NEW h \in Handlers, hb'[h] = hb[h]
  PROVE  BringsOwned(h)'
<1> DEFINE n == hb[h].node
<1>a. Calm /\ BringsOwned(h) /\ hb[h] \in HandlerRecord /\ Shape(hb[h])
  BY DEF Tidy, Calm, TypeInv, HandlerTypes
<1>1. CASE hb[h].pc \in {"pick", "bind", "refuse", "reply"}
  <2>1. ASSUME NEW j \in hb[h].payload
        PROVE  /\ Held(n, j)' /\ work'[n][j] # "encoding"
               /\ report'[n][j].pc \notin {"sent", "checked"}
    <3>1. /\ j \in Jobs /\ n \in Nodes /\ Held(n, j) /\ work[n][j] # "encoding"
          /\ report[n][j].pc \notin {"sent", "checked"}
      BY <1>1, <1>a DEF HandlerRecord, Shape, BringsOwned
    <3>2. ASSUME NEW g \in Handlers, Swept(g, j) PROVE FALSE
      <4>1. g = h
        BY <1>1, <1>a, <3>1, <3>2, SweptIsUnknown, OneServer DEF Held, Swept
      <4> QED  BY <1>1, <3>2, <4>1 DEF Swept
    <3>3. \A m \in Nodes : ~Ended(m, j)
      BY <1>a, <3>1, EndedIsOwn
    <3>4. Held(n, j)'
      <4> HIDE DEF n
      <4>1. owner[j] = n /\ status[j] \in Active \cup {"cancelled"}
        BY <3>1 DEF Held
      <4>2. owner'[j] = n /\ status'[j] \in Active \cup {"cancelled"}
        BY <1>a, <3>1, <3>2, <3>3, HeldStays DEF Held
      <4> QED  BY <4>2 DEF Held, n
    <3>5. work'[n][j] # "encoding" /\ report'[n][j].pc \notin {"sent", "checked"}
      BY <1>1, <1>a, <3>1, NothingNewMeanwhile
    <3> QED  BY <3>4, <3>5
  <2> QED
    BY <1>1, <1>a, <2>1 DEF BringsOwned, Held
<1>2. CASE hb[h].pc \notin {"pick", "bind", "refuse", "reply"}
  BY <1>2, <1>a DEF BringsOwned
<1> QED  BY <1>1, <1>2

(* ... and each statement offers only what is free. *)
LEMMA TurnBringsOwned ==
  ASSUME Tidy, Quiet, NEW h \in Handlers, HandlerStep(h)
  PROVE  BringsOwned(h)'
<1> DEFINE n == hb[h].node
<1>a. /\ hb \in [Handlers -> HandlerRecord] /\ hb[h] \in HandlerRecord
      /\ Shape(hb[h]) /\ BringsOwned(h)
      /\ status \in [Jobs -> Statuses] /\ owner \in [Jobs -> Nodes \cup {NoNode}]
  BY DEF Tidy, Calm, TypeInv, TypeOK, HandlerTypes, JobTypes
<1>b. \A r : Continue(h, r) => hb'[h] = r
  BY <1>a DEF Continue
<1>c. hb[h].pc \notin {"pick", "bind", "refuse", "reply"} => hb[h].payload = {}
  BY <1>a DEF BringsOwned
<1>d. ASSUME hb'[h].payload = {} PROVE BringsOwned(h)'
  BY <1>d DEF BringsOwned
<1>e. report' = report
  BY DEF HandlerStep, HbReadReported, HbMarkRunning, HbReadActive, HbFailOrphan,
     HbReread, HbRetryOrphan, HbHold, HbOffer, HbPick, HbRefuse, HbBind, HbReply
<1> USE DEF HandlerRecord
<1>1. CASE HbReadReported(h)
  <2>1. PICK j \in hb[h].todo :
          /\ hb[h].pc = "reports"
          /\ \/ hb'[h] = [hb[h] EXCEPT !.pc = "mark", !.cur = j, !.todo = @ \ {j},
                                       !.reported = @ \cup {j}]
             \/ hb'[h] = [hb[h] EXCEPT !.todo = @ \ {j}]
    BY <1>1, <1>b DEF HbReadReported
  <2> QED  BY <1>a, <1>c, <1>d, <2>1
<1>2. CASE HbMarkRunning(h) \/ HbReread(h) \/ HbRetryOrphan(h)
  <2>1. /\ hb[h].pc \in {"mark", "reread", "retry"}
        /\ \/ hb'[h] = [hb[h] EXCEPT !.pc = "reports", !.cur = NoJob]
           \/ hb'[h] = [hb[h] EXCEPT !.pc = "retry", !.seen = retryCount[hb[h].cur]]
           \/ hb'[h] = [hb[h] EXCEPT !.pc = "orphans", !.cur = NoJob, !.seen = 0]
    BY <1>2, <1>b DEF HbMarkRunning, HbReread, HbRetryOrphan
  <2> QED  BY <1>a, <1>c, <1>d, <2>1
<1>3. CASE HbReply(h)
  BY <1>3, <1>b, <1>d DEF HbReply, IdleHandler
<1>4. CASE HbReadActive(h)
  <2> DEFINE gone == {j \in ActiveOn(n) \ hb[h].reported : status[j] = "running"}
             used == Cardinality(ActiveOn(n) \ gone)
  <2>1. /\ hb[h].pc = "reports"
        /\ hb'[h] = [hb[h] EXCEPT !.pc = "orphans", !.reported = {},
                                  !.orphans = gone, !.used = used]
    BY <1>4, <1>b DEF HbReadActive
  <2> HIDE DEF gone, used
  <2> QED  BY <1>a, <1>c, <1>d, <2>1
<1>5. CASE HbFailOrphan(h)
  <2>1. PICK j \in hb[h].orphans :
          /\ hb[h].pc = "orphans"
          /\ hb'[h] = [hb[h] EXCEPT !.pc = "reread", !.cur = j,
                                    !.orphans = @ \ {j}]
    BY <1>5, <1>b DEF HbFailOrphan
  <2> QED  BY <1>a, <1>c, <1>d, <2>1
<1>6. CASE HbHold(h) \/ HbOffer(h)
  <2>1. /\ hb[h].pc = "orphans"
        /\ \/ hb'[h] = [hb[h] EXCEPT !.pc = "reply", !.enabled = FALSE,
                                     !.slots = 0, !.used = 0]
           \/ hb'[h] = [hb[h] EXCEPT !.pc = "pick",
                                     !.free = hb[h].slots - hb[h].used,
                                     !.enabled = FALSE, !.slots = 0, !.used = 0]
    BY <1>6, <1>b DEF HbHold, HbOffer, HbAfterOrphans
  <2> QED  BY <1>a, <1>c, <1>d, <2>1
<1>7. CASE HbPick(h)
  <2>1. hb[h].pc = "pick" /\ work' = work /\ status' = status /\ owner' = owner
    BY <1>7 DEF HbPick, agentVars, jobVars
  <2>2. \/ hb'[h] = [hb[h] EXCEPT !.pc = "reply", !.free = 0]
        \/ \E j \in Jobs :
             hb'[h] = [hb[h] EXCEPT !.cur = j,
                         !.pc = IF <<j, n>> \in Renders THEN "bind" ELSE "refuse"]
    BY <1>7, <1>b DEF HbPick
  <2>4. hb'[h].pc \in {"bind", "refuse", "reply"}
    BY <1>a, <2>2
  <2>5. hb'[h].node = n /\ hb'[h].payload = hb[h].payload
    BY <1>a, <2>2
  <2> QED  BY <1>a, <1>e, <2>1, <2>4, <2>5 DEF BringsOwned, Held
<1>8. CASE HbBind(h)
  <2> DEFINE j == hb[h].cur
  <2>1. /\ hb[h].pc = "bind" /\ j \in Jobs /\ n \in Nodes /\ work' = work
        /\ hb[h].payload \subseteq Jobs
    BY <1>8, <1>a DEF HbBind, Shape, agentVars
  <2>2. CASE CanBind(j, n)
    <3>1. /\ status' = [status EXCEPT ![j] = "assigned"]
          /\ owner' = [owner EXCEPT ![j] = n]
          /\ hb'[h] = [hb[h] EXCEPT !.pc = "pick", !.cur = NoJob, !.free = @ - 1,
                                    !.payload = @ \cup {j}]
      BY <1>8, <1>b, <2>2 DEF HbBind
    <3>2. /\ hb'[h].pc = "pick" /\ hb'[h].node = n
          /\ hb'[h].payload = hb[h].payload \cup {j}
      BY <1>a, <3>1
    <3>3. ASSUME NEW i \in hb'[h].payload
          PROVE  owner'[i] = n /\ status'[i] \in Active \cup {"cancelled"}
      <4>1. CASE i = j  BY <1>a, <2>1, <3>1, <4>1 DEF Active
      <4>2. CASE i # j
        BY <1>a, <2>1, <3>1, <3>2, <3>3, <4>2 DEF BringsOwned, Held
      <4> QED  BY <4>1, <4>2
    <3>4. ~Held(n, j)
      BY <2>2 DEF CanBind, Held, Active
    <3>5. work[n][j] # "encoding" /\ report[n][j].pc \notin {"sent", "checked"}
      BY <2>1, <3>4 DEF Tidy, EncoderOwnsJob, ReportsHeld, Held
    <3>6. ASSUME NEW i \in hb'[h].payload
          PROVE  work[n][i] # "encoding" /\ report[n][i].pc \notin {"sent", "checked"}
      BY <1>a, <3>2, <3>5 DEF BringsOwned
    <3> QED  BY <1>e, <2>1, <3>2, <3>3, <3>6 DEF BringsOwned, Held
  <2>3. CASE ~CanBind(j, n)
    <3>1. /\ status' = status /\ owner' = owner
          /\ hb'[h] = [hb[h] EXCEPT !.pc = "reply", !.cur = NoJob, !.free = 0]
      BY <1>8, <1>b, <2>3 DEF HbBind
    <3>2. hb'[h].pc = "reply" /\ hb'[h].node = n /\ hb'[h].payload = hb[h].payload
      BY <1>a, <3>1
    <3> QED  BY <1>a, <1>e, <2>1, <3>1, <3>2 DEF BringsOwned, Held
  <2> QED  BY <2>2, <2>3
<1>9. CASE HbRefuse(h)
  <2> DEFINE j == hb[h].cur
  <2>1. /\ hb[h].pc = "refuse" /\ work' = work
        /\ hb'[h] = [hb[h] EXCEPT !.pc = "pick", !.cur = NoJob, !.free = @ - 1]
    BY <1>9, <1>b DEF HbRefuse, agentVars
  <2>2. hb'[h].pc = "pick" /\ hb'[h].node = n /\ hb'[h].payload = hb[h].payload
    BY <1>a, <2>1
  <2>3. j \in Jobs /\ n \in Nodes /\ status[j] \in {"pending", "failed", "deleted"}
    BY <2>1, RefusingIdle DEF Tidy
  <2>4. owner' = owner /\ \A i \in Jobs \ {j} : status'[i] = status[i]
    BY <1>9, <1>a, <2>3 DEF HbRefuse, Fail, jobVars
  <2>5. hb[h].payload \subseteq Jobs \ {j}
    BY <1>a, <2>3 DEF BringsOwned, Held, Active
  <2> QED  BY <1>a, <1>e, <2>1, <2>2, <2>4, <2>5 DEF BringsOwned, Held
<1> QED
  BY <1>1, <1>4, <1>5, <1>6, <1>7, <1>8, <1>9, <1>2, <1>3 DEF HandlerStep

(* It holds at the start, when nothing is offered and nothing encoded. *)
LEMMA InitTidy == Init => Tidy
<1> SUFFICES ASSUME Init PROVE Tidy  OBVIOUS
<1> QED
  BY InitCalm
  DEF Init, Tidy, EncoderOwnsJob, ReportsHeld, BringsOwned, IdleHandler, NoReport

(* The invariant is inductive. *)
LEMMA NextTidy ==
  ASSUME Quiet, NoDeletes, Tidy, [Next]_vars
  PROVE  Tidy'
<1>1. Calm'  BY NextCalm DEF Tidy
<1>2. EncoderOwnsJob'  BY EncodersStay
<1>3. ASSUME NEW n \in Nodes, NEW j \in Jobs PROVE ReportsHeld(n, j)'
  BY ReportsStayHeld
<1>4. ASSUME NEW h \in Handlers PROVE BringsOwned(h)'
  <2>a. hb \in [Handlers -> HandlerRecord]  BY DEF Tidy, Calm, TypeInv, TypeOK
  <2>1. CASE hb'[h] = IdleHandler
    BY <2>1 DEF IdleHandler, BringsOwned
  <2>2. ASSUME NEW n \in Nodes, SendHeartbeat(n, h) PROVE BringsOwned(h)'
    <3>1. hb'[h].pc = "reports" /\ hb'[h].payload = {}
      BY <2>a, <2>2 DEF SendHeartbeat, Continue, IdleHandler
    <3> QED  BY <3>1 DEF BringsOwned
  <2> QED
    BY <2>1, <2>2, HandlerTurn, OffersStayOwned, TurnBringsOwned
    DEF Tidy, HandlerTurns
<1> QED  BY <1>1, <1>2, <1>3, <1>4 DEF Tidy

(* What an agent encodes is a live job of its own, or one cancelled under  *)
(* it: no job is encoded on two nodes, whatever requests interleave and    *)
(* whatever connections break.                                             *)
THEOREM EncoderAlwaysOwns ==
  ASSUME Quiet, NoDeletes PROVE Spec => []EncoderOwnsJob
<1>1. Tidy /\ [Next]_vars => Tidy'  BY NextTidy
<1>2. Tidy => EncoderOwnsJob  BY DEF Tidy
<1> QED  BY <1>1, <1>2, InitTidy, PTL DEF Spec

-----------------------------------------------------------------------------
(* That automatic retries are counted.  The count that is written back was *)
(* read in an earlier statement; it is still the row's, as a failed job is *)
(* in the hands of the one request that failed it.  Here no operator       *)
(* queues a job again by hand, which starts the count anew under a request *)
(* that still has the old one.                                             *)

NoRetries == "retry" \notin OperatorActions

RetryKnown(h) ==
  hb[h].pc \in {"reread", "retry"} =>
    /\ work[hb[h].node][hb[h].cur] = "none" /\ owner[hb[h].cur] = hb[h].node
    /\ status[hb[h].cur] \in {"failed", "deleted"}
    /\ hb[h].pc = "retry" => hb[h].seen = retryCount[hb[h].cur]

ReportKnown(n, j) ==
  /\ report[n][j].pc = "checked" => report[n][j].seen = retryCount[j]
  /\ report[n][j].pc \in {"release", "retry"} /\ ~report[n][j].ok =>
       /\ report[n][j].seen = retryCount[j]
       /\ owner[j] = n /\ status[j] \in {"failed", "deleted"}
  /\ report[n][j].pc = "retry" => ~report[n][j].ok

Counted ==
  /\ Calm
  /\ \A h \in Handlers : RetryKnown(h)
  /\ \A n \in Nodes, j \in Jobs : ReportKnown(n, j)

(* A job that has failed, or is gone, is changed by its own retry only. *)
LEMMA FailedStays ==
  ASSUME Calm, Quiet, NoRetries, [Next]_vars, NEW j \in Jobs,
         status[j] \in {"failed", "deleted"},
         \A g \in Handlers : ~RequeuedBy(g, j),
         \A m \in Nodes : ~RequeuedFor(m, j)
  PROVE  /\ status'[j] \in {"failed", "deleted"}
         /\ owner'[j] = owner[j] /\ retryCount'[j] = retryCount[j]
<1>a. JobTypes  BY DEF Calm, TypeInv, TypeOK
<1>1. ASSUME NEW g \in Handlers, BoundBy(g, j) \/ Swept(g, j) PROVE FALSE
  BY <1>1 DEF BoundBy, Bound, CanBind, Swept, Calm, HandlerCalm, SweepsSoundly
<1>2. ~Requested(j)
  BY DEF Requested, Asked, NoRetries
<1>3. CASE Moves(j)
  BY <1>a, <1>1, <1>2, <1>3
  DEF JobTypes, Moves, MoveTo, Inserted, Started, Dropped, Removed, Refused, Ended,
      Active, Terminal
<1>4. ASSUME NEW i \in Jobs, Moves(i), i # j
      PROVE  /\ status'[j] = status[j] /\ owner'[j] = owner[j]
             /\ retryCount'[j] = retryCount[j]
  BY <1>4, OthersStay
<1> QED  BY <1>3, <1>4, JobStep DEF Stays

(* A heartbeat that waits to retry an orphan is the only one to. *)
LEMMA RetryStaysKnown ==
  ASSUME Counted, Quiet, NoRetries, [Next]_vars, NEW h \in Handlers, hb'[h] = hb[h]
  PROVE  RetryKnown(h)'
<1> DEFINE n == hb[h].node  j == hb[h].cur
<1>1. CASE hb[h].pc \in {"reread", "retry"}
  <2>1. /\ n \in Nodes /\ j \in Jobs /\ work[n][j] = "none" /\ owner[j] = n
        /\ status[j] \in {"failed", "deleted"}
        /\ hb[h].pc = "retry" => hb[h].seen = retryCount[j]
    BY <1>1 DEF Counted, Calm, TypeInv, HandlerTypes, Shape, RetryKnown
  <2>2. ASSUME NEW g \in Handlers, RequeuedBy(g, j) PROVE FALSE
    <3>1. hb[g].node = n  BY <2>1, <2>2 DEF RequeuedBy, Counted, RetryKnown
    <3>2. g = h
      BY <1>1, <2>2, <3>1, OneServer DEF RequeuedBy, Counted
    <3> QED  BY <2>2, <3>2 DEF RequeuedBy
  <2>3. ASSUME NEW m \in Nodes, RequeuedFor(m, j) PROVE FALSE
    <3>1. owner[j] = m /\ work[m][j] = "reporting"
      BY <2>1, <2>3 DEF RequeuedFor, Counted, Calm, ReportCalm, ReportKnown
    <3> QED  BY <2>1, <3>1
  <2>4. work'[n][j] = "none"
    BY <1>1, <2>1, Undisturbed DEF Counted
  <2>5. /\ status'[j] \in {"failed", "deleted"}
        /\ owner'[j] = owner[j] /\ retryCount'[j] = retryCount[j]
    BY <2>1, <2>2, <2>3, FailedStays DEF Counted
  <2> QED  BY <1>1, <2>1, <2>4, <2>5 DEF RetryKnown
<1>2. CASE hb[h].pc \notin {"reread", "retry"}
  BY <1>2 DEF RetryKnown
<1> QED  BY <1>1, <1>2

(* A heartbeat reads the count of the job it has just failed. *)
LEMMA TurnKnowsRetry ==
  ASSUME Counted, Quiet, NEW h \in Handlers, HandlerStep(h)
  PROVE  RetryKnown(h)'
<1>a. /\ hb \in [Handlers -> HandlerRecord] /\ hb[h] \in HandlerRecord
      /\ Shape(hb[h]) /\ HandlerCalm(h) /\ RetryKnown(h)
      /\ JobTypes
  BY DEF Counted, Calm, TypeInv, TypeOK, HandlerTypes
<1>b. \A r : Continue(h, r) => hb'[h] = r
  BY <1>a DEF Continue
<1> USE DEF HandlerRecord
<1>1. CASE HbFailOrphan(h)
  <2>1. PICK j \in hb[h].orphans :
          /\ IF status[j] # "deleted" THEN Fail(j) ELSE UNCHANGED jobVars
          /\ hb'[h] = [hb[h] EXCEPT !.pc = "reread", !.cur = j, !.orphans = @ \ {j}]
    BY <1>1, <1>b DEF HbFailOrphan
  <2>2. /\ j \in Jobs /\ owner[j] = hb[h].node /\ status[j] = "running"
        /\ work[hb[h].node][j] = "none"
    BY <1>a, <2>1 DEF HandlerCalm, SweepsSoundly
  <2>3. work' = work /\ owner' = owner /\ status'[j] = "failed"
    BY <1>1, <1>a, <2>1, <2>2 DEF HbFailOrphan, Fail, JobTypes, agentVars
  <2>4. hb'[h].pc = "reread" /\ hb'[h].cur = j /\ hb'[h].node = hb[h].node
    BY <1>a, <2>1
  <2> QED  BY <2>2, <2>3, <2>4 DEF RetryKnown
<1>2. CASE HbReread(h)
  <2>1. /\ hb'[h] = [hb[h] EXCEPT !.pc = "retry", !.seen = retryCount[hb[h].cur]]
        /\ hb[h].pc = "reread" /\ work' = work
        /\ UNCHANGED <<status, owner, retryCount>>
    BY <1>2, <1>b DEF HbReread, agentVars, jobVars
  <2>2. /\ hb'[h].pc = "retry" /\ hb'[h].cur = hb[h].cur
        /\ hb'[h].node = hb[h].node /\ hb'[h].seen = retryCount[hb[h].cur]
    BY <1>a, <2>1
  <2> QED  BY <1>a, <2>1, <2>2 DEF RetryKnown
<1>3. CASE HbReadActive(h)
  <2>1. \E gone, used :
          hb'[h] = [hb[h] EXCEPT !.pc = "orphans", !.reported = {},
                                 !.orphans = gone, !.used = used]
    BY <1>3, <1>b DEF HbReadActive
  <2>2. hb'[h].pc = "orphans"  BY <1>a, <2>1
  <2> QED  BY <2>2 DEF RetryKnown
<1>4. CASE HbReadReported(h)
  <2>1. PICK j \in hb[h].todo :
          /\ hb[h].pc = "reports"
          /\ \/ hb'[h] = [hb[h] EXCEPT !.pc = "mark", !.cur = j, !.todo = @ \ {j},
                                       !.reported = @ \cup {j}]
             \/ hb'[h] = [hb[h] EXCEPT !.todo = @ \ {j}]
    BY <1>4, <1>b DEF HbReadReported
  <2>2. hb'[h].pc \in {"mark", "reports"}  BY <1>a, <2>1
  <2> QED  BY <2>2 DEF RetryKnown
<1>5. CASE HbMarkRunning(h) \/ HbRetryOrphan(h) \/ HbHold(h) \/ HbOffer(h)
  <2>1. \/ hb'[h] = [hb[h] EXCEPT !.pc = "reports", !.cur = NoJob]
        \/ hb'[h] = [hb[h] EXCEPT !.pc = "orphans", !.cur = NoJob, !.seen = 0]
        \/ hb'[h] = [hb[h] EXCEPT !.pc = "reply", !.enabled = FALSE, !.slots = 0,
                                  !.used = 0]
        \/ hb'[h] = [hb[h] EXCEPT !.pc = "pick",
                                  !.free = hb[h].slots - hb[h].used,
                                  !.enabled = FALSE, !.slots = 0, !.used = 0]
    BY <1>5, <1>b DEF HbMarkRunning, HbRetryOrphan, HbHold, HbOffer
  <2>2. hb'[h].pc \in {"reports", "orphans", "reply", "pick"}
    BY <1>a, <2>1
  <2> QED  BY <2>2 DEF RetryKnown
<1>6. CASE HbPick(h)
  <2>1. \/ \E j \in Jobs :
             hb'[h] = [hb[h] EXCEPT !.cur = j,
                         !.pc = IF <<j, hb[h].node>> \in Renders THEN "bind"
                                                               ELSE "refuse"]
        \/ hb'[h] = [hb[h] EXCEPT !.pc = "reply", !.free = 0]
    BY <1>6, <1>b DEF HbPick
  <2>2. hb'[h].pc \in {"bind", "refuse", "reply"}
    BY <1>a, <2>1
  <2> QED  BY <2>2 DEF RetryKnown
<1>7. CASE HbRefuse(h)
  <2>1. hb'[h] = [hb[h] EXCEPT !.pc = "pick", !.cur = NoJob, !.free = @ - 1]
    BY <1>7, <1>b DEF HbRefuse
  <2>2. hb'[h].pc = "pick"
    BY <1>a, <2>1
  <2> QED  BY <2>2 DEF RetryKnown
<1>8. CASE HbBind(h)
  <2>1. \/ hb'[h] = [hb[h] EXCEPT !.pc = "pick", !.cur = NoJob, !.free = @ - 1,
                                  !.payload = @ \cup {hb[h].cur}]
        \/ hb'[h] = [hb[h] EXCEPT !.pc = "reply", !.cur = NoJob, !.free = 0]
    BY <1>8, <1>b DEF HbBind
  <2>2. hb'[h].pc \in {"pick", "reply"}
    BY <1>a, <2>1
  <2> QED  BY <2>2 DEF RetryKnown
<1>9. CASE HbReply(h)
  BY <1>9, <1>b DEF HbReply, IdleHandler, RetryKnown
<1> QED
  BY <1>1, <1>2, <1>3, <1>4, <1>5, <1>6, <1>7, <1>8, <1>9 DEF HandlerStep

(* A completion that waits keeps the count it has read ... *)
LEMMA ReportStaysKnown ==
  ASSUME Counted, Quiet, NoRetries, [Next]_vars, NEW n \in Nodes, NEW j \in Jobs,
         report'[n][j] = report[n][j]
  PROVE  ReportKnown(n, j)'
<1>a. ReportKnown(n, j) /\ ReportCalm(n, j)  BY DEF Counted, Calm
<1>1. CASE report[n][j].pc = "checked"
  <2>1. status[j] # "failed"
    BY <1>1, <1>a DEF ReportCalm, Held, Active
  <2>2. retryCount'[j] = retryCount[j]
    BY <2>1, JobStep, OthersStay
    DEF Counted, Stays, Moves, MoveTo, Inserted, Started, Dropped, Removed,
        Requested, Refused, Asked, NoRetries, BoundBy, Swept, Ended, Requeued,
        RequeuedBy, RequeuedFor
  <2> QED  BY <1>1, <1>a, <2>2 DEF ReportKnown
<1>2. CASE report[n][j].pc \in {"release", "retry"} /\ ~report[n][j].ok
  <2>1. /\ report[n][j].seen = retryCount[j] /\ owner[j] = n
        /\ status[j] \in {"failed", "deleted"} /\ work[n][j] = "reporting"
    BY <1>2, <1>a DEF ReportKnown, ReportCalm
  <2>2. ASSUME NEW g \in Handlers, RequeuedBy(g, j) PROVE FALSE
    BY <2>1, <2>2 DEF RequeuedBy, Counted, RetryKnown
  <2>3. ASSUME NEW m \in Nodes, RequeuedFor(m, j) PROVE FALSE
    <3>1. m = n  BY <2>1, <2>3 DEF RequeuedFor, Counted, ReportKnown
    <3> QED  BY <2>3, <3>1 DEF RequeuedFor
  <2>4. /\ status'[j] \in {"failed", "deleted"}
        /\ owner'[j] = owner[j] /\ retryCount'[j] = retryCount[j]
    BY <2>1, <2>2, <2>3, FailedStays DEF Counted
  <2> QED  BY <1>2, <1>a, <2>1, <2>4 DEF ReportKnown
<1>3. CASE /\ report[n][j].pc # "checked"
           /\ ~(report[n][j].pc \in {"release", "retry"} /\ ~report[n][j].ok)
  BY <1>3, <1>a DEF ReportKnown
<1> QED  BY <1>1, <1>2, <1>3

(* ... through all of its statements. *)
LEMMA ServedReportKnown ==
  ASSUME Counted, NEW n \in Nodes, NEW j \in Jobs, ReportStep(n, j)
  PROVE  ReportKnown(n, j)'
<1>a. /\ report \in [Nodes -> [Jobs -> ReportRecord]] /\ JobTypes
      /\ ReportKnown(n, j) /\ ReportCalm(n, j) /\ Calm
  BY DEF Counted, Calm, TypeInv, TypeOK
<1>b. \A r : Respond(n, j, r) => report'[n][j] = r
  BY <1>a DEF Respond
<1>c. CASE report'[n][j] = NoReport
  BY <1>c DEF NoReport, ReportKnown
<1>1. CASE ReportCheck(n, j)
  <2>1. CASE report'[n][j].pc = "checked"
    BY <2>1, <1>a, CheckedNow DEF ReportKnown
  <2>2. CASE report'[n][j].pc # "checked"
    <3>1. \/ report'[n][j] = [report[n][j] EXCEPT !.pc = "checked",
                                                 !.seen = retryCount[j]]
          \/ report'[n][j] = NoReport
      BY <1>1, <1>b DEF ReportCheck
    <3>2. report[n][j] \in ReportRecord  BY <1>a
    <3>3. [report[n][j] EXCEPT !.pc = "checked", !.seen = retryCount[j]].pc = "checked"
      BY <3>2 DEF ReportRecord
    <3> QED  BY <1>c, <2>2, <3>1, <3>3
  <2> QED  BY <2>1, <2>2
<1>2. CASE ReportFinish(n, j)
  <2>1. CASE status[j] \in Active
    <3>1. /\ report[n][j].pc = "checked" /\ Finish(j, report[n][j].ok)
          /\ report'[n][j] = [report[n][j] EXCEPT !.pc = "release"]
      BY <1>2, <1>b, <2>1 DEF ReportFinish
    <3>2. /\ report'[n][j].pc = "release" /\ report'[n][j].ok = report[n][j].ok
          /\ report'[n][j].seen = report[n][j].seen
      BY <1>a, <3>1 DEF ReportRecord
    <3>3. /\ owner' = owner /\ retryCount' = retryCount
          /\ ~report[n][j].ok => status'[j] = "failed"
      BY <1>a, <3>1 DEF Finish, JobTypes
    <3>4. owner[j] = n /\ report[n][j].seen = retryCount[j]
      BY <1>a, <2>1, <3>1 DEF ReportKnown, ReportCalm, Held, Active
    <3> QED  BY <3>2, <3>3, <3>4 DEF ReportKnown
  <2>2. CASE status[j] \notin Active
    BY <1>2, <1>b, <1>c, <2>2 DEF ReportFinish
  <2> QED  BY <2>1, <2>2
<1>3. CASE ReportRelease(n, j)
  <2>1. CASE report[n][j].ok
    BY <1>3, <1>b, <1>c, <2>1 DEF ReportRelease
  <2>2. CASE ~report[n][j].ok
    <3>1. /\ report[n][j].pc = "release" /\ UNCHANGED <<status, owner, retryCount>>
          /\ report'[n][j] = [report[n][j] EXCEPT !.pc = "retry"]
      BY <1>3, <1>b, <2>2 DEF ReportRelease, jobVars
    <3>2. /\ report'[n][j].pc = "retry" /\ report'[n][j].ok = report[n][j].ok
          /\ report'[n][j].seen = report[n][j].seen
      BY <1>a, <3>1 DEF ReportRecord
    <3> QED  BY <1>a, <2>2, <3>1, <3>2 DEF ReportKnown
  <2> QED  BY <2>1, <2>2
<1>4. CASE ReportRetry(n, j)
  BY <1>4, <1>b, <1>c DEF ReportRetry
<1> QED  BY <1>1, <1>2, <1>3, <1>4 DEF ReportStep

(* It holds at the start, when there is nothing to retry. *)
LEMMA InitCounted == Init => Counted
BY InitCalm
DEF Init, Counted, RetryKnown, ReportKnown, IdleHandler, NoReport

(* The invariant is inductive. *)
LEMMA NextCounted ==
  ASSUME Quiet, NoRetries, Counted, [Next]_vars
  PROVE  Counted'
<1>a. Calm /\ hb \in [Handlers -> HandlerRecord]
  BY DEF Counted, Calm, TypeInv, TypeOK
<1>1. Calm'  BY <1>a, NextCalm
<1>2. ASSUME NEW h \in Handlers PROVE RetryKnown(h)'
  <2>1. CASE hb'[h] = IdleHandler
    BY <2>1 DEF IdleHandler, RetryKnown
  <2>2. ASSUME NEW n \in Nodes, SendHeartbeat(n, h) PROVE RetryKnown(h)'
    <3>1. hb'[h].pc = "reports"
      BY <1>a, <2>2 DEF SendHeartbeat, Continue, IdleHandler
    <3> QED  BY <3>1 DEF RetryKnown
  <2> QED
    BY <1>a, <2>1, <2>2, HandlerTurn, RetryStaysKnown, TurnKnowsRetry
    DEF HandlerTurns
<1>3. ASSUME NEW n \in Nodes, NEW j \in Jobs PROVE ReportKnown(n, j)'
  <2>1. CASE report'[n][j] = NoReport \/ report'[n][j].pc = "sent"
    BY <2>1 DEF NoReport, ReportKnown
  <2> QED
    BY <1>a, <2>1, ReportsStep, ReportStaysKnown, ServedReportKnown
    DEF ReportProceeds
<1> QED  BY <1>1, <1>2, <1>3 DEF Counted

(* Every automatic return to the queue uses up one retry of the budget,    *)
(* though the count it writes was read before the job was failed.          *)
THEOREM RetriesAlwaysCount ==
  ASSUME Quiet, NoRetries PROVE Spec => AutoRetryCounts
<1>1. ASSUME Counted, [Next]_vars, NEW j \in Jobs,
             status[j] = "failed", status'[j] = "pending"
      PROVE  retryCount'[j] = retryCount[j] + 1 /\ retryCount'[j] <= MaxRetries
  <2>a. JobTypes /\ MaxRetries \in Nat
    BY <1>1, LimitAssumption DEF Counted, Calm, TypeInv, TypeOK
  <2>1. \/ \E g \in Handlers : RequeuedBy(g, j)
        \/ \E m \in Nodes : RequeuedFor(m, j)
    BY <1>1, FailedStays DEF Counted
  <2>2. PICK seen : Requeued(j, seen) /\ seen = retryCount[j]
    <3>1. CASE \E g \in Handlers : RequeuedBy(g, j)
      BY <1>1, <3>1 DEF RequeuedBy, Counted, RetryKnown
    <3>2. CASE \E m \in Nodes : RequeuedFor(m, j)
      BY <1>1, <3>2 DEF RequeuedFor, Counted, ReportKnown
    <3> QED  BY <2>1, <3>1, <3>2
  <2>3. /\ retryCount[j] \in Nat /\ retryCount[j] < MaxRetries
        /\ retryCount'[j] = retryCount[j] + 1
    BY <2>a, <2>2 DEF Requeued, JobTypes
  <2> QED  BY <2>a, <2>3
<1>2. Counted /\ [Next]_vars =>
        [\A j \in Jobs :
           status[j] = "failed" /\ status'[j] = "pending" /\ ops' = ops =>
             /\ retryCount'[j] = retryCount[j] + 1
             /\ retryCount'[j] <= MaxRetries]_vars
  BY <1>1
<1>3. Counted /\ [Next]_vars => Counted'  BY NextCounted
<1> QED  BY <1>2, <1>3, InitCounted, PTL DEF Spec, AutoRetryCounts

-----------------------------------------------------------------------------
(* That an agent runs no more encodes than its node has slots.  Here no    *)
(* operator changes a cap or cancels a job: lowering the cap and           *)
(* cancelling an assigned job both leave an agent with encodes its node    *)
(* row no longer counts.                                                   *)

NothingTaken == {"cancel", "node"} \cap OperatorActions = {}

(* An agent never runs more encodes at once than its node has slots,       *)
(* although it counts by its own registry and the controller by the jobs   *)
(* table.                                                                  *)
THEOREM EncodersAlwaysWithinSlots ==
  ASSUME Quiet, NothingTaken PROVE Spec => []EncodersWithinSlots
<1>1. NoDeletes  BY DEF NothingTaken, NoDeletes, NeverAfterCancel
<1>2. Tidy /\ [Next]_vars => Tidy'  BY <1>1, NextTidy
<1>3. TypeInv /\ WithinCaps /\ [Next]_vars => WithinCaps'
  BY NextWithinCaps
<1>4. ASSUME Tidy, WithinCaps, NEW n \in Nodes
      PROVE  Cardinality({j \in Jobs : work[n][j] = "encoding"}) <= slots[n]
  <2> DEFINE encodes == {j \in Jobs : work[n][j] = "encoding"}
  <2>1. \A j \in Jobs : status[j] # "cancelled"
    BY <1>4 DEF NothingTaken, Tidy, Calm, NoneCancelled
  <2>2. encodes \subseteq ActiveOn(n)
    BY <1>4, <2>1 DEF Tidy, EncoderOwnsJob, ActiveOn
  <2>3. Cardinality(encodes) <= Cardinality(ActiveOn(n)) /\ IsFiniteSet(encodes)
    BY <2>2, ActiveFinite, FS_Subset
  <2>4. Cardinality(ActiveOn(n)) <= slots[n]
    BY <1>4 DEF WithinCaps, CapsFixed, NothingTaken
  <2>5. Cardinality(encodes) \in Nat /\ slots[n] \in Nat
    BY <1>4, <2>3, FS_CardinalityType DEF Tidy, Calm, TypeInv, TypeOK, NodeTypes
  <2> QED  BY <2>3, <2>4, <2>5, ActiveFinite
<1>5. Tidy /\ WithinCaps => EncodersWithinSlots
  BY <1>4 DEF EncodersWithinSlots
<1> QED
  BY <1>2, <1>3, <1>5, InitTidy, InitWithinCaps, TypeCorrect, PTL DEF Spec
=============================================================================
