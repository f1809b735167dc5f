-------------------------------- MODULE Enrol --------------------------------
(***************************************************************************)
(* How nodes come to be registered: pairing codes and the agent that       *)
(* presents one (api/handlers_templates.go, store/store_ext.go), and the   *)
(* provisioning runs that install an agent with a code of their own        *)
(* (provision/engine.go, api/handlers_provision.go).                       *)
(*                                                                         *)
(* Codes, node rows and runs are named by the request that made them.      *)
(* What a run does on the machine is its outcome; its log is left out.     *)
(***************************************************************************)
EXTENDS Requests, FiniteSets

CONSTANTS
  NodeName,   \* names agents ask for
  KeepRuns,   \* newest runs PruneProvisionRuns keeps (50 in the code)
  ListedRuns  \* newest runs ListProvisionRuns returns (25 in the code)

ASSUME EnrolAssumption ==
  /\ Nil \notin NodeName
  /\ KeepRuns \in Nat /\ ListedRuns \in 0..KeepRuns

VARIABLES
  codes,   \* the pairing_codes table
  nodes,   \* the nodes table: the name of each row
  runs,    \* the provision_runs table
  stage    \* where the goroutine of each run is

enrolVars == <<codes, nodes, runs, stage>>

NoCodes == [q \in Request |-> "none"]
NoNodes == [q \in Request |-> Nil]
NoRuns == [q \in Request |-> "none"]

EnrolTypeOK ==
  /\ codes \in [Request -> {"none", "open", "used", "expired"}]
  /\ nodes \in [Request -> NodeName \cup {Nil}]
  /\ runs \in [Request -> {"none", "queued", "running", "success", "failed"}]
  /\ stage \in [Request -> {"none", "waiting", "loading", "staging", "pairing",
                          "launching", "playing"}]

EnrolInit == codes = NoCodes /\ nodes = NoNodes /\ runs = NoRuns /\ stage = NoRuns

----------------------------------------------------------------------------
(* Pairing.                                                                *)

(* handleCreatePairingCode: one statement. *)
CreatePairingCode(q) ==
  /\ Begin(q, "pairingCode", "end", Nil, Nil, Nil)
  /\ codes' = [codes EXCEPT ![q] = "open"]
  /\ UNCHANGED <<nodes, runs, stage>>

(* handleAgentPair: PeekPairingCode finds the code unused and unexpired.   *)
PairArrives(q) ==
  /\ \E c \in Request, name \in NodeName :
       codes[c] = "open" /\ Begin(q, "pair", "create", c, name, Nil)
  /\ UNCHANGED enrolVars

(* CreateNode: the UNIQUE constraint on the name. *)
CreateNode(q) ==
  /\ At(q, "pair", "create")
  /\ IF \E p \in Request : nodes[p] = req[q].with
     THEN End(q) /\ UNCHANGED nodes
     ELSE Goto(q, "consume") /\ nodes' = [nodes EXCEPT ![q] = req[q].with]
  /\ UNCHANGED <<codes, runs, stage>>

(* Mutant: a code that is no longer good ends the request at once. *)
CheckCodeOnly(q) ==
  /\ At(q, "pair", "consume")
  /\ Goto(q, IF codes[req[q].on] = "open" THEN "mark" ELSE "end")
  /\ UNCHANGED enrolVars

(* ConsumePairingCode is a transaction of a SELECT and an UPDATE by id; at *)
(* READ COMMITTED another one may get between them.                        *)
CheckCode(q) ==
  /\ At(q, "pair", "consume")
  /\ Goto(q, IF codes[req[q].on] = "open" THEN "mark" ELSE "rollBack")
  /\ UNCHANGED enrolVars

(* Mutant: the code is not marked. *)
MarkNothing(q) ==
  /\ At(q, "pair", "mark")
  /\ req' = [req EXCEPT ![q].pc = "end", ![q].seen = 1]
  /\ UNCHANGED enrolVars

(* The answer carries the token of the node; "seen" tells that it was sent. *)
MarkCode(q) ==
  LET c == req[q].on IN
  /\ At(q, "pair", "mark")
  /\ codes' = IF codes[c] = "none" THEN codes ELSE [codes EXCEPT ![c] = "used"]
  /\ req' = [req EXCEPT ![q].pc = "end", ![q].seen = 1]
  /\ UNCHANGED <<nodes, runs, stage>>

RollBackNode(q) ==
  /\ At(q, "pair", "rollBack")
  /\ nodes' = [nodes EXCEPT ![q] = Nil]
  /\ End(q)
  /\ UNCHANGED <<codes, runs, stage>>

(* handleCreateNode: an operator registers a node and hands out its token. *)
AddNode(q) ==
  \E name \in NodeName :
    /\ \A p \in Request : nodes[p] # name
    /\ Begin(q, "createNode", "end", Nil, name, 1)
    /\ nodes' = [nodes EXCEPT ![q] = name]
    /\ UNCHANGED <<codes, runs, stage>>

(* handleDeleteNode of a node without work; Dispatch has those with work.  *)
DeleteNode(q) ==
  \E n \in Request :
    /\ nodes[n] # Nil
    /\ Begin(q, "deleteNode", "end", n, Nil, Nil)
    /\ nodes' = [nodes EXCEPT ![n] = Nil]
    /\ UNCHANGED <<codes, runs, stage>>

(* The hour of a code is over. *)
Expire(c) ==
  /\ codes[c] = "open"
  /\ codes' = [codes EXCEPT ![c] = "expired"]
  /\ UNCHANGED <<req, nodes, runs, stage>>

----------------------------------------------------------------------------
(* Provisioning.                                                           *)

Active(s) == s \in {"queued", "running"}
Newest(table, n) ==
  {q \in Request : table[q] # "none"
                   /\ Cardinality({p \in Request : p > q /\ table[p] # "none"}) < n}

(* Start inserts the row, launches the goroutine and prunes: finished runs *)
(* that are not among the newest.                                          *)
StartRun(q) ==
  LET table == [runs EXCEPT ![q] = "queued"] IN
  /\ Begin(q, "provision", "end", Nil, Nil, Nil)
  /\ runs' = [p \in Request |->
       IF Active(table[p]) \/ p \in Newest(table, KeepRuns) THEN table[p] ELSE "none"]
  /\ stage' = [stage EXCEPT ![q] = "waiting"]
  /\ UNCHANGED <<codes, nodes>>

(* SetProvisionRunStatus writes whatever the row says, if it is there.     *)
SetRun(q, status) == runs' = IF runs[q] = "none" THEN runs ELSE [runs EXCEPT ![q] = status]

Engaged == {q \in Request : stage[q] \notin {"none", "waiting"}}

(* One run at a time has the engine. *)
LockEngine(q) ==
  /\ stage[q] = "waiting" /\ Engaged = {}
  /\ stage' = [stage EXCEPT ![q] = "loading"]
  /\ SetRun(q, "running")
  /\ UNCHANGED <<req, codes, nodes>>

(* The goroutine ends, and the row says how. *)
EndRun(q, outcome) == SetRun(q, outcome) /\ stage' = [stage EXCEPT ![q] = "none"]

(* A stage of the run is passed, or ends it. *)
Pass(q, from, to) ==
  /\ stage[q] = from
  /\ \/ stage' = [stage EXCEPT ![q] = to] /\ UNCHANGED runs
     \/ EndRun(q, "failed")

(* Settings and shares; the published payloads; inventory, variables and   *)
(* playbook.                                                               *)
LoadContext(q)   == Pass(q, "loading", "staging") /\ UNCHANGED <<req, codes, nodes>>
StagePayloads(q) == Pass(q, "staging", "pairing") /\ UNCHANGED <<req, codes, nodes>>
Launch(q)        == Pass(q, "launching", "playing") /\ UNCHANGED <<req, codes, nodes>>

(* The code that the playbook gets, good for an hour whatever becomes of   *)
(* the run.                                                                *)
IssuePairing(q) ==
  /\ stage[q] = "pairing"
  /\ \/ /\ stage' = [stage EXCEPT ![q] = "launching"]
        /\ codes' = [codes EXCEPT ![q] = "open"]
        /\ UNCHANGED runs
     \/ EndRun(q, "failed") /\ UNCHANGED codes
  /\ UNCHANGED <<req, nodes>>

(* The playbook ends, or its time is up. *)
Play(q) ==
  /\ stage[q] = "playing"
  /\ \E outcome \in {"success", "failed"} : EndRun(q, outcome)
  /\ UNCHANGED <<req, codes, nodes>>

EnrolArrive(q) ==
  CreatePairingCode(q) \/ AddNode(q) \/ DeleteNode(q) \/ StartRun(q)

EnrolStep(q) == CreateNode(q) \/ CheckCode(q) \/ MarkCode(q) \/ RollBackNode(q)

Provision(q) ==
  \/ Expire(q) \/ LockEngine(q) \/ LoadContext(q) \/ StagePayloads(q)
  \/ IssuePairing(q) \/ Launch(q) \/ Play(q)

(* Mutant: only the runs that had begun are failed. *)
EnrolBootRunningOnly ==
  /\ stage' = NoRuns
  /\ runs' = [q \in Request |-> IF runs[q] = "running" THEN "failed" ELSE runs[q]]
  /\ UNCHANGED <<codes, nodes>>

(* A restart ends the goroutines; ReconcileStaleRuns fails what they left  *)
(* unfinished, as far as it is listed.                                     *)
EnrolBoot ==
  /\ stage' = NoRuns
  /\ runs' = [q \in Request |->
       IF Active(runs[q]) /\ q \in Newest(runs, ListedRuns) THEN "failed" ELSE runs[q]]
  /\ UNCHANGED <<codes, nodes>>
=============================================================================
