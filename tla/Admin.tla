-------------------------------- MODULE Admin --------------------------------
(***************************************************************************)
(* The management plane: accounts, catalog and enrolment behind one pool   *)
(* of requests, and the backups over them all (api/backup.go,              *)
(* backup_pg.go): dumps that read table after table, the restore that puts *)
(* one in the place of the database, and the process that starts again and *)
(* seeds what it misses.                                                   *)
(*                                                                         *)
(* The backend is PostgreSQL.  A dump reads each table with a SELECT of    *)
(* its own; neighbours that nothing relates are read in one step.  A       *)
(* restored database would give out the ids of its lost rows again; here   *)
(* ids are the requests', so that is not modelled.                         *)
(***************************************************************************)
EXTENDS Accounts, Catalog, Enrol, Sequences

CONSTANTS
  MaxBackups,  \* scheduled dumps that are kept (24 in the code)
  MaxBoots     \* bound on restarts of the process

ASSUME AdminAssumption == MaxBackups \in Nat \ {0} /\ MaxBoots \in 0..1

VARIABLES
  file,      \* the backups directory: what each dump holds so far
  restored,  \* history: the dumps that were put back, and if they were whole
  boots      \* restarts so far

backupVars == <<file, restored>>
vars == <<req, accountVars, catalogVars, enrolVars, backupVars, boots>>

(* Mutant: the sessions are read before the users they belong to. *)
SessionsFirst == <<"flows", "sessions", "templates", "users", "jobs">>

(* The order of pgBackupTables.  What a dump has not reached is restored   *)
(* empty.                                                                  *)
Tables == <<"flows", "users", "templates", "sessions", "jobs">>

NoFlows == [flows |-> [f \in Flow |-> NoFlow], nodes |-> NoNodes]
NoUsers == [users |-> [u \in User |-> NoUser], apiToken |-> FALSE, codes |-> NoCodes]
NoTemplates == [custom |-> "gone", builtin |-> "gone", series |-> Nil, runs |-> NoRuns]
NoSessions == [s \in Session |-> NoSession]
NoJobs == [j \in Request |-> NoJob]

EmptyFile == [t \in {Tables[i] : i \in 1..Len(Tables)} |-> Nil]

Dumps == {q \in Request : req[q].op \in {"manualDump", "scheduledDump"}}
IsFile(d) == file[d] # Nil
Reached(f, table) == f[table] # Nil
Whole(f) == f # Nil /\ \A i \in 1..Len(Tables) : Reached(f, Tables[i])

Init ==
  /\ RequestsInit /\ AccountsInit /\ CatalogInit /\ EnrolInit
  /\ file = [q \in Request |-> Nil] /\ restored = {}
  /\ boots = 0

TypeOK ==
  /\ AccountsTypeOK /\ CatalogTypeOK /\ EnrolTypeOK
  /\ \A q \in Request : IsFile(q) => DOMAIN file[q] = DOMAIN EmptyFile
  /\ restored \subseteq [dump: Request, whole: BOOLEAN]
  /\ boots \in 0..MaxBoots

----------------------------------------------------------------------------
(* Dumps.                                                                  *)

(* TakeSnapshot makes the file, with the time in its name.  The scheduler  *)
(* takes one dump after the other, whatever operators take meanwhile.      *)
StartDump(q) ==
  /\ \/ Authorized /\ Begin(q, "manualDump", "table", Nil, Nil, Nil)
     \/ /\ \A p \in InService : req[p].op # "scheduledDump"
        /\ Begin(q, "scheduledDump", "table", Nil, Nil, Nil)
  /\ file' = [file EXCEPT ![q] = EmptyFile]
  /\ UNCHANGED restored

(* dumpPGTable reads a table. *)
Rows(table) ==
  CASE table = "flows"     -> [flows |-> flows, nodes |-> nodes]
    [] table = "users"     -> [users |-> users, apiToken |-> apiToken, codes |-> codes]
    [] table = "templates" -> [custom |-> custom, builtin |-> builtin,
                               series |-> series, runs |-> runs]
    [] table = "sessions"  -> sessions
    [] table = "jobs"      -> jobs

NextTable(f) ==
  Tables[CHOOSE i \in 1..Len(Tables) :
           ~Reached(f, Tables[i]) /\ \A k \in 1..i-1 : Reached(f, Tables[k])]

(* A file that was deleted meanwhile is written on to no effect; a         *)
(* scheduled dump goes on to prune.                                        *)
DumpTable(q) ==
  /\ q \in Dumps /\ req[q].pc = "table"
  /\ IF IsFile(q)
     THEN LET table == NextTable(file[q]) IN
          /\ file' = [file EXCEPT ![q][table] = Rows(table)]
          /\ IF table # Tables[Len(Tables)] THEN UNCHANGED req
             ELSE Goto(q, IF req[q].op = "scheduledDump" THEN "prune" ELSE "end")
     ELSE End(q) /\ UNCHANGED file
  /\ UNCHANGED restored

(* Scheduled files newest first, whole or not; those beyond the cap go. *)
PruneScheduled(q) ==
  LET scheduled == {d \in Dumps : IsFile(d) /\ req[d].op = "scheduledDump"}
      newer(d) == {e \in scheduled : e > d}
  IN
  /\ At(q, "scheduledDump", "prune")
  /\ file' = [d \in Request |->
       IF d \in scheduled /\ Cardinality(newer(d)) >= MaxBackups THEN Nil ELSE file[d]]
  /\ End(q)
  /\ UNCHANGED restored

DeleteBackup(q) ==
  \E d \in Request :
    /\ Authorized /\ IsFile(d)
    /\ Begin(q, "deleteBackup", "end", d, Nil, Nil)
    /\ file' = [file EXCEPT ![d] = Nil]
    /\ UNCHANGED restored

BackupArrive(q) ==
  (StartDump(q) \/ DeleteBackup(q)) /\ UNCHANGED <<accountVars, catalogVars, enrolVars>>

BackupStep(q) ==
  (DumpTable(q) \/ PruneScheduled(q)) /\ UNCHANGED <<accountVars, catalogVars, enrolVars>>

----------------------------------------------------------------------------
(* The restore.                                                            *)

ActiveJobs == {j \in Request : jobs[j].status = "active"}

(* Mutant: the jobs are not looked at. *)
RestoreArrivesUnchecked(q) ==
  \E d \in Request :
    /\ Authorized /\ IsFile(d)
    /\ Begin(q, "restore", "replay", d, Nil, Nil)
    /\ UNCHANGED <<accountVars, catalogVars, enrolVars, backupVars>>

(* handleBackupRestore: the file is there, and no job is active. *)
RestoreArrives(q) ==
  \E d \in Request :
    /\ Authorized /\ IsFile(d) /\ ActiveJobs = {}
    /\ Begin(q, "restore", "replay", d, Nil, Nil)
    /\ UNCHANGED <<accountVars, catalogVars, enrolVars, backupVars>>

Content(f, table, empty) == IF Reached(f, table) THEN f[table] ELSE empty
OrphanJobs(f) ==
  LET rows == Content(f, "jobs", NoJobs) parents == Content(f, "flows", NoFlows).flows IN
  {j \in Request : rows[j] # NoJob /\ parents[rows[j].flow] = NoFlow}
OrphanSessions(f) ==
  LET rows == Content(f, "sessions", NoSessions)
      parents == Content(f, "users", NoUsers).users
  IN {s \in Session : rows[s] # NoSession /\ parents[rows[s].user] = NoUser}

(* restorePG: every row of the file in one transaction, which the foreign  *)
(* keys make fail as a whole.  The lines of a file that ends early are as  *)
(* good as any.                                                            *)
Replay(q) ==
  LET f == file[req[q].on] IN
  /\ At(q, "restore", "replay")
  /\ End(q)
  /\ IF f # Nil /\ OrphanJobs(f) = {} /\ OrphanSessions(f) = {}
     THEN LET fs == Content(f, "flows", NoFlows)
              us == Content(f, "users", NoUsers)
              ts == Content(f, "templates", NoTemplates)
          IN
          /\ flows' = fs.flows /\ nodes' = fs.nodes
          /\ users' = us.users /\ apiToken' = us.apiToken /\ codes' = us.codes
          /\ custom' = ts.custom /\ builtin' = ts.builtin /\ series' = ts.series
          /\ runs' = ts.runs
          /\ sessions' = Content(f, "sessions", NoSessions)
          /\ jobs' = Content(f, "jobs", NoJobs)
          /\ restored' = restored \cup {[dump |-> req[q].on, whole |-> Whole(f)]}
          /\ UNCHANGED <<stage, file>>
     ELSE UNCHANGED <<accountVars, catalogVars, enrolVars, backupVars>>

----------------------------------------------------------------------------
Arrive(q) ==
  /\ Arriving(q)
  /\ \/ AccountsArrive(q) /\ UNCHANGED <<catalogVars, enrolVars, backupVars>>
     \/ Authorized /\ CatalogArrive(q) /\ UNCHANGED <<accountVars, enrolVars, backupVars>>
     \/ CreateJobArrives(q) /\ UNCHANGED <<accountVars, enrolVars, backupVars>>
     \/ Authorized /\ EnrolArrive(q) /\ UNCHANGED <<accountVars, catalogVars, backupVars>>
     \/ PairArrives(q) /\ UNCHANGED <<accountVars, catalogVars, backupVars>>
     \/ BackupArrive(q)
     \/ RestoreArrives(q)
  /\ UNCHANGED boots

Step(q) ==
  /\ q \in InService
  /\ \/ AccountsStep(q) /\ UNCHANGED <<catalogVars, enrolVars, backupVars>>
     \/ CatalogStep(q) /\ UNCHANGED <<accountVars, enrolVars, backupVars>>
     \/ EnrolStep(q) /\ UNCHANGED <<accountVars, catalogVars, backupVars>>
     \/ BackupStep(q)
     \/ Replay(q)
  /\ UNCHANGED boots

(* A handler that is cut off before it has written anything might as well  *)
(* not have come.                                                          *)
ClientLeaves(q) ==
  /\ req[q].pc \in {"revoke", "resolve", "consume", "mark", "rollBack", "table", "prune"}
  /\ CutOff(q)
  /\ UNCHANGED <<accountVars, catalogVars, enrolVars, backupVars, boots>>

Background(q) ==
  Provision(q) /\ UNCHANGED <<accountVars, catalogVars, backupVars, boots>>

Restart ==
  /\ AskedFor("restart") /\ boots < MaxBoots /\ boots' = boots + 1
  /\ AllCutOff /\ AccountsBoot /\ CatalogBoot /\ EnrolBoot
  /\ UNCHANGED backupVars

Farm == FinishJob /\ UNCHANGED <<req, accountVars, enrolVars, backupVars, boots>>

Next ==
  \/ \E q \in Request : Arrive(q) \/ Step(q) \/ ClientLeaves(q) \/ Background(q)
  \/ Restart
  \/ Farm

Spec == Init /\ [][Next]_vars

----------------------------------------------------------------------------
(* Properties.  Every one says which requests, in service together, can    *)
(* get past a check that is made before the statement it is for.           *)

Ops(q, ops) == req[q].op \in ops
Race(first, second) ==
  \E p, q \in Request : Ops(p, first) /\ Ops(q, second) /\ Overlap(p, q)

RestoredInPart == \E r \in restored : ~r.whole
RestoredDump(q) == \E r \in restored : r.dump = q

(* A request that may leave u with another password than it has found.     *)
Repasses(q, u) == (Ops(q, {"password"}) /\ req[q].on = u) \/ Ops(q, {"restore"})

(* "cannot delete the last admin account" (handlers_users.go:188): it      *)
(* happens by two deletions in service together, or by one that counted    *)
(* what a restore then put away, and by nothing else but a restore of a    *)
(* dump that was cut off.                                                  *)
LastAdminStays ==
  Administrators = {} =>
    Race({"deleteUser"}, {"deleteUser", "restore"}) \/ RestoredInPart

(* A password change ends the sessions opened with the old one             *)
(* (auth_handlers.go:226, handlers_users.go:247): one that is older than   *)
(* its owner's password waits for the second statement, survived because   *)
(* that was never made, or comes from a login or a dump that had read the  *)
(* rows before the change, or before a restore.                            *)
SessionsFollowPassword ==
  \A s \in Session :
    LET u == sessions[s].user IN
    u # Nil /\ sessions[s].proof < users[u].pass =>
      \/ \E q \in Request :
           Ops(q, {"password"}) /\ req[q].on = u /\ req[q].pc \in {"revoke", "cut"}
      \/ \E p, q \in Request :
           Repasses(q, u) /\ Overlap(p, q) /\ (p = s \/ RestoredDump(p))

(* A job without an explicit flow always finds one, and only one: at most  *)
(* one flow is flagged, and the configured default flow, which "is         *)
(* protected" (handlers.go:1382), goes only after it was renamed.          *)
DefaultFlowStays ==
  /\ Cardinality(Flagged) <= 1
  /\ Named(DefaultFlow) = {} =>
       \/ \E q \in Request : Ops(q, {"updateFlow"}) /\ req[q].seen = DefaultFlow
       \/ RestoredInPart

(* No flow is left with a step whose template is gone, but by a deletion   *)
(* of the template, or a restore, while somebody wrote a flow; by a        *)
(* deletion that looked the flows through before a restore; or when a dump *)
(* that was put back later had read the one table before such a step and   *)
(* the other after it.                                                     *)
FlowsRender ==
  (\E f \in Flow : ~Renders(flows[f].uses)) =>
    \/ Race({"deleteTemplate", "restore"}, {"createFlow", "updateFlow", "importFlow"})
    \/ Race({"deleteTemplate"}, {"restore"})
    \/ \E p, q \in Request :
         Ops(p, {"deleteTemplate", "restore"}) /\ RestoredDump(q) /\ Overlap(p, q)
    \/ RestoredInPart

(* "a restore mid-flight would lose in-flight work" (backup.go:422): it    *)
(* takes away an unfinished job only if that was created, or queued again, *)
(* after it had counted.                                                   *)
RestoreSparesQueue ==
  [][\A q \in Request : \A j \in ActiveJobs :
       At(q, "restore", "replay") /\ req'[q] # req[q] /\ jobs'[j] # jobs[j] =>
         \E p \in Request :
           /\ Ops(p, {"createJob", "finishedJob", "restore"})
           /\ Overlap(p, q)]_vars

(* A whole dump can be put back: no row in it lacks the row it refers to,  *)
(* unless a job or a session was written while the dump was read.          *)
DumpsCanBeRestored ==
  \A d \in Request :
    Whole(file[d]) =>
      /\ OrphanJobs(file[d]) # {} =>
           \E q \in Request : Ops(q, {"createJob", "patchJob", "restore"}) /\ Overlap(q, d)
      /\ OrphanSessions(file[d]) # {} =>
           \E q \in Request : Ops(q, {"login", "restore"}) /\ Overlap(q, d)

(* "one-shot semantics" (ConsumePairingCode): two nodes come from one code *)
(* only by two pairings in service together, or when the database has been *)
(* put back to a time before the first.                                    *)
CodeIsOneShot ==
  \A p, q \in Request :
    (p # q /\ Ops(p, {"pair"}) /\ Ops(q, {"pair"}) /\ req[p].on = req[q].on
     /\ req[p].seen = 1 /\ req[q].seen = 1)
    => Overlap(p, q) \/ restored # {}

(* A pairing leaves no "residue" (handleAgentPair): a node whose token     *)
(* nobody was sent is being paired still, or its pairing was cut off, when *)
(* the rollback is, too, or a dump had read it.                            *)
PairingLeavesNoResidue ==
  \A q \in Request :
    nodes[q] # Nil => req[q].seen = 1 \/ req[q].pc # "end" \/ restored # {}

(* No run shows as queued or running for ever (ReconcileStaleRuns): its    *)
(* goroutine is at work, or the row was put back by a restore, or so many  *)
(* newer ones were there at the restart that it was not listed.            *)
RunsAreAlive ==
  \A q \in Request :
    Active(runs[q]) => \/ stage[q] # "none" \/ restored # {}
                       \/ q \notin Newest(runs, ListedRuns)
=============================================================================
