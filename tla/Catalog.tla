------------------------------- MODULE Catalog -------------------------------
(***************************************************************************)
(* The flows, the step templates they are made of, the series and the jobs *)
(* that name a flow (api/handlers.go, handlers_ext.go,                     *)
(* handlers_flows_dup.go, handlers_templates.go; the tables of             *)
(* store/store.go and store_ext.go), and what a starting process seeds     *)
(* (api/server.go).                                                        *)
(*                                                                         *)
(* There is one custom template and one built-in; what a flow uses is the  *)
(* custom one, or Nil for built-ins only.  A script is one of a few        *)
(* versions.  A row is named by the request that inserted it.  The         *)
(* statements are PostgreSQL's at READ COMMITTED; under SQLite fewer       *)
(* orders of them occur.                                                   *)
(***************************************************************************)
EXTENDS Requests, FiniteSets

CONSTANTS
  DefaultFlow,  \* the seeded flow that has the configured default name
  OtherFlow,    \* a flow that uses the custom template
  FlowName,     \* the names flows may have, those two among them
  Custom,       \* the custom template
  Reseeded      \* the row a starting process inserts

ASSUME CatalogAssumption ==
  /\ {DefaultFlow, OtherFlow} \subseteq FlowName /\ DefaultFlow # OtherFlow
  /\ {DefaultFlow, OtherFlow, Custom, Reseeded, Nil} \cap Request = {}
  /\ Nil \notin {Custom, Reseeded} \cup FlowName
  /\ Reseeded \notin {DefaultFlow, OtherFlow}

VARIABLES
  flows,     \* the flows table: name, what the steps use, default flag
  custom,    \* the script of the custom template
  builtin,   \* the script of the built-in template
  series,    \* the flow the series has selected
  jobs       \* the jobs table: flow and whether it is over

catalogVars == <<flows, custom, builtin, series, jobs>>

Flow == {DefaultFlow, OtherFlow, Reseeded} \cup Request
NoFlow == [name |-> Nil, uses |-> Nil, flag |-> FALSE]
NoJob == [flow |-> Nil, status |-> "none"]

CatalogTypeOK ==
  /\ flows \in [Flow -> [name: FlowName \cup {Nil}, uses: {Nil, Custom}, flag: BOOLEAN]]
  /\ custom \in {"gone", "ours", "theirs"}
  /\ builtin \in {"gone", "older", "factory", "edited"}
  /\ series \in Flow \cup {Nil}
  /\ jobs \in [Request -> [flow: Flow \cup {Nil}, status: {"none", "active", "over"}]]

CatalogInit ==
  /\ flows = [f \in Flow |->
       CASE f = DefaultFlow -> [name |-> f, uses |-> Nil, flag |-> TRUE]
         [] f = OtherFlow -> [name |-> f, uses |-> Custom, flag |-> FALSE]
         [] OTHER -> NoFlow]
  /\ custom = "ours"
  /\ builtin = "older"
  /\ series = Nil
  /\ jobs = [j \in Request |-> NoJob]

IsFlow(f) == f \in Flow /\ flows[f] # NoFlow
Named(name) == {f \in Flow : flows[f].name = name}
Flagged == {f \in Flow : flows[f].flag}

(* ValidateForRender: every step's template is there. *)
Renders(uses) == uses = Custom => custom # "gone"

(* resolveFlow without an explicit id: the series' choice if it is still   *)
(* there, the flagged flow, the flow of the configured name.               *)
ResolveFlow ==
  IF IsFlow(series) THEN {series}
  ELSE IF Flagged # {} THEN Flagged ELSE Named(DefaultFlow)

----------------------------------------------------------------------------
(* What a handler reads first; some are done with one statement.           *)

(* handleCreateFlow checks the steps; handleDuplicateFlow takes them from  *)
(* the row it reads.                                                       *)
CreateFlowArrives(q) ==
  \E name \in FlowName, uses \in {Nil, Custom} :
    Renders(uses) /\ Begin(q, "createFlow", "insert", name, uses, Nil)

DuplicateArrives(q) ==
  \E f \in Flow, name \in FlowName :
    IsFlow(f) /\ Begin(q, "createFlow", "insert", name, flows[f].uses, Nil)

(* handleUpdateFlow: what the request leaves out comes from the row read.  *)
UpdateFlowArrives(q) ==
  \E f \in Flow :
    /\ IsFlow(f)
    /\ \E name \in FlowName, uses \in {Nil, Custom} :
         /\ name = flows[f].name \/ uses = flows[f].uses
         /\ Renders(uses)
         /\ Begin(q, "updateFlow", "write", f, [name |-> name, uses |-> uses], flows[f].name)

(* handleDeleteFlow: the configured default is protected by its name.      *)
DeleteFlowArrives(q) ==
  \E f \in Flow :
    /\ IsFlow(f) /\ flows[f].name # DefaultFlow
    /\ Begin(q, "deleteFlow", "count", f, Nil, Nil)

(* SetDefaultFlow: a transaction that checks the row first. *)
SetDefaultArrives(q) ==
  \E f \in Flow : IsFlow(f) /\ Begin(q, "setDefault", "write", f, Nil, Nil)

(* handleImportFlow of a flow that brings the custom template along: an    *)
(* absent one is inserted, the same one passed over, another one refused.  *)
ImportLooksUp(q) ==
  /\ custom \in {"gone", "theirs"}
  /\ Begin(q, "importFlow", IF custom = "gone" THEN "upsert" ELSE "resolve",
           Nil, Custom, Nil)

(* handleUpdateStepTemplate of the custom template. *)
UpdateTemplateArrives(q) ==
  custom # "gone" /\ Begin(q, "updateTemplate", "write", Custom, Nil, Nil)

(* Mutant: the flows are not looked through. *)
DeleteUsedTemplateArrives(q) ==
  custom # "gone" /\ Begin(q, "deleteTemplate", "write", Custom, Nil, Nil)

(* DeleteStepTemplate: no flow refers to it. *)
DeleteTemplateArrives(q) ==
  /\ custom # "gone"
  /\ \A f \in Flow : flows[f].uses # Custom
  /\ Begin(q, "deleteTemplate", "write", Custom, Nil, Nil)

(* handlePatchSeries and handlePatchJob check the flow they are given.     *)
PatchSeriesArrives(q) ==
  \E f \in Flow : IsFlow(f) /\ Begin(q, "patchSeries", "write", f, Nil, Nil)

PatchJobArrives(q) ==
  \E f \in Flow, j \in Request :
    /\ IsFlow(f) /\ jobs[j].status = "active"
    /\ Begin(q, "patchJob", "write", f, j, Nil)

(* Handlers of one statement: a template created over whatever has its     *)
(* key, the built-in reset, a finished job retried or deleted.             *)
CreateTemplate(q) ==
  /\ \/ custom' \in {"ours", "theirs"} /\ UNCHANGED builtin
     \/ builtin' = "edited" /\ UNCHANGED custom
  /\ Begin(q, "createTemplate", "end", Nil, Nil, Nil)
  /\ UNCHANGED <<flows, series, jobs>>

ResetTemplate(q) ==
  /\ builtin' = "factory"
  /\ Begin(q, "resetTemplate", "end", Nil, Nil, Nil)
  /\ UNCHANGED <<flows, custom, series, jobs>>

RequeueOrDeleteJob(q) ==
  \E j \in Request :
    /\ jobs[j].status = "over"
    /\ jobs' \in {[jobs EXCEPT ![j].status = "active"], [jobs EXCEPT ![j] = NoJob]}
    /\ Begin(q, "finishedJob", "end", j, Nil, Nil)
    /\ UNCHANGED <<flows, custom, builtin, series>>

CatalogArrive(q) ==
  \/ /\ \/ CreateFlowArrives(q) \/ DuplicateArrives(q) \/ UpdateFlowArrives(q)
        \/ DeleteFlowArrives(q) \/ SetDefaultArrives(q) \/ ImportLooksUp(q)
        \/ UpdateTemplateArrives(q) \/ DeleteTemplateArrives(q)
        \/ PatchSeriesArrives(q) \/ PatchJobArrives(q)
     /\ UNCHANGED catalogVars
  \/ CreateTemplate(q) \/ ResetTemplate(q) \/ RequeueOrDeleteJob(q)

(* handleCreateJob by an operator, and the scanner's job of an episode:    *)
(* the flow is resolved.                                                   *)
CreateJobArrives(q) ==
  /\ \E f \in ResolveFlow \cup {g \in Flow : IsFlow(g)} :
       Begin(q, "createJob", "insert", f, Nil, Nil)
  /\ UNCHANGED catalogVars

----------------------------------------------------------------------------
(* What it does then.                                                      *)

InsertFlow(q) ==
  /\ req[q].op \in {"createFlow", "importFlow"} /\ req[q].pc = "insert"
  /\ flows' = IF Named(req[q].on) # {} THEN flows
              ELSE [flows EXCEPT ![q] =
                      [name |-> req[q].on, uses |-> req[q].with, flag |-> FALSE]]
  /\ End(q)
  /\ UNCHANGED <<custom, builtin, series, jobs>>

(* UpdateFlow: the whole row but the flag, if it is there and the name is  *)
(* nobody else's.                                                          *)
WriteFlow(q) ==
  LET f == req[q].on new == req[q].with IN
  /\ At(q, "updateFlow", "write")
  /\ flows' = IF IsFlow(f) /\ Named(new.name) \subseteq {f}
              THEN [flows EXCEPT ![f].name = new.name, ![f].uses = new.uses]
              ELSE flows
  /\ End(q)
  /\ UNCHANGED <<custom, builtin, series, jobs>>

Referenced(f) == \E j \in Request : jobs[j].flow = f

CountJobs(q) ==
  /\ At(q, "deleteFlow", "count")
  /\ Goto(q, IF Referenced(req[q].on) THEN "end" ELSE "write")
  /\ UNCHANGED catalogVars

(* The foreign key of jobs.flow_id refuses what the count has missed. *)
DeleteFlow(q) ==
  /\ At(q, "deleteFlow", "write")
  /\ flows' = IF Referenced(req[q].on) THEN flows ELSE [flows EXCEPT ![req[q].on] = NoFlow]
  /\ End(q)
  /\ UNCHANGED <<custom, builtin, series, jobs>>

(* Mutant: the other flags stay. *)
SetOneMoreFlag(q) ==
  /\ At(q, "setDefault", "write")
  /\ flows' = [f \in Flow |-> [flows[f] EXCEPT !.flag = @ \/ (f = req[q].on /\ IsFlow(f))]]
  /\ End(q)
  /\ UNCHANGED <<custom, builtin, series, jobs>>

(* All flags are cleared, and the flow's is set if it is still there. *)
SetDefaultFlow(q) ==
  /\ At(q, "setDefault", "write")
  /\ flows' = [f \in Flow |-> [flows[f] EXCEPT !.flag = (f = req[q].on /\ IsFlow(f))]]
  /\ End(q)
  /\ UNCHANGED <<custom, builtin, series, jobs>>

UpsertImported(q) ==
  /\ At(q, "importFlow", "upsert")
  /\ custom' = "theirs"
  /\ Goto(q, "resolve")
  /\ UNCHANGED <<flows, builtin, series, jobs>>

(* The steps are resolved, and a name is chosen that is free. *)
ResolveSteps(q) ==
  LET free == {name \in FlowName : Named(name) = {}} IN
  /\ At(q, "importFlow", "resolve")
  /\ IF Renders(Custom) /\ free # {}
     THEN \E name \in free :
            req' = [req EXCEPT ![q].on = name, ![q].pc = "insert"]
     ELSE End(q)
  /\ UNCHANGED catalogVars

(* UpsertStepTemplate: by its key, so a template deleted since it was read *)
(* comes back.                                                             *)
WriteTemplate(q) ==
  /\ At(q, "updateTemplate", "write")
  /\ custom' \in {"ours", "theirs"}
  /\ End(q)
  /\ UNCHANGED <<flows, builtin, series, jobs>>

DeleteTemplate(q) ==
  /\ At(q, "deleteTemplate", "write")
  /\ custom' = "gone"
  /\ End(q)
  /\ UNCHANGED <<flows, builtin, series, jobs>>

SetSeriesFlow(q) ==
  /\ At(q, "patchSeries", "write")
  /\ series' = req[q].on
  /\ End(q)
  /\ UNCHANGED <<flows, custom, builtin, jobs>>

(* PatchPendingJob; a flow that is gone is refused by the foreign key. *)
WriteJob(q) ==
  LET j == req[q].with IN
  /\ At(q, "patchJob", "write")
  /\ jobs' = IF jobs[j].status = "active" /\ IsFlow(req[q].on)
             THEN [jobs EXCEPT ![j].flow = req[q].on] ELSE jobs
  /\ End(q)
  /\ UNCHANGED <<flows, custom, builtin, series>>

(* CreateJob; likewise. *)
InsertJob(q) ==
  /\ At(q, "createJob", "insert")
  /\ jobs' = IF IsFlow(req[q].on)
             THEN [jobs EXCEPT ![q] = [flow |-> req[q].on, status |-> "active"]] ELSE jobs
  /\ End(q)
  /\ UNCHANGED <<flows, custom, builtin, series>>

CatalogStep(q) ==
  \/ InsertFlow(q) \/ WriteFlow(q) \/ CountJobs(q) \/ DeleteFlow(q)
  \/ SetDefaultFlow(q) \/ UpsertImported(q) \/ ResolveSteps(q)
  \/ WriteTemplate(q) \/ DeleteTemplate(q) \/ SetSeriesFlow(q)
  \/ WriteJob(q) \/ InsertJob(q)

(* The farm runs a job to its end; Dispatch models how. *)
FinishJob ==
  /\ \E j \in Request :
       /\ jobs[j].status = "active"
       /\ jobs' = [jobs EXCEPT ![j].status = "over"]
  /\ UNCHANGED <<flows, custom, builtin, series>>

----------------------------------------------------------------------------
(* Every process starts with seedStepTemplates: a missing built-in is made,*)
(* and a script that is still the older factory one is replaced.           *)
InsertIfAbsent(script) == IF script = "gone" THEN "factory" ELSE script
UpgradeIfFactory(script) == IF script = "older" THEN "factory" ELSE script

(* seedDefaultFlow: a flow of the configured name is made if there is none,*)
(* and flagged if none is.                                                 *)
SeedDefaultFlow ==
  LET named == Named(DefaultFlow)
      f == IF named = {} THEN Reseeded ELSE CHOOSE g \in named : TRUE
  IN
  flows' = [flows EXCEPT ![f] =
    [name |-> DefaultFlow, uses |-> (IF named = {} THEN Nil ELSE @.uses),
     flag |-> @.flag \/ Flagged = {}]]

CatalogBoot ==
  /\ builtin' = UpgradeIfFactory(InsertIfAbsent(builtin))
  /\ SeedDefaultFlow
  /\ UNCHANGED <<custom, series, jobs>>
=============================================================================
