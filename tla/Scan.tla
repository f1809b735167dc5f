-------------------------------- MODULE Scan --------------------------------
(***************************************************************************)
(* The scanner (scanner/): the singleton loop that finds episode folders   *)
(* with a source and a filter script and queues a job for each that has    *)
(* none, under the supervision of Leader; the operators who create,        *)
(* cancel, retry, delete and prune jobs meanwhile; the farm that runs them.*)
(*                                                                         *)
(* A folder is a set of files, which are copied in one after the other; a  *)
(* source stays fresh for SourceStableFor after its last write.  The       *)
(* statements of one pass (series, dedupe check, insert) are steps of      *)
(* their own: anything may come between two of them.                       *)
(***************************************************************************)
EXTENDS Leader, FiniteSets, SequencesExt

CONSTANTS
  Episode,          \* the episode folders, in the order they are scanned
  Files,            \* the files that are put into each folder
  Present,          \* those of them that are there from the start
  Listing,          \* all file names as the directory or the bucket lists them
  OnS3,             \* the scripts share is a bucket
  OperatorActions,  \* "create", "cancel", "retry", "delete", "hold"
  MaxOps,           \* bound on operator requests
  MaxJobs           \* bound on the rows of the jobs table

ASSUME ScanAssumption ==
  /\ Episode \subseteq Nat /\ IsFiniteSet(Episode)
  /\ Files \in [Episode -> SUBSET ToSet(Listing)]
  /\ \A e \in Episode : Present[e] \subseteq Files[e]
  /\ OnS3 \in BOOLEAN /\ MaxOps \in Nat /\ MaxJobs \in Nat

VARIABLES
  folder,  \* the files of each episode
  fresh,   \* of these, the sources written to within SourceStableFor
  held,    \* episodes whose series is disabled or paused
  jobs,    \* the jobs table: episode, status, script chosen, past retention,
           \* the replica whose scanner queued the job (none, once an operator
           \* has created it or had it run again), and whether that replica
           \* then still had its session
  pass,    \* the scanOnce in progress on each replica
  ops      \* operator requests so far

scanVars == <<folder, fresh, held, jobs, pass, ops>>
vars == <<leaderVars, scanVars>>

RawSource == {"ep.m2ts"}
MkvSource == {"ep.mkv"}
Scripts   == {"1080.avs", "1080.vpy", "2160.avs", "2160.vpy", "filter.vpy"}
Sources   == RawSource \cup MkvSource

NoFile == "none"
JobId  == 1..MaxJobs
(* "ended" is a job done or failed: to the scanner they are one. *)
Terminal == {"ended", "cancelled"}
NoJob == [episode |-> 0, status |-> "none", script |-> NoFile, old |-> FALSE,
          by |-> NoReplica, sound |-> TRUE]

Idle == [pc |-> "idle", todo |-> {}, cur |-> 0, script |-> [e \in Episode |-> NoFile]]

(* Every table, folder and pass is what its type says. *)
TypeOK ==
  /\ LeaderTypeOK
  /\ \A e \in Episode : folder[e] \subseteq Files[e]
  /\ \A e \in Episode : fresh[e] \subseteq folder[e] \cap Sources
  /\ held \subseteq Episode
  /\ jobs \in [JobId -> [episode: Episode \cup {0}, script: Scripts \cup {NoFile},
                         status: {"none", "pending"} \cup Terminal,
                         old: BOOLEAN, by: Replica \cup {NoReplica}, sound: BOOLEAN]]
  /\ pass \in [Replica -> [pc: {"idle", "series", "check", "create"},
                           todo: SUBSET Episode, cur: Episode \cup {0},
                           script: [Episode -> Scripts \cup {NoFile}]]]
  /\ ops \in 0..MaxOps

Init ==
  /\ LeaderInit
  /\ folder = [e \in Episode |-> Present[e]]
  /\ fresh = [e \in Episode |-> {}]
  /\ held = {}
  /\ jobs = [j \in JobId |-> NoJob]
  /\ pass = [r \in Replica |-> Idle]
  /\ ops = 0

----------------------------------------------------------------------------
(* The choice among the files of a folder.  The two inspections walk the   *)
(* listing once and keep what they have seen so far.                       *)

Seen == [source |-> NoFile, mkv |-> NoFile, script |-> NoFile, dated |-> NoFile]

(* The switch of both inspections: does this script replace the one so far? *)
Replaces(file, script) ==
  \/ file = "2160.vpy"
  \/ file = "2160.avs" /\ script # "2160.vpy"
  \/ file = "1080.vpy" /\ script \notin {"2160.vpy", "2160.avs"}
  \/ file = "1080.avs" /\ script \notin {"2160.vpy", "2160.avs", "1080.vpy"}
  \/ script = NoFile

(* One file of the listing.  "dated" is the file whose time the stability  *)
(* gate of a bucket looks at: it is set along with the fallback, too.      *)
Look(seen, file) ==
  CASE file \in RawSource /\ seen.source = NoFile ->
         [seen EXCEPT !.source = file, !.dated = file]
    [] file \in MkvSource /\ seen.mkv = NoFile ->
         [seen EXCEPT !.mkv = file, !.dated = file]
    [] file \in Scripts /\ Replaces(file, seen.script) ->
         [seen EXCEPT !.script = file]
    [] OTHER -> seen

(* A table for all folders: @@ has TLC fill it once. *)
SeenOf == [F \in SUBSET ToSet(Listing) |->
             FoldLeft(Look, Seen, SelectSeq(Listing, LAMBDA f : f \in F))] @@ <<>>
SeenIn(e) == SeenOf[folder[e]]

ChosenSource(seen) == IF seen.source # NoFile THEN seen.source ELSE seen.mkv

SourceIn(e) == ChosenSource(SeenIn(e))

(* inspectEpisode stats the source it has chosen, inspectS3Episode goes by *)
(* the time it has kept.                                                   *)
GateFile(e) == IF OnS3 THEN SeenIn(e).dated ELSE SourceIn(e)

Candidate(e) ==
  /\ SourceIn(e) # NoFile
  /\ SeenIn(e).script # NoFile
  /\ GateFile(e) \notin fresh[e]

----------------------------------------------------------------------------
(* One pass of the scanner on replica r.                                   *)

Covers(j, e) == jobs[j].episode = e /\ jobs[j].status \notin {"none", "cancelled"}
JobExistsForEpisode(e) == \E j \in JobId : Covers(j, e)

NextEpisode(todo) == CHOOSE e \in todo : \A f \in todo : e <= f

(* The pass goes on to the next candidate, or ends. *)
Proceed(r, todo) ==
  pass' = [pass EXCEPT ![r] =
    IF todo = {} THEN Idle
    ELSE [@ EXCEPT !.pc = "series", !.todo = todo, !.cur = NextEpisode(todo)]]

(* The ticker or a requested scan: Scan, or ScanS3, reads the folders. *)
StartPass(r) ==
  /\ Live(r) /\ pass[r].pc = "idle"
  /\ LET found == {e \in Episode : Candidate(e)} IN
       /\ found # {}
       /\ pass' = [pass EXCEPT ![r] =
            [pc |-> "series", todo |-> found, cur |-> NextEpisode(found),
             script |-> [e \in Episode |->
                           IF e \in found THEN SeenIn(e).script ELSE NoFile]]]
  /\ UNCHANGED <<leaderVars, folder, fresh, held, jobs, ops>>

(* Mutant: the pass comes back to a series that is held for ever. *)
ReadSeriesAgain(r) ==
  /\ Live(r) /\ pass[r].pc = "series"
  /\ IF pass[r].cur \in held
     THEN Proceed(r, pass[r].todo)
     ELSE pass' = [pass EXCEPT ![r].pc = "check"]
  /\ UNCHANGED <<leaderVars, folder, fresh, held, jobs, ops>>

(* UpsertSeriesByName returns the row; a disabled or paused one is skipped. *)
ReadSeries(r) ==
  /\ Live(r) /\ pass[r].pc = "series"
  /\ IF pass[r].cur \in held
     THEN Proceed(r, pass[r].todo \ {pass[r].cur})
     ELSE pass' = [pass EXCEPT ![r].pc = "check"]
  /\ UNCHANGED <<leaderVars, folder, fresh, held, jobs, ops>>

(* Mutant: a job is created whether or not there is one. *)
CheckNothing(r) ==
  /\ Live(r) /\ pass[r].pc = "check"
  /\ pass' = [pass EXCEPT ![r].pc = "create"]
  /\ UNCHANGED <<leaderVars, folder, fresh, held, jobs, ops>>

CheckEpisode(r) ==
  /\ Live(r) /\ pass[r].pc = "check"
  /\ IF JobExistsForEpisode(pass[r].cur)
     THEN Proceed(r, pass[r].todo \ {pass[r].cur})
     ELSE pass' = [pass EXCEPT ![r].pc = "create"]
  /\ UNCHANGED <<leaderVars, folder, fresh, held, jobs, ops>>

(* CreateJob: the table has no constraint on the episode. *)
Insert(e, script, by) ==
  \E j \in JobId :
    /\ jobs[j].status = "none"
    /\ \A i \in JobId : jobs[i].status = "none" => j <= i
    /\ jobs' = [jobs EXCEPT ![j] =
         [episode |-> e, status |-> "pending", script |-> script, old |-> FALSE,
          by |-> by, sound |-> by # NoReplica => conn[by] = "good"]]

CreateJob(r) ==
  /\ Live(r) /\ pass[r].pc = "create"
  /\ Insert(pass[r].cur, pass[r].script[pass[r].cur], r)
  /\ Proceed(r, pass[r].todo \ {pass[r].cur})
  /\ UNCHANGED <<leaderVars, folder, fresh, held, ops>>

(* With its context cancelled every statement of the pass fails, and the   *)
(* body returns; the supervisor waits for it and gives the lock back.      *)
Drain(r) ==
  /\ Release(r)
  /\ pass' = [pass EXCEPT ![r] = Idle]
  /\ UNCHANGED <<folder, fresh, held, jobs, ops>>

ScanStep(r) == StartPass(r) \/ ReadSeries(r) \/ CheckEpisode(r) \/ CreateJob(r)

(* The supervisor's other steps; a crash takes the pass along. *)
LeaderStep(r) ==
  /\ \/ (Supervise(r) \/ Terminate(r) \/ SessionBreaks(r) \/ Boot(r)) /\ UNCHANGED pass
     \/ Crash(r) /\ pass' = [pass EXCEPT ![r] = Idle]
  /\ UNCHANGED <<folder, fresh, held, jobs, ops>>

DatabaseStep == SessionEnds /\ UNCHANGED scanVars

----------------------------------------------------------------------------
(* The people and machines around it.                                      *)

(* A file is copied in; a source is fresh until it has rested. *)
CopyIn(e, file) ==
  /\ file \in Files[e] \ folder[e]
  /\ folder' = [folder EXCEPT ![e] = @ \cup {file}]
  /\ fresh' = [fresh EXCEPT ![e] = @ \cup ({file} \cap Sources)]
  /\ UNCHANGED <<leaderVars, held, jobs, pass, ops>>

Settle(e, file) ==
  /\ file \in fresh[e]
  /\ fresh' = [fresh EXCEPT ![e] = @ \ {file}]
  /\ UNCHANGED <<leaderVars, folder, held, jobs, pass, ops>>

SetStatus(j, status) == jobs' = [jobs EXCEPT ![j].status = status]

(* Dispatch, encode and completion, which Dispatch models, as one step. *)
Encode(j) ==
  /\ jobs[j].status = "pending"
  /\ SetStatus(j, "ended")
  /\ UNCHANGED <<leaderVars, folder, fresh, held, pass, ops>>

Operator(action) ==
  /\ action \in OperatorActions
  /\ ops < MaxOps
  /\ ops' = ops + 1
  /\ UNCHANGED <<leaderVars, folder, fresh, pass>>

(* handleCreateJob looks for no other job of the episode; one script stands *)
(* for those the operator may name.                                        *)
CreateByHand(e, script) ==
  Operator("create") /\ Insert(e, script, NoReplica) /\ UNCHANGED held

Cancel(j) ==
  /\ Operator("cancel")
  /\ jobs[j].status = "pending"
  /\ SetStatus(j, "cancelled") /\ UNCHANGED held

Retry(j) ==
  /\ Operator("retry")
  /\ jobs[j].status \in Terminal
  /\ jobs' = [jobs EXCEPT ![j].status = "pending", ![j].old = FALSE,
                        ![j].by = NoReplica, ![j].sound = TRUE]
  /\ UNCHANGED held

Delete(j) ==
  /\ Operator("delete")
  /\ jobs[j].status \in Terminal
  /\ jobs' = [jobs EXCEPT ![j] = NoJob] /\ UNCHANGED held

(* handlePatchSeries: enabled and paused, each a statement of its own. *)
Hold(e) ==
  /\ Operator("hold")
  /\ held' = IF e \in held THEN held \ {e} ELSE held \cup {e}
  /\ UNCHANGED jobs

(* The retention period of a finished job runs out ... *)
GrowOld(j) ==
  /\ "delete" \in OperatorActions /\ ops < MaxOps
  /\ jobs[j].status \in Terminal /\ ~jobs[j].old
  /\ jobs' = [jobs EXCEPT ![j].old = TRUE]
  /\ ops' = ops + 1
  /\ UNCHANGED <<leaderVars, folder, fresh, held, pass>>

(* ... and PruneOldJobs removes all such jobs, whoever runs it. *)
PruneOldJobs ==
  /\ \E j \in JobId : jobs[j].old
  /\ jobs' = [j \in JobId |->
       IF jobs[j].old /\ jobs[j].status \in Terminal THEN NoJob ELSE jobs[j]]
  /\ UNCHANGED <<leaderVars, folder, fresh, held, pass, ops>>

Environment ==
  \/ \E e \in Episode : (\E f \in Files[e] : CopyIn(e, f) \/ Settle(e, f)) \/ Hold(e)
  \/ \E e \in Episode : \E s \in folder[e] \cap {"filter.vpy"} : CreateByHand(e, s)
  \/ \E j \in JobId : Encode(j) \/ Cancel(j) \/ Retry(j) \/ Delete(j) \/ GrowOld(j)
  \/ PruneOldJobs

Next ==
  \/ \E r \in Replica : ScanStep(r) \/ Drain(r) \/ LeaderStep(r)
  \/ DatabaseStep
  \/ Environment

Spec == Init /\ [][Next]_vars

(* The replicas and the database go on, in whatever order. *)
Proceeds ==
  \/ \E r \in Replica :
       \/ ScanStep(r) \/ Drain(r)
       \/ (Supervise(r) \/ Boot(r)) /\ UNCHANGED scanVars
  \/ DatabaseStep

FairSpec == Spec /\ WF_vars(Proceeds)

----------------------------------------------------------------------------
(* Properties.                                                             *)

(* One scanner never queues an episode twice, and two do only across a      *)
(* broken session: when a replica inserts a job, every other that counts   *)
(* for the episode is one an operator created or retried, or came from     *)
(* another replica while one of the two ran on a session it had lost.  A   *)
(* replica that was terminated or died, and a takeover in good order       *)
(* between check and insert, make no second job.                           *)
NoDuplicateByScanner ==
  [][\A r \in Replica :
       pass[r].pc = "create" /\ jobs' # jobs /\ pass'[r] # pass[r] =>
         \A j \in JobId : Covers(j, pass[r].cur) =>
           \/ jobs[j].by = NoReplica
           \/ jobs[j].by # r /\ (conn[r] = "broken" \/ ~jobs[j].sound)]_vars

(* "run on exactly ONE replica via a session advisory lock" (main.go): two *)
(* replicas never have a pass of the scanner in progress at a time.  The   *)
(* code breaks it while a replica has yet to notice that its session is    *)
(* gone.                                                                   *)
ExactlyOneScans ==
  \A r, q \in Replica : pass[r].pc # "idle" /\ pass[q].pc # "idle" => r = q

(* Every episode that is ready and not held gets a job, through failovers, *)
(* cancellations and deletions.                                            *)
ReadyIsQueued ==
  \A e \in Episode :
    []<>(JobExistsForEpisode(e) \/ ~Candidate(e) \/ e \in held)
=============================================================================
