------------------------------- MODULE JobRun -------------------------------
(***************************************************************************)
(* One job on an agent (agent/agent.go executeJob, runJobCommand;          *)
(* steptrack.go, progress.go, encmetrics.go, s3transfer.go, jobs.go): the  *)
(* script is staged and run, its output is taken apart as it comes in, the *)
(* release is uploaded, the outcome is reported.  The job may come back to *)
(* the same agent, after a failure or a crash, and finds its directory as  *)
(* the run before left it.                                                 *)
(*                                                                         *)
(* The output of the script is a sequence of tokens, a line is what stands *)
(* between two "nl"; it arrives in chunks that end anywhere.               *)
(***************************************************************************)
EXTENDS Naturals, Sequences, FiniteSets, SequencesExt

CONSTANTS
  Output,       \* what the script prints
  RingLines,    \* progressRingLines, and the 40 lines of the final tail
  FullLogCap,   \* maxFullLogBytes, in tokens
  MaxMetrics,   \* maxMetrics
  Sources,      \* the objects under the episode's prefix, for s3 shares
  Parts,        \* what a script may put into the release directory
  OnS3,         \* the release share is a bucket
  CrcNames,     \* the flow names its files by their checksums (crc32_rename)
  MaxAttempts,  \* bound on the times the job is run here
  MaxCrashes    \* bound on the agent's restarts

ASSUME JobRunAssumption ==
  /\ RingLines \in Nat \ {0} /\ FullLogCap \in Nat \ {0} /\ MaxMetrics \in Nat
  /\ Output \in Seq(ToSet(Output))
  /\ IsFiniteSet(Sources) /\ OnS3 \in BOOLEAN /\ CrcNames \in BOOLEAN
  /\ MaxAttempts \in Nat \ {0} /\ MaxCrashes \in Nat

VARIABLES
  pc,       \* where executeJob is; "idle" when the job is not in the registry
  attempt,  \* how often the job was accepted here
  todo,     \* objects still to download
  staged,   \* objects in the job's directory
  written,  \* how many tokens the script has printed
  obs,      \* lineObserver with its trackers
  exit,     \* how the script ended
  files,    \* the release files in the job's directory, and whose they are
  left,     \* what was there when the script of an attempt ended with 0
  bucket,   \* the same for the release bucket
  toPut,    \* files the upload still has to visit
  report,   \* the completion report, as far as it is put together
  sent,     \* the reported status of each attempt
  counter, crashes

jobVars == <<pc, attempt, todo, staged, exit, files, left, bucket, toPut, report, sent, counter>>
vars == <<jobVars, written, obs, crashes>>

Attempt == 1..MaxAttempts
File == Parts \X Attempt

(* A part's file in an attempt: the same name each time, or a new one. *)
FileOf(a, part) == <<part, IF CrcNames THEN a ELSE 1>>

NoFiles == [f \in File |-> 0]

IsStep(line) == Len(line) = 2 /\ line[1] = "step"
IsFailure(line) == line = <<"failed">>
IsMetric(line) == Len(line) = 2 /\ line[1] = "metric"

NewObserver == [remainder |-> <<>>, ring |-> <<>>, step |-> "", order |-> <<>>,
                starts |-> <<>>, metrics |-> {}]
NewReport == [status |-> "done", error |-> "", tail |-> <<>>, log |-> <<>>]

(* Every phase, tracker and file is what its type says. *)
TypeOK ==
  /\ pc \in {"idle", "stage", "download", "run", "upload", "complete", "bump",
             "refuse"}
  /\ attempt \in 0..MaxAttempts
  /\ todo \subseteq Sources /\ staged \subseteq Sources
  /\ written \in 0..Len(Output)
  /\ DOMAIN obs = DOMAIN NewObserver
  /\ Len(obs.ring) <= RingLines /\ Len(obs.order) = Len(obs.starts)
  /\ exit \in {"none", "zero", "nonzero"}
  /\ files \in [File -> 0..MaxAttempts] /\ bucket \in [File -> 0..MaxAttempts]
  /\ left \in [Attempt -> [File -> 0..MaxAttempts]]
  /\ toPut \subseteq File
  /\ report.status \in {"done", "failed"}
  /\ sent \in [Attempt -> {"none", "done", "failed"}]
  /\ counter \in 0..MaxAttempts /\ crashes \in 0..MaxCrashes

Init ==
  /\ pc = "idle" /\ attempt = 0
  /\ todo = {} /\ staged = {}
  /\ written = 0 /\ obs = NewObserver /\ exit = "none"
  /\ files = NoFiles /\ left = [a \in Attempt |-> NoFiles] /\ bucket = NoFiles /\ toPut = {}
  /\ report = NewReport /\ sent = [a \in Attempt |-> "none"]
  /\ counter = 0 /\ crashes = 0

----------------------------------------------------------------------------
(* The observer.                                                           *)

(* The last n elements. *)
LastN(s, n) == SubSeq(s, IF Len(s) > n THEN Len(s) - n + 1 ELSE 1, Len(s))

(* processLine: the ring shifts; a marker sets the step, and its start     *)
(* when it is the first of its name; a measurement is noted, a new one as  *)
(* long as there is room.                                                  *)
ProcessLine(o, line, now) ==
  LET first == IsStep(line) /\ line[2] \notin ToSet(o.order)
      noted == IsMetric(line) /\ Cardinality(o.metrics) < MaxMetrics IN
  [o EXCEPT
     !.ring = IF Len(@) >= RingLines THEN Append(Tail(@), line) ELSE Append(@, line),
     !.step = IF IsStep(line) THEN line[2] ELSE @,
     !.order = IF first THEN Append(@, line[2]) ELSE @,
     !.starts = IF first THEN Append(@, now) ELSE @,
     !.metrics = IF noted THEN @ \cup {line[2]} ELSE @]

(* Mutant: a line that is cut by the end of a chunk begins anew. *)
WriteByChunk(o, chunk, now) ==
  FoldLeft(LAMBDA acc, token :
             IF token = "nl"
             THEN [ProcessLine(acc, acc.remainder, now) EXCEPT !.remainder = <<>>]
             ELSE [acc EXCEPT !.remainder = Append(@, token)],
           [o EXCEPT !.remainder = <<>>], chunk)

(* Write: each token completes a line or extends the remainder. *)
Write(o, chunk, now) ==
  FoldLeft(LAMBDA acc, token :
             IF token = "nl"
             THEN [ProcessLine(acc, acc.remainder, now) EXCEPT !.remainder = <<>>]
             ELSE [acc EXCEPT !.remainder = Append(@, token)],
           o, chunk)

(* flush: a last line without its end. *)
FlushLine(o, now) ==
  IF o.remainder = <<>> THEN o
  ELSE [ProcessLine(o, o.remainder, now) EXCEPT !.remainder = <<>>]

(* The lines of a text, the last one if it is not empty. *)
LinesOf(text) ==
  LET step(acc, token) ==
        IF token = "nl" THEN [done |-> Append(acc.done, acc.cur), cur |-> <<>>]
        ELSE [acc EXCEPT !.cur = Append(@, token)]
      all == FoldLeft(step, [done |-> <<>>, cur |-> <<>>], text)
  IN IF all.cur = <<>> THEN all.done ELSE Append(all.done, all.cur)

(* captureRunLog: the last bytes of the log from a line's beginning on. *)
CaptureRunLog(text) ==
  IF Len(text) <= FullLogCap THEN text
  ELSE LET window == LastN(text, FullLogCap)
           ends == {i \in DOMAIN window : window[i] = "nl"}
       IN IF ends = {} THEN window
          ELSE LET nl == CHOOSE i \in ends : \A j \in ends : i <= j
               IN SubSeq(window, nl + 1, Len(window))

(* stepTimingTracker.finish: a step lasts until the next one begins. *)
Durations(o, finish) ==
  [i \in DOMAIN o.starts |->
     (IF i < Len(o.starts) THEN o.starts[i + 1] ELSE finish) - o.starts[i]]

Printed == SubSeq(Output, 1, written)

----------------------------------------------------------------------------
(* executeJob.                                                             *)

(* jobRegistry.accept: a job that is in the registry is not taken again. *)
Accept ==
  /\ pc = "idle" /\ attempt < MaxAttempts
  /\ attempt' = attempt + 1
  /\ pc' = "stage"
  /\ UNCHANGED <<todo, staged, written, obs, exit, files, left, bucket, toPut, report, sent,
                 counter, crashes>>

(* An early failure is reported, without a count of the task. *)
Refuse ==
  /\ pc' = "refuse"
  /\ report' = [NewReport EXCEPT !.status = "failed"]

(* The job's directory, the script, the library; then the downloads. *)
Stage ==
  /\ pc = "stage"
  /\ \/ /\ pc' = "download"
        /\ todo' = Sources
        /\ report' = NewReport
     \/ Refuse /\ UNCHANGED todo
  /\ UNCHANGED <<attempt, staged, written, obs, exit, files, left, bucket, toPut, sent,
                 counter, crashes>>

(* runS3Downloads: object after object; one that fails ends the job, and   *)
(* leaves those before it.                                                 *)
Download ==
  /\ pc = "download" /\ todo # {}
  /\ \/ \E o \in todo : todo' = todo \ {o} /\ staged' = staged \cup {o} /\ UNCHANGED <<pc, report>>
     \/ Refuse /\ UNCHANGED <<todo, staged>>
  /\ UNCHANGED <<attempt, written, obs, exit, files, left, bucket, toPut, sent, counter, crashes>>

(* runJobCommand starts the script with fresh trackers. *)
StartScript ==
  /\ pc = "download" /\ todo = {}
  /\ pc' = "run"
  /\ written' = 0 /\ obs' = NewObserver /\ exit' = "none"
  /\ UNCHANGED <<attempt, todo, staged, files, left, bucket, toPut, report, sent, counter, crashes>>

(* The script prints some more, or writes its release file. *)
Emit ==
  /\ pc = "run" /\ exit = "none"
  /\ \E n \in (written + 1)..Len(Output) :
       /\ obs' = Write(obs, SubSeq(Output, written + 1, n), n)
       /\ written' = n
  /\ UNCHANGED <<jobVars, crashes>>

WriteFile ==
  /\ pc = "run" /\ exit = "none"
  /\ \E part \in Parts : files' = [files EXCEPT ![FileOf(attempt, part)] = attempt]
  /\ UNCHANGED <<pc, attempt, todo, staged, exit, left, bucket, toPut, report, sent, counter,
                 written, obs, crashes>>

(* It fails anywhere, or ends well with all its output printed; what it    *)
(* has put into the release directory by then nobody checks.               *)
Exit ==
  /\ pc = "run" /\ exit = "none"
  /\ \/ exit' = "nonzero" /\ UNCHANGED left
     \/ /\ written = Len(Output)
        /\ exit' = "zero" /\ left' = [left EXCEPT ![attempt] = files]
  /\ UNCHANGED <<pc, attempt, todo, staged, files, bucket, toPut, report, sent, counter,
                 written, obs, crashes>>

(* Mutant: what a failed script has left is uploaded, too. *)
CaptureAndPublish ==
  /\ pc = "run" /\ exit # "none"
  /\ obs' = FlushLine(obs, written)
  /\ report' = [report EXCEPT !.status = IF exit = "zero" THEN "done" ELSE "failed"]
  /\ pc' = "upload" /\ toPut' = {f \in File : files[f] # 0}
  /\ UNCHANGED <<attempt, todo, staged, exit, files, left, bucket, sent, counter, written, crashes>>

(* flush, the tail, the failure marker if it is in the tail, the full log. *)
Capture ==
  /\ pc = "run" /\ exit # "none"
  /\ obs' = FlushLine(obs, written)
  /\ LET tail == LastN(LinesOf(Printed), RingLines) IN
       report' = [status |-> IF exit = "zero" THEN "done" ELSE "failed",
                  error |-> IF exit = "zero" THEN ""
                            ELSE IF \E i \in DOMAIN tail : IsFailure(tail[i])
                                 THEN "step" ELSE "code",
                  tail |-> tail, log |-> CaptureRunLog(Printed)]
  /\ IF exit = "zero" /\ OnS3
     THEN pc' = "upload" /\ toPut' = {f \in File : files[f] # 0}
     ELSE pc' = "complete" /\ UNCHANGED toPut
  /\ UNCHANGED <<attempt, todo, staged, exit, files, left, bucket, sent, counter, written, crashes>>

(* Mutant: a file that cannot be put is passed over. *)
UploadWhatGoes ==
  /\ pc = "upload" /\ toPut # {}
  /\ \E f \in toPut :
       /\ bucket' \in {bucket, [bucket EXCEPT ![f] = files[f]]}
       /\ toPut' = toPut \ {f}
  /\ UNCHANGED <<pc, attempt, todo, staged, exit, files, left, report, sent, counter, written,
                 obs, crashes>>

(* runS3Uploads: every file of the release directory, one after the other; *)
(* one that fails makes the job fail and stays behind with the rest.       *)
Upload ==
  /\ pc = "upload" /\ toPut # {}
  /\ \/ \E f \in toPut :
          /\ bucket' = [bucket EXCEPT ![f] = files[f]]
          /\ toPut' = toPut \ {f}
          /\ UNCHANGED <<pc, report>>
     \/ /\ report' = [report EXCEPT !.status = "failed", !.error = "upload"]
        /\ pc' = "complete" /\ toPut' = {}
        /\ UNCHANGED bucket
  /\ UNCHANGED <<attempt, todo, staged, exit, files, left, sent, counter, written, obs, crashes>>

Uploaded ==
  /\ pc = "upload" /\ toPut = {}
  /\ pc' = "complete"
  /\ UNCHANGED <<attempt, todo, staged, exit, files, left, bucket, toPut, report, sent, counter,
                 written, obs, crashes>>

(* completeJob, once: it arrives or it does not. *)
CompleteJob ==
  /\ pc \in {"complete", "refuse"}
  /\ sent' \in {sent, [sent EXCEPT ![attempt] = report.status]}
  /\ pc' = IF pc = "complete" THEN "bump" ELSE "idle"
  /\ UNCHANGED <<attempt, todo, staged, exit, files, left, bucket, toPut, report, counter,
                 written, obs, crashes>>

(* bumpCounter, then the deferred removal from the registry. *)
BumpCounter ==
  /\ pc = "bump"
  /\ counter' = counter + 1
  /\ pc' = "idle"
  /\ UNCHANGED <<attempt, todo, staged, exit, files, left, bucket, toPut, report, sent,
                 written, obs, crashes>>

(* The agent goes down; its jobs' directories stay. *)
Crash ==
  /\ pc # "idle" /\ crashes < MaxCrashes
  /\ crashes' = crashes + 1
  /\ pc' = "idle" /\ todo' = {} /\ toPut' = {}
  /\ UNCHANGED <<attempt, staged, exit, files, left, bucket, report, sent, counter, written, obs>>

Next ==
  \/ Accept \/ Stage \/ Download \/ StartScript
  \/ Emit \/ WriteFile \/ Exit \/ Capture
  \/ Upload \/ Uploaded \/ CompleteJob \/ BumpCounter \/ Crash

Spec == Init /\ [][Next]_vars

----------------------------------------------------------------------------
(* Properties.                                                             *)

(* How the output was cut into chunks shows nowhere: ring, current step,   *)
(* steps seen and measurements (the first MaxMetrics) are those of the text *)
(* so far, and the steps' times add up to the time since the first.        *)
TrackersFollow ==
  LET text  == IF pc = "run" THEN SubSeq(Printed, 1, written - Len(obs.remainder)) ELSE Printed
      lines == LinesOf(text)
      steps == SelectSeq(lines, IsStep)
      metrics == SelectSeq(lines, IsMetric)
      durations == Durations(obs, written)
  IN /\ obs.ring = LastN(lines, RingLines)
     /\ obs.step = IF steps = <<>> THEN "" ELSE Last(steps)[2]
     /\ ToSet(obs.order) = {steps[i][2] : i \in DOMAIN steps} /\ IsInjective(obs.order)
     /\ obs.metrics = {metrics[i][2] : i \in {j \in DOMAIN metrics :
          Cardinality({metrics[k][2] : k \in 1..(j - 1)}) < MaxMetrics}}
     /\ \A i \in DOMAIN durations : durations[i] >= 0
     /\ obs.starts # <<>> =>
          obs.starts[1] + FoldLeft(LAMBDA a, b : a + b, 0, durations) = written

(* The log in a report is the end of the output, within the cap, and does  *)
(* not begin in the middle of a line that ends within it.                  *)
LogIsTheEnd ==
  LET log == report.log
      before == written - Len(log)
  IN /\ Len(log) <= FullLogCap /\ IsSuffix(log, Printed)
     /\ before = 0 \/ Output[before] = "nl" \/ ~Contains(log, "nl")

(* The script has ended, and its outcome is put together or on its way.    *)
Ended == pc \in {"upload", "complete", "bump"}

(* What the operator is told of the output is what was printed.            *)
OutputIsTold ==
  /\ pc = "run" \/ Ended => TrackersFollow
  /\ Ended => LogIsTheEnd

(* "done" means released: whatever the script of a run that was reported   *)
(* done has left in the release directory, its own files and those of runs *)
(* before it, is in the bucket, or a later run's in its place, although    *)
(* uploads fail halfway, reports are lost and the agent restarts.  A run   *)
(* that left nothing is reported done as well.                             *)
DoneMeansReleased ==
  \A a \in Attempt, f \in File : OnS3 /\ sent[a] = "done" => bucket[f] >= left[a][f]

(* Outputs are pushed "after a SUCCESSFUL run only" (agent.go): whatever   *)
(* is in the bucket stood in the release directory when a script ended     *)
(* with 0.                                                                 *)
OnlyWholeRunsPublished ==
  \A f \in File : bucket[f] # 0 => \E a \in Attempt : left[a][f] = bucket[f]

(* "A failed encode must not publish partial artifacts" (agent.go): the    *)
(* script that wrote what is in the bucket ended with 0 itself.  It does   *)
(* not hold; LeftOvers.cfg shows how.                                      *)
NothingPartialPublished ==
  \A f \in File : bucket[f] # 0 => left[bucket[f]][f] = bucket[f]
=============================================================================
