--------------------------- MODULE JobRun_proofs ---------------------------
(***************************************************************************)
(* Proofs about one job on one agent: for every script, every set of       *)
(* objects to download and of files to release, and every number of        *)
(* attempts and crashes.                                                   *)
(***************************************************************************)
EXTENDS JobRun, SequenceTheorems, WellFoundedInduction, TLAPS

Version == 0..MaxAttempts

(* The types of what decides about the release.  What the observer makes   *)
(* of the output is not among it.                                          *)
RunTypes ==
  /\ pc \in {"idle", "stage", "download", "run", "upload", "complete", "bump", "refuse"}
  /\ attempt \in Version /\ (pc # "idle" => attempt > 0)
  /\ exit \in {"none", "zero", "nonzero"}
  /\ files \in [File -> Version] /\ bucket \in [File -> Version]
  /\ left \in [Attempt -> [File -> Version]]
  /\ sent \in [Attempt -> {"none", "done", "failed"}]

(* A file in the directory is of an attempt that has begun, and what is in *)
(* the bucket was in the directory: neither ever gets older.               *)
NothingGetsOlder == \A f \in File : bucket[f] <= files[f] /\ files[f] <= attempt

(* The script of the present attempt has not ended yet. *)
Before == pc \in {"stage", "download"} \/ (pc = "run" /\ exit = "none")

(* Of an attempt whose script has not ended nothing is noted or reported.  *)
NothingAhead ==
  \A a \in Attempt : a > attempt \/ (a = attempt /\ Before) =>
    left[a] = NoFiles /\ sent[a] = "none"

(* What a script that ended well has left stays until it is uploaded; what *)
(* the upload has passed is in the bucket.                                 *)
UploadInOrder ==
  /\ pc = "run" /\ exit = "zero" => left[attempt] = files
  /\ pc = "upload" =>
       /\ left[attempt] = files /\ toPut \subseteq {f \in File : files[f] # 0}
       /\ \A f \in File \ toPut : bucket[f] = files[f]

(* A report says "done" only when the upload, if there is one, is through. *)
ReportInOrder ==
  /\ pc = "refuse" => report.status = "failed"
  /\ OnS3 /\ pc = "complete" /\ report.status = "done" =>
       \A f \in File : bucket[f] >= left[attempt][f]
  /\ report.status \in {"done", "failed"}

ReleaseInv ==
  /\ RunTypes /\ NothingGetsOlder /\ NothingAhead /\ UploadInOrder /\ ReportInOrder
  /\ DoneMeansReleased /\ OnlyWholeRunsPublished

----------------------------------------------------------------------------
(* An attempt has a file for each part, whatever the flow calls it. *)
LEMMA FileOfType == \A a \in Attempt, part \in Parts : FileOf(a, part) \in File
BY JobRunAssumption DEF FileOf, Attempt, File

(* Versions are numbers, and no file is one of them. *)
LEMMA Versions == /\ MaxAttempts \in Nat /\ Version \subseteq Nat /\ 0 \in Version
                  /\ Attempt \subseteq Version /\ NoFiles \in [File -> Version]
                  /\ \A f \in File : NoFiles[f] = 0
BY JobRunAssumption DEF Version, Attempt, NoFiles

(* Nothing is there at the start. *)
LEMMA InitRelease == Init => ReleaseInv
<1>1. SUFFICES ASSUME Init PROVE ReleaseInv
  OBVIOUS
<1>2. RunTypes
  BY <1>1, Versions DEF Init, RunTypes
<1>3. NothingGetsOlder /\ NothingAhead
  BY <1>1, Versions DEF Init, NothingGetsOlder, NothingAhead
<1>4. DoneMeansReleased /\ OnlyWholeRunsPublished
  BY <1>1, Versions DEF Init, DoneMeansReleased, OnlyWholeRunsPublished
<1>5. UploadInOrder /\ ReportInOrder
  BY <1>1 DEF Init, UploadInOrder, ReportInOrder, NewReport
<1>6. QED
  BY <1>2, <1>3, <1>4, <1>5 DEF ReleaseInv

(* What is noted ahead stays so when the attempt is no earlier and not     *)
(* again before its script's end.                                          *)
LEMMA AheadStays ==
  ASSUME ReleaseInv, RunTypes', UNCHANGED <<left, sent>>,
         (attempt' = attempt /\ (Before' => Before)) \/ attempt' = attempt + 1
  PROVE  NothingAhead'
<1>1. attempt \in Nat /\ attempt' \in Nat /\ attempt' >= attempt
  BY Versions DEF ReleaseInv, RunTypes
<1>2. ASSUME NEW a \in Attempt, a > attempt' \/ (a = attempt' /\ Before')
      PROVE  a > attempt \/ (a = attempt /\ Before)
  BY <1>1, <1>2, Versions
<1>3. QED
  BY <1>2 DEF ReleaseInv, NothingAhead

(* What was released stays so as long as the bucket does not get older.    *)
LEMMA ReleasedStays ==
  ASSUME ReleaseInv, RunTypes', UNCHANGED <<left, sent>>,
         \A f \in File : bucket'[f] >= bucket[f]
  PROVE  DoneMeansReleased'
<1>1. SUFFICES ASSUME NEW a \in Attempt, NEW f \in File, OnS3, sent[a] = "done"
               PROVE  bucket'[f] >= left[a][f]
  BY DEF DoneMeansReleased
<1>2. bucket[f] >= left[a][f] /\ bucket'[f] >= bucket[f]
  BY <1>1 DEF ReleaseInv, DoneMeansReleased
<1>3. bucket[f] \in Nat /\ bucket'[f] \in Nat /\ left[a][f] \in Nat
  <2>1. bucket[f] \in Version /\ left[a] \in [File -> Version]
    BY DEF ReleaseInv, RunTypes
  <2>2. bucket'[f] \in Version
    BY DEF RunTypes
  <2>3. QED
    BY <2>1, <2>2, Versions
<1>4. QED
  BY <1>2, <1>3

(* Steps that leave alone what is published, reported and noted. *)
LEMMA ReleaseKept ==
  ASSUME ReleaseInv, UNCHANGED <<left, bucket, sent>>
  PROVE  DoneMeansReleased' /\ OnlyWholeRunsPublished'
BY DEF ReleaseInv, DoneMeansReleased, OnlyWholeRunsPublished

(* Steps that touch neither directory nor bucket, up to the script's end.  *)
LEMMA StagingSteps ==
  ASSUME ReleaseInv, Accept \/ Stage \/ Download \/ StartScript \/ Emit \/ Crash
  PROVE  ReleaseInv'
<1> USE DEF ReleaseInv
<1>1. UNCHANGED <<files, left, bucket, sent>>
  BY DEF Accept, Stage, Refuse, Download, StartScript, Emit, Crash, jobVars
<1>2. RunTypes'
  BY <1>1, JobRunAssumption
  DEF RunTypes, Version, Accept, Stage, Refuse, Download, StartScript, Emit, Crash, jobVars
<1>3. \/ attempt' = attempt /\ (Before' => Before)
      \/ attempt' = attempt + 1
  BY DEF Before, Accept, Stage, Refuse, Download, StartScript, Emit, Crash, jobVars
<1>4. NothingAhead'
  BY <1>1, <1>2, <1>3, AheadStays
<1>5. NothingGetsOlder'
  <2>1. attempt \in Nat /\ attempt' >= attempt
    BY <1>3, Versions DEF RunTypes
  <2>2. \A f \in File : files[f] \in Nat /\ files[f] <= attempt
    BY Versions DEF RunTypes, NothingGetsOlder
  <2>3. attempt' \in Nat
    BY <1>2, Versions DEF RunTypes
  <2>4. QED
    BY <1>1, <2>1, <2>2, <2>3 DEF NothingGetsOlder
<1>6. UploadInOrder' /\ ReportInOrder'
  <2>1. CASE Emit
    BY <2>1 DEF UploadInOrder, ReportInOrder, Emit, jobVars
  <2>2. CASE Accept \/ Crash \/ StartScript
    <3>1. UNCHANGED report /\ pc' \notin {"upload", "refuse", "complete"}
      BY <2>2 DEF Accept, Crash, StartScript
    <3>2. pc' = "run" => exit' # "zero"
      BY <2>2 DEF Accept, Crash, StartScript
    <3>3. QED
      BY <3>1, <3>2 DEF UploadInOrder, ReportInOrder
  <2>3. CASE Refuse
    BY <2>3 DEF UploadInOrder, ReportInOrder, Refuse, NewReport
  <2>4. CASE pc' = "download" /\ report' \in {report, NewReport}
    <3>1. NewReport.status = "done"
      BY DEF NewReport
    <3>2. report'.status \in {"done", "failed"}
      BY <2>4, <3>1 DEF ReportInOrder
    <3>3. QED
      BY <2>4, <3>2 DEF UploadInOrder, ReportInOrder
  <2>5. QED
    BY <2>1, <2>2, <2>3, <2>4 DEF Stage, Download
<1>7. QED
  BY <1>1, <1>2, <1>4, <1>5, <1>6, ReleaseKept

(* The script writes a file. *)
LEMMA WriteFileStep == ASSUME ReleaseInv, WriteFile PROVE ReleaseInv'
<1> USE DEF ReleaseInv
<1>1. PICK part \in Parts : files' = [files EXCEPT ![FileOf(attempt, part)] = attempt]
  BY DEF WriteFile
<1>2. attempt \in Attempt /\ FileOf(attempt, part) \in File
  BY FileOfType, JobRunAssumption DEF RunTypes, Version, WriteFile, Attempt
<1>3. /\ UNCHANGED <<pc, attempt, exit, left, bucket, sent, report, toPut>>
      /\ pc = "run" /\ exit = "none"
  BY DEF WriteFile
<1>4. RunTypes'
  BY <1>1, <1>2, <1>3 DEF RunTypes
<1>5. NothingGetsOlder'
  <2>1. /\ attempt \in Nat
        /\ \A f \in File : /\ bucket[f] \in Nat /\ files[f] \in Nat
                          /\ bucket[f] <= files[f] /\ files[f] <= attempt
    BY Versions DEF RunTypes, NothingGetsOlder
  <2>2. \A f \in File : files'[f] = files[f] \/ files'[f] = attempt
    BY <1>1 DEF RunTypes
  <2>3. \A f \in File : bucket[f] <= files'[f] /\ files'[f] <= attempt
    BY <2>1, <2>2
  <2>4. QED
    BY <1>3, <2>3 DEF NothingGetsOlder
<1>6. UploadInOrder' /\ ReportInOrder'
  BY <1>3 DEF UploadInOrder, ReportInOrder
<1>7. NothingAhead'
  BY <1>3, <1>4, AheadStays DEF Before
<1>8. QED
  BY <1>3, <1>4, <1>5, <1>6, <1>7, ReleaseKept

(* The script ends; when it ends well, what it leaves is noted. *)
LEMMA ExitStep == ASSUME ReleaseInv, Exit PROVE ReleaseInv'
<1> USE DEF ReleaseInv
<1>1. /\ UNCHANGED <<pc, attempt, files, bucket, sent, report>>
      /\ pc = "run" /\ exit = "none" /\ exit' \in {"zero", "nonzero"}
      /\ left' \in {left, [left EXCEPT ![attempt] = files]}
      /\ exit' = "zero" => left' = [left EXCEPT ![attempt] = files]
  BY DEF Exit
<1>2. attempt \in Attempt
  BY <1>1, JobRunAssumption DEF RunTypes, Version, Attempt
<1>3. left[attempt] = NoFiles /\ sent[attempt] = "none"
  BY <1>1, <1>2 DEF NothingAhead, Before
<1>4. RunTypes'
  BY <1>1, <1>2 DEF RunTypes
<1>5. \A a \in Attempt \ {attempt} : left'[a] = left[a]
  BY <1>1, <1>2 DEF RunTypes
<1>6. NothingGetsOlder' /\ ReportInOrder'
  BY <1>1 DEF NothingGetsOlder, ReportInOrder
<1>7. NothingAhead'
  <2>1. attempt \in Nat /\ ~Before'
    BY <1>1, Versions DEF RunTypes, Before
  <2>2. QED
    BY <1>1, <1>5, <2>1 DEF NothingAhead
<1>8. UploadInOrder'
  BY <1>1, <1>2 DEF RunTypes, UploadInOrder
<1>9. DoneMeansReleased'
  BY <1>1, <1>3, <1>5 DEF DoneMeansReleased
<1>10. OnlyWholeRunsPublished'
  <2>1. SUFFICES ASSUME NEW f \in File, bucket[f] # 0
                 PROVE  \E a \in Attempt : left'[a][f] = bucket[f]
    BY <1>1 DEF OnlyWholeRunsPublished
  <2>2. PICK a \in Attempt : left[a][f] = bucket[f]
    BY <2>1 DEF OnlyWholeRunsPublished
  <2>3. a # attempt
    BY <1>3, <2>1, <2>2, Versions
  <2>4. QED
    BY <1>5, <2>2, <2>3
<1>11. QED
  BY <1>4, <1>6, <1>7, <1>8, <1>9, <1>10

(* Its report is begun. *)
LEMMA CaptureStep == ASSUME ReleaseInv, Capture PROVE ReleaseInv'
<1> USE DEF ReleaseInv
<1>1. /\ UNCHANGED <<attempt, files, left, bucket, sent, exit>>
      /\ pc = "run" /\ exit # "none" /\ pc' \in {"upload", "complete"}
  BY DEF Capture
<1>2. RunTypes'
  BY <1>1 DEF RunTypes
<1>3. NothingGetsOlder' /\ NothingAhead'
  BY <1>1, <1>2, AheadStays DEF NothingGetsOlder, Before
<1>4. report'.status = IF exit = "zero" THEN "done" ELSE "failed"
  BY DEF Capture
<1>5. ReportInOrder'
  BY <1>1, <1>4 DEF ReportInOrder, Capture
<1>6. UploadInOrder'
  <2>1. CASE pc' = "upload"
    <3>1. exit = "zero" /\ toPut' = {f \in File : files[f] # 0}
      BY <2>1 DEF Capture
    <3>2. ASSUME NEW f \in File \ toPut'
          PROVE  bucket'[f] = files'[f]
      <4>1. files[f] = 0 /\ bucket[f] <= files[f] /\ bucket[f] \in Nat
        BY <3>1, <3>2, Versions DEF NothingGetsOlder, RunTypes
      <4>2. QED
        BY <1>1, <4>1
    <3>3. left[attempt] = files
      BY <1>1, <3>1 DEF UploadInOrder
    <3>4. QED
      BY <1>1, <2>1, <3>1, <3>2, <3>3 DEF UploadInOrder
  <2>2. CASE pc' = "complete"
    BY <2>2 DEF UploadInOrder
  <2>3. QED
    BY <1>1, <2>1, <2>2
<1>7. QED
  BY <1>1, <1>2, <1>3, <1>5, <1>6, ReleaseKept

(* The release files go up one by one. *)
LEMMA UploadSteps == ASSUME ReleaseInv, Upload \/ Uploaded PROVE ReleaseInv'
<1> USE DEF ReleaseInv
<1>1. /\ UNCHANGED <<attempt, files, left, sent, exit>> /\ pc = "upload"
      /\ pc' \in {"upload", "complete"} /\ attempt \in Attempt
  BY JobRunAssumption DEF Upload, Uploaded, RunTypes, Version, Attempt
<1>2. ~Before' /\ left[attempt] = files
  BY <1>1 DEF Before, UploadInOrder
<1>3. CASE Uploaded
  <2>1. UNCHANGED <<bucket, report>> /\ pc' = "complete" /\ toPut = {}
    BY <1>3 DEF Uploaded
  <2>2. RunTypes' /\ NothingGetsOlder' /\ UploadInOrder'
    BY <1>1, <2>1 DEF RunTypes, NothingGetsOlder, UploadInOrder
  <2>3. \A f \in File : bucket[f] = files[f] /\ files[f] \in Nat
    BY <1>1, <2>1, Versions DEF UploadInOrder, RunTypes
  <2>4. ReportInOrder'
    BY <1>1, <1>2, <2>1, <2>3 DEF ReportInOrder
  <2>5. NothingAhead'
    BY <1>1, <1>2, <2>2, AheadStays
  <2>6. QED
    BY <1>1, <2>1, <2>2, <2>4, <2>5, ReleaseKept
<1>4. ASSUME UNCHANGED bucket, pc' = "complete",
             report' = [report EXCEPT !.status = "failed", !.error = "upload"]
      PROVE  ReleaseInv'
  <2>1. RunTypes' /\ NothingGetsOlder' /\ UploadInOrder'
    BY <1>1, <1>4 DEF RunTypes, NothingGetsOlder, UploadInOrder
  <2>2. report'.status # "done" /\ report'.status \in {"done", "failed"}
    BY <1>4 DEF ReportInOrder
  <2>3. ReportInOrder'
    BY <1>4, <2>2 DEF ReportInOrder
  <2>4. NothingAhead'
    BY <1>1, <1>2, <2>1, AheadStays
  <2>5. QED
    BY <1>1, <1>4, <2>1, <2>3, <2>4, ReleaseKept
<1>5. ASSUME NEW f \in toPut,
             bucket' = [bucket EXCEPT ![f] = files[f]], toPut' = toPut \ {f},
             UNCHANGED <<pc, report>>
      PROVE  ReleaseInv'
  <2>0. f \in File
    BY <1>1 DEF UploadInOrder
  <2>1. RunTypes'
    BY <1>1, <1>5, <2>0 DEF RunTypes
  <2>2. /\ \A g \in File : bucket'[g] >= bucket[g]
        /\ NothingGetsOlder'
    <3>1. \A g \in File : /\ bucket[g] \in Nat /\ files[g] \in Nat
                          /\ bucket[g] <= files[g] /\ files[g] <= attempt
      BY Versions DEF RunTypes, NothingGetsOlder
    <3>2. \A g \in File : bucket'[g] = bucket[g] \/ bucket'[g] = files[g]
      BY <1>5 DEF RunTypes
    <3>3. \A g \in File : bucket'[g] >= bucket[g] /\ bucket'[g] <= files[g]
      BY <3>1, <3>2
    <3>4. QED
      BY <1>1, <3>1, <3>3 DEF NothingGetsOlder
  <2>3. DoneMeansReleased'
    BY <1>1, <2>1, <2>2, ReleasedStays
  <2>5. UploadInOrder' /\ ReportInOrder'
    BY <1>1, <1>5, <2>0 DEF RunTypes, UploadInOrder, ReportInOrder
  <2>6. NothingAhead'
    BY <1>1, <1>2, <2>1, AheadStays
  <2>7. OnlyWholeRunsPublished'
    <3>1. ASSUME NEW g \in File, bucket'[g] # 0
          PROVE  \E a \in Attempt : left[a][g] = bucket'[g]
      <4>1. CASE g = f
        <5>1. bucket'[g] = left[attempt][g]
          BY <1>2, <1>5, <2>0, <4>1 DEF RunTypes
        <5>2. QED
          BY <1>1, <5>1
      <4>2. CASE g # f
        <5>1. bucket'[g] = bucket[g]
          BY <1>5, <4>2 DEF RunTypes
        <5>2. QED
          BY <3>1, <5>1 DEF OnlyWholeRunsPublished
      <4>3. QED
        BY <4>1, <4>2
    <3>2. QED
      BY <1>1, <3>1 DEF OnlyWholeRunsPublished
  <2>8. QED
    BY <2>1, <2>2, <2>3, <2>5, <2>6, <2>7
<1>6. QED
  BY <1>3, <1>4, <1>5 DEF Upload

(* The report arrives, or does not; the task is counted. *)
LEMMA ReportSteps == ASSUME ReleaseInv, CompleteJob \/ BumpCounter PROVE ReleaseInv'
<1> USE DEF ReleaseInv
<1>1. UNCHANGED <<attempt, files, left, bucket, exit, report>> /\ pc' \in {"bump", "idle"}
  BY DEF CompleteJob, BumpCounter
<1>2. attempt \in Attempt /\ pc \in {"complete", "refuse", "bump"}
  BY JobRunAssumption DEF CompleteJob, BumpCounter, RunTypes, Version, Attempt
<1>3. \/ UNCHANGED sent
      \/ pc \in {"complete", "refuse"} /\ sent' = [sent EXCEPT ![attempt] = report.status]
  BY DEF CompleteJob, BumpCounter
<1>4. RunTypes'
  BY <1>1, <1>2, <1>3 DEF RunTypes, ReportInOrder
<1>5. NothingGetsOlder' /\ UploadInOrder' /\ ReportInOrder' /\ OnlyWholeRunsPublished'
  BY <1>1 DEF NothingGetsOlder, UploadInOrder, ReportInOrder, OnlyWholeRunsPublished
<1>6. NothingAhead'
  <2>1. \A a \in Attempt \ {attempt} : sent'[a] = sent[a]
    BY <1>3 DEF RunTypes
  <2>2. attempt \in Nat /\ ~Before'
    BY <1>1, Versions DEF RunTypes, Before
  <2>3. QED
    BY <1>1, <2>1, <2>2 DEF NothingAhead
<1>7. DoneMeansReleased'
  <2>1. CASE UNCHANGED sent
    BY <1>1, <2>1 DEF DoneMeansReleased
  <2>2. CASE pc \in {"complete", "refuse"} /\ sent' = [sent EXCEPT ![attempt] = report.status]
    <3>1. ASSUME NEW a \in Attempt, OnS3, sent'[a] = "done", NEW f \in File
          PROVE  bucket[f] >= left[a][f]
      <4>1. CASE a # attempt
        BY <2>2, <3>1, <4>1 DEF RunTypes, DoneMeansReleased
      <4>2. CASE a = attempt
        BY <2>2, <3>1, <4>2 DEF RunTypes, ReportInOrder
      <4>3. QED
        BY <4>1, <4>2
    <3>2. QED
      BY <1>1, <3>1 DEF DoneMeansReleased
  <2>3. QED
    BY <1>3, <2>1, <2>2
<1>8. QED
  BY <1>4, <1>5, <1>6, <1>7

(* Every step keeps the invariant. *)
LEMMA NextRelease == ReleaseInv /\ [Next]_vars => ReleaseInv'
<1>1. SUFFICES ASSUME ReleaseInv, [Next]_vars PROVE ReleaseInv'
  OBVIOUS
<1>2. CASE UNCHANGED vars
  BY <1>1, <1>2 DEF vars, jobVars, ReleaseInv, RunTypes, NothingGetsOlder, NothingAhead, Before,
     UploadInOrder, ReportInOrder, DoneMeansReleased, OnlyWholeRunsPublished
<1>3. QED
  BY <1>1, <1>2, StagingSteps, WriteFileStep, ExitStep, CaptureStep, UploadSteps, ReportSteps
  DEF Next

(* The invariant. *)
LEMMA ReleaseInvHolds == Spec => []ReleaseInv
BY InitRelease, NextRelease, PTL DEF Spec

(* Whatever a script that was reported done has left in the release        *)
(* directory, nothing included, is in the bucket, in that version or a     *)
(* later attempt's, whatever uploads broke off, reports were lost and      *)
(* agents died.                                                            *)
THEOREM DoneIsReleased == Spec => []DoneMeansReleased
<1>1. ReleaseInv => DoneMeansReleased
  BY DEF ReleaseInv
<1>2. QED
  BY ReleaseInvHolds, <1>1, PTL

(* What is published stood in the release directory when some script ended *)
(* with 0, however the files are named and whoever wrote them.             *)
THEOREM OnlyWholeRunsAreEver == Spec => []OnlyWholeRunsPublished
<1>1. ReleaseInv => OnlyWholeRunsPublished
  BY DEF ReleaseInv
<1>2. QED
  BY ReleaseInvHolds, <1>1, PTL

----------------------------------------------------------------------------
(* The log in a report.                                                    *)

(* What a text ends in, position by position. *)
LEMMA SuffixByPositions ==
  ASSUME NEW S, NEW s \in Seq(S), NEW t \in Seq(S), Len(s) <= Len(t),
         \A i \in 1..Len(s) : s[i] = t[Len(t) - Len(s) + i]
  PROVE  IsSuffix(s, t)
<1> DEFINE rs == Reverse(s)
           rt == Reverse(t)
<1>1. Len(s) \in Nat /\ Len(t) \in Nat
  OBVIOUS
<1>2. /\ rs \in Seq(S) /\ Len(rs) = Len(s) /\ \A i \in 1..Len(s) : rs[i] = s[Len(s) - i + 1]
  BY <1>1 DEF Reverse
<1>3. /\ rt \in Seq(S) /\ Len(rt) = Len(t) /\ \A i \in 1..Len(t) : rt[i] = t[Len(t) - i + 1]
  BY <1>1 DEF Reverse
<1>4. ASSUME NEW i \in 1..Len(s) PROVE rs[i] = rt[i]
  <2>1. /\ Len(s) - i + 1 \in 1..Len(s) /\ i \in 1..Len(t)
        /\ Len(t) - Len(s) + (Len(s) - i + 1) = Len(t) - i + 1
    BY <1>1
  <2> QED
    BY <1>2, <1>3, <2>1
<1> HIDE DEF rs, rt
<1>5. SubSeq(rs, 1, Len(rs)) = SubSeq(rt, 1, Len(rs))
  BY <1>1, <1>2, <1>3, <1>4
<1> QED
  BY <1>1, <1>2, <1>3, <1>5 DEF IsSuffix, IsPrefix, rs, rt

(* What stands from a position on is a suffix. *)
LEMMA Ends ==
  ASSUME NEW S, NEW t \in Seq(S), NEW k \in 1..(Len(t) + 1)
  PROVE  LET s == SubSeq(t, k, Len(t)) IN
         /\ s \in Seq(S) /\ Len(s) = Len(t) + 1 - k
         /\ \A i \in 1..Len(s) : s[i] = t[k + i - 1]
         /\ IsSuffix(s, t)
<1> DEFINE s == SubSeq(t, k, Len(t))
<1>1. \A i \in k..Len(t) : t[i] \in S
  OBVIOUS
<1>2. /\ s \in Seq(S) /\ Len(s) = Len(t) + 1 - k
      /\ \A i \in 1..Len(s) : s[i] = t[k + i - 1]
  BY <1>1, SubSeqProperties
<1> HIDE DEF s
<1>3. Len(s) <= Len(t) /\ \A i \in 1..Len(s) : s[i] = t[Len(t) - Len(s) + i]
  BY <1>2
<1>4. IsSuffix(s, t)
  BY <1>2, <1>3, SuffixByPositions
<1> QED
  BY <1>2, <1>4 DEF s

(* Of some positions one is the first. *)
LEMMA FirstOf ==
  ASSUME NEW T, T \subseteq Nat, T # {}
  PROVE  \E i \in T : \A j \in T : i <= j
<1> DEFINE R == OpToRel(<, Nat)
<1>1. IsWellFoundedOn(R, Nat)
  BY NatLessThanWellFounded
<1>2. \A m, n \in Nat : <<m, n>> \in R <=> m < n
  BY DEF OpToRel
<1> HIDE DEF R
<1>3. \E i \in T : \A j \in T : ~(<<j, i>> \in R)
  BY <1>1, WFMin
<1>4. PICK i \in T : \A j \in T : ~(<<j, i>> \in R)
  BY <1>3
<1>5. ASSUME NEW j \in T PROVE i <= j
  <2>1. i \in Nat /\ j \in Nat /\ ~(<<j, i>> \in R)
    BY <1>4
  <2>2. ~(j < i)
    BY <1>2, <2>1
  <2> QED
    BY <2>1, <2>2
<1> QED
  BY <1>5

(* captureRunLog: whatever the text, it keeps its end, within the cap, and *)
(* drops the line that the cap cuts, if it ends in what is kept.           *)
LEMMA CapturesTheEnd ==
  ASSUME NEW S, NEW text \in Seq(S), NEW log, log = CaptureRunLog(text)
  PROVE  /\ log \in Seq(S) /\ Len(log) <= Len(text)
         /\ Len(log) <= FullLogCap /\ IsSuffix(log, text)
         /\ LET before == Len(text) - Len(log) IN
              before = 0 \/ text[before] = "nl" \/ ~Contains(log, "nl")
<1>1. FullLogCap \in Nat \ {0} /\ Len(text) \in Nat
  BY JobRunAssumption
<1>2. CASE Len(text) <= FullLogCap
  <2>1. log = text
    BY <1>2 DEF CaptureRunLog
  <2> QED
    BY <1>1, <1>2, <2>1, SuffixByPositions
<1>3. CASE ~(Len(text) <= FullLogCap)
  <2> DEFINE first == Len(text) - FullLogCap + 1
             window == SubSeq(text, first, Len(text))
             ends == {i \in DOMAIN window : window[i] = "nl"}
             nl == CHOOSE i \in ends : \A j \in ends : i <= j
  <2>1. first \in 1..(Len(text) + 1) /\ first # 1
    BY <1>1, <1>3
  <2>2. LastN(text, FullLogCap) = window
    <3>1. Len(text) > FullLogCap
      BY <1>1, <1>3
    <3> QED
      BY <1>1, <3>1 DEF LastN
  <2>3. log = IF ends = {} THEN window ELSE SubSeq(window, nl + 1, Len(window))
    <3>1. log = LET w == LastN(text, FullLogCap)
                    e == {i \in DOMAIN w : w[i] = "nl"}
                IN  IF e = {} THEN w
                    ELSE SubSeq(w, (CHOOSE i \in e : \A j \in e : i <= j) + 1, Len(w))
      BY <1>3 DEF CaptureRunLog
    <3> HIDE DEF window
    <3> QED
      BY <2>2, <3>1
  <2>4. /\ window \in Seq(S) /\ Len(window) = FullLogCap /\ IsSuffix(window, text)
        /\ \A i \in 1..FullLogCap : window[i] = text[first + i - 1]
    <3> HIDE DEF first
    <3>1. /\ window \in Seq(S) /\ Len(window) = Len(text) + 1 - first
          /\ \A i \in 1..Len(window) : window[i] = text[first + i - 1]
          /\ IsSuffix(window, text)
      BY <2>1, Ends
    <3> QED
      BY <1>1, <3>1 DEF first
  <2> HIDE DEF window
  <2>5. DOMAIN window = 1..FullLogCap
    BY <2>4
  <2>6. CASE ends = {}
    <3>1. log = window
      BY <2>3, <2>6
    <3>2. ~Contains(log, "nl")
      BY <1>1, <2>4, <2>5, <2>6, <3>1 DEF Contains
    <3>3. log \in Seq(S) /\ Len(log) = FullLogCap /\ IsSuffix(log, text)
      BY <2>4, <3>1
    <3> QED
      BY <1>1, <1>3, <3>2, <3>3
  <2>7. CASE ends # {}
    <3>1. \E i \in ends : \A j \in ends : i <= j
      <4>1. ends \subseteq Nat
        BY <1>1, <2>5
      <4> HIDE DEF ends
      <4> QED
        BY <2>7, <4>1, FirstOf
    <3>2. nl \in ends
      BY <3>1
    <3>3. nl \in 1..FullLogCap /\ window[nl] = "nl"
      BY <2>5, <3>2
    <3> HIDE DEF nl, ends
    <3>4. log = SubSeq(window, nl + 1, Len(window)) /\ nl + 1 \in 1..(Len(window) + 1)
      BY <1>1, <2>3, <2>4, <2>7, <3>3
    <3>5. /\ log \in Seq(S) /\ Len(log) = FullLogCap - nl
          /\ \A i \in 1..Len(log) : log[i] = window[nl + i]
      <4> DEFINE k == nl + 1
      <4>0. window \in Seq(S) /\ log = SubSeq(window, k, Len(window)) /\ k \in 1..(Len(window) + 1)
        BY <2>4, <3>4
      <4>1. /\ log \in Seq(S) /\ Len(log) = Len(window) + 1 - k
            /\ \A i \in 1..Len(log) : log[i] = window[k + i - 1]
        <5> HIDE DEF k
        <5> QED
          BY <4>0, Ends
      <4>2. Len(log) = FullLogCap - nl
        BY <1>1, <2>4, <3>3, <4>1
      <4>3. ASSUME NEW i \in 1..Len(log) PROVE log[i] = window[nl + i]
        <5>1. (nl + 1) + i - 1 = nl + i
          BY <1>1, <3>3, <4>2
        <5> QED
          BY <4>1, <5>1
      <4> QED
        BY <4>1, <4>2, <4>3
    <3>6. Len(log) <= Len(text) /\ \A i \in 1..Len(log) : log[i] = text[Len(text) - Len(log) + i]
      <4> SUFFICES ASSUME NEW i \in 1..Len(log)
                   PROVE  log[i] = text[Len(text) - Len(log) + i]
        BY <1>1, <1>3, <3>3, <3>5
      <4>1. nl + i \in 1..FullLogCap
        BY <1>1, <3>3, <3>5
      <4>2. log[i] = text[first + (nl + i) - 1]
        BY <2>4, <3>5, <4>1
      <4>3. first + (nl + i) - 1 = Len(text) - Len(log) + i
        BY <1>1, <3>3, <3>5
      <4> QED
        BY <4>2, <4>3
    <3>7. IsSuffix(log, text)
      BY <3>5, <3>6, SuffixByPositions
    <3>8. text[Len(text) - Len(log)] = "nl"
      <4>1. Len(text) - Len(log) = first + nl - 1
        BY <1>1, <3>3, <3>5
      <4> QED
        BY <2>4, <3>3, <4>1
    <3>9. Len(log) <= FullLogCap
      BY <1>1, <3>3, <3>5
    <3> QED
      BY <3>5, <3>6, <3>7, <3>8, <3>9
  <2> QED
    BY <2>6, <2>7
<1> QED
  BY <1>2, <1>3

(* A report has the log of its own script's output: nothing is printed     *)
(* between the script's end and the report.                                *)
LogInv ==
  /\ written \in 0..Len(Output) /\ "log" \in DOMAIN report
  /\ Ended => report.log = CaptureRunLog(Printed)

(* Every step keeps the log with its output.                               *)
LEMMA NextLog == LogInv /\ [Next]_vars => LogInv'
<1> SUFFICES ASSUME LogInv, [Next]_vars PROVE LogInv'
  OBVIOUS
<1>1. Len(Output) \in Nat
  BY JobRunAssumption
<1>2. CASE Accept \/ Stage \/ Download \/ WriteFile \/ Exit \/ Crash
  <2>1. ~Ended' /\ written' = written
    BY <1>2 DEF Accept, Stage, Refuse, Download, WriteFile, Exit, Crash, Ended
  <2>2. report' \in {report, NewReport, [NewReport EXCEPT !.status = "failed"]}
    BY <1>2 DEF Accept, Stage, Refuse, Download, WriteFile, Exit, Crash
  <2>3. "log" \in DOMAIN NewReport /\ "log" \in DOMAIN [NewReport EXCEPT !.status = "failed"]
    BY DEF NewReport
  <2>4. "log" \in DOMAIN report'
    BY <2>2, <2>3 DEF LogInv
  <2> QED
    BY <2>1, <2>4 DEF LogInv
<1>3. CASE StartScript
  BY <1>1, <1>3 DEF StartScript, LogInv, Ended
<1>4. CASE Emit
  BY <1>1, <1>4 DEF Emit, LogInv, Ended, jobVars
<1>5. CASE Capture
  <2>1. PICK st, err, tail : report' = [status |-> st, error |-> err, tail |-> tail, log |-> CaptureRunLog(Printed)]
    BY <1>5 DEF Capture
  <2>2. report'.log = CaptureRunLog(Printed) /\ "log" \in DOMAIN report'
    BY <2>1
  <2>3. written' = written
    BY <1>5 DEF Capture
  <2> QED
    BY <2>2, <2>3 DEF LogInv, Printed
<1>6. CASE Upload
  <2>1. written' = written /\ Ended
    BY <1>6 DEF Upload, Ended
  <2>2. report' \in {report, [report EXCEPT !.status = "failed", !.error = "upload"]}
    BY <1>6 DEF Upload
  <2>3. report'.log = report.log /\ "log" \in DOMAIN report'
    BY <2>2 DEF LogInv
  <2> QED
    BY <2>1, <2>3 DEF LogInv, Printed
<1>7. CASE Uploaded \/ CompleteJob \/ BumpCounter \/ UNCHANGED vars
  <2>1. written' = written /\ report' = report /\ (Ended' => Ended)
    BY <1>7 DEF Uploaded, CompleteJob, BumpCounter, vars, jobVars, Ended
  <2> QED
    BY <2>1 DEF LogInv, Printed
<1> QED
  BY <1>2, <1>3, <1>4, <1>5, <1>6, <1>7 DEF Next

(* For every output of a script and every cap, the log of a report is the  *)
(* end of what was printed, and begins with a line unless it has no end of *)
(* a line at all (LogIsTheEnd, the half of OutputIsTold that no fold is in)*)
THEOREM LogsEndTheOutput == Spec => [](Ended => LogIsTheEnd)
<1>1. Init => LogInv
  <2> SUFFICES ASSUME Init PROVE LogInv
    OBVIOUS
  <2>1. written \in 0..Len(Output) /\ ~Ended
    BY JobRunAssumption DEF Init, Ended
  <2>2. "log" \in DOMAIN report
    BY DEF Init, NewReport
  <2> QED
    BY <2>1, <2>2 DEF LogInv
<1>2. LogInv /\ [Next]_vars => LogInv'
  BY NextLog
<1>3. LogInv => (Ended => LogIsTheEnd)
  <2> SUFFICES ASSUME LogInv, Ended PROVE LogIsTheEnd
    OBVIOUS
  <2> DEFINE S == ToSet(Output)
  <2>1. Output \in Seq(S) /\ written \in 0..Len(Output) /\ report.log = CaptureRunLog(Printed)
    BY JobRunAssumption DEF LogInv
  <2> HIDE DEF S
  <2>2. /\ Printed \in Seq(S) /\ Len(Printed) = written
        /\ \A i \in 1..written : Printed[i] = Output[i]
    <3>1. \A i \in 1..written : Output[i] \in S
      BY <2>1
    <3>2. written \in Nat
      BY <2>1
    <3> QED
      BY <3>1, <3>2, SubSeqProperties DEF Printed
  <2> DEFINE log == report.log
             before == written - Len(log)
  <2>3. /\ Len(log) <= FullLogCap /\ IsSuffix(log, Printed)
        /\ before = 0 \/ Printed[before] = "nl" \/ ~Contains(log, "nl")
    BY <2>1, <2>2, CapturesTheEnd
  <2>4. before \in 1..written \/ before = 0
    <3>1. log \in Seq(S) /\ Len(log) <= written
      BY <2>1, <2>2, CapturesTheEnd
    <3> QED
      BY <2>1, <3>1
  <2> QED
    BY <2>2, <2>3, <2>4 DEF LogIsTheEnd
<1> QED
  BY <1>1, <1>2, <1>3, PTL DEF Spec
=============================================================================
