----------------------------- MODULE Scan_proofs -----------------------------
(***************************************************************************)
(* Proofs about the singleton loops: first their supervision, for every    *)
(* number of replicas and of faults, then the scanner, for every number of *)
(* replicas, episodes, jobs, faults and operator requests.                 *)
(***************************************************************************)
EXTENDS Scan, TLAPS

----------------------------------------------------------------------------
(* The supervision.                                                        *)

(* A session that lives has the lock. *)
LivingSessionHasLock == \A r \in Replica : conn[r] = "good" => lock = r

(* Only a replica that runs the body has a session, good or broken. *)
SessionIsForBody == \A r \in Replica : conn[r] # "none" => r \in Running

LeaderInv == LeaderTypeOK /\ LivingSessionHasLock /\ SessionIsForBody

(* The supervision keeps lock, connections and phases to their types. *)
LEMMA NextLeaderTypes == LeaderTypeOK /\ [LeaderNext]_leaderVars => LeaderTypeOK'
<1>1. SUFFICES ASSUME LeaderTypeOK, [LeaderNext]_leaderVars
               PROVE  LeaderTypeOK'
  OBVIOUS
<1>2. CASE UNCHANGED leaderVars
  BY <1>1, <1>2 DEF LeaderTypeOK, leaderVars
<1>3. CASE SessionEnds
  BY <1>1, <1>3 DEF LeaderTypeOK, SessionEnds
<1>4. ASSUME NEW r \in Replica, Supervise(r) \/ Release(r) \/ Boot(r)
      PROVE  LeaderTypeOK'
  BY <1>1, <1>4 DEF LeaderTypeOK, Supervise, Acquire, KeepaliveFails, Release, Boot
<1>5. ASSUME NEW r \in Replica, Terminate(r) \/ Crash(r) \/ SessionBreaks(r)
      PROVE  LeaderTypeOK'
  BY <1>1, <1>5, FaultsAssumption DEF LeaderTypeOK, Terminate, Crash, SessionBreaks
<1>6. QED
  BY <1>1, <1>2, <1>3, <1>4, <1>5 DEF LeaderNext

(* Every step keeps the sessions' bond to the lock and to the body. *)
LEMMA NextLeaderInv == LeaderInv /\ [LeaderNext]_leaderVars => LeaderInv'
<1>1. SUFFICES ASSUME LeaderInv, [LeaderNext]_leaderVars
               PROVE  LivingSessionHasLock' /\ SessionIsForBody'
  BY NextLeaderTypes DEF LeaderInv
<1> USE <1>1, NoReplicaAssumption DEF LeaderInv, LeaderTypeOK, LivingSessionHasLock,
        SessionIsForBody, Running
<1>2. CASE UNCHANGED leaderVars
  BY <1>2 DEF leaderVars
<1>3. CASE SessionEnds
  BY <1>3 DEF SessionEnds
<1>4. ASSUME NEW r \in Replica, Acquire(r)
      PROVE  LivingSessionHasLock' /\ SessionIsForBody'
  BY <1>4 DEF Acquire
<1>5. ASSUME NEW r \in Replica, KeepaliveFails(r)
      PROVE  LivingSessionHasLock' /\ SessionIsForBody'
  BY <1>5 DEF KeepaliveFails
<1>6. ASSUME NEW r \in Replica, Release(r)
      PROVE  LivingSessionHasLock' /\ SessionIsForBody'
  BY <1>6 DEF Release
<1>7. ASSUME NEW r \in Replica, Terminate(r)
      PROVE  LivingSessionHasLock' /\ SessionIsForBody'
  BY <1>7 DEF Terminate
<1>8. ASSUME NEW r \in Replica, Crash(r)
      PROVE  LivingSessionHasLock' /\ SessionIsForBody'
  BY <1>8 DEF Crash
<1>9. ASSUME NEW r \in Replica, SessionBreaks(r)
      PROVE  LivingSessionHasLock' /\ SessionIsForBody'
  BY <1>9 DEF SessionBreaks
<1>10. ASSUME NEW r \in Replica, Boot(r)
       PROVE  LivingSessionHasLock' /\ SessionIsForBody'
  BY <1>10 DEF Boot
<1>11. QED
  BY <1>2, <1>3, <1>4, <1>5, <1>6, <1>7, <1>8, <1>9, <1>10 DEF LeaderNext, Supervise

(* The system starts with the lock free and no session. *)
LEMMA InitLeaderInv == LeaderInit => LeaderInv
BY FaultsAssumption DEF LeaderInit, LeaderInv, LeaderTypeOK, LivingSessionHasLock,
   SessionIsForBody

(* The invariant of the supervision, types included. *)
THEOREM LeaderInvHolds == LeaderSpec => []LeaderInv
<1>1. LeaderInit => LeaderInv
  BY InitLeaderInv
<1>2. LeaderInv /\ [LeaderNext]_leaderVars => LeaderInv'
  BY NextLeaderInv
<1>3. QED
  BY <1>1, <1>2, PTL DEF LeaderSpec

(* Whoever runs the body of a loop on a session that lives has the lock:   *)
(* no two replicas do, whichever side of a broken session notices first.   *)
THEOREM SoundLeaderAlwaysHasLock == LeaderSpec => []SoundLeaderHasLock
<1>1. LeaderInv => SoundLeaderHasLock
  BY DEF LeaderInv, LivingSessionHasLock, SoundLeaderHasLock, Running
<1>2. QED
  BY LeaderInvHolds, <1>1, PTL

----------------------------------------------------------------------------
(* The refinement.                                                         *)

(* The leader of the election is the lock's replica while its session      *)
(* lives.                                                                  *)
LEMMA SoundLeaderIsLocked ==
  LeaderInv => SoundLeader = IF \E r \in Replica : conn[r] = "good" THEN lock ELSE NoReplica
<1>1. SUFFICES ASSUME LeaderInv
               PROVE  SoundLeader = IF \E r \in Replica : conn[r] = "good"
                                    THEN lock ELSE NoReplica
  OBVIOUS
<1>2. CASE \E r \in Replica : conn[r] = "good"
  <2>1. PICK r \in Replica : conn[r] = "good"
    BY <1>2
  <2>2. r \in Running
    BY <1>1, <2>1 DEF LeaderInv, SessionIsForBody
  <2>3. \A s \in Running : conn[s] = "good" => s = lock
    BY <1>1 DEF LeaderInv, LivingSessionHasLock, Running
  <2>4. SoundLeader = CHOOSE s \in Running : conn[s] = "good"
    BY <2>1, <2>2 DEF SoundLeader
  <2>5. (CHOOSE s \in Running : conn[s] = "good") = lock
    BY <2>1, <2>2, <2>3
  <2>6. QED
    BY <1>2, <2>4, <2>5
<1>3. CASE ~\E r \in Replica : conn[r] = "good"
  BY <1>3 DEF SoundLeader, Running
<1>4. QED
  BY <1>2, <1>3

(* So it is after a step. *)
LEMMA NextSoundLeaderIsLocked ==
  LeaderInv' => (SoundLeader = IF \E r \in Replica : conn[r] = "good"
                               THEN lock ELSE NoReplica)'
BY SoundLeaderIsLocked, PTL

(* Every step of the supervision elects, deposes, or is none of the        *)
(* election's business.                                                    *)
LEMMA StepIsElection ==
  LeaderInv /\ LeaderInv' /\ [LeaderNext]_leaderVars => [Election!Next]_SoundLeader
<1>1. SUFFICES ASSUME LeaderInv, LeaderInv', [LeaderNext]_leaderVars
               PROVE  \/ SoundLeader' = SoundLeader
                      \/ SoundLeader = NoReplica /\ \E r \in Replica : SoundLeader' = r
                      \/ SoundLeader # NoReplica /\ SoundLeader' = NoReplica
  BY DEF Election!Next, Election!Elect, Election!Abdicate
<1> DEFINE Some == \E r \in Replica : conn[r] = "good"
<1>2. SoundLeader = IF Some THEN lock ELSE NoReplica
  BY <1>1, SoundLeaderIsLocked
<1>3. SoundLeader' = IF Some' THEN lock' ELSE NoReplica
  BY <1>1, NextSoundLeaderIsLocked
<1>4. lock \in Replica \cup {NoReplica} /\ lock' \in Replica \cup {NoReplica}
  BY <1>1 DEF LeaderInv, LeaderTypeOK
<1>5. Some /\ Some' => lock' = lock
  <2>1. SUFFICES ASSUME Some, Some' PROVE lock' = lock
    OBVIOUS
  <2>2. PICK r \in Replica : conn[r] = "good"
    BY <2>1
  <2>3. lock = r
    BY <1>1, <2>2 DEF LeaderInv, LivingSessionHasLock
  <2>4. lock # NoReplica
    BY <2>3, NoReplicaAssumption
  <2>5. CASE UNCHANGED leaderVars
    BY <2>5 DEF leaderVars
  <2>6. CASE SessionEnds
    BY <2>2, <2>3, <2>6 DEF SessionEnds
  <2>7. ASSUME NEW s \in Replica, Release(s) PROVE lock' = lock
    <3>1. CASE lock = s /\ conn[s] = "good"
      <4>1. conn' = [conn EXCEPT ![s] = "none"]
        BY <2>7 DEF Release
      <4>2. PICK q \in Replica : conn'[q] = "good"
        BY <2>1
      <4>3. q # s
        BY <1>1, <4>1, <4>2 DEF LeaderInv, LeaderTypeOK
      <4>4. conn[q] = "good"
        BY <1>1, <4>1, <4>2, <4>3 DEF LeaderInv, LeaderTypeOK
      <4>5. QED
        BY <1>1, <3>1, <4>3, <4>4 DEF LeaderInv, LivingSessionHasLock
    <3>2. CASE ~(lock = s /\ conn[s] = "good")
      BY <2>7, <3>2 DEF Release
    <3>3. QED
      BY <3>1, <3>2
  <2>8. ASSUME NEW s \in Replica,
               \/ Supervise(s) \/ Terminate(s) \/ Crash(s) \/ SessionBreaks(s) \/ Boot(s)
        PROVE  lock' = lock
    BY <2>4, <2>8 DEF Supervise, Acquire, KeepaliveFails, Terminate, Crash, SessionBreaks, Boot
  <2>9. QED
    BY <1>1, <2>5, <2>6, <2>7, <2>8 DEF LeaderNext
<1>6. Some => lock # NoReplica
  BY <1>1, NoReplicaAssumption DEF LeaderInv, LivingSessionHasLock
<1>7. QED
  BY <1>2, <1>3, <1>4, <1>5, <1>6

(* The supervision of a singleton loop is an election: one leader or none, *)
(* and none between two leaders.                                           *)
THEOREM SupervisionIsElection == LeaderSpec => IsAnElection
<1>1. LeaderInit => Election!Init
  BY DEF LeaderInit, Election!Init, SoundLeader, Running
<1>2. LeaderInv /\ LeaderInv' /\ [LeaderNext]_leaderVars => [Election!Next]_SoundLeader
  BY StepIsElection
<1>3. QED
  BY <1>1, <1>2, LeaderInvHolds, PTL DEF LeaderSpec, IsAnElection, Election!Spec

----------------------------------------------------------------------------
(* The scanner.                                                            *)

(* Where a pass may be, and what it may find.  Which episode is next and   *)
(* which script is best play no part here.                                 *)
Cursor == Episode \cup {0} \cup {NextEpisode(T) : T \in SUBSET Episode}
Choice == [Episode -> {NoFile} \cup {SeenOf[F].script : F \in SUBSET ToSet(Listing)}]
Script == {NoFile, "filter.vpy"} \cup {c[e] : c \in Choice, e \in Cursor}
Row == [episode: Cursor, status: {"none", "pending"} \cup Terminal, script: Script,
        old: BOOLEAN, by: Replica \cup {NoReplica}, sound: BOOLEAN]
PassState == [pc: {"idle", "series", "check", "create"}, todo: SUBSET Episode,
              cur: Cursor, script: Choice]

ScanTypes ==
  /\ folder \in [Episode -> SUBSET ToSet(Listing)]
  /\ jobs \in [JobId -> Row]
  /\ pass \in [Replica -> PassState]

(* Whoever runs the loop has a session, be it one that is broken. *)
BodyHasSession == \A r \in Replica : r \in Running => conn[r] # "none"

(* A pass is in progress only where the loop runs. *)
PassIsOfLeader == \A r \in Replica : pass[r].pc # "idle" => r \in Running

(* A job that r may find beside the one it inserts: an operator's, or that *)
(* of another scanner while one of the two has lost its session.           *)
Excused(r, j) ==
  \/ jobs[j].by = NoReplica
  \/ jobs[j].by # r /\ (conn[r] = "broken" \/ ~jobs[j].sound)

(* What the check has found, the insert may rely on, but for such jobs. *)
CheckStands ==
  \A r \in Replica : pass[r].pc = "create" =>
    \A j \in JobId : Covers(j, pass[r].cur) => Excused(r, j)

ScanInv ==
  /\ LeaderInv /\ ScanTypes
  /\ BodyHasSession /\ PassIsOfLeader /\ CheckStands

----------------------------------------------------------------------------
(* Nothing goes on at the start. *)
LEMMA InitScanInv == Init => ScanInv
<1>1. SUFFICES ASSUME Init PROVE ScanInv
  OBVIOUS
<1>2. LeaderInv
  BY <1>1, InitLeaderInv DEF Init
<1>3. Idle \in PassState /\ Idle.pc = "idle"
  BY DEF Idle, PassState, Cursor, Choice
<1>4. NoJob \in Row
  BY DEF NoJob, Row, Cursor, Script, Terminal
<1>5. ScanTypes
  BY <1>1, <1>3, <1>4, ScanAssumption DEF Init, ScanTypes
<1>6. BodyHasSession /\ PassIsOfLeader /\ CheckStands
  BY <1>1, <1>3 DEF Init, LeaderInit, Running, BodyHasSession, PassIsOfLeader, CheckStands
<1>7. QED
  BY <1>2, <1>5, <1>6 DEF ScanInv

(* An episode's folder yields a script among the choices. *)
LEMMA SeenIsChoice ==
  ASSUME ScanTypes, NEW e \in Episode
  PROVE  SeenIn(e).script \in {NoFile} \cup {SeenOf[F].script : F \in SUBSET ToSet(Listing)}
BY DEF ScanTypes, SeenIn

----------------------------------------------------------------------------
(* The pass.                                                               *)

(* The next candidate is taken up, or the pass is over. *)
LEMMA ProceedTypes ==
  ASSUME ScanTypes, NEW r \in Replica, NEW T \in SUBSET Episode, Proceed(r, T)
  PROVE  /\ pass' \in [Replica -> PassState]
         /\ pass'[r].pc \in {"idle", "series"}
         /\ \A q \in Replica \ {r} : pass'[q] = pass[q]
<1>1. Idle \in PassState /\ Idle.pc = "idle"
  BY DEF Idle, PassState, Cursor, Choice
<1>2. CASE T = {}
  BY <1>1, <1>2 DEF Proceed, ScanTypes
<1>3. CASE T # {}
  <2>1. pass' = [pass EXCEPT ![r] = [pass[r] EXCEPT !.pc = "series", !.todo = T,
                                                    !.cur = NextEpisode(T)]]
    BY <1>3 DEF Proceed
  <2>2. NextEpisode(T) \in Cursor
    BY DEF Cursor
  <2>3. [pass[r] EXCEPT !.pc = "series", !.todo = T, !.cur = NextEpisode(T)] \in PassState
    BY <2>2 DEF ScanTypes, PassState
  <2>4. [pass[r] EXCEPT !.pc = "series", !.todo = T, !.cur = NextEpisode(T)].pc = "series"
    BY DEF ScanTypes, PassState
  <2>5. QED
    BY <2>1, <2>3, <2>4 DEF ScanTypes
<1>4. QED
  BY <1>2, <1>3

(* A step of the pass of r moves no other pass; what it does to the jobs    *)
(* must leave each pass what it may rely on.                               *)
LEMMA PassKeeps ==
  ASSUME ScanInv, NEW r \in Replica, Live(r), UNCHANGED <<leaderVars, folder>>,
         jobs' \in [JobId -> Row], pass' \in [Replica -> PassState],
         \A q \in Replica \ {r} : pass'[q] = pass[q],
         \A q \in Replica : pass'[q].pc = "create" =>
           \A j \in JobId : Covers(j, pass[q].cur)' => Excused(q, j)'
  PROVE  ScanInv'
<1>1. r \in Running
  BY DEF Live, Running
<1>2. LeaderInv' /\ BodyHasSession'
  BY DEF ScanInv, LeaderInv, LeaderTypeOK, LivingSessionHasLock, SessionIsForBody,
     BodyHasSession, Running, leaderVars
<1>3. Running' = Running
  BY DEF Running, leaderVars
<1>4. PassIsOfLeader'
  BY <1>1, <1>3 DEF ScanInv, PassIsOfLeader
<1>5. CheckStands'
  BY DEF CheckStands, Covers
<1>6. ScanTypes'
  BY DEF ScanInv, ScanTypes
<1>7. QED
  BY <1>2, <1>4, <1>5, <1>6 DEF ScanInv

(* So a step that leaves the jobs alone, and r before an insert only when  *)
(* there is no job.                                                        *)
LEMMA QuietPassKeeps ==
  ASSUME ScanInv, NEW r \in Replica, Live(r), UNCHANGED <<leaderVars, folder, jobs>>,
         pass' \in [Replica -> PassState],
         \A q \in Replica \ {r} : pass'[q] = pass[q],
         pass'[r].pc = "create" => \A j \in JobId : ~Covers(j, pass'[r].cur)
  PROVE  ScanInv'
<1>1. jobs' \in [JobId -> Row]
  BY DEF ScanInv, ScanTypes
<1>2. ASSUME NEW q \in Replica, pass'[q].pc = "create", NEW j \in JobId,
             Covers(j, pass[q].cur)'
      PROVE  Excused(q, j)'
  <2>1. q # r
    BY <1>2 DEF Covers
  <2>2. Excused(q, j)
    BY <1>2, <2>1 DEF ScanInv, CheckStands, Covers
  <2>3. QED
    BY <2>2 DEF Excused, leaderVars
<1>3. QED
  BY <1>1, <1>2, PassKeeps

(* The four steps of a pass: only CheckEpisode leads to the insert. *)
LEMMA ScanSteps == ASSUME ScanInv, NEW r \in Replica, ScanStep(r) PROVE ScanInv'
<1>1. ScanTypes /\ PassIsOfLeader /\ pass[r] \in PassState
  BY DEF ScanInv, ScanTypes
<1>2. CASE StartPass(r)
  <2> DEFINE found == {e \in Episode : Candidate(e)}
             taken == [e \in Episode |-> IF e \in found THEN SeenIn(e).script ELSE NoFile]
             begun == [pc |-> "series", todo |-> found, cur |-> NextEpisode(found),
                       script |-> taken]
  <2>1. Live(r) /\ pass' = [pass EXCEPT ![r] = begun]
        /\ UNCHANGED <<leaderVars, folder, jobs>>
    BY <1>2 DEF StartPass
  <2>2. taken \in Choice
    BY <1>1, SeenIsChoice DEF Choice
  <2>3. NextEpisode(found) \in Cursor
    BY DEF Cursor
  <2> HIDE DEF taken
  <2>4. begun \in PassState /\ begun.pc = "series"
    BY <2>2, <2>3 DEF PassState
  <2> HIDE DEF begun
  <2>5. /\ pass' \in [Replica -> PassState] /\ pass'[r].pc = "series"
        /\ \A q \in Replica \ {r} : pass'[q] = pass[q]
    BY <1>1, <2>1, <2>4 DEF ScanTypes
  <2>6. QED
    BY <2>1, <2>5, QuietPassKeeps
<1>3. CASE ReadSeries(r)
  <2>1. Live(r) /\ UNCHANGED <<leaderVars, folder, jobs>>
    BY <1>3 DEF ReadSeries
  <2>3. CASE Proceed(r, pass[r].todo \ {pass[r].cur})
    <3>1. pass[r].todo \ {pass[r].cur} \in SUBSET Episode
      BY <1>1 DEF PassState
    <3>2. QED
      BY <1>1, <2>1, <2>3, <3>1, ProceedTypes, QuietPassKeeps
  <2>4. CASE pass' = [pass EXCEPT ![r].pc = "check"]
    <3>1. /\ pass' \in [Replica -> PassState] /\ pass'[r].pc = "check"
          /\ \A q \in Replica \ {r} : pass'[q] = pass[q]
      BY <1>1, <2>4 DEF ScanTypes, PassState
    <3>2. QED
      BY <2>1, <3>1, QuietPassKeeps
  <2>5. QED
    BY <1>3, <2>3, <2>4 DEF ReadSeries
<1>4. CASE CheckEpisode(r)
  <2>1. Live(r) /\ UNCHANGED <<leaderVars, folder, jobs>>
    BY <1>4 DEF CheckEpisode
  <2>3. CASE Proceed(r, pass[r].todo \ {pass[r].cur})
    <3>1. pass[r].todo \ {pass[r].cur} \in SUBSET Episode
      BY <1>1 DEF PassState
    <3>2. QED
      BY <1>1, <2>1, <2>3, <3>1, ProceedTypes, QuietPassKeeps
  <2>4. CASE ~JobExistsForEpisode(pass[r].cur) /\ pass' = [pass EXCEPT ![r].pc = "create"]
    <3>1. /\ pass' \in [Replica -> PassState] /\ pass'[r].cur = pass[r].cur
          /\ \A q \in Replica \ {r} : pass'[q] = pass[q]
      BY <1>1, <2>4 DEF ScanTypes, PassState
    <3>2. \A j \in JobId : ~Covers(j, pass'[r].cur)
      BY <2>4, <3>1 DEF JobExistsForEpisode
    <3>3. QED
      BY <2>1, <3>1, <3>2, QuietPassKeeps
  <2>5. QED
    BY <1>4, <2>3, <2>4 DEF CheckEpisode
<1>5. CASE CreateJob(r)
  <2>1. /\ Live(r) /\ UNCHANGED <<leaderVars, folder>>
        /\ Insert(pass[r].cur, pass[r].script[pass[r].cur], r)
        /\ Proceed(r, pass[r].todo \ {pass[r].cur})
    BY <1>5 DEF CreateJob
  <2>2. pass[r].cur \in Cursor /\ pass[r].script[pass[r].cur] \in Script
    BY <1>1 DEF PassState, Script
  <2>3. jobs' \in [JobId -> Row]
    BY <1>1, <2>1, <2>2 DEF ScanTypes, Insert, Row
  <2>4. pass[r].todo \ {pass[r].cur} \in SUBSET Episode
    BY <1>1 DEF PassState
  <2>5. /\ pass' \in [Replica -> PassState]
        /\ pass'[r].pc \in {"idle", "series"}
        /\ \A q \in Replica \ {r} : pass'[q] = pass[q]
    BY <1>1, <2>1, <2>4, ProceedTypes
  <2>6. ASSUME NEW q \in Replica, pass'[q].pc = "create", NEW j \in JobId,
               Covers(j, pass[q].cur)'
        PROVE  Excused(q, j)'
    <3>1. q # r /\ pass[q].pc = "create" /\ pass'[q] = pass[q] /\ conn' = conn
      BY <2>1, <2>5, <2>6 DEF leaderVars
    <3>2. CASE jobs'[j] = jobs[j]
      BY <2>6, <3>1, <3>2 DEF ScanInv, CheckStands, Covers, Excused
    <3>3. CASE jobs'[j].by = r /\ jobs'[j].sound = (conn[r] = "good")
      <4>1. conn[q] \in {"good", "broken"}
        BY <3>1 DEF ScanInv, PassIsOfLeader, BodyHasSession, LeaderInv, LeaderTypeOK
      <4>2. conn[q] = "good" => conn[r] # "good"
        BY <3>1 DEF ScanInv, LeaderInv, LivingSessionHasLock
      <4>3. QED
        BY <3>1, <3>3, <4>1, <4>2 DEF Excused
    <3>4. jobs'[j] = jobs[j] \/ (jobs'[j].by = r /\ jobs'[j].sound = (conn[r] = "good"))
      BY <1>1, <2>1, NoReplicaAssumption DEF Insert, ScanTypes
    <3>5. QED
      BY <3>2, <3>3, <3>4
  <2>7. QED
    BY <2>1, <2>3, <2>5, <2>6, PassKeeps
<1>6. QED
  BY <1>2, <1>3, <1>4, <1>5 DEF ScanStep

----------------------------------------------------------------------------
(* What goes on around the pass.                                           *)

(* A supervisor's step, its loop's body drained or its process gone. *)
LEMMA LeaderSteps ==
  ASSUME ScanInv,
         DatabaseStep \/ \E r \in Replica : Drain(r) \/ LeaderStep(r)
  PROVE  ScanInv'
<1> USE DEF ScanInv
<1>1. [LeaderNext]_leaderVars /\ UNCHANGED <<folder, jobs>>
  BY DEF DatabaseStep, Drain, LeaderStep, LeaderNext, scanVars
<1>2. LeaderInv'
  BY <1>1, NextLeaderInv
<1>3. Idle \in PassState /\ Idle.pc = "idle"
  BY DEF Idle, PassState, Cursor, Choice
<1>4. /\ pass' \in [Replica -> PassState]
      /\ \A q \in Replica : pass'[q] = pass[q] \/ pass'[q].pc = "idle"
  BY <1>3 DEF ScanTypes, DatabaseStep, Drain, LeaderStep, scanVars
<1>5. BodyHasSession'
  <2>1. CASE DatabaseStep
    BY <2>1 DEF BodyHasSession, Running, DatabaseStep, SessionEnds
  <2>2. ASSUME NEW r \in Replica, Supervise(r) \/ Release(r) \/ Terminate(r) \/ Boot(r)
                                  \/ Crash(r) \/ SessionBreaks(r)
        PROVE  BodyHasSession'
    BY <2>2 DEF LeaderInv, LeaderTypeOK, BodyHasSession, Running, Supervise, Acquire,
       KeepaliveFails, Release, Terminate, Boot, Crash, SessionBreaks
  <2>3. QED
    BY <2>1, <2>2 DEF Drain, LeaderStep
<1>6. PassIsOfLeader'
  <2>1. CASE DatabaseStep
    BY <2>1 DEF PassIsOfLeader, Running, DatabaseStep, SessionEnds, scanVars
  <2>2. ASSUME NEW r \in Replica, Drain(r) \/ LeaderStep(r)
        PROVE  PassIsOfLeader'
    <3>1. \A q \in Replica : q \in Running => q \in Running' \/ pass'[q].pc = "idle"
      BY <1>3, <2>2 DEF LeaderInv, LeaderTypeOK, ScanTypes, Running, Drain, Release,
         LeaderStep, Supervise, Acquire, KeepaliveFails, Terminate, Boot, Crash, SessionBreaks
    <3>2. QED
      BY <1>4, <3>1 DEF PassIsOfLeader
  <2>3. QED
    BY <2>1, <2>2
<1>7. CheckStands'
  <2>1. \A r \in Replica : conn[r] = "broken" /\ pass'[r].pc = "create" => conn'[r] = "broken"
    <3>1. CASE DatabaseStep
      BY <3>1 DEF DatabaseStep, SessionEnds
    <3>2. ASSUME NEW q \in Replica, Drain(q) \/ LeaderStep(q)
          PROVE  \A r \in Replica : conn[r] = "broken" /\ pass'[r].pc = "create"
                                     => conn'[r] = "broken"
      BY <1>3, <3>2 DEF LeaderInv, LeaderTypeOK, ScanTypes, SessionIsForBody, Running, Drain,
         Release, LeaderStep, Supervise, Acquire, KeepaliveFails, Terminate, Boot, Crash,
         SessionBreaks
    <3>3. QED
      BY <3>1, <3>2
  <2>2. ASSUME NEW r \in Replica, pass'[r].pc = "create", NEW j \in JobId,
               Covers(j, pass[r].cur)'
        PROVE  Excused(r, j)'
    <3>1. pass'[r] = pass[r]
      BY <1>4, <2>2
    <3>2. Excused(r, j)
      BY <1>1, <2>2, <3>1 DEF CheckStands, Covers
    <3>3. QED
      BY <1>1, <2>1, <2>2, <3>2 DEF Excused
  <2>3. QED
    BY <2>2 DEF CheckStands, Covers
<1>8. ScanTypes'
  BY <1>1, <1>4 DEF ScanTypes
<1>9. QED
  BY <1>2, <1>5, <1>6, <1>7, <1>8

(* Who queued a job, and on which session, stays as it is. *)
SameOrigin(j) == jobs'[j].by = jobs[j].by /\ jobs'[j].sound = jobs[j].sound

(* What others do to the jobs takes nothing back that a check has found:   *)
(* a job that comes to count for an episode meanwhile is an operator's.    *)
LEMMA EnvironmentSteps == ASSUME ScanInv, Environment PROVE ScanInv'
<1> USE DEF ScanInv
<1>1. UNCHANGED <<leaderVars, pass>>
  BY DEF Environment, CopyIn, Settle, Operator, Hold, CreateByHand, Encode, Cancel, Retry,
     Delete, GrowOld, PruneOldJobs
<1>2. LeaderInv' /\ BodyHasSession' /\ PassIsOfLeader'
  BY <1>1 DEF LeaderInv, LeaderTypeOK, LivingSessionHasLock, SessionIsForBody, Running,
     BodyHasSession, PassIsOfLeader, leaderVars
<1>3. SUFFICES /\ folder' \in [Episode -> SUBSET ToSet(Listing)]
               /\ jobs' \in [JobId -> Row]
               /\ \A j \in JobId, e \in Cursor :
                    Covers(j, e)' => jobs'[j].by = NoReplica
                                     \/ (Covers(j, e) /\ SameOrigin(j))
  <2>1. ASSUME jobs' \in [JobId -> Row],
               \A j \in JobId, e \in Cursor :
                 Covers(j, e)' => jobs'[j].by = NoReplica
                                  \/ (Covers(j, e) /\ SameOrigin(j))
        PROVE  CheckStands'
    BY <1>1, <2>1 DEF CheckStands, ScanTypes, PassState, Covers, Excused, SameOrigin, leaderVars
  <2>2. QED
    BY <1>1, <1>2, <2>1 DEF ScanTypes
<1>4. NoJob \in Row /\ NoJob.status = "none"
  BY DEF NoJob, Row, Cursor, Script
<1>5. CASE UNCHANGED <<folder, jobs>>
  BY <1>5 DEF ScanTypes, Covers, SameOrigin
<1>6. ASSUME NEW e \in Episode, NEW f \in Files[e], CopyIn(e, f)
      PROVE  UNCHANGED jobs /\ folder' \in [Episode -> SUBSET ToSet(Listing)]
  BY <1>6, ScanAssumption DEF ScanTypes, CopyIn
<1>7. ASSUME NEW e \in Episode, CreateByHand(e, "filter.vpy")
      PROVE  /\ jobs' \in [JobId -> Row]
             /\ \A j \in JobId : jobs'[j] = jobs[j] \/ jobs'[j].by = NoReplica
  BY <1>7 DEF ScanTypes, CreateByHand, Insert, Row, Cursor, Script
<1>8. ASSUME NEW j \in JobId, NEW s \in {"ended", "cancelled"},
             jobs[j].status = "pending", SetStatus(j, s)
      PROVE  /\ jobs' \in [JobId -> Row]
             /\ \A i \in JobId : jobs'[i].episode = jobs[i].episode
                  /\ SameOrigin(i)
                  /\ (jobs'[i].status = jobs[i].status \/ jobs[i].status = "pending")
  BY <1>8 DEF ScanTypes, SetStatus, Row, Terminal, SameOrigin
<1>9. ASSUME NEW j \in JobId, Retry(j)
      PROVE  /\ jobs' \in [JobId -> Row]
             /\ \A i \in JobId : jobs'[i] = jobs[i] \/ jobs'[i].by = NoReplica
  <2> DEFINE again == [jobs[j] EXCEPT !.status = "pending", !.old = FALSE, !.by = NoReplica,
                                !.sound = TRUE]
  <2>1. jobs \in [JobId -> Row] /\ jobs[j] \in Row
    BY DEF ScanTypes
  <2>2. jobs' = [jobs EXCEPT ![j] = again]
    BY <1>9, <2>1 DEF Retry
  <2>3. again \in Row
    BY <2>1 DEF Row
  <2>4. again.by = NoReplica
    BY <2>1 DEF Row
  <2> HIDE DEF again
  <2> QED
    BY <2>1, <2>2, <2>3, <2>4
<1>10. ASSUME NEW j \in JobId, Delete(j)
       PROVE  /\ jobs' \in [JobId -> Row]
              /\ \A i \in JobId : jobs'[i] = jobs[i] \/ jobs'[i] = NoJob
  BY <1>4, <1>10 DEF ScanTypes, Delete
<1>11. ASSUME NEW j \in JobId, GrowOld(j)
       PROVE  /\ jobs' \in [JobId -> Row]
              /\ \A i \in JobId : jobs'[i].episode = jobs[i].episode
                   /\ SameOrigin(i) /\ jobs'[i].status = jobs[i].status
  BY <1>11 DEF ScanTypes, GrowOld, Row, SameOrigin
<1>12. ASSUME PruneOldJobs
       PROVE  /\ jobs' \in [JobId -> Row]
              /\ \A i \in JobId : jobs'[i] = jobs[i] \/ jobs'[i] = NoJob
  BY <1>4, <1>12 DEF ScanTypes, PruneOldJobs
<1>13. CASE \E j \in JobId : Encode(j) \/ Cancel(j) \/ Retry(j) \/ Delete(j) \/ GrowOld(j)
  <2>1. PICK j \in JobId : Encode(j) \/ Cancel(j) \/ Retry(j) \/ Delete(j) \/ GrowOld(j)
    BY <1>13
  <2>2. UNCHANGED folder
    BY <2>1 DEF Encode, Cancel, Retry, Delete, GrowOld, Operator
  <2>3. CASE Encode(j) \/ Cancel(j)
    <3>1. /\ jobs' \in [JobId -> Row]
          /\ \A i \in JobId : jobs'[i].episode = jobs[i].episode
               /\ SameOrigin(i)
               /\ (jobs'[i].status = jobs[i].status \/ jobs[i].status = "pending")
      BY <1>8, <2>3 DEF Encode, Cancel
    <3>2. QED
      BY <2>2, <3>1 DEF ScanTypes, Covers, SameOrigin
  <2>4. CASE Retry(j)
    BY <1>9, <2>2, <2>4 DEF ScanTypes, Covers, SameOrigin
  <2>5. CASE Delete(j)
    BY <1>4, <1>10, <2>2, <2>5 DEF ScanTypes, Covers, SameOrigin
  <2>6. CASE GrowOld(j)
    BY <1>11, <2>2, <2>6 DEF ScanTypes, Covers, SameOrigin
  <2>7. QED
    BY <2>1, <2>3, <2>4, <2>5, <2>6
<1>14. CASE PruneOldJobs
  <2>1. UNCHANGED folder
    BY <1>14 DEF PruneOldJobs
  <2>2. QED
    BY <1>4, <1>12, <1>14, <2>1 DEF ScanTypes, Covers, SameOrigin
<1>15. CASE \E e \in Episode : (\E f \in Files[e] : CopyIn(e, f) \/ Settle(e, f)) \/ Hold(e)
  <2>1. PICK e \in Episode : (\E f \in Files[e] : CopyIn(e, f) \/ Settle(e, f)) \/ Hold(e)
    BY <1>15
  <2>2. CASE \E f \in Files[e] : CopyIn(e, f)
    BY <1>6, <2>2 DEF ScanTypes, Covers, SameOrigin
  <2>3. CASE Hold(e) \/ \E f \in Files[e] : Settle(e, f)
    BY <1>5, <2>3 DEF Hold, Settle, Operator
  <2>4. QED
    BY <2>1, <2>2, <2>3
<1>16. CASE \E e \in Episode : \E s \in folder[e] \cap {"filter.vpy"} : CreateByHand(e, s)
  <2>1. PICK e \in Episode : CreateByHand(e, "filter.vpy")
    BY <1>16
  <2>2. UNCHANGED folder
    BY <2>1 DEF CreateByHand, Operator
  <2>3. QED
    BY <1>7, <2>1, <2>2 DEF ScanTypes, Covers, SameOrigin
<1>17. QED
  BY <1>13, <1>14, <1>15, <1>16 DEF Environment

(* Every step keeps the check's word. *)
LEMMA NextScanInv == ScanInv /\ [Next]_vars => ScanInv'
<1>1. SUFFICES ASSUME ScanInv, [Next]_vars PROVE ScanInv'
  OBVIOUS
<1>2. CASE UNCHANGED vars
  BY <1>1, <1>2 DEF vars, leaderVars, scanVars, ScanInv, LeaderInv, LeaderTypeOK,
     LivingSessionHasLock, SessionIsForBody, ScanTypes, BodyHasSession, PassIsOfLeader,
     CheckStands, Running, Covers, Excused
<1>3. CASE Next
  BY <1>1, <1>3, ScanSteps, LeaderSteps, EnvironmentSteps DEF Next
<1>4. QED
  BY <1>1, <1>2, <1>3

(* A scanner never queues an episode twice, and two do only across a       *)
(* session that one of them has lost, though replicas are terminated or    *)
(* crash between a check and an insert and operators create, cancel,       *)
(* retry, delete and prune jobs meanwhile.                                 *)
THEOREM ScannerNeverDuplicates == Spec => NoDuplicateByScanner
<1>1. ScanInv /\ [Next]_vars =>
        [\A r \in Replica :
           pass[r].pc = "create" /\ jobs' # jobs /\ pass'[r] # pass[r] =>
             \A j \in JobId : Covers(j, pass[r].cur) =>
               \/ jobs[j].by = NoReplica
               \/ jobs[j].by # r /\ (conn[r] = "broken" \/ ~jobs[j].sound)]_vars
  BY DEF ScanInv, CheckStands, Excused
<1>2. QED
  BY InitScanInv, NextScanInv, <1>1, PTL DEF Spec, NoDuplicateByScanner

----------------------------------------------------------------------------
(* Scanner and supervision. *)

(* The scanner, its operators and its farm leave the supervision as it is  *)
(* by itself (Leader): each step is one of its steps, or none.             *)
THEOREM ScannerIsSupervised == Spec => LeaderSpec
<1>1. Init => LeaderInit
  BY DEF Init
<1>2. [Next]_vars => [LeaderNext]_leaderVars
  <2> SUFFICES ASSUME [Next]_vars PROVE LeaderNext \/ UNCHANGED leaderVars
    OBVIOUS
  <2>1. CASE UNCHANGED vars
    BY <2>1 DEF vars
  <2>2. ASSUME NEW r \in Replica, ScanStep(r) PROVE UNCHANGED leaderVars
    BY <2>2 DEF ScanStep, StartPass, ReadSeries, CheckEpisode, CreateJob
  <2>3. ASSUME NEW r \in Replica, Drain(r) \/ LeaderStep(r) PROVE LeaderNext
    BY <2>3 DEF Drain, LeaderStep, LeaderNext
  <2>4. CASE DatabaseStep
    BY <2>4 DEF DatabaseStep, LeaderNext
  <2>5. CASE Environment
    BY <2>5 DEF Environment, CopyIn, Settle, Operator, Hold, CreateByHand, Encode, Cancel, Retry,
       Delete, GrowOld, PruneOldJobs
  <2> QED
    BY <2>1, <2>2, <2>3, <2>4, <2>5 DEF Next
<1> QED
  BY <1>1, <1>2, PTL DEF Spec, LeaderSpec

(* Hence the scanner has one leader or none, and none between two.         *)
THEOREM ScannerIsElected == Spec => IsAnElection
BY ScannerIsSupervised, SupervisionIsElection
=============================================================================
