------------------------------- MODULE Alerts -------------------------------
(***************************************************************************)
(* What the controller tells the operators on Discord (notify/,            *)
(* api/node_alert.go, api/disk_alert.go): the outcome of a job, at once or *)
(* in the hourly digest; a node that goes offline or comes back; a disk    *)
(* that runs full.                                                         *)
(*                                                                         *)
(* Two of the three depend on singleton loops with a lock each: the        *)
(* variables of Leader are those of the digest loop, a second instance of  *)
(* Leader is the loop of the node alerts.  Buffer, baseline and cooldowns  *)
(* are in the memory of each replica.  Settings are read whenever they are *)
(* used, so what they say then is a choice.                                *)
(***************************************************************************)
EXTENDS Leader, Integers, FiniteSets

CONSTANTS
  Outcome,   \* the outcomes of jobs that end during the behaviour
  MaxFlips   \* bound on the times the node goes off or on

ASSUME AlertsAssumption ==
  /\ Replica # {} /\ IsFiniteSet(Replica) /\ IsFiniteSet(Outcome)
  /\ MaxFlips \in Nat

VARIABLES
  alertLock, alertConn, alertPhase,  \* the other loop's supervision
  request,   \* where notifyJobFinished runs for an outcome, and what it is to do
  buffer,    \* the DigestBuffer of each replica
  draining,  \* what a flush has drained and not yet posted
  told,      \* how often an outcome was posted
  excused,   \* outcomes muted, discarded, refused by Discord, or lost with a process
  flips,     \* the changes of a node, which is online first, then off, then on ...
  prev,      \* the change that the baseline of the node alerts on a replica knows
  sending,   \* alerts to be posted: change, replica, whether it has its session
  alerts,    \* those posted
  missed,    \* the changes that a loop did not see or could not post
  quiet,     \* the replicas on which the node is in the cooldown of disk alerts
  lowDisk    \* disk alerts posted

digestVars == <<request, buffer, draining, told, excused>>
nodeVars   == <<flips, prev, sending, alerts, missed>>
diskVars   == <<quiet, lowDisk>>
alertLead  == <<alertLock, alertConn, alertPhase>>
vars == <<leaderVars, alertLead, digestVars, nodeVars, diskVars>>

Alert == INSTANCE Leader WITH
  lock <- alertLock, conn <- alertConn, phase <- alertPhase

NodeAlert == [change: 1..MaxFlips, by: Replica, sound: BOOLEAN]
Empty == -1  \* the baseline of a loop that has not looked yet
NoRequest == [pc |-> "none", at |-> CHOOSE r \in Replica : TRUE]

(* Every buffer, baseline and counter is what its type says. *)
TypeOK ==
  /\ LeaderTypeOK /\ Alert!LeaderTypeOK
  /\ request \in [Outcome -> [pc: {"none", "decide", "push", "post", "over"}, at: Replica]]
  /\ buffer \in [Replica -> SUBSET Outcome]
  /\ draining \in [Replica -> SUBSET Outcome]
  /\ told \in [Outcome -> 0..2]
  /\ excused \subseteq Outcome
  /\ flips \in 0..MaxFlips
  /\ prev \in [Replica -> {Empty} \cup 0..MaxFlips]
  /\ sending \subseteq NodeAlert /\ alerts \subseteq NodeAlert
  /\ missed \subseteq 1..MaxFlips
  /\ quiet \subseteq Replica
  /\ lowDisk \in Nat

Init ==
  /\ LeaderInit /\ Alert!LeaderInit
  /\ request = [k \in Outcome |-> NoRequest]
  /\ buffer = [r \in Replica |-> {}]
  /\ draining = [r \in Replica |-> {}]
  /\ told = [k \in Outcome |-> 0]
  /\ excused = {}
  /\ flips = 0
  /\ prev = [r \in Replica |-> Empty]
  /\ sending = {} /\ alerts = {} /\ missed = {}
  /\ quiet = {} /\ lowDisk = 0

Up(r) == phase[r] # "down" \/ alertPhase[r] # "down"

----------------------------------------------------------------------------
(* Outcomes of jobs.                                                       *)

(* A completion or an orphan sweep on r ends a job for good. *)
JobFinished(k, r) ==
  /\ Up(r)
  /\ request[k].pc = "none"
  /\ request' = [request EXCEPT ![k] = [pc |-> "decide", at |-> r]]
  /\ UNCHANGED <<leaderVars, alertLead, buffer, draining, told, excused, nodeVars, diskVars>>

(* notifyJobFinished: a muted series is skipped before the digest is       *)
(* looked at; the settings say whether to buffer the outcome or to post it.*)
Notify(k) ==
  /\ request[k].pc = "decide"
  /\ \/ /\ request' = [request EXCEPT ![k].pc = "over"]
        /\ excused' = excused \cup {k}
     \/ /\ \E pc \in {"push", "post"} : request' = [request EXCEPT ![k].pc = pc]
        /\ UNCHANGED excused
  /\ UNCHANGED <<leaderVars, alertLead, buffer, draining, told, nodeVars, diskVars>>

Push(k) ==
  /\ request[k].pc = "push"
  /\ buffer' = [buffer EXCEPT ![request[k].at] = @ \cup {k}]
  /\ request' = [request EXCEPT ![k].pc = "over"]
  /\ UNCHANGED <<leaderVars, alertLead, draining, told, excused, nodeVars, diskVars>>

(* A post arrives, or is refused and not repeated; no webhook, no post. *)
Posted(K) ==
  \/ /\ told' = [k \in Outcome |-> told[k] + IF k \in K THEN 1 ELSE 0]
     /\ UNCHANGED excused
  \/ excused' = excused \cup K /\ UNCHANGED told

Post(k) ==
  /\ request[k].pc = "post"
  /\ Posted({k})
  /\ request' = [request EXCEPT ![k].pc = "over"]
  /\ UNCHANGED <<leaderVars, alertLead, buffer, draining, nodeVars, diskVars>>

(* flushDigestTick on the replica that runs the loop, with the digest on:  *)
(* Drain takes and clears the buffer in one step; the post comes later.    *)
Drain(r) ==
  /\ Live(r) /\ draining[r] = {} /\ buffer[r] # {}
  /\ draining' = [draining EXCEPT ![r] = buffer[r]]
  /\ buffer' = [buffer EXCEPT ![r] = {}]
  /\ UNCHANGED <<leaderVars, alertLead, request, told, excused, nodeVars, diskVars>>

(* Mutant: the flush clears the buffer again. *)
FlushAndClear(r) ==
  /\ r \in Running /\ draining[r] # {}
  /\ Posted(draining[r])
  /\ draining' = [draining EXCEPT ![r] = {}]
  /\ buffer' = [buffer EXCEPT ![r] = {}]
  /\ UNCHANGED <<leaderVars, alertLead, request, nodeVars, diskVars>>

(* FlushDigest posts with a context of its own, lock or no lock. *)
Flush(r) ==
  /\ r \in Running /\ draining[r] # {}
  /\ Posted(draining[r])
  /\ draining' = [draining EXCEPT ![r] = {}]
  /\ UNCHANGED <<leaderVars, alertLead, request, buffer, nodeVars, diskVars>>

----------------------------------------------------------------------------
(* Node alerts.                                                            *)

Online(change) == change % 2 = 0

Idle(r) == \A a \in sending : a.by # r

(* The changes that the baseline of r, if it has one, is behind. *)
Behind(r) == IF prev[r] = Empty THEN {} ELSE (prev[r] + 1)..flips

(* A heartbeat comes after a while, or does not for StaleAfter. *)
Flip ==
  /\ flips < MaxFlips
  /\ flips' = flips + 1
  /\ missed' = IF \A r \in Replica : prev[r] = Empty THEN missed \cup {flips'} ELSE missed
  /\ UNCHANGED <<leaderVars, alertLead, digestVars, prev, sending, alerts, diskVars>>

(* Mutant: a node that is new to the baseline makes an alert. *)
TickFromNothing(r) ==
  /\ Alert!Live(r) /\ Idle(r)
  /\ prev[r] # flips
  /\ prev' = [prev EXCEPT ![r] = flips]
  /\ \E enabled \in BOOLEAN :
       LET found == IF enabled /\ flips > 0 THEN {flips} ELSE {} IN
         /\ sending' = sending \cup
              {[change |-> c, by |-> r, sound |-> alertConn[r] = "good"] : c \in found}
         /\ missed' = missed \cup (Behind(r) \ found)
  /\ UNCHANGED <<leaderVars, alertLead, digestVars, flips, alerts, diskVars>>

(* nodeAlertTickWithState: the list, the difference to the baseline (what  *)
(* is not in the baseline makes none, nor does a node that went off and on *)
(* again) and the new baseline; whether alerts are on is asked after that. *)
Tick(r) ==
  /\ Alert!Live(r) /\ Idle(r)
  /\ prev[r] # flips
  /\ prev' = [prev EXCEPT ![r] = flips]
  /\ \E enabled \in BOOLEAN :
       LET found == IF enabled /\ prev[r] # Empty /\ Online(prev[r]) # Online(flips)
                    THEN {flips} ELSE {} IN
         /\ sending' = sending \cup
              {[change |-> c, by |-> r, sound |-> alertConn[r] = "good"] : c \in found}
         /\ missed' = missed \cup (Behind(r) \ found)
  /\ UNCHANGED <<leaderVars, alertLead, digestVars, flips, alerts, diskVars>>

(* The post of an alert, which Discord may refuse and a cancelled context  *)
(* makes fail.                                                             *)
Send(a) ==
  /\ a.by \in Alert!Running
  /\ sending' = sending \ {a}
  /\ \/ Alert!Live(a.by) /\ alerts' = alerts \cup {a} /\ UNCHANGED missed
     \/ missed' = missed \cup {a.change} /\ UNCHANGED alerts
  /\ UNCHANGED <<leaderVars, alertLead, digestVars, flips, prev, diskVars>>

(* checkDisk in a heartbeat that r serves: shouldAlert decides and records *)
(* under one lock.  The cooldown is longer than the behaviour.             *)
CheckDisk(r) ==
  /\ Up(r) /\ r \notin quiet
  /\ quiet' = quiet \cup {r}
  /\ lowDisk' = lowDisk + 1
  /\ UNCHANGED <<leaderVars, alertLead, digestVars, nodeVars>>

----------------------------------------------------------------------------
(* The supervision of both loops.                                          *)

DigestLoop(r) ==
  /\ \/ Supervise(r)
     \/ SessionBreaks(r)
     \/ Release(r) /\ draining[r] = {}
  /\ UNCHANGED <<alertLead, digestVars, nodeVars, diskVars>>

(* The baseline is a local of the loop's body, which it does not outlive. *)
AlertLoop(r) ==
  /\ \/ /\ Alert!Acquire(r) \/ Alert!KeepaliveFails(r) \/ Alert!SessionBreaks(r)
        /\ UNCHANGED <<prev, missed>>
     \/ /\ Alert!Release(r) /\ Idle(r)
        /\ prev' = [prev EXCEPT ![r] = Empty]
        /\ missed' = missed \cup Behind(r)
  /\ UNCHANGED <<lock, conn, phase, digestVars, flips, sending, alerts, diskVars>>

(* The memory of r is gone, and the requests it serves with it. *)
Forget(r) ==
  LET served == {k \in Outcome :
                   request[k].at = r /\ request[k].pc \notin {"none", "over"}}
      unsent == {a \in sending : a.by = r} IN
    /\ request' = [k \in Outcome |->
         IF k \in served THEN [request[k] EXCEPT !.pc = "over"] ELSE request[k]]
    /\ excused' = excused \cup served \cup buffer[r] \cup draining[r]
    /\ buffer' = [buffer EXCEPT ![r] = {}]
    /\ draining' = [draining EXCEPT ![r] = {}]
    /\ prev' = [prev EXCEPT ![r] = Empty]
    /\ sending' = sending \ unsent
    /\ missed' = missed \cup Behind(r) \cup {a.change : a \in unsent}
    /\ quiet' = quiet \ {r}
    /\ UNCHANGED <<told, flips, alerts, lowDisk>>

(* SIGTERM reaches both supervisors ... *)
TerminateProcess(r) ==
  /\ Terminate(r) /\ Alert!Terminate(r)
  /\ UNCHANGED <<digestVars, nodeVars, diskVars>>

(* ... and the process is restarted when both are through, or has died. *)
CrashProcess(r) == Crash(r) /\ Alert!Crash(r) /\ Forget(r)
BootProcess(r)  == Boot(r) /\ Alert!Boot(r) /\ Forget(r)

Database ==
  \/ SessionEnds /\ UNCHANGED <<alertLead, digestVars, nodeVars, diskVars>>
  \/ Alert!SessionEnds /\ UNCHANGED <<lock, conn, phase, digestVars, nodeVars, diskVars>>

Next ==
  \/ \E k \in Outcome : Notify(k) \/ Push(k) \/ Post(k) \/ \E r \in Replica : JobFinished(k, r)
  \/ \E r \in Replica :
       \/ Drain(r) \/ Flush(r) \/ Tick(r) \/ CheckDisk(r)
       \/ DigestLoop(r) \/ AlertLoop(r)
       \/ TerminateProcess(r) \/ CrashProcess(r) \/ BootProcess(r)
  \/ \E a \in sending : Send(a)
  \/ Flip
  \/ Database

Spec == Init /\ [][Next]_vars

----------------------------------------------------------------------------
(* Properties.                                                             *)

(* Job alerts are neither doubled nor dropped by the digest: an outcome    *)
(* that was pushed, drained or decided about on one side of a settings     *)
(* change, of a flush or of a failover is posted once at most, and until   *)
(* then somebody still has it, unless its process went away.               *)
NothingDropped ==
  \A k \in Outcome :
    LET holders ==
          (IF request[k].pc \in {"decide", "push", "post"} THEN 1 ELSE 0)
          + Cardinality({r \in Replica : k \in buffer[r]})
          + Cardinality({r \in Replica : k \in draining[r]})
    IN request[k].pc # "none" =>
         told[k] + holders + (IF k \in excused THEN 1 ELSE 0) = 1

(* An alert has a change behind it, and "exactly one replica alerts per    *)
(* transition" (node_alert.go) but across a broken session: of two alerts  *)
(* for one change, which never come from one replica, at least one comes   *)
(* from a replica that has lost its session and has yet to notice.         *)
OneAlertEach ==
  /\ \A a \in sending \cup alerts : a.change <= flips
  /\ \A a \in sending : \A b \in alerts \cup (sending \ {a}) :
       a.change = b.change => a.by # b.by /\ ~(a.sound /\ b.sound)

(* A change that makes no alert came while no loop had a baseline, was     *)
(* undone before the next look, was found with alerts off or not posted,   *)
(* or its loop ended before it looked.                                     *)
NoChangeForgotten ==
  \A n \in 1..flips :
    \/ n \in missed
    \/ \E a \in sending \cup alerts : a.change = n
    \/ \E r \in Replica : n \in Behind(r)

(* "a controller restart resets the windows, which costs at most one extra *)
(* alert" (disk_alert.go): there is one disk alert for each replica and    *)
(* hour, and one more for each fault.                                      *)
DisksArePatient == lowDisk <= Cardinality(Replica) + faults

(* All of them over all replicas, restarts and failovers. *)
AlertsHaveCauses == OneAlertEach /\ NoChangeForgotten /\ DisksArePatient

(* "exactly one replica alerts per transition", as it stands there. *)
OneReplicaAlerts ==
  \A a, b \in sending \cup alerts : a.change = b.change => a.by = b.by
=============================================================================
