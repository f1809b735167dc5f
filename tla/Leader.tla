------------------------------- MODULE Leader -------------------------------
(***************************************************************************)
(* The supervision of a singleton loop (store/leader.go): every replica of *)
(* the controller tries for the loop's advisory lock on a database session *)
(* of its own, runs the loop's body while it has it, and stops the body    *)
(* when its keepalive finds the session dead, or on SIGTERM.               *)
(*                                                                         *)
(* The lock belongs to the session, and the database and the replica learn *)
(* of the session's end independently: "lock" is what the database says,   *)
(* "conn" is the state of the connection, "phase" what the supervisor      *)
(* does.  What the body does is left to the modules that extend this one.  *)
(***************************************************************************)
EXTENDS Naturals

CONSTANTS
  Replica,
  NoReplica,  \* the lock is free
  Faults,     \* the faults that happen: "break", "sigterm", "crash"
  MaxFaults   \* bound on their number

ASSUME NoReplicaAssumption == NoReplica \notin Replica
ASSUME FaultsAssumption == Faults \subseteq {"break", "sigterm", "crash"} /\ MaxFaults \in Nat

VARIABLES
  lock,    \* the replica whose session has the lock, for the database
  conn,    \* the dedicated connection: none, good, or broken
  phase,   \* the supervisor: standby, leading, draining, stopping, down
  faults   \* faults so far

leaderVars == <<lock, conn, phase, faults>>

LeaderTypeOK ==
  /\ lock \in Replica \cup {NoReplica}
  /\ conn \in [Replica -> {"none", "good", "broken"}]
  /\ phase \in [Replica -> {"standby", "leading", "draining", "stopping", "down"}]
  /\ faults \in 0..MaxFaults

LeaderInit ==
  /\ lock = NoReplica
  /\ conn = [r \in Replica |-> "none"]
  /\ phase = [r \in Replica |-> "standby"]
  /\ faults = 0

(* The replicas that run the body, whether or not they should. *)
Running == {r \in Replica : phase[r] \in {"leading", "draining", "stopping"}}

(* The body may go on working: its context has not been cancelled. *)
Live(r) == phase[r] = "leading"

(* tryAdvisoryLock: refused while the database counts any session as the  *)
(* holder, be it one this replica has lost; the supervisor tries again.    *)
Acquire(r) ==
  /\ phase[r] = "standby"
  /\ lock = NoReplica
  /\ lock' = r
  /\ conn' = [conn EXCEPT ![r] = "good"]
  /\ phase' = [phase EXCEPT ![r] = "leading"]
  /\ UNCHANGED faults

(* The keepalive's probe fails: lostCh closes, the body's context is       *)
(* cancelled.  Up to one period passes after the session broke.            *)
KeepaliveFails(r) ==
  /\ phase[r] = "leading"
  /\ conn[r] = "broken"
  /\ phase' = [phase EXCEPT ![r] = "draining"]
  /\ UNCHANGED <<lock, conn, faults>>

(* Mutant: the lock is freed, whoever has it. *)
ReleaseAnyway(r) ==
  /\ phase[r] \in {"draining", "stopping"}
  /\ lock' = NoReplica
  /\ conn' = [conn EXCEPT ![r] = "none"]
  /\ phase' = [phase EXCEPT ![r] = IF @ = "draining" THEN "standby" ELSE "down"]
  /\ UNCHANGED faults

(* The body has returned: release() unlocks, if the session still lives,   *)
(* and closes the connection; the supervisor retries, or ends on SIGTERM.  *)
Release(r) ==
  /\ phase[r] \in {"draining", "stopping"}
  /\ lock' = IF lock = r /\ conn[r] = "good" THEN NoReplica ELSE lock
  /\ conn' = [conn EXCEPT ![r] = "none"]
  /\ phase' = [phase EXCEPT ![r] = IF @ = "draining" THEN "standby" ELSE "down"]
  /\ UNCHANGED faults

(* SIGTERM cancels the context of supervisor and body. *)
Terminate(r) ==
  /\ "sigterm" \in Faults /\ faults < MaxFaults
  /\ phase[r] \in {"standby", "leading"}
  /\ phase' = [phase EXCEPT ![r] = IF @ = "leading" THEN "stopping" ELSE "down"]
  /\ faults' = faults + 1
  /\ UNCHANGED <<lock, conn>>

(* The process dies: its connection goes, the database has yet to notice. *)
Crash(r) ==
  /\ "crash" \in Faults /\ faults < MaxFaults
  /\ phase[r] # "down"
  /\ phase' = [phase EXCEPT ![r] = "down"]
  /\ conn' = [conn EXCEPT ![r] = "none"]
  /\ faults' = faults + 1
  /\ UNCHANGED lock

(* The session breaks, by the network or by the database restarting. *)
SessionBreaks(r) ==
  /\ "break" \in Faults /\ faults < MaxFaults
  /\ conn[r] = "good"
  /\ conn' = [conn EXCEPT ![r] = "broken"]
  /\ faults' = faults + 1
  /\ UNCHANGED <<lock, phase>>

(* The database notices that the holder's session is gone. *)
SessionEnds ==
  /\ lock # NoReplica
  /\ conn[lock] # "good"
  /\ lock' = NoReplica
  /\ UNCHANGED <<conn, phase, faults>>

(* The container's restart policy. *)
Boot(r) ==
  /\ phase[r] = "down"
  /\ phase' = [phase EXCEPT ![r] = "standby"]
  /\ UNCHANGED <<lock, conn, faults>>

Supervise(r) == Acquire(r) \/ KeepaliveFails(r)

(* The supervisors and the database by themselves. *)
LeaderNext ==
  \/ \E r \in Replica :
       \/ Supervise(r) \/ Release(r) \/ Terminate(r)
       \/ Crash(r) \/ SessionBreaks(r) \/ Boot(r)
  \/ SessionEnds

LeaderSpec == LeaderInit /\ [][LeaderNext]_leaderVars

----------------------------------------------------------------------------
(* Whoever runs the body on a session that lives has the lock, so that no  *)
(* two replicas do, through breaks that either side notices first,         *)
(* releases that come after the lock was taken over, crashes and restarts. *)
SoundLeaderHasLock ==
  \A r \in Running : conn[r] = "good" => lock = r

(* The abstract election: one leader at a time, and a gap between any two. *)
SoundLeader ==
  IF \E r \in Running : conn[r] = "good"
  THEN CHOOSE r \in Running : conn[r] = "good" ELSE NoReplica

Election == INSTANCE Election WITH leader <- SoundLeader
IsAnElection == Election!Spec
=============================================================================
