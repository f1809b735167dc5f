------------------------------- MODULE Updates -------------------------------
(***************************************************************************)
(* Publishing and rolling back the agent binary (update/update.go), and    *)
(* the nodes that sync it (agent/agent.go).  The payload files and         *)
(* manifest.json lie in one directory that all replicas of the controller  *)
(* share; the manifest they answer heartbeats from each keeps in memory.   *)
(* A publish or rollback holds its replica's lock, which heartbeats wait   *)
(* for, and downloads do not.                                              *)
(*                                                                         *)
(* One platform's slot: the other platform's has fields and files of its   *)
(* own.  A release is its version; the file built as release v has         *)
(* content v, and v is also its checksum and the version it reports.  The  *)
(* tools, EncodeLib.ps1 and the package of the tools folder, are likewise  *)
(* their version counters.                                                 *)
(***************************************************************************)
EXTENDS Naturals

CONSTANTS
  Replicas,
  Nodes,
  MaxRelease,  \* releases 1..MaxRelease can be published
  Tools,       \* what else is synced: "lib" and "bin", or nothing under Linux
  MaxVersion,  \* versions 1..MaxVersion of a tool can be published
  MaxPublishes,
  Troubles,    \* what else may happen: "rollback", "crash", "locked",
               \* "restart", "diskFull"
  MaxTroubles,
  Junk         \* the content of a file whose copy was cut short

ASSUME UpdateAssumption ==
  /\ {MaxRelease, MaxVersion, MaxPublishes, MaxTroubles} \subseteq Nat
  /\ Tools \in {{}, {"lib", "bin"}}
  /\ Junk \notin Nat

VARIABLES
  file,      \* encode-agent.exe
  prev,      \* encode-agent.exe.prev
  swap,      \* encode-agent.exe.prev.swap
  toolFile,  \* EncodeLib.ps1 and bin-package.zip
  disk,      \* manifest.json
  mem,       \* each replica's manifest
  op,        \* the publish or rollback each replica is at
  runs,      \* the release each node runs
  folder,    \* what each node's lib file and tools folder hold
  claims,    \* the versions of them that its agent reports
  saved,     \* its bin-version file
  sync,      \* the manifest a heartbeat told the node to sync, and how far it is
  publishes, troubles, crashes,
  upset,     \* what became of the rollback slot since a publish filled it
  astray     \* what had become of it before a rollback took from it

files == <<file, prev, swap>>
store == <<disk, mem, op>>
node == <<runs, folder, claims, saved, sync>>
history == <<upset, astray>>
vars == <<files, toolFile, store, node, publishes, troubles, crashes, history>>

None == 0
Releases == 1..MaxRelease
Content == Releases \cup {None, Junk}
Versions == 1..MaxVersion
ToolContent == Versions \cup {None, Junk}

Manifest == [version: Releases \cup {None}, sha: Content,
             prevVersion: Releases \cup {None}, prevSha: Content,
             tool: [Tools -> Versions \cup {None}], toolSha: [Tools -> ToolContent]]
NoTools == [t \in Tools |-> None]
Empty == [version |-> None, sha |-> None,
          prevVersion |-> None, prevSha |-> None,
          tool |-> NoTools, toolSha |-> NoTools]

Steps == {"idle", "rotate", "copied", "install", "stale", "publish",
          "aside", "promote", "demote", "rollback", "tool", "publishTool"}
Operation == [pc: Steps, release: Releases \cup Versions \cup {None},
              kept: Releases \cup {None}, tool: Tools \cup {"agent"}]
NoOperation == [pc |-> "idle", release |-> None, kept |-> None, tool |-> "agent"]

NoSync == [pc |-> "none", m |-> Empty]

(* Every file, manifest, operation and node is what its type says. *)
TypeOK ==
  /\ {file, prev, swap} \subseteq Content
  /\ toolFile \in [Tools -> ToolContent]
  /\ disk \in Manifest
  /\ mem \in [Replicas -> Manifest]
  /\ op \in [Replicas -> Operation]
  /\ runs \in [Nodes -> Content]
  /\ folder \in [Nodes -> [Tools -> ToolContent]]
  /\ claims \in [Nodes -> [Tools -> Versions \cup {None}]]
  /\ saved \in [Nodes -> Versions \cup {None}]
  /\ sync \in [Nodes -> [pc: {"none", "lib", "bin", "agent"}, m: Manifest]]
  /\ publishes \in 0..MaxPublishes
  /\ troubles \in 0..MaxTroubles /\ crashes \in 0..troubles
  /\ {upset, astray} \subseteq SUBSET {"rollback", "failed"}

Init ==
  /\ file = None /\ prev = None /\ swap = None /\ toolFile = NoTools
  /\ disk = Empty
  /\ mem = [r \in Replicas |-> Empty]
  /\ op = [r \in Replicas |-> NoOperation]
  /\ runs = [n \in Nodes |-> None]
  /\ folder = [n \in Nodes |-> NoTools] /\ claims = folder
  /\ saved = [n \in Nodes |-> None]
  /\ sync = [n \in Nodes |-> NoSync]
  /\ publishes = 0 /\ troubles = 0 /\ crashes = 0
  /\ upset = {} /\ astray = {}

At(r, pc) == op[r].pc = pc
Goto(r, pc) == op' = [op EXCEPT ![r].pc = pc]

(* One of the things that go wrong, or that nobody meant to do. *)
Trouble(what) ==
  what \in Troubles /\ troubles < MaxTroubles /\ troubles' = troubles + 1

(* The manifest of r becomes m, in memory and then on disk, where writing  *)
(* it may fail; r lets go of its lock.                                     *)
Persist(r, m) ==
  /\ mem' = [mem EXCEPT ![r] = m]
  /\ \/ disk' = m /\ UNCHANGED troubles
     \/ Trouble("diskFull") /\ UNCHANGED disk
  /\ op' = [op EXCEPT ![r] = NoOperation]

-----------------------------------------------------------------------------
(* PublishAgent.                                                           *)

PublishBegin(r, v) ==
  /\ At(r, "idle") /\ publishes < MaxPublishes
  /\ v # mem[r].version
  /\ publishes' = publishes + 1
  /\ op' = [op EXCEPT ![r] = [NoOperation EXCEPT !.pc = "rotate", !.release = v]]
  /\ UNCHANGED <<files, toolFile, disk, mem, node, troubles, crashes, history>>

(* The current payload is copied into the rollback slot, which is          *)
(* truncated first; there is nothing to copy before the first publish.     *)
RotateBegin(r) ==
  /\ At(r, "rotate")
  /\ IF mem[r].version # None /\ file # None
       THEN prev' = Junk /\ Goto(r, "copied")
       ELSE UNCHANGED prev /\ Goto(r, "install")
  /\ UNCHANGED <<file, swap, disk, mem, troubles, history>>

RotateEnd(r) ==
  /\ At(r, "copied")
  /\ prev' = file
  /\ op' = [op EXCEPT ![r].pc = "install", ![r].kept = mem[r].version]
  /\ UNCHANGED <<file, swap, disk, mem, troubles, history>>

(* The rotation is best effort: where it fails, at the start or with the   *)
(* slot cut short, the publish goes on and keeps nothing.                  *)
RotateFails(r) ==
  /\ At(r, "rotate") \/ At(r, "copied")
  /\ Trouble("diskFull")
  /\ Goto(r, "install")
  /\ UNCHANGED <<files, disk, mem, history>>

(* installPayload: a temporary file, renamed into place. *)
InstallPayload(r) ==
  /\ At(r, "install")
  /\ file' = op[r].release
  /\ Goto(r, "stale")
  /\ UNCHANGED <<prev, swap, disk, mem, troubles, history>>

(* The payload cannot be written: the publish (of a tool as well) is given *)
(* up, and the manifest stays, whatever the rollback slot holds by now.    *)
InstallFails(r) ==
  /\ At(r, "install") \/ At(r, "tool")
  /\ Trouble("diskFull")
  /\ op' = [op EXCEPT ![r] = NoOperation]
  /\ upset' = IF At(r, "install") THEN upset \cup {"failed"} ELSE upset
  /\ UNCHANGED <<files, disk, mem, astray>>

(* A slot that this publish did not fill is removed. *)
RemoveStale(r) ==
  /\ At(r, "stale")
  /\ prev' = IF op[r].kept = None THEN None ELSE prev
  /\ Goto(r, "publish")
  /\ UNCHANGED <<file, swap, disk, mem, troubles, history>>

(* The identity of what was kept is empty when nothing was. *)
PublishPersist(r) ==
  LET kept == op[r].kept IN
  /\ At(r, "publish")
  /\ Persist(r, [mem[r] EXCEPT !.version = op[r].release, !.sha = op[r].release,
                               !.prevVersion = kept,
                               !.prevSha = IF kept = None THEN None ELSE prev])
  /\ upset' = {}
  /\ UNCHANGED <<files, astray>>

-----------------------------------------------------------------------------
(* RollbackAgent: three renames swap the payloads, and then the manifest   *)
(* is flipped.                                                             *)

RollbackBegin(r) ==
  /\ At(r, "idle") /\ Trouble("rollback")
  /\ mem[r].prevVersion # None /\ prev # None
  /\ Goto(r, "aside")
  /\ astray' = astray \cup upset
  /\ UNCHANGED <<files, toolFile, disk, mem, node, publishes, crashes, upset>>

MoveAside(r) ==
  /\ At(r, "aside")
  /\ IF file = None
       THEN UNCHANGED <<file, swap>> /\ Goto(r, "idle")
       ELSE swap' = file /\ file' = None /\ Goto(r, "promote")
  /\ UNCHANGED <<prev, disk, mem, troubles, history>>

Promote(r) ==
  /\ At(r, "promote")
  /\ IF prev = None
       THEN file' = swap /\ swap' = None /\ UNCHANGED prev /\ Goto(r, "idle")
       ELSE file' = prev /\ prev' = None /\ UNCHANGED swap /\ Goto(r, "demote")
  /\ UNCHANGED <<disk, mem, troubles, history>>

Demote(r) ==
  /\ At(r, "demote")
  /\ IF swap = None
       THEN UNCHANGED <<prev, swap>> /\ Goto(r, "idle")
       ELSE prev' = swap /\ swap' = None /\ Goto(r, "rollback")
  /\ UNCHANGED <<file, disk, mem, troubles, history>>

(* setPrevAgent takes the checksum of the current release after            *)
(* setAgentVersion has replaced it: both fields end up with one checksum.  *)
RollbackPersist(r) ==
  LET m == mem[r] IN
  /\ At(r, "rollback")
  /\ Persist(r, [m EXCEPT !.version = m.prevVersion, !.sha = m.prevSha,
                          !.prevVersion = m.version])
  /\ upset' = upset \cup {"rollback"}
  /\ UNCHANGED <<files, astray>>

-----------------------------------------------------------------------------
(* PublishLib and PublishBin: a version counter that only goes up.  An     *)
(* upload that is no zip, or fetched from an address and not what was      *)
(* asked for, is refused before it comes here.                             *)

PublishToolBegin(r, t, v) ==
  /\ At(r, "idle") /\ publishes < MaxPublishes
  /\ v > mem[r].tool[t]
  /\ publishes' = publishes + 1
  /\ op' = [op EXCEPT ![r] = [NoOperation EXCEPT !.pc = "tool", !.release = v,
                                                 !.tool = t]]
  /\ UNCHANGED <<files, toolFile, disk, mem, node, troubles, crashes, history>>

InstallTool(r) ==
  /\ At(r, "tool")
  /\ toolFile' = [toolFile EXCEPT ![op[r].tool] = op[r].release]
  /\ Goto(r, "publishTool")
  /\ UNCHANGED <<files, disk, mem, troubles, history>>

PublishToolPersist(r) ==
  LET t == op[r].tool v == op[r].release IN
  /\ At(r, "publishTool")
  /\ Persist(r, [mem[r] EXCEPT !.tool[t] = v, !.toolSha[t] = v])
  /\ UNCHANGED <<files, toolFile, history>>

ReplicaStep(r) ==
  /\ \/ /\ \/ RotateBegin(r) \/ RotateEnd(r) \/ InstallPayload(r) \/ RemoveStale(r)
           \/ PublishPersist(r) \/ RotateFails(r) \/ InstallFails(r)
           \/ MoveAside(r) \/ Promote(r) \/ Demote(r) \/ RollbackPersist(r)
        /\ UNCHANGED toolFile
     \/ InstallTool(r) \/ PublishToolPersist(r)
  /\ UNCHANGED <<node, publishes, crashes>>

-----------------------------------------------------------------------------
(* Mutant: the checksums are those the manifest was written with. *)
LoadFromDiskAsIs(m) == m

(* loadFromDisk: versions are what manifest.json says, checksums those of  *)
(* the files that lie there; a file that is not there clears its entry.    *)
LoadFromDisk(m) ==
  IF m = Empty
    THEN Empty
    ELSE [version     |-> IF file = None THEN None ELSE m.version,
          sha         |-> file,
          prevVersion |-> IF prev = None THEN None ELSE m.prevVersion,
          prevSha     |-> prev,
          tool    |-> [t \in Tools |-> IF toolFile[t] = None THEN None ELSE m.tool[t]],
          toolSha |-> toolFile]

(* A replica dies and is started again. *)
Crash(r) ==
  /\ Trouble("crash")
  /\ crashes' = crashes + 1
  /\ mem' = [mem EXCEPT ![r] = LoadFromDisk(disk)]
  /\ op' = [op EXCEPT ![r] = NoOperation]
  /\ upset' = {}
  /\ UNCHANGED <<files, toolFile, disk, node, publishes, astray>>

-----------------------------------------------------------------------------
(* The nodes.                                                              *)

(* Mutant: only upgrades are offered. *)
NeedsUpgrade(n, m) ==
  m.version # None /\ ~(runs[n] \in Releases /\ runs[n] >= m.version)

NeedsAgent(n, m) == m.version # None /\ m.version # runs[n]
NeedsTool(n, m, t) == m.tool[t] # None /\ m.tool[t] # claims[n][t]

Needs(n, m) == NeedsAgent(n, m) \/ \E t \in Tools : NeedsTool(n, m, t)

(* An idle node's heartbeat, served by r: whoever needs something gets no  *)
(* job.  handleUpdate syncs the lib, the tools, and then the agent.        *)
Heartbeat(n, r) ==
  /\ sync[n] = NoSync /\ At(r, "idle")
  /\ Needs(n, mem[r])
  /\ sync' = [sync EXCEPT ![n] = [pc |-> IF Tools = {} THEN "agent" ELSE "lib",
                                  m |-> mem[r]]]
  /\ UNCHANGED <<files, toolFile, store, runs, folder, claims, saved,
                 publishes, troubles, crashes, history>>

(* What is downloaded is what any replica serves by now. *)
Fetches(n, t) ==
  /\ sync[n].pc = t
  /\ NeedsTool(n, sync[n].m, t)
  /\ toolFile[t] # None /\ toolFile[t] = sync[n].m.toolSha[t]

After(t) == IF t = "lib" THEN "bin" ELSE "agent"

(* syncLib and syncBin; the version of the tools folder is also written to *)
(* a file, which may fail.                                                 *)
SyncTool(n, t) ==
  /\ Fetches(n, t)
  /\ folder' = [folder EXCEPT ![n][t] = toolFile[t]]
  /\ claims' = [claims EXCEPT ![n][t] = sync[n].m.tool[t]]
  /\ \/ UNCHANGED saved
     \/ t = "bin" /\ saved' = [saved EXCEPT ![n] = sync[n].m.tool[t]]
  /\ sync' = [sync EXCEPT ![n].pc = After(t)]
  /\ UNCHANGED <<files, toolFile, store, runs, publishes, troubles, crashes, history>>

(* There is nothing to sync, or it is not what was announced. *)
SkipTool(n, t) ==
  /\ sync[n].pc = t /\ ~Fetches(n, t)
  /\ sync' = [sync EXCEPT ![n].pc = After(t)]
  /\ UNCHANGED <<files, toolFile, store, runs, folder, claims, saved,
                 publishes, troubles, crashes, history>>

(* Mutant: the version is taken over whatever became of the files. *)
HalfExtractedIsDone(n) ==
  /\ Fetches(n, "bin") /\ Trouble("locked")
  /\ folder' = [folder EXCEPT ![n]["bin"] = Junk]
  /\ claims' = [claims EXCEPT ![n]["bin"] = sync[n].m.tool["bin"]]
  /\ sync' = [sync EXCEPT ![n].pc = After("bin")]
  /\ UNCHANGED <<files, toolFile, store, runs, saved, publishes, crashes, history>>

(* extractBinZip ends in the middle of the package, at a locked file. *)
HalfExtract(n) ==
  /\ Fetches(n, "bin") /\ Trouble("locked")
  /\ folder' = [folder EXCEPT ![n]["bin"] = Junk]
  /\ sync' = [sync EXCEPT ![n].pc = After("bin")]
  /\ UNCHANGED <<files, toolFile, store, runs, claims, saved, publishes, crashes, history>>

(* An agent that starts knows the version of its tools folder only. *)
Restarted(n) ==
  [claims EXCEPT ![n] = [t \in Tools |-> IF t = "bin" THEN saved[n] ELSE None]]

(* Mutant: what was downloaded is not compared with the checksum. *)
SyncAgentUnverified(n) ==
  /\ sync[n].pc = "agent"
  /\ IF NeedsAgent(n, sync[n].m) /\ file # None
     THEN runs' = [runs EXCEPT ![n] = file] /\ claims' = Restarted(n)
     ELSE UNCHANGED <<runs, claims>>
  /\ sync' = [sync EXCEPT ![n] = NoSync]
  /\ UNCHANGED <<files, toolFile, store, folder, saved, publishes, troubles, crashes, history>>

(* syncAgent refuses what has not the checksum it was told of, and else    *)
(* swaps it in and restarts.                                               *)
SyncAgent(n) ==
  /\ sync[n].pc = "agent"
  /\ IF NeedsAgent(n, sync[n].m) /\ file # None /\ file = sync[n].m.sha
     THEN runs' = [runs EXCEPT ![n] = file] /\ claims' = Restarted(n)
     ELSE UNCHANGED <<runs, claims>>
  /\ sync' = [sync EXCEPT ![n] = NoSync]
  /\ UNCHANGED <<files, toolFile, store, folder, saved, publishes, troubles, crashes, history>>

(* The agent or its machine dies; the service manager starts it again.     *)
AgentRestart(n) ==
  /\ Trouble("restart")
  /\ claims' = Restarted(n)
  /\ sync' = [sync EXCEPT ![n] = NoSync]
  /\ \/ UNCHANGED folder
     \/ Fetches(n, "bin") /\ folder' = [folder EXCEPT ![n]["bin"] = Junk]
  /\ UNCHANGED <<files, toolFile, store, runs, saved, publishes, crashes, history>>

NodeStep(n) == SyncAgent(n) \/ \E t \in Tools : SyncTool(n, t) \/ SkipTool(n, t)

-----------------------------------------------------------------------------
Next ==
  \/ \E r \in Replicas :
       \/ \E v \in Releases : PublishBegin(r, v)
       \/ \E t \in Tools, v \in Versions : PublishToolBegin(r, t, v)
       \/ RollbackBegin(r) \/ ReplicaStep(r) \/ Crash(r)
  \/ \E n \in Nodes :
       \/ \E r \in Replicas : Heartbeat(n, r)
       \/ NodeStep(n) \/ HalfExtract(n) \/ AgentRestart(n)

Spec == Init /\ [][Next]_vars

(* Operations that have begun go on, nodes heartbeat at every replica they *)
(* can reach, and a sync ends (the agent gives it 30 minutes).             *)
Fairness ==
  /\ \A r \in Replicas : WF_vars(ReplicaStep(r))
  /\ \A n \in Nodes :
       /\ \A r \in Replicas : WF_vars(Heartbeat(n, r))
       /\ WF_vars(NodeStep(n))

FairSpec == Spec /\ Fairness

-----------------------------------------------------------------------------
(* Properties.                                                             *)

AllIdle == \A r \in Replicas : At(r, "idle")

(* A rollback has taken the slot for more than it was: it followed another *)
(* rollback, or a publish that failed, and no publish or restart came since.*)
Misled == upset # {} /\ astray # {}

(* Whatever was published, rolled back, failed or was cut short before,    *)
(* the files that are served are the ones whose checksums the manifest     *)
(* gives (loadFromDisk's recovery), or no node could take them.  "One      *)
(* release of history, enough to undo a bad publish": the rollback slot    *)
(* holds the release the manifest says it does, if no replica died in the  *)
(* middle and no publish failed, and it has the checksum the manifest      *)
(* gives, if there was no rollback either.  "Rolling back twice returns to *)
(* the original state" (RollbackAgent, and its test) is true of versions   *)
(* and files and not of the checksum, so that no node can take the release *)
(* (RollbackTwice.cfg); a rollback after a failed publish (FailedPublish.cfg) *)
(* serves the current release under the older one's name.                  *)
PayloadsMatchManifest ==
  AllIdle =>
    \A r \in Replicas :
      /\ mem[r].version # None /\ ~Misled => mem[r].sha = file
      /\ \A t \in Tools : mem[r].tool[t] # None => mem[r].toolSha[t] = toolFile[t]
      /\ mem[r].prevVersion # None =>
           /\ crashes = 0 /\ "failed" \notin upset \cup astray => prev = mem[r].prevVersion
           /\ upset = {} => mem[r].prevSha = prev

(* "No half-applied state is ever reported as complete" (syncBin): a node  *)
(* that needs nothing, and so gets jobs, has the tools that are offered,   *)
(* each of them whole, however often a sync or an agent broke off, as long *)
(* as no replica died in the middle of a publish.                          *)
WorksWithWholeTools ==
  crashes = 0 =>
    \A r \in Replicas, n \in Nodes, t \in Tools :
      mem[r].tool[t] # None /\ ~Needs(n, mem[r]) => folder[n][t] = mem[r].tool[t]

(* A node ends up with the release its heartbeat named, although a publish *)
(* may come between that heartbeat and the download (syncAgent), as long   *)
(* as no replica died in the middle and no rollback was misled.            *)
InstallsWhatWasOffered ==
  [][crashes = 0 /\ astray = {} =>
       \A n \in Nodes : runs'[n] # runs[n] => runs'[n] = sync[n].m.version]_vars

Converged ==
  \A r \in Replicas, n \in Nodes :
    /\ mem[r].version # None => runs[n] = mem[r].version
    /\ \A t \in Tools : mem[r].tool[t] # None => claims[n][t] = mem[r].tool[t]

(* "Nodes converge on next idle heartbeat" (Operations.md): without a      *)
(* death in the middle of a publish, all nodes come to run and have what   *)
(* is offered, until a rollback is misled and again after the next publish.*)
FleetConverges == []<>(crashes > 0 \/ Misled \/ Converged)

(* What the code says and does not keep.  "Rolling back twice returns to   *)
(* the original state" (update.go:250-251): the fleet comes to run what    *)
(* was current before.  "One release of history, enough to undo a bad      *)
(* publish" (update.go:201-202): what is kept is the release before.       *)
RollbacksConverge == []<>(crashes > 0 \/ Converged)
ReleaseIsKept ==
  AllIdle =>
    \A r \in Replicas : mem[r].prevVersion # None => prev = mem[r].prevVersion
=============================================================================
