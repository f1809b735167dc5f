---------------------------- MODULE Updates_proofs ----------------------------
(***************************************************************************)
(* Proofs about publishing and syncing agents and tools: for one replica,  *)
(* and every number of nodes, releases, tool versions, publishes and       *)
(* troubles.                                                               *)
(***************************************************************************)
EXTENDS Updates, TLAPS

(* All replicas are one. *)
Alone == \E r : Replicas = {r}

----------------------------------------------------------------------------
(* The invariant.                                                          *)

Publishing == {"rotate", "copied", "install", "stale", "publish"}
RollingBack == {"aside", "promote", "demote", "rollback"}

(* What an operation is about. *)
OpShape(r) ==
  /\ op[r].pc \in Publishing => op[r].release \in Releases
  /\ op[r].pc \in {"tool", "publishTool"} => op[r].release \in Versions /\ op[r].tool \in Tools

(* Where there are no tools, none is being synced. *)
SyncShape(n) == sync[n].pc \in {"lib", "bin"} => Tools # {}

Types ==
  TypeOK /\ (\A r \in Replicas : OpShape(r)) /\ \A n \in Nodes : SyncShape(n)

(* A tool's new file is there, and its manifest is to follow. *)
Replacing(r, t) == op[r].pc = "publishTool" /\ op[r].tool = t

(* The checksums are those of the files, but for the files that an         *)
(* operation has replaced; whatever became of operations before.  The      *)
(* rollback slot's is right from a publish or a restart on, until a        *)
(* rollback or a publish that fails.                                       *)
AgentSums(r) ==
  /\ ~Misled /\ mem[r].version # None
     /\ op[r].pc \notin {"stale", "publish", "promote", "demote", "rollback"}
       => mem[r].sha = file
  /\ upset = {} /\ mem[r].prevVersion # None
     /\ op[r].pc \in {"idle", "rotate", "tool", "publishTool"} => mem[r].prevSha = prev
  /\ op[r].pc \in {"stale", "publish"} => file = op[r].release
  /\ op[r].pc \in {"aside", "promote"} => prev # None
  /\ op[r].pc \in {"promote", "demote"} => swap # None
  /\ op[r].pc \in RollingBack => mem[r].prevVersion # None
  /\ ~Misled /\ op[r].pc \in {"aside", "promote"} => mem[r].prevSha = prev
  /\ ~Misled /\ op[r].pc \in {"demote", "rollback"} => mem[r].prevSha = file

ToolSums(r) ==
  \A t \in Tools :
    /\ Replacing(r, t) => toolFile[t] = op[r].release
    /\ ~Replacing(r, t) /\ mem[r].tool[t] # None => mem[r].toolSha[t] = toolFile[t]

Checksums(r) == AgentSums(r) /\ ToolSums(r)

(* Until a replica dies, or a slot that a failed publish has overwritten   *)
(* is rolled back to, it is known at each step of a publish or a rollback  *)
(* which release lies where.                                               *)
Slots(r) ==
  LET m == mem[r] o == op[r] IN
  /\ m.prevVersion # None => m.version # None
  /\ o.pc \in {"idle", "rotate", "copied", "install", "tool", "publishTool", "aside"}
     /\ m.version # None => file = m.version
  /\ o.pc \in {"idle", "rotate", "tool", "publishTool", "aside", "promote"}
     /\ m.prevVersion # None /\ "failed" \notin upset => prev = m.prevVersion
  /\ o.pc \in {"rotate", "copied"} => o.kept = None
  /\ o.pc \in {"install", "stale", "publish"} /\ o.kept # None => prev = o.kept
  /\ o.pc \in RollingBack => "failed" \notin upset
  /\ o.pc \in {"promote", "demote"} => swap = m.version
  /\ o.pc \in {"demote", "rollback"} => file = m.prevVersion
  /\ o.pc = "rollback" => prev = m.version

(* If no rollback was misled either, a release's checksum is its version.  *)
Named(m) == m.version # None => m.sha = m.version

(* Where lies what, as long as it is known. *)
Known(r) ==
  /\ "failed" \notin astray => Slots(r)
  /\ astray = {} => Named(mem[r])

(* The same for the tools, whose versions only go up. *)
ToolSlots(r) ==
  /\ \A t \in Tools :
       /\ mem[r].tool[t] # None => mem[r].toolSha[t] = mem[r].tool[t]
       /\ ~Replacing(r, t) => toolFile[t] = mem[r].tool[t]
       /\ Replacing(r, t) => toolFile[t] = op[r].release
  /\ op[r].pc \in {"tool", "publishTool"} => op[r].release > mem[r].tool[op[r].tool]

(* What a node was told fits together, and is not ahead of the manifest.   *)
ToldRight(r, n) ==
  LET m == sync[n].m IN
  /\ astray = {} => Named(m)
  /\ \A t \in Tools :
       /\ m.tool[t] # None => m.toolSha[t] = m.tool[t]
       /\ m.tool[t] <= mem[r].tool[t]

(* A version that a node may claim it has, or is older than the manifest's.*)
Honest(r, n, t, v) == v = None \/ v = folder[n][t] \/ v < mem[r].tool[t]

NodeHonest(r, n) ==
  \A t \in Tools :
    /\ claims[n][t] <= mem[r].tool[t] /\ Honest(r, n, t, claims[n][t])
    /\ t = "bin" => saved[n] <= claims[n][t] /\ Honest(r, n, t, saved[n])

UndisturbedInv ==
  crashes = 0 =>
    \A r \in Replicas :
      Known(r) /\ ToolSlots(r) /\ \A n \in Nodes : ToldRight(r, n) /\ NodeHonest(r, n)

Inv == Types /\ (\A r \in Replicas : Checksums(r)) /\ UndisturbedInv

----------------------------------------------------------------------------
(* Types.                                                                  *)

(* The parts of the types, for citing. *)
LEMMA TypesParts ==
  ASSUME Types
  PROVE  /\ file \in Content /\ prev \in Content /\ swap \in Content
         /\ toolFile \in [Tools -> ToolContent] /\ disk \in Manifest
         /\ mem \in [Replicas -> Manifest] /\ op \in [Replicas -> Operation]
         /\ runs \in [Nodes -> Content] /\ folder \in [Nodes -> [Tools -> ToolContent]]
         /\ claims \in [Nodes -> [Tools -> Versions \cup {None}]]
         /\ saved \in [Nodes -> Versions \cup {None}]
         /\ sync \in [Nodes -> [pc: {"none", "lib", "bin", "agent"}, m: Manifest]]
         /\ publishes \in Nat /\ troubles \in Nat /\ crashes \in Nat
         /\ crashes <= troubles /\ troubles <= MaxTroubles
         /\ upset \subseteq {"rollback", "failed"} /\ astray \subseteq {"rollback", "failed"}
         /\ (\A r \in Replicas : OpShape(r)) /\ \A n \in Nodes : SyncShape(n)
<1>1. {MaxPublishes, MaxTroubles} \subseteq Nat
  BY UpdateAssumption
<1> QED
  BY <1>1 DEF Types, TypeOK

(* What there is nothing of is well-typed, too. *)
LEMMA NothingTypes ==
  /\ None \in Content /\ Junk \in Content /\ None \in ToolContent /\ Junk \in ToolContent
  /\ Releases \subseteq Content /\ Versions \subseteq ToolContent
  /\ NoTools \in [Tools -> Versions \cup {None}] /\ NoTools \in [Tools -> ToolContent]
  /\ Empty \in Manifest /\ NoOperation \in Operation
  /\ NoSync \in [pc: {"none", "lib", "bin", "agent"}, m: Manifest]
<1>1. None \in Content /\ Junk \in Content /\ None \in ToolContent /\ Junk \in ToolContent
      /\ Releases \subseteq Content /\ Versions \subseteq ToolContent
  BY DEF Content, ToolContent
<1>2. NoTools \in [Tools -> Versions \cup {None}] /\ NoTools \in [Tools -> ToolContent]
  BY <1>1 DEF NoTools
<1>3. Empty \in Manifest
  BY <1>1, <1>2 DEF Empty, Manifest
<1>4. NoOperation \in Operation
  BY DEF NoOperation, Operation, Steps
<1> QED
  BY <1>1, <1>2, <1>3, <1>4 DEF NoSync

(* A manifest that a replica writes ends its operation. *)
LEMMA PersistTypes ==
  ASSUME Types, NEW r \in Replicas, NEW m \in Manifest, Persist(r, m)
  PROVE  /\ mem' \in [Replicas -> Manifest] /\ disk' \in Manifest
         /\ op' \in [Replicas -> Operation]
         /\ mem'[r] = m /\ op'[r] = NoOperation
         /\ \A s \in Replicas \ {r} : mem'[s] = mem[s] /\ op'[s] = op[s]
<1>1. mem \in [Replicas -> Manifest] /\ op \in [Replicas -> Operation]
      /\ disk \in Manifest
  BY TypesParts
<1> QED
  BY <1>1, NothingTypes DEF Persist

(* A step to another statement changes nothing else of the operation. *)
LEMMA GotoTypes ==
  ASSUME Types, NEW r \in Replicas, NEW pc \in Steps, Goto(r, pc)
  PROVE  /\ op' \in [Replicas -> Operation]
         /\ op'[r].pc = pc /\ op'[r].release = op[r].release
         /\ op'[r].kept = op[r].kept /\ op'[r].tool = op[r].tool
         /\ \A s \in Replicas \ {r} : op'[s] = op[s]
<1>1. op \in [Replicas -> Operation]
  BY TypesParts
<1> QED
  BY <1>1 DEF Goto, Operation

(* A publish of the agent: what is written at the end. *)
LEMMA PublishedTypes ==
  ASSUME Types, NEW r \in Replicas, PublishPersist(r)
  PROVE  /\ op[r].release \in Releases /\ mem'[r] \in Manifest
         /\ mem'[r].version = op[r].release /\ mem'[r].sha = op[r].release
         /\ mem'[r].prevVersion = op[r].kept
         /\ op[r].kept # None => mem'[r].prevSha = prev
         /\ mem'[r].tool = mem[r].tool /\ mem'[r].toolSha = mem[r].toolSha
         /\ \E m \in Manifest : Persist(r, m)
<1> DEFINE m == [mem[r] EXCEPT !.version = op[r].release, !.sha = op[r].release,
                               !.prevVersion = op[r].kept,
                               !.prevSha = IF op[r].kept = None THEN None ELSE prev]
<1>1. mem[r] \in Manifest /\ op[r] \in Operation /\ prev \in Content
      /\ mem \in [Replicas -> Manifest] /\ OpShape(r)
  BY TypesParts
<1>2. op[r].release \in Releases /\ op[r].kept \in Releases \cup {None}
  BY <1>1 DEF PublishPersist, At, OpShape, Publishing, Operation
<1>3. m \in Manifest
  BY <1>1, <1>2, NothingTypes DEF Manifest
<1>4. Persist(r, m)
  BY DEF PublishPersist
<1>5. mem'[r] = m
  BY <1>3, <1>4, PersistTypes
<1> QED
  BY <1>1, <1>2, <1>3, <1>4, <1>5 DEF Manifest

(* A rollback. *)
LEMMA RolledBackTypes ==
  ASSUME Types, NEW r \in Replicas, RollbackPersist(r)
  PROVE  /\ mem'[r] \in Manifest
         /\ mem'[r].version = mem[r].prevVersion /\ mem'[r].sha = mem[r].prevSha
         /\ mem'[r].prevVersion = mem[r].version /\ mem'[r].prevSha = mem[r].prevSha
         /\ mem'[r].tool = mem[r].tool /\ mem'[r].toolSha = mem[r].toolSha
         /\ \E m \in Manifest : Persist(r, m)
<1> DEFINE m == [mem[r] EXCEPT !.version = mem[r].prevVersion, !.sha = mem[r].prevSha,
                               !.prevVersion = mem[r].version]
<1>1. mem[r] \in Manifest /\ mem \in [Replicas -> Manifest]
  BY TypesParts
<1>2. m \in Manifest
  BY <1>1 DEF Manifest
<1>3. Persist(r, m)
  BY DEF RollbackPersist
<1>4. mem'[r] = m
  BY <1>2, <1>3, PersistTypes
<1> QED
  BY <1>1, <1>2, <1>3, <1>4 DEF Manifest

(* A publish of a tool. *)
LEMMA ToolPublishedTypes ==
  ASSUME Types, NEW r \in Replicas, PublishToolPersist(r), NEW t, t = op[r].tool
  PROVE  /\ t \in Tools /\ op[r].release \in Versions /\ mem'[r] \in Manifest
         /\ mem'[r].version = mem[r].version /\ mem'[r].sha = mem[r].sha
         /\ mem'[r].prevVersion = mem[r].prevVersion /\ mem'[r].prevSha = mem[r].prevSha
         /\ mem'[r].tool = [mem[r].tool EXCEPT ![t] = op[r].release]
         /\ mem'[r].toolSha = [mem[r].toolSha EXCEPT ![t] = op[r].release]
         /\ \E m \in Manifest : Persist(r, m)
<1> DEFINE v == op[r].release
           m == [mem[r] EXCEPT !.tool[t] = v, !.toolSha[t] = v]
<1>1. mem[r] \in Manifest /\ op[r] \in Operation /\ OpShape(r)
      /\ mem \in [Replicas -> Manifest]
  BY TypesParts
<1>2. v \in Versions /\ t \in Tools
  BY <1>1 DEF PublishToolPersist, At, OpShape
<1>3. m \in Manifest /\ m.version = mem[r].version /\ m.sha = mem[r].sha
      /\ m.prevVersion = mem[r].prevVersion /\ m.prevSha = mem[r].prevSha
      /\ m.tool = [mem[r].tool EXCEPT ![t] = v] /\ m.toolSha = [mem[r].toolSha EXCEPT ![t] = v]
  BY <1>1, <1>2, NothingTypes DEF Manifest
<1>4. Persist(r, m)
  BY DEF PublishToolPersist
<1>5. mem'[r] = m
  BY <1>3, <1>4, PersistTypes
<1> HIDE DEF m
<1> QED
  BY <1>2, <1>3, <1>4, <1>5

(* What a starting replica takes from the disk. *)
LEMMA LoadTypes ==
  ASSUME Types, NEW l, l = LoadFromDisk(disk)
  PROVE  /\ l \in Manifest
         /\ l.version # None => l.sha = file
         /\ l.prevVersion # None => l.prevSha = prev
         /\ \A t \in Tools : l.tool[t] # None => l.toolSha[t] = toolFile[t]
<1>1. file \in Content /\ prev \in Content /\ toolFile \in [Tools -> ToolContent]
      /\ disk \in Manifest
  BY TypesParts
<1>2. CASE disk = Empty
  <2>1. l = Empty
    BY <1>2 DEF LoadFromDisk
  <2>2. l.version = None /\ l.prevVersion = None /\ l.tool = NoTools
    BY <2>1 DEF Empty
  <2> QED
    BY <2>1, <2>2, NothingTypes DEF NoTools
<1>3. CASE disk # Empty
  <2> DEFINE tool == [t \in Tools |-> IF toolFile[t] = None THEN None ELSE disk.tool[t]]
  <2>1. tool \in [Tools -> Versions \cup {None}]
    BY <1>1 DEF Manifest
  <2>2. l = [version     |-> IF file = None THEN None ELSE disk.version,
             sha         |-> file,
             prevVersion |-> IF prev = None THEN None ELSE disk.prevVersion,
             prevSha     |-> prev,
             tool        |-> tool,
             toolSha     |-> toolFile]
    BY <1>3 DEF LoadFromDisk
  <2> HIDE DEF tool
  <2>3. l.sha = file /\ l.prevSha = prev /\ l.toolSha = toolFile
    BY <2>2
  <2>4. l \in Manifest
    BY <1>1, <2>1, <2>2 DEF Manifest
  <2> QED
    BY <2>3, <2>4
<1> QED
  BY <1>2, <1>3

(* What a replica's step may leave behind, when its operation is one.      *)
LEMMA TypesKept ==
  ASSUME Types, file' \in Content, prev' \in Content, swap' \in Content,
         toolFile' \in [Tools -> ToolContent], disk' \in Manifest,
         mem' \in [Replicas -> Manifest], op' \in [Replicas -> Operation],
         \A r \in Replicas : OpShape(r)',
         UNCHANGED <<node, crashes>>, publishes' \in 0..MaxPublishes,
         troubles' \in 0..MaxTroubles, troubles <= troubles',
         {upset', astray'} \subseteq SUBSET {"rollback", "failed"}
  PROVE  Types'
<1>1. crashes' \in 0..troubles'
  BY UpdateAssumption DEF Types, TypeOK
<1>2. \A n \in Nodes : SyncShape(n)'
  BY DEF Types, SyncShape, node
<1> QED
  BY <1>1, <1>2 DEF Types, TypeOK, node

(* What a step of an operation may do to the troubles and their history.   *)
LEMMA ReplicaTroubles ==
  ASSUME NEW r \in Replicas, ReplicaStep(r)
  PROVE  /\ UNCHANGED troubles \/ (troubles < MaxTroubles /\ troubles' = troubles + 1)
         /\ astray' = astray
         /\ upset' \in {upset, {}, upset \cup {"rollback"}, upset \cup {"failed"}}
<1>1. CASE RotateBegin(r) \/ RotateEnd(r) \/ InstallPayload(r) \/ RemoveStale(r)
           \/ MoveAside(r) \/ Promote(r) \/ Demote(r) \/ InstallTool(r)
  BY <1>1 DEF RotateBegin, RotateEnd, InstallPayload, RemoveStale, MoveAside, Promote, Demote,
              InstallTool, history
<1>2. CASE RotateFails(r) \/ InstallFails(r)
  BY <1>2 DEF RotateFails, InstallFails, Trouble, history
<1>3. CASE PublishPersist(r) \/ RollbackPersist(r) \/ PublishToolPersist(r)
  <2>1. \E m : Persist(r, m)
    BY <1>3 DEF PublishPersist, RollbackPersist, PublishToolPersist
  <2>2. UNCHANGED troubles \/ (troubles < MaxTroubles /\ troubles' = troubles + 1)
    BY <2>1 DEF Persist, Trouble
  <2> QED
    BY <1>3, <2>2 DEF PublishPersist, RollbackPersist, PublishToolPersist, history
<1> QED
  BY <1>1, <1>2, <1>3 DEF ReplicaStep

(* A step of an operation keeps the types. *)
LEMMA ReplicaTypes ==
  ASSUME Types, NEW r \in Replicas, ReplicaStep(r)
  PROVE  Types'
<1>1. /\ file \in Content /\ prev \in Content /\ swap \in Content
      /\ toolFile \in [Tools -> ToolContent] /\ disk \in Manifest
      /\ mem \in [Replicas -> Manifest] /\ op \in [Replicas -> Operation]
      /\ \A s \in Replicas : OpShape(s)
      /\ mem[r].version \in Releases \cup {None}
  BY TypesParts DEF Manifest
<1>2. /\ UNCHANGED <<node, crashes>> /\ publishes' \in 0..MaxPublishes
      /\ troubles' \in 0..MaxTroubles /\ troubles <= troubles'
      /\ {upset', astray'} \subseteq SUBSET {"rollback", "failed"}
  <2>1. UNCHANGED troubles \/ (troubles < MaxTroubles /\ troubles' = troubles + 1)
    BY ReplicaTroubles
  <2>2. astray' = astray /\ upset' \in {upset, {}, upset \cup {"rollback"}, upset \cup {"failed"}}
    BY ReplicaTroubles
  <2>3. troubles \in 0..MaxTroubles /\ MaxTroubles \in Nat /\ publishes \in 0..MaxPublishes
        /\ {upset, astray} \subseteq SUBSET {"rollback", "failed"}
    BY UpdateAssumption DEF Types, TypeOK
  <2>4. UNCHANGED <<node, publishes, crashes>>
    BY DEF ReplicaStep
  <2> QED
    BY <2>1, <2>2, <2>3, <2>4
<1> DEFINE Kept == /\ file' \in Content /\ prev' \in Content /\ swap' \in Content
                   /\ toolFile' \in [Tools -> ToolContent] /\ disk' \in Manifest
                   /\ mem' \in [Replicas -> Manifest] /\ op' \in [Replicas -> Operation]
                   /\ \A s \in Replicas : OpShape(s)'
<1>3. ASSUME NEW pc \in Steps, Goto(r, pc), UNCHANGED <<toolFile, disk, mem>>,
             file' \in Content, prev' \in Content, swap' \in Content,
             pc \in Publishing => op[r].pc \in Publishing,
             pc \in {"tool", "publishTool"} => op[r].pc \in {"tool", "publishTool"}
      PROVE  Kept
  <2>1. /\ op' \in [Replicas -> Operation]
        /\ op'[r].pc = pc /\ op'[r].release = op[r].release /\ op'[r].tool = op[r].tool
        /\ \A s \in Replicas \ {r} : op'[s] = op[s]
    BY <1>3, GotoTypes
  <2>2. \A s \in Replicas : OpShape(s)'
    BY <1>1, <1>3, <2>1 DEF OpShape
  <2> QED
    BY <1>1, <1>3, <2>1, <2>2
<1>4. ASSUME NEW m \in Manifest, Persist(r, m), UNCHANGED <<files, toolFile>> PROVE Kept
  <2>1. \A s \in Replicas : OpShape(s)'
    BY <1>1, <1>4, PersistTypes DEF OpShape, NoOperation, Publishing
  <2> QED
    BY <1>1, <1>4, <2>1, PersistTypes DEF files
<1>5. ASSUME RotateBegin(r) /\ UNCHANGED toolFile PROVE Kept
  <2>1. "copied" \in Steps /\ "install" \in Steps /\ op[r].pc \in Publishing
    BY <1>5 DEF Steps, RotateBegin, At, Publishing
  <2> QED
    BY <1>1, <1>3, <1>5, <2>1, NothingTypes DEF RotateBegin
<1>6. ASSUME RotateEnd(r) /\ UNCHANGED toolFile PROVE Kept
  <2>1. op[r] \in Operation /\ op[r].pc = "copied"
    BY <1>1, <1>6 DEF RotateEnd, At
  <2>2. op' \in [Replicas -> Operation] /\ op'[r].release = op[r].release
        /\ op'[r].pc = "install" /\ \A s \in Replicas \ {r} : op'[s] = op[s]
    BY <1>1, <1>6, <2>1 DEF RotateEnd, Operation, Steps
  <2>3. \A s \in Replicas : OpShape(s)'
    BY <1>1, <2>1, <2>2 DEF OpShape, Publishing
  <2> QED
    BY <1>1, <1>6, <2>2, <2>3 DEF RotateEnd
<1>7. ASSUME InstallPayload(r) /\ UNCHANGED toolFile PROVE Kept
  <2>1. op[r].release \in Content /\ "stale" \in Steps /\ op[r].pc \in Publishing
    BY <1>1, <1>7, NothingTypes DEF InstallPayload, At, OpShape, Publishing, Steps
  <2> QED
    BY <1>1, <1>3, <1>7, <2>1 DEF InstallPayload
<1>8. ASSUME RemoveStale(r) /\ UNCHANGED toolFile PROVE Kept
  <2>1. "publish" \in Steps /\ op[r].pc \in Publishing
    BY <1>8 DEF RemoveStale, At, Publishing, Steps
  <2> QED
    BY <1>1, <1>3, <1>8, <2>1, NothingTypes DEF RemoveStale
<1>9. ASSUME PublishPersist(r) /\ UNCHANGED toolFile PROVE Kept
  BY <1>4, <1>9, PublishedTypes DEF PublishPersist
<1>10. ASSUME (MoveAside(r) \/ Promote(r) \/ Demote(r)) /\ UNCHANGED toolFile PROVE Kept
  <2>1. {"idle", "promote", "demote", "rollback"} \subseteq Steps
    BY DEF Steps
  <2> QED
    BY <1>1, <1>3, <1>10, <2>1, NothingTypes DEF MoveAside, Promote, Demote, Publishing
<1>11. ASSUME RollbackPersist(r) /\ UNCHANGED toolFile PROVE Kept
  BY <1>4, <1>11, RolledBackTypes DEF RollbackPersist
<1>12. ASSUME InstallTool(r) PROVE Kept
  <2>1. "publishTool" \in Steps /\ op[r].pc = "tool" /\ op[r].release \in ToolContent
        /\ op[r].tool \in Tools /\ Goto(r, "publishTool")
    BY <1>1, <1>12, NothingTypes DEF InstallTool, At, OpShape, Steps
  <2>2. /\ op' \in [Replicas -> Operation]
        /\ op'[r].pc = "publishTool" /\ op'[r].release = op[r].release /\ op'[r].tool = op[r].tool
        /\ \A s \in Replicas \ {r} : op'[s] = op[s]
    BY <2>1, GotoTypes
  <2>3. \A s \in Replicas : OpShape(s)'
    BY <1>1, <2>1, <2>2 DEF OpShape, Publishing
  <2>4. toolFile' \in [Tools -> ToolContent]
    BY <1>1, <1>12, <2>1 DEF InstallTool
  <2> QED
    BY <1>1, <1>12, <2>2, <2>3, <2>4 DEF InstallTool, files
<1>13. ASSUME PublishToolPersist(r) PROVE Kept
  <2>1. \E m \in Manifest : Persist(r, m)
    BY <1>13, ToolPublishedTypes
  <2> QED
    BY <1>4, <1>13, <2>1 DEF PublishToolPersist
<1>15. ASSUME RotateFails(r) /\ UNCHANGED toolFile PROVE Kept
  <2>1. "install" \in Steps /\ op[r].pc \in Publishing
    BY <1>15 DEF RotateFails, At, Publishing, Steps
  <2> QED
    BY <1>1, <1>3, <1>15, <2>1 DEF RotateFails, files
<1>16. ASSUME InstallFails(r) /\ UNCHANGED toolFile PROVE Kept
  <2>1. op' = [op EXCEPT ![r] = NoOperation] /\ UNCHANGED <<files, disk, mem>>
    BY <1>16 DEF InstallFails
  <2>2. op' \in [Replicas -> Operation] /\ op'[r].pc = "idle"
        /\ \A s \in Replicas \ {r} : op'[s] = op[s]
    BY <1>1, <2>1, NothingTypes DEF NoOperation
  <2>3. \A s \in Replicas : OpShape(s)'
    BY <1>1, <2>2 DEF OpShape, Publishing
  <2> QED
    BY <1>1, <1>16, <2>1, <2>2, <2>3 DEF files
<1>14. Kept
  BY <1>5, <1>6, <1>7, <1>8, <1>9, <1>10, <1>11, <1>12, <1>13, <1>15, <1>16 DEF ReplicaStep
<1> QED
  BY <1>2, <1>14, TypesKept

(* So does one that begins or cuts short an operation. *)
LEMMA BeginTypes ==
  ASSUME Types, NEW r \in Replicas,
         \/ \E v \in Releases : PublishBegin(r, v)
         \/ \E t \in Tools, v \in Versions : PublishToolBegin(r, t, v)
         \/ RollbackBegin(r) \/ Crash(r)
  PROVE  Types'
<1>1. /\ file \in Content /\ prev \in Content /\ swap \in Content
      /\ toolFile \in [Tools -> ToolContent] /\ disk \in Manifest
      /\ mem \in [Replicas -> Manifest] /\ op \in [Replicas -> Operation]
      /\ (\A s \in Replicas : OpShape(s)) /\ {MaxTroubles, MaxPublishes} \subseteq Nat
      /\ publishes \in 0..MaxPublishes /\ troubles \in 0..MaxTroubles
      /\ crashes \in 0..troubles
      /\ {upset, astray} \subseteq SUBSET {"rollback", "failed"}
  BY TypesParts, UpdateAssumption DEF Types, TypeOK
<1>2. ASSUME op' \in [Replicas -> Operation], \A s \in Replicas : OpShape(s)',
             UNCHANGED <<files, toolFile, disk, mem, node, crashes, upset>>,
             astray' \in {astray, astray \cup upset},
             \/ publishes < MaxPublishes /\ publishes' = publishes + 1 /\ troubles' = troubles
             \/ troubles < MaxTroubles /\ troubles' = troubles + 1 /\ publishes' = publishes
      PROVE  Types'
  <2>1. publishes' \in 0..MaxPublishes /\ troubles' \in 0..MaxTroubles /\ troubles <= troubles'
    BY <1>1, <1>2
  <2>2. file' \in Content /\ prev' \in Content /\ swap' \in Content
        /\ toolFile' \in [Tools -> ToolContent] /\ disk' \in Manifest
        /\ mem' \in [Replicas -> Manifest] /\ UNCHANGED <<node, crashes>>
        /\ {upset', astray'} \subseteq SUBSET {"rollback", "failed"}
    BY <1>1, <1>2 DEF files
  <2> QED
    BY <1>2, <2>1, <2>2, TypesKept
<1>3. ASSUME NEW v \in Releases, PublishBegin(r, v) PROVE Types'
  <2> DEFINE o == [NoOperation EXCEPT !.pc = "rotate", !.release = v]
  <2>1. o \in Operation /\ o.pc = "rotate" /\ o.release = v
    BY DEF NoOperation, Operation, Steps
  <2>2. op' = [op EXCEPT ![r] = o]
    BY <1>3 DEF PublishBegin
  <2> HIDE DEF o
  <2>3. op' \in [Replicas -> Operation] /\ op'[r] = o
        /\ \A s \in Replicas \ {r} : op'[s] = op[s]
    BY <1>1, <2>1, <2>2
  <2>4. \A s \in Replicas : OpShape(s)'
    BY <1>1, <2>1, <2>3 DEF OpShape, Publishing
  <2> QED
    BY <1>2, <1>3, <2>3, <2>4 DEF PublishBegin, history
<1>4. ASSUME NEW t \in Tools, NEW v \in Versions, PublishToolBegin(r, t, v) PROVE Types'
  <2> DEFINE o == [NoOperation EXCEPT !.pc = "tool", !.release = v, !.tool = t]
  <2>1. o \in Operation /\ o.pc = "tool" /\ o.release = v /\ o.tool = t
    BY DEF NoOperation, Operation, Steps
  <2>2. op' = [op EXCEPT ![r] = o]
    BY <1>4 DEF PublishToolBegin
  <2> HIDE DEF o
  <2>3. op' \in [Replicas -> Operation] /\ op'[r] = o
        /\ \A s \in Replicas \ {r} : op'[s] = op[s]
    BY <1>1, <2>1, <2>2
  <2>4. \A s \in Replicas : OpShape(s)'
    BY <1>1, <2>1, <2>3 DEF OpShape, Publishing
  <2> QED
    BY <1>2, <1>4, <2>3, <2>4 DEF PublishToolBegin, history
<1>5. CASE RollbackBegin(r)
  <2>1. Goto(r, "aside") /\ "aside" \in Steps
    BY <1>5 DEF RollbackBegin, Steps
  <2>2. op' \in [Replicas -> Operation] /\ op'[r].pc = "aside"
        /\ \A s \in Replicas \ {r} : op'[s] = op[s]
    BY <2>1, GotoTypes
  <2>3. \A s \in Replicas : OpShape(s)'
    BY <1>1, <2>2 DEF OpShape, Publishing
  <2> QED
    BY <1>2, <1>5, <2>2, <2>3 DEF RollbackBegin, Trouble
<1>6. CASE Crash(r)
  <2>1. LoadFromDisk(disk) \in Manifest
    BY LoadTypes
  <2>2. /\ mem' = [mem EXCEPT ![r] = LoadFromDisk(disk)]
        /\ op' = [op EXCEPT ![r] = NoOperation]
        /\ UNCHANGED <<files, toolFile, disk, node, publishes, astray>> /\ upset' = {}
        /\ troubles < MaxTroubles /\ troubles' = troubles + 1 /\ crashes' = crashes + 1
    BY <1>6 DEF Crash, Trouble
  <2>3. mem' \in [Replicas -> Manifest] /\ op' \in [Replicas -> Operation]
    BY <1>1, <2>1, <2>2, NothingTypes
  <2>4. \A s \in Replicas : OpShape(s)'
    BY <1>1, <2>2 DEF OpShape, Publishing, NoOperation
  <2>5. troubles' \in 0..MaxTroubles /\ crashes' \in 0..troubles'
    BY <1>1, <2>2
  <2>6. \A n \in Nodes : SyncShape(n)'
    BY <2>2 DEF Types, SyncShape, node
  <2> QED
    BY <1>1, <2>2, <2>3, <2>4, <2>5, <2>6 DEF Types, TypeOK, files, node
<1> QED
  BY <1>3, <1>4, <1>5, <1>6

(* What a node's step may leave behind. *)
LEMMA NodeTypesKept ==
  ASSUME Types, UNCHANGED <<files, toolFile, store, publishes, crashes, history>>,
         runs' \in [Nodes -> Content], folder' \in [Nodes -> [Tools -> ToolContent]],
         claims' \in [Nodes -> [Tools -> Versions \cup {None}]],
         saved' \in [Nodes -> Versions \cup {None}],
         sync' \in [Nodes -> [pc: {"none", "lib", "bin", "agent"}, m: Manifest]],
         \A n \in Nodes : SyncShape(n)',
         troubles' \in 0..MaxTroubles, troubles <= troubles'
  PROVE  Types'
<1>1. crashes' \in 0..troubles'
  BY UpdateAssumption DEF Types, TypeOK
<1>2. UNCHANGED <<file, prev, swap, toolFile, disk, mem, op, publishes, upset, astray>>
  BY DEF files, store, history
<1>3. \A r \in Replicas : OpShape(r)'
  BY <1>2 DEF Types, OpShape
<1>4. TypeOK'
  BY <1>1, <1>2 DEF Types, TypeOK
<1> QED
  BY <1>3, <1>4 DEF Types

(* What an agent knows when it has started. *)
LEMMA RestartedTypes ==
  ASSUME Types, NEW n \in Nodes, NEW c, c = Restarted(n)
  PROVE  /\ c \in [Nodes -> [Tools -> Versions \cup {None}]]
         /\ \A t \in Tools : c[n][t] = IF t = "bin" THEN saved[n] ELSE None
         /\ \A i \in Nodes \ {n} : c[i] = claims[i]
<1>1. saved \in [Nodes -> Versions \cup {None}]
      /\ claims \in [Nodes -> [Tools -> Versions \cup {None}]]
  BY TypesParts
<1> DEFINE k == [t \in Tools |-> IF t = "bin" THEN saved[n] ELSE None]
<1>2. k \in [Tools -> Versions \cup {None}]
      /\ \A t \in Tools : k[t] = IF t = "bin" THEN saved[n] ELSE None
  BY <1>1
<1>3. c = [claims EXCEPT ![n] = k]
  BY DEF Restarted
<1> HIDE DEF k
<1> QED
  BY <1>1, <1>2, <1>3

(* A sync that goes on keeps its manifest; the next is the tools' step, or *)
(* the agent's.                                                            *)
LEMMA SyncTypes ==
  ASSUME Types, NEW n \in Nodes,
         \/ \E t \in Tools : sync' = [sync EXCEPT ![n].pc = After(t)]
         \/ sync' = [sync EXCEPT ![n] = NoSync]
         \/ \E r \in Replicas :
              sync' = [sync EXCEPT ![n] = [pc |-> IF Tools = {} THEN "agent" ELSE "lib",
                                           m |-> mem[r]]]
  PROVE  /\ sync' \in [Nodes -> [pc: {"none", "lib", "bin", "agent"}, m: Manifest]]
         /\ (\A i \in Nodes : SyncShape(i)') /\ \A i \in Nodes \ {n} : sync'[i] = sync[i]
         /\ \/ sync'[n].m = sync[n].m \/ sync'[n].m = Empty
            \/ \E r \in Replicas : sync'[n].m = mem[r]
<1>1. sync \in [Nodes -> [pc: {"none", "lib", "bin", "agent"}, m: Manifest]]
      /\ mem \in [Replicas -> Manifest]
  BY TypesParts
<1>2. ASSUME NEW t \in Tools, sync' = [sync EXCEPT ![n].pc = After(t)]
      PROVE  /\ sync' \in [Nodes -> [pc: {"none", "lib", "bin", "agent"}, m: Manifest]]
             /\ sync'[n].pc \in {"lib", "bin"} => Tools # {}
             /\ \A i \in Nodes \ {n} : sync'[i] = sync[i]
             /\ sync'[n].m = sync[n].m
  BY <1>1, <1>2 DEF After
<1>3. ASSUME sync' = [sync EXCEPT ![n] = NoSync]
      PROVE  /\ sync' \in [Nodes -> [pc: {"none", "lib", "bin", "agent"}, m: Manifest]]
             /\ sync'[n].pc \in {"lib", "bin"} => Tools # {}
             /\ \A i \in Nodes \ {n} : sync'[i] = sync[i]
             /\ sync'[n].m = Empty
  <2>1. NoSync.m = Empty /\ NoSync.pc = "none"
    BY DEF NoSync
  <2> QED
    BY <1>1, <1>3, <2>1, NothingTypes
<1>4. ASSUME NEW r \in Replicas,
             sync' = [sync EXCEPT ![n] = [pc |-> IF Tools = {} THEN "agent" ELSE "lib",
                                          m |-> mem[r]]]
      PROVE  /\ sync' \in [Nodes -> [pc: {"none", "lib", "bin", "agent"}, m: Manifest]]
             /\ sync'[n].pc \in {"lib", "bin"} => Tools # {}
             /\ \A i \in Nodes \ {n} : sync'[i] = sync[i]
             /\ sync'[n].m = mem[r]
  BY <1>1, <1>4
<1>5. ASSUME \A i \in Nodes \ {n} : sync'[i] = sync[i],
             sync'[n].pc \in {"lib", "bin"} => Tools # {}
      PROVE  \A i \in Nodes : SyncShape(i)'
  BY <1>5, TypesParts DEF SyncShape
<1> QED
  BY <1>2, <1>3, <1>4, <1>5

(* A node's step. *)
NodeAction(n) ==
  \/ \E r \in Replicas : Heartbeat(n, r)
  \/ NodeStep(n) \/ HalfExtract(n) \/ AgentRestart(n)

(* The manifest a tool was fetched for is well-typed, and so is the file.  *)
LEMMA FetchTypes ==
  ASSUME Types, NEW n \in Nodes, NEW t \in Tools, Fetches(n, t)
  PROVE  /\ sync[n].m \in Manifest /\ sync[n].m.tool[t] \in Versions
         /\ toolFile[t] \in ToolContent
<1>1. sync[n].m \in Manifest /\ toolFile[t] \in ToolContent
  BY TypesParts
<1> QED
  BY <1>1 DEF Fetches, NeedsTool, Manifest

(* A node's step leaves the replicas and their files alone. *)
LEMMA NodeStoreKept ==
  ASSUME Types, NEW n \in Nodes, NodeAction(n)
  PROVE  /\ UNCHANGED <<files, toolFile, store, publishes, crashes, history>>
         /\ UNCHANGED <<file, prev, swap, disk, mem, op, upset, astray>>
         /\ troubles' \in 0..MaxTroubles /\ troubles <= troubles'
<1>1. UNCHANGED <<files, toolFile, store, publishes, crashes, history>>
  BY DEF NodeAction, Heartbeat, NodeStep, SyncAgent, SyncTool, SkipTool, HalfExtract, AgentRestart
<1>2. \/ UNCHANGED troubles
      \/ troubles < MaxTroubles /\ troubles' = troubles + 1
  BY DEF NodeAction, Heartbeat, NodeStep, SyncAgent, SyncTool, SkipTool, HalfExtract,
         AgentRestart, Trouble
<1>3. troubles \in 0..MaxTroubles /\ MaxTroubles \in Nat
  BY UpdateAssumption DEF Types, TypeOK
<1> QED
  BY <1>1, <1>2, <1>3 DEF files, store, history

(* It keeps the types. *)
LEMMA NodeTypes ==
  ASSUME Types, NEW n \in Nodes, NodeAction(n)
  PROVE  Types'
<1> DEFINE Kept == /\ runs' \in [Nodes -> Content]
                   /\ folder' \in [Nodes -> [Tools -> ToolContent]]
                   /\ claims' \in [Nodes -> [Tools -> Versions \cup {None}]]
                   /\ saved' \in [Nodes -> Versions \cup {None}]
                   /\ sync' \in [Nodes -> [pc: {"none", "lib", "bin", "agent"}, m: Manifest]]
                   /\ \A i \in Nodes : SyncShape(i)'
<1>1. /\ runs \in [Nodes -> Content] /\ folder \in [Nodes -> [Tools -> ToolContent]]
      /\ claims \in [Nodes -> [Tools -> Versions \cup {None}]]
      /\ saved \in [Nodes -> Versions \cup {None}] /\ file \in Content
      /\ {None, Junk} \subseteq ToolContent
  BY TypesParts, NothingTypes
<1>2. ASSUME NEW r \in Replicas, Heartbeat(n, r) PROVE Kept
  BY <1>1, <1>2, SyncTypes DEF Heartbeat
<1>3. ASSUME NEW t \in Tools, SyncTool(n, t) PROVE Kept
  <2>1. Fetches(n, t) /\ sync' = [sync EXCEPT ![n].pc = After(t)]
        /\ folder' = [folder EXCEPT ![n][t] = toolFile[t]]
        /\ claims' = [claims EXCEPT ![n][t] = sync[n].m.tool[t]]
        /\ (UNCHANGED saved \/ saved' = [saved EXCEPT ![n] = sync[n].m.tool[t]])
        /\ UNCHANGED runs
    BY <1>3 DEF SyncTool
  <2>2. sync' \in [Nodes -> [pc: {"none", "lib", "bin", "agent"}, m: Manifest]]
        /\ \A i \in Nodes : SyncShape(i)'
    BY <2>1, SyncTypes
  <2>3. toolFile[t] \in ToolContent /\ sync[n].m.tool[t] \in Versions \cup {None}
    BY <2>1, FetchTypes
  <2> QED
    BY <1>1, <2>1, <2>2, <2>3
<1>4. ASSUME NEW t \in Tools, SkipTool(n, t) PROVE Kept
  <2>1. sync' = [sync EXCEPT ![n].pc = After(t)] /\ UNCHANGED <<runs, folder, claims, saved>>
    BY <1>4 DEF SkipTool
  <2>2. sync' \in [Nodes -> [pc: {"none", "lib", "bin", "agent"}, m: Manifest]]
        /\ \A i \in Nodes : SyncShape(i)'
    BY <2>1, SyncTypes
  <2> QED
    BY <1>1, <2>1, <2>2
<1>5. ASSUME SyncAgent(n) PROVE Kept
  <2>1. claims' \in [Nodes -> [Tools -> Versions \cup {None}]]
    BY <1>1, <1>5, RestartedTypes DEF SyncAgent
  <2>2. sync' \in [Nodes -> [pc: {"none", "lib", "bin", "agent"}, m: Manifest]]
        /\ \A i \in Nodes : SyncShape(i)'
    BY <1>5, SyncTypes DEF SyncAgent
  <2>3. runs' \in [Nodes -> Content] /\ UNCHANGED <<folder, saved>>
    BY <1>1, <1>5 DEF SyncAgent
  <2> QED
    BY <1>1, <2>1, <2>2, <2>3
<1>6. ASSUME HalfExtract(n) PROVE Kept
  <2>1. "bin" \in Tools
    BY <1>6, UpdateAssumption, TypesParts DEF HalfExtract, Fetches, SyncShape
  <2>2. sync' = [sync EXCEPT ![n].pc = After("bin")] /\ UNCHANGED <<runs, claims, saved>>
        /\ folder' = [folder EXCEPT ![n]["bin"] = Junk]
    BY <1>6 DEF HalfExtract
  <2>3. sync' \in [Nodes -> [pc: {"none", "lib", "bin", "agent"}, m: Manifest]]
        /\ \A i \in Nodes : SyncShape(i)'
    BY <2>1, <2>2, SyncTypes
  <2>4. folder' \in [Nodes -> [Tools -> ToolContent]]
    BY <1>1, <2>1, <2>2
  <2> QED
    BY <1>1, <2>2, <2>3, <2>4
<1>7. ASSUME AgentRestart(n) PROVE Kept
  <2>1. sync' = [sync EXCEPT ![n] = NoSync] /\ UNCHANGED <<runs, saved>>
        /\ claims' = Restarted(n)
        /\ (UNCHANGED folder \/ folder' = [folder EXCEPT ![n]["bin"] = Junk])
    BY <1>7 DEF AgentRestart
  <2>2. sync' \in [Nodes -> [pc: {"none", "lib", "bin", "agent"}, m: Manifest]]
        /\ \A i \in Nodes : SyncShape(i)'
    BY <2>1, SyncTypes
  <2>3. folder' \in [Nodes -> [Tools -> ToolContent]]
    <3>1. [folder[n] EXCEPT !["bin"] = Junk] \in [Tools -> ToolContent]
      BY <1>1
    <3>2. [folder EXCEPT ![n] = [folder[n] EXCEPT !["bin"] = Junk]]
            \in [Nodes -> [Tools -> ToolContent]]
      BY <1>1, <3>1
    <3> QED
      BY <1>1, <2>1, <3>2
  <2>4. claims' \in [Nodes -> [Tools -> Versions \cup {None}]]
    BY <2>1, RestartedTypes
  <2> QED
    BY <1>1, <2>1, <2>2, <2>3, <2>4
<1>8. Kept
  BY <1>2, <1>3, <1>4, <1>5, <1>6, <1>7 DEF NodeAction, NodeStep
<1>9. /\ UNCHANGED <<files, toolFile, store, publishes, crashes, history>>
      /\ troubles' \in 0..MaxTroubles /\ troubles <= troubles'
  BY NodeStoreKept
<1> QED
  BY <1>8, <1>9, NodeTypesKept

(* The types hold at first. *)
LEMMA InitTypes ==
  ASSUME Init
  PROVE  Types
<1>1. {MaxTroubles, MaxPublishes} \subseteq Nat
  BY UpdateAssumption
<1>2. \A r \in Replicas : OpShape(r)
  BY DEF Init, OpShape, NoOperation, Publishing
<1>7. \A n \in Nodes : SyncShape(n)
  BY DEF Init, SyncShape, NoSync
<1>3. claims \in [Nodes -> [Tools -> Versions \cup {None}]]
      /\ folder \in [Nodes -> [Tools -> ToolContent]]
  <2>1. NoTools \in [Tools -> Versions \cup {None}] /\ NoTools \in [Tools -> ToolContent]
    BY NothingTypes
  <2>2. claims = [n \in Nodes |-> NoTools] /\ folder = [n \in Nodes |-> NoTools]
    BY DEF Init
  <2> QED
    BY <2>1, <2>2
<1>4. toolFile \in [Tools -> ToolContent] /\ disk \in Manifest
      /\ mem \in [Replicas -> Manifest] /\ op \in [Replicas -> Operation]
      /\ sync \in [Nodes -> [pc: {"none", "lib", "bin", "agent"}, m: Manifest]]
  BY NothingTypes DEF Init
<1>5. {file, prev, swap} \subseteq Content /\ runs \in [Nodes -> Content]
      /\ saved \in [Nodes -> Versions \cup {None}]
  BY NothingTypes DEF Init
<1>6. publishes \in 0..MaxPublishes /\ troubles \in 0..MaxTroubles /\ crashes \in 0..troubles
      /\ {upset, astray} \subseteq SUBSET {"rollback", "failed"}
  BY <1>1 DEF Init
<1> QED
  BY <1>2, <1>3, <1>4, <1>5, <1>6, <1>7 DEF Types, TypeOK

(* Every file, manifest, operation and node is what its type says (TypeOK):*)
(* for any number of replicas, and whatever goes wrong.                    *)
THEOREM TypesHold == Spec => []Types
<1>1. Init => Types
  BY InitTypes
<1>2. Types /\ [Next]_vars => Types'
  <2>1. ASSUME Types, UNCHANGED vars PROVE Types'
    BY <2>1 DEF Types, TypeOK, OpShape, SyncShape, vars, files, store, node, history
  <2>2. ASSUME Types, Next PROVE Types'
    BY <2>2, BeginTypes, ReplicaTypes, NodeTypes DEF Next, NodeAction
  <2> QED
    BY <2>1, <2>2
<1> QED
  BY <1>1, <1>2, PTL DEF Spec

----------------------------------------------------------------------------
(* What the replica's steps do to its checksums and slots.                 *)

(* A step of a publish or a rollback of the agent leaves the tools alone.  *)
LEMMA ToolsUnmoved ==
  ASSUME NEW r \in Replicas, UNCHANGED toolFile,
         mem'[r].tool = mem[r].tool, mem'[r].toolSha = mem[r].toolSha,
         op[r].pc \notin {"tool", "publishTool"}, op'[r].pc \notin {"tool", "publishTool"}
  PROVE  (ToolSums(r) => ToolSums(r)') /\ (ToolSlots(r) => ToolSlots(r)')
BY DEF ToolSums, ToolSlots, Replacing

(* A step of a publish or a rollback of the agent, and what lies where.    *)
LEMMA AgentSteps ==
  ASSUME Types, NEW r \in Replicas, AgentSums(r), crashes = 0 => Known(r),
         \/ RotateBegin(r) \/ RotateEnd(r) \/ InstallPayload(r) \/ RemoveStale(r)
         \/ PublishPersist(r) \/ RotateFails(r) \/ (InstallFails(r) /\ At(r, "install"))
         \/ MoveAside(r) \/ Promote(r) \/ Demote(r) \/ RollbackPersist(r),
         UNCHANGED <<toolFile, node, publishes, crashes>>
  PROVE  /\ AgentSums(r)' /\ (crashes = 0 => Known(r)')
         /\ mem'[r].tool = mem[r].tool /\ mem'[r].toolSha = mem[r].toolSha
         /\ op[r].pc \notin {"tool", "publishTool"} /\ op'[r].pc \notin {"tool", "publishTool"}
<1> DEFINE Kept == /\ AgentSums(r)' /\ (crashes = 0 => Known(r)')
                   /\ mem'[r].tool = mem[r].tool /\ mem'[r].toolSha = mem[r].toolSha
                   /\ op[r].pc \notin {"tool", "publishTool"}
                   /\ op'[r].pc \notin {"tool", "publishTool"}
<1>1. mem[r] \in Manifest /\ op[r] \in Operation /\ OpShape(r) /\ file \in Content
      /\ None \notin Releases
  BY TypesParts DEF None, Releases
<1>0. ASSUME UNCHANGED mem, AgentSums(r)', crashes = 0 /\ "failed" \notin astray => Slots(r)',
             UNCHANGED astray,
             op[r].pc \notin {"tool", "publishTool"}, op'[r].pc \notin {"tool", "publishTool"}
      PROVE  Kept
  BY <1>0 DEF Known, Named
<1>2. ASSUME RotateBegin(r) PROVE Kept
  <2>1. op[r].pc = "rotate" /\ UNCHANGED <<file, swap, disk, mem, upset, astray>>
    BY <1>2 DEF RotateBegin, At, history
  <2>2. CASE mem[r].version # None /\ file # None
    <3>1. Goto(r, "copied") /\ "copied" \in Steps
      BY <1>2, <2>2 DEF RotateBegin, Steps
    <3>2. op'[r].pc = "copied" /\ op'[r].kept = op[r].kept
      BY <3>1, GotoTypes
    <3>3. AgentSums(r)'
      BY <2>1, <3>2 DEF AgentSums, RollingBack, Misled
    <3>4. crashes = 0 /\ "failed" \notin astray => Slots(r)'
      BY <2>1, <3>2 DEF Known, Slots, RollingBack
    <3> QED
      BY <1>0, <2>1, <3>2, <3>3, <3>4
  <2>3. CASE ~(mem[r].version # None /\ file # None)
    <3>1. Goto(r, "install") /\ "install" \in Steps /\ UNCHANGED prev
      BY <1>2, <2>3 DEF RotateBegin, Steps
    <3>2. op'[r].pc = "install" /\ op'[r].kept = op[r].kept
      BY <3>1, GotoTypes
    <3>3. AgentSums(r)'
      BY <2>1, <3>2 DEF AgentSums, RollingBack, Misled
    <3>4. crashes = 0 /\ "failed" \notin astray => Slots(r)'
      BY <2>1, <3>2 DEF Known, Slots, RollingBack
    <3> QED
      BY <1>0, <2>1, <3>2, <3>3, <3>4
  <2> QED
    BY <2>2, <2>3
<1>3. ASSUME RotateEnd(r) PROVE Kept
  <2>1. op[r].pc = "copied" /\ UNCHANGED <<file, swap, disk, mem, upset, astray>> /\ prev' = file
        /\ op' = [op EXCEPT ![r].pc = "install", ![r].kept = mem[r].version]
    BY <1>3 DEF RotateEnd, At, history
  <2>2. op'[r].pc = "install" /\ op'[r].kept = mem[r].version
    BY <1>1, <2>1, TypesParts DEF Operation
  <2>3. AgentSums(r)'
    BY <2>1, <2>2 DEF AgentSums, RollingBack, Misled
  <2>4. crashes = 0 /\ "failed" \notin astray => Slots(r)'
    BY <2>1, <2>2 DEF Known, Slots, RollingBack
  <2> QED
    BY <1>0, <2>1, <2>2, <2>3, <2>4
<1>4. ASSUME InstallPayload(r) PROVE Kept
  <2>1. op[r].pc = "install" /\ UNCHANGED <<prev, swap, disk, mem, upset, astray>>
        /\ file' = op[r].release /\ Goto(r, "stale") /\ "stale" \in Steps
    BY <1>4 DEF InstallPayload, At, Steps, history
  <2>2. op'[r].pc = "stale" /\ op'[r].kept = op[r].kept /\ op'[r].release = op[r].release
    BY <2>1, GotoTypes
  <2>3. AgentSums(r)'
    BY <2>1, <2>2 DEF AgentSums, RollingBack, Misled
  <2>4. crashes = 0 /\ "failed" \notin astray => Slots(r)'
    BY <2>1, <2>2 DEF Known, Slots, RollingBack
  <2> QED
    BY <1>0, <2>1, <2>2, <2>3, <2>4
<1>5. ASSUME RemoveStale(r) PROVE Kept
  <2>1. op[r].pc = "stale" /\ UNCHANGED <<file, swap, disk, mem, upset, astray>>
        /\ prev' = (IF op[r].kept = None THEN None ELSE prev)
        /\ Goto(r, "publish") /\ "publish" \in Steps
    BY <1>5 DEF RemoveStale, At, Steps, history
  <2>2. op'[r].pc = "publish" /\ op'[r].kept = op[r].kept /\ op'[r].release = op[r].release
    BY <2>1, GotoTypes
  <2>3. AgentSums(r)'
    BY <2>1, <2>2 DEF AgentSums, RollingBack, Misled
  <2>4. crashes = 0 /\ "failed" \notin astray => Slots(r)'
    BY <2>1, <2>2 DEF Known, Slots, RollingBack
  <2> QED
    BY <1>0, <2>1, <2>2, <2>3, <2>4
<1>6. ASSUME PublishPersist(r) PROVE Kept
  <2>1. op[r].pc = "publish" /\ UNCHANGED <<files, astray>> /\ upset' = {}
    BY <1>6 DEF PublishPersist, At
  <2>2. op'[r] = NoOperation
    BY <1>6, PublishedTypes, PersistTypes
  <2>3. op'[r].pc = "idle" /\ UNCHANGED <<file, prev, swap>>
    BY <2>1, <2>2 DEF NoOperation, files
  <2>4. /\ op[r].release \in Releases
        /\ mem'[r].version = op[r].release /\ mem'[r].sha = op[r].release
        /\ mem'[r].prevVersion = op[r].kept
        /\ op[r].kept # None => mem'[r].prevSha = prev
        /\ mem'[r].tool = mem[r].tool /\ mem'[r].toolSha = mem[r].toolSha
    BY <1>6, PublishedTypes
  <2>5. AgentSums(r)'
    BY <1>1, <2>1, <2>3, <2>4 DEF AgentSums, RollingBack
  <2>6. crashes = 0 /\ "failed" \notin astray => Slots(r)'
    <3>1. op[r].kept # None /\ crashes = 0 /\ "failed" \notin astray => prev = op[r].kept
      BY <2>1 DEF Known, Slots
    <3>2. file = op[r].release
      BY <2>1 DEF AgentSums
    <3> QED
      BY <1>1, <2>1, <2>3, <2>4, <3>1, <3>2 DEF Slots, RollingBack
  <2>7. Named(mem[r])'
    BY <2>4 DEF Named
  <2> QED
    BY <2>1, <2>3, <2>4, <2>5, <2>6, <2>7 DEF Known
<1>7. ASSUME MoveAside(r) PROVE Kept
  <2>1. op[r].pc = "aside" /\ UNCHANGED <<prev, disk, mem, upset, astray>>
        /\ {"idle", "promote"} \subseteq Steps
    BY <1>7 DEF MoveAside, At, Steps, history
  <2>2. CASE file = None
    <3>1. Goto(r, "idle") /\ UNCHANGED <<file, swap>>
      BY <1>7, <2>2 DEF MoveAside
    <3>2. op'[r].pc = "idle"
      BY <2>1, <3>1, GotoTypes
    <3>3. AgentSums(r)'
      BY <2>1, <3>1, <3>2 DEF AgentSums, RollingBack, Misled
    <3>4. crashes = 0 /\ "failed" \notin astray => Slots(r)'
      BY <2>1, <3>1, <3>2 DEF Known, Slots, RollingBack
    <3> QED
      BY <1>0, <2>1, <3>2, <3>3, <3>4
  <2>3. CASE file # None
    <3>1. Goto(r, "promote") /\ swap' = file
      BY <1>7, <2>3 DEF MoveAside
    <3>2. op'[r].pc = "promote" /\ op'[r].kept = op[r].kept
      BY <2>1, <3>1, GotoTypes
    <3>3. AgentSums(r)'
      BY <2>1, <2>3, <3>1, <3>2 DEF AgentSums, RollingBack, Misled
    <3>4. mem[r].prevVersion # None
      BY <2>1 DEF AgentSums, RollingBack
    <3>5. crashes = 0 /\ "failed" \notin astray => Slots(r)'
      BY <2>1, <2>3, <3>1, <3>2, <3>4 DEF Known, Slots, RollingBack
    <3> QED
      BY <1>0, <2>1, <3>2, <3>3, <3>5
  <2> QED
    BY <2>2, <2>3
<1>8. ASSUME Promote(r) PROVE Kept
  <2>1. op[r].pc = "promote" /\ UNCHANGED <<disk, mem, upset, astray>> /\ prev # None
        /\ mem[r].prevVersion # None
    BY <1>8 DEF Promote, At, AgentSums, RollingBack, history
  <2>2. Goto(r, "demote") /\ "demote" \in Steps /\ UNCHANGED swap /\ file' = prev
    BY <1>8, <2>1 DEF Promote, Steps
  <2>3. op'[r].pc = "demote" /\ op'[r].kept = op[r].kept
    BY <2>2, GotoTypes
  <2>4. AgentSums(r)'
    BY <2>1, <2>2, <2>3 DEF AgentSums, RollingBack, Misled
  <2>5. crashes = 0 /\ "failed" \notin astray => Slots(r)'
    BY <2>1, <2>2, <2>3 DEF Known, Slots, RollingBack
  <2> QED
    BY <1>0, <2>1, <2>3, <2>4, <2>5
<1>9. ASSUME Demote(r) PROVE Kept
  <2>1. op[r].pc = "demote" /\ UNCHANGED <<file, disk, mem, upset, astray>> /\ swap # None
    BY <1>9 DEF Demote, At, AgentSums, history
  <2>2. Goto(r, "rollback") /\ "rollback" \in Steps /\ prev' = swap
    BY <1>9, <2>1 DEF Demote, Steps
  <2>3. op'[r].pc = "rollback" /\ op'[r].kept = op[r].kept
    BY <2>2, GotoTypes
  <2>4. AgentSums(r)'
    BY <2>1, <2>2, <2>3 DEF AgentSums, RollingBack, Misled
  <2>5. crashes = 0 /\ "failed" \notin astray => Slots(r)'
    BY <2>1, <2>2, <2>3 DEF Known, Slots, RollingBack
  <2> QED
    BY <1>0, <2>1, <2>3, <2>4, <2>5
<1>10. ASSUME RollbackPersist(r) PROVE Kept
  <2>1. op[r].pc = "rollback" /\ UNCHANGED <<files, astray>> /\ upset' = upset \cup {"rollback"}
    BY <1>10 DEF RollbackPersist, At
  <2>2. op'[r] = NoOperation
    BY <1>10, RolledBackTypes, PersistTypes
  <2>3. op'[r].pc = "idle" /\ UNCHANGED <<file, prev, swap>>
    BY <2>1, <2>2 DEF NoOperation, files
  <2>4. /\ mem'[r].version = mem[r].prevVersion /\ mem'[r].sha = mem[r].prevSha
        /\ mem'[r].prevVersion = mem[r].version /\ mem'[r].prevSha = mem[r].prevSha
        /\ mem'[r].tool = mem[r].tool /\ mem'[r].toolSha = mem[r].toolSha
    BY <1>10, RolledBackTypes
  <2>5. AgentSums(r)'
    BY <2>1, <2>3, <2>4 DEF AgentSums, RollingBack, Misled
  <2>6. mem[r].prevVersion # None
    BY <2>1 DEF AgentSums, RollingBack
  <2>7. crashes = 0 /\ "failed" \notin astray => Slots(r)'
    BY <2>1, <2>3, <2>4, <2>6 DEF Known, Slots, RollingBack
  <2>8. crashes = 0 /\ astray = {} => Named(mem[r])'
    <3>1. astray = {} => mem[r].prevSha = file
      BY <2>1 DEF AgentSums, Misled
    <3>2. crashes = 0 /\ "failed" \notin astray => file = mem[r].prevVersion
      BY <2>1 DEF Known, Slots
    <3> QED
      BY <2>4, <3>1, <3>2 DEF Named
  <2> QED
    BY <2>1, <2>3, <2>4, <2>5, <2>7, <2>8 DEF Known
<1>11. ASSUME RotateFails(r) PROVE Kept
  <2>1. op[r].pc \in {"rotate", "copied"} /\ UNCHANGED <<file, prev, swap, mem, upset, astray>>
        /\ Goto(r, "install") /\ "install" \in Steps
    BY <1>11 DEF RotateFails, At, Steps, files, history
  <2>2. op'[r].pc = "install" /\ op'[r].kept = op[r].kept
    BY <2>1, GotoTypes
  <2>3. AgentSums(r)'
    BY <2>1, <2>2 DEF AgentSums, RollingBack, Misled
  <2>4. crashes = 0 /\ "failed" \notin astray => Slots(r)'
    BY <2>1, <2>2 DEF Known, Slots, RollingBack
  <2> QED
    BY <1>0, <2>1, <2>2, <2>3, <2>4
<1>12. ASSUME InstallFails(r), At(r, "install") PROVE Kept
  <2>1. op[r].pc = "install" /\ UNCHANGED <<file, prev, swap, mem, astray>>
        /\ op' = [op EXCEPT ![r] = NoOperation] /\ upset' = upset \cup {"failed"}
    BY <1>12 DEF InstallFails, At, files
  <2>2. op'[r].pc = "idle"
    BY <2>1, TypesParts DEF NoOperation
  <2>3. AgentSums(r)'
    BY <2>1, <2>2 DEF AgentSums, RollingBack, Misled
  <2>4. crashes = 0 /\ "failed" \notin astray => Slots(r)'
    BY <2>1, <2>2 DEF Known, Slots, RollingBack
  <2> QED
    BY <1>0, <2>1, <2>2, <2>3, <2>4
<1> QED
  BY <1>2, <1>3, <1>4, <1>5, <1>6, <1>7, <1>8, <1>9, <1>10, <1>11, <1>12

(* A tool that cannot be written. *)
LEMMA ToolFails ==
  ASSUME Types, NEW r \in Replicas, Checksums(r), crashes = 0 => Known(r) /\ ToolSlots(r),
         InstallFails(r), At(r, "tool"), UNCHANGED <<toolFile, crashes>>
  PROVE  /\ Checksums(r)' /\ (crashes = 0 => Known(r)' /\ ToolSlots(r)')
         /\ UNCHANGED mem
<1>1. op[r].pc = "tool" /\ UNCHANGED <<file, prev, swap, mem, upset, astray>>
      /\ op' = [op EXCEPT ![r] = NoOperation]
  BY DEF InstallFails, At, files
<1>2. op'[r].pc = "idle"
  BY <1>1, TypesParts DEF NoOperation
<1>3. AgentSums(r)'
  BY <1>1, <1>2 DEF Checksums, AgentSums, RollingBack, Misled
<1>4. crashes = 0 => Known(r)'
  BY <1>1, <1>2 DEF Known, Named, Slots, RollingBack
<1>5. ToolSums(r)' /\ (crashes = 0 => ToolSlots(r)')
  BY <1>1, <1>2 DEF Checksums, ToolSums, ToolSlots, Replacing
<1> QED
  BY <1>1, <1>3, <1>4, <1>5 DEF Checksums

(* A step of a publish of a tool. *)
LEMMA ToolSteps ==
  ASSUME Types, NEW r \in Replicas, Checksums(r), crashes = 0 => Known(r) /\ ToolSlots(r),
         InstallTool(r) \/ PublishToolPersist(r),
         UNCHANGED <<node, publishes, crashes>>
  PROVE  /\ Checksums(r)' /\ (crashes = 0 => Known(r)' /\ ToolSlots(r)')
         /\ crashes = 0 => \A t \in Tools : mem'[r].tool[t] >= mem[r].tool[t]
<1>1. mem[r] \in Manifest /\ op[r] \in Operation /\ OpShape(r)
      /\ mem \in [Replicas -> Manifest] /\ toolFile \in [Tools -> ToolContent]
  BY TypesParts
<1>2. mem[r].tool \in [Tools -> Versions \cup {None}] /\ mem[r].toolSha \in [Tools -> ToolContent]
  BY <1>1 DEF Manifest
<1>3. Versions \cup {None} \subseteq Nat /\ None \notin Versions
  BY UpdateAssumption DEF Versions, None
<1>4. CASE InstallTool(r)
  <2>1. op[r].pc = "tool" /\ op[r].tool \in Tools /\ Goto(r, "publishTool")
        /\ "publishTool" \in Steps /\ UNCHANGED <<files, disk, mem, history>>
        /\ toolFile' = [toolFile EXCEPT ![op[r].tool] = op[r].release]
    BY <1>1, <1>4 DEF InstallTool, At, OpShape, Steps
  <2>2. op'[r].pc = "publishTool" /\ op'[r].release = op[r].release
        /\ op'[r].kept = op[r].kept /\ op'[r].tool = op[r].tool
    BY <2>1, GotoTypes
  <2>3. UNCHANGED <<file, prev, swap, upset, astray>>
    BY <2>1 DEF files, history
  <2>4. AgentSums(r)' /\ (crashes = 0 => Known(r)')
    BY <1>4, <2>1, <2>2, <2>3 DEF Checksums, AgentSums, Known, Named, Slots, RollingBack, Misled
  <2>5. ToolSums(r)' /\ (crashes = 0 => ToolSlots(r)')
    BY <1>1, <1>4, <2>1, <2>2 DEF Checksums, ToolSums, ToolSlots, Replacing
  <2>6. \A t \in Tools : mem'[r].tool[t] >= mem[r].tool[t]
    BY <1>2, <1>3, <2>1
  <2> QED
    BY <1>4, <2>4, <2>5, <2>6 DEF Checksums
<1>5. CASE PublishToolPersist(r)
  <2> DEFINE t == op[r].tool
  <2>1. op[r].pc = "publishTool" /\ UNCHANGED <<files, toolFile, history>>
    BY <1>5 DEF PublishToolPersist, At
  <2>2. /\ t \in Tools /\ op[r].release \in Versions
        /\ mem'[r].version = mem[r].version /\ mem'[r].sha = mem[r].sha
        /\ mem'[r].prevVersion = mem[r].prevVersion /\ mem'[r].prevSha = mem[r].prevSha
        /\ mem'[r].tool = [mem[r].tool EXCEPT ![t] = op[r].release]
        /\ mem'[r].toolSha = [mem[r].toolSha EXCEPT ![t] = op[r].release]
        /\ op'[r] = NoOperation
    BY <1>5, ToolPublishedTypes, PersistTypes
  <2>3. op'[r].pc = "idle" /\ UNCHANGED <<file, prev, swap, upset, astray>>
    BY <2>1, <2>2 DEF NoOperation, files, history
  <2>4. AgentSums(r)' /\ (crashes = 0 => Known(r)')
    BY <2>1, <2>2, <2>3 DEF Checksums, AgentSums, Known, Named, Slots, RollingBack, Misled
  <2>5. /\ mem'[r].tool[t] = op[r].release /\ mem'[r].toolSha[t] = op[r].release
        /\ \A u \in Tools \ {t} : mem'[r].tool[u] = mem[r].tool[u]
                                  /\ mem'[r].toolSha[u] = mem[r].toolSha[u]
    BY <1>2, <2>2
  <2>6. ToolSums(r)' /\ (crashes = 0 => ToolSlots(r)')
    <3>1. ToolSums(r)'
      BY <2>1, <2>2, <2>3, <2>5 DEF Checksums, ToolSums, Replacing
    <3>2. crashes = 0 => ToolSlots(r)'
      BY <2>1, <2>2, <2>3, <2>5 DEF ToolSlots, Replacing
    <3> QED
      BY <3>1, <3>2
  <2>7. ASSUME crashes = 0, NEW u \in Tools PROVE mem'[r].tool[u] >= mem[r].tool[u]
    <3>1. op[r].release > mem[r].tool[t]
      BY <2>1, <2>7 DEF ToolSlots
    <3> QED
      BY <1>2, <1>3, <2>2, <2>5, <3>1
  <2> QED
    BY <2>4, <2>6, <2>7 DEF Checksums
<1> QED
  BY <1>4, <1>5

(* A replica that begins an operation. *)
LEMMA BeginSteps ==
  ASSUME Types, NEW r \in Replicas, Checksums(r),
         crashes = 0 => Known(r) /\ ToolSlots(r),
         \/ \E v \in Releases : PublishBegin(r, v)
         \/ \E t \in Tools, v \in Versions : PublishToolBegin(r, t, v)
         \/ RollbackBegin(r)
  PROVE  /\ Checksums(r)' /\ (crashes = 0 => Known(r)' /\ ToolSlots(r)')
         /\ UNCHANGED <<mem, node, crashes>>
<1>1. mem[r] \in Manifest /\ op[r] \in Operation /\ OpShape(r)
      /\ op \in [Replicas -> Operation]
  BY TypesParts
<1>2. ASSUME NEW v \in Releases, PublishBegin(r, v)
      PROVE  /\ Checksums(r)' /\ (crashes = 0 => Known(r)' /\ ToolSlots(r)')
             /\ UNCHANGED <<mem, node, crashes>>
  <2>1. op[r].pc = "idle" /\ UNCHANGED <<files, toolFile, mem, node, troubles, crashes, history>>
        /\ op' = [op EXCEPT ![r] = [NoOperation EXCEPT !.pc = "rotate", !.release = v]]
    BY <1>2 DEF PublishBegin, At
  <2>2. op'[r].pc = "rotate" /\ op'[r].kept = None
    BY <1>1, <2>1 DEF NoOperation
  <2>3. UNCHANGED <<file, prev, swap, upset, astray>>
    BY <2>1 DEF files, history
  <2>4. AgentSums(r)' /\ (crashes = 0 => Known(r)')
    BY <2>1, <2>2, <2>3 DEF Checksums, AgentSums, Known, Named, Slots, RollingBack, Misled
  <2>5. ToolSums(r)' /\ (crashes = 0 => ToolSlots(r)')
    BY <2>1, <2>2, ToolsUnmoved DEF Checksums
  <2> QED
    BY <2>1, <2>4, <2>5 DEF Checksums
<1>3. ASSUME NEW t \in Tools, NEW v \in Versions, PublishToolBegin(r, t, v)
      PROVE  /\ Checksums(r)' /\ (crashes = 0 => Known(r)' /\ ToolSlots(r)')
             /\ UNCHANGED <<mem, node, crashes>>
  <2>1. op[r].pc = "idle" /\ UNCHANGED <<files, toolFile, mem, node, troubles, crashes, history>>
        /\ v > mem[r].tool[t]
        /\ op' = [op EXCEPT ![r] = [NoOperation EXCEPT !.pc = "tool", !.release = v, !.tool = t]]
    BY <1>3 DEF PublishToolBegin, At
  <2>2. op'[r].pc = "tool" /\ op'[r].kept = None /\ op'[r].release = v /\ op'[r].tool = t
    BY <1>1, <2>1 DEF NoOperation
  <2>3. UNCHANGED <<file, prev, swap, upset, astray>>
    BY <2>1 DEF files, history
  <2>4. AgentSums(r)' /\ (crashes = 0 => Known(r)')
    BY <2>1, <2>2, <2>3 DEF Checksums, AgentSums, Known, Named, Slots, RollingBack, Misled
  <2>5. ToolSums(r)' /\ (crashes = 0 => ToolSlots(r)')
    BY <2>1, <2>2 DEF Checksums, ToolSums, ToolSlots, Replacing
  <2> QED
    BY <2>1, <2>4, <2>5 DEF Checksums
<1>4. CASE RollbackBegin(r)
  <2>1. op[r].pc = "idle" /\ UNCHANGED <<files, toolFile, mem, node, crashes>>
        /\ Goto(r, "aside") /\ "aside" \in Steps /\ mem[r].prevVersion # None /\ prev # None
    BY <1>4 DEF RollbackBegin, At, Steps
  <2>2. op'[r].pc = "aside" /\ op'[r].kept = op[r].kept
    BY <2>1, GotoTypes
  <2>3. UNCHANGED <<file, prev, swap, upset>> /\ astray' = astray \cup upset
    BY <1>4 DEF RollbackBegin, files
  <2>4. AgentSums(r)'
    <3>1. ~Misled' => upset = {} /\ ~Misled
      BY <2>3 DEF Misled
    <3> QED
      BY <2>1, <2>2, <2>3, <3>1 DEF Checksums, AgentSums, RollingBack
  <2>5. crashes = 0 => Known(r)'
    <3>1. Named(mem[r])' <=> Named(mem[r])
      BY <2>1 DEF Named
    <3>2. crashes = 0 /\ "failed" \notin astray' => Slots(r)'
      BY <2>1, <2>2, <2>3 DEF Known, Slots, RollingBack
    <3>3. astray' = {} => astray = {}
      BY <2>3
    <3> QED
      BY <3>1, <3>2, <3>3 DEF Known
  <2>6. ToolSums(r)' /\ (crashes = 0 => ToolSlots(r)')
    BY <2>1, <2>2, ToolsUnmoved DEF Checksums
  <2> QED
    BY <2>1, <2>4, <2>5, <2>6 DEF Checksums
<1> QED
  BY <1>2, <1>3, <1>4

(* A replica that dies and starts again. *)
LEMMA CrashStep ==
  ASSUME Types, NEW r \in Replicas, Crash(r)
  PROVE  Checksums(r)' /\ crashes' # 0
<1> DEFINE l == LoadFromDisk(disk)
<1>1. /\ l \in Manifest /\ (l.version # None => l.sha = file)
      /\ (l.prevVersion # None => l.prevSha = prev)
      /\ \A t \in Tools : l.tool[t] # None => l.toolSha[t] = toolFile[t]
  BY LoadTypes
<1>2. mem' = [mem EXCEPT ![r] = l] /\ op' = [op EXCEPT ![r] = NoOperation]
      /\ UNCHANGED <<files, toolFile>> /\ crashes' = crashes + 1
  BY DEF Crash
<1> HIDE DEF l
<1>3. mem \in [Replicas -> Manifest] /\ op \in [Replicas -> Operation] /\ crashes \in Nat
  BY TypesParts
<1>4. mem'[r] = l /\ op'[r].pc = "idle" /\ UNCHANGED <<file, prev>>
  BY <1>2, <1>3 DEF NoOperation, files
<1> QED
  BY <1>1, <1>2, <1>3, <1>4 DEF Checksums, AgentSums, ToolSums, Replacing, RollingBack

----------------------------------------------------------------------------
(* What the nodes were told and claim.                                     *)

(* Versions are numbers. *)
LEMMA VersionTypes ==
  ASSUME Types, NEW r \in Replicas, NEW n \in Nodes, NEW t \in Tools
  PROVE  /\ mem[r].tool[t] \in Nat /\ claims[n][t] \in Nat /\ saved[n] \in Nat
         /\ sync[n].m.tool[t] \in Nat /\ None \in Nat
<1>1. Versions \cup {None} \subseteq Nat
  BY UpdateAssumption DEF Versions, None
<1>2. mem[r] \in Manifest /\ sync[n].m \in Manifest
      /\ claims[n][t] \in Versions \cup {None} /\ saved[n] \in Versions \cup {None}
  BY TypesParts
<1>3. mem[r].tool[t] \in Versions \cup {None} /\ sync[n].m.tool[t] \in Versions \cup {None}
  BY <1>2 DEF Manifest
<1> QED
  BY <1>1, <1>2, <1>3

(* They stay right when the manifest's versions of the tools go up. *)
LEMMA NodesUnmoved ==
  ASSUME Types, Types', NEW r \in Replicas, NEW n \in Nodes, UNCHANGED node,
         astray \subseteq astray',
         \A t \in Tools : mem'[r].tool[t] >= mem[r].tool[t],
         ToldRight(r, n), NodeHonest(r, n)
  PROVE  ToldRight(r, n)' /\ NodeHonest(r, n)'
<1>1. UNCHANGED <<folder, claims, saved, sync>>
  BY DEF node
<1>2. ASSUME NEW t \in Tools
      PROVE  /\ mem[r].tool[t] \in Nat /\ mem'[r].tool[t] \in Nat
             /\ claims[n][t] \in Nat /\ saved[n] \in Nat /\ sync[n].m.tool[t] \in Nat
  <2>1. /\ mem[r].tool[t] \in Nat /\ claims[n][t] \in Nat /\ saved[n] \in Nat
        /\ sync[n].m.tool[t] \in Nat
    BY VersionTypes
  <2>2. Versions \cup {None} \subseteq Nat
    BY UpdateAssumption DEF Versions, None
  <2>3. mem'[r] \in Manifest
    BY DEF Types, TypeOK
  <2>4. mem'[r].tool[t] \in Versions \cup {None}
    BY <2>3 DEF Manifest
  <2> QED
    BY <2>1, <2>2, <2>4
<1>3. ToldRight(r, n)'
  <2>1. astray' = {} => astray = {}
    OBVIOUS
  <2> QED
    BY <1>1, <1>2, <2>1 DEF ToldRight, Named
<1>4. ASSUME NEW t \in Tools, NEW v \in Nat, Honest(r, n, t, v) PROVE Honest(r, n, t, v)'
  BY <1>1, <1>2, <1>4 DEF Honest
<1>5. NodeHonest(r, n)'
  <2> SUFFICES ASSUME NEW t \in Tools
               PROVE  /\ claims[n][t] <= mem'[r].tool[t] /\ Honest(r, n, t, claims[n][t])'
                      /\ t = "bin" => saved[n] <= claims[n][t] /\ Honest(r, n, t, saved[n])'
    BY <1>1 DEF NodeHonest
  <2>1. /\ claims[n][t] <= mem[r].tool[t] /\ Honest(r, n, t, claims[n][t])
        /\ t = "bin" => saved[n] <= claims[n][t] /\ Honest(r, n, t, saved[n])
    BY DEF NodeHonest
  <2>2. claims[n][t] \in Nat /\ saved[n] \in Nat
        /\ mem[r].tool[t] \in Nat /\ mem'[r].tool[t] \in Nat
    BY <1>2
  <2>3. claims[n][t] <= mem'[r].tool[t]
    BY <2>1, <2>2
  <2>4. Honest(r, n, t, claims[n][t])'
    BY <1>1, <2>1, <2>2, <1>2 DEF Honest
  <2>5. t = "bin" => Honest(r, n, t, saved[n])'
    BY <1>1, <2>1, <2>2, <1>2 DEF Honest
  <2> QED
    BY <2>1, <2>3, <2>4, <2>5
<1> QED
  BY <1>3, <1>5

(* What a node fetches is what is offered, as no manifest that it was told *)
(* of can be ahead of the file.                                            *)
LEMMA FetchesCurrent ==
  ASSUME Types, NEW r \in Replicas, NEW n \in Nodes, NEW t \in Tools,
         ToolSlots(r), ToldRight(r, n), NodeHonest(r, n), Fetches(n, t)
  PROVE  /\ toolFile[t] = mem[r].tool[t] /\ sync[n].m.tool[t] = mem[r].tool[t]
         /\ claims[n][t] < mem[r].tool[t]
<1>1. /\ mem[r].tool[t] \in Nat /\ claims[n][t] \in Nat /\ sync[n].m.tool[t] \in Nat
  BY VersionTypes
<1>2. sync[n].m.tool[t] # None /\ sync[n].m.tool[t] # claims[n][t]
      /\ toolFile[t] = sync[n].m.toolSha[t]
  BY DEF Fetches, NeedsTool
<1>3. toolFile[t] = sync[n].m.tool[t] /\ sync[n].m.tool[t] <= mem[r].tool[t]
  BY <1>2 DEF ToldRight
<1>4. ~Replacing(r, t)
  <2> SUFFICES ASSUME Replacing(r, t) PROVE FALSE
    OBVIOUS
  <2>1. toolFile[t] = op[r].release /\ op[r].release > mem[r].tool[t]
    BY DEF Replacing, ToolSlots
  <2> QED
    BY <1>1, <1>3, <2>1
<1>5. toolFile[t] = mem[r].tool[t]
  BY <1>4 DEF ToolSlots
<1>6. claims[n][t] <= mem[r].tool[t]
  BY DEF NodeHonest
<1> QED
  BY <1>1, <1>2, <1>3, <1>5, <1>6

(* A node's own steps. *)
LEMMA NodeStaysRight ==
  ASSUME Types, NEW r \in Replicas, NEW n \in Nodes, Replicas = {r},
         Known(r), ToolSlots(r), ToldRight(r, n), NodeHonest(r, n),
         NodeAction(n)
  PROVE  ToldRight(r, n)' /\ NodeHonest(r, n)'
<1>1. UNCHANGED <<mem, astray>>
  BY NodeStoreKept
<1>2. /\ folder \in [Nodes -> [Tools -> ToolContent]]
      /\ claims \in [Nodes -> [Tools -> Versions \cup {None}]]
      /\ saved \in [Nodes -> Versions \cup {None}]
      /\ sync \in [Nodes -> [pc: {"none", "lib", "bin", "agent"}, m: Manifest]]
  BY TypesParts
<1>3. ToldRight(r, n)'
  <2>1. sync'[n].m \in {sync[n].m, Empty, mem[r]}
    <3>1. CASE UNCHANGED sync
      BY <3>1
    <3>2. CASE \/ \E t \in Tools : sync' = [sync EXCEPT ![n].pc = After(t)]
               \/ sync' = [sync EXCEPT ![n] = NoSync]
               \/ \E s \in Replicas :
                    sync' = [sync EXCEPT ![n] = [pc |-> IF Tools = {} THEN "agent" ELSE "lib",
                                                 m |-> mem[s]]]
      BY <3>2, SyncTypes
    <3>3. HalfExtract(n) => "bin" \in Tools
      BY UpdateAssumption, TypesParts DEF HalfExtract, Fetches, SyncShape
    <3>4. ~UNCHANGED sync =>
               \/ \E t \in Tools : sync' = [sync EXCEPT ![n].pc = After(t)]
               \/ sync' = [sync EXCEPT ![n] = NoSync]
               \/ \E s \in Replicas :
                    sync' = [sync EXCEPT ![n] = [pc |-> IF Tools = {} THEN "agent" ELSE "lib",
                                                 m |-> mem[s]]]
      BY <3>3 DEF NodeAction, NodeStep, Heartbeat, SyncTool, SkipTool, SyncAgent,
                  HalfExtract, AgentRestart
    <3> QED
      BY <3>1, <3>2, <3>4
  <2>2. CASE sync'[n].m = sync[n].m
    BY <1>1, <2>2 DEF ToldRight, Named
  <2>3. CASE sync'[n].m = Empty
    <3>1. Empty.version = None /\ \A t \in Tools : Empty.tool[t] = None
      BY DEF Empty, NoTools
    <3>2. \A t \in Tools : mem[r].tool[t] \in Nat /\ 0 <= mem[r].tool[t]
      BY VersionTypes
    <3> QED
      BY <1>1, <2>3, <3>1, <3>2 DEF ToldRight, Named, None
  <2>4. CASE sync'[n].m = mem[r]
    <3>1. \A t \in Tools : mem[r].tool[t] \in Nat
      BY VersionTypes
    <3> QED
      BY <1>1, <2>4, <3>1 DEF ToldRight, Known, Named, ToolSlots
  <2> QED
    BY <2>1, <2>2, <2>3, <2>4
<1>4. ASSUME NEW t \in Tools
      PROVE  /\ claims'[n][t] <= mem[r].tool[t]
             /\ \/ claims'[n][t] = None \/ claims'[n][t] = folder'[n][t]
                \/ claims'[n][t] < mem[r].tool[t]
             /\ t = "bin" =>
                  /\ saved'[n] <= claims'[n][t]
                  /\ \/ saved'[n] = None \/ saved'[n] = folder'[n][t]
                     \/ saved'[n] < mem[r].tool[t]
  <2>1. /\ mem[r].tool[t] \in Nat /\ claims[n][t] \in Nat /\ saved[n] \in Nat
        /\ None \in Nat /\ None <= mem[r].tool[t]
    BY VersionTypes DEF None
  <2>2. /\ claims[n][t] <= mem[r].tool[t]
        /\ \/ claims[n][t] = None \/ claims[n][t] = folder[n][t]
           \/ claims[n][t] < mem[r].tool[t]
        /\ t = "bin" =>
             /\ saved[n] <= claims[n][t]
             /\ \/ saved[n] = None \/ saved[n] = folder[n][t] \/ saved[n] < mem[r].tool[t]
    BY DEF NodeHonest, Honest
  <2> DEFINE Right == /\ claims'[n][t] <= mem[r].tool[t]
                      /\ \/ claims'[n][t] = None \/ claims'[n][t] = folder'[n][t]
                         \/ claims'[n][t] < mem[r].tool[t]
                      /\ t = "bin" =>
                           /\ saved'[n] <= claims'[n][t]
                           /\ \/ saved'[n] = None \/ saved'[n] = folder'[n][t]
                              \/ saved'[n] < mem[r].tool[t]
  <2>3. ASSUME UNCHANGED <<folder, claims, saved>> PROVE Right
    BY <2>2, <2>3
  <2>4. ASSUME claims' = Restarted(n), UNCHANGED <<folder, saved>> PROVE Right
    <3>1. claims'[n][t] = IF t = "bin" THEN saved[n] ELSE None
      BY <2>4, RestartedTypes
    <3> QED
      BY <2>1, <2>2, <2>4, <3>1
  <2>5. ASSUME NEW u \in Tools, SyncTool(n, u) PROVE Right
    <3>1. /\ Fetches(n, u) /\ folder' = [folder EXCEPT ![n][u] = toolFile[u]]
          /\ claims' = [claims EXCEPT ![n][u] = sync[n].m.tool[u]]
          /\ \/ UNCHANGED saved
             \/ u = "bin" /\ saved' = [saved EXCEPT ![n] = sync[n].m.tool[u]]
      BY <2>5 DEF SyncTool
    <3>2. /\ toolFile[u] = mem[r].tool[u] /\ sync[n].m.tool[u] = mem[r].tool[u]
          /\ claims[n][u] < mem[r].tool[u]
      BY <3>1, FetchesCurrent
    <3>3. CASE u = t
      <4>1. folder'[n][t] = mem[r].tool[t] /\ claims'[n][t] = mem[r].tool[t]
        BY <1>2, <3>1, <3>2, <3>3
      <4>2. saved'[n] = saved[n] \/ saved'[n] = mem[r].tool[t]
        BY <1>2, <3>1, <3>2, <3>3
      <4> QED
        BY <2>1, <2>2, <4>1, <4>2
    <3>4. CASE u # t
      <4>1. folder'[n][t] = folder[n][t] /\ claims'[n][t] = claims[n][t]
        BY <1>2, <3>1, <3>4
      <4>2. t = "bin" => saved'[n] = saved[n]
        BY <3>1, <3>4
      <4> QED
        BY <2>2, <4>1, <4>2
    <3> QED
      BY <3>3, <3>4
  <2>6. ASSUME HalfExtract(n) PROVE Right
    <3>1. Fetches(n, "bin") /\ UNCHANGED <<claims, saved>>
          /\ folder' = [folder EXCEPT ![n]["bin"] = Junk]
      BY <2>6 DEF HalfExtract
    <3>2. CASE t = "bin"
      <4>1. claims[n][t] < mem[r].tool[t]
        BY <3>1, <3>2, FetchesCurrent
      <4> QED
        BY <2>1, <2>2, <3>1, <3>2, <4>1
    <3>3. CASE t # "bin"
      <4>1. folder'[n][t] = folder[n][t]
        BY <1>2, <3>1, <3>3
      <4> QED
        BY <2>2, <3>1, <3>3, <4>1
    <3> QED
      BY <3>2, <3>3
  <2>7. ASSUME AgentRestart(n) PROVE Right
    <3>1. /\ claims' = Restarted(n) /\ UNCHANGED saved
          /\ \/ UNCHANGED folder
             \/ Fetches(n, "bin") /\ folder' = [folder EXCEPT ![n]["bin"] = Junk]
      BY <2>7 DEF AgentRestart
    <3>2. claims'[n][t] = IF t = "bin" THEN saved[n] ELSE None
      BY <3>1, RestartedTypes
    <3>3. CASE t = "bin" /\ ~UNCHANGED folder
      <4>1. claims[n][t] < mem[r].tool[t]
        BY <3>1, <3>3, FetchesCurrent
      <4> QED
        BY <2>1, <2>2, <3>1, <3>2, <3>3, <4>1
    <3>4. CASE t # "bin"
      BY <2>1, <3>2, <3>4
    <3> QED
      BY <2>4, <3>1, <3>3, <3>4
  <2>8. (\E s \in Replicas : Heartbeat(n, s)) \/ (\E u \in Tools : SkipTool(n, u)) =>
          UNCHANGED <<folder, claims, saved>>
    BY DEF Heartbeat, SkipTool
  <2>9. SyncAgent(n) => UNCHANGED <<folder, saved>> /\ (UNCHANGED claims \/ claims' = Restarted(n))
    BY DEF SyncAgent
  <2>10. Right
    BY <2>3, <2>4, <2>5, <2>6, <2>7, <2>8, <2>9 DEF NodeAction, NodeStep
  <2> QED
    BY <2>10
<1>5. NodeHonest(r, n)'
  BY <1>1, <1>4 DEF NodeHonest, Honest
<1> QED
  BY <1>3, <1>5

----------------------------------------------------------------------------
(* The invariant holds.                                                    *)

(* Every step keeps the invariant. *)
LEMMA InvStep ==
  ASSUME Alone, Inv, [Next]_vars
  PROVE  Inv'
<1>1. PICK r : Replicas = {r}
  BY DEF Alone
<1>2. r \in Replicas /\ Types /\ Checksums(r)
      /\ (crashes = 0 => /\ Known(r) /\ ToolSlots(r)
                         /\ \A n \in Nodes : ToldRight(r, n) /\ NodeHonest(r, n))
  BY <1>1 DEF Inv, UndisturbedInv
<1> DEFINE Kept == /\ Checksums(r)'
                   /\ crashes' = 0 =>
                        /\ Known(r)' /\ ToolSlots(r)'
                        /\ \A n \in Nodes : ToldRight(r, n)' /\ NodeHonest(r, n)'
<1>3. Types'
  <2>1. ASSUME UNCHANGED vars PROVE Types'
    BY <1>2, <2>1 DEF Types, TypeOK, OpShape, SyncShape, vars, files, store, node, history
  <2> QED
    BY <1>2, <2>1, BeginTypes, ReplicaTypes, NodeTypes DEF Next, NodeAction
<1>4. ASSUME UNCHANGED <<node, crashes>>, astray \subseteq astray', Checksums(r)',
             crashes = 0 => Known(r)' /\ ToolSlots(r)',
             crashes = 0 => \A t \in Tools : mem'[r].tool[t] >= mem[r].tool[t]
      PROVE  Kept
  BY <1>2, <1>3, <1>4, NodesUnmoved
<1>5. ASSUME mem'[r].tool = mem[r].tool PROVE \A t \in Tools : mem'[r].tool[t] >= mem[r].tool[t]
  <2>1. mem[r] \in Manifest /\ Versions \cup {None} \subseteq Nat
    BY <1>2, TypesParts, UpdateAssumption DEF Versions, None
  <2>2. \A t \in Tools : mem[r].tool[t] \in Nat
    BY <2>1 DEF Manifest
  <2> QED
    BY <1>5, <2>2
<1>6. ASSUME \/ \E v \in Releases : PublishBegin(r, v)
             \/ \E t \in Tools, v \in Versions : PublishToolBegin(r, t, v)
             \/ RollbackBegin(r)
      PROVE  Kept
  <2>1. /\ Checksums(r)' /\ (crashes = 0 => Known(r)' /\ ToolSlots(r)')
        /\ UNCHANGED <<mem, node, crashes>>
    BY <1>2, <1>6, BeginSteps
  <2>2. astray \subseteq astray'
    BY <1>6 DEF PublishBegin, PublishToolBegin, RollbackBegin, history
  <2> QED
    BY <1>4, <1>5, <2>1, <2>2
<1>7. ASSUME ReplicaStep(r) PROVE Kept
  <2>1. UNCHANGED <<node, publishes, crashes, astray>>
    BY <1>2, <1>7, ReplicaTroubles DEF ReplicaStep
  <2>2. ASSUME \/ RotateBegin(r) \/ RotateEnd(r) \/ InstallPayload(r) \/ RemoveStale(r)
               \/ PublishPersist(r) \/ RotateFails(r) \/ (InstallFails(r) /\ At(r, "install"))
               \/ MoveAside(r) \/ Promote(r) \/ Demote(r) \/ RollbackPersist(r),
               UNCHANGED toolFile
        PROVE  Kept
    <3>1. /\ AgentSums(r)' /\ (crashes = 0 => Known(r)')
          /\ mem'[r].tool = mem[r].tool /\ mem'[r].toolSha = mem[r].toolSha
          /\ op[r].pc \notin {"tool", "publishTool"} /\ op'[r].pc \notin {"tool", "publishTool"}
      BY <1>2, <2>1, <2>2, AgentSteps DEF Checksums
    <3>2. (ToolSums(r) => ToolSums(r)') /\ (ToolSlots(r) => ToolSlots(r)')
      BY <1>2, <2>2, <3>1, ToolsUnmoved
    <3> QED
      BY <1>2, <1>4, <1>5, <2>1, <3>1, <3>2 DEF Checksums
  <2>3. ASSUME InstallTool(r) \/ PublishToolPersist(r) PROVE Kept
    <3>1. /\ Checksums(r)' /\ (crashes = 0 => Known(r)' /\ ToolSlots(r)')
          /\ crashes = 0 => \A t \in Tools : mem'[r].tool[t] >= mem[r].tool[t]
      BY <1>2, <2>1, <2>3, ToolSteps
    <3> QED
      BY <1>4, <2>1, <3>1
  <2>4. ASSUME InstallFails(r), At(r, "tool"), UNCHANGED toolFile PROVE Kept
    <3>1. /\ Checksums(r)' /\ (crashes = 0 => Known(r)' /\ ToolSlots(r)') /\ UNCHANGED mem
      BY <1>2, <2>1, <2>4, ToolFails
    <3> QED
      BY <1>4, <1>5, <2>1, <3>1
  <2>5. InstallFails(r) => At(r, "install") \/ At(r, "tool")
    BY DEF InstallFails
  <2> HIDE DEF Kept
  <2> QED
    BY <1>7, <2>2, <2>3, <2>4, <2>5 DEF ReplicaStep
<1>8. ASSUME Crash(r) PROVE Kept
  BY <1>2, <1>8, CrashStep
<1>9. ASSUME NEW i \in Nodes, NodeAction(i) PROVE Kept
  <2>1. UNCHANGED <<file, prev, swap, toolFile, mem, op, crashes, upset, astray>>
    BY <1>2, <1>9, NodeStoreKept
  <2>2. Checksums(r)'
    BY <1>2, <2>1 DEF Checksums, AgentSums, ToolSums, Replacing, RollingBack, Misled
  <2>3. crashes = 0 => Known(r)' /\ ToolSlots(r)'
    BY <1>2, <2>1 DEF Known, Named, Slots, ToolSlots, Replacing
  <2>4. ASSUME crashes = 0, NEW n \in Nodes PROVE ToldRight(r, n)' /\ NodeHonest(r, n)'
    <3>1. CASE n = i
      BY <1>1, <1>2, <1>9, <2>4, <3>1, NodeStaysRight
    <3>2. CASE n # i
      <4>1. folder'[n] = folder[n] /\ claims'[n] = claims[n] /\ saved'[n] = saved[n]
            /\ sync'[n] = sync[n]
        <5>1. /\ folder \in [Nodes -> [Tools -> ToolContent]]
              /\ claims \in [Nodes -> [Tools -> Versions \cup {None}]]
              /\ saved \in [Nodes -> Versions \cup {None}]
              /\ sync \in [Nodes -> [pc: {"none", "lib", "bin", "agent"}, m: Manifest]]
          BY <1>2, TypesParts
        <5>2. \A c : c = Restarted(i) => c[n] = claims[n]
          BY <1>2, <3>2, RestartedTypes
        <5>3. (\E s \in Replicas : Heartbeat(i, s)) \/ (\E t \in Tools : SkipTool(i, t))
                => folder'[n] = folder[n] /\ claims'[n] = claims[n] /\ saved'[n] = saved[n]
                   /\ sync'[n] = sync[n]
          BY <3>2, <5>1 DEF Heartbeat, SkipTool
        <5>4. (\E t \in Tools : SyncTool(i, t)) \/ HalfExtract(i)
                => folder'[n] = folder[n] /\ claims'[n] = claims[n] /\ saved'[n] = saved[n]
                   /\ sync'[n] = sync[n]
          BY <3>2, <5>1 DEF SyncTool, HalfExtract
        <5>5. SyncAgent(i) \/ AgentRestart(i)
                => folder'[n] = folder[n] /\ claims'[n] = claims[n] /\ saved'[n] = saved[n]
                   /\ sync'[n] = sync[n]
          BY <3>2, <5>1, <5>2 DEF SyncAgent, AgentRestart
        <5> QED
          BY <1>9, <5>3, <5>4, <5>5 DEF NodeAction, NodeStep
      <4> QED
        BY <1>2, <2>1, <2>4, <4>1 DEF ToldRight, Named, NodeHonest, Honest
    <3> QED
      BY <3>1, <3>2
  <2> QED
    BY <2>1, <2>2, <2>3, <2>4
<1>10. ASSUME UNCHANGED vars PROVE Kept
  <2>1. UNCHANGED <<file, prev, swap, toolFile, mem, op, crashes, troubles, node, upset, astray>>
    BY <1>10 DEF vars, files, store, history
  <2>2. Checksums(r)' /\ (crashes = 0 => Known(r)' /\ ToolSlots(r)')
    BY <1>2, <2>1 DEF Checksums, AgentSums, ToolSums, Replacing, Misled, RollingBack, Known, Named, Slots,
                       ToolSlots
  <2> QED
    BY <1>4, <1>5, <2>1, <2>2
<1>11. Kept
  <2>1. \/ \E s \in Replicas :
             \/ \E v \in Releases : PublishBegin(s, v)
             \/ \E t \in Tools, v \in Versions : PublishToolBegin(s, t, v)
             \/ RollbackBegin(s) \/ ReplicaStep(s) \/ Crash(s)
        \/ \E n \in Nodes : NodeAction(n)
        \/ UNCHANGED vars
    BY DEF Next, NodeAction
  <2> HIDE DEF Kept
  <2> QED
    BY <1>1, <1>6, <1>7, <1>8, <1>9, <1>10, <2>1
<1> QED
  BY <1>1, <1>3, <1>11 DEF Inv, UndisturbedInv

(* It holds at first. *)
LEMMA InitInv ==
  ASSUME Init
  PROVE  Inv
<1>1. Types
  BY InitTypes
<1>2. Empty.version = None /\ Empty.prevVersion = None /\ Empty.tool = NoTools
      /\ NoOperation.pc = "idle" /\ NoSync.m = Empty
  BY DEF Empty, NoOperation, NoSync
<1>3. \A t \in Tools : NoTools[t] = None
  BY DEF NoTools
<1>4. \A r \in Replicas : mem[r] = Empty /\ op[r] = NoOperation
  BY DEF Init
<1>5. ASSUME NEW r \in Replicas PROVE Checksums(r) /\ Known(r) /\ ToolSlots(r)
  <2>1. toolFile = NoTools
    BY DEF Init
  <2> QED
    BY <1>2, <1>3, <1>4, <2>1
    DEF Checksums, AgentSums, ToolSums, Replacing, RollingBack, Misled, Known, Named, Slots,
        ToolSlots
<1>6. ASSUME NEW r \in Replicas, NEW n \in Nodes PROVE ToldRight(r, n) /\ NodeHonest(r, n)
  <2>1. sync[n] = NoSync /\ saved[n] = None /\ claims[n] = NoTools
    BY DEF Init
  <2> QED
    BY <1>2, <1>3, <1>4, <2>1 DEF ToldRight, Named, NodeHonest, Honest, None
<1> QED
  BY <1>1, <1>5, <1>6 DEF Inv, UndisturbedInv

(* It always holds. *)
LEMMA InvHolds == ASSUME Alone PROVE Spec => []Inv
<1>1. Init => Inv
  BY InitInv
<1>2. Inv /\ [Next]_vars => Inv'
  BY InvStep
<1> QED
  BY <1>1, <1>2, PTL DEF Spec

----------------------------------------------------------------------------
(* The properties.                                                         *)

(* The served files are those whose checksums the manifest gives, and the  *)
(* rollback slot holds the release the manifest names and has its checksum,*)
(* after any sequence of publishes, failing ones, rollbacks, syncs and     *)
(* deaths of the replica, with the exceptions that PayloadsMatchManifest   *)
(* names.                                                                  *)
THEOREM ManifestIsTrue == ASSUME Alone PROVE Spec => []PayloadsMatchManifest
<1>1. Inv => PayloadsMatchManifest
  <2> SUFFICES ASSUME Inv, AllIdle, NEW r \in Replicas
               PROVE  /\ mem[r].version # None /\ ~Misled => mem[r].sha = file
                      /\ \A t \in Tools :
                           mem[r].tool[t] # None => mem[r].toolSha[t] = toolFile[t]
                      /\ mem[r].prevVersion # None =>
                           /\ crashes = 0 /\ "failed" \notin upset \cup astray
                                => prev = mem[r].prevVersion
                           /\ upset = {} => mem[r].prevSha = prev
    BY DEF PayloadsMatchManifest
  <2>1. op[r].pc = "idle" /\ Checksums(r) /\ (crashes = 0 => Known(r))
    BY DEF Inv, UndisturbedInv, AllIdle, At
  <2>2. mem[r].prevVersion # None /\ crashes = 0 /\ "failed" \notin upset \cup astray
          => prev = mem[r].prevVersion
    BY <2>1 DEF Known, Slots
  <2> QED
    BY <2>1, <2>2 DEF Checksums, AgentSums, ToolSums, Replacing
<1> QED
  BY <1>1, InvHolds, PTL

(* A node that needs nothing has every tool that is offered, and whole,    *)
(* however often its syncs or its agent broke off (WorksWithWholeTools).   *)
THEOREM ToolsAreWhole == ASSUME Alone PROVE Spec => []WorksWithWholeTools
<1>1. Inv => WorksWithWholeTools
  <2> SUFFICES ASSUME Inv, crashes = 0, NEW r \in Replicas, NEW n \in Nodes, NEW t \in Tools,
                      mem[r].tool[t] # None, ~Needs(n, mem[r])
               PROVE  folder[n][t] = mem[r].tool[t]
    BY DEF WorksWithWholeTools
  <2>1. claims[n][t] = mem[r].tool[t]
    BY DEF Needs, NeedsTool
  <2>2. Honest(r, n, t, claims[n][t]) /\ Types
    BY DEF Inv, UndisturbedInv, NodeHonest
  <2>3. mem[r].tool[t] \in Nat
    BY <2>2, VersionTypes
  <2> QED
    BY <2>1, <2>2, <2>3 DEF Honest
<1> QED
  BY <1>1, InvHolds, PTL

(* A node only ever changes to the release its heartbeat named, although   *)
(* other releases may be published between that heartbeat and the download *)
(* (InstallsWhatWasOffered).                                               *)
THEOREM NodesInstallTheOffer == ASSUME Alone PROVE Spec => InstallsWhatWasOffered
<1>1. Inv /\ [Next]_vars =>
        [crashes = 0 /\ astray = {} =>
           \A n \in Nodes : runs'[n] # runs[n] => runs'[n] = sync[n].m.version]_vars
  <2> SUFFICES ASSUME Inv, Next, crashes = 0, astray = {}, NEW n \in Nodes, runs'[n] # runs[n]
               PROVE  runs'[n] = sync[n].m.version
    OBVIOUS
  <2>1. Types /\ runs \in [Nodes -> Content]
    BY TypesParts DEF Inv
  <2>2. PICK i \in Nodes : SyncAgent(i) /\ ~UNCHANGED runs
    <3>1. \A i \in Nodes : NodeAction(i) => SyncAgent(i) \/ UNCHANGED runs
      BY DEF NodeAction, NodeStep, Heartbeat, SyncTool, SkipTool, HalfExtract, AgentRestart
    <3>2. \A r \in Replicas : /\ \A v \in Releases : PublishBegin(r, v) => UNCHANGED runs
                              /\ \A t \in Tools, v \in Versions :
                                   PublishToolBegin(r, t, v) => UNCHANGED runs
                              /\ RollbackBegin(r) \/ ReplicaStep(r) \/ Crash(r) => UNCHANGED runs
      BY DEF PublishBegin, PublishToolBegin, RollbackBegin, ReplicaStep, Crash, node
    <3> QED
      BY <3>1, <3>2 DEF Next, NodeAction
  <2>3. NeedsAgent(i, sync[i].m) /\ file = sync[i].m.sha /\ runs' = [runs EXCEPT ![i] = file]
    BY <2>2 DEF SyncAgent
  <2>4. i = n /\ runs'[n] = sync[n].m.sha
    BY <2>1, <2>3
  <2>5. sync[n].m.version # None
    BY <2>3, <2>4 DEF NeedsAgent
  <2>6. \A r \in Replicas : ToldRight(r, n)
    BY DEF Inv, UndisturbedInv
  <2>7. sync[n].m.sha = sync[n].m.version
    BY <2>5, <2>6 DEF ToldRight, Named, Alone
  <2> QED
    BY <2>4, <2>7
<1>2. Spec => [][Next]_vars
  BY PTL DEF Spec
<1> QED
  BY <1>1, <1>2, InvHolds, PTL DEF InstallsWhatWasOffered
=============================================================================
