------------------------------ MODULE Admin_proofs ------------------------------
(***************************************************************************)
(* Proofs about Admin.  What the properties have in common: a handler that *)
(* is in service while another one does a step overlaps it (Serves), and   *)
(* an overlap stays one.  Every property has an invariant of its own that  *)
(* says what the handlers in service, and the dumps, have read, and which  *)
(* overlap explains it when that is no longer so.                          *)
(***************************************************************************)
EXTENDS Admin, FiniteSetTheorems, WellFoundedInduction, TLAPS

----------------------------------------------------------------------------
(* The types, row by row.                                                  *)

UserRow == [name: Names, role: {"admin", "viewer"}, pass: Nat]
SessionRow == [user: User, proof: Nat]
FlowRow == [name: FlowName, uses: {Nil, Custom}, flag: BOOLEAN]
JobRow == [flow: Flow, status: {"active", "over"}]

UserTable == [User -> UserRow \cup {NoUser}]
SessionTable == [Session -> SessionRow \cup {NoSession}]
FlowTable == [Flow -> FlowRow \cup {NoFlow}]
JobTable == [Request -> JobRow \cup {NoJob}]
CodeTable == [Request -> {"none", "open", "used", "expired"}]
NodeTable == [Request -> NodeName \cup {Nil}]
RunTable == [Request -> {"none", "queued", "running", "success", "failed"}]
Stages == {"none", "waiting", "loading", "staging", "pairing", "launching", "playing"}
CustomScript == {"gone", "ours", "theirs"}
BuiltinScript == {"gone", "older", "factory", "edited"}

RowsOK ==
  /\ users \in UserTable /\ sessions \in SessionTable /\ apiToken \in BOOLEAN
  /\ flows \in FlowTable /\ jobs \in JobTable
  /\ custom \in CustomScript /\ builtin \in BuiltinScript /\ series \in Flow \cup {Nil}
  /\ codes \in CodeTable /\ nodes \in NodeTable /\ runs \in RunTable
  /\ stage \in [Request -> Stages]

(* A dump: the tables it has reached are tables of the database, and they  *)
(* are the first ones.                                                     *)
TableName == {"flows", "users", "templates", "sessions", "jobs"}

FileOK(f) ==
  /\ f = [t \in TableName |-> f[t]]
  /\ Reached(f, "flows") => f["flows"] \in [flows: FlowTable, nodes: NodeTable]
  /\ Reached(f, "users") =>
       f["users"] \in [users: UserTable, apiToken: BOOLEAN, codes: CodeTable]
  /\ Reached(f, "templates") =>
       f["templates"] \in [custom: CustomScript, builtin: BuiltinScript,
                           series: Flow \cup {Nil}, runs: RunTable]
  /\ Reached(f, "sessions") => f["sessions"] \in SessionTable
  /\ Reached(f, "jobs") => f["jobs"] \in JobTable
  /\ Reached(f, "users") => Reached(f, "flows")
  /\ Reached(f, "templates") => Reached(f, "users")
  /\ Reached(f, "sessions") => Reached(f, "templates")
  /\ Reached(f, "jobs") => Reached(f, "sessions")

Reading(d) == d \in Dumps /\ req[d].pc = "table" /\ IsFile(d)

FilesOK ==
  /\ file = [d \in Request |-> file[d]]
  /\ \A d \in Request : IsFile(d) => FileOK(file[d])
  /\ \A d \in Request : Reading(d) => ~Reached(file[d], "jobs")
  /\ restored \subseteq [dump: Request, whole: BOOLEAN]

(* What handlers hold. *)
AccountOps == {"login", "password", "createUser", "deleteUser", "logout", "apiToken"}
CatalogOps ==
  {"createFlow", "updateFlow", "deleteFlow", "setDefault", "importFlow",
   "updateTemplate", "deleteTemplate", "createTemplate", "resetTemplate",
   "patchSeries", "patchJob", "finishedJob", "createJob"}
EnrolOps == {"pairingCode", "pair", "createNode", "deleteNode", "provision"}
BackupOps == {"manualDump", "scheduledDump", "deleteBackup", "restore"}

IsHandler(h) ==
  h = [op |-> h.op, pc |-> h.pc, on |-> h.on, with |-> h.with, seen |-> h.seen,
       after |-> h.after]

HandlersOK ==
  /\ req = [q \in Request |-> req[q]]
  /\ \A q \in Request :
       /\ IsHandler(req[q])
       /\ req[q].op = "none" <=> req[q].pc = "none"
       /\ req[q].after \subseteq Ended

ArgsOK(q) ==
  /\ Ops(q, {"login"}) => req[q].on \in User /\ req[q].seen \in Nat
  /\ Ops(q, {"password"}) => req[q].on \in User
  /\ Ops(q, {"createUser"}) =>
       req[q].on \in Names /\ req[q].with \in {"admin", "viewer"}
  /\ Ops(q, {"deleteUser"}) => req[q].on \in User
  /\ Ops(q, {"createFlow", "importFlow"}) => req[q].with \in {Nil, Custom}
  /\ Ops(q, {"createFlow", "importFlow"}) /\ req[q].pc = "insert" =>
       req[q].on \in FlowName
  /\ Ops(q, {"updateFlow"}) =>
       req[q].on \in Flow /\ req[q].with \in [name: FlowName, uses: {Nil, Custom}]
  /\ Ops(q, {"deleteFlow", "setDefault", "patchSeries", "patchJob", "createJob"}) =>
       req[q].on \in Flow
  /\ Ops(q, {"patchJob"}) => req[q].with \in Request
  /\ Ops(q, {"pair"}) => req[q].on \in Request /\ req[q].with \in NodeName
  /\ Ops(q, {"restore"}) => req[q].on \in Request

Types == RowsOK /\ FilesOK /\ HandlersOK /\ (\A q \in Request : ArgsOK(q)) /\ boots \in 0..MaxBoots

----------------------------------------------------------------------------
(* The invariant of each property.                                         *)

(* Flows: one flag; and a default flow that was never renamed is the row   *)
(* it was, here and in the dumps.                                          *)
OneFlag(table) == \A f, g \in Flow : table[f].flag /\ table[g].flag => f = g

FlagInv ==
  /\ OneFlag(flows)
  /\ \A d \in Request :
       IsFile(d) /\ Reached(file[d], "flows") => OneFlag(file[d]["flows"].flows)

DefaultRenamed ==
  \/ \E q \in Request : Ops(q, {"updateFlow"}) /\ req[q].seen = DefaultFlow
  \/ RestoredInPart

DefaultInv ==
  \/ DefaultRenamed
  \/ /\ flows[DefaultFlow].name = DefaultFlow
     /\ \A d \in Request :
          IsFile(d) /\ Reached(file[d], "flows") =>
            file[d]["flows"].flows[DefaultFlow].name = DefaultFlow
     /\ \A q \in Request :
          Ops(q, {"updateFlow", "deleteFlow"}) => req[q].on # DefaultFlow

(* Templates. *)
UsesCustom(table) == \E f \in Flow : table[f].uses = Custom

Torn(d) ==
  \E p \in Request : Ops(p, {"deleteTemplate", "restore"}) /\ Overlap(p, d)

RenderExcused ==
  \/ Race({"deleteTemplate", "restore"}, {"createFlow", "updateFlow", "importFlow"})
  \/ Race({"deleteTemplate"}, {"restore"})
  \/ \E p, q \in Request :
       Ops(p, {"deleteTemplate", "restore"}) /\ RestoredDump(q) /\ Overlap(p, q)
  \/ RestoredInPart

RenderRows == UsesCustom(flows) => custom # "gone"

RenderHandler(q) ==
  /\ Ops(q, {"createFlow", "importFlow"}) /\ req[q].pc = "insert"
     /\ req[q].with = Custom => custom # "gone"
  /\ At(q, "updateFlow", "write") /\ req[q].with.uses = Custom => custom # "gone"
  /\ At(q, "deleteTemplate", "write") => ~UsesCustom(flows)

RenderDump(d) ==
  IsFile(d) /\ Reached(file[d], "flows") /\ UsesCustom(file[d]["flows"].flows) =>
    /\ Reading(d) /\ ~Reached(file[d], "templates") => custom # "gone" \/ Torn(d)
    /\ Reached(file[d], "templates") => file[d]["templates"].custom # "gone" \/ Torn(d)

RenderInv ==
  \/ RenderExcused
  \/ /\ RenderRows
     /\ \A q \in Request : RenderHandler(q)
     /\ \A d \in Request : RenderDump(d)

(* References between tables. *)
JobsRefer(js, fs) == \A j \in Request : js[j] # NoJob => fs[js[j].flow] # NoFlow
SessionsRefer(ss, us) == \A s \in Session : ss[s] # NoSession => us[ss[s].user] # NoUser

Touched(d, ops) == \E q \in Request : Ops(q, ops) /\ Overlap(q, d)
JobWriters == {"createJob", "patchJob", "restore"}
SessionWriters == {"login", "restore"}

JobDump(d) ==
  IsFile(d) /\ Reached(file[d], "flows") =>
    /\ Reading(d) => JobsRefer(jobs, file[d]["flows"].flows) \/ Touched(d, JobWriters)
    /\ Reached(file[d], "jobs") =>
         JobsRefer(file[d]["jobs"], file[d]["flows"].flows) \/ Touched(d, JobWriters)

SessionDump(d) ==
  IsFile(d) /\ Reached(file[d], "users") =>
    /\ Reading(d) /\ ~Reached(file[d], "sessions") =>
         SessionsRefer(sessions, file[d]["users"].users) \/ Touched(d, SessionWriters)
    /\ Reached(file[d], "sessions") =>
         SessionsRefer(file[d]["sessions"], file[d]["users"].users) \/ Touched(d, SessionWriters)

ReferInv ==
  /\ JobsRefer(jobs, flows) /\ SessionsRefer(sessions, users)
  /\ \A d \in Request : JobDump(d) /\ SessionDump(d)

SpareInv ==
  \A q \in Request :
    At(q, "restore", "replay") /\ ActiveJobs # {} =>
      \E p \in Request : Ops(p, {"createJob", "finishedJob", "restore"}) /\ Overlap(p, q)

(* Accounts: a row's role is for life. *)
MadeViewer(u) == u \in Request /\ Ops(u, {"createUser"}) /\ req[u].with = "viewer"
RolesKept(table) ==
  \A u \in User :
    /\ table[u].role = "admin" => ~MadeViewer(u)
    /\ table[u].role = "viewer" => MadeViewer(u)
HasAdmin(table) == \E u \in User : table[u].role = "admin"

RoleInv ==
  /\ RolesKept(users)
  /\ \A d \in Request :
       IsFile(d) /\ Reached(file[d], "users") => RolesKept(file[d]["users"].users)

AdminExcused == Race({"deleteUser"}, {"deleteUser", "restore"}) \/ RestoredInPart

AdminInv ==
  \/ AdminExcused
  \/ /\ HasAdmin(users)
     /\ \A d \in Request :
          IsFile(d) /\ Reached(file[d], "users") => HasAdmin(file[d]["users"].users)
     /\ \A q \in Request :
          At(q, "deleteUser", "delete") =>
            \/ MadeViewer(req[q].on)
            \/ \E u \in User : u # req[q].on /\ users[u].role = "admin"

(* Sessions. *)
Crossed(p, u) == \E q \in Request : Repasses(q, u) /\ Overlap(p, q)
Carried(s, u) == \E p \in Request : (p = s \/ RestoredDump(p)) /\ Crossed(p, u)
LeftOpen(u, pcs) ==
  \E q \in Request : Ops(q, {"password"}) /\ req[q].on = u /\ req[q].pc \in pcs

(* The rows a request made, it made when it inserted them. *)
RowsMade(table) ==
  \A u \in Request : table[u] # NoUser => Ops(u, {"createUser"}) /\ req[u].pc # "insert"

MadeInv ==
  /\ RowsMade(users)
  /\ \A d \in Request :
       IsFile(d) /\ Reached(file[d], "users") => RowsMade(file[d]["users"].users)

(* The sessions ss are not older than the passwords us, or excused. *)
Excused(s, u, d, pcs) ==
  \/ Carried(s, u) \/ LeftOpen(u, pcs)
  \/ d \in Request /\ Crossed(d, u)

Proved(ss, us, d, pcs) ==
  \A s \in Session :
    ss[s] # NoSession =>
      ss[s].proof >= us[ss[s].user].pass \/ Excused(s, ss[s].user, d, pcs)

(* Nor is what logins in service have read. *)
LoginsProved(us, d) ==
  \A p \in Request :
    At(p, "login", "insert") =>
      \/ req[p].seen >= us[req[p].on].pass
      \/ Crossed(p, req[p].on)
      \/ d \in Request /\ Crossed(d, req[p].on)

(* What a dump has read of the users the sessions still to be read fit.  *)
UsersDumped(us, d) ==
  /\ Proved(sessions, us, d, {"cut"}) /\ LoginsProved(us, d)
  /\ \A u \in User : IsUser(u) => users[u].pass >= us[u].pass \/ Crossed(d, u)

PasswordDump(d) ==
  IsFile(d) /\ Reached(file[d], "users") =>
    /\ Reading(d) /\ ~Reached(file[d], "sessions") => UsersDumped(file[d]["users"].users, d)
    /\ Reached(file[d], "sessions") =>
         Proved(file[d]["sessions"], file[d]["users"].users, d, {"cut"})

SessionInv ==
  /\ Proved(sessions, users, Nil, {"revoke", "cut"})
  /\ LoginsProved(users, Nil)
  /\ \A d \in Request : PasswordDump(d)

(* Pairing and provisioning. *)
Answered(q) == Ops(q, {"pair"}) /\ req[q].seen = 1

CodeInv ==
  restored = {} =>
    /\ \A q \in Request :
         /\ codes[q] # "none" => req[q].op # "none"
         /\ stage[q] # "none" => req[q].op # "none"
         /\ stage[q] \in {"waiting", "loading", "staging", "pairing"} => codes[q] = "none"
         /\ Ops(q, {"pair"}) => codes[req[q].on] # "none"
         /\ Answered(q) => codes[req[q].on] = "used" /\ req[q].pc \in {"end", "cut"}
    /\ \A p, q \in Request :
         Answered(p) /\ Ops(q, {"pair"}) /\ p \in req[q].after => req[p].on # req[q].on

Told(q) == req[q].op # "none" /\ req[q].seen = 1
Pairing(q) == Ops(q, {"pair"}) /\ req[q].pc \in {"consume", "mark", "rollBack", "cut"}

ResidueInv ==
  restored = {} => \A q \in Request : nodes[q] # Nil => Told(q) \/ Pairing(q)

----------------------------------------------------------------------------
(* Handlers: what a step of one does to it, and what that is to the others.*)

(* One handler comes, or does a step; of the others none does.             *)
Serves(q) ==
  /\ \A p \in Request \ {q} : req'[p] = req[p]
  /\ req'[q].op # "none" /\ req'[q].pc # "none"
  /\ \/ req[q].op = "none" /\ req[q].pc = "none" /\ req'[q].after = Ended
     \/ /\ q \in InService
        /\ req'[q].op = req[q].op /\ req'[q].with = req[q].with
        /\ req'[q].after = req[q].after
        /\ Ops(q, {"importFlow"}) \/ req'[q].on = req[q].on
        /\ Ops(q, {"pair"}) \/ req'[q].seen = req[q].seen

(* What a request that comes holds, and one that goes on.                  *)
Comes(q, op, pc, on, with, seen) ==
  /\ Serves(q) /\ req[q].op = "none" /\ req[q].pc = "none"
  /\ req'[q] = [op |-> op, pc |-> pc, on |-> on, with |-> with, seen |-> seen,
                after |-> Ended]

GoesOn(q, pc) ==
  /\ Serves(q)
  /\ req'[q] = [op |-> req[q].op, pc |-> pc, on |-> req[q].on,
                with |-> req[q].with, seen |-> req[q].seen, after |-> req[q].after]

(* A request that comes is a handler with what it was given (Begin).       *)
LEMMA BeginServes ==
  ASSUME HandlersOK, NEW q \in Request, Arriving(q),
         NEW op, NEW pc, NEW on, NEW with, NEW seen,
         op # "none", pc # "none", Begin(q, op, pc, on, with, seen)
  PROVE  HandlersOK' /\ Comes(q, op, pc, on, with, seen)
<1> DEFINE h == [op |-> op, pc |-> pc, on |-> on, with |-> with, seen |-> seen,
                 after |-> Ended]
<1>1. IsHandler(h)
  BY DEF IsHandler
<1>2. req' = [req EXCEPT ![q] = h]
  BY DEF Begin
<1>3. req' = [p \in Request |-> req'[p]] /\ req'[q] = h
      /\ \A p \in Request \ {q} : req'[p] = req[p]
  BY <1>2 DEF HandlersOK
<1>4. req[q].op = "none" /\ req[q].pc = "none"
  BY DEF Arriving, HandlersOK
<1>5. Serves(q)
  BY <1>3, <1>4 DEF Serves
<1>6. Ended \subseteq Ended'
  BY <1>3, <1>4 DEF Ended
<1>7. HandlersOK'
  BY <1>1, <1>3, <1>6 DEF HandlersOK
<1> QED
  BY <1>3, <1>4, <1>5, <1>7 DEF Comes

(* A statement done is a step of its handler, who keeps what it holds.     *)
LEMMA GotoServes ==
  ASSUME HandlersOK, NEW q \in InService, NEW pc, pc # "none", Goto(q, pc)
  PROVE  HandlersOK' /\ GoesOn(q, pc)
<1> DEFINE h == [op |-> req[q].op, pc |-> pc, on |-> req[q].on,
                 with |-> req[q].with, seen |-> req[q].seen, after |-> req[q].after]
<1>1. q \in Request /\ IsHandler(req[q]) /\ req[q].op # "none"
  BY DEF InService, HandlersOK
<1>2. [req[q] EXCEPT !.pc = pc] = h
  BY <1>1 DEF IsHandler
<1>3. req' = [p \in Request |-> req'[p]] /\ req'[q] = h
      /\ \A p \in Request \ {q} : req'[p] = req[p]
  BY <1>1, <1>2 DEF HandlersOK, Goto
<1>4. IsHandler(h)
  BY DEF IsHandler
<1>5. Serves(q)
  BY <1>1, <1>3 DEF Serves
<1>6. Ended \subseteq Ended'
  BY <1>1, <1>3 DEF Ended, InService
<1>7. HandlersOK'
  BY <1>1, <1>3, <1>4, <1>6 DEF HandlersOK
<1> QED
  BY <1>3, <1>5, <1>7 DEF GoesOn

(* Whoever is in service while another handler does a step overlaps it.    *)
LEMMA ServesOverlaps ==
  ASSUME HandlersOK, NEW q \in Request, Serves(q),
         NEW p \in InService, p # q
  PROVE  Overlap(p, q)' /\ Overlap(q, p)'
<1>1. p \in Request /\ req'[p] = req[p] /\ req[p].op # "none" /\ p \notin Ended
  BY DEF Serves, InService, HandlersOK, Ended
<1>2. p \notin req'[q].after
  BY <1>1 DEF Serves, HandlersOK
<1>3. q \notin req'[p].after
  BY <1>1 DEF Serves, HandlersOK, Ended, InService
<1> QED
  BY <1>1, <1>2, <1>3 DEF Overlap, Serves

(* The arguments of a handler are those of its requests, and no others'.   *)
LEMMA OthersArgs ==
  ASSUME NEW q \in Request, Serves(q), \A p \in Request : ArgsOK(p)
  PROVE  \A p \in Request \ {q} : ArgsOK(p)'
BY DEF Serves, ArgsOK, Ops

(* The fields of a row that is there. *)
LEMMA UserRows ==
  ASSUME RowsOK, NEW u \in User
  PROVE  /\ users[u] \in UserRow \cup {NoUser}
         /\ users[u].pass \in Nat /\ users[u].role \in {"none", "admin", "viewer"}
         /\ users[u] # NoUser => users[u] \in UserRow
         /\ users[u] = NoUser <=> users[u].role = "none"
BY DEF RowsOK, UserTable, UserRow, NoUser

(* A session that is there is a user's. *)
LEMMA SessionRows ==
  ASSUME RowsOK, NEW s \in Session
  PROVE  /\ sessions[s] \in SessionRow \cup {NoSession}
         /\ sessions[s] # NoSession <=> sessions[s].user # Nil
         /\ sessions[s] # NoSession <=> sessions[s].user \in User
         /\ sessions[s].proof \in Nat
<1>1. Nil \notin User
  BY AccountsAssumption, RequestsAssumption DEF User
<1> QED
  BY <1>1 DEF RowsOK, SessionTable, SessionRow, NoSession

(* Whoever calls with a credential has a session of a user. *)
LEMMA CredentialIs ==
  ASSUME RowsOK, NEW s \in Credential \ {Nil}
  PROVE  s \in Session /\ sessions[s].user \in User
BY DEF Credential, Administrators

(* A flow that is there has a name, and uses nothing or the custom         *)
(* template.                                                               *)
LEMMA FlowRows ==
  ASSUME RowsOK, NEW f \in Flow
  PROVE  /\ flows[f] \in FlowRow \cup {NoFlow}
         /\ flows[f].uses \in {Nil, Custom} /\ flows[f].flag \in BOOLEAN
         /\ flows[f] # NoFlow <=> flows[f].name \in FlowName
         /\ flows[f] # NoFlow <=> flows[f].name # Nil
<1>1. Nil \notin FlowName
  BY CatalogAssumption
<1>2. flows[f] \in FlowRow \cup {NoFlow}
  BY DEF RowsOK, FlowTable
<1>3. CASE flows[f] = NoFlow
  BY <1>1, <1>3 DEF NoFlow
<1>4. CASE flows[f] \in FlowRow
  BY <1>1, <1>4 DEF FlowRow, NoFlow
<1> QED
  BY <1>2, <1>3, <1>4

(* The requests of the accounts, and what they come with.                  *)
LEMMA AccountsComes ==
  ASSUME RowsOK, HandlersOK, NEW q \in Request, Arriving(q), AccountsArrive(q)
  PROVE  HandlersOK' /\ Serves(q) /\ ArgsOK(q)' /\ req[q].op = "none"
         /\ req'[q].op \in AccountOps
<1>1. CASE LoginArrives(q)
  <2>1. PICK u \in User :
          Begin(q, "login", "insert", u, Nil, users[u].pass)
    BY <1>1 DEF LoginArrives
  <2>2. users[u].pass \in Nat
    BY UserRows
  <2>3. HandlersOK' /\ Comes(q, "login", "insert", u, Nil, users[u].pass)
    BY <2>1, <2>2, BeginServes
  <2>4. ArgsOK(q)' /\ req'[q].op \in AccountOps
    BY <2>1, <2>2, <2>3 DEF Comes, ArgsOK, Ops, AccountOps
  <2> QED
    BY <2>3, <2>4 DEF Comes
<1>2. CASE ChangeArrives(q)
  <2>1. PICK s \in Credential \ {Nil} :
          Begin(q, "password", "write", sessions[s].user, s, Nil)
    BY <1>2 DEF ChangeArrives
  <2>2. sessions[s].user \in User
    BY CredentialIs
  <2>3. HandlersOK' /\ Comes(q, "password", "write", sessions[s].user, s, Nil)
    BY <2>1, <2>2, BeginServes
  <2>4. ArgsOK(q)' /\ req'[q].op \in AccountOps
    BY <2>1, <2>2, <2>3 DEF Comes, ArgsOK, Ops, AccountOps
  <2> QED
    BY <2>3, <2>4 DEF Comes
<1>3. CASE ResetArrives(q)
  <2>1. PICK u \in User :
          Begin(q, "password", "write", u, Nil, Nil)
    BY <1>3 DEF ResetArrives
  <2>2. HandlersOK' /\ Comes(q, "password", "write", u, Nil, Nil)
    BY <2>1, BeginServes
  <2>3. ArgsOK(q)' /\ req'[q].op \in AccountOps
    BY <2>1, <2>2 DEF Comes, ArgsOK, Ops, AccountOps
  <2> QED
    BY <2>2, <2>3 DEF Comes
<1>4. CASE CreateUserArrives(q)
  <2>1. PICK name \in Names, role \in {"admin", "viewer"} :
          Begin(q, "createUser", "insert", name, role, Nil)
    BY <1>4 DEF CreateUserArrives
  <2>2. HandlersOK' /\ Comes(q, "createUser", "insert", name, role, Nil)
    BY <2>1, BeginServes
  <2>3. ArgsOK(q)' /\ req'[q].op \in AccountOps
    BY <2>1, <2>2 DEF Comes, ArgsOK, Ops, AccountOps
  <2> QED
    BY <2>2, <2>3 DEF Comes
<1>5. CASE DeleteUserArrives(q)
  <2>1. PICK u \in User, pc \in {"count", "delete"} :
          Begin(q, "deleteUser", pc, u, users[u].role, Nil)
    BY <1>5 DEF DeleteUserArrives
  <2>2. HandlersOK' /\ Comes(q, "deleteUser", pc, u, users[u].role, Nil)
    BY <2>1, BeginServes
  <2>3. ArgsOK(q)' /\ req'[q].op \in AccountOps
    BY <2>1, <2>2 DEF Comes, ArgsOK, Ops, AccountOps
  <2> QED
    BY <2>2, <2>3 DEF Comes
<1>6. CASE Logout(q)
  <2>1. PICK s \in Session :
          Begin(q, "logout", "end", s, Nil, Nil)
    BY <1>6 DEF Logout
  <2>2. HandlersOK' /\ Comes(q, "logout", "end", s, Nil, Nil)
    BY <2>1, BeginServes
  <2>3. ArgsOK(q)' /\ req'[q].op \in AccountOps
    BY <2>1, <2>2 DEF Comes, ArgsOK, Ops, AccountOps
  <2> QED
    BY <2>2, <2>3 DEF Comes
<1>7. CASE FlipToken(q)
  <2>1. Begin(q, "apiToken", "end", Nil, Nil, Nil)
    BY <1>7 DEF FlipToken
  <2>2. HandlersOK' /\ Comes(q, "apiToken", "end", Nil, Nil, Nil)
    BY <2>1, BeginServes
  <2>3. ArgsOK(q)' /\ req'[q].op \in AccountOps
    BY <2>1, <2>2 DEF Comes, ArgsOK, Ops, AccountOps
  <2> QED
    BY <2>2, <2>3 DEF Comes
<1> QED
  BY <1>1, <1>2, <1>3, <1>4, <1>5, <1>6, <1>7 DEF AccountsArrive

(* Those of the catalog; the scanner's and the operators' jobs.            *)
LEMMA CatalogComes ==
  ASSUME RowsOK, HandlersOK, NEW q \in Request, Arriving(q), CatalogArrive(q)
  PROVE  HandlersOK' /\ Serves(q) /\ ArgsOK(q)' /\ req[q].op = "none"
         /\ req'[q].op \in CatalogOps
<1>1. CASE CreateFlowArrives(q)
  <2>1. PICK name \in FlowName, uses \in {Nil, Custom} :
          Begin(q, "createFlow", "insert", name, uses, Nil)
    BY <1>1 DEF CreateFlowArrives
  <2>2. HandlersOK' /\ Comes(q, "createFlow", "insert", name, uses, Nil)
    BY <2>1, BeginServes
  <2>3. ArgsOK(q)' /\ req'[q].op \in CatalogOps
    BY <2>1, <2>2 DEF Comes, ArgsOK, Ops, CatalogOps
  <2> QED
    BY <2>2, <2>3 DEF Comes
<1>2. CASE DuplicateArrives(q)
  <2>1. PICK f \in Flow, name \in FlowName :
          Begin(q, "createFlow", "insert", name, flows[f].uses, Nil)
    BY <1>2 DEF DuplicateArrives
  <2>2. flows[f].uses \in {Nil, Custom}
    BY FlowRows
  <2>3. HandlersOK' /\ Comes(q, "createFlow", "insert", name, flows[f].uses, Nil)
    BY <2>1, <2>2, BeginServes
  <2>4. ArgsOK(q)' /\ req'[q].op \in CatalogOps
    BY <2>1, <2>2, <2>3 DEF Comes, ArgsOK, Ops, CatalogOps
  <2> QED
    BY <2>3, <2>4 DEF Comes
<1>3. CASE UpdateFlowArrives(q)
  <2>1. PICK f \in Flow, name \in FlowName, uses \in {Nil, Custom} :
          Begin(q, "updateFlow", "write", f, [name |-> name, uses |-> uses], flows[f].name)
    BY <1>3 DEF UpdateFlowArrives
  <2>2. HandlersOK' /\ Comes(q, "updateFlow", "write", f, [name |-> name, uses |-> uses], flows[f].name)
    BY <2>1, BeginServes
  <2>3. ArgsOK(q)' /\ req'[q].op \in CatalogOps
    BY <2>1, <2>2 DEF Comes, ArgsOK, Ops, CatalogOps
  <2> QED
    BY <2>2, <2>3 DEF Comes
<1>4. CASE DeleteFlowArrives(q)
  <2>1. PICK f \in Flow :
          Begin(q, "deleteFlow", "count", f, Nil, Nil)
    BY <1>4 DEF DeleteFlowArrives
  <2>2. HandlersOK' /\ Comes(q, "deleteFlow", "count", f, Nil, Nil)
    BY <2>1, BeginServes
  <2>3. ArgsOK(q)' /\ req'[q].op \in CatalogOps
    BY <2>1, <2>2 DEF Comes, ArgsOK, Ops, CatalogOps
  <2> QED
    BY <2>2, <2>3 DEF Comes
<1>5. CASE SetDefaultArrives(q)
  <2>1. PICK f \in Flow :
          Begin(q, "setDefault", "write", f, Nil, Nil)
    BY <1>5 DEF SetDefaultArrives
  <2>2. HandlersOK' /\ Comes(q, "setDefault", "write", f, Nil, Nil)
    BY <2>1, BeginServes
  <2>3. ArgsOK(q)' /\ req'[q].op \in CatalogOps
    BY <2>1, <2>2 DEF Comes, ArgsOK, Ops, CatalogOps
  <2> QED
    BY <2>2, <2>3 DEF Comes
<1>6. CASE ImportLooksUp(q)
  <2>1. PICK pc \in {"upsert", "resolve"} :
          Begin(q, "importFlow", pc, Nil, Custom, Nil)
    BY <1>6 DEF ImportLooksUp
  <2>2. HandlersOK' /\ Comes(q, "importFlow", pc, Nil, Custom, Nil)
    BY <2>1, BeginServes
  <2>3. ArgsOK(q)' /\ req'[q].op \in CatalogOps
    BY <2>1, <2>2 DEF Comes, ArgsOK, Ops, CatalogOps
  <2> QED
    BY <2>2, <2>3 DEF Comes
<1>7. CASE UpdateTemplateArrives(q)
  <2>1. Begin(q, "updateTemplate", "write", Custom, Nil, Nil)
    BY <1>7 DEF UpdateTemplateArrives
  <2>2. HandlersOK' /\ Comes(q, "updateTemplate", "write", Custom, Nil, Nil)
    BY <2>1, BeginServes
  <2>3. ArgsOK(q)' /\ req'[q].op \in CatalogOps
    BY <2>1, <2>2 DEF Comes, ArgsOK, Ops, CatalogOps
  <2> QED
    BY <2>2, <2>3 DEF Comes
<1>8. CASE DeleteTemplateArrives(q)
  <2>1. Begin(q, "deleteTemplate", "write", Custom, Nil, Nil)
    BY <1>8 DEF DeleteTemplateArrives
  <2>2. HandlersOK' /\ Comes(q, "deleteTemplate", "write", Custom, Nil, Nil)
    BY <2>1, BeginServes
  <2>3. ArgsOK(q)' /\ req'[q].op \in CatalogOps
    BY <2>1, <2>2 DEF Comes, ArgsOK, Ops, CatalogOps
  <2> QED
    BY <2>2, <2>3 DEF Comes
<1>9. CASE PatchSeriesArrives(q)
  <2>1. PICK f \in Flow :
          Begin(q, "patchSeries", "write", f, Nil, Nil)
    BY <1>9 DEF PatchSeriesArrives
  <2>2. HandlersOK' /\ Comes(q, "patchSeries", "write", f, Nil, Nil)
    BY <2>1, BeginServes
  <2>3. ArgsOK(q)' /\ req'[q].op \in CatalogOps
    BY <2>1, <2>2 DEF Comes, ArgsOK, Ops, CatalogOps
  <2> QED
    BY <2>2, <2>3 DEF Comes
<1>10. CASE PatchJobArrives(q)
  <2>1. PICK f \in Flow, j \in Request :
          Begin(q, "patchJob", "write", f, j, Nil)
    BY <1>10 DEF PatchJobArrives
  <2>2. HandlersOK' /\ Comes(q, "patchJob", "write", f, j, Nil)
    BY <2>1, BeginServes
  <2>3. ArgsOK(q)' /\ req'[q].op \in CatalogOps
    BY <2>1, <2>2 DEF Comes, ArgsOK, Ops, CatalogOps
  <2> QED
    BY <2>2, <2>3 DEF Comes
<1>11. CASE CreateTemplate(q)
  <2>1. Begin(q, "createTemplate", "end", Nil, Nil, Nil)
    BY <1>11 DEF CreateTemplate
  <2>2. HandlersOK' /\ Comes(q, "createTemplate", "end", Nil, Nil, Nil)
    BY <2>1, BeginServes
  <2>3. ArgsOK(q)' /\ req'[q].op \in CatalogOps
    BY <2>1, <2>2 DEF Comes, ArgsOK, Ops, CatalogOps
  <2> QED
    BY <2>2, <2>3 DEF Comes
<1>12. CASE ResetTemplate(q)
  <2>1. Begin(q, "resetTemplate", "end", Nil, Nil, Nil)
    BY <1>12 DEF ResetTemplate
  <2>2. HandlersOK' /\ Comes(q, "resetTemplate", "end", Nil, Nil, Nil)
    BY <2>1, BeginServes
  <2>3. ArgsOK(q)' /\ req'[q].op \in CatalogOps
    BY <2>1, <2>2 DEF Comes, ArgsOK, Ops, CatalogOps
  <2> QED
    BY <2>2, <2>3 DEF Comes
<1>13. CASE RequeueOrDeleteJob(q)
  <2>1. PICK j \in Request :
          Begin(q, "finishedJob", "end", j, Nil, Nil)
    BY <1>13 DEF RequeueOrDeleteJob
  <2>2. HandlersOK' /\ Comes(q, "finishedJob", "end", j, Nil, Nil)
    BY <2>1, BeginServes
  <2>3. ArgsOK(q)' /\ req'[q].op \in CatalogOps
    BY <2>1, <2>2 DEF Comes, ArgsOK, Ops, CatalogOps
  <2> QED
    BY <2>2, <2>3 DEF Comes
<1> QED
  BY <1>1, <1>2, <1>3, <1>4, <1>5, <1>6, <1>7, <1>8, <1>9, <1>10, <1>11, <1>12, <1>13 DEF CatalogArrive

(* A job that is created names a flow (ResolveFlow).                       *)
LEMMA JobComes ==
  ASSUME RowsOK, HandlersOK, NEW q \in Request, Arriving(q), CreateJobArrives(q)
  PROVE  HandlersOK' /\ Serves(q) /\ ArgsOK(q)' /\ req[q].op = "none"
         /\ req'[q].op \in CatalogOps
<1>1. CASE CreateJobArrives(q)
  <2>1. PICK f \in Flow :
          Begin(q, "createJob", "insert", f, Nil, Nil)
    BY <1>1 DEF CreateJobArrives, ResolveFlow, IsFlow, Flagged, Named
  <2>2. HandlersOK' /\ Comes(q, "createJob", "insert", f, Nil, Nil)
    BY <2>1, BeginServes
  <2>3. ArgsOK(q)' /\ req'[q].op \in CatalogOps
    BY <2>1, <2>2 DEF Comes, ArgsOK, Ops, CatalogOps
  <2> QED
    BY <2>2, <2>3 DEF Comes
<1> QED
  BY <1>1 DEF CreateJobArrives

(* Those of the enrolment.                                                 *)
LEMMA EnrolComes ==
  ASSUME RowsOK, HandlersOK, NEW q \in Request, Arriving(q), EnrolArrive(q)
  PROVE  HandlersOK' /\ Serves(q) /\ ArgsOK(q)' /\ req[q].op = "none"
         /\ req'[q].op \in EnrolOps
<1>1. CASE CreatePairingCode(q)
  <2>1. Begin(q, "pairingCode", "end", Nil, Nil, Nil)
    BY <1>1 DEF CreatePairingCode
  <2>2. HandlersOK' /\ Comes(q, "pairingCode", "end", Nil, Nil, Nil)
    BY <2>1, BeginServes
  <2>3. ArgsOK(q)' /\ req'[q].op \in EnrolOps
    BY <2>1, <2>2 DEF Comes, ArgsOK, Ops, EnrolOps
  <2> QED
    BY <2>2, <2>3 DEF Comes
<1>2. CASE AddNode(q)
  <2>1. PICK name \in NodeName :
          Begin(q, "createNode", "end", Nil, name, 1)
    BY <1>2 DEF AddNode
  <2>2. HandlersOK' /\ Comes(q, "createNode", "end", Nil, name, 1)
    BY <2>1, BeginServes
  <2>3. ArgsOK(q)' /\ req'[q].op \in EnrolOps
    BY <2>1, <2>2 DEF Comes, ArgsOK, Ops, EnrolOps
  <2> QED
    BY <2>2, <2>3 DEF Comes
<1>3. CASE DeleteNode(q)
  <2>1. PICK n \in Request :
          Begin(q, "deleteNode", "end", n, Nil, Nil)
    BY <1>3 DEF DeleteNode
  <2>2. HandlersOK' /\ Comes(q, "deleteNode", "end", n, Nil, Nil)
    BY <2>1, BeginServes
  <2>3. ArgsOK(q)' /\ req'[q].op \in EnrolOps
    BY <2>1, <2>2 DEF Comes, ArgsOK, Ops, EnrolOps
  <2> QED
    BY <2>2, <2>3 DEF Comes
<1>4. CASE StartRun(q)
  <2>1. Begin(q, "provision", "end", Nil, Nil, Nil)
    BY <1>4 DEF StartRun
  <2>2. HandlersOK' /\ Comes(q, "provision", "end", Nil, Nil, Nil)
    BY <2>1, BeginServes
  <2>3. ArgsOK(q)' /\ req'[q].op \in EnrolOps
    BY <2>1, <2>2 DEF Comes, ArgsOK, Ops, EnrolOps
  <2> QED
    BY <2>2, <2>3 DEF Comes
<1> QED
  BY <1>1, <1>2, <1>3, <1>4 DEF EnrolArrive

(* An agent that presents a code.                                          *)
LEMMA PairComes ==
  ASSUME RowsOK, HandlersOK, NEW q \in Request, Arriving(q), PairArrives(q)
  PROVE  HandlersOK' /\ Serves(q) /\ ArgsOK(q)' /\ req[q].op = "none"
         /\ req'[q].op \in EnrolOps
<1>1. CASE PairArrives(q)
  <2>1. PICK c \in Request, name \in NodeName :
          Begin(q, "pair", "create", c, name, Nil)
    BY <1>1 DEF PairArrives
  <2>2. HandlersOK' /\ Comes(q, "pair", "create", c, name, Nil)
    BY <2>1, BeginServes
  <2>3. ArgsOK(q)' /\ req'[q].op \in EnrolOps
    BY <2>1, <2>2 DEF Comes, ArgsOK, Ops, EnrolOps
  <2> QED
    BY <2>2, <2>3 DEF Comes
<1> QED
  BY <1>1 DEF PairArrives

(* Those of the backups.                                                   *)
LEMMA BackupComes ==
  ASSUME RowsOK, HandlersOK, NEW q \in Request, Arriving(q), BackupArrive(q)
  PROVE  HandlersOK' /\ Serves(q) /\ ArgsOK(q)' /\ req[q].op = "none"
         /\ req'[q].op \in BackupOps
<1>1. CASE StartDump(q)
  <2>1. PICK op \in {"manualDump", "scheduledDump"} :
          Begin(q, op, "table", Nil, Nil, Nil)
    BY <1>1 DEF StartDump
  <2>2. HandlersOK' /\ Comes(q, op, "table", Nil, Nil, Nil)
    BY <2>1, BeginServes
  <2>3. ArgsOK(q)' /\ req'[q].op \in BackupOps
    BY <2>1, <2>2 DEF Comes, ArgsOK, Ops, BackupOps
  <2> QED
    BY <2>2, <2>3 DEF Comes
<1>2. CASE DeleteBackup(q)
  <2>1. PICK d \in Request :
          Begin(q, "deleteBackup", "end", d, Nil, Nil)
    BY <1>2 DEF DeleteBackup
  <2>2. HandlersOK' /\ Comes(q, "deleteBackup", "end", d, Nil, Nil)
    BY <2>1, BeginServes
  <2>3. ArgsOK(q)' /\ req'[q].op \in BackupOps
    BY <2>1, <2>2 DEF Comes, ArgsOK, Ops, BackupOps
  <2> QED
    BY <2>2, <2>3 DEF Comes
<1> QED
  BY <1>1, <1>2 DEF BackupArrive

(* A restore.                                                              *)
LEMMA RestoreComes ==
  ASSUME RowsOK, HandlersOK, NEW q \in Request, Arriving(q), RestoreArrives(q)
  PROVE  HandlersOK' /\ Serves(q) /\ ArgsOK(q)' /\ req[q].op = "none"
         /\ req'[q].op \in BackupOps
<1>1. CASE RestoreArrives(q)
  <2>1. PICK d \in Request :
          Begin(q, "restore", "replay", d, Nil, Nil)
    BY <1>1 DEF RestoreArrives
  <2>2. HandlersOK' /\ Comes(q, "restore", "replay", d, Nil, Nil)
    BY <2>1, BeginServes
  <2>3. ArgsOK(q)' /\ req'[q].op \in BackupOps
    BY <2>1, <2>2 DEF Comes, ArgsOK, Ops, BackupOps
  <2> QED
    BY <2>2, <2>3 DEF Comes
<1> QED
  BY <1>1 DEF RestoreArrives

(* A statement done, the arguments are what they were.                     *)
LEMMA GotoArgs ==
  ASSUME HandlersOK, NEW q \in InService, ArgsOK(q), NEW pc, pc \notin {"none", "insert"},
         Goto(q, pc)
  PROVE  HandlersOK' /\ GoesOn(q, pc) /\ ArgsOK(q)'
<1>1. HandlersOK' /\ GoesOn(q, pc)
  BY GotoServes
<1>2. /\ req'[q].op = req[q].op /\ req'[q].pc = pc /\ req'[q].on = req[q].on
      /\ req'[q].with = req[q].with /\ req'[q].seen = req[q].seen
  BY <1>1 DEF GoesOn
<1> QED
  BY <1>1, <1>2 DEF ArgsOK, Ops

(* Where the steps of the accounts lead to.                                *)
LEMMA AccountsGoOn ==
  ASSUME HandlersOK, NEW q \in InService, ArgsOK(q), AccountsStep(q)
  PROVE  HandlersOK' /\ ArgsOK(q)' /\ req[q].op \in AccountOps
         /\ \E pc \in {"revoke", "delete", "end"} : GoesOn(q, pc)
<1>1. \E pc \in {"revoke", "delete", "end"} : Goto(q, pc)
  BY DEF AccountsStep, InsertSession, WritePassword, RevokeSessions, InsertUser,
         CountAdmins, DeleteUser, End
<1>2. req[q].op \in AccountOps
  BY DEF AccountsStep, InsertSession, WritePassword, RevokeSessions, InsertUser,
         CountAdmins, DeleteUser, At, AccountOps
<1> QED
  BY <1>1, <1>2, GotoArgs

(* An import that found a free name goes on to insert (ResolveSteps).      *)
LEMMA ResolveServes ==
  ASSUME HandlersOK, NEW q \in InService, ArgsOK(q), Ops(q, {"importFlow"}),
         NEW name \in FlowName,
         req' = [req EXCEPT ![q].on = name, ![q].pc = "insert"]
  PROVE  /\ HandlersOK' /\ Serves(q) /\ ArgsOK(q)'
         /\ req'[q] = [op |-> req[q].op, pc |-> "insert", on |-> name,
                       with |-> req[q].with, seen |-> req[q].seen, after |-> req[q].after]
<1> DEFINE h == [op |-> req[q].op, pc |-> "insert", on |-> name,
                 with |-> req[q].with, seen |-> req[q].seen, after |-> req[q].after]
<1>1. q \in Request /\ IsHandler(req[q]) /\ req[q].op # "none"
  BY DEF InService, HandlersOK
<1> DEFINE g == [op |-> req[q].op, pc |-> req[q].pc, on |-> name,
                 with |-> req[q].with, seen |-> req[q].seen, after |-> req[q].after]
<1>2. [req[q] EXCEPT !.on = name] = g /\ [g EXCEPT !.pc = "insert"] = h
  BY <1>1 DEF IsHandler
<1>3. req' = [req EXCEPT ![q] = h]
  BY <1>1, <1>2 DEF HandlersOK
<1>4. req' = [p \in Request |-> req'[p]] /\ req'[q] = h
      /\ \A p \in Request \ {q} : req'[p] = req[p]
  BY <1>1, <1>3 DEF HandlersOK
<1>5. IsHandler(h)
  BY DEF IsHandler
<1> HIDE DEF g
<1>6. Serves(q)
  <2>1. req'[q].op = req[q].op /\ req'[q].pc # "none" /\ req'[q].with = req[q].with
        /\ req'[q].after = req[q].after
    BY <1>4
  <2>2. Ops(q, {"importFlow"}) \/ req'[q].on = req[q].on
    BY <1>4 DEF Ops
  <2>3. Ops(q, {"pair"}) \/ req'[q].seen = req[q].seen
    BY <1>4 DEF Ops
  <2> QED
    BY <1>1, <1>4, <2>1, <2>2, <2>3 DEF Serves
<1>7. Ended \subseteq Ended'
  BY <1>1, <1>4 DEF Ended, InService
<1>8. HandlersOK'
  BY <1>1, <1>4, <1>5, <1>7 DEF HandlersOK
<1>9. ArgsOK(q)'
  BY <1>4 DEF ArgsOK, Ops
<1> QED
  BY <1>4, <1>6, <1>8, <1>9

(* Where the steps of the catalog lead to.                                 *)
LEMMA CatalogGoesOn ==
  ASSUME HandlersOK, NEW q \in InService, ArgsOK(q), CatalogStep(q)
  PROVE  HandlersOK' /\ Serves(q) /\ ArgsOK(q)' /\ req[q].op \in CatalogOps
<1>1. CASE ResolveSteps(q)
  <2>1. Ops(q, {"importFlow"}) /\ req[q].op \in CatalogOps
    BY <1>1 DEF ResolveSteps, At, Ops, CatalogOps
  <2>2. CASE Goto(q, "end")
    BY <2>1, <2>2, GotoArgs DEF GoesOn
  <2>3. CASE \E name \in FlowName :
               req' = [req EXCEPT ![q].on = name, ![q].pc = "insert"]
    BY <2>1, <2>3, ResolveServes
  <2> QED
    BY <1>1, <2>2, <2>3 DEF ResolveSteps, End
<1>2. CASE ~ResolveSteps(q)
  <2>1. \E pc \in {"resolve", "write", "end"} : Goto(q, pc)
    BY <1>2 DEF CatalogStep, InsertFlow, WriteFlow, CountJobs, DeleteFlow, SetDefaultFlow,
        UpsertImported, WriteTemplate, DeleteTemplate, SetSeriesFlow, WriteJob, InsertJob, End
  <2>2. req[q].op \in CatalogOps
    BY <1>2 DEF CatalogStep, InsertFlow, WriteFlow, CountJobs, DeleteFlow, SetDefaultFlow,
        UpsertImported, WriteTemplate, DeleteTemplate, SetSeriesFlow, WriteJob, InsertJob,
        At, CatalogOps
  <2> QED
    BY <2>1, <2>2, GotoArgs DEF GoesOn
<1> QED
  BY <1>1, <1>2

(* The answer with the token is noted (MarkCode).                          *)
LEMMA MarkServes ==
  ASSUME HandlersOK, NEW q \in InService, ArgsOK(q), Ops(q, {"pair"}),
         req' = [req EXCEPT ![q].pc = "end", ![q].seen = 1]
  PROVE  /\ HandlersOK' /\ Serves(q) /\ ArgsOK(q)'
         /\ req'[q] = [op |-> req[q].op, pc |-> "end", on |-> req[q].on,
                       with |-> req[q].with, seen |-> 1, after |-> req[q].after]
<1> DEFINE h == [op |-> req[q].op, pc |-> "end", on |-> req[q].on,
                 with |-> req[q].with, seen |-> 1, after |-> req[q].after]
<1>1. q \in Request /\ IsHandler(req[q]) /\ req[q].op # "none"
  BY DEF InService, HandlersOK
<1> DEFINE g == [op |-> req[q].op, pc |-> "end", on |-> req[q].on,
                 with |-> req[q].with, seen |-> req[q].seen, after |-> req[q].after]
<1>2. [req[q] EXCEPT !.pc = "end"] = g /\ [g EXCEPT !.seen = 1] = h
  BY <1>1 DEF IsHandler
<1>3. req' = [req EXCEPT ![q] = h]
  BY <1>1, <1>2 DEF HandlersOK
<1>4. req' = [p \in Request |-> req'[p]] /\ req'[q] = h
      /\ \A p \in Request \ {q} : req'[p] = req[p]
  BY <1>1, <1>3 DEF HandlersOK
<1>5. IsHandler(h)
  BY DEF IsHandler
<1> HIDE DEF g
<1>6. Serves(q)
  <2>1. req'[q].op = req[q].op /\ req'[q].pc # "none" /\ req'[q].with = req[q].with
        /\ req'[q].after = req[q].after
    BY <1>4
  <2>2. Ops(q, {"importFlow"}) \/ req'[q].on = req[q].on
    BY <1>4 DEF Ops
  <2>3. Ops(q, {"pair"}) \/ req'[q].seen = req[q].seen
    BY <1>4 DEF Ops
  <2> QED
    BY <1>1, <1>4, <2>1, <2>2, <2>3 DEF Serves
<1>7. Ended \subseteq Ended'
  BY <1>1, <1>4 DEF Ended, InService
<1>8. HandlersOK'
  BY <1>1, <1>4, <1>5, <1>7 DEF HandlersOK
<1>9. ArgsOK(q)'
  BY <1>4 DEF ArgsOK, Ops
<1> QED
  BY <1>4, <1>6, <1>8, <1>9

(* Where the steps of a pairing lead to.                                   *)
LEMMA EnrolGoesOn ==
  ASSUME HandlersOK, NEW q \in InService, ArgsOK(q), EnrolStep(q)
  PROVE  HandlersOK' /\ Serves(q) /\ ArgsOK(q)' /\ req[q].op \in EnrolOps
<1>1. Ops(q, {"pair"}) /\ req[q].op \in EnrolOps
  BY DEF EnrolStep, CreateNode, CheckCode, MarkCode, RollBackNode, At, Ops, EnrolOps
<1>2. CASE MarkCode(q)
  BY <1>1, <1>2, MarkServes DEF MarkCode
<1>3. CASE ~MarkCode(q)
  <2>1. \E pc \in {"consume", "mark", "rollBack", "end"} : Goto(q, pc)
    BY <1>3 DEF EnrolStep, CreateNode, CheckCode, RollBackNode, End
  <2> QED
    BY <1>1, <2>1, GotoArgs DEF GoesOn
<1> QED
  BY <1>2, <1>3

(* A dump that reads a table that is not the last one is where it was.     *)
LEMMA BackupGoesOn ==
  ASSUME HandlersOK, NEW q \in InService, ArgsOK(q), BackupStep(q)
  PROVE  /\ HandlersOK' /\ ArgsOK(q)' /\ req[q].op \in BackupOps
         /\ req' = req \/ Serves(q)
<1>1. req[q].op \in BackupOps
  BY DEF BackupStep, DumpTable, PruneScheduled, Dumps, At, BackupOps
<1>2. req' = req \/ \E pc \in {"prune", "end"} : Goto(q, pc)
  BY DEF BackupStep, DumpTable, PruneScheduled, End
<1>3. CASE req' = req
  BY <1>1, <1>3 DEF HandlersOK, ArgsOK, Ops, Ended
<1>4. CASE \E pc \in {"prune", "end"} : Goto(q, pc)
  BY <1>1, <1>4, GotoArgs DEF GoesOn
<1> QED
  BY <1>2, <1>3, <1>4

(* A restart cuts all handlers off.                                        *)
LEMMA CutServes ==
  ASSUME HandlersOK, \A q \in Request : ArgsOK(q), AllCutOff
  PROVE  /\ HandlersOK' /\ \A q \in Request : ArgsOK(q)'
         /\ InService' = {}
         /\ \A q \in Request :
              /\ req'[q].op = req[q].op /\ req'[q].on = req[q].on
              /\ req'[q].with = req[q].with /\ req'[q].seen = req[q].seen
              /\ req'[q].after = req[q].after
              /\ req'[q].pc = IF q \in InService THEN "cut" ELSE req[q].pc
<1> DEFINE h(q) == [op |-> req[q].op, pc |-> "cut", on |-> req[q].on,
                    with |-> req[q].with, seen |-> req[q].seen, after |-> req[q].after]
<1>1. \A q \in Request : IsHandler(h(q)) /\ [req[q] EXCEPT !.pc = "cut"] = h(q)
  BY DEF IsHandler, HandlersOK
<1>2. req' = [q \in Request |-> IF q \in InService THEN h(q) ELSE req[q]]
  BY <1>1 DEF AllCutOff
<1>3. /\ req' = [q \in Request |-> req'[q]]
      /\ \A q \in Request : req'[q] = IF q \in InService THEN h(q) ELSE req[q]
  BY <1>2
<1>4. \A q \in Request :
        /\ req'[q].op = req[q].op /\ req'[q].on = req[q].on
        /\ req'[q].with = req[q].with /\ req'[q].seen = req[q].seen
        /\ req'[q].after = req[q].after
        /\ req'[q].pc = IF q \in InService THEN "cut" ELSE req[q].pc
  BY <1>3
<1>5. Ended \subseteq Ended'
  BY <1>4 DEF Ended, InService
<1>6. \A q \in Request : IsHandler(req'[q])
  BY <1>1, <1>3 DEF HandlersOK
<1>7. HandlersOK'
  <2>1. \A q \in Request : req'[q].op = "none" <=> req'[q].pc = "none"
    BY <1>4 DEF HandlersOK, InService
  <2>2. \A q \in Request : req'[q].after \subseteq Ended'
    BY <1>4, <1>5 DEF HandlersOK
  <2> QED
    BY <1>3, <1>6, <2>1, <2>2 DEF HandlersOK
<1>8. \A q \in Request : ArgsOK(q)'
  <2> SUFFICES ASSUME NEW q \in Request PROVE ArgsOK(q)'
    OBVIOUS
  <2>1. req'[q].pc = "insert" => req[q].pc = "insert"
    BY <1>4
  <2> QED
    BY <1>4, <2>1 DEF ArgsOK, Ops
<1>9. InService' = {}
  BY <1>4 DEF InService
<1> QED
  BY <1>4, <1>7, <1>8, <1>9

(* In every step one handler does something, or none, or all are cut off.  *)
LEMMA HandlersStep ==
  ASSUME RowsOK, HandlersOK, \A q \in Request : ArgsOK(q), Next
  PROVE  /\ HandlersOK' /\ \A q \in Request : ArgsOK(q)'
         /\ req' = req \/ (\E q \in Request : Serves(q)) \/ AllCutOff
<1>1. ASSUME NEW q \in Request, Arrive(q)
      PROVE  HandlersOK' /\ Serves(q) /\ ArgsOK(q)'
  <2>1. Arriving(q)
    BY <1>1 DEF Arrive
  <2> QED
    BY <1>1, <2>1, AccountsComes, CatalogComes, JobComes, EnrolComes, PairComes,
       BackupComes, RestoreComes DEF Arrive
<1>2. ASSUME NEW q \in Request, Step(q)
      PROVE  HandlersOK' /\ ArgsOK(q)' /\ (req' = req \/ Serves(q))
  <2>1. q \in InService
    BY <1>2 DEF Step
  <2>2. CASE AccountsStep(q)
    BY <2>1, <2>2, AccountsGoOn DEF GoesOn
  <2>3. CASE CatalogStep(q)
    BY <2>1, <2>3, CatalogGoesOn
  <2>4. CASE EnrolStep(q)
    BY <2>1, <2>4, EnrolGoesOn
  <2>5. CASE BackupStep(q)
    BY <2>1, <2>5, BackupGoesOn
  <2>6. CASE Replay(q)
    BY <2>1, <2>6, GotoArgs DEF Replay, End, GoesOn
  <2> QED
    BY <1>2, <2>2, <2>3, <2>4, <2>5, <2>6 DEF Step
<1>3. ASSUME NEW q \in Request, ClientLeaves(q)
      PROVE  HandlersOK' /\ ArgsOK(q)' /\ Serves(q)
  BY <1>3, GotoArgs DEF ClientLeaves, CutOff, GoesOn
<1>4. ASSUME NEW q \in Request, Background(q) PROVE req' = req
  BY <1>4 DEF Background, Provision, Expire, LockEngine, LoadContext, StagePayloads,
     IssuePairing, Launch, Play
<1>5. ASSUME req' = req PROVE HandlersOK' /\ \A q \in Request : ArgsOK(q)'
  BY <1>5 DEF HandlersOK, ArgsOK, Ops, Ended
<1>6. CASE \E q \in Request : Arrive(q) \/ Step(q) \/ ClientLeaves(q)
  <2>1. PICK q \in Request : HandlersOK' /\ ArgsOK(q)' /\ (req' = req \/ Serves(q))
    BY <1>1, <1>2, <1>3, <1>6
  <2> QED
    BY <1>5, <2>1, OthersArgs
<1>7. CASE \E q \in Request : Background(q)
  BY <1>4, <1>5, <1>7
<1>8. CASE Restart
  BY <1>8, CutServes DEF Restart
<1>9. CASE Farm
  BY <1>5, <1>9 DEF Farm
<1> QED
  BY <1>6, <1>7, <1>8, <1>9 DEF Next

(* What is on record of a request stays: its operation, whom it met, and   *)
(* all but what an import and a pairing note down.                         *)
LEMMA OnRecord ==
  ASSUME HandlersOK, req' = req \/ (\E q \in Request : Serves(q)) \/ AllCutOff
  PROVE  /\ \A q \in Request :
              req[q].op # "none" =>
                /\ req'[q].op = req[q].op /\ req'[q].with = req[q].with
                /\ req'[q].after = req[q].after
                /\ Ops(q, {"importFlow"}) \/ req'[q].on = req[q].on
                /\ Ops(q, {"pair"}) \/ req'[q].seen = req[q].seen
         /\ \A p, q \in Request : Overlap(p, q) => Overlap(p, q)'
         /\ \A q \in Request : q \in Ended => req'[q] = req[q]
<1>1. /\ \A q \in Request :
           req[q].op # "none" =>
             /\ req'[q].op = req[q].op /\ req'[q].with = req[q].with
             /\ req'[q].after = req[q].after
             /\ Ops(q, {"importFlow"}) \/ req'[q].on = req[q].on
             /\ Ops(q, {"pair"}) \/ req'[q].seen = req[q].seen
      /\ \A q \in Request : q \in Ended => req'[q] = req[q]
  <2>1. CASE req' = req
    BY <2>1
  <2>2. CASE \E q \in Request : Serves(q)
    BY <2>2 DEF Serves, HandlersOK, InService, Ended
  <2>3. CASE AllCutOff
    <3>1. \A q \in Request :
            req'[q] = IF q \in InService THEN [req[q] EXCEPT !.pc = "cut"] ELSE req[q]
      BY <2>3 DEF AllCutOff
    <3>2. \A q \in Request : IsHandler(req[q])
      BY DEF HandlersOK
    <3> QED
      BY <3>1, <3>2 DEF IsHandler, InService, Ended
  <2> QED
    BY <2>1, <2>2, <2>3
<1>2. \A p, q \in Request : Overlap(p, q) => Overlap(p, q)'
  BY <1>1 DEF Overlap
<1> QED
  BY <1>1, <1>2

----------------------------------------------------------------------------
(* What the statements do to the tables, row by row.                       *)

(* SetPassword counts u's password up, and touches no other row.           *)
LEMMA PasswordSet ==
  ASSUME RowsOK, NEW u \in User, IsUser(u), users' = SetPassword(u)
  PROVE  /\ users' \in UserTable
         /\ users'[u] = [name |-> users[u].name, role |-> users[u].role,
                         pass |-> users[u].pass + 1]
         /\ \A v \in User \ {u} : users'[v] = users[v]
<1>1. users \in UserTable /\ users[u] \in UserRow /\ users[u].pass \in Nat
  BY UserRows DEF RowsOK, IsUser
<1> DEFINE row == [name |-> users[u].name, role |-> users[u].role, pass |-> users[u].pass + 1]
<1>2. [users[u] EXCEPT !.pass = users[u].pass + 1] = row /\ row \in UserRow
  BY <1>1 DEF UserRow
<1>3. users' = [users EXCEPT ![u] = row]
  BY <1>1, <1>2 DEF SetPassword, UserTable
<1> QED
  BY <1>1, <1>2, <1>3 DEF UserTable

(* Revoke ends u's sessions; the one to keep has its proof renewed.        *)
LEMMA Revoked ==
  ASSUME RowsOK, NEW u \in User, NEW keep, Revoke(u, keep)
  PROVE  /\ sessions' \in SessionTable
         /\ \A s \in Session :
              /\ sessions[s].user # u => sessions'[s] = sessions[s]
              /\ sessions[s].user = u =>
                   \/ sessions'[s] = NoSession
                   \/ sessions'[s] = [user |-> u, proof |-> users[u].pass] /\ s = keep
<1>1. sessions \in SessionTable /\ users[u].pass \in Nat
  BY UserRows DEF RowsOK
<1>2. ASSUME NEW s \in Session, sessions[s].user = u
      PROVE  sessions[s] \in SessionRow
             /\ [sessions[s] EXCEPT !.proof = users[u].pass]
                  = [user |-> u, proof |-> users[u].pass]
  <2>1. sessions[s] \in SessionRow
    BY <1>2, SessionRows
  <2> QED
    BY <1>2, <2>1 DEF SessionRow
<1>3. sessions' = [s \in Session |->
        IF sessions[s].user # u THEN sessions[s]
        ELSE IF s = keep THEN [user |-> u, proof |-> users[u].pass] ELSE NoSession]
  BY <1>2 DEF Revoke
<1>4. [user |-> u, proof |-> users[u].pass] \in SessionRow
  BY <1>1 DEF SessionRow
<1> QED
  BY <1>1, <1>3, <1>4 DEF SessionTable

(* UpdateFlow writes the whole row but the flag, or nothing.               *)
LEMMA FlowWritten ==
  ASSUME RowsOK, NEW q \in Request, ArgsOK(q), WriteFlow(q)
  PROVE  \/ flows' = flows
         \/ /\ flows' \in FlowTable
            /\ req[q].on \in Flow /\ flows[req[q].on] # NoFlow
            /\ flows'[req[q].on] = [name |-> req[q].with.name, uses |-> req[q].with.uses,
                                    flag |-> flows[req[q].on].flag]
            /\ \A g \in Flow \ {req[q].on} : flows'[g] = flows[g]
<1> DEFINE f == req[q].on
           new == req[q].with
           row == [name |-> new.name, uses |-> new.uses, flag |-> flows[f].flag]
<1>1. f \in Flow /\ new \in [name: FlowName, uses: {Nil, Custom}]
  BY DEF WriteFlow, At, ArgsOK, Ops
<1>2. CASE flows' = flows
  BY <1>2
<1>3. CASE IsFlow(f) /\ flows' = [flows EXCEPT ![f].name = new.name, ![f].uses = new.uses]
  <2>1. flows \in FlowTable /\ flows[f] \in FlowRow /\ flows[f] # NoFlow
    BY <1>1, <1>3, FlowRows DEF RowsOK, IsFlow
  <2> DEFINE half == [name |-> new.name, uses |-> flows[f].uses, flag |-> flows[f].flag]
  <2>2. [flows[f] EXCEPT !.name = new.name] = half /\ [half EXCEPT !.uses = new.uses] = row
    BY <2>1 DEF FlowRow
  <2>3. row \in FlowRow
    BY <1>1, <2>1 DEF FlowRow
  <2>4. flows' = [[flows EXCEPT ![f] = half] EXCEPT ![f] = row]
    BY <1>1, <1>3, <2>1, <2>2 DEF FlowTable
  <2> QED
    BY <1>1, <2>1, <2>3, <2>4 DEF FlowTable
<1> QED
  BY <1>2, <1>3 DEF WriteFlow

(* SetDefaultFlow changes flags, and leaves one at most.                   *)
LEMMA FlagsSet ==
  ASSUME RowsOK, NEW q \in Request, SetDefaultFlow(q)
  PROVE  /\ flows' \in FlowTable
         /\ \A f \in Flow :
              /\ flows'[f] = [name |-> flows[f].name, uses |-> flows[f].uses,
                              flag |-> (f = req[q].on /\ IsFlow(f))]
              /\ flows'[f] = NoFlow <=> flows[f] = NoFlow
<1> DEFINE row(f) == [name |-> flows[f].name, uses |-> flows[f].uses,
                      flag |-> (f = req[q].on /\ IsFlow(f))]
<1>1. ASSUME NEW f \in Flow
      PROVE  /\ [flows[f] EXCEPT !.flag = (f = req[q].on /\ IsFlow(f))] = row(f)
             /\ row(f) \in FlowRow \cup {NoFlow}
             /\ row(f) = NoFlow <=> flows[f] = NoFlow
  <2>1. CASE flows[f] = NoFlow
    <3>1. (f = req[q].on /\ IsFlow(f)) = FALSE
      BY <2>1 DEF IsFlow
    <3>2. row(f) = [name |-> flows[f].name, uses |-> flows[f].uses, flag |-> FALSE]
      BY <3>1, Zenon
    <3>3. [name |-> flows[f].name, uses |-> flows[f].uses, flag |-> FALSE] = NoFlow
      BY <2>1 DEF NoFlow
    <3>5. flows[f] \in [name: {Nil}, uses: {Nil}, flag: BOOLEAN] /\ flows[f].flag = FALSE
      BY <2>1 DEF NoFlow
    <3>6. [flows[f] EXCEPT !.flag = FALSE] = flows[f]
      BY <3>5
    <3>4. [flows[f] EXCEPT !.flag = (f = req[q].on /\ IsFlow(f))]
            = [flows[f] EXCEPT !.flag = FALSE]
      BY <3>1, Zenon
    <3> QED
      BY <2>1, <3>2, <3>3, <3>4, <3>6
  <2>2. CASE flows[f] # NoFlow
    <3>1. flows[f] \in FlowRow /\ flows[f].name # Nil
      BY <2>2, FlowRows
    <3> QED
      BY <3>1, <2>2 DEF FlowRow, NoFlow
  <2> QED
    BY <2>1, <2>2
<1> HIDE DEF row
<1>2. flows' = [f \in Flow |-> row(f)]
  BY <1>1 DEF SetDefaultFlow
<1>3. \A f \in Flow : flows'[f] = row(f)
  BY <1>2
<1>4. flows' \in FlowTable
  BY <1>1, <1>2 DEF FlowTable
<1> QED
  BY <1>1, <1>3, <1>4 DEF row

(* The row that a starting process makes the default flow, if none is.     *)
LEMMA DefaultSeeded ==
  ASSUME RowsOK, SeedDefaultFlow
  PROVE  /\ flows' \in FlowTable
         /\ \E f \in Flow :
              /\ Named(DefaultFlow) = {} => f = Reseeded
              /\ Named(DefaultFlow) # {} => f \in Named(DefaultFlow)
              /\ flows'[f] = [name |-> DefaultFlow,
                              uses |-> IF Named(DefaultFlow) = {} THEN Nil ELSE flows[f].uses,
                              flag |-> (flows[f].flag \/ Flagged = {})]
              /\ \A g \in Flow \ {f} : flows'[g] = flows[g]
<1> DEFINE named == Named(DefaultFlow)
           f == IF named = {} THEN Reseeded ELSE CHOOSE g \in named : TRUE
           row == [name |-> DefaultFlow,
                   uses |-> (IF named = {} THEN Nil ELSE flows[f].uses),
                   flag |-> (flows[f].flag \/ Flagged = {})]
<1>1. f \in Flow /\ (named # {} => f \in named)
  BY DEF Named, Flow
<1>2. named = {} => f = Reseeded
  OBVIOUS
<1> HIDE DEF f
<1>3. row \in FlowRow
  BY <1>1, FlowRows, CatalogAssumption DEF FlowRow
<1>4. flows' = [flows EXCEPT ![f] = row]
  BY DEF SeedDefaultFlow, f
<1>5. flows \in FlowTable
  BY DEF RowsOK
<1>6. flows' \in FlowTable /\ flows'[f] = row /\ \A g \in Flow \ {f} : flows'[g] = flows[g]
  BY <1>1, <1>3, <1>4, <1>5 DEF FlowTable
<1> QED
  BY <1>1, <1>2, <1>6

(* Every statement leaves rows where there were rows.                      *)
LEMMA AccountRowsStep ==
  ASSUME RowsOK, HandlersOK, NEW q \in Request, ArgsOK(q),
         AccountsArrive(q) \/ AccountsStep(q)
  PROVE  users' \in UserTable /\ sessions' \in SessionTable /\ apiToken' \in BOOLEAN
<1>1. users \in UserTable /\ sessions \in SessionTable /\ apiToken \in BOOLEAN
  BY DEF RowsOK
<1>2. CASE UNCHANGED accountVars
  BY <1>1, <1>2 DEF accountVars
<1>3. CASE Logout(q)
  BY <1>1, <1>3 DEF Logout, SessionTable
<1>4. CASE FlipToken(q)
  BY <1>1, <1>4 DEF FlipToken
<1>5. CASE InsertSession(q)
  <2>1. req[q].on \in User /\ req[q].seen \in Nat
    BY <1>5 DEF InsertSession, At, ArgsOK, Ops
  <2>2. [user |-> req[q].on, proof |-> req[q].seen] \in SessionRow
    BY <2>1 DEF SessionRow
  <2> QED
    BY <1>1, <1>5, <2>2 DEF InsertSession, SessionTable
<1>6. CASE WritePassword(q)
  BY <1>1, <1>6, PasswordSet DEF WritePassword, IsUser
<1>7. CASE RevokeSessions(q)
  <2>1. req[q].on \in User
    BY <1>7 DEF RevokeSessions, At, ArgsOK, Ops
  <2> QED
    BY <1>1, <1>7, <2>1, Revoked DEF RevokeSessions
<1>8. CASE InsertUser(q)
  <2>1. req[q].on \in Names /\ req[q].with \in {"admin", "viewer"} /\ q \in User
    BY <1>8 DEF InsertUser, At, ArgsOK, Ops, User
  <2>2. [name |-> req[q].on, role |-> req[q].with, pass |-> 0] \in UserRow
    BY <2>1 DEF UserRow
  <2> QED
    BY <1>1, <1>8, <2>2 DEF InsertUser, UserTable
<1>9. CASE DeleteUser(q)
  <2>1. req[q].on \in User
    BY <1>9 DEF DeleteUser, At, ArgsOK, Ops
  <2> QED
    BY <1>1, <1>9, <2>1, Revoked DEF DeleteUser, UserTable
<1> QED
  BY <1>2, <1>3, <1>4, <1>5, <1>6, <1>7, <1>8, <1>9
     DEF AccountsArrive, AccountsStep, CountAdmins

(* A step of the catalog leaves its tables well-typed. *)
LEMMA CatalogRowsStep ==
  ASSUME RowsOK, HandlersOK, NEW q \in Request, ArgsOK(q),
         CatalogArrive(q) \/ CreateJobArrives(q) \/ CatalogStep(q)
  PROVE  /\ flows' \in FlowTable /\ jobs' \in JobTable
         /\ custom' \in CustomScript /\ builtin' \in BuiltinScript
         /\ series' \in Flow \cup {Nil}
<1>1. /\ flows \in FlowTable /\ jobs \in JobTable
      /\ custom \in CustomScript /\ builtin \in BuiltinScript
      /\ series \in Flow \cup {Nil}
  BY DEF RowsOK
<1>2. CASE UNCHANGED catalogVars
  BY <1>1, <1>2 DEF catalogVars
<1>3. CASE CreateTemplate(q) \/ ResetTemplate(q)
  BY <1>1, <1>3 DEF CreateTemplate, ResetTemplate, CustomScript, BuiltinScript
<1>4. CASE RequeueOrDeleteJob(q)
  <2>1. PICK j \in Request :
          /\ jobs[j].status = "over"
          /\ jobs' \in {[jobs EXCEPT ![j].status = "active"], [jobs EXCEPT ![j] = NoJob]}
    BY <1>4 DEF RequeueOrDeleteJob
  <2>2. jobs[j] \in JobRow
    BY <1>1, <2>1 DEF JobTable, NoJob
  <2>3. [jobs[j] EXCEPT !.status = "active"] \in JobRow
    BY <2>2 DEF JobRow
  <2>4. jobs' \in JobTable
    BY <1>1, <2>1, <2>3 DEF JobTable
  <2> QED
    BY <1>1, <1>4, <2>4 DEF RequeueOrDeleteJob
<1>5. CASE InsertFlow(q)
  <2>1. req[q].on \in FlowName /\ req[q].with \in {Nil, Custom} /\ q \in Flow
    BY <1>5 DEF InsertFlow, ArgsOK, Ops, Flow
  <2>2. [name |-> req[q].on, uses |-> req[q].with, flag |-> FALSE] \in FlowRow
    BY <2>1 DEF FlowRow
  <2> QED
    BY <1>1, <1>5, <2>2 DEF InsertFlow, FlowTable
<1>6. CASE WriteFlow(q)
  BY <1>1, <1>6, FlowWritten DEF WriteFlow
<1>7. CASE DeleteFlow(q)
  BY <1>1, <1>7 DEF DeleteFlow, FlowTable
<1>8. CASE SetDefaultFlow(q)
  BY <1>1, <1>8, FlagsSet DEF SetDefaultFlow
<1>9. CASE UpsertImported(q) \/ WriteTemplate(q) \/ DeleteTemplate(q)
  BY <1>1, <1>9 DEF UpsertImported, WriteTemplate, DeleteTemplate, CustomScript
<1>10. CASE SetSeriesFlow(q)
  BY <1>1, <1>10 DEF SetSeriesFlow, At, ArgsOK, Ops
<1>11. CASE WriteJob(q)
  <2>1. req[q].on \in Flow /\ req[q].with \in Request
    BY <1>11 DEF WriteJob, At, ArgsOK, Ops
  <2>2. CASE jobs' = jobs
    BY <1>1, <1>11, <2>2 DEF WriteJob
  <2>3. CASE /\ jobs[req[q].with].status = "active"
             /\ jobs' = [jobs EXCEPT ![req[q].with].flow = req[q].on]
    <3>1. jobs[req[q].with] \in JobRow
      BY <1>1, <2>1, <2>3 DEF JobTable, NoJob
    <3>2. [jobs[req[q].with] EXCEPT !.flow = req[q].on] \in JobRow
      BY <2>1, <3>1 DEF JobRow
    <3>3. jobs' \in JobTable
      BY <1>1, <2>1, <2>3, <3>2 DEF JobTable
    <3> QED
      BY <1>1, <1>11, <3>3 DEF WriteJob
  <2> QED
    BY <1>11, <2>2, <2>3 DEF WriteJob
<1>12. CASE InsertJob(q)
  <2>1. [flow |-> req[q].on, status |-> "active"] \in JobRow
    BY <1>12 DEF InsertJob, At, ArgsOK, Ops, JobRow
  <2> QED
    BY <1>1, <1>12, <2>1 DEF InsertJob, JobTable
<1> QED
  BY <1>2, <1>3, <1>4, <1>5, <1>6, <1>7, <1>8, <1>9, <1>10, <1>11, <1>12
     DEF CatalogArrive, CreateJobArrives, CatalogStep, CountJobs, ResolveSteps

(* So does a step of the enrolment. *)
LEMMA EnrolRowsStep ==
  ASSUME RowsOK, HandlersOK, NEW q \in Request, ArgsOK(q),
         EnrolArrive(q) \/ PairArrives(q) \/ EnrolStep(q) \/ Provision(q) \/ EnrolBoot
  PROVE  /\ codes' \in CodeTable /\ nodes' \in NodeTable /\ runs' \in RunTable
         /\ stage' \in [Request -> Stages]
<1>1. /\ codes \in CodeTable /\ nodes \in NodeTable /\ runs \in RunTable
      /\ stage \in [Request -> Stages]
  BY DEF RowsOK
<1> USE DEF CodeTable, NodeTable, RunTable, Stages
<1>2. CASE EnrolArrive(q)
  <2>1. CASE StartRun(q)
    BY <1>1, <2>1 DEF StartRun
  <2>2. CASE CreatePairingCode(q) \/ AddNode(q) \/ DeleteNode(q)
    BY <1>1, <2>2 DEF CreatePairingCode, AddNode, DeleteNode
  <2> QED
    BY <1>2, <2>1, <2>2 DEF EnrolArrive
<1>3. CASE PairArrives(q)
  BY <1>1, <1>3 DEF PairArrives, enrolVars
<1>4. CASE EnrolStep(q)
  <2>1. Ops(q, {"pair"}) /\ req[q].with \in NodeName /\ req[q].on \in Request
    BY <1>4 DEF EnrolStep, CreateNode, CheckCode, MarkCode, RollBackNode, At, ArgsOK, Ops
  <2> QED
    BY <1>1, <1>4, <2>1 DEF EnrolStep, CreateNode, CheckCode, MarkCode, RollBackNode, enrolVars
<1>5. CASE Provision(q)
  <2>1. \A status \in {"running", "success", "failed"} :
          SetRun(q, status) => runs' \in RunTable
    BY <1>1 DEF SetRun
  <2>2. \A status \in {"success", "failed"} :
          EndRun(q, status) => runs' \in RunTable /\ stage' \in [Request -> Stages]
    BY <1>1, <2>1 DEF EndRun
  <2>3. CASE Expire(q)
    BY <1>1, <2>3 DEF Expire
  <2>4. CASE LockEngine(q)
    BY <1>1, <2>1, <2>4 DEF LockEngine
  <2>5. CASE LoadContext(q) \/ StagePayloads(q) \/ Launch(q)
    BY <1>1, <2>2, <2>5 DEF LoadContext, StagePayloads, Launch, Pass
  <2>6. CASE IssuePairing(q)
    BY <1>1, <2>2, <2>6 DEF IssuePairing
  <2>7. CASE Play(q)
    BY <1>1, <2>2, <2>7 DEF Play
  <2> QED
    BY <1>5, <2>3, <2>4, <2>5, <2>6, <2>7 DEF Provision
<1>6. CASE EnrolBoot
  BY <1>1, <1>6 DEF EnrolBoot, NoRuns
<1> QED
  BY <1>2, <1>3, <1>4, <1>5, <1>6

(* The next table of a dump is the first it has not reached (NextTable).   *)
LEMMA TheTables ==
  /\ Len(Tables) = 5
  /\ Tables[1] = "flows" /\ Tables[2] = "users" /\ Tables[3] = "templates"
  /\ Tables[4] = "sessions" /\ Tables[5] = "jobs"
BY DEF Tables

(* The table a dump reads next is the first it has not reached. *)
LEMMA NextTableIs ==
  ASSUME NEW f, NEW i \in 1..5, ~Reached(f, Tables[i]), \A k \in 1..i-1 : Reached(f, Tables[k])
  PROVE  NextTable(f) = Tables[i]
<1> DEFINE P(j) == ~Reached(f, Tables[j]) /\ \A k \in 1..j-1 : Reached(f, Tables[k])
           c == CHOOSE j \in 1..Len(Tables) : P(j)
<1>1. \A j \in 1..5 : P(j) => j = i
  <2> SUFFICES ASSUME NEW j \in 1..5, P(j) PROVE j = i
    OBVIOUS
  <2>1. ~(j < i)
    <3>1. j < i => j \in 1..i-1
      OBVIOUS
    <3> QED
      BY <3>1
  <2>2. ~(i < j)
    <3>1. i < j => i \in 1..j-1
      OBVIOUS
    <3> QED
      BY <3>1
  <2> QED
    BY <2>1, <2>2
<1>2. P(i)
  OBVIOUS
<1> HIDE DEF P
<1>3. c \in 1..5 /\ P(c)
  BY <1>2, TheTables
<1>4. c = i
  BY <1>1, <1>3
<1>5. NextTable(f) = Tables[c]
  BY DEF NextTable, P
<1> QED
  BY <1>4, <1>5

(* Which one that is, as the tables are reached in their order. *)
LEMMA NextTableOf ==
  ASSUME NEW f, FileOK(f), ~Reached(f, "jobs")
  PROVE  NextTable(f) = IF ~Reached(f, "flows") THEN "flows"
                        ELSE IF ~Reached(f, "users") THEN "users"
                        ELSE IF ~Reached(f, "templates") THEN "templates"
                        ELSE IF ~Reached(f, "sessions") THEN "sessions" ELSE "jobs"
<1>1. CASE ~Reached(f, "flows")
  BY <1>1, TheTables, NextTableIs
<1>2. CASE Reached(f, "flows") /\ ~Reached(f, "users")
  <2>1. \A k \in 1..2-1 : k = 1
    OBVIOUS
  <2> QED
    BY <1>2, <2>1, TheTables, NextTableIs
<1>3. CASE Reached(f, "users") /\ ~Reached(f, "templates")
  <2>1. \A k \in 1..3-1 : k \in {1, 2}
    OBVIOUS
  <2>2. Reached(f, "flows")
    BY <1>3 DEF FileOK
  <2> QED
    BY <1>3, <2>1, <2>2, TheTables, NextTableIs
<1>4. CASE Reached(f, "templates") /\ ~Reached(f, "sessions")
  <2>1. \A k \in 1..4-1 : k \in {1, 2, 3}
    OBVIOUS
  <2>2. Reached(f, "flows") /\ Reached(f, "users")
    BY <1>4 DEF FileOK
  <2> QED
    BY <1>4, <2>1, <2>2, TheTables, NextTableIs
<1>5. CASE Reached(f, "sessions")
  <2>1. \A k \in 1..5-1 : k \in {1, 2, 3, 4}
    OBVIOUS
  <2>2. Reached(f, "flows") /\ Reached(f, "users") /\ Reached(f, "templates")
    BY <1>5 DEF FileOK
  <2> QED
    BY <1>5, <2>1, <2>2, TheTables, NextTableIs
<1> QED
  BY <1>1, <1>2, <1>3, <1>4, <1>5 DEF FileOK

(* A dump reads one more table as it is, and keeps those it has.           *)
LEMMA TableRead ==
  ASSUME RowsOK, FilesOK, HandlersOK, NEW q \in Request, Reading(q), DumpTable(q)
  PROVE  \E table \in TableName :
           /\ table = NextTable(file[q]) /\ ~Reached(file[q], table)
           /\ file' = [d \in Request |-> file'[d]]
           /\ \A d \in Request \ {q} : file'[d] = file[d]
           /\ file'[q] = [t \in TableName |-> file'[q][t]]
           /\ file'[q][table] = Rows(table)
           /\ \A t \in TableName \ {table} : file'[q][t] = file[q][t]
           /\ table = "jobs" <=> req'[q].pc # "table"
           /\ table # "jobs" => req' = req
<1>1. IsFile(q) /\ FileOK(file[q]) /\ ~Reached(file[q], "jobs")
      /\ req[q].pc = "table" /\ file = [d \in Request |-> file[d]]
  BY DEF Reading, FilesOK
<1> DEFINE table == NextTable(file[q])
<1>2. table \in TableName /\ ~Reached(file[q], table)
  BY <1>1, NextTableOf DEF TableName
<1>3. file[q] = [t \in TableName |-> file[q][t]]
  BY <1>1 DEF FileOK
<1>4. /\ file' = [file EXCEPT ![q][table] = Rows(table)]
      /\ IF table # "jobs" THEN UNCHANGED req
         ELSE Goto(q, IF req[q].op = "scheduledDump" THEN "prune" ELSE "end")
  BY <1>1, TheTables DEF DumpTable
<1> HIDE DEF table
<1>5. file' = [file EXCEPT ![q] = [file[q] EXCEPT ![table] = Rows(table)]]
  BY <1>1, <1>4
<1>6. file' = [d \in Request |-> file'[d]]
      /\ \A d \in Request \ {q} : file'[d] = file[d]
  BY <1>1, <1>5
<1>7. file'[q] = [file[q] EXCEPT ![table] = Rows(table)]
  BY <1>1, <1>5
<1>8. file'[q] = [t \in TableName |-> file'[q][t]] /\ file'[q][table] = Rows(table)
      /\ \A t \in TableName \ {table} : file'[q][t] = file[q][t]
  BY <1>2, <1>3, <1>7
<1>9. CASE table # "jobs"
  BY <1>1, <1>2, <1>4, <1>6, <1>8, <1>9 DEF table
<1>10. CASE table = "jobs"
  <2>1. req'[q].pc # "table"
    <3>1. PICK pc \in {"prune", "end"} : Goto(q, pc)
      BY <1>4, <1>10
    <3>2. q \in InService
      BY <1>1 DEF InService
    <3>3. pc # "none" /\ pc # "table"
      BY <3>1
    <3>4. GoesOn(q, pc)
      BY <3>1, <3>2, <3>3, GotoServes
    <3> QED
      BY <3>3, <3>4 DEF GoesOn
  <2> QED
    BY <1>2, <1>6, <1>8, <1>10, <2>1 DEF table
<1> QED
  BY <1>9, <1>10

DumpOps == {"manualDump", "scheduledDump"}

(* A dump that reads after a step that left the files alone read before.   *)
LEMMA ReadingStays ==
  ASSUME HandlersOK, file' = file,
         \/ req' = req
         \/ \E q \in Request : Serves(q) /\ req'[q].op \notin DumpOps
         \/ \E q \in Request, pc \in {"end", "cut", "prune"} : GoesOn(q, pc)
         \/ AllCutOff /\ InService' = {}
  PROVE  \A d \in Request : Reading(d)' => Reading(d) /\ req'[d] = req[d]
<1> SUFFICES ASSUME NEW d \in Request, Reading(d)' PROVE Reading(d) /\ req'[d] = req[d]
  OBVIOUS
<1>1. req'[d].op \in DumpOps /\ req'[d].pc = "table" /\ IsFile(d)
  BY DEF Reading, Dumps, DumpOps, IsFile
<1>2. req'[d] = req[d]
  <2>1. CASE req' = req
    BY <2>1
  <2>2. CASE \E q \in Request : Serves(q) /\ req'[q].op \notin DumpOps
    BY <1>1, <2>2 DEF Serves
  <2>3. CASE \E q \in Request, pc \in {"end", "cut", "prune"} : GoesOn(q, pc)
    <3>1. PICK q \in Request, pc \in {"end", "cut", "prune"} : GoesOn(q, pc)
      BY <2>3
    <3>2. Serves(q) /\ req'[q].pc = pc
      BY <3>1 DEF GoesOn
    <3> QED
      BY <1>1, <3>2 DEF Serves
  <2>4. CASE InService' = {}
    BY <1>1, <2>4 DEF InService
  <2> QED
    BY <2>1, <2>2, <2>3, <2>4
<1> QED
  BY <1>1, <1>2 DEF Reading, Dumps, DumpOps

(* What a table is, is what a dump gets of it.                             *)
LEMMA RowsOfTable ==
  ASSUME RowsOK
  PROVE  /\ Rows("flows") = [flows |-> flows, nodes |-> nodes]
         /\ Rows("users") = [users |-> users, apiToken |-> apiToken, codes |-> codes]
         /\ Rows("templates") = [custom |-> custom, builtin |-> builtin,
                                 series |-> series, runs |-> runs]
         /\ Rows("sessions") = sessions /\ Rows("jobs") = jobs
         /\ Rows("flows") \in [flows: FlowTable, nodes: NodeTable]
         /\ Rows("users") \in [users: UserTable, apiToken: BOOLEAN, codes: CodeTable]
         /\ Rows("templates") \in [custom: CustomScript, builtin: BuiltinScript,
                                   series: Flow \cup {Nil}, runs: RunTable]
<1>1. /\ Rows("flows") = [flows |-> flows, nodes |-> nodes]
      /\ Rows("users") = [users |-> users, apiToken |-> apiToken, codes |-> codes]
      /\ Rows("templates") = [custom |-> custom, builtin |-> builtin,
                              series |-> series, runs |-> runs]
      /\ Rows("sessions") = sessions /\ Rows("jobs") = jobs
  BY DEF Rows
<1> QED
  BY <1>1 DEF RowsOK

(* A dump that is begun has reached nothing. *)
LEMMA EmptyFileIs ==
  /\ EmptyFile = [t \in TableName |-> Nil]
  /\ \A t \in TableName : ~Reached(EmptyFile, t)
  /\ FileOK(EmptyFile)
<1>1. {Tables[i] : i \in 1..Len(Tables)} = TableName
  BY TheTables DEF TableName
<1>2. EmptyFile = [t \in TableName |-> Nil]
  BY <1>1 DEF EmptyFile
<1>3. \A t \in TableName : ~Reached(EmptyFile, t)
  BY <1>2 DEF Reached
<1> QED
  BY <1>2, <1>3 DEF FileOK, TableName

(* A dump d reads a table: nothing else happens.                           *)
Reads(d, table) ==
  /\ Reading(d) /\ table = NextTable(file[d]) /\ ~Reached(file[d], table)
  /\ file'[d] = [t \in TableName |-> file'[d][t]]
  /\ file'[d][table] = Rows(table)
  /\ \A t \in TableName \ {table} : file'[d][t] = file[d][t]
  /\ Reading(d)' => table # "jobs"
  /\ UNCHANGED <<accountVars, catalogVars, enrolVars, restored>>
  /\ req' = req \/ Serves(d)

(* What becomes of the dumps in a step: one is begun, one reads a table,   *)
(* and those that are not deleted stay as they are.                        *)
LEMMA DumpsStep ==
  ASSUME RowsOK, FilesOK, HandlersOK, \A q \in Request : ArgsOK(q), Next
  PROVE  /\ file' = [d \in Request |-> file'[d]]
         /\ \A d \in Request :
              IsFile(d)' =>
                \/ IsFile(d) /\ file'[d] = file[d] /\ (Reading(d)' => Reading(d))
                \/ file'[d] = EmptyFile
                \/ \E table \in TableName : Reads(d, table)
<1> DEFINE Stays(d) == IsFile(d) /\ file'[d] = file[d] /\ (Reading(d)' => Reading(d))
           Becomes(d) == Stays(d) \/ file'[d] = EmptyFile
                         \/ \E table \in TableName : Reads(d, table)
           Goal == /\ file' = [d \in Request |-> file'[d]]
                   /\ \A d \in Request : IsFile(d)' => Becomes(d)
<1>1. file = [d \in Request |-> file[d]]
  BY DEF FilesOK
<1>2. ASSUME NEW q \in Request, StartDump(q), Arriving(q) PROVE Goal
  <2>1. PICK op \in DumpOps : Begin(q, op, "table", Nil, Nil, Nil)
    BY <1>2 DEF StartDump, DumpOps
  <2>2. Comes(q, op, "table", Nil, Nil, Nil)
    BY <1>2, <2>1, BeginServes DEF DumpOps
  <2>3. file' = [file EXCEPT ![q] = EmptyFile]
    BY <1>2 DEF StartDump
  <2>4. file'[q] = EmptyFile /\ file' = [d \in Request |-> file'[d]]
        /\ \A d \in Request \ {q} : file'[d] = file[d]
    BY <1>1, <2>3
  <2>5. \A d \in Request \ {q} : IsFile(d)' => Stays(d)
    BY <2>2, <2>4 DEF Comes, Serves, Reading, Dumps, IsFile
  <2> QED
    BY <2>4, <2>5
<1>3. ASSUME NEW q \in Request, DeleteBackup(q), Arriving(q) PROVE Goal
  <2>1. PICK d \in Request :
          Begin(q, "deleteBackup", "end", d, Nil, Nil) /\ file' = [file EXCEPT ![d] = Nil]
    BY <1>3 DEF DeleteBackup
  <2>2. Comes(q, "deleteBackup", "end", d, Nil, Nil)
    BY <1>3, <2>1, BeginServes
  <2>3. /\ file'[d] = Nil /\ file' = [e \in Request |-> file'[e]]
        /\ \A e \in Request \ {d} : file'[e] = file[e]
    BY <1>1, <2>1
  <2>4. \A e \in Request : IsFile(e)' => IsFile(e) /\ file'[e] = file[e]
    BY <2>3 DEF IsFile
  <2>5. \A e \in Request : Reading(e)' => Reading(e)
    BY <2>2, <2>4 DEF Comes, Serves, Reading, Dumps
  <2> QED
    BY <2>3, <2>4, <2>5
<1>4. ASSUME NEW q \in InService, PruneScheduled(q) PROVE Goal
  <2>1. GoesOn(q, "end")
    BY <1>4, GotoServes DEF PruneScheduled, End
  <2>2. file' = [e \in Request |-> file'[e]]
        /\ \A e \in Request : file'[e] = Nil \/ file'[e] = file[e]
    BY <1>4 DEF PruneScheduled
  <2>3. \A e \in Request : IsFile(e)' => IsFile(e) /\ file'[e] = file[e]
    BY <2>2 DEF IsFile
  <2>4. \A e \in Request : Reading(e)' => Reading(e)
    BY <2>1, <2>3 DEF GoesOn, Serves, Reading, Dumps
  <2> QED
    BY <2>2, <2>3, <2>4
<1>5. ASSUME file' = file, \A d \in Request : Reading(d)' => Reading(d) PROVE Goal
  BY <1>1, <1>5 DEF IsFile
<1>6. ASSUME NEW q \in InService, BackupStep(q), DumpTable(q) PROVE Goal
  <2>1. q \in Request /\ q \in Dumps /\ req[q].pc = "table"
    BY <1>6 DEF DumpTable, InService
  <2>2. CASE ~IsFile(q)
    <3>1. Goto(q, "end") /\ file' = file
      BY <1>6, <2>2 DEF DumpTable, End
    <3>2. GoesOn(q, "end")
      BY <3>1, GotoServes
    <3> QED
      BY <1>5, <2>1, <3>1, <3>2, ReadingStays
  <2>3. CASE IsFile(q)
    <3>1. Reading(q)
      BY <2>1, <2>3 DEF Reading
    <3>2. PICK table \in TableName :
           /\ table = NextTable(file[q]) /\ ~Reached(file[q], table)
           /\ file' = [d \in Request |-> file'[d]]
           /\ \A d \in Request \ {q} : file'[d] = file[d]
           /\ file'[q] = [t \in TableName |-> file'[q][t]]
           /\ file'[q][table] = Rows(table)
           /\ \A t \in TableName \ {table} : file'[q][t] = file[q][t]
           /\ table = "jobs" <=> req'[q].pc # "table"
           /\ table # "jobs" => req' = req
      BY <1>6, <2>1, <3>1, TableRead
    <3>3. req' = req \/ Serves(q)
      BY <1>6, <2>1, BackupGoesOn
    <3>4. Reads(q, table)
      <4>1. UNCHANGED <<accountVars, catalogVars, enrolVars, restored>>
        BY <1>6 DEF BackupStep, DumpTable
      <4>2. Reading(q)' => table # "jobs"
        BY <3>2 DEF Reading
      <4> QED
        BY <3>1, <3>2, <3>3, <4>1, <4>2 DEF Reads
    <3>5. \A d \in Request \ {q} : IsFile(d)' => Stays(d)
      BY <3>2, <3>3 DEF Serves, Reading, Dumps, IsFile
    <3> QED
      BY <3>2, <3>4, <3>5
  <2> QED
    BY <2>2, <2>3
<1>7. ASSUME NEW q \in Request, Arrive(q) PROVE Goal
  <2>1. Arriving(q)
    BY <1>7 DEF Arrive
  <2>2. CASE BackupArrive(q)
    BY <1>2, <1>3, <2>1, <2>2 DEF BackupArrive
  <2>3. CASE ~BackupArrive(q)
    <3>1. Serves(q) /\ req'[q].op \notin DumpOps
      <4>1. CASE RestoreArrives(q)
        <5>1. PICK d \in Request : Begin(q, "restore", "replay", d, Nil, Nil)
          BY <4>1 DEF RestoreArrives
        <5>2. Comes(q, "restore", "replay", d, Nil, Nil)
          BY <2>1, <5>1, BeginServes
        <5> QED
          BY <5>2 DEF Comes, DumpOps
      <4>2. CASE AccountsArrive(q)
        BY <2>1, <4>2, AccountsComes DEF DumpOps, AccountOps
      <4>3. CASE CatalogArrive(q) \/ CreateJobArrives(q)
        BY <2>1, <4>3, CatalogComes, JobComes DEF DumpOps, CatalogOps
      <4>4. CASE EnrolArrive(q) \/ PairArrives(q)
        BY <2>1, <4>4, EnrolComes, PairComes DEF DumpOps, EnrolOps
      <4> QED
        BY <1>7, <2>3, <4>1, <4>2, <4>3, <4>4 DEF Arrive
    <3>2. file' = file
      BY <1>7, <2>3 DEF Arrive, RestoreArrives, backupVars
    <3> QED
      BY <1>5, <3>1, <3>2, ReadingStays
  <2> QED
    BY <2>2, <2>3
<1>8. ASSUME NEW q \in Request, Step(q) PROVE Goal
  <2>1. q \in InService
    BY <1>8 DEF Step
  <2>2. CASE BackupStep(q)
    BY <1>4, <1>6, <2>1, <2>2 DEF BackupStep
  <2>3. CASE Replay(q)
    <3>1. GoesOn(q, "end") /\ file' = file
      BY <2>1, <2>3, GotoServes DEF Replay, End, backupVars
    <3> QED
      BY <1>5, <3>1, ReadingStays
  <2>4. CASE ~BackupStep(q) /\ ~Replay(q)
    <3>1. AccountsStep(q) \/ CatalogStep(q) \/ EnrolStep(q)
      BY <1>8, <2>4 DEF Step
    <3>2. Serves(q) /\ req'[q].op \notin DumpOps
      BY <2>1, <3>1, AccountsGoOn, CatalogGoesOn, EnrolGoesOn
         DEF GoesOn, Serves, DumpOps, AccountOps, CatalogOps, EnrolOps, InService, HandlersOK
    <3>3. file' = file
      BY <1>8, <2>4 DEF Step, backupVars
    <3> QED
      BY <1>5, <3>2, <3>3, ReadingStays
  <2> QED
    BY <2>2, <2>3, <2>4
<1>9. ASSUME NEW q \in Request, ClientLeaves(q) PROVE Goal
  <2>1. GoesOn(q, "cut") /\ file' = file
    BY <1>9, GotoServes DEF ClientLeaves, CutOff, backupVars
  <2> QED
    BY <1>5, <2>1, ReadingStays
<1>10. ASSUME NEW q \in Request, Background(q) PROVE Goal
  <2>1. req' = req
    BY <1>10 DEF Background, Provision, Expire, LockEngine, LoadContext, StagePayloads,
       IssuePairing, Launch, Play
  <2> QED
    BY <1>5, <1>10, <2>1, ReadingStays DEF Background, backupVars
<1>11. ASSUME Restart PROVE Goal
  <2>1. AllCutOff /\ InService' = {} /\ file' = file
    BY <1>11, CutServes DEF Restart, backupVars
  <2> QED
    BY <1>5, <2>1, ReadingStays
<1>12. ASSUME Farm PROVE Goal
  BY <1>5, <1>12, ReadingStays DEF Farm, backupVars
<1> HIDE DEF Goal
<1>13. Goal
  BY <1>7, <1>8, <1>9, <1>10, <1>11, <1>12 DEF Next
<1> QED
  BY <1>13 DEF Goal

(* What was put back is on record.                                         *)
LEMMA RestoredStep ==
  ASSUME FilesOK, HandlersOK, \A q \in Request : ArgsOK(q), Next
  PROVE  restored \subseteq restored' /\ restored' \subseteq [dump: Request, whole: BOOLEAN]
<1>1. CASE restored' = restored
  BY <1>1 DEF FilesOK
<1>2. CASE \E q \in Request : Step(q) /\ Replay(q)
  <2>1. PICK q \in Request : Step(q) /\ Replay(q)
    BY <1>2
  <2>2. req[q].on \in Request
    BY <2>1 DEF Replay, At, ArgsOK, Ops
  <2>3. Whole(file[req[q].on]) \in BOOLEAN
    BY DEF Whole
  <2>4. \/ restored' = restored
        \/ restored' = restored \cup {[dump |-> req[q].on, whole |-> Whole(file[req[q].on])]}
    BY <2>1 DEF Replay, backupVars
  <2> QED
    BY <2>2, <2>3, <2>4 DEF FilesOK
<1>3. CASE ~(\E q \in Request : Step(q) /\ Replay(q))
  <2>1. \A q \in Request : Arrive(q) => restored' = restored
    BY DEF Arrive, BackupArrive, StartDump, DeleteBackup, RestoreArrives, backupVars
  <2>2. \A q \in Request : Step(q) => restored' = restored
    BY <1>3 DEF Step, BackupStep, DumpTable, PruneScheduled, backupVars
  <2> QED
    BY <1>1, <2>1, <2>2 DEF Next, ClientLeaves, Background, Restart, Farm, backupVars
<1> QED
  BY <1>2, <1>3

(* Every step leaves the dumps what they are: the first tables, each      *)
(* with rows of its type.                                                 *)
LEMMA FilesStep ==
  ASSUME RowsOK, FilesOK, HandlersOK, \A q \in Request : ArgsOK(q), Next
  PROVE  FilesOK'
<1>1. /\ file' = [d \in Request |-> file'[d]]
      /\ restored' \subseteq [dump: Request, whole: BOOLEAN]
  BY DumpsStep, RestoredStep
<1>2. ASSUME NEW d \in Request, IsFile(d)'
      PROVE  FileOK(file'[d]) /\ (Reading(d)' => ~Reached(file'[d], "jobs"))
  <2>1. CASE IsFile(d) /\ file'[d] = file[d] /\ (Reading(d)' => Reading(d))
    BY <2>1 DEF FilesOK
  <2>2. CASE file'[d] = EmptyFile
    BY <2>2, EmptyFileIs DEF TableName
  <2>3. ASSUME NEW table \in TableName, Reads(d, table)
        PROVE  FileOK(file'[d]) /\ (Reading(d)' => ~Reached(file'[d], "jobs"))
    <3>1. FileOK(file[d]) /\ ~Reached(file[d], "jobs")
      BY <2>3 DEF Reads, Reading, FilesOK
    <3>2. table = IF ~Reached(file[d], "flows") THEN "flows"
                  ELSE IF ~Reached(file[d], "users") THEN "users"
                  ELSE IF ~Reached(file[d], "templates") THEN "templates"
                  ELSE IF ~Reached(file[d], "sessions") THEN "sessions" ELSE "jobs"
      BY <2>3, <3>1, NextTableOf DEF Reads
    <3>3. \A t \in TableName \ {table} : Reached(file'[d], t) <=> Reached(file[d], t)
      BY <2>3 DEF Reached, Reads
    <3>4. sessions \in SessionTable /\ jobs \in JobTable
      BY DEF RowsOK
    <3>5. /\ Reached(file'[d], "flows") =>
               file'[d]["flows"] \in [flows: FlowTable, nodes: NodeTable]
          /\ Reached(file'[d], "users") =>
               file'[d]["users"] \in [users: UserTable, apiToken: BOOLEAN, codes: CodeTable]
          /\ Reached(file'[d], "templates") =>
               file'[d]["templates"] \in [custom: CustomScript, builtin: BuiltinScript,
                                         series: Flow \cup {Nil}, runs: RunTable]
          /\ Reached(file'[d], "sessions") => file'[d]["sessions"] \in SessionTable
          /\ Reached(file'[d], "jobs") => file'[d]["jobs"] \in JobTable
      BY <2>3, <3>1, <3>3, <3>4, RowsOfTable DEF FileOK, TableName, Reads
    <3>6. /\ Reached(file'[d], "users") => Reached(file'[d], "flows")
          /\ Reached(file'[d], "templates") => Reached(file'[d], "users")
          /\ Reached(file'[d], "sessions") => Reached(file'[d], "templates")
          /\ Reached(file'[d], "jobs") => Reached(file'[d], "sessions")
      BY <2>3, <3>1, <3>2, <3>3 DEF FileOK, TableName, Reads
    <3>7. Reading(d)' => ~Reached(file'[d], "jobs")
      BY <2>3, <3>1, <3>3 DEF Reads, TableName
    <3> QED
      BY <2>3, <3>5, <3>6, <3>7 DEF FileOK, Reads
  <2> QED
    BY <1>2, <2>1, <2>2, <2>3, DumpsStep
<1>3. \A d \in Request : Reading(d)' => IsFile(d)'
  BY DEF Reading
<1> HIDE DEF IsFile
<1> QED
  BY <1>1, <1>2, <1>3 DEF FilesOK

(* A dump is whole when it has reached the last table.                     *)
LEMMA WholeIs ==
  ASSUME FilesOK, NEW d \in Request, IsFile(d)
  PROVE  Whole(file[d]) <=> Reached(file[d], "jobs")
<1>1. FileOK(file[d])
  BY DEF FilesOK
<1>2. Whole(file[d]) <=> \A i \in 1..5 : Reached(file[d], Tables[i])
  BY TheTables DEF Whole, IsFile
<1>3. (\A i \in 1..5 : Reached(file[d], Tables[i]))
      <=> /\ Reached(file[d], Tables[1]) /\ Reached(file[d], Tables[2])
          /\ Reached(file[d], Tables[3]) /\ Reached(file[d], Tables[4])
          /\ Reached(file[d], Tables[5])
  OBVIOUS
<1> QED
  BY <1>1, <1>2, <1>3, TheTables DEF FileOK

(* A restore changes nothing, or puts what a dump has reached in the place *)
(* of the tables, and nothing in the place of the others (Replay).         *)
PutBack(d) ==
  LET f == file[d] IN
  /\ IsFile(d) /\ OrphanJobs(f) = {} /\ OrphanSessions(f) = {}
  /\ flows' = Content(f, "flows", NoFlows).flows /\ nodes' = Content(f, "flows", NoFlows).nodes
  /\ users' = Content(f, "users", NoUsers).users
  /\ apiToken' = Content(f, "users", NoUsers).apiToken
  /\ codes' = Content(f, "users", NoUsers).codes
  /\ custom' = Content(f, "templates", NoTemplates).custom
  /\ builtin' = Content(f, "templates", NoTemplates).builtin
  /\ series' = Content(f, "templates", NoTemplates).series
  /\ runs' = Content(f, "templates", NoTemplates).runs
  /\ sessions' = Content(f, "sessions", NoSessions)
  /\ jobs' = Content(f, "jobs", NoJobs)
  /\ restored' = restored \cup {[dump |-> d, whole |-> Whole(f)]}
  /\ UNCHANGED <<stage, file>>

(* A restore puts its dump back, all of it, or changes nothing. *)
LEMMA ReplayIs ==
  ASSUME HandlersOK, NEW q \in InService, ArgsOK(q), Replay(q)
  PROVE  /\ req[q].on \in Request /\ req[q].op = "restore" /\ req[q].pc = "replay"
         /\ GoesOn(q, "end")
         /\ \/ UNCHANGED <<accountVars, catalogVars, enrolVars, backupVars>>
            \/ PutBack(req[q].on)
<1>1. req[q].on \in Request /\ req[q].op = "restore" /\ req[q].pc = "replay"
  BY DEF Replay, At, ArgsOK, Ops
<1>2. GoesOn(q, "end")
  BY GotoServes DEF Replay, End
<1> QED
  BY <1>1, <1>2 DEF Replay, PutBack, IsFile

(* What is put back are tables, too.                                       *)
LEMMA EmptyTables ==
  /\ NoFlows.flows \in FlowTable /\ NoFlows.nodes \in NodeTable
  /\ NoUsers.users \in UserTable /\ NoUsers.apiToken \in BOOLEAN /\ NoUsers.codes \in CodeTable
  /\ NoTemplates.custom \in CustomScript /\ NoTemplates.builtin \in BuiltinScript
  /\ NoTemplates.series \in Flow \cup {Nil} /\ NoTemplates.runs \in RunTable
  /\ NoSessions \in SessionTable /\ NoJobs \in JobTable
<1>1. NoFlows.flows \in FlowTable /\ NoFlows.nodes \in NodeTable
  BY DEF NoFlows, FlowTable, NoNodes, NodeTable
<1>2. NoUsers.users \in UserTable /\ NoUsers.apiToken \in BOOLEAN /\ NoUsers.codes \in CodeTable
  BY DEF NoUsers, UserTable, NoCodes, CodeTable
<1>3. /\ NoTemplates.custom \in CustomScript /\ NoTemplates.builtin \in BuiltinScript
      /\ NoTemplates.series \in Flow \cup {Nil} /\ NoTemplates.runs \in RunTable
  BY DEF NoTemplates, CustomScript, BuiltinScript, NoRuns, RunTable
<1>4. NoSessions \in SessionTable /\ NoJobs \in JobTable
  BY DEF NoSessions, SessionTable, NoJobs, JobTable
<1> QED
  BY <1>1, <1>2, <1>3, <1>4

(* What is put back is well-typed. *)
LEMMA PutBackRows ==
  ASSUME RowsOK, FilesOK, NEW d \in Request, PutBack(d)
  PROVE  RowsOK'
<1> DEFINE f == file[d]
<1>1. FileOK(f)
  BY DEF PutBack, FilesOK
<1>2. /\ Content(f, "flows", NoFlows).flows \in FlowTable
      /\ Content(f, "flows", NoFlows).nodes \in NodeTable
  BY <1>1, EmptyTables DEF FileOK, Content
<1>3. /\ Content(f, "users", NoUsers).users \in UserTable
      /\ Content(f, "users", NoUsers).apiToken \in BOOLEAN
      /\ Content(f, "users", NoUsers).codes \in CodeTable
  BY <1>1, EmptyTables DEF FileOK, Content
<1>4. /\ Content(f, "templates", NoTemplates).custom \in CustomScript
      /\ Content(f, "templates", NoTemplates).builtin \in BuiltinScript
      /\ Content(f, "templates", NoTemplates).series \in Flow \cup {Nil}
      /\ Content(f, "templates", NoTemplates).runs \in RunTable
  BY <1>1, EmptyTables DEF FileOK, Content
<1>5. Content(f, "sessions", NoSessions) \in SessionTable /\ Content(f, "jobs", NoJobs) \in JobTable
  BY <1>1, EmptyTables DEF FileOK, Content
<1>6. stage' \in [Request -> Stages]
  BY DEF PutBack, RowsOK
<1> QED
  BY <1>2, <1>3, <1>4, <1>5, <1>6 DEF PutBack, RowsOK

(* A starting process makes the configured account, or gives it the        *)
(* configured password, or leaves the accounts alone (seedAdminUser).      *)
LEMMA AccountsBooted ==
  ASSUME RowsOK, AccountsBoot
  PROVE  /\ users' \in UserTable /\ sessions' \in SessionTable /\ apiToken' = apiToken
         /\ \/ /\ \A u \in User : users[u].name # Configured
               /\ users'[Seeded] = [name |-> Configured, role |-> "admin", pass |-> 0]
               /\ \A u \in User \ {Seeded} : users'[u] = users[u]
               /\ sessions' = sessions
            \/ \E u \in User : IsUser(u) /\ users' = SetPassword(u) /\ Revoke(u, Nil)
            \/ users' = users /\ sessions' = sessions
<1> DEFINE there == {u \in User : users[u].name = Configured}
<1>1. apiToken' = apiToken /\ users \in UserTable /\ sessions \in SessionTable
  BY DEF AccountsBoot, RowsOK
<1>2. CASE there = {}
  <2>1. [name |-> Configured, role |-> "admin", pass |-> 0] \in UserRow
    BY AccountsAssumption DEF UserRow, Names
  <2>2. users' = [users EXCEPT ![Seeded] = [name |-> Configured, role |-> "admin", pass |-> 0]]
        /\ sessions' = sessions
    BY <1>2 DEF AccountsBoot
  <2> QED
    BY <1>1, <1>2, <2>1, <2>2 DEF UserTable, User
<1>3. CASE there # {} /\ ForceReset
  <2>1. PICK u \in there : users' = SetPassword(u) /\ Revoke(u, Nil)
    BY <1>3 DEF AccountsBoot
  <2>2. Configured # Nil
    BY <2>1, AccountsAssumption DEF NoUser
  <2>3. u \in User /\ IsUser(u)
    BY <2>1, <2>2 DEF IsUser, NoUser
  <2> QED
    BY <1>1, <2>1, <2>3, PasswordSet, Revoked
<1>4. CASE there # {} /\ ~ForceReset
  BY <1>1, <1>4 DEF AccountsBoot
<1> QED
  BY <1>2, <1>3, <1>4

(* What a starting process seeds is well-typed. *)
LEMMA BootRows ==
  ASSUME RowsOK, HandlersOK, Restart
  PROVE  RowsOK'
<1>1. users' \in UserTable /\ sessions' \in SessionTable /\ apiToken' \in BOOLEAN
  BY AccountsBooted DEF Restart, RowsOK
<1>2. flows' \in FlowTable
  BY DefaultSeeded DEF Restart, CatalogBoot
<1>3. builtin' \in BuiltinScript
  BY DEF Restart, CatalogBoot, RowsOK, BuiltinScript, UpgradeIfFactory, InsertIfAbsent
<1>4. custom' \in CustomScript /\ series' \in Flow \cup {Nil} /\ jobs' \in JobTable
  BY DEF Restart, CatalogBoot, RowsOK
<1>5. codes' \in CodeTable /\ nodes' \in NodeTable
  BY DEF Restart, EnrolBoot, RowsOK
<1>6. runs' \in RunTable /\ stage' \in [Request -> Stages]
  BY DEF Restart, EnrolBoot, RowsOK, RunTable, NoRuns, Stages
<1> QED
  BY <1>1, <1>2, <1>3, <1>4, <1>5, <1>6 DEF RowsOK

(* Every step leaves rows. *)
LEMMA RowsStep ==
  ASSUME RowsOK, FilesOK, HandlersOK, \A q \in Request : ArgsOK(q), Next
  PROVE  RowsOK'
<1>1. ASSUME NEW q \in Request, Arrive(q) PROVE RowsOK'
  <2>1. CASE AccountsArrive(q) /\ UNCHANGED <<catalogVars, enrolVars, backupVars>>
    BY <2>1, AccountRowsStep DEF RowsOK, catalogVars, enrolVars
  <2>2. CASE (CatalogArrive(q) \/ CreateJobArrives(q))
             /\ UNCHANGED <<accountVars, enrolVars, backupVars>>
    BY <2>2, CatalogRowsStep DEF RowsOK, accountVars, enrolVars
  <2>3. CASE (EnrolArrive(q) \/ PairArrives(q))
             /\ UNCHANGED <<accountVars, catalogVars, backupVars>>
    BY <2>3, EnrolRowsStep DEF RowsOK, accountVars, catalogVars
  <2>4. CASE BackupArrive(q) \/ RestoreArrives(q)
    BY <2>4 DEF BackupArrive, RestoreArrives, RowsOK, accountVars, catalogVars, enrolVars
  <2> QED
    BY <1>1, <2>1, <2>2, <2>3, <2>4 DEF Arrive
<1>2. ASSUME NEW q \in Request, Step(q) PROVE RowsOK'
  <2>1. CASE AccountsStep(q) /\ UNCHANGED <<catalogVars, enrolVars, backupVars>>
    BY <2>1, AccountRowsStep DEF RowsOK, catalogVars, enrolVars
  <2>2. CASE CatalogStep(q) /\ UNCHANGED <<accountVars, enrolVars, backupVars>>
    BY <2>2, CatalogRowsStep DEF RowsOK, accountVars, enrolVars
  <2>3. CASE EnrolStep(q) /\ UNCHANGED <<accountVars, catalogVars, backupVars>>
    BY <2>3, EnrolRowsStep DEF RowsOK, accountVars, catalogVars
  <2>4. CASE BackupStep(q)
    BY <2>4 DEF BackupStep, RowsOK, accountVars, catalogVars, enrolVars
  <2>5. CASE Replay(q)
    <3>1. PICK d \in Request :
            UNCHANGED <<accountVars, catalogVars, enrolVars, backupVars>> \/ PutBack(d)
      BY <1>2, <2>5, ReplayIs DEF Step
    <3>2. CASE UNCHANGED <<accountVars, catalogVars, enrolVars, backupVars>>
      BY <3>2 DEF RowsOK, accountVars, catalogVars, enrolVars
    <3> QED
      BY <3>1, <3>2, PutBackRows
  <2> QED
    BY <1>2, <2>1, <2>2, <2>3, <2>4, <2>5 DEF Step
<1>3. ASSUME NEW q \in Request, ClientLeaves(q) PROVE RowsOK'
  BY <1>3 DEF ClientLeaves, RowsOK, accountVars, catalogVars, enrolVars
<1>4. ASSUME NEW q \in Request, Background(q) PROVE RowsOK'
  BY <1>4, EnrolRowsStep DEF Background, RowsOK, accountVars, catalogVars
<1>5. CASE Restart
  BY <1>5, BootRows
<1>6. CASE Farm
  <2>1. jobs' \in JobTable /\ UNCHANGED <<flows, custom, builtin, series>>
    BY <1>6 DEF Farm, FinishJob, RowsOK, JobTable, JobRow, NoJob
  <2> QED
    BY <1>6, <2>1 DEF Farm, RowsOK, accountVars, enrolVars
<1> QED
  BY <1>1, <1>2, <1>3, <1>4, <1>5, <1>6 DEF Next

(* The types hold at first. *)
LEMMA InitTypes == Init => Types
<1> SUFFICES ASSUME Init PROVE Types
  OBVIOUS
<1>1. HandlersOK /\ \A q \in Request : ArgsOK(q)
  <2>1. \A q \in Request : req[q] = Unserved
    BY DEF Init, RequestsInit
  <2>2. IsHandler(Unserved)
    BY DEF IsHandler, Unserved
  <2>3. req = [q \in Request |-> req[q]]
    BY DEF Init, RequestsInit
  <2> QED
    BY <2>1, <2>2, <2>3 DEF HandlersOK, ArgsOK, Ops, Unserved
<1>2. users \in UserTable /\ sessions \in SessionTable /\ apiToken \in BOOLEAN
  BY AccountsAssumption
     DEF Init, AccountsInit, UserTable, SessionTable, UserRow, SessionRow, User, Session, Names,
         NoUser, NoSession
<1>3. /\ flows \in FlowTable /\ jobs \in JobTable /\ custom \in CustomScript
      /\ builtin \in BuiltinScript /\ series \in Flow \cup {Nil}
  BY CatalogAssumption
     DEF Init, CatalogInit, FlowTable, JobTable, CustomScript, BuiltinScript, FlowRow, Flow,
         NoFlow, NoJob
<1>4. /\ codes \in CodeTable /\ nodes \in NodeTable /\ runs \in RunTable
      /\ stage \in [Request -> Stages]
  BY DEF Init, EnrolInit, NoCodes, NoNodes, NoRuns, CodeTable, NodeTable, RunTable, Stages
<1>5. FilesOK
  BY DEF Init, FilesOK, IsFile, Reading
<1>6. boots \in 0..MaxBoots
  BY AdminAssumption DEF Init
<1> QED
  BY <1>1, <1>2, <1>3, <1>4, <1>5, <1>6 DEF Types, RowsOK

(* The types are inductive by themselves. *)
LEMMA TypesStep == Types /\ [Next]_vars => Types'
<1> SUFFICES ASSUME Types, [Next]_vars PROVE Types'
  OBVIOUS
<1>1. RowsOK /\ FilesOK /\ HandlersOK /\ (\A q \in Request : ArgsOK(q)) /\ boots \in 0..MaxBoots
  BY DEF Types
<1>2. CASE Next
  <2>1. boots' \in 0..MaxBoots
    BY <1>1, <1>2, AdminAssumption
       DEF Next, Arrive, Step, ClientLeaves, Background, Restart, Farm
  <2> QED
    BY <1>1, <1>2, <2>1, HandlersStep, FilesStep, RowsStep DEF Types
<1>3. CASE UNCHANGED vars
  <2>1. UNCHANGED <<req, users, sessions, apiToken, flows, custom, builtin, series, jobs,
                    codes, nodes, runs, stage, file, restored, boots>>
    BY <1>3 DEF vars, accountVars, catalogVars, enrolVars, backupVars
  <2>2. RowsOK' /\ boots' \in 0..MaxBoots
    BY <1>1, <2>1 DEF RowsOK
  <2>3. FilesOK'
    BY <1>1, <2>1 DEF FilesOK, IsFile, FileOK, Reached, Reading, Dumps
  <2>4. HandlersOK' /\ \A q \in Request : ArgsOK(q)'
    BY <1>1, <2>1 DEF HandlersOK, IsHandler, Ended, ArgsOK, Ops
  <2> QED
    BY <2>2, <2>3, <2>4 DEF Types
<1> QED
  BY <1>2, <1>3

(* Rows, dumps and handlers are always what they should be; no dump has a  *)
(* table without those before it.                                          *)
THEOREM TypesHold == Spec => []Types
<1> QED
  BY InitTypes, TypesStep, PTL DEF Spec

(* The declared types follow. *)
THEOREM TypeCorrect == Spec => []TypeOK
<1>1. Types => TypeOK
  <2> SUFFICES ASSUME Types PROVE TypeOK
    OBVIOUS
  <2>1. AccountsTypeOK
    <3>1. UserRow \cup {NoUser} \subseteq [name: Names \cup {Nil}, role: {"none", "admin", "viewer"},
                                          pass: Nat]
      BY DEF UserRow, NoUser
    <3>2. SessionRow \cup {NoSession} \subseteq [user: User \cup {Nil}, proof: Nat]
      BY DEF SessionRow, NoSession
    <3> QED
      BY <3>1, <3>2 DEF Types, RowsOK, AccountsTypeOK, UserTable, SessionTable
  <2>2. CatalogTypeOK
    <3>1. FlowRow \cup {NoFlow} \subseteq [name: FlowName \cup {Nil}, uses: {Nil, Custom}, flag: BOOLEAN]
      <4> DEFINE Row == [name: FlowName \cup {Nil}, uses: {Nil, Custom}, flag: BOOLEAN]
      <4>1. NoFlow \in Row
        BY DEF NoFlow
      <4>2. FlowRow \subseteq Row
        BY DEF FlowRow
      <4> QED
        BY <4>1, <4>2
    <3>2. JobRow \cup {NoJob} \subseteq [flow: Flow \cup {Nil}, status: {"none", "active", "over"}]
      BY DEF JobRow, NoJob
    <3> QED
      BY <3>1, <3>2
         DEF Types, RowsOK, CatalogTypeOK, FlowTable, JobTable, CustomScript, BuiltinScript
  <2>3. EnrolTypeOK
    BY DEF Types, RowsOK, EnrolTypeOK, CodeTable, NodeTable, RunTable, Stages
  <2>4. DOMAIN EmptyFile = TableName
    BY TheTables DEF EmptyFile, TableName
  <2>5. \A q \in Request : IsFile(q) => DOMAIN file[q] = TableName
    <3> SUFFICES ASSUME NEW q \in Request, IsFile(q) PROVE DOMAIN file[q] = TableName
      OBVIOUS
    <3>1. file[q] = [t \in TableName |-> file[q][t]]
      BY DEF Types, FilesOK, FileOK
    <3> QED
      BY <3>1
  <2>6. restored \subseteq [dump: Request, whole: BOOLEAN] /\ boots \in 0..MaxBoots
    BY DEF Types, FilesOK
  <2> QED
    BY <2>1, <2>2, <2>3, <2>4, <2>5, <2>6 DEF TypeOK
<1> QED
  BY <1>1, TypesHold, PTL

----------------------------------------------------------------------------
(* What every invariant needs to know of a step.                           *)

(* The parts of the types, for citing. *)
LEMMA TypesParts ==
  ASSUME Types
  PROVE  RowsOK /\ FilesOK /\ HandlersOK /\ \A q \in Request : ArgsOK(q)
BY DEF Types

(* In a step at most one handler goes on, or all are cut off. *)
LEMMA HandlersGo ==
  ASSUME Types, Next
  PROVE  /\ HandlersOK' /\ Types'
         /\ req' = req \/ (\E q \in Request : Serves(q)) \/ AllCutOff
<1>1. [Next]_vars
  OBVIOUS
<1> QED
  BY <1>1, TypesParts, TypesStep, HandlersStep DEF Types

(* Two requests in service overlap.                                        *)
LEMMA InServiceOverlap ==
  ASSUME HandlersOK, NEW p \in InService, NEW q \in InService, p # q
  PROVE  Overlap(p, q) /\ Overlap(q, p)
BY DEF HandlersOK, InService, Ended, Overlap

(* What has happened stays on record: an operation asked for, two requests *)
(* that have met, a dump that was put back.                                *)
LEMMA OpsStay ==
  ASSUME Types, Next, NEW ops, "none" \notin ops, NEW q \in Request, Ops(q, ops)
  PROVE  Ops(q, ops)'
<1>1. req[q].op # "none"
  BY DEF Ops
<1>2. req'[q].op = req[q].op
  BY <1>1, HandlersGo, TypesParts, OnRecord
<1> QED
  BY <1>2 DEF Ops

(* Requests that were in service together have been so ever after. *)
LEMMA OverlapsStay ==
  ASSUME Types, Next
  PROVE  \A p, q \in Request : Overlap(p, q) => Overlap(p, q)'
BY HandlersGo, TypesParts, OnRecord

(* So a race stays on record, *)
LEMMA RaceStays ==
  ASSUME Types, Next, NEW first, NEW second, "none" \notin first \cup second,
         Race(first, second)
  PROVE  Race(first, second)'
<1>1. PICK p, q \in Request : Ops(p, first) /\ Ops(q, second) /\ Overlap(p, q)
  BY DEF Race
<1>2. Ops(p, first)' /\ Ops(q, second)' /\ Overlap(p, q)'
  BY <1>1, OpsStay, OverlapsStay
<1> QED
  BY <1>2 DEF Race

(* and a restore does. *)
LEMMA RestoresStay ==
  ASSUME Types, Next
  PROVE  /\ restored \subseteq restored'
         /\ RestoredInPart => RestoredInPart'
         /\ \A d \in Request : RestoredDump(d) => RestoredDump(d)'
<1>1. restored \subseteq restored'
  BY TypesParts, RestoredStep
<1> QED
  BY <1>1 DEF RestoredInPart, RestoredDump

(* A request that has come has come by its own arrival.                    *)
LEMMA NewComer ==
  ASSUME Types, Next, NEW q \in Request, req[q].op = "none", req'[q].op # "none"
  PROVE  Arrive(q) /\ Arriving(q)
<1>1. HandlersOK /\ (\A p \in Request : ArgsOK(p)) /\ RowsOK
  BY TypesParts
<1>2. ASSUME NEW p \in Request, Step(p) PROVE FALSE
  <2>1. p \in InService
    BY <1>2 DEF Step
  <2>2. req' = req \/ Serves(p)
    BY <1>1, <1>2, <2>1, AccountsGoOn, CatalogGoesOn, EnrolGoesOn, BackupGoesOn, ReplayIs
       DEF Step, GoesOn
  <2>3. p # q
    BY <1>1, <2>1 DEF HandlersOK, InService
  <2> QED
    BY <2>2, <2>3 DEF Serves
<1>3. ASSUME NEW p \in Request, ClientLeaves(p) PROVE FALSE
  <2>1. p \in InService /\ Serves(p)
    BY <1>1, <1>3, GotoServes DEF ClientLeaves, CutOff, GoesOn
  <2>2. p # q
    BY <1>1, <2>1 DEF HandlersOK, InService
  <2> QED
    BY <2>1, <2>2 DEF Serves
<1>4. ASSUME NEW p \in Request, Background(p) PROVE FALSE
  BY <1>4 DEF Background, Provision, Expire, LockEngine, LoadContext, StagePayloads,
     IssuePairing, Launch, Play
<1>5. ASSUME Restart PROVE FALSE
  BY <1>1, <1>5, CutServes DEF Restart
<1>6. ASSUME Farm PROVE FALSE
  BY <1>6 DEF Farm
<1>7. PICK p \in Request : Arrive(p)
  BY <1>2, <1>3, <1>4, <1>5, <1>6 DEF Next
<1>8. Arriving(p)
  BY <1>7 DEF Arrive
<1>9. Serves(p)
  BY <1>1, <1>7, <1>8, AccountsComes, CatalogComes, JobComes, EnrolComes, PairComes, BackupComes,
     RestoreComes DEF Arrive
<1>10. p = q
  BY <1>9 DEF Serves
<1> QED
  BY <1>7, <1>8, <1>10

(* A dump has a table because it had it, or reads it now.                  *)
LEMMA Dumped ==
  ASSUME Types, Next, NEW d \in Request, IsFile(d)', NEW t \in TableName,
         Reached(file'[d], t)
  PROVE  \/ /\ IsFile(d) /\ Reached(file[d], t) /\ file'[d][t] = file[d][t]
            /\ Reading(d)' => Reading(d)
         \/ Reads(d, t) /\ file'[d][t] = Rows(t)
<1>1. \/ IsFile(d) /\ file'[d] = file[d] /\ (Reading(d)' => Reading(d))
      \/ file'[d] = EmptyFile
      \/ \E table \in TableName : Reads(d, table)
  BY TypesParts, DumpsStep
<1>2. file'[d] # EmptyFile
  BY EmptyFileIs
<1>3. ASSUME NEW table \in TableName, Reads(d, table), table # t
      PROVE  IsFile(d) /\ Reached(file[d], t) /\ file'[d][t] = file[d][t] /\ Reading(d)
  BY <1>3 DEF Reads, Reading, Reached
<1> QED
  BY <1>1, <1>2, <1>3 DEF Reads

(* Whose step changes the accounts, the catalog, the enrolment.            *)
LEMMA AccountsChange ==
  ASSUME Types, Next
  PROVE  \/ UNCHANGED accountVars
         \/ /\ UNCHANGED <<catalogVars, enrolVars, backupVars>>
            /\ \/ \E q \in Request : Arriving(q) /\ (Logout(q) \/ FlipToken(q))
               \/ \E q \in InService : AccountsStep(q)
         \/ \E q \in InService : Replay(q) /\ req[q].on \in Request /\ PutBack(req[q].on)
         \/ Restart
<1>1. ASSUME NEW q \in Request, Arrive(q)
      PROVE  \/ UNCHANGED accountVars
             \/ /\ UNCHANGED <<catalogVars, enrolVars, backupVars>>
                /\ Arriving(q) /\ (Logout(q) \/ FlipToken(q))
  BY <1>1 DEF Arrive, AccountsArrive, BackupArrive, RestoreArrives, accountVars
<1>2. ASSUME NEW q \in Request, Step(q)
      PROVE  \/ UNCHANGED accountVars
             \/ /\ UNCHANGED <<catalogVars, enrolVars, backupVars>>
                /\ q \in InService /\ AccountsStep(q)
             \/ q \in InService /\ Replay(q) /\ req[q].on \in Request /\ PutBack(req[q].on)
  <2>1. CASE Replay(q)
    BY <1>2, <2>1, TypesParts, ReplayIs DEF Step
  <2> QED
    BY <1>2, <2>1 DEF Step, BackupStep
<1> QED
  BY <1>1, <1>2 DEF Next, ClientLeaves, Background, Farm

(* Whose step changes the catalog: a catalog handler's, a finished        *)
(* job's, a restore's or a start's.                                       *)
LEMMA CatalogChange ==
  ASSUME Types, Next
  PROVE  \/ UNCHANGED catalogVars
         \/ /\ UNCHANGED <<accountVars, enrolVars, backupVars>>
            /\ \/ \E q \in Request :
                    Arriving(q) /\ (CreateTemplate(q) \/ ResetTemplate(q) \/ RequeueOrDeleteJob(q))
               \/ \E q \in InService : CatalogStep(q)
         \/ \E q \in InService : Replay(q) /\ req[q].on \in Request /\ PutBack(req[q].on)
         \/ Restart
         \/ Farm
<1>1. ASSUME NEW q \in Request, Arrive(q)
      PROVE  \/ UNCHANGED catalogVars
             \/ /\ UNCHANGED <<accountVars, enrolVars, backupVars>>
                /\ Arriving(q) /\ (CreateTemplate(q) \/ ResetTemplate(q) \/ RequeueOrDeleteJob(q))
  BY <1>1 DEF Arrive, CatalogArrive, CreateJobArrives, BackupArrive, RestoreArrives, catalogVars
<1>2. ASSUME NEW q \in Request, Step(q)
      PROVE  \/ UNCHANGED catalogVars
             \/ /\ UNCHANGED <<accountVars, enrolVars, backupVars>>
                /\ q \in InService /\ CatalogStep(q)
             \/ q \in InService /\ Replay(q) /\ req[q].on \in Request /\ PutBack(req[q].on)
  <2>1. CASE Replay(q)
    BY <1>2, <2>1, TypesParts, ReplayIs DEF Step
  <2> QED
    BY <1>2, <2>1 DEF Step, BackupStep
<1> QED
  BY <1>1, <1>2 DEF Next, ClientLeaves, Background

(* What is there after a restore is what the dump has, or, if it has not   *)
(* reached the table, nothing; then it was not whole.                      *)
LEMMA PutBackIs ==
  ASSUME FilesOK, NEW d \in Request, PutBack(d)
  PROVE  /\ IsFile(d) /\ FileOK(file[d]) /\ RestoredDump(d)' /\ restored' # {}
         /\ ~RestoredInPart' => \A t \in TableName : Reached(file[d], t)
         /\ Reached(file[d], "flows") => flows' = file[d]["flows"].flows
         /\ ~Reached(file[d], "flows") => flows' = [f \in Flow |-> NoFlow]
         /\ Reached(file[d], "users") => users' = file[d]["users"].users
         /\ ~Reached(file[d], "users") => users' = [u \in User |-> NoUser]
         /\ Reached(file[d], "templates") => custom' = file[d]["templates"].custom
         /\ Reached(file[d], "sessions") => sessions' = file[d]["sessions"]
         /\ ~Reached(file[d], "sessions") => sessions' = [s \in Session |-> NoSession]
         /\ Reached(file[d], "jobs") => jobs' = file[d]["jobs"]
         /\ ~Reached(file[d], "jobs") => jobs' = [j \in Request |-> NoJob]
<1> DEFINE r == [dump |-> d, whole |-> Whole(file[d])]
<1>1. IsFile(d) /\ FileOK(file[d]) /\ r \in restored'
  BY DEF PutBack, FilesOK
<1>2. RestoredDump(d)' /\ restored' # {}
  BY <1>1 DEF RestoredDump
<1>3. ~RestoredInPart' => r.whole
  BY <1>1 DEF RestoredInPart
<1>4. ~RestoredInPart' => \A t \in TableName : Reached(file[d], t)
  BY <1>1, <1>3, WholeIs DEF FileOK, TableName
<1>5. /\ Reached(file[d], "flows") => flows' = file[d]["flows"].flows
      /\ ~Reached(file[d], "flows") => flows' = [f \in Flow |-> NoFlow]
  BY DEF PutBack, Content, NoFlows
<1>6. /\ Reached(file[d], "users") => users' = file[d]["users"].users
      /\ ~Reached(file[d], "users") => users' = [u \in User |-> NoUser]
  BY DEF PutBack, Content, NoUsers
<1>7. Reached(file[d], "templates") => custom' = file[d]["templates"].custom
  BY DEF PutBack, Content
<1>8. /\ Reached(file[d], "sessions") => sessions' = file[d]["sessions"]
      /\ ~Reached(file[d], "sessions") => sessions' = [s \in Session |-> NoSession]
      /\ Reached(file[d], "jobs") => jobs' = file[d]["jobs"]
      /\ ~Reached(file[d], "jobs") => jobs' = [j \in Request |-> NoJob]
  BY DEF PutBack, Content, NoSessions, NoJobs
<1> QED
  BY <1>1, <1>2, <1>4, <1>5, <1>6, <1>7, <1>8

(* What a request has come for tells by which of the arrivals.             *)
LEMMA CameFor ==
  ASSUME HandlersOK, NEW q \in Request, Arriving(q)
  PROVE  /\ LoginArrives(q) => req'[q].op = "login"
         /\ ChangeArrives(q) \/ ResetArrives(q) => req'[q].op = "password"
         /\ CreateUserArrives(q) => req'[q].op = "createUser"
         /\ DeleteUserArrives(q) => req'[q].op = "deleteUser"
         /\ Logout(q) => req'[q].op = "logout"
         /\ FlipToken(q) => req'[q].op = "apiToken"
         /\ CreateFlowArrives(q) \/ DuplicateArrives(q) => req'[q].op = "createFlow"
         /\ UpdateFlowArrives(q) => req'[q].op = "updateFlow"
         /\ DeleteFlowArrives(q) => req'[q].op = "deleteFlow"
         /\ SetDefaultArrives(q) => req'[q].op = "setDefault"
         /\ ImportLooksUp(q) => req'[q].op = "importFlow"
         /\ UpdateTemplateArrives(q) => req'[q].op = "updateTemplate"
         /\ DeleteTemplateArrives(q) => req'[q].op = "deleteTemplate"
         /\ PatchSeriesArrives(q) => req'[q].op = "patchSeries"
         /\ PatchJobArrives(q) => req'[q].op = "patchJob"
         /\ CreateTemplate(q) => req'[q].op = "createTemplate"
         /\ ResetTemplate(q) => req'[q].op = "resetTemplate"
         /\ RequeueOrDeleteJob(q) => req'[q].op = "finishedJob"
         /\ CreateJobArrives(q) => req'[q].op = "createJob"
<1>1. req = [p \in Request |-> req[p]]
  BY DEF HandlersOK
<1>2. \A op, pc, on, with, seen : Begin(q, op, pc, on, with, seen) => req'[q].op = op
  BY <1>1 DEF Begin
<1>3. /\ LoginArrives(q) => req'[q].op = "login"
      /\ ChangeArrives(q) \/ ResetArrives(q) => req'[q].op = "password"
      /\ CreateUserArrives(q) => req'[q].op = "createUser"
      /\ DeleteUserArrives(q) => req'[q].op = "deleteUser"
      /\ Logout(q) => req'[q].op = "logout"
      /\ FlipToken(q) => req'[q].op = "apiToken"
  BY <1>2 DEF LoginArrives, ChangeArrives, ResetArrives, CreateUserArrives, DeleteUserArrives,
     Logout, FlipToken
<1>4. /\ CreateFlowArrives(q) \/ DuplicateArrives(q) => req'[q].op = "createFlow"
      /\ UpdateFlowArrives(q) => req'[q].op = "updateFlow"
      /\ DeleteFlowArrives(q) => req'[q].op = "deleteFlow"
      /\ SetDefaultArrives(q) => req'[q].op = "setDefault"
      /\ ImportLooksUp(q) => req'[q].op = "importFlow"
  BY <1>2 DEF CreateFlowArrives, DuplicateArrives, UpdateFlowArrives, DeleteFlowArrives,
     SetDefaultArrives, ImportLooksUp
<1>5. /\ UpdateTemplateArrives(q) => req'[q].op = "updateTemplate"
      /\ DeleteTemplateArrives(q) => req'[q].op = "deleteTemplate"
      /\ PatchSeriesArrives(q) => req'[q].op = "patchSeries"
      /\ PatchJobArrives(q) => req'[q].op = "patchJob"
      /\ CreateTemplate(q) => req'[q].op = "createTemplate"
      /\ ResetTemplate(q) => req'[q].op = "resetTemplate"
      /\ RequeueOrDeleteJob(q) => req'[q].op = "finishedJob"
      /\ CreateJobArrives(q) => req'[q].op = "createJob"
  BY <1>2 DEF UpdateTemplateArrives, DeleteTemplateArrives, PatchSeriesArrives, PatchJobArrives,
     CreateTemplate, ResetTemplate, RequeueOrDeleteJob, CreateJobArrives
<1> QED
  BY <1>3, <1>4, <1>5

(* A request of the flows or the templates has come by that arrival.       *)
LEMMA CameForFlow ==
  ASSUME Types, NEW q \in Request, Arriving(q), Arrive(q)
  PROVE  /\ req'[q].op = "createFlow" => CreateFlowArrives(q) \/ DuplicateArrives(q)
         /\ req'[q].op = "updateFlow" => UpdateFlowArrives(q)
         /\ req'[q].op = "deleteFlow" => DeleteFlowArrives(q)
         /\ req'[q].op = "importFlow" => ImportLooksUp(q)
         /\ req'[q].op = "deleteTemplate" => DeleteTemplateArrives(q)
         /\ req'[q].op = "finishedJob" => RequeueOrDeleteJob(q)
         /\ req'[q].op \in CatalogOps =>
              /\ CatalogArrive(q) \/ CreateJobArrives(q)
              /\ UNCHANGED <<accountVars, enrolVars, backupVars>>
<1>1. RowsOK /\ HandlersOK
  BY TypesParts
<1>2. ASSUME req'[q].op \in CatalogOps
      PROVE  (CatalogArrive(q) \/ CreateJobArrives(q))
             /\ UNCHANGED <<accountVars, enrolVars, backupVars>>
  <2>1. ~AccountsArrive(q)
    BY <1>1, <1>2, AccountsComes DEF AccountOps, CatalogOps
  <2>2. ~EnrolArrive(q) /\ ~PairArrives(q)
    BY <1>1, <1>2, EnrolComes, PairComes DEF EnrolOps, CatalogOps
  <2>3. ~BackupArrive(q) /\ ~RestoreArrives(q)
    BY <1>1, <1>2, BackupComes, RestoreComes DEF BackupOps, CatalogOps
  <2> QED
    BY <2>1, <2>2, <2>3 DEF Arrive
<1>3. ASSUME req'[q].op \in CatalogOps
      PROVE  /\ req'[q].op = "createFlow" => CreateFlowArrives(q) \/ DuplicateArrives(q)
             /\ req'[q].op = "updateFlow" => UpdateFlowArrives(q)
             /\ req'[q].op = "deleteFlow" => DeleteFlowArrives(q)
             /\ req'[q].op = "importFlow" => ImportLooksUp(q)
             /\ req'[q].op = "deleteTemplate" => DeleteTemplateArrives(q)
             /\ req'[q].op = "finishedJob" => RequeueOrDeleteJob(q)
  BY <1>1, <1>2, <1>3, CameFor DEF CatalogArrive
<1> QED
  BY <1>2, <1>3 DEF CatalogOps

----------------------------------------------------------------------------
(* The flows, row by row: whose step changes them, and how.                *)

FlowInserted(q) ==
  /\ Ops(q, {"createFlow", "importFlow"}) /\ req[q].pc = "insert"
  /\ flows' \in FlowTable /\ Named(req[q].on) = {}
  /\ flows'[q] = [name |-> req[q].on, uses |-> req[q].with, flag |-> FALSE]
  /\ \A f \in Flow \ {q} : flows'[f] = flows[f]

FlowUpdated(q) ==
  /\ At(q, "updateFlow", "write")
  /\ req[q].on \in Flow /\ flows[req[q].on] # NoFlow
  /\ flows'[req[q].on] = [name |-> req[q].with.name, uses |-> req[q].with.uses,
                          flag |-> flows[req[q].on].flag]
  /\ \A f \in Flow \ {req[q].on} : flows'[f] = flows[f]

FlowDeleted(q) ==
  /\ At(q, "deleteFlow", "write")
  /\ req[q].on \in Flow /\ ~Referenced(req[q].on)
  /\ flows'[req[q].on] = NoFlow
  /\ \A f \in Flow \ {req[q].on} : flows'[f] = flows[f]

FlowFlagged(q) ==
  \A f \in Flow :
    /\ flows'[f].name = flows[f].name /\ flows'[f].uses = flows[f].uses
    /\ flows'[f].flag => f = req[q].on
    /\ flows'[f] = NoFlow <=> flows[f] = NoFlow

FlowSeeded(f) ==
  /\ Named(DefaultFlow) = {} => f = Reseeded
  /\ Named(DefaultFlow) # {} => f \in Named(DefaultFlow)
  /\ flows'[f].name = DefaultFlow
  /\ flows'[f].uses = IF Named(DefaultFlow) = {} THEN Nil ELSE flows[f].uses
  /\ flows'[f].flag => flows[f].flag \/ Flagged = {}
  /\ \A g \in Flow \ {f} : flows'[g] = flows[g]

(* The ways the flows change, row by row. *)
LEMMA FlowsChange ==
  ASSUME Types, Next
  PROVE  \/ flows' = flows
         \/ /\ UNCHANGED <<accountVars, enrolVars, backupVars, custom, builtin, series, jobs>>
            /\ \E q \in InService :
                 /\ q \in Request /\ GoesOn(q, "end")
                 /\ FlowInserted(q) \/ FlowUpdated(q) \/ FlowDeleted(q) \/ FlowFlagged(q)
         \/ \E q \in InService : Replay(q) /\ req[q].on \in Request /\ PutBack(req[q].on)
         \/ Restart /\ (\E f \in Flow : FlowSeeded(f)) /\ UNCHANGED <<custom, series, jobs>>
<1>1. RowsOK /\ HandlersOK /\ \A q \in Request : ArgsOK(q)
  BY TypesParts
<1>2. ASSUME NEW q \in InService, CatalogStep(q), flows' # flows
      PROVE  /\ UNCHANGED <<custom, builtin, series, jobs>>
             /\ q \in Request /\ GoesOn(q, "end")
             /\ FlowInserted(q) \/ FlowUpdated(q) \/ FlowDeleted(q) \/ FlowFlagged(q)
  <2>1. q \in Request /\ ArgsOK(q)
    BY <1>1 DEF InService
  <2>2. InsertFlow(q) \/ WriteFlow(q) \/ DeleteFlow(q) \/ SetDefaultFlow(q)
    BY <1>2 DEF CatalogStep, CountJobs, UpsertImported, ResolveSteps, WriteTemplate,
       DeleteTemplate, SetSeriesFlow, WriteJob, InsertJob, catalogVars
  <2>3. UNCHANGED <<custom, builtin, series, jobs>> /\ Goto(q, "end")
    BY <2>2 DEF InsertFlow, WriteFlow, DeleteFlow, SetDefaultFlow, End
  <2>4. GoesOn(q, "end")
    BY <1>1, <2>3, GotoServes
  <2>5. CASE InsertFlow(q)
    <3>1. /\ Ops(q, {"createFlow", "importFlow"}) /\ req[q].pc = "insert"
          /\ Named(req[q].on) = {}
          /\ flows' = [flows EXCEPT ![q] =
                         [name |-> req[q].on, uses |-> req[q].with, flag |-> FALSE]]
      BY <1>2, <2>5 DEF InsertFlow, Ops
    <3>2. flows \in FlowTable /\ q \in Flow
      BY <1>1, <2>1 DEF RowsOK, Flow
    <3>3. flows' \in FlowTable
      BY <1>1, <2>1, <1>2, CatalogRowsStep
    <3> QED
      BY <2>3, <2>4, <2>1, <3>1, <3>2, <3>3 DEF FlowInserted, FlowTable
  <2>6. CASE WriteFlow(q)
    BY <1>1, <1>2, <2>1, <2>3, <2>4, <2>6, FlowWritten DEF FlowUpdated, WriteFlow
  <2>7. CASE DeleteFlow(q)
    <3>1. At(q, "deleteFlow", "write") /\ ~Referenced(req[q].on)
          /\ flows' = [flows EXCEPT ![req[q].on] = NoFlow]
      BY <1>2, <2>7 DEF DeleteFlow
    <3>2. flows \in FlowTable /\ req[q].on \in Flow
      BY <1>1, <2>1, <3>1 DEF RowsOK, At, ArgsOK, Ops
    <3> QED
      BY <2>1, <2>3, <2>4, <3>1, <3>2 DEF FlowDeleted, FlowTable
  <2>8. CASE SetDefaultFlow(q)
    <3>1. ASSUME NEW f \in Flow
          PROVE  /\ flows'[f].name = flows[f].name /\ flows'[f].uses = flows[f].uses
                 /\ flows'[f].flag => f = req[q].on
                 /\ flows'[f] = NoFlow <=> flows[f] = NoFlow
      <4> DEFINE flag == f = req[q].on /\ IsFlow(f)
      <4>1. flows'[f] = [name |-> flows[f].name, uses |-> flows[f].uses, flag |-> flag]
            /\ (flows'[f] = NoFlow <=> flows[f] = NoFlow)
        BY <1>1, <2>1, <2>8, FlagsSet
      <4>2. flag => f = req[q].on
        OBVIOUS
      <4> HIDE DEF flag
      <4>3. flows'[f].name = flows[f].name /\ flows'[f].uses = flows[f].uses
            /\ flows'[f].flag = flag
        BY <4>1
      <4> QED
        BY <4>1, <4>2, <4>3, Zenon
    <3> QED
      BY <2>1, <2>3, <2>4, <3>1 DEF FlowFlagged
  <2> QED
    BY <2>2, <2>5, <2>6, <2>7, <2>8
<1>3. ASSUME Restart
      PROVE  Restart /\ (\E f \in Flow : FlowSeeded(f)) /\ UNCHANGED <<custom, series, jobs>>
  <2>1. SeedDefaultFlow /\ UNCHANGED <<custom, series, jobs>>
    BY <1>3 DEF Restart, CatalogBoot
  <2>2. PICK f \in Flow :
          /\ Named(DefaultFlow) = {} => f = Reseeded
          /\ Named(DefaultFlow) # {} => f \in Named(DefaultFlow)
          /\ flows'[f] = [name |-> DefaultFlow,
                          uses |-> IF Named(DefaultFlow) = {} THEN Nil ELSE flows[f].uses,
                          flag |-> (flows[f].flag \/ Flagged = {})]
          /\ \A g \in Flow \ {f} : flows'[g] = flows[g]
    BY <1>1, <2>1, DefaultSeeded
  <2> DEFINE uses == IF Named(DefaultFlow) = {} THEN Nil ELSE flows[f].uses
             flag == flows[f].flag \/ Flagged = {}
  <2>3. flows'[f] = [name |-> DefaultFlow, uses |-> uses, flag |-> flag]
    BY <2>2
  <2> HIDE DEF uses, flag
  <2>4. flows'[f].name = DefaultFlow /\ flows'[f].uses = uses /\ flows'[f].flag = flag
    BY <2>3
  <2>5. flows'[f].flag => flag
    BY <2>4, Zenon
  <2> QED
    BY <1>3, <2>1, <2>2, <2>4, <2>5 DEF FlowSeeded, uses, flag
<1>4. ASSUME NEW q \in Request, CreateTemplate(q) \/ ResetTemplate(q) \/ RequeueOrDeleteJob(q)
      PROVE  flows' = flows
  BY <1>4 DEF CreateTemplate, ResetTemplate, RequeueOrDeleteJob
<1>5. Farm => flows' = flows
  BY DEF Farm, FinishJob
<1>6. UNCHANGED catalogVars => flows' = flows
  BY DEF catalogVars
<1> QED
  BY <1>2, <1>3, <1>4, <1>5, <1>6, CatalogChange

----------------------------------------------------------------------------
(* One flag.                                                               *)

(* No two flows are flagged at first, *)
LEMMA FlagInit == Init => FlagInv
<1> SUFFICES ASSUME Init PROVE FlagInv
  OBVIOUS
<1>1. OneFlag(flows)
  BY CatalogAssumption DEF Init, CatalogInit, OneFlag, NoFlow
<1>2. \A d \in Request : ~IsFile(d)
  BY DEF Init, IsFile
<1> QED
  BY <1>1, <1>2 DEF FlagInv

(* nor after any step: flagging one clears the others in the same         *)
(* statement.                                                             *)
LEMMA FlagStep ==
  ASSUME Types, FlagInv, Next
  PROVE  FlagInv'
<1>1. OneFlag(flows)
  BY DEF FlagInv
<1>2. OneFlag(flows)'
  <2>1. CASE flows' = flows
    BY <1>1, <2>1 DEF OneFlag
  <2>2. ASSUME NEW q \in Request, FlowInserted(q) PROVE OneFlag(flows)'
    BY <1>1, <2>2 DEF FlowInserted, OneFlag
  <2>3. ASSUME NEW q \in Request, FlowUpdated(q) PROVE OneFlag(flows)'
    BY <1>1, <2>3 DEF FlowUpdated, OneFlag
  <2>4. ASSUME NEW q \in Request, FlowDeleted(q) PROVE OneFlag(flows)'
    BY <1>1, <2>4 DEF FlowDeleted, OneFlag, NoFlow
  <2>5. ASSUME NEW q \in Request, FlowFlagged(q) PROVE OneFlag(flows)'
    BY <2>5 DEF FlowFlagged, OneFlag
  <2>6. ASSUME NEW d \in Request, PutBack(d) PROVE OneFlag(flows)'
    BY <2>6, TypesParts, PutBackIs DEF FlagInv, OneFlag, NoFlow
  <2>7. ASSUME NEW f \in Flow, FlowSeeded(f) PROVE OneFlag(flows)'
    BY <1>1, <2>7 DEF FlowSeeded, OneFlag, Flagged
  <2> QED
    BY <2>1, <2>2, <2>3, <2>4, <2>5, <2>6, <2>7, FlowsChange
<1>3. ASSUME NEW d \in Request, IsFile(d)', Reached(file'[d], "flows")
      PROVE  OneFlag(file'[d]["flows"].flows)
  <2>1. CASE IsFile(d) /\ Reached(file[d], "flows") /\ file'[d]["flows"] = file[d]["flows"]
    BY <2>1 DEF FlagInv
  <2>2. CASE file'[d]["flows"] = Rows("flows")
    BY <1>1, <2>2, TypesParts, RowsOfTable
  <2> QED
    BY <1>3, <2>1, <2>2, Dumped DEF TableName
<1> QED
  BY <1>2, <1>3 DEF FlagInv, IsFile, OneFlag, Reached

----------------------------------------------------------------------------
(* The default flow.                                                       *)

(* The default flow is there at first, *)
LEMMA DefaultInit == Init => DefaultInv
<1> SUFFICES ASSUME Init PROVE DefaultInv
  OBVIOUS
<1>1. flows[DefaultFlow].name = DefaultFlow
  BY DEF Init, CatalogInit, Flow
<1>2. \A d \in Request : ~IsFile(d) /\ req[d].op = "none"
  BY DEF Init, IsFile, RequestsInit, Unserved
<1> QED
  BY <1>1, <1>2 DEF DefaultInv, Ops

(* and no step that did not rename it takes it away. *)
LEMMA DefaultStep ==
  ASSUME Types, DefaultInv, Next
  PROVE  DefaultInv'
<1>1. CASE DefaultRenamed
  <2>1. ASSUME NEW q \in Request, Ops(q, {"updateFlow"}), req[q].seen = DefaultFlow
        PROVE  Ops(q, {"updateFlow"})' /\ req'[q].seen = DefaultFlow
    BY <2>1, OpsStay, HandlersGo, TypesParts, OnRecord DEF Ops
  <2> QED
    BY <1>1, <2>1, RestoresStay DEF DefaultRenamed, DefaultInv
<1>2. CASE ~DefaultRenamed' /\ ~DefaultRenamed
  <2>1. /\ flows[DefaultFlow].name = DefaultFlow
        /\ \A d \in Request :
             IsFile(d) /\ Reached(file[d], "flows") =>
               file[d]["flows"].flows[DefaultFlow].name = DefaultFlow
        /\ \A q \in Request :
             Ops(q, {"updateFlow", "deleteFlow"}) => req[q].on # DefaultFlow
    BY <1>2 DEF DefaultInv
  <2>2. DefaultFlow \in Flow /\ DefaultFlow \notin Request
    BY CatalogAssumption DEF Flow
  <2>3. flows'[DefaultFlow].name = DefaultFlow
    <3>1. ASSUME NEW q \in Request, FlowInserted(q) PROVE flows'[DefaultFlow] = flows[DefaultFlow]
      BY <2>2, <3>1 DEF FlowInserted
    <3>2. ASSUME NEW q \in Request, FlowUpdated(q) PROVE flows'[DefaultFlow] = flows[DefaultFlow]
      BY <2>1, <2>2, <3>2 DEF FlowUpdated, At, Ops
    <3>3. ASSUME NEW q \in Request, FlowDeleted(q) PROVE flows'[DefaultFlow] = flows[DefaultFlow]
      BY <2>1, <2>2, <3>3 DEF FlowDeleted, At, Ops
    <3>4. ASSUME NEW q \in Request, FlowFlagged(q)
          PROVE  flows'[DefaultFlow].name = flows[DefaultFlow].name
      BY <2>2, <3>4 DEF FlowFlagged
    <3>5. ASSUME NEW d \in Request, PutBack(d) PROVE flows'[DefaultFlow].name = DefaultFlow
      <4>1. IsFile(d) /\ Reached(file[d], "flows") /\ flows' = file[d]["flows"].flows
        BY <1>2, <3>5, TypesParts, PutBackIs DEF DefaultRenamed, TableName
      <4> QED
        BY <2>1, <4>1
    <3>6. ASSUME NEW f \in Flow, FlowSeeded(f) PROVE flows'[DefaultFlow].name = DefaultFlow
      BY <2>1, <2>2, <3>6 DEF FlowSeeded
    <3> QED
      BY <2>1, <3>1, <3>2, <3>3, <3>4, <3>5, <3>6, FlowsChange
  <2>4. ASSUME NEW d \in Request, IsFile(d)', Reached(file'[d], "flows")
        PROVE  file'[d]["flows"].flows[DefaultFlow].name = DefaultFlow
    <3>1. CASE IsFile(d) /\ Reached(file[d], "flows") /\ file'[d]["flows"] = file[d]["flows"]
      BY <2>1, <3>1
    <3>2. CASE file'[d]["flows"] = Rows("flows")
      BY <2>1, <3>2, TypesParts, RowsOfTable
    <3> QED
      BY <2>4, <3>1, <3>2, Dumped DEF TableName
  <2>5. ASSUME NEW q \in Request, Ops(q, {"updateFlow", "deleteFlow"})'
        PROVE  req'[q].on # DefaultFlow
    <3>1. CASE req[q].op # "none"
      BY <2>1, <2>5, <3>1, HandlersGo, TypesParts, OnRecord DEF Ops
    <3>2. CASE req[q].op = "none"
      <4>1. Arrive(q) /\ Arriving(q)
        BY <2>5, <3>2, NewComer DEF Ops
      <4>2. UpdateFlowArrives(q) \/ DeleteFlowArrives(q)
        BY <2>5, <4>1, CameForFlow DEF Ops
      <4>3. CASE UpdateFlowArrives(q)
        <5>1. PICK f \in Flow, name \in FlowName, uses \in {Nil, Custom} :
                Begin(q, "updateFlow", "write", f, [name |-> name, uses |-> uses], flows[f].name)
          BY <4>3 DEF UpdateFlowArrives
        <5>2. Comes(q, "updateFlow", "write", f, [name |-> name, uses |-> uses], flows[f].name)
          BY <4>1, <5>1, TypesParts, BeginServes
        <5>3. req'[q].op = "updateFlow" /\ req'[q].on = f /\ req'[q].seen = flows[f].name
          BY <5>2 DEF Comes
        <5> QED
          BY <1>2, <2>1, <5>3 DEF DefaultRenamed, Ops
      <4>4. CASE DeleteFlowArrives(q)
        <5>1. PICK f \in Flow : flows[f].name # DefaultFlow
                                /\ Begin(q, "deleteFlow", "count", f, Nil, Nil)
          BY <4>4 DEF DeleteFlowArrives
        <5>2. Comes(q, "deleteFlow", "count", f, Nil, Nil)
          BY <4>1, <5>1, TypesParts, BeginServes
        <5>3. req'[q].on = f
          BY <5>2 DEF Comes
        <5> QED
          BY <2>1, <5>1, <5>3
      <4> QED
        BY <4>2, <4>3, <4>4
    <3> QED
      BY <3>1, <3>2
  <2> QED
    BY <2>3, <2>4, <2>5 DEF DefaultInv, IsFile, Reached
<1> QED
  BY <1>1, <1>2 DEF DefaultInv

(* A job always finds a flow, and only one (ResolveFlow).                  *)
THEOREM DefaultFlowIsKept == Spec => []DefaultFlowStays
<1> DEFINE Inv == Types /\ FlagInv /\ DefaultInv
<1>1. Init => Inv
  BY InitTypes, FlagInit, DefaultInit
<1>2. Inv /\ [Next]_vars => Inv'
  <2> SUFFICES ASSUME Inv, [Next]_vars PROVE Inv'
    OBVIOUS
  <2>1. CASE Next
    BY <2>1, TypesStep, FlagStep, DefaultStep
  <2>2. CASE UNCHANGED vars
    <3>1. Types'
      BY TypesStep
    <3>2. UNCHANGED <<flows, file, req, restored>>
      BY <2>2 DEF vars, catalogVars, backupVars
    <3>3. FlagInv' /\ DefaultInv'
      BY <3>2 DEF FlagInv, DefaultInv, DefaultRenamed, OneFlag, IsFile, Reached, Ops, RestoredInPart
    <3> QED
      BY <3>1, <3>3
  <2> QED
    BY <2>1, <2>2
<1>3. Inv => DefaultFlowStays
  <2> SUFFICES ASSUME Inv PROVE DefaultFlowStays
    OBVIOUS
  <2>1. Cardinality(Flagged) <= 1
    <3>1. CASE Flagged = {}
      BY <3>1, FS_EmptySet
    <3>2. ASSUME NEW f \in Flagged PROVE Cardinality(Flagged) <= 1
      <4>1. Flagged = {f}
        BY <3>2 DEF FlagInv, OneFlag, Flagged
      <4> QED
        BY <4>1, FS_Singleton
    <3> QED
      BY <3>1, <3>2
  <2>2. ~DefaultRenamed => DefaultFlow \in Named(DefaultFlow)
    BY DEF DefaultInv, Named, Flow
  <2> QED
    BY <2>1, <2>2 DEF DefaultFlowStays, DefaultRenamed
<1> HIDE DEF Inv
<1> QED
  BY <1>1, <1>2, <1>3, PTL DEF Spec

----------------------------------------------------------------------------
(* Where a request stands after a step: where it stood, or it has come, or *)
(* it was its own step, or it was cut off.                                 *)
LEMMA Stands ==
  ASSUME Types, Next, NEW q \in Request, req'[q].op # "none"
  PROVE  \/ req'[q] = req[q] /\ req[q].op # "none"
         \/ req[q].op = "none" /\ Arrive(q) /\ Arriving(q) /\ Serves(q)
         \/ q \in InService /\ req[q].op # "none" /\ Step(q) /\ Serves(q)
         \/ /\ q \in InService /\ req[q].op # "none" /\ req'[q].pc = "cut"
            /\ req'[q].op = req[q].op /\ req'[q].on = req[q].on
            /\ req'[q].with = req[q].with /\ req'[q].seen = req[q].seen
<1>1. HandlersOK /\ (\A p \in Request : ArgsOK(p)) /\ RowsOK
  BY TypesParts
<1>2. \A p \in InService : p \in Request /\ req[p].op # "none"
  BY <1>1 DEF HandlersOK, InService
<1>3. CASE req[q].op = "none"
  <2>1. Arrive(q) /\ Arriving(q)
    BY <1>3, NewComer
  <2>2. Serves(q)
    BY <1>1, <2>1, AccountsComes, CatalogComes, JobComes, EnrolComes, PairComes, BackupComes,
       RestoreComes DEF Arrive
  <2> QED
    BY <1>3, <2>1, <2>2
<1>4. CASE req[q].op # "none" /\ req'[q] # req[q]
  <2>1. ASSUME NEW p \in Request, Arrive(p) PROVE FALSE
    <3>1. Serves(p) /\ req[p].op = "none"
      BY <1>1, <2>1, AccountsComes, CatalogComes, JobComes, EnrolComes, PairComes, BackupComes,
         RestoreComes DEF Arrive
    <3> QED
      BY <1>4, <3>1 DEF Serves
  <2>2. ASSUME NEW p \in Request, Step(p) PROVE p = q /\ q \in InService /\ Serves(q)
    <3>1. p \in InService /\ (req' = req \/ Serves(p))
      BY <1>1, <2>2, AccountsGoOn, CatalogGoesOn, EnrolGoesOn, BackupGoesOn, ReplayIs
         DEF Step, GoesOn
    <3> QED
      BY <1>4, <3>1 DEF Serves
  <2>3. ASSUME NEW p \in Request, ClientLeaves(p)
        PROVE  /\ q \in InService /\ req'[q].pc = "cut"
               /\ req'[q].op = req[q].op /\ req'[q].on = req[q].on
               /\ req'[q].with = req[q].with /\ req'[q].seen = req[q].seen
    <3>1. p \in InService /\ GoesOn(p, "cut")
      BY <1>1, <2>3, GotoServes DEF ClientLeaves, CutOff
    <3>2. p = q
      BY <1>4, <3>1 DEF GoesOn, Serves
    <3> QED
      BY <3>1, <3>2 DEF GoesOn
  <2>4. ASSUME NEW p \in Request, Background(p) PROVE FALSE
    BY <1>4, <2>4 DEF Background, Provision, Expire, LockEngine, LoadContext, StagePayloads,
       IssuePairing, Launch, Play
  <2>5. ASSUME Restart
        PROVE  /\ q \in InService /\ req'[q].pc = "cut"
               /\ req'[q].op = req[q].op /\ req'[q].on = req[q].on
               /\ req'[q].with = req[q].with /\ req'[q].seen = req[q].seen
    <3>1. AllCutOff
      BY <2>5 DEF Restart
    <3>2. q \in InService
      BY <1>4, <3>1 DEF AllCutOff
    <3> QED
      BY <1>1, <3>1, <3>2, CutServes
  <2>6. ASSUME Farm PROVE FALSE
    BY <1>4, <2>6 DEF Farm
  <2> QED
    BY <1>4, <2>1, <2>2, <2>3, <2>4, <2>5, <2>6 DEF Next
<1> QED
  BY <1>3, <1>4

(* A step of its own moves a request to one of a few statements.           *)
LEMMA OwnStep ==
  ASSUME Types, NEW q \in InService, Step(q)
  PROVE  /\ req'[q].pc = "insert" => ResolveSteps(q)
         /\ req[q].op \in CatalogOps => CatalogStep(q)
         /\ req[q].op \in AccountOps => AccountsStep(q)
         /\ req[q].op \in EnrolOps => EnrolStep(q)
         /\ req[q].op = "restore" => Replay(q)
         /\ Ops(q, {"updateFlow", "deleteTemplate", "createFlow", "restore"}) =>
              req'[q].pc = "end"
<1>1. HandlersOK /\ (\A p \in Request : ArgsOK(p)) /\ q \in Request
  BY TypesParts DEF InService
<1>2. ASSUME AccountsStep(q) PROVE req[q].op \in AccountOps /\ req'[q].pc # "insert"
  <2>1. ArgsOK(q)
    BY <1>1
  <2>2. PICK pc \in {"revoke", "delete", "end"} : req[q].op \in AccountOps /\ GoesOn(q, pc)
    BY <1>1, <1>2, <2>1, AccountsGoOn
  <2> QED
    BY <2>2 DEF GoesOn
<1>3. ASSUME CatalogStep(q)
      PROVE  /\ req[q].op \in CatalogOps
             /\ req'[q].pc = "insert" => ResolveSteps(q)
             /\ Ops(q, {"updateFlow", "deleteTemplate", "createFlow"}) => req'[q].pc = "end"
  <2>1. \A pc : Goto(q, pc) => req'[q].pc = pc
    BY <1>1 DEF Goto, HandlersOK, IsHandler
  <2>2. CASE ResolveSteps(q)
    BY <1>1, <1>3, <2>2, CatalogGoesOn DEF ResolveSteps, At, Ops
  <2>3. CASE CountJobs(q) \/ UpsertImported(q)
    <3>1. \E pc \in {"end", "write", "resolve"} : Goto(q, pc)
      BY <2>3 DEF CountJobs, UpsertImported
    <3> QED
      BY <1>1, <1>3, <2>1, <2>3, <3>1, CatalogGoesOn DEF CountJobs, UpsertImported, At, Ops
  <2>4. CASE ~ResolveSteps(q) /\ ~CountJobs(q) /\ ~UpsertImported(q)
    <3>1. Goto(q, "end")
      BY <1>3, <2>4 DEF CatalogStep, InsertFlow, WriteFlow, DeleteFlow, SetDefaultFlow,
         WriteTemplate, DeleteTemplate, SetSeriesFlow, WriteJob, InsertJob, End
    <3>2. req'[q].pc = "end"
      BY <2>1, <3>1
    <3> QED
      BY <1>1, <1>3, <3>2, CatalogGoesOn
  <2> QED
    BY <2>2, <2>3, <2>4
<1>4. ASSUME EnrolStep(q) PROVE req[q].op \in EnrolOps /\ req'[q].pc # "insert"
  <2>1. req[q].op = "pair" /\ req[q].pc \in {"create", "consume", "mark", "rollBack"}
        /\ \/ \E pc \in {"end", "consume", "mark", "rollBack"} : Goto(q, pc)
           \/ req' = [req EXCEPT ![q].pc = "end", ![q].seen = 1]
    BY <1>4 DEF EnrolStep, CreateNode, CheckCode, MarkCode, RollBackNode, At, End
  <2> QED
    BY <1>1, <1>4, <2>1 DEF Goto, HandlersOK, IsHandler, EnrolOps
<1>5. ASSUME BackupStep(q)
      PROVE  req[q].op \in {"manualDump", "scheduledDump"} /\ req'[q].pc # "insert"
  <2>1. req[q].op \in {"manualDump", "scheduledDump"}
    BY <1>5 DEF BackupStep, DumpTable, PruneScheduled, Dumps, At
  <2>2. req[q].pc \in {"table", "prune"}
        /\ (req' = req \/ \E pc \in {"end", "prune"} : Goto(q, pc))
    BY <1>5, TheTables DEF BackupStep, DumpTable, PruneScheduled, At, End
  <2> QED
    BY <1>1, <2>1, <2>2 DEF Goto, HandlersOK, IsHandler
<1>6. ASSUME Replay(q) PROVE req[q].op = "restore" /\ req'[q].pc = "end"
  <2>1. ArgsOK(q)
    BY <1>1
  <2>2. req[q].op = "restore" /\ GoesOn(q, "end")
    BY <1>1, <1>6, <2>1, ReplayIs
  <2> QED
    BY <2>2 DEF GoesOn
<1>7. AccountsStep(q) \/ CatalogStep(q) \/ EnrolStep(q) \/ BackupStep(q) \/ Replay(q)
  BY DEF Step
<1> USE DEF AccountOps, CatalogOps, EnrolOps
<1>8. CASE CatalogStep(q)
  BY <1>3, <1>8 DEF Ops
<1>9. CASE AccountsStep(q)
  BY <1>2, <1>9 DEF Ops
<1>10. CASE EnrolStep(q)
  BY <1>4, <1>10 DEF Ops
<1>11. CASE BackupStep(q)
  BY <1>5, <1>11 DEF Ops
<1>12. CASE Replay(q)
  BY <1>6, <1>12 DEF Ops
<1> QED
  BY <1>7, <1>8, <1>9, <1>10, <1>11, <1>12

(* The custom template goes when it is deleted, or in a restore.           *)
LEMMA CustomGone ==
  ASSUME Types, Next, custom # "gone", custom' = "gone"
  PROVE  \E p \in InService :
           /\ p \in Request /\ Serves(p)
           /\ \/ At(p, "deleteTemplate", "write") /\ flows' = flows
              \/ req[p].op = "restore" /\ req[p].on \in Request /\ PutBack(req[p].on)
<1>1. HandlersOK /\ \A q \in Request : ArgsOK(q)
  BY TypesParts
<1>2. ASSUME NEW q \in InService, CatalogStep(q)
      PROVE  At(q, "deleteTemplate", "write") /\ flows' = flows /\ q \in Request /\ Serves(q)
  <2>1. DeleteTemplate(q)
    BY <1>2 DEF CatalogStep, InsertFlow, WriteFlow, DeleteFlow, SetDefaultFlow, CountJobs,
       UpsertImported, ResolveSteps, WriteTemplate, SetSeriesFlow, WriteJob, InsertJob, catalogVars
  <2> QED
    BY <1>1, <1>2, <2>1, CatalogGoesOn DEF DeleteTemplate, InService
<1>3. ASSUME NEW q \in InService, Replay(q) PROVE q \in Request /\ Serves(q) /\ req[q].op = "restore"
  BY <1>1, <1>3, ReplayIs DEF InService, GoesOn
<1>4. ~UNCHANGED catalogVars
  BY DEF catalogVars
<1>5. ~Restart /\ ~Farm
  BY DEF Restart, CatalogBoot, Farm, FinishJob
<1>6. \A q \in Request : ~CreateTemplate(q) /\ ~ResetTemplate(q) /\ ~RequeueOrDeleteJob(q)
  BY DEF CreateTemplate, ResetTemplate, RequeueOrDeleteJob
<1> QED
  BY <1>2, <1>3, <1>4, <1>5, <1>6, CatalogChange

----------------------------------------------------------------------------
(* Flows whose templates are there.                                        *)

(* What excuses a step without its template stays on record, *)
LEMMA RenderExcusedStays ==
  ASSUME Types, Next, RenderExcused
  PROVE  RenderExcused'
<1>1. CASE Race({"deleteTemplate", "restore"}, {"createFlow", "updateFlow", "importFlow"})
  BY <1>1, RaceStays DEF RenderExcused
<1>2. CASE Race({"deleteTemplate"}, {"restore"})
  BY <1>2, RaceStays DEF RenderExcused
<1>3. ASSUME NEW p \in Request, NEW q \in Request,
             Ops(p, {"deleteTemplate", "restore"}), RestoredDump(q), Overlap(p, q)
      PROVE  RenderExcused'
  <2>1. Ops(p, {"deleteTemplate", "restore"})' /\ RestoredDump(q)' /\ Overlap(p, q)'
    BY <1>3, OpsStay, RestoresStay, OverlapsStay
  <2> QED
    BY <2>1 DEF RenderExcused
<1>4. CASE RestoredInPart
  BY <1>4, RestoresStay DEF RenderExcused
<1> QED
  BY <1>1, <1>2, <1>3, <1>4 DEF RenderExcused

(* and so does what tears a dump. *)
LEMMA TornStays ==
  ASSUME Types, Next, NEW d \in Request, Torn(d)
  PROVE  Torn(d)'
<1>1. PICK p \in Request : Ops(p, {"deleteTemplate", "restore"}) /\ Overlap(p, d)
  BY DEF Torn
<1>2. Ops(p, {"deleteTemplate", "restore"})' /\ Overlap(p, d)'
  BY <1>1, OpsStay, OverlapsStay
<1> QED
  BY <1>2 DEF Torn

(* Who was in service while the template went raced with it.               *)
LEMMA GoneRaces ==
  ASSUME Types, Next, custom # "gone", custom' = "gone",
         NEW q \in InService, req'[q] = req[q], q \in Request,
         ~Ops(q, {"deleteTemplate", "restore"})
  PROVE  \E p \in Request :
           Ops(p, {"deleteTemplate", "restore"})' /\ Overlap(p, q)'
<1>1. PICK p \in InService :
        /\ p \in Request /\ Serves(p)
        /\ \/ At(p, "deleteTemplate", "write") /\ flows' = flows
           \/ req[p].op = "restore" /\ req[p].on \in Request /\ PutBack(req[p].on)
  BY CustomGone
<1>2. Ops(p, {"deleteTemplate", "restore"})
  BY <1>1 DEF At, Ops
<1>3. p # q
  BY <1>2
<1>4. Overlap(p, q)'
  BY <1>1, <1>3, TypesParts, ServesOverlaps
<1> QED
  BY <1>1, <1>2, <1>4, OpsStay

(* The flows that are stored keep their template, or are excused. *)
LEMMA RenderRowsStep ==
  ASSUME Types, Next, RenderRows, \A q \in Request : RenderHandler(q),
         \A d \in Request : RenderDump(d), ~RenderExcused'
  PROVE  RenderRows'
<1> SUFFICES ASSUME UsesCustom(flows)' PROVE custom' # "gone"
  BY DEF RenderRows
<1>1. Custom # Nil
  BY CatalogAssumption
<1>2. ASSUME NEW d \in Request, PutBack(d) PROVE custom' # "gone"
  <2>1. /\ IsFile(d) /\ Reached(file[d], "flows") /\ Reached(file[d], "templates")
        /\ flows' = file[d]["flows"].flows /\ custom' = file[d]["templates"].custom
        /\ RestoredDump(d)'
    BY <1>2, TypesParts, PutBackIs DEF RenderExcused, TableName
  <2>2. UsesCustom(file[d]["flows"].flows)
    BY <2>1 DEF UsesCustom
  <2>3. custom' # "gone" \/ Torn(d)
    BY <2>1, <2>2 DEF RenderDump
  <2>4. ~Torn(d)'
    BY <2>1 DEF RenderExcused, Torn
  <2> QED
    BY <2>3, <2>4, TornStays
<1>3. CASE UsesCustom(flows)
  <2>1. custom # "gone"
    BY <1>3 DEF RenderRows
  <2>2. ASSUME custom' = "gone" PROVE FALSE
    <3>1. PICK p \in InService :
            /\ p \in Request /\ Serves(p)
            /\ \/ At(p, "deleteTemplate", "write") /\ flows' = flows
               \/ req[p].op = "restore" /\ req[p].on \in Request /\ PutBack(req[p].on)
      BY <2>1, <2>2, CustomGone
    <3>2. CASE At(p, "deleteTemplate", "write")
      BY <1>3, <3>1, <3>2 DEF RenderHandler
    <3> QED
      BY <1>2, <2>2, <3>1, <3>2
  <2> QED
    BY <2>2
<1>4. CASE ~UsesCustom(flows)
  <2>1. flows' # flows
    BY <1>4 DEF UsesCustom
  <2>2. PICK f \in Flow : flows'[f].uses = Custom /\ flows[f].uses # Custom
    BY <1>4 DEF UsesCustom
  <2>3. ASSUME NEW q \in Request, FlowInserted(q), custom' = custom PROVE custom' # "gone"
    <3>1. f = q /\ req[q].with = Custom
      BY <2>2, <2>3 DEF FlowInserted
    <3> QED
      BY <2>3, <3>1 DEF FlowInserted, RenderHandler
  <2>4. ASSUME NEW q \in Request, FlowUpdated(q), custom' = custom PROVE custom' # "gone"
    <3>1. f = req[q].on /\ req[q].with.uses = Custom
      BY <2>2, <2>4 DEF FlowUpdated
    <3> QED
      BY <2>4, <3>1 DEF FlowUpdated, RenderHandler
  <2>5. ASSUME NEW q \in Request, FlowDeleted(q) \/ FlowFlagged(q) PROVE FALSE
    BY <1>1, <2>2, <2>5 DEF FlowDeleted, FlowFlagged, NoFlow
  <2>6. ASSUME NEW g \in Flow, FlowSeeded(g) PROVE FALSE
    BY <1>1, <2>2, <2>6 DEF FlowSeeded
  <2> QED
    BY <1>2, <2>1, <2>3, <2>4, <2>5, <2>6, FlowsChange
<1> QED
  BY <1>3, <1>4

(* So do the flows a handler is about to store, and a deletion's count    *)
(* stays good.                                                            *)
LEMMA RenderHandlerStep ==
  ASSUME Types, Next, RenderRows, \A p \in Request : RenderHandler(p),
         ~RenderExcused', NEW q \in Request
  PROVE  RenderHandler(q)'
<1>1. ~Race({"deleteTemplate", "restore"}, {"createFlow", "updateFlow", "importFlow"})'
      /\ ~Race({"deleteTemplate"}, {"restore"})'
  BY DEF RenderExcused
<1>2. CASE req'[q] = req[q] /\ Ops(q, {"createFlow", "importFlow", "updateFlow"})
           /\ req[q].pc \in {"insert", "write"}
  <2>1. ASSUME custom # "gone" PROVE custom' # "gone"
    <3>1. SUFFICES ASSUME custom' = "gone" PROVE FALSE
      OBVIOUS
    <3>2. q \in InService /\ ~Ops(q, {"deleteTemplate", "restore"})
      BY <1>2 DEF InService, Ops
    <3>3. PICK p \in Request : Ops(p, {"deleteTemplate", "restore"})' /\ Overlap(p, q)'
      BY <1>2, <2>1, <3>1, <3>2, GoneRaces
    <3>4. Ops(q, {"createFlow", "updateFlow", "importFlow"})'
      BY <1>2 DEF Ops
    <3> QED
      BY <1>1, <3>3, <3>4 DEF Race
  <2> QED
    BY <1>2, <2>1 DEF RenderHandler, Ops, At
<1>3. CASE req'[q] = req[q] /\ At(q, "deleteTemplate", "write")
  <2>1. ~UsesCustom(flows) /\ q \in InService
    BY <1>3 DEF RenderHandler, At, InService
  <2>2. SUFFICES ASSUME UsesCustom(flows)' PROVE FALSE
    BY <1>3 DEF RenderHandler, At, Ops
  <2>3. PICK f \in Flow : flows'[f].uses = Custom /\ flows[f].uses # Custom
    BY <2>1, <2>2 DEF UsesCustom
  <2>4. ASSUME NEW p \in Request, FlowInserted(p) \/ FlowUpdated(p), GoesOn(p, "end")
        PROVE  FALSE
    <3>1. Ops(p, {"createFlow", "updateFlow", "importFlow"}) /\ Serves(p)
      BY <2>4 DEF FlowInserted, FlowUpdated, At, Ops, GoesOn
    <3>2. p # q
      BY <1>3, <3>1 DEF At, Ops
    <3>3. Overlap(q, p)'
      BY <2>1, <3>1, <3>2, TypesParts, ServesOverlaps
    <3>4. Ops(p, {"createFlow", "updateFlow", "importFlow"})'
          /\ Ops(q, {"deleteTemplate", "restore"})'
      BY <1>3, <3>1, OpsStay DEF At, Ops
    <3> QED
      BY <1>1, <3>3, <3>4 DEF Race
  <2>5. ASSUME NEW p \in Request, FlowDeleted(p) \/ FlowFlagged(p) PROVE FALSE
    BY <2>3, <2>5, CatalogAssumption DEF FlowDeleted, FlowFlagged, NoFlow
  <2>6. ASSUME NEW p \in InService, Replay(p) PROVE FALSE
    <3>1. p \in Request /\ req[p].op = "restore" /\ Serves(p)
      BY <2>6, TypesParts, ReplayIs DEF InService, GoesOn
    <3>2. p # q
      BY <1>3, <3>1 DEF At
    <3>3. Overlap(q, p)'
      BY <2>1, <3>1, <3>2, TypesParts, ServesOverlaps
    <3>4. Ops(p, {"restore"})' /\ Ops(q, {"deleteTemplate"})'
      BY <1>3, <3>1, OpsStay DEF At, Ops
    <3>5. \E e, g \in Request :
            Ops(e, {"deleteTemplate"})' /\ Ops(g, {"restore"})' /\ Overlap(e, g)'
      BY <3>1, <3>3, <3>4, Zenon
    <3> QED
      BY <1>1, <3>5 DEF Race
  <2>7. ASSUME NEW g \in Flow, FlowSeeded(g) PROVE FALSE
    BY <2>3, <2>7, CatalogAssumption DEF FlowSeeded
  <2> QED
    BY <2>3, <2>4, <2>5, <2>6, <2>7, FlowsChange
<1>4. CASE req[q].op = "none" /\ Arrive(q) /\ Arriving(q)
           /\ Ops(q, {"createFlow", "importFlow", "updateFlow", "deleteTemplate"})'
  <2>1. UNCHANGED <<flows, custom>>
    BY <1>4, TypesParts, CameForFlow, CameFor
       DEF Ops, CatalogOps, CatalogArrive, CreateJobArrives, catalogVars
  <2>2. CASE CreateFlowArrives(q)
    <3>1. PICK name \in FlowName, uses \in {Nil, Custom} :
            Renders(uses) /\ Begin(q, "createFlow", "insert", name, uses, Nil)
      BY <2>2 DEF CreateFlowArrives
    <3>2. Comes(q, "createFlow", "insert", name, uses, Nil)
      BY <1>4, <3>1, TypesParts, BeginServes
    <3>3. req'[q].op = "createFlow" /\ req'[q].with = uses
      BY <3>2 DEF Comes
    <3> QED
      BY <2>1, <3>1, <3>3 DEF RenderHandler, Renders, At, Ops
  <2>3. CASE DuplicateArrives(q)
    <3>1. PICK f \in Flow, name \in FlowName :
            Begin(q, "createFlow", "insert", name, flows[f].uses, Nil)
      BY <2>3 DEF DuplicateArrives
    <3>2. Comes(q, "createFlow", "insert", name, flows[f].uses, Nil)
      BY <1>4, <3>1, TypesParts, BeginServes
    <3>3. req'[q].op = "createFlow" /\ req'[q].with = flows[f].uses
      BY <3>2 DEF Comes
    <3> QED
      BY <2>1, <3>3 DEF RenderHandler, RenderRows, UsesCustom, At, Ops
  <2>4. CASE UpdateFlowArrives(q)
    <3>1. PICK f \in Flow, name \in FlowName, uses \in {Nil, Custom} :
            /\ Renders(uses)
            /\ Begin(q, "updateFlow", "write", f, [name |-> name, uses |-> uses], flows[f].name)
      BY <2>4 DEF UpdateFlowArrives
    <3>2. Comes(q, "updateFlow", "write", f, [name |-> name, uses |-> uses], flows[f].name)
      BY <1>4, <3>1, TypesParts, BeginServes
    <3>3. req'[q].op = "updateFlow" /\ req'[q].with.uses = uses
      BY <3>2 DEF Comes
    <3> QED
      BY <2>1, <3>1, <3>3 DEF RenderHandler, Renders, At, Ops
  <2>5. CASE ImportLooksUp(q)
    <3>1. PICK pc \in {"upsert", "resolve"} : Begin(q, "importFlow", pc, Nil, Custom, Nil)
      BY <2>5 DEF ImportLooksUp
    <3>2. Comes(q, "importFlow", pc, Nil, Custom, Nil)
      BY <1>4, <3>1, TypesParts, BeginServes
    <3>3. req'[q].op = "importFlow" /\ req'[q].pc # "insert"
      BY <3>2 DEF Comes
    <3> QED
      BY <3>3 DEF RenderHandler, At, Ops
  <2>6. CASE DeleteTemplateArrives(q)
    <3>1. ~UsesCustom(flows) /\ req'[q].op = "deleteTemplate"
      BY <1>4, <2>6, TypesParts, CameFor DEF DeleteTemplateArrives, UsesCustom
    <3> QED
      BY <2>1, <3>1 DEF RenderHandler, UsesCustom, At, Ops
  <2> QED
    BY <1>4, <2>2, <2>3, <2>4, <2>5, <2>6, CameForFlow DEF Ops
<1>5. CASE q \in InService /\ Step(q) /\ Serves(q)
           /\ Ops(q, {"createFlow", "importFlow", "updateFlow", "deleteTemplate"})'
  <2>1. req'[q].op = req[q].op /\ req'[q].with = req[q].with
    BY <1>5, TypesParts DEF Serves, InService, HandlersOK
  <2>2. CASE ResolveSteps(q) /\ req'[q].pc = "insert"
    <3>1. Goto(q, "end") => req'[q].pc = "end"
      BY TypesParts DEF Goto, HandlersOK, IsHandler
    <3>2. At(q, "importFlow", "resolve") /\ Renders(Custom) /\ custom' = custom
      BY <2>2, <3>1 DEF ResolveSteps, End, catalogVars
    <3> QED
      BY <2>1, <3>2 DEF RenderHandler, Renders, At, Ops
  <2>3. CASE req'[q].pc # "insert"
    <3>1. ~At(q, "updateFlow", "write")' /\ ~At(q, "deleteTemplate", "write")'
      BY <1>5, <2>1, OwnStep DEF At, Ops
    <3> QED
      BY <2>3, <3>1 DEF RenderHandler
  <2> QED
    BY <1>5, <2>2, <2>3, OwnStep
<1>6. CASE req'[q].pc = "cut" \/ ~Ops(q, {"createFlow", "importFlow", "updateFlow", "deleteTemplate"})'
  BY <1>6 DEF RenderHandler, At, Ops
<1>7. CASE req'[q] = req[q] /\ req[q].pc \notin {"insert", "write"}
  BY <1>7 DEF RenderHandler, At, Ops
<1> QED
  BY <1>2, <1>3, <1>4, <1>5, <1>6, <1>7, Stands DEF Ops, At, RenderHandler

(* And so do the dumps: one that read a flow reads its template, or is    *)
(* torn.                                                                  *)
LEMMA RenderDumpStep ==
  ASSUME Types, Next, RenderRows, \A e \in Request : RenderDump(e), NEW d \in Request
  PROVE  RenderDump(d)'
<1> SUFFICES ASSUME IsFile(d)', Reached(file'[d], "flows"), UsesCustom(file'[d]["flows"].flows)
             PROVE  /\ Reading(d)' /\ ~Reached(file'[d], "templates") => custom' # "gone" \/ Torn(d)'
                    /\ Reached(file'[d], "templates") =>
                         file'[d]["templates"].custom # "gone" \/ Torn(d)'
  BY DEF RenderDump, IsFile, Reached, UsesCustom
<1>1. CASE Reads(d, "flows")
  <2>1. UNCHANGED catalogVars /\ FileOK(file[d]) /\ ~Reached(file[d], "templates")
    BY <1>1, TypesParts DEF Reads, FilesOK, Reading, FileOK
  <2>2. file'[d]["flows"].flows = flows
    BY <1>1, TypesParts, RowsOfTable DEF Reads
  <2>3. custom # "gone" /\ custom' = custom
    BY <2>1, <2>2 DEF RenderRows, catalogVars
  <2>4. ~Reached(file'[d], "templates")
    BY <1>1, <2>1 DEF Reads, Reached, TableName
  <2> QED
    BY <2>3, <2>4
<1>2. CASE ~Reads(d, "flows")
  <2>1. IsFile(d) /\ Reached(file[d], "flows") /\ UsesCustom(file[d]["flows"].flows)
        /\ (Reading(d)' => Reading(d))
    BY <1>2, Dumped DEF TableName
  <2>2. ASSUME Reached(file'[d], "templates")
        PROVE  file'[d]["templates"].custom # "gone" \/ Torn(d)'
    <3>1. CASE Reached(file[d], "templates") /\ file'[d]["templates"] = file[d]["templates"]
      BY <2>1, <3>1, TornStays DEF RenderDump
    <3>2. CASE Reads(d, "templates") /\ file'[d]["templates"] = Rows("templates")
      <4>1. Reading(d) /\ ~Reached(file[d], "templates")
        BY <3>2 DEF Reads
      <4>2. file'[d]["templates"].custom = custom
        BY <3>2, TypesParts, RowsOfTable
      <4> QED
        BY <2>1, <4>1, <4>2, TornStays DEF RenderDump
    <3> QED
      BY <2>2, <3>1, <3>2, Dumped DEF TableName
  <2>3. ASSUME Reading(d)', ~Reached(file'[d], "templates") PROVE custom' # "gone" \/ Torn(d)'
    <3>1. Reading(d) /\ ~Reached(file[d], "templates")
      <4>1. Types'
        BY HandlersGo
      <4>2. ASSUME Reached(file[d], "templates") PROVE Reached(file'[d], "templates")
        BY <2>1, <4>2, TypesParts, DumpsStep, EmptyFileIs DEF Reads, Reached, TableName
      <4> QED
        BY <2>1, <2>3, <4>2
    <3>2. custom # "gone" \/ Torn(d)
      BY <2>1, <3>1 DEF RenderDump
    <3>3. ASSUME custom # "gone", custom' = "gone" PROVE Torn(d)'
      <4>1. d \in InService /\ ~Ops(d, {"deleteTemplate", "restore"})
        BY <3>1 DEF Reading, InService, Dumps, Ops
      <4>2. ~(req'[d] # req[d])
        <5>1. SUFFICES ASSUME req'[d] # req[d] PROVE FALSE
          OBVIOUS
        <5>2. PICK p \in InService :
                /\ p \in Request /\ Serves(p)
                /\ \/ At(p, "deleteTemplate", "write") /\ flows' = flows
                   \/ req[p].op = "restore" /\ req[p].on \in Request /\ PutBack(req[p].on)
          BY <3>3, CustomGone
        <5>3. p # d
          BY <3>1, <5>2 DEF Reading, Dumps, At
        <5> QED
          BY <5>1, <5>2, <5>3 DEF Serves
      <4>3. PICK p \in Request : Ops(p, {"deleteTemplate", "restore"})' /\ Overlap(p, d)'
        BY <3>3, <4>1, <4>2, GoneRaces
      <4> QED
        BY <4>3 DEF Torn
    <3> QED
      BY <3>2, <3>3, TornStays
  <2> QED
    BY <2>2, <2>3
<1> QED
  BY <1>1, <1>2

(* No flow uses the custom template at first. *)
LEMMA RenderInit == Init => RenderInv
<1> SUFFICES ASSUME Init PROVE RenderInv
  OBVIOUS
<1>1. custom = "ours" /\ \A q \in Request : ~IsFile(q) /\ req[q].op = "none"
  BY DEF Init, CatalogInit, IsFile, RequestsInit, Unserved
<1> QED
  BY <1>1 DEF RenderInv, RenderRows, RenderHandler, RenderDump, At, Ops

(* No flow is left with a step whose template is gone (ValidateForRender,  *)
(* DeleteStepTemplate), but by the races that are named.                   *)
THEOREM FlowsAlwaysRender == Spec => []FlowsRender
<1> DEFINE Inv == Types /\ RenderInv
<1>1. Init => Inv
  BY InitTypes, RenderInit
<1>2. Inv /\ [Next]_vars => Inv'
  <2> SUFFICES ASSUME Inv, [Next]_vars PROVE Inv'
    OBVIOUS
  <2>1. CASE Next
    <3>1. CASE RenderExcused
      BY <2>1, <3>1, RenderExcusedStays, TypesStep DEF RenderInv
    <3>2. CASE ~RenderExcused /\ ~RenderExcused'
      <4>1. RenderRows /\ (\A q \in Request : RenderHandler(q)) /\ \A d \in Request : RenderDump(d)
        BY <3>2 DEF RenderInv
      <4>2. RenderRows'
        BY <2>1, <3>2, <4>1, RenderRowsStep
      <4>3. \A q \in Request : RenderHandler(q)'
        BY <2>1, <3>2, <4>1, RenderHandlerStep
      <4>4. \A d \in Request : RenderDump(d)'
        BY <2>1, <4>1, RenderDumpStep
      <4> QED
        BY <2>1, <4>2, <4>3, <4>4, TypesStep DEF RenderInv
    <3> QED
      BY <2>1, <3>1, <3>2, TypesStep DEF RenderInv
  <2>2. CASE UNCHANGED vars
    <3>1. UNCHANGED <<flows, custom, file, req, restored>>
      BY <2>2 DEF vars, catalogVars, backupVars
    <3>2. RenderExcused' <=> RenderExcused
      BY <3>1 DEF RenderExcused, Race, Ops, Overlap, RestoredDump, RestoredInPart
    <3>3. RenderRows' <=> RenderRows
      BY <3>1 DEF RenderRows, UsesCustom
    <3>4. ASSUME NEW q \in Request PROVE RenderHandler(q)' <=> RenderHandler(q)
      BY <3>1 DEF RenderHandler, UsesCustom, IsFile, Reached, At, Ops
    <3>5. ASSUME NEW q \in Request PROVE RenderDump(q)' <=> RenderDump(q)
      BY <3>1 DEF RenderDump, UsesCustom, IsFile, Reached, Reading, Dumps, Torn, Ops, Overlap
    <3>6. RenderInv'
      BY <3>2, <3>3, <3>4, <3>5 DEF RenderInv
    <3> QED
      BY <3>6, TypesStep
  <2> QED
    BY <2>1, <2>2
<1>3. Inv => FlowsRender
  <2> SUFFICES ASSUME Types, RenderInv, NEW f \in Flow, ~Renders(flows[f].uses)
               PROVE  RenderExcused
    BY DEF FlowsRender, RenderExcused
  <2>1. flows[f].uses = Custom /\ custom = "gone"
    BY DEF Renders
  <2> QED
    BY <2>1 DEF RenderInv, RenderRows, UsesCustom
<1> HIDE DEF Inv
<1> QED
  BY <1>1, <1>2, <1>3, PTL DEF Spec

----------------------------------------------------------------------------
(* The jobs, row by row.                                                   *)

(* A job that is there is of a flow, and active or over. *)
LEMMA JobRows ==
  ASSUME RowsOK, NEW j \in Request
  PROVE  /\ jobs[j] \in JobRow \cup {NoJob}
         /\ jobs[j] # NoJob <=> jobs[j].flow \in Flow
         /\ jobs[j] # NoJob <=> jobs[j] \in JobRow
         /\ jobs[j].status \in {"active", "over"} => jobs[j] # NoJob
<1>1. Nil \notin Flow
  BY CatalogAssumption, RequestsAssumption DEF Flow
<1>2. jobs[j] \in JobRow \cup {NoJob}
  BY DEF RowsOK, JobTable
<1>3. CASE jobs[j] = NoJob
  BY <1>1, <1>3 DEF NoJob, JobRow
<1>4. CASE jobs[j] \in JobRow
  BY <1>1, <1>4 DEF NoJob, JobRow
<1> QED
  BY <1>2, <1>3, <1>4

JobMade(q) ==
  /\ Ops(q, {"createJob", "patchJob"}) /\ IsFlow(req[q].on)
  /\ \E j \in Request :
       /\ jobs'[j] = [flow |-> req[q].on, status |-> "active"]
       /\ Ops(q, {"createJob"}) \/ jobs[j].status = "active"
       /\ \A i \in Request \ {j} : jobs'[i] = jobs[i]

(* A job that there is goes, or gets another status.                       *)
JobTurned(statuses) ==
  \E j \in Request :
    /\ jobs[j] # NoJob
    /\ jobs'[j] = NoJob \/ \E status \in statuses : jobs'[j] = [flow |-> jobs[j].flow,
                                                               status |-> status]
    /\ \A i \in Request \ {j} : jobs'[i] = jobs[i]

(* The ways the jobs change, row by row. *)
LEMMA JobsChange ==
  ASSUME Types, Next
  PROVE  \/ jobs' = jobs
         \/ /\ UNCHANGED <<flows, file>>
            /\ \E q \in InService : q \in Request /\ Serves(q) /\ JobMade(q)
         \/ /\ UNCHANGED <<flows, file>>
            /\ \E q \in Request : Serves(q) /\ req'[q].op = "finishedJob"
            /\ JobTurned({"active"})
         \/ UNCHANGED <<flows, file>> /\ JobTurned({"over"})
         \/ \E q \in InService : Replay(q) /\ req[q].on \in Request /\ PutBack(req[q].on)
<1>1. RowsOK /\ HandlersOK /\ (\A q \in Request : ArgsOK(q)) /\ jobs \in JobTable
  BY TypesParts DEF RowsOK
<1>2. ASSUME NEW q \in InService, CatalogStep(q), jobs' # jobs
      PROVE  q \in Request /\ Serves(q) /\ JobMade(q) /\ flows' = flows
  <2>1. q \in Request /\ ArgsOK(q) /\ Serves(q)
    BY <1>1, <1>2, CatalogGoesOn DEF InService
  <2>2. CASE WriteJob(q)
    <3> DEFINE j == req[q].with
    <3>1. /\ jobs[j].status = "active" /\ IsFlow(req[q].on) /\ At(q, "patchJob", "write")
          /\ jobs' = [jobs EXCEPT ![j].flow = req[q].on] /\ flows' = flows
      BY <1>2, <2>2 DEF WriteJob
    <3>2. j \in Request
      BY <2>1, <3>1 DEF At, ArgsOK, Ops
    <3>3. jobs[j] \in JobRow
      BY <1>1, <3>1, <3>2, JobRows
    <3>4. jobs' = [jobs EXCEPT ![j] = [jobs[j] EXCEPT !.flow = req[q].on]]
      BY <1>1, <3>1, <3>2
    <3>5. [jobs[j] EXCEPT !.flow = req[q].on] = [flow |-> req[q].on, status |-> "active"]
      BY <3>1, <3>3 DEF JobRow
    <3>6. /\ jobs'[j] = [flow |-> req[q].on, status |-> "active"]
          /\ \A i \in Request \ {j} : jobs'[i] = jobs[i]
      BY <1>1, <3>2, <3>4, <3>5 DEF JobTable
    <3> QED
      BY <2>1, <3>1, <3>2, <3>6 DEF JobMade, At, Ops
  <2>3. CASE InsertJob(q)
    <3>1. /\ IsFlow(req[q].on) /\ At(q, "createJob", "insert") /\ flows' = flows
          /\ jobs' = [jobs EXCEPT ![q] = [flow |-> req[q].on, status |-> "active"]]
      BY <1>2, <2>3 DEF InsertJob
    <3>2. /\ jobs'[q] = [flow |-> req[q].on, status |-> "active"]
          /\ \A i \in Request \ {q} : jobs'[i] = jobs[i]
      BY <1>1, <2>1, <3>1 DEF JobTable
    <3> QED
      BY <2>1, <3>1, <3>2 DEF JobMade, At, Ops
  <2>4. WriteJob(q) \/ InsertJob(q)
    BY <1>2 DEF CatalogStep, InsertFlow, WriteFlow, DeleteFlow, SetDefaultFlow, CountJobs,
       UpsertImported, ResolveSteps, WriteTemplate, DeleteTemplate, SetSeriesFlow, catalogVars
  <2> QED
    BY <2>2, <2>3, <2>4
<1>3. ASSUME NEW j \in Request, NEW status, jobs[j].status \in {"active", "over"},
             jobs' = [jobs EXCEPT ![j].status = status]
      PROVE  JobTurned({status})
  <2>1. jobs[j] \in JobRow /\ jobs[j] # NoJob
    BY <1>1, <1>3, JobRows
  <2>2. jobs' = [jobs EXCEPT ![j] = [jobs[j] EXCEPT !.status = status]]
    BY <1>1, <1>3
  <2>3. [jobs[j] EXCEPT !.status = status] = [flow |-> jobs[j].flow, status |-> status]
    BY <2>1 DEF JobRow
  <2> QED
    BY <1>1, <2>1, <2>2, <2>3 DEF JobTurned, JobTable
<1>4. ASSUME NEW q \in Request, Arriving(q), RequeueOrDeleteJob(q)
      PROVE  /\ flows' = flows /\ Serves(q) /\ req'[q].op = "finishedJob"
             /\ JobTurned({"active"})
  <2>1. PICK j \in Request :
          /\ jobs[j].status = "over"
          /\ jobs' \in {[jobs EXCEPT ![j].status = "active"], [jobs EXCEPT ![j] = NoJob]}
          /\ Begin(q, "finishedJob", "end", j, Nil, Nil) /\ flows' = flows
    BY <1>4 DEF RequeueOrDeleteJob
  <2>2. Comes(q, "finishedJob", "end", j, Nil, Nil)
    BY <1>1, <1>4, <2>1, BeginServes
  <2>3. CASE jobs' = [jobs EXCEPT ![j] = NoJob]
    <3>1. jobs[j] # NoJob
      BY <1>1, <2>1, JobRows
    <3> QED
      BY <1>1, <2>1, <2>2, <2>3, <3>1 DEF JobTurned, JobTable, Comes
  <2>4. CASE jobs' = [jobs EXCEPT ![j].status = "active"]
    <3>1. JobTurned({"active"})
      BY <1>3, <2>1, <2>4
    <3>2. Serves(q) /\ req'[q].op = "finishedJob"
      BY <2>2 DEF Comes
    <3> QED
      BY <2>1, <3>1, <3>2
  <2> QED
    BY <2>1, <2>3, <2>4
<1>5. ASSUME Farm PROVE UNCHANGED <<flows, file>> /\ JobTurned({"over"})
  <2>1. UNCHANGED <<flows, file>>
        /\ \E j \in Request :
             jobs[j].status = "active" /\ jobs' = [jobs EXCEPT ![j].status = "over"]
    BY <1>5 DEF Farm, FinishJob, backupVars
  <2> QED
    BY <1>3, <2>1
<1>6. \A q \in Request : CreateTemplate(q) \/ ResetTemplate(q) => jobs' = jobs
  BY DEF CreateTemplate, ResetTemplate
<1>7. Restart => jobs' = jobs
  BY DEF Restart, CatalogBoot
<1>8. UNCHANGED catalogVars => jobs' = jobs
  BY DEF catalogVars
<1>9. UNCHANGED backupVars => file' = file
  BY DEF backupVars
<1> QED
  BY <1>2, <1>4, <1>5, <1>6, <1>7, <1>8, <1>9, CatalogChange

----------------------------------------------------------------------------
(* The accounts, row by row.                                               *)

PasswordWritten(q) ==
  /\ At(q, "password", "write") /\ GoesOn(q, "revoke") /\ req[q].on \in User
  /\ \/ users' = users
     \/ IsUser(req[q].on) /\ users' = SetPassword(req[q].on)
  /\ sessions' = sessions

SessionOpened(q) ==
  /\ At(q, "login", "insert") /\ GoesOn(q, "end")
  /\ req[q].on \in User /\ IsUser(req[q].on)
  /\ sessions'[q] = [user |-> req[q].on, proof |-> req[q].seen]
  /\ \A s \in Session \ {q} : sessions'[s] = sessions[s]
  /\ users' = users

SessionsRevoked(q) ==
  /\ At(q, "password", "revoke") /\ GoesOn(q, "end") /\ req[q].on \in User
  /\ Revoke(req[q].on, req[q].with) /\ users' = users

UserMade(q) ==
  /\ At(q, "createUser", "insert") /\ GoesOn(q, "end")
  /\ req[q].on \in Names /\ req[q].with \in {"admin", "viewer"}
  /\ users'[q] = [name |-> req[q].on, role |-> req[q].with, pass |-> 0]
  /\ \A u \in User \ {q} : users'[u] = users[u]
  /\ sessions' = sessions

UserDeleted(q) ==
  /\ At(q, "deleteUser", "delete") /\ GoesOn(q, "end") /\ req[q].on \in User
  /\ users'[req[q].on] = NoUser
  /\ \A u \in User \ {req[q].on} : users'[u] = users[u]
  /\ Revoke(req[q].on, Nil)

LoggedOut(q) ==
  /\ Serves(q) /\ req'[q].op = "logout" /\ users' = users
  /\ \E s \in Session :
       /\ sessions'[s] = NoSession
       /\ \A r \in Session \ {s} : sessions'[r] = sessions[r]

(* The ways the users and the sessions change, row by row. *)
LEMMA UsersChange ==
  ASSUME Types, Next
  PROVE  \/ UNCHANGED <<users, sessions>>
         \/ /\ UNCHANGED backupVars
            /\ \/ \E q \in Request : LoggedOut(q)
               \/ \E q \in InService :
                    /\ q \in Request
                    /\ \/ PasswordWritten(q) \/ SessionOpened(q) \/ SessionsRevoked(q)
                       \/ UserMade(q) \/ UserDeleted(q)
         \/ \E q \in InService : Replay(q) /\ req[q].on \in Request /\ PutBack(req[q].on)
         \/ Restart /\ AccountsBoot /\ InService' = {}
<1>1. RowsOK /\ HandlersOK /\ (\A q \in Request : ArgsOK(q))
      /\ users \in UserTable /\ sessions \in SessionTable
  BY TypesParts DEF RowsOK
<1>2. ASSUME NEW q \in InService, AccountsStep(q), ~UNCHANGED <<users, sessions>>
      PROVE  /\ q \in Request
             /\ \/ PasswordWritten(q) \/ SessionOpened(q) \/ SessionsRevoked(q)
                \/ UserMade(q) \/ UserDeleted(q)
  <2>1. q \in Request /\ ArgsOK(q)
    BY <1>1 DEF InService
  <2>2. CASE InsertSession(q)
    <3>1. /\ At(q, "login", "insert") /\ Goto(q, "end") /\ IsUser(req[q].on) /\ users' = users
          /\ sessions' = [sessions EXCEPT ![q] = [user |-> req[q].on, proof |-> req[q].seen]]
      BY <1>2, <2>2 DEF InsertSession, End
    <3>2. GoesOn(q, "end")
      BY <1>1, <3>1, GotoServes
    <3>3. /\ sessions'[q] = [user |-> req[q].on, proof |-> req[q].seen]
          /\ \A s \in Session \ {q} : sessions'[s] = sessions[s]
      BY <1>1, <2>1, <3>1 DEF SessionTable, Session
    <3> QED
      BY <2>1, <3>1, <3>2, <3>3 DEF SessionOpened, IsUser
  <2>3. CASE WritePassword(q)
    <3>1. /\ At(q, "password", "write") /\ Goto(q, "revoke") /\ sessions' = sessions
          /\ users' = IF IsUser(req[q].on) THEN SetPassword(req[q].on) ELSE users
      BY <2>3 DEF WritePassword
    <3>2. GoesOn(q, "revoke")
      BY <1>1, <3>1, GotoServes
    <3>3. req[q].on \in User
      BY <2>1, <3>1 DEF At, ArgsOK, Ops
    <3> QED
      BY <2>1, <3>1, <3>2, <3>3 DEF PasswordWritten
  <2>4. CASE RevokeSessions(q)
    <3>1. /\ At(q, "password", "revoke") /\ Goto(q, "end") /\ users' = users
          /\ Revoke(req[q].on, req[q].with)
      BY <2>4 DEF RevokeSessions, End
    <3>2. GoesOn(q, "end")
      BY <1>1, <3>1, GotoServes
    <3>3. req[q].on \in User
      BY <2>1, <3>1 DEF At, ArgsOK, Ops
    <3> QED
      BY <2>1, <3>1, <3>2, <3>3 DEF SessionsRevoked
  <2>5. CASE InsertUser(q)
    <3>1. /\ At(q, "createUser", "insert") /\ Goto(q, "end") /\ sessions' = sessions
          /\ users' = [users EXCEPT ![q] =
                         [name |-> req[q].on, role |-> req[q].with, pass |-> 0]]
      BY <1>2, <2>5 DEF InsertUser, End
    <3>2. GoesOn(q, "end")
      BY <1>1, <3>1, GotoServes
    <3>3. req[q].on \in Names /\ req[q].with \in {"admin", "viewer"}
      BY <2>1, <3>1 DEF At, ArgsOK, Ops
    <3>4. /\ users'[q] = [name |-> req[q].on, role |-> req[q].with, pass |-> 0]
          /\ \A u \in User \ {q} : users'[u] = users[u]
      BY <1>1, <2>1, <3>1 DEF UserTable, User
    <3> QED
      BY <2>1, <3>1, <3>2, <3>3, <3>4 DEF UserMade
  <2>6. CASE CountAdmins(q)
    BY <1>2, <2>6 DEF CountAdmins, accountVars
  <2>7. CASE DeleteUser(q)
    <3>1. /\ At(q, "deleteUser", "delete") /\ Goto(q, "end")
          /\ users' = [users EXCEPT ![req[q].on] = NoUser] /\ Revoke(req[q].on, Nil)
      BY <2>7 DEF DeleteUser, End
    <3>2. GoesOn(q, "end")
      BY <1>1, <3>1, GotoServes
    <3>3. req[q].on \in User
      BY <2>1, <3>1 DEF At, ArgsOK, Ops
    <3>4. /\ users'[req[q].on] = NoUser
          /\ \A u \in User \ {req[q].on} : users'[u] = users[u]
      BY <1>1, <3>1, <3>3 DEF UserTable
    <3> QED
      BY <2>1, <3>1, <3>2, <3>3, <3>4 DEF UserDeleted
  <2> QED
    BY <1>2, <2>2, <2>3, <2>4, <2>5, <2>6, <2>7 DEF AccountsStep
<1>3. ASSUME NEW q \in Request, Arriving(q), Logout(q) PROVE LoggedOut(q)
  <2>1. PICK s \in Session :
          /\ Begin(q, "logout", "end", s, Nil, Nil)
          /\ sessions' = [sessions EXCEPT ![s] = NoSession] /\ users' = users
    BY <1>3 DEF Logout
  <2>2. Comes(q, "logout", "end", s, Nil, Nil)
    BY <1>1, <1>3, <2>1, BeginServes
  <2>3. sessions'[s] = NoSession /\ \A r \in Session \ {s} : sessions'[r] = sessions[r]
    BY <1>1, <2>1 DEF SessionTable
  <2> QED
    BY <2>1, <2>2, <2>3 DEF LoggedOut, Comes
<1>4. \A q \in Request : FlipToken(q) => UNCHANGED <<users, sessions>>
  BY DEF FlipToken
<1>5. Restart => AccountsBoot /\ InService' = {}
  BY <1>1, CutServes DEF Restart
<1>6. UNCHANGED accountVars => UNCHANGED <<users, sessions>>
  BY DEF accountVars
<1> QED
  BY <1>2, <1>3, <1>4, <1>5, <1>6, AccountsChange

----------------------------------------------------------------------------
(* Rows have what they refer to, in the tables and in the dumps.           *)

(* A job that goes, or gets another status, leaves the others where they   *)
(* are, and no row it did not refer to.                                    *)
LEMMA JobTurnedRefers ==
  ASSUME NEW statuses, JobTurned(statuses), NEW fs, JobsRefer(jobs, fs)
  PROVE  JobsRefer(jobs', fs)
<1> SUFFICES ASSUME NEW k \in Request, jobs'[k] # NoJob PROVE fs[jobs'[k].flow] # NoFlow
  BY DEF JobsRefer
<1>1. jobs[k] # NoJob /\ jobs'[k].flow = jobs[k].flow
  <2> DEFINE Turned(j) ==
        \/ jobs'[j] = NoJob
        \/ \E status \in statuses : jobs'[j] = [flow |-> jobs[j].flow, status |-> status]
  <2>1. PICK j \in Request :
          jobs[j] # NoJob /\ Turned(j) /\ \A i \in Request \ {j} : jobs'[i] = jobs[i]
    BY Zenon DEF JobTurned
  <2>2. CASE k = j
    <3>1. PICK status \in statuses : jobs'[j] = [flow |-> jobs[j].flow, status |-> status]
      BY <2>1, <2>2
    <3>2. jobs'[j].flow = jobs[j].flow
      BY <3>1
    <3> QED
      BY <2>1, <2>2, <3>2
  <2>3. CASE k # j
    <3>1. jobs'[k] = jobs[k]
      BY <2>1, <2>3
    <3> QED
      BY <3>1
  <2> QED
    BY <2>2, <2>3
<1> QED
  BY <1>1 DEF JobsRefer

(* The foreign key of the jobs: a flow with jobs is not deleted, a job    *)
(* is not made without its flow.                                          *)
LEMMA JobsReferStep ==
  ASSUME Types, Next, JobsRefer(jobs, flows)
  PROVE  JobsRefer(jobs, flows)'
<1>1. RowsOK /\ FilesOK /\ HandlersOK
  BY TypesParts
<1>2. Nil \notin FlowName /\ Nil \notin Flow /\ DefaultFlow \in FlowName
  BY CatalogAssumption, RequestsAssumption DEF Flow
<1>3. ASSUME NEW d \in Request, PutBack(d) PROVE JobsRefer(jobs, flows)'
  <2>1. OrphanJobs(file[d]) = {}
        /\ jobs' = Content(file[d], "jobs", NoJobs)
        /\ flows' = Content(file[d], "flows", NoFlows).flows
    BY <1>3 DEF PutBack
  <2> QED
    BY <2>1 DEF OrphanJobs, JobsRefer
<1>4. ASSUME NEW j \in Request, jobs[j] # NoJob
      PROVE  jobs[j].flow \in Flow /\ flows[jobs[j].flow] # NoFlow
  BY <1>1, <1>4, JobRows DEF JobsRefer
<1>5. CASE jobs' = jobs /\ ~\E d \in Request : PutBack(d)
  <2>1. SUFFICES ASSUME NEW f \in Flow, flows[f] # NoFlow, \E j \in Request : jobs[j].flow = f
                 PROVE  flows'[f] # NoFlow
    BY <1>4, <1>5 DEF JobsRefer
  <2>2. ASSUME NEW q \in Request, FlowInserted(q) PROVE flows'[f] # NoFlow
    <3>1. req[q].on \in FlowName
      BY <2>2, TypesParts DEF FlowInserted, ArgsOK, Ops
    <3> QED
      BY <1>2, <2>1, <2>2, <3>1 DEF FlowInserted, NoFlow
  <2>3. ASSUME NEW q \in Request, FlowUpdated(q) PROVE flows'[f] # NoFlow
    <3>1. req[q].with.name \in FlowName
      BY <2>3, TypesParts DEF FlowUpdated, At, ArgsOK, Ops
    <3> QED
      BY <1>2, <2>1, <2>3, <3>1 DEF FlowUpdated, NoFlow
  <2>4. ASSUME NEW q \in Request, FlowDeleted(q) PROVE flows'[f] # NoFlow
    BY <2>1, <2>4 DEF FlowDeleted, Referenced
  <2>5. ASSUME NEW q \in Request, FlowFlagged(q) PROVE flows'[f] # NoFlow
    BY <2>1, <2>5 DEF FlowFlagged
  <2>6. ASSUME NEW g \in Flow, FlowSeeded(g) PROVE flows'[f] # NoFlow
    BY <1>2, <2>1, <2>6 DEF FlowSeeded, NoFlow
  <2> QED
    BY <1>5, <2>1, <2>2, <2>3, <2>4, <2>5, <2>6, FlowsChange
<1>6. ASSUME NEW q \in Request, JobMade(q), flows' = flows PROVE JobsRefer(jobs, flows)'
  BY <1>6 DEF JobMade, JobsRefer, IsFlow
<1>7. ASSUME NEW statuses, JobTurned(statuses), flows' = flows PROVE JobsRefer(jobs, flows)'
  BY <1>7, JobTurnedRefers
<1> QED
  BY <1>3, <1>5, <1>6, <1>7, JobsChange

(* That of the sessions: they go with their user. *)
LEMMA SessionsReferStep ==
  ASSUME Types, Next, SessionsRefer(sessions, users)
  PROVE  SessionsRefer(sessions, users)'
<1>1. RowsOK /\ FilesOK /\ HandlersOK
  BY TypesParts
<1>2. Nil \notin Names /\ Nil \notin Session /\ Configured \in Names
  BY AccountsAssumption, RequestsAssumption DEF Names, Session
<1>3. ASSUME NEW s \in Session, sessions[s] # NoSession
      PROVE  sessions[s].user \in User /\ users[sessions[s].user] # NoUser
  BY <1>1, <1>3, SessionRows DEF SessionsRefer
<1>4. ASSUME NEW d \in Request, PutBack(d) PROVE SessionsRefer(sessions, users)'
  <2>1. OrphanSessions(file[d]) = {}
        /\ sessions' = Content(file[d], "sessions", NoSessions)
        /\ users' = Content(file[d], "users", NoUsers).users
    BY <1>4 DEF PutBack
  <2> QED
    BY <2>1 DEF OrphanSessions, SessionsRefer
<1>5. ASSUME NEW u \in User, IsUser(u), users' = SetPassword(u)
      PROVE  \A v \in User : users[v] # NoUser => users'[v] # NoUser
  <2>1. users[u] \in UserRow
    BY <1>1, <1>5, UserRows DEF IsUser
  <2>2. users[u].name # Nil
    BY <1>2, <2>1 DEF UserRow
  <2> QED
    <3>1. /\ users'[u] = [name |-> users[u].name, role |-> users[u].role,
                          pass |-> users[u].pass + 1]
          /\ \A v \in User \ {u} : users'[v] = users[v]
      BY <1>1, <1>5, PasswordSet
    <3>2. users'[u].name # Nil
      BY <2>2, <3>1
    <3> QED
      BY <3>1, <3>2 DEF NoUser
<1>6. ASSUME NEW u \in User, NEW keep, Revoke(u, keep)
      PROVE  \A s \in Session :
               sessions'[s] # NoSession =>
                 /\ sessions[s] # NoSession /\ sessions'[s].user = sessions[s].user
                 /\ keep = Nil => sessions[s].user # u
  <2> SUFFICES ASSUME NEW s \in Session, sessions'[s] # NoSession
               PROVE  /\ sessions[s] # NoSession /\ sessions'[s].user = sessions[s].user
                      /\ keep = Nil => sessions[s].user # u
    OBVIOUS
  <2>1. CASE sessions[s].user # u
    BY <1>1, <1>6, <2>1, Revoked
  <2>2. CASE sessions[s].user = u
    <3>1. sessions'[s] = [user |-> u, proof |-> users[u].pass] /\ s = keep
      BY <1>1, <1>6, <2>2, Revoked
    <3>2. sessions[s] # NoSession
      BY <1>1, <2>2, SessionRows
    <3> QED
      BY <1>2, <2>2, <3>1, <3>2
  <2> QED
    BY <2>1, <2>2
<1>7. CASE UNCHANGED <<users, sessions>>
  BY <1>7 DEF SessionsRefer
<1>8. ASSUME NEW q \in Request, PasswordWritten(q) PROVE SessionsRefer(sessions, users)'
  BY <1>3, <1>5, <1>8 DEF PasswordWritten, SessionsRefer
<1>9. ASSUME NEW q \in Request, SessionOpened(q) PROVE SessionsRefer(sessions, users)'
  BY <1>9 DEF SessionOpened, SessionsRefer, IsUser
<1>10. ASSUME NEW q \in Request, SessionsRevoked(q) PROVE SessionsRefer(sessions, users)'
  BY <1>3, <1>6, <1>10 DEF SessionsRevoked, SessionsRefer
<1>11. ASSUME NEW q \in Request, UserMade(q) PROVE SessionsRefer(sessions, users)'
  <2>1. users'[q] # NoUser
    BY <1>2, <1>11 DEF UserMade, NoUser
  <2> QED
    BY <1>3, <1>11, <2>1 DEF UserMade, SessionsRefer
<1>12. ASSUME NEW q \in Request, UserDeleted(q) PROVE SessionsRefer(sessions, users)'
  BY <1>3, <1>6, <1>12 DEF UserDeleted, SessionsRefer
<1>13. ASSUME NEW q \in Request, LoggedOut(q) PROVE SessionsRefer(sessions, users)'
  BY <1>13 DEF LoggedOut, SessionsRefer
<1>14. CASE Restart /\ AccountsBoot
  <2>1. CASE UNCHANGED <<users, sessions>>
    BY <1>7, <2>1
  <2>2. ASSUME NEW u \in User, IsUser(u), users' = SetPassword(u), Revoke(u, Nil)
        PROVE  SessionsRefer(sessions, users)'
    BY <1>3, <1>5, <1>6, <2>2 DEF SessionsRefer
  <2>3. CASE /\ users'[Seeded] = [name |-> Configured, role |-> "admin", pass |-> 0]
             /\ \A u \in User \ {Seeded} : users'[u] = users[u]
             /\ sessions' = sessions
    <3>1. users'[Seeded] # NoUser
      BY <1>2, <2>3 DEF NoUser
    <3> QED
      BY <1>3, <2>3, <3>1 DEF SessionsRefer
  <2> QED
    BY <1>1, <1>14, <2>1, <2>2, <2>3, AccountsBooted
<1> QED
  BY <1>4, <1>7, <1>8, <1>9, <1>10, <1>11, <1>12, <1>13, <1>14, UsersChange

(* Whoever wrote while a dump was read stays on record. *)
LEMMA TouchedStays ==
  ASSUME Types, Next, NEW d \in Request, NEW ops, "none" \notin ops, Touched(d, ops)
  PROVE  Touched(d, ops)'
<1>1. PICK q \in Request : Ops(q, ops) /\ Overlap(q, d)
  BY DEF Touched
<1>2. Ops(q, ops)' /\ Overlap(q, d)'
  BY <1>1, OpsStay, OverlapsStay
<1> QED
  BY <1>2 DEF Touched

(* Who does a step while a dump reads has touched it.                      *)
LEMMA TouchesDump ==
  ASSUME Types, Next, NEW d \in Request, Reading(d), NEW q \in Request, Serves(q),
         NEW ops, Ops(q, ops), ops \cap {"none", "manualDump", "scheduledDump"} = {}
  PROVE  Touched(d, ops)'
<1>1. d \in InService /\ d # q /\ "none" \notin ops
  BY DEF Reading, InService, Dumps, Ops
<1>2. Overlap(q, d)'
  BY <1>1, TypesParts, ServesOverlaps
<1>3. Ops(q, ops)'
  BY <1>1, OpsStay
<1> QED
  BY <1>2, <1>3 DEF Touched

(* A dump's jobs refer to its flows, or one was written while it was      *)
(* read.                                                                  *)
LEMMA JobDumpStep ==
  ASSUME Types, Next, JobsRefer(jobs, flows), NEW d \in Request, JobDump(d)
  PROVE  JobDump(d)'
<1> SUFFICES ASSUME IsFile(d)', Reached(file'[d], "flows")
             PROVE  /\ Reading(d)' => \/ JobsRefer(jobs', file'[d]["flows"].flows)
                                      \/ Touched(d, JobWriters)'
                    /\ Reached(file'[d], "jobs") =>
                         \/ JobsRefer(file'[d]["jobs"], file'[d]["flows"].flows)
                         \/ Touched(d, JobWriters)'
  BY DEF JobDump, IsFile, Reached, JobsRefer
<1>1. RowsOK /\ FilesOK
  BY TypesParts
<1>2. "none" \notin JobWriters /\ JobWriters \cap {"none", "manualDump", "scheduledDump"} = {}
  BY DEF JobWriters
<1>3. CASE Reads(d, "flows")
  <2>1. FileOK(file[d]) /\ ~Reached(file[d], "jobs") /\ jobs' = jobs
    BY <1>1, <1>3 DEF Reads, FilesOK, Reading, catalogVars
  <2>2. file'[d]["flows"].flows = flows /\ ~Reached(file'[d], "jobs")
    BY <1>1, <1>3, <2>1, RowsOfTable DEF Reads, Reached, TableName
  <2> QED
    BY <2>1, <2>2
<1>4. CASE ~Reads(d, "flows")
  <2>1. IsFile(d) /\ Reached(file[d], "flows") /\ file'[d]["flows"] = file[d]["flows"]
        /\ (Reading(d)' => Reading(d))
    BY <1>4, Dumped DEF TableName
  <2> DEFINE fs == file[d]["flows"].flows
  <2>2. ASSUME Reading(d), JobsRefer(jobs, fs)
        PROVE  JobsRefer(jobs', fs) \/ Touched(d, JobWriters)'
    <3>1. CASE jobs' = jobs
      BY <2>2, <3>1
    <3>2. ASSUME NEW q \in Request, Serves(q), Ops(q, {"createJob", "patchJob", "restore"})
          PROVE  Touched(d, JobWriters)'
      BY <1>2, <2>2, <3>2, TouchesDump DEF JobWriters, Ops
    <3>3. ASSUME NEW statuses, JobTurned(statuses) PROVE JobsRefer(jobs', fs)
      BY <2>2, <3>3, JobTurnedRefers
    <3>4. ASSUME NEW q \in InService, Replay(q)
          PROVE  q \in Request /\ Serves(q) /\ Ops(q, {"createJob", "patchJob", "restore"})
      BY <3>4, TypesParts, ReplayIs DEF InService, GoesOn, Ops
    <3>5. \A q \in Request : JobMade(q) => Ops(q, {"createJob", "patchJob", "restore"})
      BY DEF JobMade, Ops
    <3> QED
      BY <3>1, <3>2, <3>3, <3>4, <3>5, JobsChange
  <2>3. ASSUME Reading(d)' PROVE JobsRefer(jobs', fs) \/ Touched(d, JobWriters)'
    BY <1>2, <2>1, <2>2, <2>3, TouchedStays DEF JobDump
  <2>4. ASSUME Reached(file'[d], "jobs")
        PROVE  JobsRefer(file'[d]["jobs"], fs) \/ Touched(d, JobWriters)'
    <3>1. CASE Reached(file[d], "jobs") /\ file'[d]["jobs"] = file[d]["jobs"]
      BY <1>2, <2>1, <3>1, TouchedStays DEF JobDump
    <3>2. CASE Reads(d, "jobs") /\ file'[d]["jobs"] = Rows("jobs")
      <4>1. Reading(d) /\ file'[d]["jobs"] = jobs
        BY <1>1, <3>2, RowsOfTable DEF Reads
      <4> QED
        BY <1>2, <2>1, <4>1, TouchedStays DEF JobDump
    <3> QED
      BY <2>4, <3>1, <3>2, Dumped DEF TableName
  <2> QED
    BY <2>1, <2>3, <2>4
<1> QED
  BY <1>3, <1>4

(* A dump's sessions refer to its users, or one was written while it was  *)
(* read.                                                                  *)
LEMMA SessionDumpStep ==
  ASSUME Types, Next, SessionsRefer(sessions, users), NEW d \in Request, SessionDump(d)
  PROVE  SessionDump(d)'
<1> SUFFICES ASSUME IsFile(d)', Reached(file'[d], "users")
             PROVE  /\ Reading(d)' /\ ~Reached(file'[d], "sessions") =>
                         \/ SessionsRefer(sessions', file'[d]["users"].users)
                         \/ Touched(d, SessionWriters)'
                    /\ Reached(file'[d], "sessions") =>
                         \/ SessionsRefer(file'[d]["sessions"], file'[d]["users"].users)
                         \/ Touched(d, SessionWriters)'
  BY DEF SessionDump, IsFile, Reached, SessionsRefer
<1>1. RowsOK /\ FilesOK
  BY TypesParts
<1>2. "none" \notin SessionWriters
      /\ SessionWriters \cap {"none", "manualDump", "scheduledDump"} = {}
  BY DEF SessionWriters
<1>3. CASE Reads(d, "users")
  <2>1. FileOK(file[d]) /\ ~Reached(file[d], "sessions") /\ sessions' = sessions
    BY <1>1, <1>3 DEF Reads, FilesOK, FileOK, Reading, accountVars
  <2>2. file'[d]["users"].users = users /\ ~Reached(file'[d], "sessions")
    BY <1>1, <1>3, <2>1, RowsOfTable DEF Reads, Reached, TableName
  <2> QED
    BY <2>1, <2>2
<1>4. CASE ~Reads(d, "users")
  <2>1. IsFile(d) /\ Reached(file[d], "users") /\ file'[d]["users"] = file[d]["users"]
        /\ (Reading(d)' => Reading(d))
    BY <1>4, Dumped DEF TableName
  <2> DEFINE us == file[d]["users"].users
  <2>2. ASSUME Reading(d), SessionsRefer(sessions, us)
        PROVE  SessionsRefer(sessions', us) \/ Touched(d, SessionWriters)'
    <3>1. CASE sessions' = sessions
      BY <2>2, <3>1
    <3>2. ASSUME NEW q \in Request, Serves(q), Ops(q, {"login", "restore"})
          PROVE  Touched(d, SessionWriters)'
      BY <1>2, <2>2, <3>2, TouchesDump DEF SessionWriters
    <3>3. ASSUME NEW u \in User, NEW keep, Revoke(u, keep) PROVE SessionsRefer(sessions', us)
      <4>1. SUFFICES ASSUME NEW s \in Session, sessions'[s] # NoSession
                     PROVE  us[sessions'[s].user] # NoUser
        BY DEF SessionsRefer
      <4>2. sessions[s] # NoSession /\ sessions'[s].user = sessions[s].user
        <5>1. CASE sessions[s].user # u
          BY <1>1, <3>3, <4>1, <5>1, Revoked
        <5>2. CASE sessions[s].user = u
          <6>1. sessions'[s] = [user |-> u, proof |-> users[u].pass]
            BY <1>1, <3>3, <4>1, <5>2, Revoked
          <6>2. sessions[s] # NoSession
            BY <1>1, <5>2, SessionRows
          <6> QED
            BY <5>2, <6>1, <6>2
        <5> QED
          BY <5>1, <5>2
      <4> QED
        BY <2>2, <4>2 DEF SessionsRefer
    <3>4. ASSUME NEW q \in Request, LoggedOut(q) PROVE SessionsRefer(sessions', us)
      BY <2>2, <3>4 DEF LoggedOut, SessionsRefer
    <3>5. ASSUME NEW q \in InService, Replay(q)
          PROVE  q \in Request /\ Serves(q) /\ Ops(q, {"login", "restore"})
      BY <3>5, TypesParts, ReplayIs DEF InService, GoesOn, Ops
    <3>6. \A q \in Request : SessionOpened(q) => Serves(q) /\ Ops(q, {"login", "restore"})
      BY DEF SessionOpened, GoesOn, At, Ops
    <3>7. \A q \in Request : PasswordWritten(q) \/ UserMade(q) => sessions' = sessions
      BY DEF PasswordWritten, UserMade
    <3>8. ASSUME NEW q \in Request, SessionsRevoked(q) \/ UserDeleted(q)
          PROVE  SessionsRefer(sessions', us)
      BY <3>3, <3>8 DEF SessionsRevoked, UserDeleted
    <3>9. CASE AccountsBoot
      BY <1>1, <3>1, <3>3, <3>9, AccountsBooted
    <3> QED
      BY <3>1, <3>2, <3>4, <3>5, <3>6, <3>7, <3>8, <3>9, UsersChange
  <2>3. ASSUME Reached(file[d], "sessions") PROVE Reached(file'[d], "sessions")
    BY <2>1, <2>3, TypesParts, DumpsStep, EmptyFileIs DEF Reads, Reached, TableName
  <2>4. ASSUME Reading(d)', ~Reached(file'[d], "sessions")
        PROVE  SessionsRefer(sessions', us) \/ Touched(d, SessionWriters)'
    BY <1>2, <2>1, <2>2, <2>3, <2>4, TouchedStays DEF SessionDump
  <2>5. ASSUME Reached(file'[d], "sessions")
        PROVE  SessionsRefer(file'[d]["sessions"], us) \/ Touched(d, SessionWriters)'
    <3>1. CASE Reached(file[d], "sessions") /\ file'[d]["sessions"] = file[d]["sessions"]
      BY <1>2, <2>1, <3>1, TouchedStays DEF SessionDump
    <3>2. CASE Reads(d, "sessions") /\ file'[d]["sessions"] = Rows("sessions")
      <4>1. Reading(d) /\ ~Reached(file[d], "sessions") /\ file'[d]["sessions"] = sessions
        BY <1>1, <3>2, RowsOfTable DEF Reads
      <4> QED
        BY <1>2, <2>1, <4>1, TouchedStays DEF SessionDump
    <3> QED
      BY <2>5, <3>1, <3>2, Dumped DEF TableName
  <2> QED
    BY <2>1, <2>4, <2>5
<1> QED
  BY <1>3, <1>4

(* All references are good at first, *)
LEMMA ReferInit == Init => ReferInv
<1> SUFFICES ASSUME Init PROVE ReferInv
  OBVIOUS
<1>1. \A d \in Request : ~IsFile(d)
  BY DEF Init, IsFile
<1>2. JobsRefer(jobs, flows)
  BY DEF Init, CatalogInit, JobsRefer
<1>3. SessionsRefer(sessions, users)
  <2> SUFFICES ASSUME NEW s \in Session, sessions[s] # NoSession
               PROVE  users[sessions[s].user] # NoUser
    BY DEF SessionsRefer
  <2>1. s \in Admins /\ sessions[s].user = s
    BY DEF Init, AccountsInit
  <2>2. users[s] = [name |-> NameOf[s], role |-> "admin", pass |-> 0]
    BY <2>1 DEF Init, AccountsInit, User
  <2> QED
    BY <2>1, <2>2, AccountsAssumption DEF NoUser
<1> QED
  BY <1>1, <1>2, <1>3 DEF ReferInv, JobDump, SessionDump

(* and after every step. *)
LEMMA ReferStep == Types /\ ReferInv /\ [Next]_vars => ReferInv'
<1> SUFFICES ASSUME Types, ReferInv, [Next]_vars PROVE ReferInv'
  OBVIOUS
<1>1. CASE Next
  BY <1>1, JobsReferStep, SessionsReferStep, JobDumpStep, SessionDumpStep DEF ReferInv
<1>2. CASE UNCHANGED vars
  <2>1. UNCHANGED <<jobs, flows, sessions, users, file, req>>
    BY <1>2 DEF vars, accountVars, catalogVars, backupVars
  <2> QED
    BY <2>1 DEF ReferInv, JobDump, SessionDump, JobsRefer, SessionsRefer, IsFile, Reached,
       Reading, Dumps, Touched, Overlap, Ops
<1> QED
  BY <1>1, <1>2

(* A whole dump can be put back (restorePG): no row in it lacks the row it *)
(* refers to, unless somebody wrote while it was read.                     *)
THEOREM DumpsAreRestorable == Spec => []DumpsCanBeRestored
<1> DEFINE Inv == Types /\ ReferInv
<1>1. Init => Inv
  BY InitTypes, ReferInit
<1>2. Inv /\ [Next]_vars => Inv'
  BY TypesStep, ReferStep
<1>3. Inv => DumpsCanBeRestored
  <2> SUFFICES ASSUME Types, ReferInv, NEW d \in Request, Whole(file[d])
               PROVE  /\ OrphanJobs(file[d]) # {} => Touched(d, JobWriters)
                      /\ OrphanSessions(file[d]) # {} => Touched(d, SessionWriters)
    BY DEF DumpsCanBeRestored, Touched, JobWriters, SessionWriters
  <2>1. IsFile(d)
    BY DEF Whole, IsFile
  <2>2. FileOK(file[d]) /\ Reached(file[d], "jobs")
    BY <2>1, TypesParts, WholeIs DEF FilesOK
  <2>3. Reached(file[d], "flows") /\ Reached(file[d], "users") /\ Reached(file[d], "sessions")
    BY <2>2 DEF FileOK
  <2>4. JobsRefer(file[d]["jobs"], file[d]["flows"].flows) => OrphanJobs(file[d]) = {}
    BY <2>2, <2>3 DEF JobsRefer, OrphanJobs, Content
  <2>5. SessionsRefer(file[d]["sessions"], file[d]["users"].users) => OrphanSessions(file[d]) = {}
    BY <2>2, <2>3 DEF SessionsRefer, OrphanSessions, Content
  <2> QED
    BY <2>1, <2>2, <2>3, <2>4, <2>5 DEF ReferInv, JobDump, SessionDump
<1> HIDE DEF Inv
<1> QED
  BY <1>1, <1>2, <1>3, PTL DEF Spec

----------------------------------------------------------------------------
(* A restore spares the queue.                                             *)

(* A restore that has counted no active job still counts none, or         *)
(* overlaps the writer of one.                                            *)
LEMMA SpareStep ==
  ASSUME Types, Next, SpareInv
  PROVE  SpareInv'
<1> SUFFICES ASSUME NEW q \in Request, At(q, "restore", "replay")', ActiveJobs' # {}
             PROVE  \E p \in Request :
                      Ops(p, {"createJob", "finishedJob", "restore"})' /\ Overlap(p, q)'
  BY DEF SpareInv
<1>1. RowsOK /\ HandlersOK /\ FilesOK
  BY TypesParts
<1>2. CASE req'[q] = req[q] /\ ActiveJobs # {}
  <2>1. PICK p \in Request : Ops(p, {"createJob", "finishedJob", "restore"}) /\ Overlap(p, q)
    BY <1>2 DEF SpareInv, At
  <2>2. Ops(p, {"createJob", "finishedJob", "restore"})' /\ Overlap(p, q)'
    BY <2>1, OpsStay, OverlapsStay
  <2> QED
    BY <2>2
<1>3. CASE req'[q] = req[q] /\ ActiveJobs = {}
  <2>1. q \in InService /\ req[q].op = "restore"
    BY <1>3 DEF At, InService
  <2>2. PICK j \in Request : jobs'[j].status = "active" /\ jobs[j].status # "active"
    BY <1>3 DEF ActiveJobs
  <2>3. ASSUME NEW p \in Request, Serves(p), req'[p].op \in {"createJob", "finishedJob", "restore"},
               p # q
        PROVE  Ops(p, {"createJob", "finishedJob", "restore"})' /\ Overlap(p, q)'
    BY <1>1, <2>1, <2>3, ServesOverlaps DEF Ops
  <2>4. ASSUME NEW p \in InService, p \in Request, Serves(p), JobMade(p)
        PROVE  req'[p].op = "createJob" /\ p # q
    <3>1. Ops(p, {"createJob"})
      BY <1>3, <2>4 DEF JobMade, ActiveJobs
    <3> QED
      BY <1>1, <2>1, <2>4, <3>1 DEF Ops, Serves, HandlersOK, InService
  <2>5. ASSUME JobTurned({"over"}) PROVE FALSE
    BY <2>2, <2>5 DEF JobTurned, NoJob
  <2>6. ASSUME NEW p \in InService, Replay(p)
        PROVE  p \in Request /\ Serves(p) /\ req'[p].op = "restore" /\ p # q
    <3>1. p \in Request /\ GoesOn(p, "end") /\ req[p].op = "restore"
      BY <1>1, <2>6, TypesParts, ReplayIs DEF InService
    <3>2. req'[p].op = "restore" /\ req'[p].pc = "end"
      BY <3>1 DEF GoesOn
    <3>3. p # q
      BY <3>2 DEF At
    <3> QED
      BY <3>1, <3>2, <3>3 DEF GoesOn
  <2>7. ASSUME NEW p \in Request, Serves(p), req'[p].op = "finishedJob"
        PROVE  p # q
    BY <2>7 DEF At
  <2> QED
    BY <2>2, <2>3, <2>4, <2>5, <2>6, <2>7, JobsChange
<1>4. CASE req[q].op = "none" /\ Arrive(q) /\ Arriving(q)
  <2>1. RestoreArrives(q)
    <3>1. ~AccountsArrive(q)
      BY <1>1, <1>4, AccountsComes DEF AccountOps, At
    <3>2. ~CatalogArrive(q) /\ ~CreateJobArrives(q)
      BY <1>1, <1>4, CatalogComes, JobComes DEF CatalogOps, At
    <3>3. ~EnrolArrive(q) /\ ~PairArrives(q)
      BY <1>1, <1>4, EnrolComes, PairComes DEF EnrolOps, At
    <3>4. ~BackupArrive(q)
      <4>1. \A op, pc, on, with, seen : Begin(q, op, pc, on, with, seen) => req'[q].op = op
        BY <1>1 DEF Begin, HandlersOK
      <4> QED
        BY <4>1 DEF BackupArrive, StartDump, DeleteBackup, At
    <3> QED
      BY <1>4, <3>1, <3>2, <3>3, <3>4 DEF Arrive
  <2>2. ActiveJobs' = {}
    BY <2>1 DEF RestoreArrives, ActiveJobs, catalogVars
  <2> QED
    BY <2>2
<1>5. CASE q \in InService /\ Step(q) /\ Serves(q) /\ req[q].op # "none"
  <2>1. req[q].op = "restore"
    BY <1>5 DEF Serves, At
  <2> QED
    BY <1>5, <2>1, OwnStep DEF At, Ops
<1>6. CASE req'[q].pc = "cut"
  BY <1>6 DEF At
<1> QED
  BY <1>2, <1>3, <1>4, <1>5, <1>6, Stands DEF At

(* A restore takes away an unfinished job only if that was created, or     *)
(* queued again, after it had counted (handleBackupRestore).               *)
THEOREM QueueIsSpared == Spec => RestoreSparesQueue
<1> DEFINE Inv == Types /\ SpareInv
           A == \A q \in Request : \A j \in ActiveJobs :
                  At(q, "restore", "replay") /\ req'[q] # req[q] /\ jobs'[j] # jobs[j] =>
                    \E p \in Request :
                      /\ Ops(p, {"createJob", "finishedJob", "restore"})
                      /\ Overlap(p, q)
<1>1. Init => Inv
  <2>1. Init => SpareInv
    BY DEF Init, RequestsInit, Unserved, SpareInv, At
  <2> QED
    BY <2>1, InitTypes
<1>2. Inv /\ [Next]_vars => Inv'
  <2> SUFFICES ASSUME Inv, [Next]_vars PROVE Inv'
    OBVIOUS
  <2>1. CASE Next
    BY <2>1, TypesStep, SpareStep
  <2>2. CASE UNCHANGED vars
    <3>1. UNCHANGED <<req, jobs>>
      BY <2>2 DEF vars, catalogVars
    <3>2. SpareInv'
      BY <3>1 DEF SpareInv, At, ActiveJobs, Ops, Overlap
    <3> QED
      BY <3>2, TypesStep
  <2> QED
    BY <2>1, <2>2
<1>3. Inv => A
  BY DEF SpareInv
<1>4. RestoreSparesQueue <=> [][A]_vars
  BY DEF RestoreSparesQueue
<1> HIDE DEF Inv, A
<1> QED
  BY <1>1, <1>2, <1>3, <1>4, PTL DEF Spec

----------------------------------------------------------------------------
(* The rows of the accounts: where one comes from, and who takes one away. *)

(* Where a user comes from: it was there with the same role, a request    *)
(* has just made it, a dump held it, or it was seeded.                    *)
LEMMA UserFrom ==
  ASSUME Types, Next, NEW u \in User, users'[u] # NoUser
  PROVE  \/ /\ users[u] # NoUser /\ users'[u].role = users[u].role
            /\ users[u].pass \in Nat /\ users'[u].pass \in Nat
            /\ users'[u].pass >= users[u].pass
         \/ u \in Request /\ UserMade(u)
         \/ \E d \in Request :
              PutBack(d) /\ Reached(file[d], "users") /\ users' = file[d]["users"].users
         \/ u = Seeded /\ Restart /\ users'[u].role = "admin" /\ users'[u].pass = 0
<1>1. RowsOK /\ FilesOK /\ HandlersOK
  BY TypesParts
<1>2. users[u].pass \in Nat
  BY <1>1, UserRows
<1>3. CASE users'[u] = users[u]
  BY <1>2, <1>3
<1>4. ASSUME NEW v \in User, IsUser(v), users' = SetPassword(v)
      PROVE  /\ users[u] # NoUser /\ users'[u].role = users[u].role
             /\ users'[u].pass \in Nat /\ users'[u].pass >= users[u].pass
  <2>1. CASE u = v
    <3>1. users'[u] = [name |-> users[u].name, role |-> users[u].role,
                       pass |-> users[u].pass + 1]
      BY <1>1, <1>4, <2>1, PasswordSet
    <3>2. users'[u].role = users[u].role /\ users'[u].pass = users[u].pass + 1
      BY <3>1
    <3>3. users[u] # NoUser
      BY <1>4, <2>1 DEF IsUser
    <3> QED
      BY <1>2, <3>2, <3>3
  <2>2. CASE u # v
    <3>1. users'[u] = users[u]
      BY <1>1, <1>4, <2>2, PasswordSet
    <3> QED
      BY <1>2, <3>1
  <2> QED
    BY <2>1, <2>2
<1>5. ASSUME NEW q \in Request, UserMade(q), users'[u] # users[u]
      PROVE  u \in Request /\ UserMade(u)
  BY <1>5 DEF UserMade
<1>6. ASSUME NEW q \in Request, UserDeleted(q) PROVE users'[u] = users[u]
  BY <1>6 DEF UserDeleted
<1>7. ASSUME NEW d \in Request, PutBack(d)
      PROVE  Reached(file[d], "users") /\ users' = file[d]["users"].users
  BY <1>1, <1>7, PutBackIs
<1>8. ASSUME Restart, AccountsBoot, users'[u] # users[u],
             ~\E v \in User : IsUser(v) /\ users' = SetPassword(v)
      PROVE  u = Seeded /\ users'[u].role = "admin" /\ users'[u].pass = 0
  <2>1. /\ users'[Seeded] = [name |-> Configured, role |-> "admin", pass |-> 0]
        /\ \A v \in User \ {Seeded} : users'[v] = users[v]
    BY <1>1, <1>8, AccountsBooted
  <2>2. u = Seeded
    BY <1>8, <2>1
  <2>3. users'[Seeded].role = "admin" /\ users'[Seeded].pass = 0
    BY <2>1
  <2> QED
    BY <2>2, <2>3
<1>9. ASSUME NEW q \in Request, PasswordWritten(q), users'[u] # users[u]
      PROVE  \E v \in User : IsUser(v) /\ users' = SetPassword(v)
  BY <1>9 DEF PasswordWritten
<1>10. \A q \in Request : SessionOpened(q) \/ SessionsRevoked(q) \/ LoggedOut(q) => users' = users
  BY DEF SessionOpened, SessionsRevoked, LoggedOut
<1> QED
  BY <1>2, <1>3, <1>4, <1>5, <1>6, <1>7, <1>8, <1>9, <1>10, UsersChange

(* An administrator goes by a deletion or a restore. *)
LEMMA AdminGone ==
  ASSUME Types, Next, RowsMade(users),
         NEW u \in User, users[u].role = "admin", users'[u].role # "admin"
  PROVE  \E q \in InService :
           /\ q \in Request /\ Serves(q) /\ req'[q].pc = "end"
           /\ \/ UserDeleted(q) /\ req[q].on = u
              \/ req[q].op = "restore" /\ \E d \in Request : PutBack(d)
<1>1. RowsOK /\ FilesOK /\ HandlersOK /\ \A q \in Request : ArgsOK(q)
  BY TypesParts
<1>2. users'[u] # users[u]
  OBVIOUS
<1>3. ASSUME NEW v \in User, IsUser(v), users' = SetPassword(v) PROVE FALSE
  <2>1. users'[v] = [name |-> users[v].name, role |-> users[v].role,
                     pass |-> users[v].pass + 1]
        /\ \A w \in User \ {v} : users'[w] = users[w]
    BY <1>1, <1>3, PasswordSet
  <2>2. u = v
    BY <1>2, <2>1
  <2>3. users'[u].role = users[u].role
    BY <2>1, <2>2
  <2> QED
    BY <2>3
<1>4. ASSUME NEW q \in Request, UserMade(q) PROVE FALSE
  <2>1. q = u
    BY <1>2, <1>4 DEF UserMade
  <2>2. users[u] = NoUser
    BY <1>4, <2>1 DEF UserMade, At, RowsMade
  <2> QED
    BY <2>2 DEF NoUser
<1>5. ASSUME AccountsBoot PROVE FALSE
  <2>1. CASE /\ users'[Seeded] = [name |-> Configured, role |-> "admin", pass |-> 0]
             /\ \A v \in User \ {Seeded} : users'[v] = users[v]
    <3>1. users'[Seeded].role = "admin"
      BY <2>1
    <3>2. u = Seeded
      BY <1>2, <2>1
    <3> QED
      BY <3>1, <3>2
  <2> QED
    BY <1>1, <1>2, <1>3, <1>5, <2>1, AccountsBooted
<1>6. ASSUME NEW q \in InService, UserDeleted(q)
      PROVE  Serves(q) /\ req'[q].pc = "end" /\ req[q].on = u
  BY <1>2, <1>6 DEF UserDeleted, GoesOn
<1>7. ASSUME NEW q \in InService, Replay(q)
      PROVE  q \in Request /\ Serves(q) /\ req'[q].pc = "end" /\ req[q].op = "restore"
  <2>1. q \in Request /\ req[q].op = "restore" /\ GoesOn(q, "end")
    BY <1>1, <1>7, ReplayIs DEF InService
  <2> QED
    BY <2>1 DEF GoesOn
<1>8. \A q \in Request : PasswordWritten(q) =>
        users' = users \/ \E v \in User : IsUser(v) /\ users' = SetPassword(v)
  BY DEF PasswordWritten
<1>9. \A q \in Request : SessionOpened(q) \/ SessionsRevoked(q) \/ LoggedOut(q) => users' = users
  BY DEF SessionOpened, SessionsRevoked, LoggedOut
<1> QED
  BY <1>2, <1>3, <1>4, <1>5, <1>6, <1>7, <1>8, <1>9, UsersChange

(* A table whose rows were made by requests stays one: what a request was  *)
(* asked it is on record for.                                              *)
LEMMA MadeStays ==
  ASSUME Types, Next, NEW T, RowsMade(T), NEW u \in Request, T[u] # NoUser
  PROVE  /\ Ops(u, {"createUser"})' /\ req'[u].pc # "insert"
         /\ req'[u].op = req[u].op /\ req'[u].with = req[u].with
<1>1. Ops(u, {"createUser"}) /\ req[u].pc # "insert"
  BY DEF RowsMade
<1>2. req[u].op = "createUser" /\ HandlersOK
  BY <1>1, TypesParts DEF Ops
<1>3. req'[u].op = req[u].op /\ req'[u].with = req[u].with
  BY <1>2, HandlersGo, OnRecord
<1>4. ASSUME req'[u].pc = "insert" PROVE FALSE
  <2>1. u \in InService /\ Step(u)
    BY <1>1, <1>2, <1>3, <1>4, Stands
  <2>2. ResolveSteps(u)
    BY <1>4, <2>1, OwnStep
  <2> QED
    BY <1>2, <2>2 DEF ResolveSteps, At
<1> QED
  BY <1>2, <1>3, <1>4 DEF Ops

(* No request has made a row at first. *)
LEMMA MadeInit == Init => MadeInv
<1> SUFFICES ASSUME Init PROVE MadeInv
  OBVIOUS
<1>1. \A d \in Request : ~IsFile(d)
  BY DEF Init, IsFile
<1>2. \A u \in Request : users[u] = NoUser
  BY AccountsAssumption DEF Init, AccountsInit, User
<1> QED
  BY <1>1, <1>2 DEF MadeInv, RowsMade

(* The rows a request made, here and in the dumps, are those it has       *)
(* inserted.                                                              *)
LEMMA MadeStep ==
  ASSUME Types, Next, MadeInv
  PROVE  MadeInv'
<1>1. ASSUME NEW T, RowsMade(T), NEW u \in Request, T[u] # NoUser
      PROVE  Ops(u, {"createUser"})' /\ req'[u].pc # "insert"
  BY <1>1, MadeStays
<1>2. ASSUME NEW u \in Request, users'[u] # NoUser
      PROVE  Ops(u, {"createUser"})' /\ req'[u].pc # "insert"
  <2>1. u \in User /\ u # Seeded
    BY AccountsAssumption DEF User
  <2>2. CASE users[u] # NoUser
    BY <1>1, <2>2 DEF MadeInv
  <2>3. CASE UserMade(u)
    BY <2>3 DEF UserMade, At, GoesOn, Ops
  <2>4. ASSUME NEW d \in Request, PutBack(d), Reached(file[d], "users"),
               users' = file[d]["users"].users
        PROVE  Ops(u, {"createUser"})' /\ req'[u].pc # "insert"
    <3>1. RowsMade(file[d]["users"].users)
      BY <2>4 DEF MadeInv, PutBack
    <3> QED
      BY <1>1, <1>2, <2>4, <3>1
  <2> QED
    BY <1>2, <2>1, <2>2, <2>3, <2>4, UserFrom
<1>3. ASSUME NEW d \in Request, IsFile(d)', Reached(file'[d], "users"),
             NEW u \in Request, file'[d]["users"].users[u] # NoUser
      PROVE  Ops(u, {"createUser"})' /\ req'[u].pc # "insert"
  <2>1. CASE IsFile(d) /\ Reached(file[d], "users") /\ file'[d]["users"] = file[d]["users"]
    BY <1>1, <1>3, <2>1 DEF MadeInv
  <2>2. CASE Reads(d, "users") /\ file'[d]["users"] = Rows("users")
    <3>1. file'[d]["users"].users = users
      BY <2>2, TypesParts, RowsOfTable
    <3> QED
      BY <1>1, <1>3, <3>1 DEF MadeInv
  <2> QED
    BY <1>3, <2>1, <2>2, Dumped DEF TableName
<1>4. RowsMade(users)'
  BY <1>2 DEF RowsMade
<1>5. ASSUME NEW d \in Request, IsFile(d)', Reached(file[d], "users")'
      PROVE  RowsMade(file[d]["users"].users)'
  BY <1>3, <1>5 DEF RowsMade, Reached
<1> QED
  BY <1>4, <1>5 DEF MadeInv

(* Every row has its role at first. *)
LEMMA RolesInit == Init => RoleInv
<1> SUFFICES ASSUME Init PROVE RoleInv
  OBVIOUS
<1>1. \A d \in Request : ~IsFile(d)
  BY DEF Init, IsFile
<1>2. \A u \in User : ~MadeViewer(u) /\ users[u].role # "viewer"
  BY DEF Init, AccountsInit, RequestsInit, Unserved, MadeViewer, Ops, NoUser
<1> QED
  BY <1>1, <1>2 DEF RoleInv, RolesKept

(* An account that a request made has the role the request asked for.      *)
LEMMA RolesStep ==
  ASSUME Types, Next, MadeInv, RoleInv
  PROVE  RoleInv'
<1>1. RowsOK /\ FilesOK /\ HandlersOK
  BY TypesParts
<1> DEFINE Kept(row, u) == /\ row.role = "admin" => ~MadeViewer(u)'
                           /\ row.role = "viewer" => MadeViewer(u)'
<1>2. ASSUME NEW T, RowsMade(T), RolesKept(T), NEW u \in User, T[u] # NoUser
      PROVE  Kept(T[u], u)
  <2>1. CASE u \in Request
    <3>1. req'[u].op = req[u].op /\ req'[u].with = req[u].with
      BY <1>2, <2>1, MadeStays
    <3> QED
      BY <1>2, <3>1 DEF RolesKept, MadeViewer, Ops
  <2>2. CASE u \notin Request
    BY <1>2, <2>2 DEF RolesKept, MadeViewer
  <2> QED
    BY <2>1, <2>2
<1>3. NoUser.role = "none"
  BY DEF NoUser
<1>4. ASSUME NEW u \in User, users'[u] # NoUser PROVE Kept(users'[u], u)
  <2>1. CASE users[u] # NoUser /\ users'[u].role = users[u].role
    BY <1>2, <2>1 DEF MadeInv, RoleInv
  <2>2. CASE u \in Request /\ UserMade(u)
    <3>1. users'[u].role = req[u].with /\ Ops(u, {"createUser"}) /\ GoesOn(u, "end")
      BY <2>2 DEF UserMade, At, Ops
    <3>2. Ops(u, {"createUser"})' /\ req'[u].with = req[u].with
      BY <3>1 DEF GoesOn, Ops
    <3> QED
      BY <2>2, <3>1, <3>2 DEF MadeViewer
  <2>3. ASSUME NEW d \in Request, PutBack(d), Reached(file[d], "users"),
               users' = file[d]["users"].users
        PROVE  Kept(users'[u], u)
    <3>1. RowsMade(file[d]["users"].users) /\ RolesKept(file[d]["users"].users)
      BY <2>3 DEF MadeInv, RoleInv, PutBack
    <3> QED
      BY <1>2, <1>4, <2>3, <3>1
  <2>4. CASE u = Seeded /\ users'[u].role = "admin"
    BY <2>4, AccountsAssumption DEF MadeViewer
  <2> QED
    BY <1>4, <2>1, <2>2, <2>3, <2>4, UserFrom
<1>5. ASSUME NEW d \in Request, IsFile(d)', Reached(file'[d], "users"),
             NEW u \in User, file'[d]["users"].users[u] # NoUser
      PROVE  Kept(file'[d]["users"].users[u], u)
  <2>1. CASE IsFile(d) /\ Reached(file[d], "users") /\ file'[d]["users"] = file[d]["users"]
    <3>1. RowsMade(file[d]["users"].users) /\ RolesKept(file[d]["users"].users)
      BY <2>1 DEF MadeInv, RoleInv
    <3> QED
      BY <1>2, <1>5, <2>1, <3>1
  <2>2. CASE Reads(d, "users") /\ file'[d]["users"] = Rows("users")
    <3>1. file'[d]["users"].users = users
      BY <1>1, <2>2, RowsOfTable
    <3> QED
      BY <1>2, <1>5, <3>1 DEF MadeInv, RoleInv
  <2> QED
    BY <1>5, <2>1, <2>2, Dumped DEF TableName
<1>6. RolesKept(users)'
  BY <1>3, <1>4 DEF RolesKept
<1>7. ASSUME NEW d \in Request, IsFile(d)', Reached(file[d], "users")'
      PROVE  RolesKept(file[d]["users"].users)'
  BY <1>3, <1>5, <1>7 DEF RolesKept, Reached
<1> QED
  BY <1>6, <1>7 DEF RoleInv

----------------------------------------------------------------------------
(* The last administrator.                                                 *)

(* There is an administrator at first. *)
LEMMA AdminInit == Init => AdminInv
<1> SUFFICES ASSUME Init PROVE AdminInv
  OBVIOUS
<1>1. \A d \in Request : ~IsFile(d)
  BY DEF Init, IsFile
<1>2. \A q \in Request : ~At(q, "deleteUser", "delete")
  BY DEF Init, RequestsInit, Unserved, At
<1>3. PICK u \in Admins : TRUE
  BY AccountsAssumption
<1>4. u \in User /\ users[u].role = "admin"
  BY <1>3 DEF Init, AccountsInit, User
<1> QED
  BY <1>1, <1>2, <1>4 DEF AdminInv, HasAdmin

(* Who passes the count leaves another administrator.                      *)
LEMMA Counted ==
  ASSUME ~(Cardinality(Administrators) <= 1), NEW u
  PROVE  \E v \in Administrators : v # u
<1> SUFFICES ASSUME Administrators \subseteq {u} PROVE FALSE
  OBVIOUS
<1>1. Cardinality({}) = 0 /\ Cardinality({u}) = 1
  BY FS_EmptySet, FS_Singleton
<1>2. Administrators = {} \/ Administrators = {u}
  OBVIOUS
<1> QED
  BY <1>1, <1>2

(* If the row is a viewer's, the administrator there is somebody else. *)
LEMMA AdminHeir ==
  ASSUME Types, MadeInv, RoleInv, HasAdmin(users), NEW u,
         \/ MadeViewer(u)
         \/ \E v \in User : v # u /\ users[v].role = "admin"
  PROVE  \E v \in User : v # u /\ users[v].role = "admin"
BY DEF HasAdmin, RoleInv, RolesKept

(* An administrator is left after a step, or the race is on record. *)
LEMMA AdminRowsStep ==
  ASSUME Types, Next, MadeInv, RoleInv, HasAdmin(users), ~RestoredInPart',
         \A d \in Request :
           IsFile(d) /\ Reached(file[d], "users") => HasAdmin(file[d]["users"].users),
         \A q \in Request :
           At(q, "deleteUser", "delete") =>
             \/ MadeViewer(req[q].on)
             \/ \E u \in User : u # req[q].on /\ users[u].role = "admin"
  PROVE  HasAdmin(users)'
<1>1. FilesOK
  BY TypesParts
<1>2. ASSUME NEW d \in Request, PutBack(d) PROVE HasAdmin(users)'
  <2>1. IsFile(d) /\ Reached(file[d], "users") /\ users' = file[d]["users"].users
    BY <1>1, <1>2, PutBackIs DEF TableName
  <2> QED
    BY <2>1 DEF HasAdmin
<1>3. ASSUME NEW q \in Request, UserDeleted(q) PROVE HasAdmin(users)'
  <2>1. PICK v \in User : v # req[q].on /\ users[v].role = "admin"
    BY <1>3, AdminHeir DEF UserDeleted
  <2>2. users'[v] = users[v]
    BY <1>3, <2>1 DEF UserDeleted
  <2> QED
    BY <2>1, <2>2 DEF HasAdmin
<1>4. PICK u \in User : users[u].role = "admin"
  BY DEF HasAdmin
<1>5. CASE users'[u].role = "admin"
  BY <1>5 DEF HasAdmin
<1>6. CASE users'[u].role # "admin"
  BY <1>2, <1>3, <1>4, <1>6, AdminGone DEF MadeInv
<1> QED
  BY <1>5, <1>6

(* A deletion that counted another administrator leaves one, or has       *)
(* raced.                                                                 *)
LEMMA AdminHandlerStep ==
  ASSUME Types, Next, MadeInv, RoleInv, ~AdminExcused', NEW q \in Request,
         At(q, "deleteUser", "delete")',
         At(q, "deleteUser", "delete") =>
           \/ MadeViewer(req[q].on)
           \/ \E u \in User : u # req[q].on /\ users[u].role = "admin"
  PROVE  \/ MadeViewer(req[q].on)'
         \/ \E u \in User : u # req'[q].on /\ users'[u].role = "admin"
<1>1. RowsOK /\ FilesOK /\ HandlersOK /\ \A p \in Request : ArgsOK(p)
  BY TypesParts
<1>2. ASSUME NEW u, MadeViewer(u) PROVE MadeViewer(u)'
  <2>1. u \in Request /\ req[u].op = "createUser"
    BY <1>2 DEF MadeViewer, Ops
  <2>2. req'[u].op = req[u].op /\ req'[u].with = req[u].with
    BY <1>1, <2>1, HandlersGo, OnRecord
  <2> QED
    BY <1>2, <2>2 DEF MadeViewer, Ops
<1>3. CASE req'[q] = req[q]
  <2>1. q \in InService /\ At(q, "deleteUser", "delete")
    BY <1>3 DEF At, InService
  <2>2. CASE MadeViewer(req[q].on)
    BY <1>2, <1>3, <2>2
  <2>3. ASSUME NEW u \in User, u # req[q].on, users[u].role = "admin"
        PROVE  users'[u].role = "admin"
    <3> SUFFICES ASSUME users'[u].role # "admin" PROVE FALSE
      OBVIOUS
    <3>1. PICK p \in InService :
            /\ p \in Request /\ Serves(p) /\ req'[p].pc = "end"
            /\ UserDeleted(p) \/ req[p].op = "restore"
      BY <2>3, AdminGone DEF MadeInv
    <3>2. p # q
      BY <2>1, <3>1, <1>3 DEF At
    <3>3. Ops(p, {"deleteUser", "restore"})
      BY <3>1 DEF UserDeleted, At, Ops
    <3>4. Ops(p, {"deleteUser", "restore"})'
      BY <3>1, <3>3, OpsStay
    <3>5. Ops(q, {"deleteUser"})'
      BY <1>3, <2>1 DEF At, Ops
    <3>6. Overlap(q, p)'
      BY <1>1, <2>1, <3>1, <3>2, ServesOverlaps
    <3> QED
      BY <3>1, <3>4, <3>5, <3>6 DEF AdminExcused, Race
  <2> QED
    BY <1>3, <2>1, <2>2, <2>3
<1>4. CASE req[q].op = "none" /\ Arrive(q) /\ Arriving(q)
  <2>1. AccountsArrive(q) /\ UNCHANGED backupVars
    <3>1. req'[q].op = "deleteUser"
      BY DEF At
    <3>2. ~CatalogArrive(q) /\ ~CreateJobArrives(q)
      BY <1>1, <1>4, <3>1, CatalogComes, JobComes DEF CatalogOps
    <3>3. ~EnrolArrive(q) /\ ~PairArrives(q)
      BY <1>1, <1>4, <3>1, EnrolComes, PairComes DEF EnrolOps
    <3>4. ~BackupArrive(q) /\ ~RestoreArrives(q)
      BY <1>1, <1>4, <3>1, BackupComes, RestoreComes DEF BackupOps
    <3> QED
      BY <1>4, <3>2, <3>3, <3>4 DEF Arrive
  <2>2. DeleteUserArrives(q)
    BY <1>1, <1>4, <2>1, CameFor DEF AccountsArrive, At
  <2>3. PICK u \in User :
          /\ IsUser(u)
          /\ Begin(q, "deleteUser",
                   IF u \in Administrators THEN "count" ELSE "delete", u, users[u].role, Nil)
    BY <2>2 DEF DeleteUserArrives
  <2>4. CASE u \in Administrators
    <3>1. Begin(q, "deleteUser", "count", u, users[u].role, Nil)
      BY <2>3, <2>4
    <3>2. Comes(q, "deleteUser", "count", u, users[u].role, Nil)
      BY <1>1, <1>4, <3>1, BeginServes
    <3>3. req'[q].pc = "count"
      BY <3>2 DEF Comes
    <3> QED
      BY <3>3 DEF At
  <2>5. CASE u \notin Administrators
    <3>1. Begin(q, "deleteUser", "delete", u, users[u].role, Nil)
      BY <2>3, <2>5
    <3>2. Comes(q, "deleteUser", "delete", u, users[u].role, Nil)
      BY <1>1, <1>4, <3>1, BeginServes
    <3>3. req'[q].on = u
      BY <3>2 DEF Comes
    <3>4. users[u].role = "viewer"
      BY <1>1, <2>3, <2>5, UserRows DEF Administrators, IsUser
    <3>5. MadeViewer(u)
      BY <3>4 DEF RoleInv, RolesKept
    <3> QED
      BY <1>2, <3>3, <3>5
  <2> QED
    BY <2>4, <2>5
<1>5. CASE q \in InService /\ req[q].op # "none" /\ Step(q) /\ Serves(q)
  <2>1. req[q].op = "deleteUser"
    BY <1>5 DEF Serves, At
  <2>2. AccountsStep(q)
    BY <1>5, <2>1, OwnStep DEF AccountOps
  <2>3. CASE CountAdmins(q)
    <3>1. ~(Cardinality(Administrators) <= 1) /\ users' = users
      <4>1. Goto(q, IF Cardinality(Administrators) <= 1 THEN "end" ELSE "delete")
            /\ users' = users
        BY <2>3 DEF CountAdmins, accountVars
      <4>2. ASSUME Goto(q, "end") PROVE FALSE
        <5>1. GoesOn(q, "end")
          BY <1>1, <1>5, <4>2, GotoServes
        <5>2. req'[q].pc = "end"
          BY <5>1 DEF GoesOn
        <5> QED
          BY <5>2 DEF At
      <4> QED
        BY <4>1, <4>2
    <3>2. Administrators \subseteq User /\ \A v \in Administrators : users[v].role = "admin"
      BY DEF Administrators
    <3>3. PICK v \in Administrators : v # req'[q].on
      BY <3>1, Counted
    <3> QED
      BY <3>1, <3>2, <3>3
  <2>4. CASE DeleteUser(q)
    <3>1. Goto(q, "end")
      BY <2>4 DEF DeleteUser, End
    <3>2. GoesOn(q, "end")
      BY <1>1, <1>5, <3>1, GotoServes
    <3>3. req'[q].pc = "end"
      BY <3>2 DEF GoesOn
    <3> QED
      BY <3>3 DEF At
  <2> QED
    BY <2>1, <2>2, <2>3, <2>4 DEF AccountsStep, InsertSession, WritePassword, RevokeSessions,
       InsertUser, At
<1>6. CASE req'[q].pc = "cut"
  BY <1>6 DEF At
<1> QED
  BY <1>3, <1>4, <1>5, <1>6, Stands DEF At

(* Put together: the invariant of the administrators is inductive. *)
LEMMA AdminStep ==
  ASSUME Types, Next, MadeInv, RoleInv, AdminInv
  PROVE  AdminInv'
<1>1. RowsOK /\ FilesOK /\ HandlersOK
  BY TypesParts
<1>2. CASE AdminExcused
  <2>1. Race({"deleteUser"}, {"deleteUser", "restore"}) =>
          Race({"deleteUser"}, {"deleteUser", "restore"})'
    BY RaceStays
  <2> QED
    BY <1>2, <2>1, RestoresStay DEF AdminInv, AdminExcused
<1>3. CASE ~AdminExcused /\ ~AdminExcused'
  <2>1. ~RestoredInPart'
    BY <1>3 DEF AdminExcused
  <2>2. HasAdmin(users)'
    BY <1>3, <2>1, AdminRowsStep DEF AdminInv
  <2>3. ASSUME NEW d \in Request, IsFile(d)', Reached(file'[d], "users")
        PROVE  HasAdmin(file'[d]["users"].users)
    <3>1. CASE IsFile(d) /\ Reached(file[d], "users") /\ file'[d]["users"] = file[d]["users"]
      BY <1>3, <3>1 DEF AdminInv
    <3>2. CASE Reads(d, "users") /\ file'[d]["users"] = Rows("users")
      <4>1. file'[d]["users"].users = users
        BY <1>1, <3>2, RowsOfTable
      <4> QED
        BY <1>3, <4>1 DEF AdminInv
    <3> QED
      BY <2>3, <3>1, <3>2, Dumped DEF TableName
  <2>4. ASSUME NEW q \in Request, At(q, "deleteUser", "delete")'
        PROVE  \/ MadeViewer(req[q].on)'
               \/ \E u \in User : u # req'[q].on /\ users'[u].role = "admin"
    BY <1>3, <2>4, AdminHandlerStep DEF AdminInv
  <2> QED
    BY <2>2, <2>3, <2>4 DEF AdminInv, HasAdmin, Reached
<1> QED
  BY <1>2, <1>3 DEF AdminInv

(* "cannot delete the last admin account" (handleDeleteUser): it takes two *)
(* deletions in service together, or one that counted what a restore then  *)
(* put away, or a restore of a dump that was cut off.                      *)
THEOREM LastAdminIsKept == Spec => []LastAdminStays
<1> DEFINE Inv == Types /\ MadeInv /\ RoleInv /\ AdminInv
<1>1. Init => Inv
  BY InitTypes, MadeInit, RolesInit, AdminInit
<1>2. Inv /\ [Next]_vars => Inv'
  <2> SUFFICES ASSUME Inv, [Next]_vars PROVE Inv'
    OBVIOUS
  <2>1. CASE Next
    BY <2>1, TypesStep, MadeStep, RolesStep, AdminStep
  <2>2. CASE UNCHANGED vars
    <3>1. UNCHANGED <<req, users, file, restored>>
      BY <2>2 DEF vars, accountVars, backupVars
    <3>2. MadeInv' /\ RoleInv'
      BY <3>1 DEF MadeInv, RowsMade, RoleInv, RolesKept, MadeViewer, Ops, IsFile, Reached
    <3>3. AdminExcused => AdminExcused'
      BY <3>1 DEF AdminExcused, Race, RestoredInPart, Overlap, Ops
    <3>4. AdminInv'
      BY <3>1, <3>3 DEF AdminInv, HasAdmin, MadeViewer, At, Ops, IsFile, Reached
    <3> QED
      BY <3>2, <3>4, TypesStep
  <2> QED
    BY <2>1, <2>2
<1>3. Inv => LastAdminStays
  <2> SUFFICES ASSUME AdminInv, Administrators = {} PROVE AdminExcused
    BY DEF LastAdminStays, AdminExcused
  <2>1. ~HasAdmin(users)
    BY DEF HasAdmin, Administrators
  <2> QED
    BY <2>1 DEF AdminInv
<1> HIDE DEF Inv
<1> QED
  BY <1>1, <1>2, <1>3, PTL DEF Spec

----------------------------------------------------------------------------
(* Pairing and provisioning.                                               *)

(* Who changes the tables of enrolment.                                    *)
LEMMA EnrolChange ==
  ASSUME Types, Next, restored' = {}
  PROVE  \/ UNCHANGED enrolVars
         \/ \E q \in Request : Arriving(q) /\ req[q].op = "none" /\ Serves(q) /\ EnrolArrive(q)
         \/ \E q \in InService : q \in Request /\ Serves(q) /\ EnrolStep(q)
         \/ \E q \in Request : Provision(q) /\ req' = req
         \/ Restart /\ EnrolBoot
<1>1. RowsOK /\ FilesOK /\ HandlersOK /\ \A q \in Request : ArgsOK(q)
  BY TypesParts
<1>2. ASSUME NEW q \in InService, Replay(q) PROVE UNCHANGED enrolVars
  <2>1. \/ UNCHANGED <<accountVars, catalogVars, enrolVars, backupVars>>
        \/ PutBack(req[q].on) /\ req[q].on \in Request
    BY <1>1, <1>2, ReplayIs DEF InService
  <2> QED
    BY <1>1, <2>1, PutBackIs
<1>3. ASSUME NEW q \in Request, Arriving(q), EnrolArrive(q)
      PROVE  req[q].op = "none" /\ Serves(q)
  BY <1>1, <1>3, EnrolComes
<1>4. ASSUME NEW q \in InService, EnrolStep(q) PROVE q \in Request /\ Serves(q)
  BY <1>1, <1>4, EnrolGoesOn DEF InService
<1>5. ASSUME NEW q \in Request, Provision(q) PROVE req' = req
  BY <1>5 DEF Provision, Expire, LockEngine, LoadContext, StagePayloads, IssuePairing, Launch,
     Play
<1>6. \A q \in Request : Arrive(q) =>
        UNCHANGED enrolVars \/ (Arriving(q) /\ EnrolArrive(q))
  BY DEF Arrive, BackupArrive, RestoreArrives, PairArrives
<1>7. \A q \in Request : Step(q) =>
        q \in InService /\ (UNCHANGED enrolVars \/ EnrolStep(q) \/ Replay(q))
  BY DEF Step, BackupStep
<1>8. \A q \in Request : ClientLeaves(q) => UNCHANGED enrolVars
  BY DEF ClientLeaves
<1>9. \A q \in Request : Background(q) => Provision(q)
  BY DEF Background
<1>10. Farm => UNCHANGED enrolVars
  BY DEF Farm
<1>11. Restart => EnrolBoot
  BY DEF Restart
<1> QED
  BY <1>2, <1>3, <1>4, <1>5, <1>6, <1>7, <1>8, <1>9, <1>10, <1>11 DEF Next

(* A request of the enrolment has come by that arrival.                    *)
LEMMA CameToEnrol ==
  ASSUME Types, NEW q \in Request, Arriving(q), Arrive(q), req'[q].op \in EnrolOps
  PROVE  /\ req'[q].op = "pair" => PairArrives(q) /\ req'[q].seen = Nil
                                   /\ codes[req'[q].on] = "open"
         /\ req'[q].op # "pair" => EnrolArrive(q)
<1>1. RowsOK /\ HandlersOK
  BY TypesParts
<1>2. EnrolArrive(q) \/ PairArrives(q)
  <2>1. ~AccountsArrive(q)
    BY <1>1, AccountsComes DEF AccountOps, EnrolOps
  <2>2. ~CatalogArrive(q) /\ ~CreateJobArrives(q)
    BY <1>1, CatalogComes, JobComes DEF CatalogOps, EnrolOps
  <2>3. ~BackupArrive(q) /\ ~RestoreArrives(q)
    BY <1>1, BackupComes, RestoreComes DEF BackupOps, EnrolOps
  <2> QED
    BY <2>1, <2>2, <2>3 DEF Arrive
<1>3. ASSUME PairArrives(q)
      PROVE  req'[q].op = "pair" /\ req'[q].seen = Nil /\ codes[req'[q].on] = "open"
  <2>1. PICK c \in Request, name \in NodeName :
          codes[c] = "open" /\ Begin(q, "pair", "create", c, name, Nil)
    BY <1>3 DEF PairArrives
  <2>2. Comes(q, "pair", "create", c, name, Nil)
    BY <1>1, <2>1, BeginServes
  <2>3. req'[q].op = "pair" /\ req'[q].seen = Nil /\ req'[q].on = c
    BY <2>2 DEF Comes
  <2> QED
    BY <2>1, <2>3
<1>4. \A op, pc, on, with, seen : Begin(q, op, pc, on, with, seen) => req'[q].op = op
  BY <1>1 DEF Begin, HandlersOK
<1>5. EnrolArrive(q) => req'[q].op # "pair"
  BY <1>4 DEF EnrolArrive, CreatePairingCode, AddNode, DeleteNode, StartRun
<1> QED
  BY <1>2, <1>3, <1>5

(* The step of a pairing: the node, the code, and whether it was answered. *)
LEMMA PairGoesOn ==
  ASSUME Types, NEW q \in InService, Step(q), Ops(q, {"pair"})
  PROVE  \/ CreateNode(q) /\ ((GoesOn(q, "end") /\ nodes' = nodes) \/ GoesOn(q, "consume"))
         \/ CheckCode(q) /\ (GoesOn(q, "mark") \/ GoesOn(q, "rollBack"))
         \/ RollBackNode(q) /\ GoesOn(q, "end")
         \/ MarkCode(q) /\ req'[q].seen = 1 /\ req'[q].pc = "end" /\ req'[q].op = "pair"
            /\ req'[q].on = req[q].on
<1>1. HandlersOK /\ (\A p \in Request : ArgsOK(p)) /\ q \in Request
  BY TypesParts DEF InService
<1>2. EnrolStep(q)
  BY <1>1, OwnStep DEF EnrolOps, Ops
<1>3. CASE CreateNode(q)
  <2>1. ASSUME Goto(q, "end") PROVE GoesOn(q, "end")
    BY <1>1, <2>1, GotoServes
  <2>2. ASSUME Goto(q, "consume") PROVE GoesOn(q, "consume")
    BY <1>1, <2>2, GotoServes
  <2> QED
    BY <1>3, <2>1, <2>2 DEF CreateNode, End
<1>4. CASE CheckCode(q)
  <2>1. ASSUME Goto(q, "mark") PROVE GoesOn(q, "mark")
    BY <1>1, <2>1, GotoServes
  <2>2. ASSUME Goto(q, "rollBack") PROVE GoesOn(q, "rollBack")
    BY <1>1, <2>2, GotoServes
  <2>3. Goto(q, "mark") \/ Goto(q, "rollBack")
    BY <1>4 DEF CheckCode
  <2> QED
    BY <1>4, <2>1, <2>2, <2>3
<1>5. CASE RollBackNode(q)
  <2>1. Goto(q, "end")
    BY <1>5 DEF RollBackNode, End
  <2> QED
    BY <1>1, <1>5, <2>1, GotoServes
<1>6. CASE MarkCode(q)
  <2>1. req' = [req EXCEPT ![q].pc = "end", ![q].seen = 1]
    BY <1>6 DEF MarkCode
  <2>2. req'[q] = [op |-> req[q].op, pc |-> "end", on |-> req[q].on,
                   with |-> req[q].with, seen |-> 1, after |-> req[q].after]
    BY <1>1, <2>1, MarkServes
  <2>3. req'[q].seen = 1 /\ req'[q].pc = "end" /\ req'[q].op = req[q].op
        /\ req'[q].on = req[q].on
    BY <2>2
  <2> QED
    BY <1>6, <2>3 DEF Ops
<1> QED
  BY <1>2, <1>3, <1>4, <1>5, <1>6 DEF EnrolStep

Unpaired == {"waiting", "loading", "staging", "pairing"}

(* The codes and the stages, row by row.                                   *)
LEMMA CodesChange ==
  ASSUME Types, Next, restored' = {}, CodeInv, NEW c \in Request
  PROVE  /\ codes[c] # "none" => codes'[c] # "none"
         /\ codes[c] = "used" => codes'[c] = "used"
         /\ codes'[c] # codes[c] /\ codes[c] = "none" =>
              req'[c].op # "none" /\ stage'[c] \notin Unpaired
         /\ stage'[c] # "none" => stage[c] # "none" \/ req'[c].op # "none"
         /\ stage'[c] \in Unpaired => stage[c] \in Unpaired \/ codes[c] = "none"
<1>1. RowsOK /\ FilesOK /\ HandlersOK /\ codes \in CodeTable /\ stage \in [Request -> Stages]
  BY TypesParts DEF RowsOK
<1>2. restored = {}
  BY RestoresStay
<1>3. /\ codes[c] # "none" => req[c].op # "none"
      /\ stage[c] # "none" => req[c].op # "none"
      /\ stage[c] \in Unpaired => codes[c] = "none"
  BY <1>2 DEF CodeInv, Unpaired
<1> DEFINE Goal == /\ codes[c] # "none" => codes'[c] # "none"
                   /\ codes[c] = "used" => codes'[c] = "used"
                   /\ codes'[c] # codes[c] /\ codes[c] = "none" =>
                        req'[c].op # "none" /\ stage'[c] \notin Unpaired
                   /\ stage'[c] # "none" => stage[c] # "none" \/ req'[c].op # "none"
                   /\ stage'[c] \in Unpaired => stage[c] \in Unpaired \/ codes[c] = "none"
<1>4. ASSUME UNCHANGED <<codes, stage>> PROVE Goal
  BY <1>4
<1>5. ASSUME NEW q \in Request, req[q].op = "none", Serves(q), EnrolArrive(q) PROVE Goal
  <2>1. req'[q].op # "none" /\ codes[q] = "none" /\ stage[q] = "none"
    BY <1>2, <1>5 DEF Serves, CodeInv
  <2>2. CASE CreatePairingCode(q)
    <3>1. codes' = [codes EXCEPT ![q] = "open"] /\ stage' = stage
      BY <2>2 DEF CreatePairingCode
    <3>2. codes'[q] = "open" /\ (c # q => codes'[c] = codes[c]) /\ stage'[c] = stage[c]
      BY <1>1, <3>1 DEF CodeTable
    <3> QED
      BY <2>1, <3>2 DEF Unpaired
  <2>3. CASE StartRun(q)
    <3>1. codes' = codes /\ stage' = [stage EXCEPT ![q] = "waiting"]
      BY <2>3 DEF StartRun
    <3>2. c # q => stage'[c] = stage[c]
      BY <1>1, <3>1
    <3> QED
      BY <2>1, <3>1, <3>2
  <2> QED
    BY <1>4, <1>5, <2>2, <2>3 DEF EnrolArrive, AddNode, DeleteNode
<1>6. ASSUME NEW q \in InService, q \in Request, EnrolStep(q) PROVE Goal
  <2>1. CASE MarkCode(q)
    <3>1. stage' = stage /\ \/ codes' = codes
                            \/ /\ codes[req[q].on] # "none"
                               /\ codes' = [codes EXCEPT ![req[q].on] = "used"]
      BY <2>1 DEF MarkCode
    <3>2. codes'[c] = codes[c] \/ (codes[c] # "none" /\ codes'[c] = "used")
      BY <1>1, <3>1 DEF CodeTable
    <3> QED
      BY <3>1, <3>2
  <2> QED
    BY <1>4, <1>6, <2>1 DEF EnrolStep, CreateNode, CheckCode, RollBackNode, enrolVars
<1>7. ASSUME NEW q \in Request, Provision(q), req' = req PROVE Goal
  <2>1. CASE Expire(q)
    <3>1. stage' = stage /\ codes[q] = "open" /\ codes' = [codes EXCEPT ![q] = "expired"]
      BY <2>1 DEF Expire
    <3>2. codes'[c] = codes[c] \/ (codes[c] = "open" /\ codes'[c] = "expired")
      BY <1>1, <3>1 DEF CodeTable
    <3> QED
      BY <3>1, <3>2
  <2>2. CASE LockEngine(q)
    <3>1. codes' = codes /\ stage[q] = "waiting" /\ stage' = [stage EXCEPT ![q] = "loading"]
      BY <2>2 DEF LockEngine
    <3>2. stage'[c] = stage[c] \/ (stage[c] = "waiting" /\ stage'[c] = "loading")
      BY <1>1, <3>1
    <3> QED
      BY <3>1, <3>2 DEF Unpaired
  <2>3. ASSUME NEW from, NEW to, Pass(q, from, to), codes' = codes, from # "none",
               to \in Unpaired => from \in Unpaired
        PROVE  Goal
    <3>1. stage[q] = from
          /\ \/ stage' = [stage EXCEPT ![q] = to]
             \/ stage' = [stage EXCEPT ![q] = "none"]
      BY <2>3 DEF Pass, EndRun
    <3>2. stage'[c] = stage[c] \/ stage'[c] = "none" \/ (stage[c] = from /\ stage'[c] = to)
      BY <1>1, <3>1
    <3> QED
      BY <2>3, <3>2 DEF Unpaired
  <2>4. CASE LoadContext(q) \/ StagePayloads(q) \/ Launch(q)
    <3>1. CASE LoadContext(q)
      BY <2>3, <3>1 DEF LoadContext, Unpaired
    <3>2. CASE StagePayloads(q)
      BY <2>3, <3>2 DEF StagePayloads, Unpaired
    <3>3. CASE Launch(q)
      BY <2>3, <3>3 DEF Launch, Unpaired
    <3> QED
      BY <2>4, <3>1, <3>2, <3>3
  <2>5. CASE IssuePairing(q)
    <3>1. stage[q] = "pairing"
          /\ \/ /\ stage' = [stage EXCEPT ![q] = "launching"]
                /\ codes' = [codes EXCEPT ![q] = "open"]
             \/ stage' = [stage EXCEPT ![q] = "none"] /\ codes' = codes
      BY <2>5 DEF IssuePairing, EndRun
    <3>2. codes[q] = "none" /\ req[q].op # "none"
      BY <1>2, <3>1 DEF CodeInv
    <3>3. CASE q # c
      <4>1. codes'[c] = codes[c] /\ stage'[c] = stage[c]
        BY <1>1, <3>1, <3>3 DEF CodeTable
      <4> QED
        BY <4>1
    <3>4. CASE q = c
      <4>1. stage'[c] = "launching" \/ (stage'[c] = "none" /\ codes' = codes)
        BY <1>1, <3>1, <3>4
      <4> QED
        BY <1>7, <3>1, <3>2, <3>4, <4>1 DEF Unpaired
    <3> QED
      BY <3>3, <3>4
  <2>6. CASE Play(q)
    <3>1. codes' = codes /\ stage' = [stage EXCEPT ![q] = "none"]
      BY <2>6 DEF Play, EndRun
    <3>2. stage'[c] = stage[c] \/ stage'[c] = "none"
      BY <1>1, <3>1
    <3> QED
      BY <3>1, <3>2 DEF Unpaired
  <2> QED
    BY <1>7, <2>1, <2>2, <2>4, <2>5, <2>6 DEF Provision
<1>8. ASSUME EnrolBoot PROVE Goal
  <2>1. codes' = codes /\ stage'[c] = "none"
    BY <1>8 DEF EnrolBoot, NoRuns
  <2> QED
    BY <2>1 DEF Unpaired
<1>9. UNCHANGED enrolVars => UNCHANGED <<codes, stage>>
  BY DEF enrolVars
<1>10. Goal
  BY <1>4, <1>5, <1>6, <1>7, <1>8, <1>9, EnrolChange
<1> QED
  BY <1>10

(* A code that was answered for stays used, and whoever comes later       *)
(* finds it so.                                                           *)
LEMMA CodeStep ==
  ASSUME Types, Next, CodeInv
  PROVE  CodeInv'
<1> SUFFICES ASSUME restored' = {} PROVE CodeInv'
  BY DEF CodeInv
<1>1. RowsOK /\ HandlersOK
  BY TypesParts
<1>2. restored = {}
  BY RestoresStay
<1>3. \A q \in Request : req[q].op # "none" =>
        /\ req'[q].op = req[q].op /\ req'[q].after = req[q].after
        /\ Ops(q, {"pair"}) => req'[q].on = req[q].on
        /\ req[q].after \subseteq Ended
  BY <1>1, HandlersGo, OnRecord DEF Ops, HandlersOK
<1>4. \A q \in Request : Ops(q, {"pair"}) => req[q].on \in Request
  BY TypesParts DEF ArgsOK
<1>5. ASSUME NEW q \in Request
      PROVE  /\ codes'[q] # "none" => req'[q].op # "none"
             /\ stage'[q] # "none" => req'[q].op # "none"
             /\ stage'[q] \in Unpaired => codes'[q] = "none"
  <2>1. /\ codes[q] # "none" => req[q].op # "none"
        /\ stage[q] # "none" => req[q].op # "none"
        /\ stage[q] \in Unpaired => codes[q] = "none"
    BY <1>2 DEF CodeInv, Unpaired
  <2> QED
    BY <1>3, <2>1, CodesChange
<1>6. ASSUME NEW q \in Request, Ops(q, {"pair"})', req[q].op = "none"
      PROVE  /\ req'[q].seen # 1 /\ codes[req'[q].on] = "open"
             /\ req'[q].on \in Request /\ codes' = codes /\ req'[q].after = Ended
  <2>1. Arrive(q) /\ Arriving(q) /\ Serves(q)
    BY <1>6, Stands DEF Ops
  <2>2. PairArrives(q) /\ req'[q].seen = Nil /\ codes[req'[q].on] = "open"
    BY <1>6, <2>1, CameToEnrol DEF EnrolOps, Ops
  <2>3. Nil # 1 /\ req'[q].after = Ended
    BY <1>6, <2>1, RequestsAssumption DEF Request, Serves
  <2>4. ArgsOK(q)'
    BY <1>1, <2>1, <2>2, PairComes
  <2> QED
    BY <1>6, <2>2, <2>3, <2>4 DEF PairArrives, enrolVars, ArgsOK
<1>7. ASSUME NEW q \in Request, Ops(q, {"pair"})' PROVE codes'[req'[q].on] # "none"
  <2>1. CASE req[q].op = "none"
    BY <1>6, <1>7, <2>1
  <2>2. CASE req[q].op # "none"
    <3>1. Ops(q, {"pair"}) /\ req'[q].on = req[q].on
      BY <1>3, <1>7, <2>2 DEF Ops
    <3>2. codes[req[q].on] # "none"
      BY <1>2, <3>1 DEF CodeInv
    <3> QED
      BY <1>4, <3>1, <3>2, CodesChange
  <2> QED
    BY <2>1, <2>2
<1>8. ASSUME NEW q \in Request, Answered(q)'
      PROVE  codes'[req'[q].on] = "used" /\ req'[q].pc \in {"end", "cut"}
  <2>1. Ops(q, {"pair"})' /\ req'[q].seen = 1
    BY <1>8 DEF Answered
  <2>2. req[q].op # "none"
    BY <1>6, <2>1
  <2>3. Ops(q, {"pair"}) /\ req'[q].on = req[q].on /\ req[q].on \in Request
    BY <1>3, <1>4, <2>1, <2>2 DEF Ops
  <2>4. CASE Answered(q)
    <3>1. codes[req[q].on] = "used" /\ req[q].pc \in {"end", "cut"}
      BY <1>2, <2>4 DEF CodeInv
    <3>2. req'[q] = req[q]
      BY <1>1, <3>1, HandlersGo, OnRecord DEF Ended
    <3> QED
      BY <2>3, <3>1, <3>2, CodesChange
  <2>5. CASE ~Answered(q)
    <3>1. req[q].seen # 1
      BY <2>3, <2>5 DEF Answered
    <3>2. q \in InService /\ Step(q)
      BY <2>1, <2>2, <3>1, Stands DEF Ops
    <3>3. ASSUME NEW pc, GoesOn(q, pc) PROVE FALSE
      <4>1. req'[q].seen = req[q].seen
        BY <3>3 DEF GoesOn
      <4> QED
        BY <2>1, <3>1, <4>1
    <3>4. MarkCode(q) /\ req'[q].pc = "end"
      BY <2>3, <3>2, <3>3, PairGoesOn
    <3>5. codes' = [codes EXCEPT ![req[q].on] = "used"]
      BY <1>2, <2>3, <3>4 DEF MarkCode, CodeInv
    <3>6. codes'[req[q].on] = "used"
      BY <1>1, <2>3, <3>5 DEF RowsOK, CodeTable
    <3> QED
      BY <2>3, <3>4, <3>6
  <2> QED
    BY <2>4, <2>5
<1>9. ASSUME NEW p \in Request, NEW q \in Request, Answered(p)', Ops(q, {"pair"})',
             p \in req'[q].after
      PROVE  req'[p].on # req'[q].on
  <2>1. p \in Ended
    <3>1. CASE req[q].op = "none"
      BY <1>6, <1>9, <3>1
    <3>2. CASE req[q].op # "none"
      BY <1>3, <1>9, <3>2
    <3> QED
      BY <3>1, <3>2
  <2>2. req'[p] = req[p]
    BY <1>1, <2>1, HandlersGo, OnRecord
  <2>3. Answered(p)
    BY <1>9, <2>2 DEF Answered, Ops
  <2>4. CASE req[q].op = "none"
    <3>1. codes[req[p].on] = "used"
      BY <1>2, <2>3 DEF CodeInv
    <3> QED
      BY <1>6, <1>9, <2>2, <2>4, <3>1
  <2>5. CASE req[q].op # "none"
    <3>1. Ops(q, {"pair"}) /\ req'[q].on = req[q].on /\ p \in req[q].after
      BY <1>3, <1>9, <2>5 DEF Ops
    <3> QED
      BY <1>2, <2>2, <2>3, <3>1 DEF CodeInv
  <2> QED
    BY <2>4, <2>5
<1> QED
  BY <1>5, <1>7, <1>8, <1>9 DEF CodeInv, Unpaired

(* "one-shot semantics" (ConsumePairingCode): two nodes come from one code *)
(* only by two pairings in service together, until a restore.              *)
THEOREM CodesAreOneShot == Spec => []CodeIsOneShot
<1> DEFINE Inv == Types /\ CodeInv
<1>1. Init => Inv
  <2>1. Init => CodeInv
    BY DEF Init, RequestsInit, Unserved, EnrolInit, NoCodes, NoRuns, CodeInv, Answered, Ops
  <2> QED
    BY <2>1, InitTypes
<1>2. Inv /\ [Next]_vars => Inv'
  <2> SUFFICES ASSUME Inv, [Next]_vars PROVE Inv'
    OBVIOUS
  <2>1. CASE Next
    BY <2>1, TypesStep, CodeStep
  <2>2. CASE UNCHANGED vars
    <3>1. UNCHANGED <<req, codes, stage, restored>>
      BY <2>2 DEF vars, enrolVars, backupVars
    <3>2. CodeInv'
      BY <3>1 DEF CodeInv, Answered, Ops
    <3> QED
      BY <3>2, TypesStep
  <2> QED
    BY <2>1, <2>2
<1>3. Inv => CodeIsOneShot
  <2> SUFFICES ASSUME CodeInv, NEW p \in Request, NEW q \in Request, p # q,
                      Answered(p), Answered(q), req[p].on = req[q].on, restored = {}
               PROVE  Overlap(p, q)
    BY DEF CodeIsOneShot, Answered
  <2>1. p \notin req[q].after /\ q \notin req[p].after
    BY DEF CodeInv, Answered
  <2>2. req[p].op = "pair" /\ req[q].op = "pair"
    BY DEF Answered, Ops
  <2> QED
    BY <2>1, <2>2 DEF Overlap
<1> HIDE DEF Inv
<1> QED
  BY <1>1, <1>2, <1>3, PTL DEF Spec

----------------------------------------------------------------------------
(* Nodes that a pairing left behind.                                       *)

(* The nodes, row by row.                                                  *)
LEMMA NodesChange ==
  ASSUME Types, Next, restored' = {}, NEW n \in Request, nodes'[n] # Nil
  PROVE  \/ nodes'[n] = nodes[n] /\ ~(n \in InService /\ RollBackNode(n))
         \/ n \in InService /\ CreateNode(n) /\ GoesOn(n, "consume")
         \/ req[n].op = "none" /\ Told(n)'
<1>1. RowsOK /\ HandlersOK /\ nodes \in NodeTable
  BY TypesParts DEF RowsOK
<1>2. CASE nodes' = nodes /\ ~\E q \in InService : RollBackNode(q)
  BY <1>2
<1>3. ASSUME NEW q \in Request, Arriving(q), req[q].op = "none", EnrolArrive(q),
             nodes' # nodes
      PROVE  nodes'[n] = nodes[n] \/ (req[n].op = "none" /\ Told(n)')
  <2>1. CASE AddNode(q)
    <3>1. PICK name \in NodeName :
            /\ Begin(q, "createNode", "end", Nil, name, 1)
            /\ nodes' = [nodes EXCEPT ![q] = name]
      BY <2>1 DEF AddNode
    <3>2. Comes(q, "createNode", "end", Nil, name, 1)
      BY <1>1, <1>3, <3>1, BeginServes
    <3>3. req'[q].op = "createNode" /\ req'[q].seen = 1
      BY <3>2 DEF Comes
    <3>4. n # q => nodes'[n] = nodes[n]
      BY <1>1, <3>1 DEF NodeTable
    <3> QED
      BY <1>3, <3>3, <3>4 DEF Told
  <2>2. CASE DeleteNode(q)
    <3>1. PICK p \in Request : nodes' = [nodes EXCEPT ![p] = Nil]
      BY <2>2 DEF DeleteNode
    <3> QED
      BY <1>1, <3>1 DEF NodeTable
  <2> QED
    BY <1>3, <2>1, <2>2 DEF EnrolArrive, CreatePairingCode, StartRun
<1>4. ASSUME NEW q \in InService, q \in Request, EnrolStep(q)
      PROVE  \/ nodes'[n] = nodes[n] /\ ~(n \in InService /\ RollBackNode(n))
             \/ n \in InService /\ CreateNode(n) /\ GoesOn(n, "consume")
  <2>1. CASE CreateNode(q) /\ nodes' # nodes
    <3>1. Goto(q, "consume") /\ nodes' = [nodes EXCEPT ![q] = req[q].with]
          /\ At(q, "pair", "create")
      BY <2>1 DEF CreateNode
    <3>2. GoesOn(q, "consume")
      BY <1>1, <3>1, GotoServes
    <3>3. n # q => nodes'[n] = nodes[n]
      BY <1>1, <3>1 DEF NodeTable
    <3>4. n # q => ~RollBackNode(n)
      <4>1. ASSUME n # q, n \in InService, RollBackNode(n) PROVE FALSE
        <5>1. Goto(n, "end")
          BY <4>1 DEF RollBackNode, End
        <5>2. GoesOn(n, "end")
          BY <1>1, <4>1, <5>1, GotoServes
        <5>3. req'[n] # req[n]
          <6>1. req'[n].pc = "end"
            BY <5>2 DEF GoesOn
          <6> QED
            BY <4>1, <6>1 DEF InService
        <5> QED
          BY <3>2, <4>1, <5>3 DEF GoesOn, Serves
      <4> QED
        BY <4>1 DEF RollBackNode, At, InService
    <3> QED
      BY <2>1, <3>2, <3>3, <3>4
  <2>2. CASE RollBackNode(q)
    <3>1. nodes' = [nodes EXCEPT ![q] = Nil] /\ Goto(q, "end")
      BY <2>2 DEF RollBackNode, End
    <3>2. n # q
      BY <1>1, <3>1 DEF NodeTable
    <3>3. nodes'[n] = nodes[n]
      BY <1>1, <3>1, <3>2 DEF NodeTable
    <3>4. GoesOn(q, "end")
      BY <1>1, <3>1, GotoServes
    <3>5. req'[n] = req[n]
      BY <3>2, <3>4 DEF GoesOn, Serves
    <3>6. ASSUME n \in InService, RollBackNode(n) PROVE FALSE
      <4>1. GoesOn(n, "end")
        BY <1>1, <3>6, GotoServes DEF RollBackNode, End
      <4>2. req'[n].pc = "end"
        BY <4>1 DEF GoesOn
      <4> QED
        BY <3>5, <3>6, <4>2 DEF InService
    <3> QED
      BY <3>3, <3>6
  <2>3. CASE nodes' = nodes /\ ~RollBackNode(q)
    <3>1. ASSUME n \in InService, RollBackNode(n) PROVE FALSE
      <4>1. nodes'[n] = Nil
        BY <1>1, <3>1 DEF RollBackNode, NodeTable
      <4> QED
        BY <4>1
    <3> QED
      BY <2>3, <3>1
  <2> QED
    BY <1>4, <2>1, <2>2, <2>3 DEF EnrolStep, CheckCode, MarkCode, enrolVars
<1>5. ASSUME RollBackNode(n) PROVE FALSE
  <2>1. nodes'[n] = Nil
    BY <1>1, <1>5 DEF RollBackNode, NodeTable
  <2> QED
    BY <2>1
<1>6. UNCHANGED enrolVars => nodes' = nodes
  BY DEF enrolVars
<1>7. \A q \in Request : Provision(q) => nodes' = nodes
  BY DEF Provision, Expire, LockEngine, LoadContext, StagePayloads, IssuePairing, Launch, Play
<1>8. EnrolBoot => nodes' = nodes
  BY DEF EnrolBoot
<1> QED
  BY <1>3, <1>4, <1>5, <1>6, <1>7, <1>8, EnrolChange

(* A node without an answer has its pairing still at work, or cut off. *)
LEMMA ResidueStep ==
  ASSUME Types, Next, ResidueInv
  PROVE  ResidueInv'
<1> SUFFICES ASSUME restored' = {}, NEW n \in Request, nodes'[n] # Nil
             PROVE  Told(n)' \/ Pairing(n)'
  BY DEF ResidueInv
<1>1. RowsOK /\ HandlersOK
  BY TypesParts
<1>2. restored = {}
  BY RestoresStay
<1>3. ASSUME NEW pc, GoesOn(n, pc)
      PROVE  req'[n].op = req[n].op /\ req'[n].pc = pc /\ req'[n].seen = req[n].seen
  BY <1>3 DEF GoesOn
<1>4. CASE n \in InService /\ CreateNode(n) /\ GoesOn(n, "consume")
  BY <1>3, <1>4 DEF CreateNode, At, Pairing, Ops
<1>5. CASE nodes'[n] = nodes[n] /\ ~(n \in InService /\ RollBackNode(n))
  <2>1. Told(n) \/ Pairing(n)
    BY <1>2, <1>5 DEF ResidueInv
  <2>2. req[n].op # "none" /\ req'[n].op = req[n].op
    <3>1. req[n].op # "none"
      BY <2>1 DEF Told, Pairing, Ops
    <3> QED
      BY <1>1, <3>1, HandlersGo, OnRecord
  <2>3. CASE req'[n] = req[n]
    BY <2>1, <2>3 DEF Told, Pairing, Ops
  <2>4. CASE req'[n].pc = "cut" /\ req'[n].seen = req[n].seen
    BY <2>1, <2>2, <2>4 DEF Told, Pairing, Ops
  <2>5. CASE n \in InService /\ Step(n) /\ ~Ops(n, {"pair"})
    <3>1. req'[n].seen = req[n].seen
      BY <1>1, <2>2, <2>5, HandlersGo, OnRecord
    <3> QED
      BY <2>1, <2>2, <2>5, <3>1 DEF Told, Pairing
  <2>6. CASE n \in InService /\ Step(n) /\ Ops(n, {"pair"})
    <3>1. CASE req'[n].seen = 1
      BY <2>2, <3>1 DEF Told
    <3>2. CASE CreateNode(n)
      <4>1. Told(n)
        BY <2>1, <3>2 DEF CreateNode, At, Pairing
      <4>2. req'[n].seen = req[n].seen
        BY <1>3, <2>6, <3>2, PairGoesOn DEF CreateNode, CheckCode, RollBackNode, MarkCode, At
      <4> QED
        BY <2>2, <4>1, <4>2 DEF Told
    <3>3. CASE CheckCode(n) /\ (GoesOn(n, "mark") \/ GoesOn(n, "rollBack"))
      BY <1>3, <2>2, <2>6, <3>3 DEF Pairing, Ops
    <3> QED
      BY <1>5, <2>6, <3>1, <3>2, <3>3, PairGoesOn
  <2> QED
    BY <2>2, <2>3, <2>4, <2>5, <2>6, Stands
<1> QED
  BY <1>4, <1>5, NodesChange

(* A pairing leaves no "residue" (handleAgentPair): a node whose token     *)
(* nobody was sent is being paired still, or was when it was cut off.      *)
THEOREM NoResidueIsLeft == Spec => []PairingLeavesNoResidue
<1> DEFINE Inv == Types /\ ResidueInv
<1>1. Init => Inv
  <2>1. Init => ResidueInv
    BY DEF Init, EnrolInit, NoNodes, ResidueInv
  <2> QED
    BY <2>1, InitTypes
<1>2. Inv /\ [Next]_vars => Inv'
  <2> SUFFICES ASSUME Inv, [Next]_vars PROVE Inv'
    OBVIOUS
  <2>1. CASE Next
    BY <2>1, TypesStep, ResidueStep
  <2>2. CASE UNCHANGED vars
    <3>1. UNCHANGED <<req, nodes, restored>>
      BY <2>2 DEF vars, enrolVars, backupVars
    <3>2. ResidueInv'
      BY <3>1 DEF ResidueInv, Told, Pairing, Ops
    <3> QED
      BY <3>2, TypesStep
  <2> QED
    BY <2>1, <2>2
<1>3. Inv => PairingLeavesNoResidue
  BY DEF ResidueInv, Told, Pairing, Ops, PairingLeavesNoResidue
<1> HIDE DEF Inv
<1> QED
  BY <1>1, <1>2, <1>3, PTL DEF Spec

----------------------------------------------------------------------------
(* Provisioning runs.                                                      *)

(* Requests are numbers, and finitely many. *)
LEMMA RequestsFinite ==
  /\ MaxRequests \in Nat /\ Request \subseteq Nat /\ IsFiniteSet(Request)
  /\ \A q \in Request : q \in 1..MaxRequests
<1>1. MaxRequests \in Nat
  BY RequestsAssumption
<1>2. IsFiniteSet(1..MaxRequests)
  BY <1>1, FS_Interval
<1> QED
  BY <1>1, <1>2 DEF Request

(* A set of requests has a last one.                                       *)
LEMMA Last ==
  ASSUME NEW T \in SUBSET Request, T # {}
  PROVE  \E x \in T : \A y \in T : y <= x
<1> DEFINE S == {MaxRequests - x : x \in T}
           R == OpToRel(<, Nat)
<1>1. S \subseteq Nat
  BY RequestsFinite
<1>2. S # {}
  OBVIOUS
<1>3. IsWellFoundedOn(R, Nat)
  BY NatLessThanWellFounded
<1>4. \A m, n \in Nat : <<m, n>> \in R <=> m < n
  BY DEF OpToRel
<1> HIDE DEF R
<1>5. PICK m \in S : \A n \in S : ~(<<n, m>> \in R)
  BY <1>1, <1>2, <1>3, WFMin
<1>6. PICK x \in T : m = MaxRequests - x
  BY <1>5
<1>7. ASSUME NEW y \in T PROVE y <= x
  <2>1. MaxRequests - y \in S
    OBVIOUS
  <2>2. ~(MaxRequests - y < m)
    BY <1>1, <1>4, <1>5, <2>1
  <2> QED
    BY <1>6, <2>2, RequestsFinite
<1> QED
  BY <1>7

Later(table, q) == {p \in Request : p > q /\ table[p] # "none"}

(* The rows later than one are finitely many. *)
LEMMA LaterAre ==
  ASSUME NEW table, NEW q
  PROVE  /\ Later(table, q) \subseteq Request /\ IsFiniteSet(Later(table, q))
         /\ Cardinality(Later(table, q)) \in Nat
<1>1. Later(table, q) \subseteq Request
  BY DEF Later
<1> QED
  BY <1>1, RequestsFinite, FS_Subset, FS_CardinalityType

(* Where the later ones are among those of another row, they are no       *)
(* more.                                                                  *)
LEMMA MoreLater ==
  ASSUME NEW table, NEW other, NEW q, NEW r, Later(table, q) \subseteq Later(other, r)
  PROVE  Cardinality(Later(table, q)) <= Cardinality(Later(other, r))
BY LaterAre, FS_Subset

(* Pruning leaves a run that is not listed unlisted: if it takes one of    *)
(* those after it, it has left KeepRuns of them, and no fewer are listed.  *)
LEMMA PruneUnlists ==
  ASSUME NEW before, NEW table, NEW after, NEW q \in Request,
         \A p \in Request : before[p] # "none" => table[p] # "none",
         \A p \in Request : p \in Newest(table, KeepRuns) => after[p] = table[p],
         \A p \in Request : after[p] = "none" \/ after[p] = table[p],
         ~(Cardinality(Later(before, q)) < ListedRuns)
  PROVE  ~(Cardinality(Later(after, q)) < ListedRuns)
<1> DEFINE Pruned == {p \in Request : p > q /\ table[p] # "none" /\ after[p] = "none"}
<1>1. KeepRuns \in Nat /\ ListedRuns \in Nat /\ ListedRuns <= KeepRuns
  BY EnrolAssumption
<1>2. CASE Pruned = {}
  <2>1. Later(before, q) \subseteq Later(after, q)
    BY <1>2 DEF Later
  <2>2. Cardinality(Later(before, q)) <= Cardinality(Later(after, q))
    BY <2>1, MoreLater
  <2> QED
    BY <1>1, <2>2, LaterAre
<1>3. CASE Pruned # {}
  <2>1. PICK x \in Pruned : \A y \in Pruned : y <= x
    BY <1>3, Last
  <2>2. Later(table, x) \subseteq Later(after, q)
    <3> SUFFICES ASSUME NEW p \in Request, p > x, table[p] # "none"
                 PROVE  p > q /\ after[p] # "none"
      BY DEF Later
    <3>1. p > q
      BY <2>1, RequestsFinite
    <3>2. p \notin Pruned
      BY <2>1, RequestsFinite
    <3> QED
      BY <3>1, <3>2
  <2>3. Cardinality(Later(table, x)) <= Cardinality(Later(after, q))
    BY <2>2, MoreLater
  <2>4. ~(Cardinality(Later(table, x)) < KeepRuns)
    BY <2>1 DEF Newest, Later
  <2> QED
    BY <1>1, <2>3, <2>4, LaterAre
<1> QED
  BY <1>2, <1>3

(* Which runs are listed depends on which rows there are.                  *)
LEMMA SameNewest ==
  ASSUME NEW table, NEW other, NEW q \in Request, NEW n,
         \A p \in Request : table[p] = "none" <=> other[p] = "none"
  PROVE  q \in Newest(table, n) <=> q \in Newest(other, n)
<1>1. {p \in Request : p > q /\ table[p] # "none"} = {p \in Request : p > q /\ other[p] # "none"}
  OBVIOUS
<1> QED
  BY <1>1 DEF Newest

(* A run that shows as active has its goroutine, or was not listed when   *)
(* its process started.                                                   *)
LEMMA RunsStep ==
  ASSUME Types, Next, RunsAreAlive
  PROVE  RunsAreAlive'
<1> SUFFICES ASSUME restored' = {}, NEW q \in Request, Active(runs'[q]), stage'[q] = "none"
             PROVE  q \notin Newest(runs', ListedRuns)
  BY DEF RunsAreAlive, Active, Newest
<1>1. RowsOK /\ runs \in RunTable /\ stage \in [Request -> Stages]
  BY TypesParts DEF RowsOK
<1>2. restored = {}
  BY RestoresStay
<1>3. ASSUME Active(runs[q]), stage[q] = "none",
             \A p \in Request : runs[p] = "none" <=> runs'[p] = "none"
      PROVE  q \notin Newest(runs', ListedRuns)
  BY <1>2, <1>3, SameNewest DEF RunsAreAlive
<1>4. CASE UNCHANGED <<runs, stage>>
  BY <1>3, <1>4
<1>5. ASSUME NEW p \in Request, NEW status \in {"running", "success", "failed"},
             SetRun(p, status)
      PROVE  /\ \A r \in Request : runs[r] = "none" <=> runs'[r] = "none"
             /\ q # p => runs'[q] = runs[q]
             /\ q = p => runs'[q] = status
  <2>1. CASE runs[p] = "none"
    <3>1. runs' = runs
      BY <1>5, <2>1 DEF SetRun
    <3> QED
      BY <2>1, <3>1 DEF Active
  <2>2. CASE runs[p] # "none"
    <3>1. runs' = [runs EXCEPT ![p] = status]
      BY <1>5, <2>2 DEF SetRun
    <3> QED
      BY <1>1, <2>2, <3>1 DEF RunTable
  <2> QED
    BY <2>1, <2>2
<1>6. ASSUME NEW p \in Request, NEW s, stage' = [stage EXCEPT ![p] = s], stage[p] # "none",
             s # "none" \/ EndRun(p, "failed") \/ EndRun(p, "success"),
             runs' = runs \/ SetRun(p, "running") \/ EndRun(p, "failed") \/ EndRun(p, "success")
      PROVE  q \notin Newest(runs', ListedRuns)
  <2>1. p # q
    <3>1. ASSUME p = q PROVE FALSE
      <4>1. s = "none"
        BY <1>1, <1>6, <3>1
      <4>2. SetRun(p, "failed") \/ SetRun(p, "success")
        BY <1>6, <4>1 DEF EndRun
      <4>3. runs'[q] \in {"failed", "success"}
        BY <1>5, <3>1, <4>2
      <4> QED
        BY <4>3 DEF Active
    <3> QED
      BY <3>1
  <2>2. stage[q] = "none"
    BY <1>1, <1>6, <2>1
  <2>3. runs' = runs \/ SetRun(p, "running") \/ SetRun(p, "failed") \/ SetRun(p, "success")
    BY <1>6 DEF EndRun
  <2>4. /\ \A r \in Request : runs[r] = "none" <=> runs'[r] = "none"
        /\ runs'[q] = runs[q]
    BY <1>5, <2>1, <2>3
  <2> QED
    BY <1>3, <2>2, <2>4
<1>7. ASSUME NEW p \in Request, Provision(p) PROVE q \notin Newest(runs', ListedRuns)
  <2>1. CASE Expire(p)
    BY <1>4, <2>1 DEF Expire
  <2>2. CASE LockEngine(p)
    BY <1>6, <2>2 DEF LockEngine
  <2>3. ASSUME NEW from, NEW to, from # "none", to # "none", Pass(p, from, to)
        PROVE  q \notin Newest(runs', ListedRuns)
    BY <1>6, <2>3 DEF Pass, EndRun
  <2>4. CASE LoadContext(p) \/ StagePayloads(p) \/ Launch(p)
    BY <2>3, <2>4 DEF LoadContext, StagePayloads, Launch
  <2>5. CASE IssuePairing(p)
    BY <1>6, <2>5 DEF IssuePairing, EndRun
  <2>6. CASE Play(p)
    BY <1>6, <2>6 DEF Play, EndRun
  <2> QED
    BY <1>7, <2>1, <2>2, <2>4, <2>5, <2>6 DEF Provision
<1>8. ASSUME NEW p \in Request, StartRun(p) PROVE q \notin Newest(runs', ListedRuns)
  <2> DEFINE table == [runs EXCEPT ![p] = "queued"]
  <2>1. /\ runs' = [r \in Request |->
                      IF Active(table[r]) \/ r \in Newest(table, KeepRuns) THEN table[r] ELSE "none"]
        /\ stage' = [stage EXCEPT ![p] = "waiting"]
    BY <1>8 DEF StartRun
  <2>2. /\ table[p] = "queued" /\ \A r \in Request \ {p} : table[r] = runs[r]
    BY <1>1 DEF RunTable
  <2> HIDE DEF table
  <2>3. p # q /\ stage[q] = "none"
    BY <1>1, <2>1
  <2>4. runs'[q] = table[q] /\ table[q] = runs[q]
    BY <2>1, <2>2, <2>3 DEF Active
  <2>5. q \notin Newest(runs, ListedRuns)
    BY <1>2, <2>3, <2>4 DEF RunsAreAlive
  <2>6. ~(Cardinality(Later(runs, q)) < ListedRuns)
    BY <2>4, <2>5 DEF Newest, Later, Active
  <2>7. /\ \A r \in Request : runs[r] # "none" => table[r] # "none"
        /\ \A r \in Request : r \in Newest(table, KeepRuns) => runs'[r] = table[r]
        /\ \A r \in Request : runs'[r] = "none" \/ runs'[r] = table[r]
    BY <2>1, <2>2
  <2>8. ~(Cardinality(Later(runs', q)) < ListedRuns)
    BY <2>6, <2>7, PruneUnlists
  <2> QED
    BY <2>8 DEF Newest, Later
<1>9. ASSUME EnrolBoot PROVE q \notin Newest(runs', ListedRuns)
  <2>1. runs' = [r \in Request |->
          IF Active(runs[r]) /\ r \in Newest(runs, ListedRuns) THEN "failed" ELSE runs[r]]
    BY <1>9 DEF EnrolBoot
  <2>2. q \notin Newest(runs, ListedRuns)
    BY <2>1 DEF Active
  <2>3. \A r \in Request : runs[r] = "none" <=> runs'[r] = "none"
    BY <2>1 DEF Active
  <2> QED
    BY <2>2, <2>3, SameNewest
<1>10. UNCHANGED enrolVars => UNCHANGED <<runs, stage>>
  BY DEF enrolVars
<1>11. \A p \in Request : EnrolStep(p) => UNCHANGED <<runs, stage>>
  BY DEF EnrolStep, CreateNode, CheckCode, MarkCode, RollBackNode, enrolVars
<1>12. \A p \in Request : EnrolArrive(p) => UNCHANGED <<runs, stage>> \/ StartRun(p)
  BY DEF EnrolArrive, CreatePairingCode, AddNode, DeleteNode
<1> QED
  BY <1>4, <1>7, <1>8, <1>9, <1>10, <1>11, <1>12, EnrolChange

(* No run shows as queued or running for ever (ReconcileStaleRuns).        *)
THEOREM RunsStayAlive == Spec => []RunsAreAlive
<1> DEFINE Inv == Types /\ RunsAreAlive
<1>1. Init => Inv
  <2>1. Init => RunsAreAlive
    BY DEF Init, EnrolInit, NoRuns, RunsAreAlive, Active
  <2> QED
    BY <2>1, InitTypes
<1>2. Inv /\ [Next]_vars => Inv'
  <2> SUFFICES ASSUME Inv, [Next]_vars PROVE Inv'
    OBVIOUS
  <2>1. CASE Next
    BY <2>1, TypesStep, RunsStep
  <2>2. CASE UNCHANGED vars
    <3>1. UNCHANGED <<runs, stage, restored>>
      BY <2>2 DEF vars, enrolVars, backupVars
    <3>2. RunsAreAlive'
      BY <3>1 DEF RunsAreAlive, Newest
    <3> QED
      BY <3>2, TypesStep
  <2> QED
    BY <2>1, <2>2
<1>3. Inv => RunsAreAlive
  OBVIOUS
<1> HIDE DEF Inv
<1> QED
  BY <1>1, <1>2, <1>3, PTL DEF Spec

----------------------------------------------------------------------------
(* Sessions and passwords.                                                 *)

(* What excuses a session stays on record.                                 *)
LEMMA CrossedStays ==
  ASSUME Types, Next, NEW p \in Request, NEW u, Crossed(p, u)
  PROVE  Crossed(p, u)'
<1>1. PICK q \in Request : Repasses(q, u) /\ Overlap(p, q)
  BY DEF Crossed
<1>2. Overlap(p, q)'
  BY <1>1, OverlapsStay
<1>3. Repasses(q, u)'
  <2>1. req[q].op \in {"password", "restore"}
    BY <1>1 DEF Repasses, Ops
  <2>2. req'[q].op = req[q].op /\ req'[q].on = req[q].on
    BY <2>1, TypesParts, HandlersGo, OnRecord DEF Ops
  <2> QED
    BY <1>1, <2>2 DEF Repasses, Ops
<1> QED
  BY <1>2, <1>3 DEF Crossed

(* And so does what excuses a session. *)
LEMMA ExcusedStays ==
  ASSUME Types, Next, NEW s, NEW u, NEW d, Excused(s, u, d, {"cut"})
  PROVE  Excused(s, u, d, {"cut"})'
<1>1. ASSUME Carried(s, u) PROVE Carried(s, u)'
  <2>1. PICK p \in Request : (p = s \/ RestoredDump(p)) /\ Crossed(p, u)
    BY <1>1 DEF Carried
  <2>2. Crossed(p, u)' /\ (p = s \/ RestoredDump(p)')
    BY <2>1, CrossedStays, RestoresStay
  <2> QED
    BY <2>2 DEF Carried
<1>2. ASSUME LeftOpen(u, {"cut"}) PROVE LeftOpen(u, {"cut"})'
  <2>1. PICK q \in Request : Ops(q, {"password"}) /\ req[q].on = u /\ req[q].pc = "cut"
    BY <1>2 DEF LeftOpen
  <2>2. req'[q] = req[q]
    BY <2>1, TypesParts, HandlersGo, OnRecord DEF Ended
  <2> QED
    BY <2>1, <2>2 DEF LeftOpen, Ops
<1>3. ASSUME d \in Request, Crossed(d, u) PROVE Crossed(d, u)'
  BY <1>3, CrossedStays
<1> QED
  BY <1>1, <1>2, <1>3 DEF Excused

(* A change that waits for its second statement waits on, is cut off, or   *)
(* makes it.                                                               *)
LEMMA OpenStays ==
  ASSUME Types, Next, NEW u, LeftOpen(u, {"revoke", "cut"})
  PROVE  \/ LeftOpen(u, {"revoke", "cut"})'
         \/ u \in User /\ users' = users /\ \E keep : Revoke(u, keep)
<1>1. HandlersOK /\ \A p \in Request : ArgsOK(p)
  BY TypesParts
<1>2. PICK q \in Request :
        Ops(q, {"password"}) /\ req[q].on = u /\ req[q].pc \in {"revoke", "cut"}
  BY DEF LeftOpen
<1>3. req[q].op = "password"
  BY <1>2 DEF Ops
<1>4. req'[q].op = "password" /\ req'[q].on = u
  BY <1>1, <1>2, <1>3, HandlersGo, OnRecord DEF Ops
<1>5. CASE req'[q].pc \in {"revoke", "cut"}
  BY <1>4, <1>5 DEF LeftOpen, Ops
<1>6. CASE req'[q].pc \notin {"revoke", "cut"}
  <2>1. q \in InService /\ Step(q)
    BY <1>2, <1>3, <1>4, <1>6, Stands
  <2>2. AccountsStep(q)
    BY <1>3, <2>1, OwnStep DEF AccountOps
  <2>3. RevokeSessions(q)
    <3>1. req[q].pc = "revoke"
      BY <1>2, <2>1 DEF InService
    <3> QED
      BY <1>3, <2>2, <3>1 DEF AccountsStep, InsertSession, WritePassword, InsertUser,
         CountAdmins, DeleteUser, At
  <2> QED
    BY <1>1, <1>2, <2>3 DEF RevokeSessions, ArgsOK
<1> QED
  BY <1>5, <1>6

(* A request that changes passwords, and one that is in service, overlap.  *)
LEMMA Crosses ==
  ASSUME Types, Next, NEW q \in InService, q \in Request, Serves(q), NEW u, Repasses(q, u),
         NEW p \in InService, p \in Request, ~Ops(p, {"password", "restore"})
  PROVE  Crossed(p, u)'
<1>1. HandlersOK /\ req[q].op \in {"password", "restore"} /\ p # q
  BY TypesParts DEF Repasses, Ops
<1>2. Overlap(p, q)'
  BY <1>1, ServesOverlaps
<1>3. req'[q].op = req[q].op /\ req'[q].on = req[q].on
  BY <1>1, HandlersGo, OnRecord DEF Ops
<1>4. Repasses(q, u)'
  BY <1>3 DEF Repasses, Ops
<1> QED
  BY <1>2, <1>4 DEF Crossed

(* A restore crosses every other request in service, whoever it is        *)
(* about.                                                                 *)
LEMMA ReplayCrosses ==
  ASSUME Types, Next, NEW q \in InService, Replay(q), NEW u,
         NEW p \in InService, p \in Request, ~Ops(p, {"password", "restore"})
  PROVE  Crossed(p, u)'
<1>1. HandlersOK /\ (\A r \in Request : ArgsOK(r)) /\ q \in Request
  BY TypesParts DEF InService
<1>2. req[q].op = "restore" /\ GoesOn(q, "end")
  BY <1>1, ReplayIs
<1>3. Repasses(q, u) /\ Serves(q)
  BY <1>2 DEF Repasses, Ops, GoesOn
<1> QED
  BY <1>1, <1>3, Crosses

(* Nobody's password changes but by a request that overlaps all the others *)
(* in service, or at a start.                                              *)
LEMMA PassRises ==
  ASSUME Types, Next, NEW u \in User,
         NEW p \in InService, p \in Request, ~Ops(p, {"password", "restore"}),
         p \in InService', ~(users'[u].pass <= users[u].pass)
  PROVE  Crossed(p, u)'
<1>1. RowsOK /\ FilesOK /\ HandlersOK /\ users[u].pass \in Nat
  BY TypesParts, UserRows
<1>2. users'[u] # users[u]
  BY <1>1
<1>3. ASSUME NEW q \in InService, q \in Request, PasswordWritten(q) PROVE Crossed(p, u)'
  <2>1. req[q].on \in User /\ IsUser(req[q].on) /\ users' = SetPassword(req[q].on)
    BY <1>2, <1>3 DEF PasswordWritten
  <2>2. u = req[q].on
    BY <1>1, <1>2, <2>1, PasswordSet
  <2>3. Repasses(q, u) /\ Serves(q)
    BY <1>3, <2>2 DEF PasswordWritten, At, Repasses, Ops, GoesOn
  <2> QED
    BY <1>3, <2>3, Crosses
<1>4. ASSUME NEW q \in Request, UserMade(q) PROVE FALSE
  <2>1. u = q /\ users'[u] = [name |-> req[q].on, role |-> req[q].with, pass |-> 0]
    BY <1>2, <1>4 DEF UserMade
  <2>2. users'[u].pass = 0
    BY <2>1
  <2> QED
    BY <1>1, <2>2
<1>5. ASSUME NEW q \in Request, UserDeleted(q) PROVE FALSE
  <2>1. users'[u] = NoUser
    BY <1>2, <1>5 DEF UserDeleted
  <2>2. users'[u].pass = 0
    BY <2>1 DEF NoUser
  <2> QED
    BY <1>1, <2>2
<1>6. \A q \in Request : SessionOpened(q) \/ SessionsRevoked(q) \/ LoggedOut(q) => users' = users
  BY DEF SessionOpened, SessionsRevoked, LoggedOut
<1> QED
  BY <1>2, <1>3, <1>4, <1>5, <1>6, ReplayCrosses, UsersChange

(* With nobody to keep, every session of the user ends. *)
LEMMA AllRevoked ==
  ASSUME NEW u, Revoke(u, Nil), NEW s \in Session
  PROVE  /\ sessions[s].user # u => sessions'[s] = sessions[s]
         /\ sessions[s].user = u => sessions'[s] = NoSession
<1>1. s # Nil
  BY AccountsAssumption, RequestsAssumption DEF Session
<1> QED
  BY <1>1 DEF Revoke

(* A start changes one password, and ends that user's sessions. *)
LEMMA BootPasses ==
  ASSUME RowsOK, AccountsBoot, NEW s \in Session, sessions'[s] # NoSession
  PROVE  /\ sessions'[s] = sessions[s]
         /\ users'[sessions[s].user].pass <= users[sessions[s].user].pass
<1>2. \A u \in User : users[u].pass \in Nat
  BY UserRows
<1>3. CASE UNCHANGED <<users, sessions>>
  <2>1. sessions[s].user \in User
    BY <1>3, SessionRows
  <2> QED
    BY <1>2, <1>3, <2>1
<1>4. ASSUME NEW v \in User, IsUser(v), users' = SetPassword(v), Revoke(v, Nil)
      PROVE  /\ sessions'[s] = sessions[s]
             /\ users'[sessions[s].user].pass <= users[sessions[s].user].pass
  <2>1. sessions[s].user # v /\ sessions'[s] = sessions[s]
    BY <1>4, AllRevoked
  <2>2. sessions[s].user \in User
    BY <2>1, SessionRows
  <2>3. users'[sessions[s].user] = users[sessions[s].user]
    BY <1>4, <2>1, <2>2, PasswordSet
  <2> QED
    BY <1>2, <2>1, <2>2, <2>3
<1>5. CASE /\ users'[Seeded] = [name |-> Configured, role |-> "admin", pass |-> 0]
           /\ \A u \in User \ {Seeded} : users'[u] = users[u]
           /\ sessions' = sessions
  <2>1. sessions[s].user \in User
    BY <1>5, SessionRows
  <2>2. users'[Seeded].pass = 0
    BY <1>5
  <2> QED
    BY <1>2, <1>5, <2>1, <2>2
<1> QED
  BY <1>3, <1>4, <1>5, AccountsBooted

(* The tables: a session that stays as it is, is excused as it was.        *)
LEMMA SessionKept ==
  ASSUME Types, Next, Proved(sessions, users, Nil, {"revoke", "cut"}),
         NEW s \in Session, sessions'[s] # NoSession, sessions'[s] = sessions[s],
         NEW u \in User, u = sessions[s].user, users'[u].pass <= users[u].pass,
         users'[u].pass \in Nat
  PROVE  sessions'[s].proof >= users'[u].pass \/ Excused(s, u, Nil, {"revoke", "cut"})'
<1>1. RowsOK /\ users[u].pass \in Nat /\ sessions[s].proof \in Nat
  BY TypesParts, UserRows, SessionRows
<1>2. Nil \notin Request
  BY RequestsAssumption
<1>3. sessions[s].proof >= users[u].pass \/ Excused(s, u, Nil, {"revoke", "cut"})
  BY DEF Proved
<1>4. CASE sessions[s].proof >= users[u].pass
  BY <1>1, <1>4
<1>5. CASE Carried(s, u)
  <2>1. Excused(s, u, Nil, {"cut"})'
    BY <1>5, ExcusedStays DEF Excused
  <2> QED
    BY <1>2, <2>1 DEF Excused, LeftOpen
<1>6. CASE LeftOpen(u, {"revoke", "cut"})
  <2>1. CASE LeftOpen(u, {"revoke", "cut"})'
    BY <2>1 DEF Excused
  <2>2. ASSUME users' = users, NEW keep, Revoke(u, keep)
        PROVE  sessions'[s].proof >= users'[u].pass
    <3>1. sessions'[s] = [user |-> u, proof |-> users[u].pass]
      BY <1>1, <2>2, Revoked
    <3>2. sessions'[s].proof = users[u].pass
      BY <3>1
    <3> QED
      BY <1>1, <2>2, <3>2
  <2> QED
    BY <1>6, <2>1, <2>2, OpenStays
<1> QED
  BY <1>2, <1>3, <1>4, <1>5, <1>6 DEF Excused

(* The tables: no session is older than its owner's password, or it is    *)
(* excused.                                                               *)
LEMMA SessionsProvedStep ==
  ASSUME Types, Next, SessionInv, SessionsRefer(sessions, users),
         NEW s \in Session, sessions'[s] # NoSession,
         NEW u \in User, u = sessions'[s].user
  PROVE  sessions'[s].proof >= users'[u].pass \/ Excused(s, u, Nil, {"revoke", "cut"})'
<1> DEFINE Goal == sessions'[s].proof >= users'[u].pass
                   \/ Excused(s, u, Nil, {"revoke", "cut"})'
<1>1. RowsOK /\ FilesOK /\ HandlersOK /\ (\A q \in Request : ArgsOK(q)) /\ RowsOK'
  BY TypesParts, HandlersGo DEF Types
<1>2. users[u].pass \in Nat /\ users'[u].pass \in Nat /\ users[u].pass <= users[u].pass
  <2>1. users'[u] \in UserRow \cup {NoUser}
    BY <1>1 DEF RowsOK, UserTable
  <2>2. users'[u].pass \in Nat
    BY <2>1 DEF UserRow, NoUser
  <2> QED
    BY <1>1, <2>2, UserRows
<1>3. Nil \notin Request /\ Nil \notin Session
  BY AccountsAssumption, RequestsAssumption DEF Session
<1>4. ASSUME sessions'[s] = sessions[s], users'[u].pass <= users[u].pass PROVE Goal
  BY <1>2, <1>4, SessionKept DEF SessionInv
<1>5. ASSUME UNCHANGED <<users, sessions>> PROVE Goal
  BY <1>2, <1>4, <1>5
<1>6. ASSUME NEW q \in Request, LoggedOut(q) PROVE Goal
  <2>1. sessions'[s] = sessions[s] /\ users' = users
    BY <1>6 DEF LoggedOut
  <2> QED
    BY <1>2, <1>4, <2>1
<1>7. ASSUME NEW q \in Request, PasswordWritten(q) PROVE Goal
  <2>1. sessions' = sessions
    BY <1>7 DEF PasswordWritten
  <2>2. CASE users'[u] = users[u]
    BY <1>2, <1>4, <2>1, <2>2
  <2>3. CASE users'[u] # users[u]
    <3>1. req[q].on \in User /\ IsUser(req[q].on) /\ users' = SetPassword(req[q].on)
      BY <1>7, <2>3 DEF PasswordWritten
    <3>2. u = req[q].on
      BY <1>1, <2>3, <3>1, PasswordSet
    <3>3. req[q].op = "password" /\ GoesOn(q, "revoke")
      BY <1>7 DEF PasswordWritten, At
    <3>4. req'[q].op = "password" /\ req'[q].on = u /\ req'[q].pc = "revoke"
      BY <3>2, <3>3 DEF GoesOn
    <3>5. LeftOpen(u, {"revoke", "cut"})'
      BY <3>4 DEF LeftOpen, Ops
    <3> QED
      BY <3>5 DEF Excused
  <2> QED
    BY <2>2, <2>3
<1>8. ASSUME NEW q \in Request, SessionOpened(q) PROVE Goal
  <2>1. users' = users /\ req[q].on \in User /\ At(q, "login", "insert")
    BY <1>8 DEF SessionOpened
  <2>2. CASE s = q
    <3>1. sessions'[s] = [user |-> req[q].on, proof |-> req[q].seen]
      BY <1>8, <2>2 DEF SessionOpened
    <3>2. u = req[q].on /\ sessions'[s].proof = req[q].seen
      BY <3>1
    <3>3. req[q].seen >= users[u].pass \/ Crossed(q, u)
      BY <1>3, <2>1, <3>2 DEF SessionInv, LoginsProved
    <3>4. Crossed(q, u) => Crossed(q, u)'
      BY CrossedStays
    <3> QED
      BY <2>1, <2>2, <3>2, <3>3, <3>4 DEF Excused, Carried
  <2>3. CASE s # q
    <3>1. sessions'[s] = sessions[s]
      BY <1>8, <2>3 DEF SessionOpened
    <3> QED
      BY <1>2, <1>4, <2>1, <3>1
  <2> QED
    BY <2>2, <2>3
<1>9. ASSUME NEW q \in Request, SessionsRevoked(q) PROVE Goal
  <2>1. users' = users /\ req[q].on \in User /\ Revoke(req[q].on, req[q].with)
    BY <1>9 DEF SessionsRevoked
  <2>2. CASE sessions[s].user # req[q].on
    <3>1. sessions'[s] = sessions[s]
      BY <1>1, <2>1, <2>2, Revoked
    <3> QED
      BY <1>2, <1>4, <2>1, <3>1
  <2>3. CASE sessions[s].user = req[q].on
    <3>1. sessions'[s] = [user |-> req[q].on, proof |-> users[req[q].on].pass]
      BY <1>1, <2>1, <2>3, Revoked
    <3>2. u = req[q].on /\ sessions'[s].proof = users[u].pass
      BY <3>1
    <3> QED
      BY <1>2, <2>1, <3>2
  <2> QED
    BY <2>2, <2>3
<1>10. ASSUME NEW q \in Request, UserMade(q) PROVE Goal
  <2>1. sessions' = sessions
    BY <1>10 DEF UserMade
  <2>2. CASE u = q
    <3>1. users'[u] = [name |-> req[q].on, role |-> req[q].with, pass |-> 0]
      BY <1>10, <2>2 DEF UserMade
    <3>2. users'[u].pass = 0
      BY <3>1
    <3> QED
      BY <1>2, <1>4, <2>1, <3>2
  <2>3. CASE u # q
    <3>1. users'[u] = users[u]
      BY <1>10, <2>3 DEF UserMade
    <3> QED
      BY <1>2, <1>4, <2>1, <3>1
  <2> QED
    BY <2>2, <2>3
<1>11. ASSUME NEW q \in Request, UserDeleted(q) PROVE Goal
  <2>1. req[q].on \in User /\ Revoke(req[q].on, Nil)
    BY <1>11 DEF UserDeleted
  <2>2. sessions[s].user # req[q].on => sessions'[s] = sessions[s]
    BY <2>1, AllRevoked
  <2>3. sessions[s].user = req[q].on => sessions'[s] = NoSession
    BY <2>1, AllRevoked
  <2>4. u # req[q].on /\ sessions'[s] = sessions[s]
    BY <2>2, <2>3
  <2>5. users'[u] = users[u]
    BY <1>11, <2>4 DEF UserDeleted
  <2> QED
    BY <1>2, <1>4, <2>4, <2>5
<1>12. ASSUME NEW d \in Request, PutBack(d) PROVE Goal
  <2>1. IsFile(d) /\ FileOK(file[d]) /\ RestoredDump(d)'
    BY <1>1, <1>12, PutBackIs
  <2>2. Reached(file[d], "sessions") /\ sessions' = file[d]["sessions"]
    BY <1>1, <1>12, PutBackIs
  <2>3. Reached(file[d], "users") /\ users' = file[d]["users"].users
    BY <1>1, <1>12, <2>1, <2>2, PutBackIs DEF FileOK
  <2>4. sessions'[s].proof >= users'[u].pass \/ Excused(s, u, d, {"cut"})
    BY <2>1, <2>2, <2>3 DEF SessionInv, PasswordDump, Proved
  <2>5. Excused(s, u, d, {"cut"}) => Excused(s, u, d, {"cut"})'
    BY ExcusedStays
  <2>6. Excused(s, u, d, {"cut"})' => Excused(s, u, Nil, {"revoke", "cut"})'
    BY <2>1 DEF Excused, Carried, LeftOpen
  <2> QED
    BY <2>4, <2>5, <2>6
<1>13. ASSUME AccountsBoot PROVE Goal
  <2>1. sessions'[s] = sessions[s]
        /\ users'[sessions[s].user].pass <= users[sessions[s].user].pass
    BY <1>1, <1>13, BootPasses
  <2> QED
    BY <1>4, <2>1
<1>14. Goal
  BY <1>5, <1>6, <1>7, <1>8, <1>9, <1>10, <1>11, <1>12, <1>13, UsersChange
<1> QED
  BY <1>14

(* A login that is about to insert its session was, or has just read the   *)
(* row it proved.                                                          *)
LEMMA LoginStands ==
  ASSUME Types, Next, NEW p \in Request, At(p, "login", "insert")'
  PROVE  \/ /\ req'[p] = req[p] /\ At(p, "login", "insert")
            /\ p \in InService /\ p \in InService' /\ req[p].on \in User
            /\ req[p].seen \in Nat
         \/ /\ UNCHANGED <<users, sessions>>
            /\ IsUser(req'[p].on) /\ req'[p].seen = users[req'[p].on].pass
<1>1. RowsOK /\ HandlersOK /\ \A q \in Request : ArgsOK(q)
  BY TypesParts
<1>2. CASE req'[p] = req[p]
  BY <1>1, <1>2 DEF At, InService, ArgsOK, Ops
<1>3. CASE req[p].op = "none" /\ Arrive(p) /\ Arriving(p)
  <2>1. req'[p].op = "login"
    BY DEF At
  <2>2. ~CatalogArrive(p) /\ ~CreateJobArrives(p)
    BY <1>1, <1>3, <2>1, CatalogComes, JobComes DEF CatalogOps
  <2>3. ~EnrolArrive(p) /\ ~PairArrives(p)
    BY <1>1, <1>3, <2>1, EnrolComes, PairComes DEF EnrolOps
  <2>4. ~BackupArrive(p) /\ ~RestoreArrives(p)
    BY <1>1, <1>3, <2>1, BackupComes, RestoreComes DEF BackupOps
  <2>5. AccountsArrive(p)
    BY <1>3, <2>2, <2>3, <2>4 DEF Arrive
  <2>6. LoginArrives(p) /\ UNCHANGED accountVars
    BY <1>1, <1>3, <2>1, <2>5, CameFor DEF AccountsArrive
  <2>7. PICK u \in User : IsUser(u) /\ Begin(p, "login", "insert", u, Nil, users[u].pass)
    BY <2>6 DEF LoginArrives
  <2>8. Comes(p, "login", "insert", u, Nil, users[u].pass)
    BY <1>1, <1>3, <2>7, BeginServes
  <2>9. req'[p].on = u /\ req'[p].seen = users[u].pass
    BY <2>8 DEF Comes
  <2> QED
    BY <2>6, <2>7, <2>9 DEF accountVars
<1>4. CASE p \in InService /\ req[p].op # "none" /\ Step(p)
  <2>1. ResolveSteps(p)
    BY <1>4, OwnStep DEF At
  <2>2. req'[p].op = "importFlow"
    BY <1>1, <1>4, <2>1, HandlersGo, OnRecord DEF ResolveSteps, At
  <2> QED
    BY <2>2 DEF At
<1>5. CASE req'[p].pc = "cut"
  BY <1>5 DEF At
<1> QED
  BY <1>2, <1>3, <1>4, <1>5, Stands DEF At

(* Nor is what a login has read, or a change has crossed it. *)
LEMMA LoginsProvedStep ==
  ASSUME Types, Next, SessionInv, NEW p \in Request, At(p, "login", "insert")'
  PROVE  req'[p].seen >= users'[req'[p].on].pass \/ Crossed(p, req[p].on)'
<1>1. RowsOK /\ RowsOK'
  BY TypesParts, HandlersGo DEF Types
<1>2. Nil \notin Request
  BY RequestsAssumption
<1>3. ASSUME NEW u \in User PROVE users[u].pass \in Nat /\ users'[u].pass \in Nat
  <2>1. users'[u] \in UserRow \cup {NoUser}
    BY <1>1 DEF RowsOK, UserTable
  <2>2. users'[u].pass \in Nat
    BY <2>1 DEF UserRow, NoUser
  <2> QED
    BY <1>1, <2>2, UserRows
<1>4. CASE /\ req'[p] = req[p] /\ At(p, "login", "insert")
           /\ p \in InService /\ p \in InService' /\ req[p].on \in User
           /\ req[p].seen \in Nat
  <2> DEFINE u == req[p].on
  <2>1. req[p].seen >= users[u].pass \/ Crossed(p, u)
    BY <1>2, <1>4 DEF SessionInv, LoginsProved
  <2>2. CASE Crossed(p, u)
    <3>1. ASSUME NEW v, v = u PROVE Crossed(p, v)'
      BY <2>2, <3>1, CrossedStays
    <3> QED
      BY <1>4, <3>1
  <2>3. CASE req[p].seen >= users[u].pass /\ users'[u].pass <= users[u].pass
    BY <1>3, <1>4, <2>3
  <2>4. CASE ~(users'[u].pass <= users[u].pass)
    <3>1. ~Ops(p, {"password", "restore"})
      BY <1>4 DEF At, Ops
    <3>2. ASSUME NEW v \in User, v = u PROVE Crossed(p, v)'
      BY <1>4, <2>4, <3>1, <3>2, PassRises
    <3> QED
      BY <1>4, <3>2
  <2> QED
    BY <2>1, <2>2, <2>3, <2>4
<1>5. CASE /\ UNCHANGED <<users, sessions>>
           /\ IsUser(req'[p].on) /\ req'[p].seen = users[req'[p].on].pass
  BY <1>3, <1>5 DEF IsUser
<1> QED
  BY <1>4, <1>5, LoginStands

----------------------------------------------------------------------------
(* The dumps: what is read of the users, the sessions read later fit.      *)

(* What a dump reads of the users fits the sessions it has still to       *)
(* read.                                                                  *)
LEMMA UsersRead ==
  ASSUME Types, Next, SessionInv, NEW d \in Request, Reads(d, "users")
  PROVE  UsersDumped(users, d)'
<1>1. RowsOK /\ HandlersOK /\ d \in InService /\ Ops(d, {"manualDump", "scheduledDump"})
  BY TypesParts DEF Reads, Reading, Dumps, InService, Ops
<1>2. UNCHANGED <<users, sessions>> /\ (req' = req \/ Serves(d)) /\ Nil \notin Request
  BY RequestsAssumption DEF Reads, accountVars
<1>3. \A p \in Request \ {d} : req'[p] = req[p]
  BY <1>2 DEF Serves
<1>4. ASSUME NEW s \in Session, sessions[s] # NoSession, NEW u, u = sessions[s].user
      PROVE  sessions[s].proof >= users[u].pass \/ Excused(s, u, d, {"cut"})'
  <2>1. sessions[s].proof >= users[u].pass \/ Excused(s, u, Nil, {"revoke", "cut"})
    BY <1>4 DEF SessionInv, Proved
  <2>2. CASE Carried(s, u)
    BY <2>2, ExcusedStays DEF Excused
  <2>3. CASE LeftOpen(u, {"revoke", "cut"})
    <3>1. PICK q \in Request :
            Ops(q, {"password"}) /\ req[q].on = u /\ req[q].pc \in {"revoke", "cut"}
      BY <2>3 DEF LeftOpen
    <3>2. CASE req[q].pc = "cut"
      <4>1. Excused(s, u, d, {"cut"})
        BY <3>1, <3>2 DEF Excused, LeftOpen
      <4> QED
        BY <4>1, ExcusedStays
    <3>3. CASE req[q].pc = "revoke"
      <4>1. q \in InService /\ q # d
        BY <1>1, <3>1, <3>3 DEF InService, Ops
      <4>2. Overlap(d, q) /\ Repasses(q, u)
        BY <1>1, <3>1, <4>1, InServiceOverlap DEF Repasses
      <4>3. Excused(s, u, d, {"cut"})
        BY <4>2 DEF Excused, Crossed
      <4> QED
        BY <4>3, ExcusedStays
    <3> QED
      BY <3>1, <3>2, <3>3
  <2> QED
    BY <1>2, <2>1, <2>2, <2>3 DEF Excused
<1>5. ASSUME NEW p \in Request, At(p, "login", "insert")'
      PROVE  req'[p].seen >= users'[req'[p].on].pass \/ Crossed(p, req[p].on)'
  <2>1. req'[p] = req[p]
    <3>1. p # d
      <4>1. req'[d].op # "login"
        BY <1>1, <1>2 DEF Serves, Ops, InService, HandlersOK
      <4> QED
        BY <1>5, <4>1 DEF At
    <3> QED
      BY <1>3, <3>1
  <2>2. At(p, "login", "insert")
    BY <1>5, <2>1 DEF At
  <2>3. req[p].seen >= users[req[p].on].pass \/ Crossed(p, req[p].on)
    BY <1>2, <2>2 DEF SessionInv, LoginsProved
  <2>4. ASSUME NEW v, v = req[p].on, Crossed(p, v) PROVE Crossed(p, v)'
    BY <2>4, CrossedStays
  <2>5. CASE Crossed(p, req[p].on)
    <3>1. ASSUME NEW v, v = req[p].on PROVE Crossed(p, v)'
      BY <2>4, <2>5, <3>1
    <3> DEFINE on == req[p].on
    <3>2. on' = on
      BY <2>1
    <3>3. \A v : v = req[p].on => Crossed(p, v)'
      BY <3>1
    <3>4. Crossed(p, req[p].on)'
      BY <3>2, <3>3
    <3> QED
      BY <3>4
  <2> QED
    BY <1>2, <2>1, <2>3, <2>5
<1>6. \A u \in User : users'[u].pass >= users'[u].pass
  BY <1>1, <1>2, UserRows
<1>7. Proved(sessions, users, d, {"cut"})'
  BY <1>2, <1>4 DEF Proved
<1>8. LoginsProved(users, d)'
  BY <1>5 DEF LoginsProved
<1>9. \A u \in User : IsUser(u)' => users'[u].pass >= users'[u].pass \/ Crossed(d, u)'
  BY <1>6
<1> QED
  BY <1>7, <1>8, <1>9 DEF UsersDumped

(* While a dump goes on, the users it has read fit the sessions it has not,*)
(* or are excused: rows of the dump only get older.                        *)
LEMMA UsersGetOn ==
  ASSUME Types, Next, NEW d \in Request, Reading(d), Reading(d)',
         NEW us \in UserTable, RowsMade(us), UsersDumped(us, d), NEW u \in User, IsUser(u)'
  PROVE  users'[u].pass >= us[u].pass \/ Crossed(d, u)'
<1>1. RowsOK /\ RowsOK' /\ d \in InService /\ d \in InService'
      /\ ~Ops(d, {"password", "restore"})
  BY TypesParts, HandlersGo DEF Types, Reading, Dumps, InService, Ops
<1>2. users[u].pass \in Nat /\ us[u].pass \in Nat /\ users'[u] # NoUser
  <2>1. us[u] \in UserRow \cup {NoUser}
    BY DEF UserTable
  <2>2. us[u].pass \in Nat
    BY <2>1 DEF UserRow, NoUser
  <2>3. IsUser(u)' <=> users'[u] # NoUser
    BY DEF IsUser
  <2> QED
    BY <1>1, <2>2, <2>3, UserRows
<1>3. ASSUME IsUser(u), users'[u].pass >= users[u].pass, users'[u].pass \in Nat
      PROVE  users'[u].pass >= us[u].pass \/ Crossed(d, u)'
  <2>1. users[u].pass >= us[u].pass \/ Crossed(d, u)
    BY <1>3 DEF UsersDumped
  <2>2. Crossed(d, u) => Crossed(d, u)'
    BY CrossedStays
  <2>3. users[u].pass >= us[u].pass => users'[u].pass >= us[u].pass
    BY <1>2, <1>3
  <2> QED
    BY <2>1, <2>2, <2>3
<1>4. CASE users'[u] = users[u]
  <2>1. users'[u].pass >= users[u].pass /\ users'[u].pass \in Nat /\ IsUser(u)
    BY <1>2, <1>4 DEF IsUser
  <2> QED
    BY <1>3, <2>1
<1>5. ASSUME NEW q \in Request, PasswordWritten(q), users'[u] # users[u]
      PROVE  users'[u].pass >= us[u].pass \/ Crossed(d, u)'
  <2>1. req[q].on \in User /\ IsUser(req[q].on) /\ users' = SetPassword(req[q].on)
    BY <1>5 DEF PasswordWritten
  <2>2. u = req[q].on
    BY <1>1, <1>5, <2>1, PasswordSet
  <2>3. users'[u] = [name |-> users[u].name, role |-> users[u].role,
                     pass |-> users[u].pass + 1]
    BY <1>1, <2>1, <2>2, PasswordSet
  <2>4. users'[u].pass = users[u].pass + 1
    BY <2>3
  <2>5. users'[u].pass >= users[u].pass /\ users'[u].pass \in Nat
    BY <1>2, <2>4
  <2> QED
    BY <1>3, <2>1, <2>2, <2>5
<1>6. ASSUME NEW q \in Request, UserMade(q), users'[u] # users[u]
      PROVE  users'[u].pass >= us[u].pass \/ Crossed(d, u)'
  <2>1. u = q /\ users'[u] = [name |-> req[q].on, role |-> req[q].with, pass |-> 0]
    BY <1>6 DEF UserMade
  <2>2. users'[u].pass = 0
    BY <2>1
  <2>3. us[u] = NoUser
    BY <1>6, <2>1 DEF RowsMade, UserMade, At
  <2>4. us[u].pass = 0
    BY <2>3 DEF NoUser
  <2> QED
    BY <2>2, <2>4
<1>7. ASSUME NEW q \in Request, UserDeleted(q) PROVE users'[u] = users[u]
  BY <1>2, <1>7 DEF UserDeleted
<1>8. ASSUME NEW q \in InService, Replay(q) PROVE Crossed(d, u)'
  BY <1>1, <1>8, ReplayCrosses
<1>9. \A q \in Request : SessionOpened(q) \/ SessionsRevoked(q) \/ LoggedOut(q) => users' = users
  BY DEF SessionOpened, SessionsRevoked, LoggedOut
<1> QED
  BY <1>1, <1>4, <1>5, <1>6, <1>7, <1>8, <1>9, UsersChange

(* The same for the sessions it has still to read, *)
LEMMA SessionsGetOn ==
  ASSUME Types, Next, SessionsRefer(sessions, users),
         NEW d \in Request, Reading(d), Reading(d)',
         NEW us \in UserTable, UsersDumped(us, d),
         NEW s \in Session, sessions'[s] # NoSession, NEW u \in User, u = sessions'[s].user
  PROVE  sessions'[s].proof >= us[u].pass \/ Excused(s, u, d, {"cut"})'
<1> DEFINE Goal == sessions'[s].proof >= us[u].pass \/ Excused(s, u, d, {"cut"})'
<1>1. RowsOK /\ d \in InService /\ d \in InService' /\ ~Ops(d, {"password", "restore"})
  BY TypesParts DEF Reading, Dumps, InService, Ops
<1>2. Nil \notin Request
  BY RequestsAssumption
<1>3. ASSUME Excused(s, u, d, {"cut"}) PROVE Excused(s, u, d, {"cut"})'
  BY <1>3, ExcusedStays
<1>4. ASSUME Crossed(d, u) PROVE Excused(s, u, d, {"cut"})'
  BY <1>3, <1>4 DEF Excused
<1>5. ASSUME sessions'[s] = sessions[s] PROVE Goal
  <2>1. sessions[s].proof >= us[u].pass \/ Excused(s, u, d, {"cut"})
    BY <1>5 DEF UsersDumped, Proved
  <2> QED
    BY <1>3, <1>5, <2>1
<1>6. ASSUME NEW q \in Request, LoggedOut(q) PROVE Goal
  <2>1. sessions'[s] = sessions[s]
    BY <1>6 DEF LoggedOut
  <2> QED
    BY <1>5, <2>1
<1>7. ASSUME NEW q \in Request, SessionOpened(q) PROVE Goal
  <2>1. At(q, "login", "insert")
    BY <1>7 DEF SessionOpened
  <2>2. CASE s = q
    <3>1. sessions'[s] = [user |-> req[q].on, proof |-> req[q].seen]
      BY <1>7, <2>2 DEF SessionOpened
    <3>2. u = req[q].on /\ sessions'[s].proof = req[q].seen
      BY <3>1
    <3>3. req[q].seen >= us[u].pass \/ Crossed(q, u) \/ Crossed(d, u)
      BY <2>1, <3>2 DEF UsersDumped, LoginsProved
    <3>4. Crossed(q, u) => Excused(s, u, d, {"cut"})
      BY <2>2 DEF Excused, Carried
    <3> QED
      BY <1>3, <1>4, <3>2, <3>3, <3>4
  <2>3. CASE s # q
    BY <1>5, <1>7, <2>3 DEF SessionOpened
  <2> QED
    BY <2>2, <2>3
<1>8. ASSUME NEW q \in Request, SessionsRevoked(q) PROVE Goal
  <2>1. req[q].on \in User /\ Revoke(req[q].on, req[q].with)
    BY <1>8 DEF SessionsRevoked
  <2>2. CASE sessions[s].user # req[q].on
    <3>1. sessions'[s] = sessions[s]
      BY <1>1, <2>1, <2>2, Revoked
    <3> QED
      BY <1>5, <3>1
  <2>3. CASE sessions[s].user = req[q].on
    <3>1. sessions'[s] = [user |-> req[q].on, proof |-> users[req[q].on].pass]
      BY <1>1, <2>1, <2>3, Revoked
    <3>2. u = req[q].on /\ sessions'[s].proof = users[u].pass
      BY <3>1
    <3>3. sessions[s] # NoSession
      BY <1>1, <2>1, <2>3, SessionRows
    <3>4. IsUser(u)
      BY <2>3, <3>2, <3>3 DEF SessionsRefer, IsUser
    <3>5. users[u].pass >= us[u].pass \/ Crossed(d, u)
      BY <3>4 DEF UsersDumped
    <3> QED
      BY <1>4, <3>2, <3>5
  <2> QED
    BY <2>2, <2>3
<1>9. ASSUME NEW q \in Request, UserDeleted(q) PROVE Goal
  <2>1. req[q].on \in User /\ Revoke(req[q].on, Nil)
    BY <1>9 DEF UserDeleted
  <2>2. sessions'[s] = sessions[s]
    BY <2>1, AllRevoked
  <2> QED
    BY <1>5, <2>2
<1>10. ASSUME NEW q \in InService, Replay(q) PROVE Goal
  <2>1. Crossed(d, u)'
    BY <1>1, <1>10, ReplayCrosses
  <2> QED
    BY <2>1 DEF Excused
<1>11. \A q \in Request : PasswordWritten(q) \/ UserMade(q) => sessions' = sessions
  BY DEF PasswordWritten, UserMade
<1>12. Goal
  BY <1>1, <1>5, <1>6, <1>7, <1>8, <1>9, <1>10, <1>11, UsersChange
<1> QED
  BY <1>12

(* and for what the logins have read. *)
LEMMA LoginsGetOn ==
  ASSUME Types, Next, NEW d \in Request, NEW us \in UserTable, UsersDumped(us, d),
         NEW p \in Request, At(p, "login", "insert")'
  PROVE  \/ req'[p].seen >= us[req'[p].on].pass
         \/ Crossed(p, req[p].on)' /\ req'[p] = req[p]
         \/ \A u : u = req'[p].on => Crossed(d, u)'
<1>1. CASE /\ req'[p] = req[p] /\ At(p, "login", "insert")
  <2>1. \/ req[p].seen >= us[req[p].on].pass
        \/ Crossed(p, req[p].on) \/ Crossed(d, req[p].on)
    BY <1>1 DEF UsersDumped, LoginsProved
  <2>2. ASSUME NEW u, u = req[p].on
        PROVE  (Crossed(p, u) => Crossed(p, u)') /\ (Crossed(d, u) => Crossed(d, u)')
    BY CrossedStays
  <2> QED
    BY <1>1, <2>1, <2>2
<1>2. CASE /\ UNCHANGED <<users, sessions>>
           /\ IsUser(req'[p].on) /\ req'[p].seen = users[req'[p].on].pass
  <2>1. ASSUME NEW u, u = req'[p].on, Crossed(d, u) PROVE Crossed(d, u)'
    BY <2>1, CrossedStays
  <2>2. req'[p].on \in User
    BY TypesStep DEF Types, ArgsOK, At, Ops
  <2>3. users[req'[p].on].pass >= us[req'[p].on].pass \/ Crossed(d, req'[p].on)
    BY <1>2, <2>2 DEF UsersDumped
  <2> QED
    BY <1>2, <2>1, <2>3
<1> QED
  BY <1>1, <1>2, LoginStands

(* All three together. *)
LEMMA UsersDumpedStep ==
  ASSUME Types, Next, SessionsRefer(sessions, users),
         NEW d \in Request, Reading(d), Reading(d)',
         NEW us \in UserTable, RowsMade(us), UsersDumped(us, d)
  PROVE  UsersDumped(us, d)'
<1>1. RowsOK' /\ Nil \notin Request
  BY HandlersGo, RequestsAssumption DEF Types
<1>2. Proved(sessions, us, d, {"cut"})'
  <2>1. ASSUME NEW s \in Session, sessions'[s] # NoSession, NEW u, u = sessions'[s].user
        PROVE  sessions'[s].proof >= us[u].pass \/ Excused(s, u, d, {"cut"})'
    <3>1. sessions'[s] \in SessionRow
      BY <1>1, <2>1 DEF RowsOK, SessionTable
    <3>2. u \in User
      BY <2>1, <3>1 DEF SessionRow
    <3> QED
      BY <2>1, <3>2, SessionsGetOn
  <2> QED
    BY <2>1 DEF Proved
<1>3. LoginsProved(us, d)'
  <2>1. ASSUME NEW p \in Request, At(p, "login", "insert")'
        PROVE  \/ req'[p].seen >= us[req'[p].on].pass
               \/ Crossed(p, req[p].on)' /\ req'[p] = req[p]
               \/ \A u : u = req'[p].on => Crossed(d, u)'
    BY <2>1, LoginsGetOn
  <2> QED
    BY <2>1 DEF LoginsProved
<1>4. \A u \in User : IsUser(u)' => users'[u].pass >= us[u].pass \/ Crossed(d, u)'
  BY UsersGetOn
<1> QED
  BY <1>2, <1>3, <1>4 DEF UsersDumped

(* So a dump's sessions fit its passwords, or are excused. *)
LEMMA PasswordDumpStep ==
  ASSUME Types, Next, SessionInv, SessionsRefer(sessions, users), MadeInv, NEW d \in Request
  PROVE  PasswordDump(d)'
<1> SUFFICES ASSUME IsFile(d)', Reached(file'[d], "users"), NEW us, us = file'[d]["users"].users
             PROVE  /\ Reading(d)' /\ ~Reached(file'[d], "sessions") => UsersDumped(us, d)'
                    /\ Reached(file'[d], "sessions") =>
                         \A ss : ss = file'[d]["sessions"] => Proved(ss, us, d, {"cut"})'
  BY DEF PasswordDump, IsFile, Reached, UsersDumped, Proved, LoginsProved
<1>1. RowsOK /\ FilesOK
  BY TypesParts
<1>2. CASE Reads(d, "users")
  <2>1. FileOK(file[d]) /\ ~Reached(file[d], "sessions") /\ users' = users
    BY <1>1, <1>2 DEF Reads, FilesOK, FileOK, Reading, accountVars
  <2>2. file'[d]["users"].users = users /\ ~Reached(file'[d], "sessions")
    BY <1>1, <1>2, <2>1, RowsOfTable DEF Reads, Reached, TableName
  <2>3. UsersDumped(users, d)'
    BY <1>2, UsersRead
  <2>4. UsersDumped(us, d)'
    BY <2>1, <2>2, <2>3 DEF UsersDumped, Proved, LoginsProved
  <2> QED
    BY <2>2, <2>4
<1>3. CASE ~Reads(d, "users")
  <2>1. IsFile(d) /\ Reached(file[d], "users") /\ file'[d]["users"] = file[d]["users"]
        /\ (Reading(d)' => Reading(d))
    BY <1>3, Dumped DEF TableName
  <2>2. us = file[d]["users"].users
    BY <2>1
  <2>3. FileOK(file[d])
    BY <1>1, <2>1 DEF FilesOK
  <2>4. file[d]["users"] \in [users: UserTable, apiToken: BOOLEAN, codes: CodeTable]
    BY <2>1, <2>3 DEF FileOK
  <2>5. us \in UserTable
    BY <2>2, <2>4
  <2>6. RowsMade(us)
    BY <2>1, <2>2 DEF MadeInv
  <2>7. Reading(d) /\ ~Reached(file[d], "sessions") => UsersDumped(us, d)
    BY <2>1, <2>2 DEF SessionInv, PasswordDump
  <2>8. ASSUME Reached(file[d], "sessions") PROVE Reached(file'[d], "sessions")
    BY <2>1, <2>8, TypesParts, DumpsStep, EmptyFileIs DEF Reads, Reached, TableName
  <2>9. ASSUME Reading(d)', ~Reached(file'[d], "sessions") PROVE UsersDumped(us, d)'
    BY <2>1, <2>5, <2>6, <2>7, <2>8, <2>9, UsersDumpedStep
  <2>10. ASSUME Reached(file'[d], "sessions"), NEW ss, ss = file'[d]["sessions"]
         PROVE  Proved(ss, us, d, {"cut"})'
    <3>1. Proved(ss, us, d, {"cut"})
      <4>1. CASE Reached(file[d], "sessions") /\ file'[d]["sessions"] = file[d]["sessions"]
        BY <2>1, <2>2, <2>10, <4>1 DEF SessionInv, PasswordDump
      <4>2. CASE Reads(d, "sessions") /\ file'[d]["sessions"] = Rows("sessions")
        <5>1. Reading(d) /\ ~Reached(file[d], "sessions") /\ ss = sessions
          BY <1>1, <2>10, <4>2, RowsOfTable DEF Reads
        <5> QED
          BY <2>7, <5>1 DEF UsersDumped
      <4> QED
        BY <2>10, <4>1, <4>2, Dumped DEF TableName
    <3>2. ASSUME NEW s \in Session, ss[s] # NoSession, NEW u, u = ss[s].user
          PROVE  ss[s].proof >= us[u].pass \/ Excused(s, u, d, {"cut"})'
      <4>1. ss[s].proof >= us[u].pass \/ Excused(s, u, d, {"cut"})
        BY <3>1, <3>2 DEF Proved
      <4>2. Excused(s, u, d, {"cut"}) => Excused(s, u, d, {"cut"})'
        BY ExcusedStays
      <4> QED
        BY <4>1, <4>2
    <3> QED
      BY <3>2 DEF Proved
  <2> QED
    BY <2>9, <2>10
<1> QED
  BY <1>2, <1>3

(* The first sessions are as old as their passwords. *)
LEMMA SessionInit == Init => SessionInv
<1> SUFFICES ASSUME Init PROVE SessionInv
  OBVIOUS
<1>1. /\ \A d \in Request : ~IsFile(d)
      /\ \A p \in Request : ~At(p, "login", "insert")
  <2>1. \A d \in Request : ~IsFile(d)
    BY DEF Init, IsFile
  <2>2. \A p \in Request : req[p] = Unserved
    BY DEF Init, RequestsInit, Unserved
  <2>3. \A p \in Request : req[p].op = "none"
    BY <2>2 DEF Unserved
  <2> QED
    BY <2>1, <2>3 DEF At
<1>2. ASSUME NEW s \in Session, sessions[s] # NoSession
      PROVE  sessions[s].proof >= users[sessions[s].user].pass
  <2>1. s \in Admins /\ sessions[s] = [user |-> s, proof |-> 0]
    BY <1>2 DEF Init, AccountsInit
  <2>2. sessions[s].user = s /\ sessions[s].proof = 0
    BY <2>1
  <2>3. users[s] = [name |-> NameOf[s], role |-> "admin", pass |-> 0]
    BY <2>1 DEF Init, AccountsInit, User
  <2>4. users[s].pass = 0
    BY <2>3
  <2> QED
    BY <2>2, <2>4
<1> QED
  BY <1>1, <1>2 DEF SessionInv, Proved, LoginsProved, PasswordDump

(* The invariant of the sessions is inductive, with the foreign key and   *)
(* the rows requests made.                                                *)
LEMMA SessionStep ==
  ASSUME Types, Next, SessionInv, SessionsRefer(sessions, users), MadeInv
  PROVE  SessionInv'
<1>1. RowsOK' /\ Nil \notin Request
  BY HandlersGo, RequestsAssumption DEF Types
<1>2. Proved(sessions, users, Nil, {"revoke", "cut"})'
  <2>1. ASSUME NEW s \in Session, sessions'[s] # NoSession, NEW u, u = sessions'[s].user
        PROVE  \/ sessions'[s].proof >= users'[u].pass
               \/ Excused(s, u, Nil, {"revoke", "cut"})'
    <3>1. sessions'[s] \in SessionRow
      BY <1>1, <2>1 DEF RowsOK, SessionTable
    <3>2. u \in User
      BY <2>1, <3>1 DEF SessionRow
    <3> QED
      BY <2>1, <3>2, SessionsProvedStep
  <2> QED
    BY <2>1 DEF Proved
<1>3. LoginsProved(users, Nil)'
  <2>1. ASSUME NEW p \in Request, At(p, "login", "insert")'
        PROVE  req'[p].seen >= users'[req'[p].on].pass \/ Crossed(p, req[p].on)'
    BY <2>1, LoginsProvedStep
  <2> QED
    BY <2>1 DEF LoginsProved
<1>4. \A d \in Request : PasswordDump(d)'
  BY PasswordDumpStep
<1> QED
  BY <1>2, <1>3, <1>4 DEF SessionInv

(* Theorem (SessionsFollowPassword): a session that is older than its      *)
(* owner's password is one that the change has still to end, or was cut    *)
(* off from ending, or that came from a login or a dump which was in       *)
(* service together with the change, or with a restore.                    *)
THEOREM SessionsFollow == Spec => []SessionsFollowPassword
<1> DEFINE Inv == Types /\ ReferInv /\ MadeInv /\ SessionInv
<1>1. Init => Inv
  BY InitTypes, ReferInit, MadeInit, SessionInit
<1>2. Inv /\ [Next]_vars => Inv'
  <2> SUFFICES ASSUME Inv, [Next]_vars PROVE Inv'
    OBVIOUS
  <2>1. CASE Next
    BY <2>1, TypesStep, ReferStep, MadeStep, SessionStep DEF ReferInv
  <2>2. CASE UNCHANGED vars
    <3>1. UNCHANGED <<req, users, sessions, file, restored>>
      BY <2>2 DEF vars, accountVars, backupVars
    <3>2. MadeInv'
      BY <3>1 DEF MadeInv, RowsMade, Ops, IsFile, Reached
    <3>3. \A p \in Request : \A u : Crossed(p, u)' <=> Crossed(p, u)
      BY <3>1 DEF Crossed, Repasses, Ops, Overlap
    <3>4. SessionInv'
      <4>1. ASSUME NEW p \in Request, NEW u PROVE Crossed(p, u)' <=> Crossed(p, u)
        BY <3>3
      <4>2. ASSUME NEW s, NEW u, NEW d, NEW pcs PROVE Excused(s, u, d, pcs)' <=> Excused(s, u, d, pcs)
        BY <3>1, <3>3 DEF Excused, Carried, LeftOpen, RestoredDump, Ops
      <4> QED
        BY <3>1, <3>3, <4>2 DEF SessionInv, Proved, LoginsProved, PasswordDump, UsersDumped,
           IsFile, Reached, Reading, Dumps, At, IsUser
    <3> QED
      BY <3>2, <3>4, TypesStep, ReferStep
  <2> QED
    BY <2>1, <2>2
<1>3. Inv => SessionsFollowPassword
  <2> SUFFICES ASSUME Types, SessionInv, NEW s \in Session, NEW u, u = sessions[s].user,
                      u # Nil, sessions[s].proof < users[u].pass
               PROVE  \/ \E q \in Request :
                           /\ Ops(q, {"password"}) /\ req[q].on = u
                           /\ req[q].pc \in {"revoke", "cut"}
                      \/ \E p, q \in Request :
                           Repasses(q, u) /\ Overlap(p, q) /\ (p = s \/ RestoredDump(p))
    BY DEF SessionsFollowPassword
  <2>1. u \in User /\ sessions[s] # NoSession /\ sessions[s].proof \in Nat /\ users[u].pass \in Nat
    BY TypesParts, SessionRows, UserRows
  <2>2. ~(sessions[s].proof >= users[u].pass)
    BY <2>1
  <2>3. Excused(s, u, Nil, {"revoke", "cut"})
    BY <2>1, <2>2 DEF SessionInv, Proved
  <2> QED
    BY <2>3, RequestsAssumption DEF Excused, Carried, LeftOpen, Crossed
<1> HIDE DEF Inv
<1> QED
  BY <1>1, <1>2, <1>3, PTL DEF Spec
=============================================================================
