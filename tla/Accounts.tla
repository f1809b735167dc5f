------------------------------ MODULE Accounts ------------------------------
(***************************************************************************)
(* The accounts of the management plane, their sessions and the API token  *)
(* (api/auth_handlers.go, handlers_users.go, tokens.go; the users,         *)
(* sessions and api_tokens tables of store/store_ext.go).                  *)
(*                                                                         *)
(* A password is the number of times it was changed.  A session's proof is *)
(* the password its holder showed last.  A row is named by the request     *)
(* that inserted it; one API token of admin scope stands for all.  A       *)
(* handler's authentication is one step with the first row it reads.  Left *)
(* out are read tokens, which change nothing, the expiry of sessions,      *)
(* which is a logout nobody asked for, and the login throttle, which makes *)
(* a login not come.                                                       *)
(***************************************************************************)
EXTENDS Requests, FiniteSets

CONSTANTS
  Admins,      \* the accounts there are at first, logged in, administrators
  NameOf,      \* their names, which are the names a new account may have
  Configured,  \* the name ENCODE_ADMIN_USERNAME sets
  ForceReset,  \* ENCODE_ADMIN_FORCE_PASSWORD is set
  Seeded       \* names the row that a starting process inserts

ASSUME AccountsAssumption ==
  /\ DOMAIN NameOf = Admins
  /\ (\A u \in Admins : NameOf[u] # Nil) /\ \E u \in Admins : NameOf[u] = Configured
  /\ Admins \cap Request = {} /\ {Nil, Seeded} \cap (Admins \cup Request) = {}
  /\ Nil # Seeded /\ ForceReset \in BOOLEAN

VARIABLES
  users,     \* the users table
  sessions,  \* the sessions table
  apiToken   \* whether the API token exists

accountVars == <<users, sessions, apiToken>>

User == Admins \cup Request \cup {Seeded}
Session == Admins \cup Request     \* an administrator's first, one per login
Names == {NameOf[u] : u \in Admins}

NoUser == [name |-> Nil, role |-> "none", pass |-> 0]
NoSession == [user |-> Nil, proof |-> 0]

AccountsTypeOK ==
  /\ users \in [User -> [name: Names \cup {Nil}, role: {"none", "admin", "viewer"},
                         pass: Nat]]
  /\ sessions \in [Session -> [user: User \cup {Nil}, proof: Nat]]
  /\ apiToken \in BOOLEAN

AccountsInit ==
  /\ users = [u \in User |->
       IF u \in Admins THEN [name |-> NameOf[u], role |-> "admin", pass |-> 0] ELSE NoUser]
  /\ sessions = [s \in Session |->
       IF s \in Admins THEN [user |-> s, proof |-> 0] ELSE NoSession]
  /\ apiToken = FALSE

IsUser(u) == u \in User /\ users[u] # NoUser
Administrators == {u \in User : users[u].role = "admin"}
Taken(name) == \E u \in User : users[u].name = name

(* authenticateBearer and withAdmin: the session of an administrator, or   *)
(* Nil for the API token.                                                  *)
Credential ==
  {s \in Session : sessions[s].user \in Administrators}
  \cup (IF apiToken THEN {Nil} ELSE {})

Authorized == Credential # {}

(* DeleteUserSessions: all of u's but the one to keep, whose holder knows  *)
(* the new password.                                                       *)
Revoke(u, keep) ==
  sessions' = [s \in Session |->
    IF sessions[s].user # u THEN sessions[s]
    ELSE IF s = keep THEN [sessions[s] EXCEPT !.proof = users[u].pass] ELSE NoSession]

SetPassword(u) == [users EXCEPT ![u].pass = @ + 1]

----------------------------------------------------------------------------
(* What a handler reads first; some are done with one statement.           *)

(* handleLogin: the password is compared with the hash that was read.      *)
LoginArrives(q) ==
  \E u \in User : IsUser(u) /\ Begin(q, "login", "insert", u, Nil, users[u].pass)

(* handleChangePassword, by a session, which it keeps;                     *)
(* handleResetUserPassword, by anybody authorized.                         *)
ChangeArrives(q) ==
  \E s \in Credential \ {Nil} :
    Begin(q, "password", "write", sessions[s].user, s, Nil)

ResetArrives(q) ==
  /\ Authorized
  /\ \E u \in User : IsUser(u) /\ Begin(q, "password", "write", u, Nil, Nil)

(* handleCreateUser: the name is free. *)
CreateUserArrives(q) ==
  /\ Authorized
  /\ \E name \in Names, role \in {"admin", "viewer"} :
       ~Taken(name) /\ Begin(q, "createUser", "insert", name, role, Nil)

(* handleDeleteUser: nobody deletes himself; administrators are counted.   *)
DeleteUserArrives(q) ==
  \E s \in Credential, u \in User :
    /\ IsUser(u)
    /\ s # Nil => sessions[s].user # u
    /\ Begin(q, "deleteUser",
             IF u \in Administrators THEN "count" ELSE "delete", u, users[u].role, Nil)

(* Handlers of one statement: handleLogout, and handleCreateAPIToken and   *)
(* handleDeleteAPIToken, which are refused to the token itself.            *)
Logout(q) ==
  \E s \in Session :
    /\ sessions[s].user # Nil
    /\ Begin(q, "logout", "end", s, Nil, Nil)
    /\ sessions' = [sessions EXCEPT ![s] = NoSession]
    /\ UNCHANGED <<users, apiToken>>

FlipToken(q) ==
  /\ Credential \ {Nil} # {}
  /\ Begin(q, "apiToken", "end", Nil, Nil, Nil)
  /\ apiToken' = ~apiToken
  /\ UNCHANGED <<users, sessions>>

AccountsArrive(q) ==
  \/ /\ \/ LoginArrives(q) \/ ChangeArrives(q) \/ ResetArrives(q)
        \/ CreateUserArrives(q) \/ DeleteUserArrives(q)
     /\ UNCHANGED accountVars
  \/ Logout(q) \/ FlipToken(q)

----------------------------------------------------------------------------
(* What it does then.                                                      *)

(* CreateSession; the foreign key refuses a user who is gone. *)
InsertSession(q) ==
  LET u == req[q].on IN
  /\ At(q, "login", "insert")
  /\ sessions' = IF IsUser(u)
                 THEN [sessions EXCEPT ![q] = [user |-> u, proof |-> req[q].seen]]
                 ELSE sessions
  /\ End(q)
  /\ UNCHANGED <<users, apiToken>>

(* UpdateUserPassword, then DeleteUserSessions: two statements.            *)
WritePassword(q) ==
  LET u == req[q].on IN
  /\ At(q, "password", "write")
  /\ users' = IF IsUser(u) THEN SetPassword(u) ELSE users
  /\ Goto(q, "revoke")
  /\ UNCHANGED <<sessions, apiToken>>

(* Mutant: an administrator's reset keeps the sessions of administrators.  *)
RevokeSparing(q) ==
  /\ At(q, "password", "revoke")
  /\ IF req[q].on \in Admins THEN UNCHANGED sessions ELSE Revoke(req[q].on, req[q].with)
  /\ End(q)
  /\ UNCHANGED <<users, apiToken>>

RevokeSessions(q) ==
  /\ At(q, "password", "revoke")
  /\ Revoke(req[q].on, req[q].with)
  /\ End(q)
  /\ UNCHANGED <<users, apiToken>>

(* CreateUser: the UNIQUE constraint on the name has the last word. *)
InsertUser(q) ==
  /\ At(q, "createUser", "insert")
  /\ users' = IF Taken(req[q].on) THEN users
              ELSE [users EXCEPT ![q] = [name |-> req[q].on, role |-> req[q].with, pass |-> 0]]
  /\ End(q)
  /\ UNCHANGED <<sessions, apiToken>>

(* Mutant: the last administrator passes the count. *)
CountAdminsOffByOne(q) ==
  /\ At(q, "deleteUser", "count")
  /\ Goto(q, IF Cardinality(Administrators) < 1 THEN "end" ELSE "delete")
  /\ UNCHANGED accountVars

(* CountUsersByRole: the last administrator stays. *)
CountAdmins(q) ==
  /\ At(q, "deleteUser", "count")
  /\ Goto(q, IF Cardinality(Administrators) <= 1 THEN "end" ELSE "delete")
  /\ UNCHANGED accountVars

(* DeleteUser: ON DELETE CASCADE takes the sessions along. *)
DeleteUser(q) ==
  LET u == req[q].on IN
  /\ At(q, "deleteUser", "delete")
  /\ users' = [users EXCEPT ![u] = NoUser]
  /\ Revoke(u, Nil)
  /\ End(q)
  /\ UNCHANGED apiToken

AccountsStep(q) ==
  \/ InsertSession(q) \/ WritePassword(q) \/ RevokeSessions(q)
  \/ InsertUser(q) \/ CountAdmins(q) \/ DeleteUser(q)

----------------------------------------------------------------------------
(* Every process starts with seedAdminUser: the configured account is made *)
(* if there is none of that name, whatever its role; with the recovery     *)
(* flag an existing one gets the configured password and loses its         *)
(* sessions.                                                               *)
AccountsBoot ==
  LET there == {u \in User : users[u].name = Configured} IN
  /\ UNCHANGED apiToken
  /\ CASE there = {} ->
            /\ users' = [users EXCEPT ![Seeded] =
                           [name |-> Configured, role |-> "admin", pass |-> 0]]
            /\ UNCHANGED sessions
       [] there # {} /\ ForceReset ->
            \E u \in there : users' = SetPassword(u) /\ Revoke(u, Nil)
       [] OTHER -> UNCHANGED <<users, sessions>>
=============================================================================
