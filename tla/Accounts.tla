------------------------------ MODULE Accounts ------------------------------
(***************************************************************************)
(* Users, sessions and roles of Control: internal/control/store.go,        *)
(* admin_console.go, admin_view.go, owner.go and the routes of server.go   *)
(* that lead to them.                                                      *)
(*                                                                         *)
(* A request first authenticates its token and keeps the answer, the       *)
(* actor, to its end. Its transaction then reads, decides and writes in    *)
(* statements of the READ COMMITTED level, without a lock between them, so *)
(* that other requests commit in between. The writes of a transaction      *)
(* appear at its commit. A request that is refused changes nothing.        *)
(*                                                                         *)
(* Passwords are counted, not compared: epoch is the number of times that  *)
(* the password of a user was replaced or all its sessions were ended.     *)
(* Left out is force_password_change, which no code of Control reads.      *)
(***************************************************************************)
EXTENDS Integers, FiniteSets

CONSTANTS
  Name,         \* user names
  Token,        \* bearer tokens, each issued at most once
  Request,      \* requests that may be in progress at the same time
  Founders,     \* the admins of an installation that is in use already
  Members,      \* and its users
  NoName,
  MaxRequests   \* bound on the transactions of a behaviour

ASSUME AccountsAssumption ==
  /\ Founders \subseteq Name /\ Members \subseteq Name \ Founders
  /\ NoName \notin Name /\ MaxRequests \in Nat

VARIABLES
  app_users,      \* [Name -> row]
  user_sessions,  \* [Token -> row]
  req,            \* [Request -> the locals of a request]
  count,          \* transactions begun, for MaxRequests
  raced           \* history: the sessions that had cause to outlive their epoch

acvars == <<app_users, user_sessions, req, count, raced>>

-----------------------------------------------------------------------------

Roles == {"admin", "user"}
NoUser == [role |-> "user", status |-> "absent", epoch |-> 0, seeded |-> 0]
User == [role : Roles, status : {"active", "revoked", "absent"},
         epoch : 0..MaxRequests, seeded : 0..2]

\* A session is open until it is revoked or its expires_at has passed;
\* either way it stays in the table and is good for nothing.
Unissued == [user |-> NoName, state |-> "unissued", view |-> NoName, epoch |-> 0]
Session == [user : Name \cup {NoName}, state : {"unissued", "open", "ended"},
            view : Name \cup {NoName}, epoch : 0..MaxRequests]

\* The locals of a request: its token where the transaction uses it again,
\* the user it is about, the role and status asked for ("" when not given),
\* before, the row of that user as it was read, and stale: app_users has
\* changed since then.
Columns(row) == [role |-> row.role, status |-> row.status, epoch |-> row.epoch]
Local(op, at, token, target, role, status) ==
  [op |-> op, at |-> at, token |-> token, target |-> target,
   role |-> role, status |-> status, before |-> Columns(NoUser), stale |-> FALSE]
Idle == Local("none", "idle", NoName, NoName, "", "")

Exists(u) == app_users[u].status # "absent"
ActiveAdmins == {u \in Name : app_users[u].role = "admin" /\ app_users[u].status = "active"}
Open(t) == user_sessions[t].state = "open"

-----------------------------------------------------------------------------
(* Tokens *)

\* userSummary finds only an active user.
UserSummary(u) == app_users[u].status = "active"

\* AuthenticateToken, called by requireActor: an admin's session that views a
\* user authenticates only while that user is active.
AuthenticateToken(t) ==
  LET s == user_sessions[t] IN
  /\ Open(t)
  /\ app_users[s.user].status = "active"
  /\ app_users[s.user].role = "admin" /\ s.view # NoName => UserSummary(s.view)

RequireAdmin(t) ==
  AuthenticateToken(t) /\ app_users[user_sessions[t].user].role = "admin"

Become(r, local) == req' = [req EXCEPT ![r] = local]
Refuse(r) == Become(r, Idle) /\ UNCHANGED <<app_users, user_sessions, count, raced>>

\* A request gets past requireActor and requireAdmin and the checks of its
\* own input, and is about to begin a transaction. "read" begins with getUser.
Begin(r, local) ==
  /\ req[r].at = "idle" /\ count < MaxRequests
  /\ count' = count + 1
  /\ Become(r, local)
  /\ UNCHANGED <<app_users, user_sessions, raced>>

-----------------------------------------------------------------------------
(* The routes *)

HandleMePassword(r, t) ==
  /\ AuthenticateToken(t)
  /\ LET u == user_sessions[t].user IN
     Begin(r, Local("change_own", "read", t, u, "", ""))

HandleAdminViewUser(r, t, u) ==
  /\ RequireAdmin(t)
  /\ Begin(r, Local("view", "read", t, u, "", ""))

HandleUsers(r, t, u, role) ==
  /\ RequireAdmin(t)
  /\ Begin(r, Local("create", "commit", NoName, u, role, ""))

HandleUserByID(r, t, u) ==
  /\ RequireAdmin(t)
  /\ \/ \E op \in {"revoke", "reset", "end_sessions"} :
          Begin(r, Local(op, "read", NoName, u, "", ""))
     \/ \E role \in Roles \cup {""}, status \in {"active", "revoked", ""} :
          Begin(r, Local("update", "read", NoName, u, role, status))

\* Authenticate reads the row with its hash and compares the password ...
HandleLogin(r, u) ==
  /\ req[r].at = "idle"
  /\ app_users[u].status = "active"
  /\ Become(r, [Local("login", "commit", NoName, u, "", "") EXCEPT !.before = Columns(app_users[u])])
  /\ UNCHANGED <<app_users, user_sessions, count, raced>>

\* ... and inserts the session later, in a transaction that looks at the
\* user no more.
AuthenticateInsert(r, t) ==
  LET u == req[r].target IN
  /\ req[r].op = "login" /\ user_sessions[t].state = "unissued"
  /\ user_sessions' = [user_sessions EXCEPT ![t] =
       [user |-> u, state |-> "open", view |-> NoName, epoch |-> req[r].before.epoch]]
  /\ raced' = IF app_users[u].epoch # req[r].before.epoch THEN raced \cup {t} ELSE raced
  /\ Become(r, Idle)
  /\ UNCHANGED <<app_users, count>>

\* RevokeToken, which asks for no authentication. The session also ends by
\* itself, when its expires_at has passed.
HandleLogout(t) ==
  /\ Open(t)
  /\ user_sessions' = [user_sessions EXCEPT ![t].state = "ended"]
  /\ UNCHANGED <<app_users, req, count, raced>>

-----------------------------------------------------------------------------
(* The transactions, up to their writes *)

\* The status and role that RevokeUser and UpdateUser are about to write.
\* UpdateUser writes back what it read where the request gives nothing.
NewRole(x) == IF x.op = "update" /\ x.role # "" THEN x.role ELSE x.before.role

\* Faulty variant: a status that is not given becomes active.
StatusOrActive(x) == CASE x.op = "revoke" -> "revoked"
                       [] x.op = "update" /\ x.status = "" -> "active"
                       [] OTHER -> x.status

NewStatus(x) == CASE x.op = "revoke" -> "revoked"
                  [] x.op = "update" /\ x.status # "" -> x.status
                  [] OTHER -> x.before.status

\* getUser. ViewUserConfig wants an active user here. ChangeOwnPassword has
\* compared the current password just before; nothing checks it again.
GetUser(r) ==
  LET x == req[r]
      u == app_users[x.target]
      next == IF x.op \in {"revoke", "update"} THEN "check" ELSE "commit" IN
  /\ x.at = "read"
  /\ IF Exists(x.target) /\ (x.op = "view" => u.status = "active" /\ u.role = "user")
     THEN /\ Become(r, [x EXCEPT !.at = next, !.before = Columns(u)])
          /\ UNCHANGED <<app_users, user_sessions, count, raced>>
     ELSE Refuse(r)

\* Faulty variant: only the loss of the role is looked at, not of the status.
EnsureAdminCounted(x) ==
  x.before.role = "admin" /\ NewRole(x) # "admin" => ActiveAdmins \ {x.target} # {}

\* ensureActiveAdminRemains counts the other active admins.
EnsureActiveAdminRemains(x) ==
  \/ x.before.role # "admin"
  \/ NewRole(x) = "admin" /\ NewStatus(x) = "active"
  \/ ActiveAdmins \ {x.target} # {}

Check(r) ==
  /\ req[r].at = "check"
  /\ IF EnsureActiveAdminRemains(req[r])
     THEN /\ Become(r, [req[r] EXCEPT !.at = "commit"])
          /\ UNCHANGED <<app_users, user_sessions, count, raced>>
     ELSE Refuse(r)

-----------------------------------------------------------------------------
(* The writes *)

\* UPDATE user_sessions SET revoked_at ... for the sessions S.
End(S) == [t \in Token |-> IF t \in S /\ Open(t)
                           THEN [user_sessions[t] EXCEPT !.state = "ended"]
                           ELSE user_sessions[t]]
SessionsOf(u) == {t \in Token : user_sessions[t].user = u}

\* seedDefaultUDPSourcePortBlocks inserts its rows under new ids, so that the
\* ON CONFLICT (id) never applies. 2 stands for 2 and more.
Seed(row) == IF row.seeded = 2 THEN row ELSE [row EXCEPT !.seeded = @ + 1]

\* The commit of request r: row is the new row of the target. Every other
\* request that has read app_users by now has read a stale value.
Write(r, row, sessions, causes) ==
  LET x == req[r] IN
  /\ app_users' = [app_users EXCEPT ![x.target] = row]
  /\ user_sessions' = sessions
  /\ raced' = raced \cup causes
  /\ req' = [q \in Request |->
       IF q = r THEN Idle
       ELSE IF req[q].at \in {"check", "commit"} /\ row # app_users[x.target]
            THEN [req[q] EXCEPT !.stale = TRUE] ELSE req[q]]
  /\ UNCHANGED count

Bump(row) == [row EXCEPT !.epoch = @ + 1]

RevokeUser(r) ==
  LET x == req[r] IN
  /\ x.op = "revoke" /\ x.at = "commit"
  /\ Write(r, [Bump(app_users[x.target]) EXCEPT !.status = "revoked"],
           End(SessionsOf(x.target)), {})

\* The sessions that view the user lose their view when its role is not admin.
ClearViews(sessions, u) ==
  [t \in Token |-> IF sessions[t].view = u THEN [sessions[t] EXCEPT !.view = NoName]
                   ELSE sessions[t]]

\* Faulty variant: only a user that was revoked gets its blocks.
SeedRevived(x, row) ==
  IF NewRole(x) = "user" /\ x.before.status = "revoked" THEN Seed(row) ELSE row

SeedUser(x, row) == IF NewRole(x) = "user" THEN Seed(row) ELSE row

UpdateUser(r) ==
  LET x == req[r]
      u == x.target
      row == [app_users[u] EXCEPT !.role = NewRole(x), !.status = NewStatus(x)]
      ended == NewStatus(x) # "active"
      sessions == IF ended THEN End(SessionsOf(u)) ELSE user_sessions IN
  /\ x.op = "update" /\ x.at = "commit"
  /\ Write(r, SeedUser(x, IF ended THEN Bump(row) ELSE row),
           IF NewRole(x) = "admin" THEN sessions ELSE ClearViews(sessions, u), {})

\* Faulty variant: a new password leaves the sessions open.
ResetLeavesSessions(r) ==
  LET x == req[r] IN
  /\ x.op \in {"reset", "end_sessions"} /\ x.at = "commit"
  /\ Write(r, Bump(app_users[x.target]),
           IF x.op = "reset" THEN user_sessions ELSE End(SessionsOf(x.target)), {})

\* ResetUserPassword and RevokeUserSessions: only the first replaces the
\* password, both end every session.
ResetUserPassword(r) ==
  LET x == req[r] IN
  /\ x.op \in {"reset", "end_sessions"} /\ x.at = "commit"
  /\ Write(r, Bump(app_users[x.target]), End(SessionsOf(x.target)), {})

\* ChangeOwnPassword ends the other sessions; the one it came through goes on.
ChangeOwnPassword(r) ==
  LET x == req[r]
      ended == End(SessionsOf(x.target) \ {x.token})
      new == app_users[x.target].epoch + 1 IN
  /\ x.op = "change_own" /\ x.at = "commit"
  /\ Write(r, Bump(app_users[x.target]), [ended EXCEPT ![x.token].epoch = new], {})

\* ensureUserIdentity inserts the user, or gives the one of that name a new
\* password and role and makes it active; its sessions are left alone.
CreateUser(r) ==
  LET x == req[r]
      u == x.target
      row == [app_users[u] EXCEPT !.role = x.role, !.status = "active",
                                  !.epoch = IF Exists(u) THEN @ + 1 ELSE 0] IN
  /\ x.op = "create"
  /\ Write(r, IF x.role = "user" THEN Seed(row) ELSE row, user_sessions,
           {t \in SessionsOf(u) : Open(t)})

\* ViewUserConfig changes the session only, and only while it is open.
ViewUserConfig(r) ==
  LET x == req[r] IN
  /\ x.op = "view" /\ x.at = "commit"
  /\ IF Open(x.token)
     THEN /\ user_sessions' = [user_sessions EXCEPT ![x.token].view = x.target]
          /\ Become(r, Idle)
          /\ UNCHANGED <<app_users, count, raced>>
     ELSE Refuse(r)

\* control-admin's BootstrapAdmin, which needs no session: it counts ...
BootstrapAdmin(r, u) ==
  /\ ActiveAdmins = {}
  /\ Begin(r, Local("bootstrap", "commit", NoName, u, "", ""))

\* ... and inserts, unless the name is taken.
BootstrapInsert(r) ==
  LET x == req[r] IN
  /\ x.op = "bootstrap"
  /\ IF Exists(x.target) THEN Refuse(r)
     ELSE Write(r, [NoUser EXCEPT !.role = "admin", !.status = "active"], user_sessions, {})

-----------------------------------------------------------------------------

\* An empty installation, or one that is in use, each founder logged in.
AcInit ==
  /\ \/ app_users = [u \in Name |-> NoUser] /\ user_sessions = [t \in Token |-> Unissued]
     \/ /\ app_users = [u \in Name |->
             IF u \in Founders THEN [NoUser EXCEPT !.role = "admin", !.status = "active"]
             ELSE IF u \in Members THEN [NoUser EXCEPT !.status = "active", !.seeded = 1]
             ELSE NoUser]
        /\ \E owner \in [Token -> Founders \cup {NoName}] :
             /\ \A f \in Founders : \E t \in Token : owner[t] = f
             /\ \A s, t \in Token : owner[s] = owner[t] /\ s # t => owner[s] = NoName
             /\ user_sessions = [t \in Token |->
                  IF owner[t] = NoName THEN Unissued
                  ELSE [Unissued EXCEPT !.user = owner[t], !.state = "open"]]
  /\ req = [r \in Request |-> Idle]
  /\ count = 0 /\ raced = {}

Route(r) ==
  \/ \E t \in Token : HandleMePassword(r, t)
  \/ \E t \in Token, u \in Name : HandleAdminViewUser(r, t, u) \/ HandleUserByID(r, t, u)
  \/ \E t \in Token, u \in Name, role \in Roles : HandleUsers(r, t, u, role)
  \/ \E u \in Name : HandleLogin(r, u) \/ BootstrapAdmin(r, u)

Transact(r) ==
  \/ GetUser(r) \/ Check(r)
  \/ RevokeUser(r) \/ UpdateUser(r) \/ ResetUserPassword(r) \/ ChangeOwnPassword(r)
  \/ CreateUser(r) \/ ViewUserConfig(r) \/ BootstrapInsert(r)
  \/ \E t \in Token : AuthenticateInsert(r, t)

AcNext ==
  \/ \E r \in Request : Route(r) \/ Transact(r)
  \/ \E t \in Token : HandleLogout(t)

AcSpec == AcInit /\ [][AcNext]_acvars

-----------------------------------------------------------------------------
(* Properties *)

\* The rows keep their types; an open session has a user that exists. However
\* a user came to the role "user" (created, recreated, downgraded, or updated
\* from stale reads), its default UDP source port blocks are there.
AcTypeOK ==
  /\ app_users \in [Name -> User]
  /\ user_sessions \in [Token -> Session]
  /\ \A t \in Token : Open(t) => user_sessions[t].user \in Name /\ Exists(user_sessions[t].user)
  /\ \A u \in Name : Exists(u) /\ app_users[u].role = "user" => app_users[u].seeded > 0
  /\ count \in 0..MaxRequests /\ raced \subseteq Token

Commits(r) == req[r].at = "commit" /\ req'[r].at = "idle"

\* ensureActiveAdminRemains keeps the last active admin, except that two
\* transactions which both counted before either wrote may remove one admin
\* each, and that CreateUser, which does not call it, may be given the name of
\* the last admin.
LastAdminKept ==
  [][ActiveAdmins # {} /\ ActiveAdmins' = {} =>
       \E r \in Request : Commits(r) /\ (req[r].stale \/ req[r].op = "create")]_acvars

\* What docs/Control-Api.md promises without those exceptions: revoking or
\* downgrading the last active admin is prevented.
LastAdminPrevented == [][ActiveAdmins # {} => ActiveAdmins' # {}]_acvars

\* A revoked user becomes active again only by a request that asks for it, or
\* by an UpdateUser that had read the row before it was revoked and writes the
\* old status back.
RevocationSticks ==
  [][\A u \in Name : app_users[u].status = "revoked" /\ app_users'[u].status = "active" =>
       \E r \in Request :
         /\ Commits(r) /\ req[r].target = u
         /\ \/ req[r].op = "create"
            \/ req[r].op = "update" /\ (req[r].status = "active" \/ req[r].stale)]_acvars

\* No session outlives the password it was opened with, or a revocation of the
\* user's sessions, except one whose login had compared the password before
\* and inserts the session after, and those open when CreateUser is used to
\* give an existing user a new password.
SessionsFollowPassword ==
  \A t \in Token : Open(t) =>
    t \in raced \/ user_sessions[t].epoch = app_users[user_sessions[t].user].epoch
=============================================================================
