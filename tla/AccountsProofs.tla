--------------------------- MODULE AccountsProofs ---------------------------
(***************************************************************************)
(* Proofs about users, sessions and roles, for any number of users, tokens *)
(* and requests. A request whose reads are not out of date has in its      *)
(* hands what the tables say, and has counted the admins that there are;   *)
(* one that is out of date is marked as stale: AccountsInv.                *)
(***************************************************************************)
EXTENDS Accounts, FiniteSetTheorems, TLAPS

Operations == {"none", "login", "change_own", "view", "create", "revoke", "reset",
               "end_sessions", "update", "bootstrap"}
Before == [role : Roles, status : {"active", "revoked", "absent"}, epoch : 0..MaxRequests]
Locals ==
  [op : Operations, at : {"idle", "read", "check", "commit"},
   token : Token \cup {NoName}, target : Name \cup {NoName},
   role : Roles \cup {""}, status : {"active", "revoked", ""},
   before : Before, stale : BOOLEAN]

RowTypes ==
  /\ app_users \in [Name -> User]
  /\ user_sessions \in [Token -> Session]
  /\ count \in 0..MaxRequests /\ raced \subseteq Token

\* A row of the role user has its default blocks.
SeedInv == \A u \in Name : Exists(u) /\ app_users[u].role = "user" => app_users[u].seeded > 0

SessionInv ==
  \A t \in Token :
    /\ Open(t) => user_sessions[t].user \in Name /\ Exists(user_sessions[t].user)
    /\ user_sessions[t].state = "unissued" => user_sessions[t].user = NoName

\* What the locals x of a request that is not stale say is so.
Fresh(x) ==
  x.op \in {"revoke", "update"} /\ x.at \in {"check", "commit"} /\ ~x.stale =>
    /\ x.before = Columns(app_users[x.target])
    /\ x.at = "commit" => EnsureActiveAdminRemains(x)

LocalOK(x) ==
  /\ x.at = "idle" <=> x.op = "none"
  /\ x.at # "idle" => x.target \in Name
  /\ x.op \in {"create", "bootstrap", "login"} => x.at = "commit"
  /\ x.op = "create" => x.role \in Roles
  /\ x.at = "check" => x.op \in {"revoke", "update"}
  /\ x.op \notin {"create", "bootstrap"} /\ x.at \in {"check", "commit"} =>
       Exists(x.target) /\ x.before.status # "absent"
  /\ x.op \in {"change_own", "view"} => x.token \in Token
  /\ x.op = "change_own" => user_sessions[x.token].user = x.target

RequestInv ==
  /\ req \in [Request -> Locals]
  /\ \A r \in Request : LocalOK(req[r]) /\ Fresh(req[r])

\* The transactions under way that may yet replace the password of u.
Pending(u) == {r \in Request : req[r].op \notin {"none", "login"} /\ req[r].target = u}
EpochInv ==
  \A u \in Name :
    IsFiniteSet(Pending(u)) /\ app_users[u].epoch + Cardinality(Pending(u)) <= count

AccountsInv ==
  RowTypes /\ SeedInv /\ SessionInv /\ RequestInv /\ EpochInv /\ SessionsFollowPassword

-----------------------------------------------------------------------------
(* Counting the transactions of a user *)

LEMMA PendingFewer ==
  ASSUME RowTypes, EpochInv, RowTypes', NEW u \in Name, count' = count,
         Pending(u)' \subseteq Pending(u), app_users'[u].epoch <= app_users[u].epoch
  PROVE  IsFiniteSet(Pending(u)') /\ app_users'[u].epoch + Cardinality(Pending(u)') <= count'
<1>1. /\ IsFiniteSet(Pending(u)') /\ IsFiniteSet(Pending(u))
      /\ Cardinality(Pending(u)') <= Cardinality(Pending(u))
  BY FS_Subset DEF EpochInv
<1>2. Cardinality(Pending(u)') \in Nat /\ Cardinality(Pending(u)) \in Nat
  BY <1>1, FS_CardinalityType
<1>3. /\ app_users[u].epoch \in Nat /\ app_users'[u].epoch \in Nat /\ count \in Nat
      /\ app_users[u].epoch + Cardinality(Pending(u)) <= count
  BY AccountsAssumption DEF RowTypes, User, EpochInv
<1> QED
  BY <1>1, <1>2, <1>3

\* A transaction ends, and with it at most one new password.
LEMMA PendingLess ==
  ASSUME RowTypes, EpochInv, RowTypes', NEW u \in Name, count' = count,
         NEW r \in Pending(u), Pending(u)' \subseteq Pending(u) \ {r},
         app_users'[u].epoch <= app_users[u].epoch + 1
  PROVE  IsFiniteSet(Pending(u)') /\ app_users'[u].epoch + Cardinality(Pending(u)') <= count'
<1>1. IsFiniteSet(Pending(u)) /\ IsFiniteSet(Pending(u) \ {r})
  BY FS_RemoveElement DEF EpochInv
<1>2. /\ Cardinality(Pending(u) \ {r}) = Cardinality(Pending(u)) - 1
      /\ IsFiniteSet(Pending(u)') /\ Cardinality(Pending(u)') <= Cardinality(Pending(u) \ {r})
  BY <1>1, FS_RemoveElement, FS_Subset
<1>3. /\ Cardinality(Pending(u)') \in Nat /\ Cardinality(Pending(u)) \in Nat
      /\ Cardinality(Pending(u) \ {r}) \in Nat
  BY <1>1, <1>2, FS_CardinalityType
<1>4. /\ app_users[u].epoch \in Nat /\ app_users'[u].epoch \in Nat /\ count \in Nat
      /\ app_users[u].epoch + Cardinality(Pending(u)) <= count
  BY AccountsAssumption DEF RowTypes, User, EpochInv
<1> QED
  BY <1>2, <1>3, <1>4

LEMMA PendingMore ==
  ASSUME RowTypes, EpochInv, NEW u \in Name, count' = count + 1, NEW r,
         Pending(u)' \subseteq Pending(u) \cup {r}, app_users' = app_users
  PROVE  IsFiniteSet(Pending(u)') /\ app_users'[u].epoch + Cardinality(Pending(u)') <= count'
<1>1. IsFiniteSet(Pending(u)) /\ IsFiniteSet(Pending(u) \cup {r})
  BY FS_AddElement DEF EpochInv
<1>2. /\ Cardinality(Pending(u) \cup {r}) = Cardinality(Pending(u)) \/
           Cardinality(Pending(u) \cup {r}) = Cardinality(Pending(u)) + 1
      /\ IsFiniteSet(Pending(u)')
      /\ Cardinality(Pending(u)') <= Cardinality(Pending(u) \cup {r})
  BY <1>1, FS_AddElement, FS_Subset
<1>3. /\ Cardinality(Pending(u)') \in Nat /\ Cardinality(Pending(u)) \in Nat
      /\ Cardinality(Pending(u) \cup {r}) \in Nat
  BY <1>1, <1>2, FS_CardinalityType
<1>4. /\ app_users[u].epoch \in Nat /\ count \in Nat
      /\ app_users[u].epoch + Cardinality(Pending(u)) <= count
  BY AccountsAssumption DEF RowTypes, User, EpochInv
<1> QED
  BY <1>2, <1>3, <1>4

-----------------------------------------------------------------------------
(* Steps that write nothing but the locals of a request *)

LEMMA NoColumns == Columns(NoUser) \in Before
<1>1. NoUser.role = "user" /\ NoUser.status = "absent" /\ NoUser.epoch = 0
  BY DEF NoUser
<1>2. 0 \in 0..MaxRequests
  BY AccountsAssumption
<1> QED
  BY <1>1, <1>2 DEF Columns, Before, Roles

LEMMA IdleOK == Idle \in Locals /\ LocalOK(Idle) /\ Fresh(Idle)
<1>1. /\ Idle.op = "none" /\ Idle.at = "idle" /\ Idle.target = NoName /\ Idle.token = NoName
      /\ Idle.role = "" /\ Idle.status = "" /\ Idle.before = Columns(NoUser)
  BY DEF Idle, Local
<1>2. Columns(NoUser) \in Before
  BY NoColumns
<1>3. Idle \in Locals
  BY <1>2 DEF Idle, Local, Locals, Operations
<1> QED
  BY <1>1, <1>3 DEF LocalOK, Fresh

LEMMA LocalStep ==
  ASSUME AccountsInv, NEW r \in Request, NEW x \in Locals, req' = [req EXCEPT ![r] = x],
         LocalOK(x), Fresh(x), UNCHANGED <<app_users, user_sessions, raced>>,
         \/ count' = count /\ x.op \in {"none", "login"}
         \/ count' = count /\ x.op = req[r].op /\ x.target = req[r].target
         \/ count' = count + 1 /\ count < MaxRequests
  PROVE  AccountsInv'
<1> USE DEF AccountsInv
<1>1. /\ req' \in [Request -> Locals] /\ req'[r] = x
      /\ \A q \in Request : q # r => req'[q] = req[q]
  BY DEF RequestInv
<1>2. RowTypes'
  BY AccountsAssumption DEF RowTypes
<1>3. SeedInv' /\ SessionInv' /\ SessionsFollowPassword'
  BY DEF SeedInv, SessionInv, SessionsFollowPassword, Exists, Open
<1>4. \A q \in Request : LocalOK(req'[q]) /\ Fresh(req'[q])
  BY <1>1 DEF RequestInv
<1>5. RequestInv'
  <2>1. ASSUME NEW y PROVE (LocalOK(y)' <=> LocalOK(y)) /\ (Fresh(y)' <=> Fresh(y))
    BY DEF LocalOK, Fresh, Exists, EnsureActiveAdminRemains, ActiveAdmins
  <2>2. \A q \in Request : LocalOK(req[q])' /\ Fresh(req[q])'
    BY <1>4, <2>1
  <2> QED
    BY <1>1, <2>2 DEF RequestInv
<1>6. EpochInv'
  <2> SUFFICES ASSUME NEW u \in Name
               PROVE  IsFiniteSet(Pending(u)') /\
                      app_users'[u].epoch + Cardinality(Pending(u)') <= count'
    BY DEF EpochInv
  <2>1. CASE \/ count' = count /\ x.op \in {"none", "login"}
             \/ count' = count /\ x.op = req[r].op /\ x.target = req[r].target
    <3>1. Pending(u)' \subseteq Pending(u)
      BY <1>1, <2>1 DEF Pending
    <3>2. app_users'[u].epoch <= app_users[u].epoch
      BY AccountsAssumption DEF RowTypes, User
    <3> QED
      BY <1>2, <2>1, <3>1, <3>2, PendingFewer
  <2>2. CASE count' = count + 1
    <3>1. Pending(u)' \subseteq Pending(u) \cup {r}
      BY <1>1 DEF Pending
    <3> QED
      BY <2>2, <3>1, PendingMore
  <2> QED
    BY <2>1, <2>2
<1> QED
  BY <1>2, <1>3, <1>5, <1>6

LEMMA RefuseStep ==
  ASSUME AccountsInv, NEW r \in Request, Refuse(r)
  PROVE  AccountsInv'
<1>1. Idle.op = "none"
  BY DEF Idle, Local
<1>2. /\ req' = [req EXCEPT ![r] = Idle] /\ count' = count
      /\ UNCHANGED <<app_users, user_sessions, raced>>
  BY DEF Refuse, Become
<1>3. count' = count /\ Idle.op \in {"none", "login"}
  BY <1>1, <1>2
<1> QED
  BY <1>2, <1>3, IdleOK, LocalStep

\* What authenticates has a session that is open, of a user that is there.
LEMMA Authenticated ==
  ASSUME AccountsInv, NEW t \in Token, AuthenticateToken(t)
  PROVE  user_sessions[t].user \in Name /\ Exists(user_sessions[t].user)
  BY DEF AccountsInv, AuthenticateToken, SessionInv

\* The locals with which the routes begin.
LEMMA NewLocal ==
  ASSUME NEW op \in Operations, NEW at \in {"read", "commit"}, NEW token \in Token \cup {NoName},
         NEW u \in Name, NEW role \in Roles \cup {""}, NEW status \in {"active", "revoked", ""},
         op \notin {"none", "login"}, at = "commit" <=> op \in {"create", "bootstrap"},
         op = "create" => role \in Roles,
         op \in {"change_own", "view"} => token \in Token,
         op = "change_own" => user_sessions[token].user = u
  PROVE  /\ Local(op, at, token, u, role, status) \in Locals
         /\ LocalOK(Local(op, at, token, u, role, status))
         /\ Fresh(Local(op, at, token, u, role, status))
<1> DEFINE x == Local(op, at, token, u, role, status)
<1>1. /\ x.op = op /\ x.at = at /\ x.target = u /\ x.token = token
      /\ x.role = role /\ x.status = status /\ x.before = Columns(NoUser)
  BY DEF Local
<1>2. Columns(NoUser) \in Before
  BY NoColumns
<1>3. x \in Locals
  BY <1>2 DEF Local, Locals
<1> HIDE DEF x
<1>4. LocalOK(x)
  BY <1>1 DEF LocalOK
<1>5. Fresh(x)
  BY <1>1 DEF Fresh
<1> QED
  BY <1>3, <1>4, <1>5 DEF x

LEMMA BeginStep ==
  ASSUME AccountsInv, NEW r \in Request, NEW x \in Locals, LocalOK(x), Fresh(x), Begin(r, x)
  PROVE  AccountsInv'
  BY LocalStep DEF Begin, Become

LEMMA RouteStep ==
  ASSUME AccountsInv, NEW r \in Request, Route(r)
  PROVE  AccountsInv'
<1>1. ASSUME NEW t \in Token, HandleMePassword(r, t) PROVE AccountsInv'
  <2>1. user_sessions[t].user \in Name
    BY <1>1, Authenticated DEF HandleMePassword
  <2>2. Begin(r, Local("change_own", "read", t, user_sessions[t].user, "", ""))
    BY <1>1 DEF HandleMePassword
  <2> QED
    BY <2>1, <2>2, BeginStep, NewLocal DEF Operations
<1>2. ASSUME NEW t \in Token, NEW u \in Name, HandleAdminViewUser(r, t, u) PROVE AccountsInv'
  BY <1>2, BeginStep, NewLocal DEF HandleAdminViewUser, Operations
<1>3. ASSUME NEW t \in Token, NEW u \in Name, HandleUserByID(r, t, u) PROVE AccountsInv'
  <2>1. ASSUME NEW op \in {"revoke", "reset", "end_sessions"},
               Begin(r, Local(op, "read", NoName, u, "", ""))
        PROVE  AccountsInv'
    BY <2>1, BeginStep, NewLocal DEF Operations
  <2>2. ASSUME NEW role \in Roles \cup {""}, NEW status \in {"active", "revoked", ""},
               Begin(r, Local("update", "read", NoName, u, role, status))
        PROVE  AccountsInv'
    BY <2>2, BeginStep, NewLocal DEF Operations
  <2> QED
    BY <1>3, <2>1, <2>2 DEF HandleUserByID
<1>4. ASSUME NEW t \in Token, NEW u \in Name, NEW role \in Roles, HandleUsers(r, t, u, role)
      PROVE  AccountsInv'
  <2>1. Begin(r, Local("create", "commit", NoName, u, role, ""))
    BY <1>4 DEF HandleUsers
  <2> QED
    BY <2>1, BeginStep, NewLocal DEF Operations
<1>5. ASSUME NEW u \in Name, BootstrapAdmin(r, u) PROVE AccountsInv'
  BY <1>5, BeginStep, NewLocal DEF BootstrapAdmin, Operations
<1>6. ASSUME NEW u \in Name, HandleLogin(r, u) PROVE AccountsInv'
  <2> DEFINE x == [Local("login", "commit", NoName, u, "", "") EXCEPT !.before = Columns(app_users[u])]
  <2>1. app_users[u] \in User /\ app_users[u].status = "active"
    BY <1>6 DEF HandleLogin, AccountsInv, RowTypes
  <2>2. /\ Columns(app_users[u]) \in Before /\ Columns(app_users[u]).status = "active"
    BY <2>1 DEF Columns, Before, User
  <2>3. /\ x.op = "login" /\ x.at = "commit" /\ x.target = u
        /\ x.before = Columns(app_users[u])
    BY DEF Local
  <2>4. x \in Locals
    BY <2>2 DEF Local, Locals, Operations
  <2>5. /\ req' = [req EXCEPT ![r] = x] /\ count' = count
        /\ UNCHANGED <<app_users, user_sessions, raced>> /\ req[r].at = "idle"
    BY <1>6 DEF HandleLogin, Become
  <2> HIDE DEF x
  <2>7. LocalOK(x) /\ Fresh(x)
    BY <2>1, <2>2, <2>3 DEF LocalOK, Fresh, Exists
  <2> QED
    BY <2>3, <2>4, <2>5, <2>7, LocalStep
<1> QED
  BY <1>1, <1>2, <1>3, <1>4, <1>5, <1>6 DEF Route

-----------------------------------------------------------------------------
(* Transactions, up to their writes *)

LEMMA GetUserStep ==
  ASSUME AccountsInv, NEW r \in Request, GetUser(r)
  PROVE  AccountsInv'
<1> DEFINE x == req[r]
           u == app_users[x.target]
           next == IF x.op \in {"revoke", "update"} THEN "check" ELSE "commit"
           y == [x EXCEPT !.at = next, !.before = Columns(u)]
<1>1. x \in Locals /\ LocalOK(x) /\ x.at = "read"
  BY DEF GetUser, AccountsInv, RequestInv
<1>2. CASE Refuse(r)
  BY <1>2, RefuseStep
<1>3. CASE Exists(x.target) /\ Become(r, y) /\ UNCHANGED <<app_users, user_sessions, count, raced>>
  <2>1. x.target \in Name
    BY <1>1 DEF LocalOK
  <2>2. u \in User /\ u.status # "absent"
    BY <1>3, <2>1 DEF AccountsInv, RowTypes, Exists
  <2>3. Columns(u) \in Before /\ Columns(u).status # "absent"
    BY <2>2 DEF Columns, Before, User
  <2>4. next \in {"check", "commit"}
    OBVIOUS
  <2>5. /\ y \in Locals /\ y.op = x.op /\ y.at = next /\ y.target = x.target
        /\ y.before = Columns(u) /\ y.token = x.token /\ y.role = x.role
    BY <1>1, <2>3, <2>4 DEF Locals
  <2>6. y.at = "commit" => y.op \notin {"revoke", "update"}
    BY <2>5
  <2>7. y.at = "check" => y.op \in {"revoke", "update"}
    BY <2>5
  <2>8. x.op \notin {"none", "create", "bootstrap", "login"}
    BY <1>1 DEF LocalOK
  <2>9. req' = [req EXCEPT ![r] = y] /\ count' = count
    BY <1>3 DEF Become
  <2> HIDE DEF y, next
  <2>10. LocalOK(y)
    BY <1>1, <1>3, <2>3, <2>4, <2>5, <2>7, <2>8 DEF LocalOK
  <2>11. Fresh(y)
    BY <2>5, <2>6 DEF Fresh
  <2> QED
    BY <1>3, <2>5, <2>9, <2>10, <2>11, LocalStep
<1> QED
  BY <1>2, <1>3 DEF GetUser

LEMMA CheckStep ==
  ASSUME AccountsInv, NEW r \in Request, Check(r)
  PROVE  AccountsInv'
<1> DEFINE x == req[r]
           y == [x EXCEPT !.at = "commit"]
<1>1. x \in Locals /\ LocalOK(x) /\ Fresh(x) /\ x.at = "check"
  BY DEF Check, AccountsInv, RequestInv
<1>2. CASE Refuse(r)
  BY <1>2, RefuseStep
<1>3. CASE /\ EnsureActiveAdminRemains(x) /\ Become(r, y)
           /\ UNCHANGED <<app_users, user_sessions, count, raced>>
  <2>1. /\ y \in Locals /\ y.op = x.op /\ y.at = "commit" /\ y.target = x.target
        /\ y.before = x.before /\ y.token = x.token /\ y.role = x.role /\ y.status = x.status
        /\ y.stale = x.stale
    BY <1>1 DEF Locals
  <2>2. req' = [req EXCEPT ![r] = y] /\ count' = count
    BY <1>3 DEF Become
  <2> HIDE DEF y
  <2>3. LocalOK(y)
    BY <1>1, <2>1 DEF LocalOK
  <2>4. EnsureActiveAdminRemains(y)
    BY <1>3, <2>1 DEF EnsureActiveAdminRemains, NewRole, NewStatus
  <2>5. Fresh(y)
    BY <1>1, <2>1, <2>4 DEF Fresh
  <2> QED
    BY <1>3, <2>1, <2>2, <2>3, <2>5, LocalStep
<1> QED
  BY <1>2, <1>3 DEF Check

-----------------------------------------------------------------------------
(* The writes *)

\* A transaction that may replace the password of its user.
LEMMA Writer ==
  ASSUME AccountsInv, NEW r \in Request, req[r].op \notin {"none", "login"}
  PROVE  /\ req[r] \in Locals /\ LocalOK(req[r]) /\ Fresh(req[r])
         /\ req[r].target \in Name /\ app_users[req[r].target] \in User
         /\ r \in Pending(req[r].target)
         /\ app_users[req[r].target].epoch + 1 \in 0..MaxRequests
<1> DEFINE u == req[r].target
<1>1. req[r] \in Locals /\ LocalOK(req[r]) /\ Fresh(req[r])
  BY DEF AccountsInv, RequestInv
<1>2. u \in Name
  BY <1>1 DEF LocalOK
<1>3. app_users[u] \in User /\ r \in Pending(u)
  BY <1>2 DEF AccountsInv, RowTypes, Pending
<1>4. /\ IsFiniteSet(Pending(u)) /\ Cardinality(Pending(u)) \in Nat
      /\ app_users[u].epoch + Cardinality(Pending(u)) <= count
  BY <1>2, FS_CardinalityType DEF AccountsInv, EpochInv
<1>5. Cardinality(Pending(u)) # 0
  BY <1>3, <1>4, FS_EmptySet
<1>6. app_users[u].epoch \in Nat /\ count \in 0..MaxRequests /\ MaxRequests \in Nat
  BY <1>3, AccountsAssumption DEF User, AccountsInv, RowTypes
<1>7. app_users[u].epoch + 1 \in 0..MaxRequests
  BY <1>4, <1>5, <1>6
<1> QED
  BY <1>1, <1>2, <1>3, <1>7

\* Session t, as a write of user u leaves it, whose epoch is then e.
SessionAfter(sessions, t, u, e, causes) ==
  /\ sessions[t].user = user_sessions[t].user
  /\ sessions[t].state = "open" => Open(t)
  /\ sessions[t].state = "unissued" => user_sessions[t].state = "unissued"
  /\ sessions[t].state = "open" /\ t \notin raced \cup causes =>
       sessions[t].epoch = IF user_sessions[t].user = u THEN e
                           ELSE app_users[user_sessions[t].user].epoch

LEMMA WriteStep ==
  ASSUME AccountsInv, NEW r \in Request, NEW row \in User, NEW sessions \in [Token -> Session],
         NEW causes \in SUBSET Token, Write(r, row, sessions, causes),
         req[r].op \notin {"none", "login"},
         row.status # "absent", row.role = "user" => row.seeded > 0,
         row.epoch <= app_users[req[r].target].epoch + 1,
         \A t \in Token : SessionAfter(sessions, t, req[r].target, row.epoch, causes)
  PROVE  AccountsInv'
<1> DEFINE a == req[r].target
<1> USE DEF AccountsInv
<1>1. /\ a \in Name /\ r \in Pending(a) /\ app_users \in [Name -> User]
      /\ req \in [Request -> Locals]
  BY Writer DEF RowTypes, RequestInv
<1>2. /\ app_users' = [app_users EXCEPT ![a] = row] /\ user_sessions' = sessions
      /\ raced' = raced \cup causes /\ count' = count
      /\ req' = [q \in Request |->
           IF q = r THEN Idle
           ELSE IF req[q].at \in {"check", "commit"} /\ row # app_users[a]
                THEN [req[q] EXCEPT !.stale = TRUE] ELSE req[q]]
  BY DEF Write
<1>3. /\ app_users' \in [Name -> User] /\ app_users'[a] = row
      /\ \A u \in Name : u # a => app_users'[u] = app_users[u]
  BY <1>1, <1>2
<1> HIDE DEF a
<1>4. RowTypes'
  BY <1>2, <1>3 DEF RowTypes
<1>5. \A u \in Name : Exists(u) => Exists(u)'
  BY <1>3 DEF Exists
<1>6. SeedInv'
  BY <1>3 DEF SeedInv, Exists
<1>7. SessionInv'
  BY <1>2, <1>5 DEF SessionInv, Open, SessionAfter
<1>8. /\ req'[r] = Idle
      /\ \A q \in Request : q # r =>
           req'[q] = IF req[q].at \in {"check", "commit"} /\ row # app_users[a]
                     THEN [req[q] EXCEPT !.stale = TRUE] ELSE req[q]
  BY <1>2
<1>9. ASSUME NEW q \in Request, q # r
      PROVE  /\ req'[q] \in Locals
             /\ req'[q].op = req[q].op /\ req'[q].at = req[q].at
             /\ req'[q].target = req[q].target /\ req'[q].role = req[q].role
             /\ req'[q].before = req[q].before /\ req'[q].token = req[q].token
             /\ req[q].at \in {"check", "commit"} /\ row # app_users[a] => req'[q].stale
             /\ row = app_users[a] => req'[q] = req[q]
  <2>1. req[q] \in Locals
    BY <1>1
  <2>2. CASE req[q].at \in {"check", "commit"} /\ row # app_users[a]
    <3>1. req'[q] = [req[q] EXCEPT !.stale = TRUE]
      BY <1>8, <1>9, <2>2
    <3> QED
      BY <2>1, <2>2, <3>1 DEF Locals
  <2>3. CASE ~(req[q].at \in {"check", "commit"} /\ row # app_users[a])
    BY <1>8, <1>9, <2>1, <2>3
  <2> QED
    BY <2>2, <2>3
<1>10. RequestInv'
  <2>1. req' \in [Request -> Locals]
    BY <1>2, <1>8, <1>9, IdleOK
  <2>2. ASSUME NEW q \in Request PROVE LocalOK(req[q])'
    <3>1. CASE q = r
      <4>1. /\ Idle.op = "none" /\ Idle.at = "idle"
        BY DEF Idle, Local
      <4> QED
        BY <1>8, <3>1, <4>1 DEF LocalOK
    <3>2. CASE q # r
      <4>1. LocalOK(req[q])
        BY DEF RequestInv
      <4>2. req[q].at # "idle" => req[q].target \in Name
        BY <4>1 DEF LocalOK
      <4> QED
        BY <1>2, <1>5, <1>9, <3>2, <4>1, <4>2 DEF LocalOK, SessionAfter
    <3> QED
      BY <3>1, <3>2
  <2>3. ASSUME NEW q \in Request PROVE Fresh(req[q])'
    <3>1. CASE q = r
      <4>1. Idle.op = "none"
        BY DEF Idle, Local
      <4> QED
        BY <1>8, <3>1, <4>1 DEF Fresh
    <3>2. CASE q # r /\ row # app_users[a]
      BY <1>9, <3>2 DEF Fresh
    <3>3. CASE q # r /\ row = app_users[a]
      <4>1. app_users' = app_users /\ req'[q] = req[q] /\ Fresh(req[q])
        BY <1>1, <1>2, <1>9, <3>3 DEF RequestInv
      <4> QED
        BY <4>1 DEF Fresh, EnsureActiveAdminRemains, ActiveAdmins
    <3> QED
      BY <3>1, <3>2, <3>3
  <2> QED
    BY <2>1, <2>2, <2>3 DEF RequestInv
<1>11. EpochInv'
  <2> SUFFICES ASSUME NEW u \in Name
               PROVE  IsFiniteSet(Pending(u)') /\
                      app_users'[u].epoch + Cardinality(Pending(u)') <= count'
    BY DEF EpochInv
  <2>1. Idle.op = "none"
    BY DEF Idle, Local
  <2>2. Pending(u)' \subseteq Pending(u) \ {r}
    BY <1>8, <1>9, <2>1 DEF Pending
  <2>3. CASE u = a
    <3>1. r \in Pending(u) /\ app_users'[u].epoch <= app_users[u].epoch + 1
      BY <1>1, <1>3, <2>3 DEF a
    <3> QED
      BY <1>2, <1>4, <2>2, <3>1, PendingLess
  <2>4. CASE u # a
    <3>1. app_users'[u].epoch <= app_users[u].epoch
      BY <1>3, <1>1, <2>4, AccountsAssumption DEF User
    <3> QED
      BY <1>2, <1>4, <2>2, <3>1, PendingFewer
  <2> QED
    BY <2>3, <2>4
<1>12. SessionsFollowPassword'
  <2> SUFFICES ASSUME NEW t \in Token, sessions[t].state = "open", t \notin raced \cup causes
               PROVE  sessions[t].epoch = app_users'[sessions[t].user].epoch
    BY <1>2 DEF SessionsFollowPassword, Open
  <2>1. user_sessions[t].user \in Name
    BY DEF SessionInv, SessionAfter
  <2> QED
    BY <1>3, <2>1 DEF a, SessionAfter
<1> QED
  BY <1>4, <1>6, <1>7, <1>10, <1>11, <1>12

\* Sessions that a write does not end keep their epoch.
LEMMA KeptSessions ==
  ASSUME AccountsInv, NEW u \in Name
  PROVE  /\ user_sessions \in [Token -> Session]
         /\ \A t \in Token :
              SessionAfter(user_sessions, t, u, app_users[u].epoch, {})
  BY DEF AccountsInv, RowTypes, SessionAfter, SessionsFollowPassword, Open

LEMMA EndedSessions ==
  ASSUME AccountsInv, NEW S
  PROVE  /\ End(S) \in [Token -> Session]
         /\ \A t \in Token :
              /\ End(S)[t].user = user_sessions[t].user
              /\ End(S)[t].epoch = user_sessions[t].epoch
              /\ End(S)[t].view = user_sessions[t].view
              /\ End(S)[t].state = "open" <=> Open(t) /\ t \notin S
              /\ End(S)[t].state = "unissued" <=> user_sessions[t].state = "unissued"
<1> SUFFICES ASSUME NEW t \in Token
             PROVE  /\ End(S)[t] \in Session
                    /\ End(S)[t].user = user_sessions[t].user
                    /\ End(S)[t].epoch = user_sessions[t].epoch
                    /\ End(S)[t].view = user_sessions[t].view
                    /\ End(S)[t].state = "open" <=> Open(t) /\ t \notin S
                    /\ End(S)[t].state = "unissued" <=> user_sessions[t].state = "unissued"
  BY DEF End
<1>1. user_sessions[t] \in Session
  BY DEF AccountsInv, RowTypes
<1>2. CASE t \in S /\ Open(t)
  <2>1. End(S)[t] = [user_sessions[t] EXCEPT !.state = "ended"]
    BY <1>2 DEF End
  <2> QED
    BY <1>1, <1>2, <2>1 DEF Session, Open
<1>3. CASE ~(t \in S /\ Open(t))
  <2>1. End(S)[t] = user_sessions[t]
    BY <1>3 DEF End
  <2> QED
    BY <1>1, <1>3, <2>1 DEF Open
<1> QED
  BY <1>2, <1>3

\* When all the sessions of u end, the others keep their epoch.
LEMMA AllEnded ==
  ASSUME AccountsInv, NEW u \in Name, NEW e
  PROVE  \A t \in Token : SessionAfter(End(SessionsOf(u)), t, u, e, {})
<1> SUFFICES ASSUME NEW t \in Token PROVE SessionAfter(End(SessionsOf(u)), t, u, e, {})
  OBVIOUS
<1>1. /\ End(SessionsOf(u))[t].user = user_sessions[t].user
      /\ End(SessionsOf(u))[t].epoch = user_sessions[t].epoch
      /\ End(SessionsOf(u))[t].state = "open" <=> Open(t) /\ t \notin SessionsOf(u)
      /\ End(SessionsOf(u))[t].state = "unissued" <=> user_sessions[t].state = "unissued"
  BY EndedSessions
<1>2. t \notin SessionsOf(u) => user_sessions[t].user # u
  BY DEF SessionsOf
<1>3. Open(t) /\ t \notin raced => user_sessions[t].epoch = app_users[user_sessions[t].user].epoch
  BY DEF AccountsInv, SessionsFollowPassword
<1> QED
  BY <1>1, <1>2, <1>3 DEF SessionAfter

LEMMA BumpedRow ==
  ASSUME NEW row \in User, row.epoch + 1 \in 0..MaxRequests
  PROVE  /\ Bump(row) \in User /\ Bump(row).epoch = row.epoch + 1 /\ Bump(row).role = row.role
         /\ Bump(row).status = row.status /\ Bump(row).seeded = row.seeded
  BY DEF Bump, User

LEMMA SeededRow ==
  ASSUME NEW row \in User
  PROVE  /\ Seed(row) \in User /\ Seed(row).epoch = row.epoch /\ Seed(row).role = row.role
         /\ Seed(row).status = row.status /\ Seed(row).seeded > 0
<1>1. CASE row.seeded = 2
  BY <1>1 DEF Seed, User
<1>2. CASE row.seeded # 2
  <2>1. Seed(row) = [row EXCEPT !.seeded = row.seeded + 1]
    BY <1>2 DEF Seed
  <2>2. row.seeded + 1 \in 1..2
    BY <1>2 DEF User
  <2> QED
    BY <2>1, <2>2 DEF User
<1> QED
  BY <1>1, <1>2

LEMMA RevokeStep ==
  ASSUME AccountsInv, NEW r \in Request, RevokeUser(r)
  PROVE  AccountsInv'
<1> DEFINE u == req[r].target
           row == [Bump(app_users[u]) EXCEPT !.status = "revoked"]
<1>1. /\ req[r].op = "revoke" /\ req[r].at = "commit"
      /\ Write(r, row, End(SessionsOf(u)), {})
  BY DEF RevokeUser
<1>2. /\ u \in Name /\ app_users[u] \in User /\ app_users[u].epoch + 1 \in 0..MaxRequests
      /\ LocalOK(req[r])
  BY <1>1, Writer
<1>3. Exists(u)
  BY <1>1, <1>2 DEF LocalOK
<1>4. /\ Bump(app_users[u]) \in User /\ Bump(app_users[u]).epoch = app_users[u].epoch + 1
      /\ Bump(app_users[u]).role = app_users[u].role
      /\ Bump(app_users[u]).seeded = app_users[u].seeded
  BY <1>2, BumpedRow
<1>5. /\ row \in User /\ row.status = "revoked" /\ row.epoch = app_users[u].epoch + 1
      /\ row.role = app_users[u].role /\ row.seeded = app_users[u].seeded
  BY <1>4 DEF User
<1>6. row.role = "user" => row.seeded > 0
  BY <1>2, <1>3, <1>5 DEF AccountsInv, SeedInv
<1>7. End(SessionsOf(u)) \in [Token -> Session]
  BY EndedSessions
<1>8. \A t \in Token : SessionAfter(End(SessionsOf(u)), t, u, row.epoch, {})
  BY <1>2, AllEnded
<1>9. row.epoch <= app_users[u].epoch + 1
  BY <1>2, <1>5
<1> HIDE DEF row
<1> QED
  BY <1>1, <1>5, <1>6, <1>7, <1>8, <1>9, WriteStep

LEMMA ResetStep ==
  ASSUME AccountsInv, NEW r \in Request, ResetUserPassword(r)
  PROVE  AccountsInv'
<1> DEFINE u == req[r].target
           row == Bump(app_users[u])
<1>1. /\ req[r].op \in {"reset", "end_sessions"} /\ req[r].at = "commit"
      /\ Write(r, row, End(SessionsOf(u)), {})
  BY DEF ResetUserPassword
<1>2. /\ u \in Name /\ app_users[u] \in User /\ app_users[u].epoch + 1 \in 0..MaxRequests
      /\ LocalOK(req[r])
  BY <1>1, Writer
<1>3. Exists(u)
  BY <1>1, <1>2 DEF LocalOK
<1>4. /\ row \in User /\ row.status = app_users[u].status /\ row.epoch = app_users[u].epoch + 1
      /\ row.role = app_users[u].role /\ row.seeded = app_users[u].seeded
  BY <1>2, BumpedRow
<1>5. row.status # "absent" /\ (row.role = "user" => row.seeded > 0)
  BY <1>2, <1>3, <1>4 DEF AccountsInv, SeedInv, Exists
<1>6. End(SessionsOf(u)) \in [Token -> Session]
  BY EndedSessions
<1>7. \A t \in Token : SessionAfter(End(SessionsOf(u)), t, u, row.epoch, {})
  BY <1>2, AllEnded
<1>8. row.epoch <= app_users[u].epoch + 1
  BY <1>2, <1>4
<1> HIDE DEF row
<1> QED
  BY <1>1, <1>4, <1>5, <1>6, <1>7, <1>8, WriteStep

LEMMA ChangeOwnStep ==
  ASSUME AccountsInv, NEW r \in Request, ChangeOwnPassword(r)
  PROVE  AccountsInv'
<1> DEFINE u == req[r].target
           k == req[r].token
           row == Bump(app_users[u])
           ended == End(SessionsOf(u) \ {k})
           sessions == [ended EXCEPT ![k].epoch = app_users[u].epoch + 1]
<1>1. /\ req[r].op = "change_own" /\ req[r].at = "commit" /\ Write(r, row, sessions, {})
  BY DEF ChangeOwnPassword
<1>2. /\ u \in Name /\ app_users[u] \in User /\ app_users[u].epoch + 1 \in 0..MaxRequests
      /\ LocalOK(req[r])
  BY <1>1, Writer
<1>3. Exists(u) /\ k \in Token /\ user_sessions[k].user = u
  BY <1>1, <1>2 DEF LocalOK
<1>4. /\ row \in User /\ row.status = app_users[u].status /\ row.epoch = app_users[u].epoch + 1
      /\ row.role = app_users[u].role /\ row.seeded = app_users[u].seeded
  BY <1>2, BumpedRow
<1>5. row.status # "absent" /\ (row.role = "user" => row.seeded > 0)
  BY <1>2, <1>3, <1>4 DEF AccountsInv, SeedInv, Exists
<1>6. /\ ended \in [Token -> Session]
      /\ \A t \in Token :
           /\ ended[t].user = user_sessions[t].user
           /\ ended[t].epoch = user_sessions[t].epoch
           /\ ended[t].state = "open" <=> Open(t) /\ t \notin SessionsOf(u) \ {k}
           /\ ended[t].state = "unissued" <=> user_sessions[t].state = "unissued"
  BY EndedSessions
<1> HIDE DEF ended
<1>7. /\ sessions \in [Token -> Session] /\ \A t \in Token : t # k => sessions[t] = ended[t]
      /\ sessions[k].user = ended[k].user /\ sessions[k].state = ended[k].state
      /\ sessions[k].epoch = app_users[u].epoch + 1
  BY <1>2, <1>3, <1>6 DEF Session
<1> HIDE DEF sessions, row
<1>8. \A t \in Token : SessionAfter(sessions, t, u, row.epoch, {})
  <2> SUFFICES ASSUME NEW t \in Token PROVE SessionAfter(sessions, t, u, row.epoch, {})
    OBVIOUS
  <2>1. CASE t = k
    BY <1>3, <1>4, <1>6, <1>7, <2>1 DEF SessionAfter
  <2>2. CASE t # k
    <3>1. t \notin SessionsOf(u) \ {k} => user_sessions[t].user # u
      BY <2>2 DEF SessionsOf
    <3>2. Open(t) /\ t \notin raced =>
            user_sessions[t].epoch = app_users[user_sessions[t].user].epoch
      BY DEF AccountsInv, SessionsFollowPassword
    <3> QED
      BY <1>6, <1>7, <2>2, <3>1, <3>2 DEF SessionAfter
  <2> QED
    BY <2>1, <2>2
<1>9. row.epoch <= app_users[u].epoch + 1
  BY <1>2, <1>4
<1> QED
  BY <1>1, <1>4, <1>5, <1>7, <1>8, <1>9, WriteStep

LEMMA ClearedViews ==
  ASSUME NEW sessions \in [Token -> Session], NEW u
  PROVE  /\ ClearViews(sessions, u) \in [Token -> Session]
         /\ \A t \in Token :
              /\ ClearViews(sessions, u)[t].user = sessions[t].user
              /\ ClearViews(sessions, u)[t].state = sessions[t].state
              /\ ClearViews(sessions, u)[t].epoch = sessions[t].epoch
<1> SUFFICES ASSUME NEW t \in Token
             PROVE  /\ ClearViews(sessions, u)[t] \in Session
                    /\ ClearViews(sessions, u)[t].user = sessions[t].user
                    /\ ClearViews(sessions, u)[t].state = sessions[t].state
                    /\ ClearViews(sessions, u)[t].epoch = sessions[t].epoch
  BY DEF ClearViews
<1>1. sessions[t] \in Session
  OBVIOUS
<1>2. CASE sessions[t].view = u
  <2>1. ClearViews(sessions, u)[t] = [sessions[t] EXCEPT !.view = NoName]
    BY <1>2 DEF ClearViews
  <2> QED
    BY <1>1, <2>1 DEF Session
<1>3. CASE sessions[t].view # u
  <2>1. ClearViews(sessions, u)[t] = sessions[t]
    BY <1>3 DEF ClearViews
  <2> QED
    BY <1>1, <2>1
<1> QED
  BY <1>2, <1>3

\* What UpdateUser writes: the role and the status it has made out, whatever
\* the row says by now.
LEMMA NewValues ==
  ASSUME NEW x \in Locals, x.op \in {"revoke", "update"}, x.before.status # "absent"
  PROVE  NewRole(x) \in Roles /\ NewStatus(x) \in {"active", "revoked"}
<1>1. /\ x.before \in Before /\ x.role \in Roles \cup {""}
      /\ x.status \in {"active", "revoked", ""}
  BY DEF Locals
<1>2. x.before.role \in Roles /\ x.before.status \in {"active", "revoked"}
  BY <1>1 DEF Before
<1> QED
  BY <1>1, <1>2 DEF NewRole, NewStatus

LEMMA UpdateStep ==
  ASSUME AccountsInv, NEW r \in Request, UpdateUser(r)
  PROVE  AccountsInv'
<1> DEFINE x == req[r]
           u == x.target
           changed == [app_users[u] EXCEPT !.role = NewRole(x), !.status = NewStatus(x)]
           ended == NewStatus(x) # "active"
           bumped == IF ended THEN Bump(changed) ELSE changed
           row == SeedUser(x, bumped)
           left == IF ended THEN End(SessionsOf(u)) ELSE user_sessions
           sessions == IF NewRole(x) = "admin" THEN left ELSE ClearViews(left, u)
<1>1. x.op = "update" /\ x.at = "commit" /\ Write(r, row, sessions, {})
  BY DEF UpdateUser
<1>2. /\ u \in Name /\ app_users[u] \in User /\ app_users[u].epoch + 1 \in 0..MaxRequests
      /\ LocalOK(x) /\ x \in Locals
  BY <1>1, Writer
<1>3. x.before.status # "absent"
  BY <1>1, <1>2 DEF LocalOK
<1>4. NewRole(x) \in Roles /\ NewStatus(x) \in {"active", "revoked"}
  BY <1>1, <1>2, <1>3, NewValues
<1>5. /\ changed \in User /\ changed.role = NewRole(x) /\ changed.status = NewStatus(x)
      /\ changed.epoch = app_users[u].epoch
  BY <1>2, <1>4 DEF User
<1> HIDE DEF changed
<1>6. /\ bumped \in User /\ bumped.role = NewRole(x) /\ bumped.status = NewStatus(x)
      /\ bumped.epoch = IF ended THEN app_users[u].epoch + 1 ELSE app_users[u].epoch
  BY <1>2, <1>5, BumpedRow
<1> HIDE DEF bumped
<1>7. /\ row \in User /\ row.role = NewRole(x) /\ row.status = NewStatus(x)
      /\ row.epoch = bumped.epoch
      /\ row.role = "user" => row.seeded > 0
  BY <1>6, SeededRow DEF SeedUser
<1> HIDE DEF row
<1>8. row.status # "absent"
  BY <1>4, <1>7
<1>9. row.epoch <= app_users[u].epoch + 1
  BY <1>2, <1>6, <1>7 DEF User
<1>10. left \in [Token -> Session] /\ \A t \in Token : SessionAfter(left, t, u, row.epoch, {})
  BY <1>2, <1>6, <1>7, EndedSessions, AllEnded, KeptSessions
<1> HIDE DEF left
<1>11. sessions \in [Token -> Session] /\ \A t \in Token : SessionAfter(sessions, t, u, row.epoch, {})
  <2>1. CASE NewRole(x) = "admin"
    BY <1>10, <2>1
  <2>2. CASE NewRole(x) # "admin"
    <3>1. sessions = ClearViews(left, u)
      BY <2>2
    <3> QED
      BY <1>10, <3>1, ClearedViews DEF SessionAfter
  <2> QED
    BY <2>1, <2>2
<1> HIDE DEF sessions
<1> QED
  BY <1>1, <1>7, <1>8, <1>9, <1>11, WriteStep

LEMMA CreateUserStep ==
  ASSUME AccountsInv, NEW r \in Request, CreateUser(r)
  PROVE  AccountsInv'
<1> DEFINE x == req[r]
           u == x.target
           e == IF Exists(u) THEN app_users[u].epoch + 1 ELSE 0
           new == [app_users[u] EXCEPT !.role = x.role, !.status = "active", !.epoch = e]
           row == IF x.role = "user" THEN Seed(new) ELSE new
           causes == {t \in SessionsOf(u) : Open(t)}
<1>1. x.op = "create" /\ Write(r, row, user_sessions, causes)
  BY DEF CreateUser
<1>2. /\ u \in Name /\ app_users[u] \in User /\ app_users[u].epoch + 1 \in 0..MaxRequests
      /\ LocalOK(x)
  BY <1>1, Writer
<1>3. x.role \in Roles /\ e \in 0..MaxRequests /\ e <= app_users[u].epoch + 1
  BY <1>1, <1>2, AccountsAssumption DEF LocalOK, User
<1> HIDE DEF e
<1>4. /\ new \in User /\ new.role = x.role /\ new.status = "active" /\ new.epoch = e
  BY <1>2, <1>3 DEF User
<1> HIDE DEF new
<1>5. /\ row \in User /\ row.status = "active" /\ row.epoch = e
      /\ row.role = "user" => row.seeded > 0
  BY <1>4, SeededRow
<1> HIDE DEF row
<1>6. \A t \in Token : SessionAfter(user_sessions, t, u, row.epoch, causes)
  <2>1. causes \subseteq Token /\ \A t \in Token : Open(t) /\ user_sessions[t].user = u => t \in causes
    BY DEF SessionsOf
  <2> HIDE DEF causes
  <2> QED
    BY <2>1 DEF SessionAfter, AccountsInv, SessionsFollowPassword, Open
<1>7. causes \in SUBSET Token /\ user_sessions \in [Token -> Session]
  BY DEF SessionsOf, AccountsInv, RowTypes
<1> HIDE DEF causes
<1> QED
  BY <1>1, <1>3, <1>5, <1>6, <1>7, WriteStep

LEMMA BootstrapStep ==
  ASSUME AccountsInv, NEW r \in Request, BootstrapInsert(r)
  PROVE  AccountsInv'
<1> DEFINE u == req[r].target
           row == [NoUser EXCEPT !.role = "admin", !.status = "active"]
<1>1. CASE Refuse(r)
  BY <1>1, RefuseStep
<1>2. CASE ~Exists(u) /\ req[r].op = "bootstrap" /\ Write(r, row, user_sessions, {})
  <2>1. u \in Name /\ app_users[u] \in User
    BY <1>2, Writer
  <2>2. /\ row \in User /\ row.status = "active" /\ row.role = "admin" /\ row.epoch = 0
    <3>1. 0 \in 0..MaxRequests /\ 0 \in 0..2
      BY AccountsAssumption
    <3> QED
      BY <3>1 DEF NoUser, User, Roles
  <2>3. row.epoch <= app_users[u].epoch + 1
    BY <2>1, <2>2 DEF User
  <2> HIDE DEF row
  <2>4. \A t \in Token : SessionAfter(user_sessions, t, u, row.epoch, {})
    <3>1. \A t \in Token : Open(t) => user_sessions[t].user # u
      BY <1>2 DEF AccountsInv, SessionInv
    <3> QED
      BY <3>1 DEF SessionAfter, AccountsInv, SessionsFollowPassword, Open
  <2>5. user_sessions \in [Token -> Session]
    BY DEF AccountsInv, RowTypes
  <2> QED
    BY <1>2, <2>2, <2>3, <2>4, <2>5, WriteStep
<1> QED
  BY <1>1, <1>2 DEF BootstrapInsert

-----------------------------------------------------------------------------
(* Sessions that begin, change their view or end *)

\* A step that leaves the users alone, and of the sessions one at most.
LEMMA SessionStep ==
  ASSUME AccountsInv, NEW k \in Token, NEW s \in Session,
         user_sessions' = [user_sessions EXCEPT ![k] = s], UNCHANGED <<app_users, count>>,
         raced \subseteq raced' /\ raced' \subseteq Token,
         req' \in [Request -> Locals],
         \A q \in Request : req'[q] = req[q] \/ req'[q] = Idle,
         s.state # "unissued",
         user_sessions[k].state = "unissued" \/ s.user = user_sessions[k].user,
         s.state = "open" =>
           /\ s.user \in Name /\ Exists(s.user)
           /\ k \in raced' \/ s.epoch = app_users[s.user].epoch
  PROVE  AccountsInv'
<1> USE DEF AccountsInv
<1>1. /\ user_sessions' \in [Token -> Session] /\ user_sessions'[k] = s
      /\ \A t \in Token : t # k => user_sessions'[t] = user_sessions[t]
  BY DEF RowTypes
<1>2. RowTypes'
  BY <1>1 DEF RowTypes
<1>3. SeedInv'
  BY DEF SeedInv, Exists
<1>4. SessionInv'
  BY <1>1 DEF SessionInv, Open, Exists
<1>5. RequestInv'
  <2>1. ASSUME NEW q \in Request PROVE LocalOK(req[q])' /\ Fresh(req[q])'
    <3>1. CASE req'[q] = Idle
      <4>1. Idle.op = "none" /\ Idle.at = "idle"
        BY DEF Idle, Local
      <4> QED
        BY <3>1, <4>1 DEF LocalOK, Fresh
    <3>2. CASE req'[q] = req[q]
      <4>1. LocalOK(req[q]) /\ Fresh(req[q])
        BY DEF RequestInv
      <4>2. req[q].op = "change_own" => user_sessions'[req[q].token].user = req[q].target
        <5>1. SUFFICES ASSUME req[q].op = "change_own"
                       PROVE  user_sessions'[req[q].token].user = req[q].target
          OBVIOUS
        <5>2. /\ req[q].token \in Token /\ user_sessions[req[q].token].user = req[q].target
              /\ req[q].target \in Name
          BY <4>1, <5>1 DEF LocalOK
        <5>3. user_sessions[req[q].token].state # "unissued"
          BY <5>2, AccountsAssumption DEF SessionInv
        <5> QED
          BY <1>1, <5>2, <5>3
      <4>3. LocalOK(req[q])'
        BY <3>2, <4>1, <4>2 DEF LocalOK, Exists
      <4>4. Fresh(req[q])'
        BY <3>2, <4>1 DEF Fresh, EnsureActiveAdminRemains, ActiveAdmins
      <4> QED
        BY <4>3, <4>4
    <3> QED
      BY <3>1, <3>2
  <2> QED
    BY <2>1 DEF RequestInv
<1>6. EpochInv'
  <2> SUFFICES ASSUME NEW u \in Name
               PROVE  IsFiniteSet(Pending(u)') /\
                      app_users'[u].epoch + Cardinality(Pending(u)') <= count'
    BY DEF EpochInv
  <2>1. Idle.op = "none"
    BY DEF Idle, Local
  <2>2. Pending(u)' \subseteq Pending(u)
    BY <2>1 DEF Pending
  <2>3. app_users'[u].epoch <= app_users[u].epoch
    BY AccountsAssumption DEF RowTypes, User
  <2> QED
    BY <1>2, <2>2, <2>3, PendingFewer
<1>7. SessionsFollowPassword'
  BY <1>1 DEF SessionsFollowPassword, Open
<1> QED
  BY <1>2, <1>3, <1>4, <1>5, <1>6, <1>7

LEMMA BecomeIdle ==
  ASSUME AccountsInv, NEW r \in Request, Become(r, Idle)
  PROVE  /\ req' \in [Request -> Locals]
         /\ \A q \in Request : req'[q] = req[q] \/ req'[q] = Idle
  BY IdleOK DEF AccountsInv, RequestInv, Become

LEMMA InsertStep ==
  ASSUME AccountsInv, NEW r \in Request, NEW t \in Token, AuthenticateInsert(r, t)
  PROVE  AccountsInv'
<1> DEFINE u == req[r].target
           s == [user |-> u, state |-> "open", view |-> NoName, epoch |-> req[r].before.epoch]
<1>1. /\ req[r].op = "login" /\ user_sessions[t].state = "unissued"
      /\ user_sessions' = [user_sessions EXCEPT ![t] = s]
      /\ raced' = IF app_users[u].epoch # req[r].before.epoch THEN raced \cup {t} ELSE raced
      /\ Become(r, Idle) /\ UNCHANGED <<app_users, count>>
  BY DEF AuthenticateInsert
<1>2. req[r] \in Locals /\ LocalOK(req[r])
  BY DEF AccountsInv, RequestInv
<1>3. u \in Name /\ Exists(u) /\ req[r].before \in Before
  BY <1>1, <1>2 DEF LocalOK, Locals
<1>4. /\ s \in Session /\ s.state = "open" /\ s.user = u /\ s.epoch = req[r].before.epoch
  BY <1>3 DEF Session, Before
<1>5. raced \subseteq raced' /\ raced' \subseteq Token
  BY <1>1 DEF AccountsInv, RowTypes
<1>6. t \in raced' \/ s.epoch = app_users[u].epoch
  BY <1>1, <1>4
<1> HIDE DEF s
<1> QED
  BY <1>1, <1>3, <1>4, <1>5, <1>6, BecomeIdle, SessionStep

LEMMA ViewStep ==
  ASSUME AccountsInv, NEW r \in Request, ViewUserConfig(r)
  PROVE  AccountsInv'
<1> DEFINE k == req[r].token
           s == [user_sessions[k] EXCEPT !.view = req[r].target]
<1>1. CASE Refuse(r)
  BY <1>1, RefuseStep
<1>2. CASE /\ req[r].op = "view" /\ Open(k)
           /\ user_sessions' = [user_sessions EXCEPT ![k].view = req[r].target]
           /\ Become(r, Idle) /\ UNCHANGED <<app_users, count, raced>>
  <2>1. LocalOK(req[r]) /\ req[r].target \in Name
    BY <1>2, Writer
  <2>2. k \in Token
    BY <1>2, <2>1 DEF LocalOK
  <2>3. user_sessions[k] \in Session /\ raced \subseteq Token
    BY <2>2 DEF AccountsInv, RowTypes
  <2>4. /\ s \in Session /\ s.state = "open" /\ s.user = user_sessions[k].user
        /\ s.epoch = user_sessions[k].epoch
    BY <1>2, <2>1, <2>3 DEF Session, Open
  <2>5. /\ s.user \in Name /\ Exists(s.user)
        /\ k \in raced' \/ s.epoch = app_users[s.user].epoch
    BY <1>2, <2>2, <2>4 DEF AccountsInv, SessionInv, SessionsFollowPassword
  <2>6. user_sessions' = [user_sessions EXCEPT ![k] = s]
    BY <1>2
  <2> HIDE DEF s
  <2> QED
    BY <1>2, <2>2, <2>3, <2>4, <2>5, <2>6, BecomeIdle, SessionStep
<1> QED
  BY <1>1, <1>2 DEF ViewUserConfig

LEMMA LogoutStep ==
  ASSUME AccountsInv, NEW t \in Token, HandleLogout(t)
  PROVE  AccountsInv'
<1> DEFINE s == [user_sessions[t] EXCEPT !.state = "ended"]
<1>1. user_sessions[t] \in Session /\ raced \subseteq Token /\ req \in [Request -> Locals]
  BY DEF AccountsInv, RowTypes, RequestInv
<1>2. s \in Session /\ s.state = "ended" /\ s.user = user_sessions[t].user
  BY <1>1 DEF Session
<1>3. /\ user_sessions' = [user_sessions EXCEPT ![t] = s]
      /\ UNCHANGED <<app_users, req, count, raced>>
  BY DEF HandleLogout
<1> HIDE DEF s
<1> QED
  BY <1>1, <1>2, <1>3, SessionStep

-----------------------------------------------------------------------------
(* The theorems *)

LEMMA AccountsInitially ==
  ASSUME AcInit
  PROVE  AccountsInv
<1>1. 0 \in 0..MaxRequests /\ 0 \in 0..2 /\ 1 \in 0..2
  BY AccountsAssumption
<1>2. NoUser \in User /\ NoUser.status = "absent" /\ NoUser.epoch = 0
  BY <1>1 DEF NoUser, User, Roles
<1>3. /\ [NoUser EXCEPT !.role = "admin", !.status = "active"] \in User
      /\ [NoUser EXCEPT !.role = "admin", !.status = "active"].role = "admin"
      /\ [NoUser EXCEPT !.role = "admin", !.status = "active"].status = "active"
      /\ [NoUser EXCEPT !.role = "admin", !.status = "active"].epoch = 0
  BY <1>1 DEF NoUser, User, Roles
<1>4. /\ [NoUser EXCEPT !.status = "active", !.seeded = 1] \in User
      /\ [NoUser EXCEPT !.status = "active", !.seeded = 1].seeded = 1
      /\ [NoUser EXCEPT !.status = "active", !.seeded = 1].epoch = 0
  BY <1>1 DEF NoUser, User, Roles
<1>5. Unissued \in Session /\ Unissued.state = "unissued" /\ Unissued.user = NoName
  BY <1>1 DEF Unissued, Session
<1>6. ASSUME NEW o \in Name
      PROVE  /\ [Unissued EXCEPT !.user = o, !.state = "open"] \in Session
             /\ [Unissued EXCEPT !.user = o, !.state = "open"].user = o
             /\ [Unissued EXCEPT !.user = o, !.state = "open"].state = "open"
             /\ [Unissued EXCEPT !.user = o, !.state = "open"].epoch = 0
  BY <1>1 DEF Unissued, Session
<1>7. /\ app_users \in [Name -> User]
      /\ \A u \in Name : /\ app_users[u].epoch = 0
                         /\ Exists(u) /\ app_users[u].role = "user" => app_users[u].seeded > 0
  <2>1. CASE app_users = [u \in Name |-> NoUser]
    BY <1>2, <2>1 DEF Exists
  <2>2. CASE app_users = [u \in Name |->
               IF u \in Founders THEN [NoUser EXCEPT !.role = "admin", !.status = "active"]
               ELSE IF u \in Members THEN [NoUser EXCEPT !.status = "active", !.seeded = 1]
               ELSE NoUser]
    <3> SUFFICES ASSUME NEW u \in Name
                 PROVE  /\ app_users[u] \in User /\ app_users[u].epoch = 0
                        /\ Exists(u) /\ app_users[u].role = "user" => app_users[u].seeded > 0
      BY <2>2
    <3>1. CASE u \in Founders
      BY <1>3, <2>2, <3>1
    <3>2. CASE u \notin Founders /\ u \in Members
      <4>1. app_users[u] = [NoUser EXCEPT !.status = "active", !.seeded = 1]
        BY <2>2, <3>2
      <4>2. app_users[u] \in User /\ app_users[u].epoch = 0 /\ app_users[u].seeded = 1
        BY <1>4, <4>1
      <4> QED
        BY <4>2
    <3>3. CASE u \notin Founders /\ u \notin Members
      BY <1>2, <2>2, <3>3 DEF Exists
    <3> QED
      BY <3>1, <3>2, <3>3
  <2> QED
    BY <2>1, <2>2 DEF AcInit
<1>8. /\ user_sessions \in [Token -> Session]
      /\ \A t \in Token :
           \/ user_sessions[t] = Unissued
           \/ /\ user_sessions[t].state = "open" /\ user_sessions[t].epoch = 0
              /\ user_sessions[t].user \in Name /\ Exists(user_sessions[t].user)
  <2>1. CASE user_sessions = [t \in Token |-> Unissued]
    BY <1>5, <2>1
  <2>2. ASSUME app_users = [u \in Name |->
                 IF u \in Founders THEN [NoUser EXCEPT !.role = "admin", !.status = "active"]
                 ELSE IF u \in Members THEN [NoUser EXCEPT !.status = "active", !.seeded = 1]
                 ELSE NoUser],
               NEW owner \in [Token -> Founders \cup {NoName}],
               user_sessions = [t \in Token |->
                 IF owner[t] = NoName THEN Unissued
                 ELSE [Unissued EXCEPT !.user = owner[t], !.state = "open"]]
        PROVE  /\ user_sessions \in [Token -> Session]
               /\ \A t \in Token :
                    \/ user_sessions[t] = Unissued
                    \/ /\ user_sessions[t].state = "open" /\ user_sessions[t].epoch = 0
                       /\ user_sessions[t].user \in Name /\ Exists(user_sessions[t].user)
    <3>1. \A f \in Founders : f \in Name /\ Exists(f)
      BY <1>3, <2>2, AccountsAssumption DEF Exists
    <3> SUFFICES ASSUME NEW t \in Token
                 PROVE  /\ user_sessions[t] \in Session
                        /\ \/ user_sessions[t] = Unissued
                           \/ /\ user_sessions[t].state = "open" /\ user_sessions[t].epoch = 0
                              /\ user_sessions[t].user \in Name /\ Exists(user_sessions[t].user)
      BY <2>2
    <3>2. CASE owner[t] = NoName
      BY <1>5, <2>2, <3>2
    <3>3. CASE owner[t] # NoName
      <4>1. owner[t] \in Founders /\ user_sessions[t] = [Unissued EXCEPT !.user = owner[t], !.state = "open"]
        BY <2>2, <3>3
      <4>2. owner[t] \in Name /\ Exists(owner[t])
        BY <3>1, <4>1
      <4>3. /\ user_sessions[t] \in Session /\ user_sessions[t].user = owner[t]
            /\ user_sessions[t].state = "open" /\ user_sessions[t].epoch = 0
        BY <1>6, <4>1, <4>2
      <4> QED
        BY <4>2, <4>3
    <3> QED
      BY <3>2, <3>3
  <2> QED
    BY <2>1, <2>2 DEF AcInit
<1>9. req = [r \in Request |-> Idle] /\ count = 0 /\ raced = {}
  BY DEF AcInit
<1>10. Idle.op = "none"
  BY DEF Idle, Local
<1>11. RowTypes /\ SeedInv
  BY <1>1, <1>7, <1>8, <1>9 DEF RowTypes, SeedInv
<1>12. SessionInv /\ SessionsFollowPassword
  BY <1>5, <1>7, <1>8 DEF SessionInv, SessionsFollowPassword, Open
<1>13. RequestInv
  BY <1>9, IdleOK DEF RequestInv
<1>14. EpochInv
  <2> SUFFICES ASSUME NEW u \in Name
               PROVE  IsFiniteSet(Pending(u)) /\ app_users[u].epoch + Cardinality(Pending(u)) <= count
    BY DEF EpochInv
  <2>1. Pending(u) = {}
    BY <1>9, <1>10 DEF Pending
  <2> QED
    BY <1>7, <1>9, <2>1, FS_EmptySet
<1> QED
  BY <1>11, <1>12, <1>13, <1>14 DEF AccountsInv

LEMMA AccountsStep ==
  ASSUME AccountsInv, [AcNext]_acvars
  PROVE  AccountsInv'
<1>1. ASSUME NEW r \in Request, Route(r) PROVE AccountsInv'
  BY <1>1, RouteStep
<1>2. ASSUME NEW r \in Request, Transact(r) PROVE AccountsInv'
  BY <1>2, GetUserStep, CheckStep, RevokeStep, UpdateStep, ResetStep, ChangeOwnStep,
     CreateUserStep, ViewStep, BootstrapStep, InsertStep DEF Transact
<1>3. ASSUME NEW t \in Token, HandleLogout(t) PROVE AccountsInv'
  BY <1>3, LogoutStep
<1>4. ASSUME UNCHANGED acvars PROVE AccountsInv'
  BY <1>4 DEF acvars, AccountsInv, RowTypes, SeedInv, SessionInv, RequestInv, EpochInv,
     SessionsFollowPassword, LocalOK, Fresh, Exists, Open, Pending,
     EnsureActiveAdminRemains, ActiveAdmins
<1> QED
  BY <1>1, <1>2, <1>3, <1>4 DEF AcNext

\* Requests of any users in any interleaving of their statements keep AccountsInv.
THEOREM AccountsInvariance == AcSpec => []AccountsInv
  BY AccountsInitially, AccountsStep, PTL DEF AcSpec

\* The rows have their types, an open session has a user, and whoever has the
\* role user has its default UDP source port blocks
\* (seedDefaultUDPSourcePortBlocks in UpdateUser and ensureUserIdentity).
THEOREM RowsAreWhole == AcSpec => []AcTypeOK
<1>1. AccountsInv => AcTypeOK
  BY DEF AccountsInv, RowTypes, SeedInv, SessionInv, AcTypeOK
<1> QED
  BY <1>1, AccountsInvariance, PTL

\* ResetUserPassword, ChangeOwnPassword, RevokeUser, RevokeUserSessions: no
\* session outlives its password, but for a login that overlapped with the
\* change and for CreateUser with the name of an existing user.
THEOREM SessionsEndWithPassword == AcSpec => []SessionsFollowPassword
  BY AccountsInvariance, PTL DEF AccountsInv

\* Request r commits with row for its user, the role and status of which are
\* what the operation makes of them.
UserWrite(r, row) ==
  /\ Commits(r) /\ req[r].op \notin {"none", "login"} /\ req[r].target \in Name
  /\ app_users' = [app_users EXCEPT ![req[r].target] = row]
  /\ \/ req[r].op = "create"
     \/ req[r].op \in {"revoke", "update"} /\ row.status = NewStatus(req[r])
          /\ row.role = (IF req[r].op = "update" THEN NewRole(req[r])
                         ELSE app_users[req[r].target].role)
     \/ req[r].op \in {"reset", "end_sessions", "change_own"}
          /\ row.status = app_users[req[r].target].status
          /\ row.role = app_users[req[r].target].role
     \/ req[r].op = "bootstrap" /\ ~Exists(req[r].target)
          /\ row.status = "active" /\ row.role = "admin"

\* A step that changes app_users is such a commit.
LEMMA UserWrites ==
  ASSUME AccountsInv, AcNext, app_users' # app_users
  PROVE  \E r \in Request : \E row \in User : UserWrite(r, row)
<1>1. PICK r \in Request : Route(r) \/ Transact(r)
  BY DEF AcNext, HandleLogout
<1>2. ~Route(r)
  BY DEF Route, HandleMePassword, HandleAdminViewUser, HandleUserByID, HandleUsers, HandleLogin,
         BootstrapAdmin, Begin
<1>3. \/ RevokeUser(r) \/ UpdateUser(r) \/ ResetUserPassword(r) \/ ChangeOwnPassword(r)
      \/ CreateUser(r) \/ BootstrapInsert(r)
  BY <1>1, <1>2 DEF Transact, GetUser, Check, ViewUserConfig, AuthenticateInsert, Refuse
<1> DEFINE x == req[r]
           u == x.target
<1>4. ASSUME NEW row, NEW sessions, NEW causes, Write(r, row, sessions, causes)
      PROVE  app_users' = [app_users EXCEPT ![u] = row] /\ req'[r].at = "idle"
  BY <1>4 DEF Write, Idle, Local
<1>5. ASSUME x.op \notin {"none", "login"}
      PROVE  /\ u \in Name /\ app_users[u] \in User /\ x \in Locals /\ LocalOK(x)
             /\ app_users[u].epoch + 1 \in 0..MaxRequests
             /\ Bump(app_users[u]) \in User /\ Bump(app_users[u]).role = app_users[u].role
             /\ Bump(app_users[u]).status = app_users[u].status
  BY <1>5, Writer, BumpedRow
<1>6. CASE RevokeUser(r)
  <2> DEFINE row == [Bump(app_users[u]) EXCEPT !.status = "revoked"]
  <2>1. x.op = "revoke" /\ x.at = "commit"
    BY <1>6 DEF RevokeUser
  <2>2. app_users' = [app_users EXCEPT ![u] = row] /\ req'[r].at = "idle"
    BY <1>4, <1>6 DEF RevokeUser
  <2>3. row \in User /\ row.status = "revoked" /\ row.role = app_users[u].role
    BY <1>5, <2>1 DEF User
  <2>4. NewStatus(x) = "revoked"
    BY <2>1 DEF NewStatus
  <2> HIDE DEF row
  <2> QED
    BY <1>5, <2>1, <2>2, <2>3, <2>4 DEF Commits, UserWrite
<1>7. CASE UpdateUser(r)
  <2> DEFINE changed == [app_users[u] EXCEPT !.role = NewRole(x), !.status = NewStatus(x)]
             ended == NewStatus(x) # "active"
             bumped == IF ended THEN Bump(changed) ELSE changed
             row == SeedUser(x, bumped)
  <2>1. x.op = "update" /\ x.at = "commit"
    BY <1>7 DEF UpdateUser
  <2>2. app_users' = [app_users EXCEPT ![u] = row] /\ req'[r].at = "idle"
    BY <1>4, <1>7 DEF UpdateUser
  <2>3. x.before.status # "absent"
    BY <1>5, <2>1 DEF LocalOK
  <2>4. NewRole(x) \in Roles /\ NewStatus(x) \in {"active", "revoked"}
    BY <1>5, <2>1, <2>3, NewValues
  <2>5. /\ changed \in User /\ changed.role = NewRole(x) /\ changed.status = NewStatus(x)
        /\ changed.epoch = app_users[u].epoch
    BY <1>5, <2>1, <2>4 DEF User
  <2> HIDE DEF changed
  <2>6. bumped \in User /\ bumped.role = NewRole(x) /\ bumped.status = NewStatus(x)
    BY <1>5, <2>1, <2>5, BumpedRow
  <2> HIDE DEF bumped
  <2>7. row \in User /\ row.role = NewRole(x) /\ row.status = NewStatus(x)
    BY <2>6, SeededRow DEF SeedUser
  <2> HIDE DEF row
  <2> QED
    BY <1>5, <2>1, <2>2, <2>7 DEF Commits, UserWrite
<1>8. CASE ResetUserPassword(r)
  <2>1. x.op \in {"reset", "end_sessions"} /\ x.at = "commit"
    BY <1>8 DEF ResetUserPassword
  <2>2. app_users' = [app_users EXCEPT ![u] = Bump(app_users[u])] /\ req'[r].at = "idle"
    BY <1>4, <1>8 DEF ResetUserPassword
  <2> QED
    BY <1>5, <2>1, <2>2 DEF Commits, UserWrite
<1>9. CASE ChangeOwnPassword(r)
  <2>1. x.op = "change_own" /\ x.at = "commit"
    BY <1>9 DEF ChangeOwnPassword
  <2>2. app_users' = [app_users EXCEPT ![u] = Bump(app_users[u])] /\ req'[r].at = "idle"
    BY <1>4, <1>9 DEF ChangeOwnPassword
  <2> QED
    BY <1>5, <2>1, <2>2 DEF Commits, UserWrite
<1>10. CASE CreateUser(r)
  <2> DEFINE e == IF Exists(u) THEN app_users[u].epoch + 1 ELSE 0
             new == [app_users[u] EXCEPT !.role = x.role, !.status = "active", !.epoch = e]
             row == IF x.role = "user" THEN Seed(new) ELSE new
  <2>1. x.op = "create"
    BY <1>10 DEF CreateUser
  <2>2. app_users' = [app_users EXCEPT ![u] = row] /\ req'[r].at = "idle"
    BY <1>4, <1>10 DEF CreateUser
  <2>3. x.at = "commit" /\ x.role \in Roles /\ e \in 0..MaxRequests
    BY <1>5, <2>1, AccountsAssumption DEF LocalOK
  <2> HIDE DEF e
  <2>4. new \in User
    BY <1>5, <2>1, <2>3 DEF User
  <2> HIDE DEF new
  <2>5. row \in User
    BY <2>4, SeededRow
  <2> HIDE DEF row
  <2> QED
    BY <1>5, <2>1, <2>2, <2>3, <2>5 DEF Commits, UserWrite
<1>11. CASE BootstrapInsert(r)
  <2> DEFINE row == [NoUser EXCEPT !.role = "admin", !.status = "active"]
  <2>1. x.op = "bootstrap" /\ ~Exists(u) /\ Write(r, row, user_sessions, {})
    BY <1>11 DEF BootstrapInsert, Refuse
  <2>2. app_users' = [app_users EXCEPT ![u] = row] /\ req'[r].at = "idle"
    BY <1>4, <2>1
  <2>3. x.at = "commit"
    BY <1>5, <2>1 DEF LocalOK
  <2>4. row \in User /\ row.role = "admin" /\ row.status = "active"
    <3>1. 0 \in 0..MaxRequests /\ 0 \in 0..2
      BY AccountsAssumption
    <3> QED
      BY <3>1 DEF NoUser, User, Roles
  <2> HIDE DEF row
  <2> QED
    BY <1>5, <2>1, <2>2, <2>3, <2>4 DEF Commits, UserWrite
<1> QED
  BY <1>3, <1>6, <1>7, <1>8, <1>9, <1>10, <1>11

\* RevokeUser: a revoked user comes back only through a request that asks for
\* it, or through an UpdateUser whose read has become out of date.
THEOREM RevokedUsersStayRevoked == AcSpec => RevocationSticks
<1>1. ASSUME AccountsInv, [AcNext]_acvars
      PROVE  [\A u \in Name :
                app_users[u].status = "revoked" /\ app_users'[u].status = "active" =>
                  \E r \in Request :
                    /\ Commits(r) /\ req[r].target = u
                    /\ \/ req[r].op = "create"
                       \/ req[r].op = "update" /\ (req[r].status = "active" \/ req[r].stale)]_acvars
  <2> SUFFICES ASSUME AcNext, NEW u \in Name,
                      app_users[u].status = "revoked", app_users'[u].status = "active"
               PROVE  \E r \in Request :
                        /\ Commits(r) /\ req[r].target = u
                        /\ \/ req[r].op = "create"
                           \/ req[r].op = "update" /\ (req[r].status = "active" \/ req[r].stale)
    BY <1>1
  <2>1. app_users' # app_users
    OBVIOUS
  <2>2. PICK r \in Request, row \in User : UserWrite(r, row)
    BY <1>1, <2>1, UserWrites
  <2>3. app_users \in [Name -> User] /\ Fresh(req[r]) /\ req[r].at = "commit"
    BY <1>1, <2>2 DEF AccountsInv, RowTypes, RequestInv, Commits, UserWrite
  <2>4. req[r].target = u /\ row.status = "active"
    BY <2>2, <2>3 DEF UserWrite
  <2>5. CASE req[r].op = "update" /\ row.status = NewStatus(req[r])
    <3>1. ASSUME req[r].status # "active", ~req[r].stale PROVE FALSE
      <4>1. req[r].before = Columns(app_users[u])
        BY <2>3, <2>4, <2>5, <3>1 DEF Fresh
      <4>2. req[r].before.status = "revoked"
        BY <4>1 DEF Columns
      <4> QED
        BY <2>4, <2>5, <3>1, <4>2 DEF NewStatus
    <3> QED
      BY <2>2, <2>4, <2>5, <3>1 DEF UserWrite
  <2>6. CASE req[r].op = "revoke" /\ row.status = NewStatus(req[r])
    BY <2>4, <2>6 DEF NewStatus
  <2> QED
    BY <2>2, <2>4, <2>5, <2>6 DEF UserWrite, Exists
<1> QED
  BY <1>1, AccountsInvariance, PTL DEF AcSpec, RevocationSticks

\* ensureActiveAdminRemains: the last active admin goes only through requests
\* whose count has become out of date, or CreateUser, which does not count.
THEOREM LastAdminStays == AcSpec => LastAdminKept
<1>1. ASSUME AccountsInv, [AcNext]_acvars
      PROVE  [ActiveAdmins # {} /\ ActiveAdmins' = {} =>
                \E r \in Request : Commits(r) /\ (req[r].stale \/ req[r].op = "create")]_acvars
  <2> SUFFICES ASSUME AcNext, ActiveAdmins # {}, ActiveAdmins' = {},
                      \A r \in Request : Commits(r) => ~req[r].stale /\ req[r].op # "create"
               PROVE  FALSE
    BY <1>1
  <2>1. app_users' # app_users
    BY DEF ActiveAdmins
  <2>2. PICK r \in Request, row \in User : UserWrite(r, row)
    BY <1>1, <2>1, UserWrites
  <2> DEFINE x == req[r]
             u == x.target
  <2>3. /\ app_users \in [Name -> User] /\ Fresh(x) /\ x.at = "commit" /\ ~x.stale
        /\ x.op # "create"
    BY <1>1, <2>2 DEF AccountsInv, RowTypes, RequestInv, Commits, UserWrite
  <2>4. app_users'[u] = row /\ \A v \in Name : v # u => app_users'[v] = app_users[v]
    BY <2>2, <2>3 DEF UserWrite
  <2>5. ActiveAdmins \ {u} = {}
    BY <2>4 DEF ActiveAdmins
  <2>6. u \in ActiveAdmins /\ ~(row.role = "admin" /\ row.status = "active")
    BY <2>2, <2>4, <2>5 DEF UserWrite, ActiveAdmins
  <2>7. app_users[u].role = "admin" /\ app_users[u].status = "active"
    BY <2>6 DEF ActiveAdmins
  <2>8. /\ x.op \in {"revoke", "update"} /\ row.status = NewStatus(x)
        /\ row.role = IF x.op = "update" THEN NewRole(x) ELSE app_users[u].role
    BY <2>2, <2>3, <2>6, <2>7 DEF UserWrite
  <2>9. x.before = Columns(app_users[u]) /\ EnsureActiveAdminRemains(x)
    BY <2>3, <2>8 DEF Fresh
  <2>10. x.before.role = "admin"
    BY <2>7, <2>9 DEF Columns
  <2>11. NewRole(x) = "admin" /\ NewStatus(x) = "active"
    BY <2>5, <2>9, <2>10 DEF EnsureActiveAdminRemains
  <2> QED
    BY <2>6, <2>7, <2>8, <2>11
<1> QED
  BY <1>1, AccountsInvariance, PTL DEF AcSpec, LastAdminKept
=============================================================================
