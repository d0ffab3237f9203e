--------------------------- MODULE SnapshotStore ---------------------------
(***************************************************************************)
(* How Control publishes policy snapshots: handlers run concurrently, each *)
(* in PostgreSQL transactions of the default isolation level, where every  *)
(* statement sees what is committed when it starts and what its own        *)
(* transaction has written (internal/control/snapshot.go, policy_store.go, *)
(* admin_console.go, feed.go, policy_scope.go).                            *)
(*                                                                         *)
(* A change of a user's row and the snapshot that follows from it are one  *)
(* transaction; a change of a row that every user shares is committed      *)
(* first, and then each active user's snapshot in a transaction of its     *)
(* own. A row is enabled or not. One with an expires_at lapses when its    *)
(* time has come, and no handler is told of it.                            *)
(***************************************************************************)
EXTENDS Integers, Sequences, FiniteSets

CONSTANTS
  Handler,     \* concurrent requests and schedulers
  Owners,      \* the active users, in the order of activeOwnerUserIDs
  Row,         \* configuration rows: services, rules, lists, feed entries
  Global,      \* the scope of admin_global and feed rows
  ScopeOf,     \* [Row -> users and Global]
  KeyOf,       \* [Row -> what the row is about: a CIDR, a port, an id]
  RankOf,      \* [Row -> Nat], which of two rows with one key is preferred
  PartOf,      \* [Row -> 1..Parts], the query that reads the row
  Parts,       \* the queries of buildEffectiveSnapshot
  Lapsing,     \* the rows that have an expires_at
  NoRow,
  MaxVersion,  \* bound on the snapshots of a user
  May,         \* [Handler -> the kinds of requests it serves]
  Asking,      \* bound: the users who ask for a rebuild or a rollback
  Faults       \* {"db"} when a statement may fail

Owner == {Owners[i] : i \in 1..Len(Owners)}

ASSUME StoreAssumption ==
  /\ Owners \in Seq(Owner)
  /\ Global \notin Owner /\ NoRow \notin Row
  /\ ScopeOf \in [Row -> Owner \cup {Global}]
  /\ RankOf \in [Row -> Nat]
  /\ \A r, s \in Row : r # s /\ KeyOf[r] = KeyOf[s] => RankOf[r] # RankOf[s]
  /\ Parts \in Nat \ {0} /\ MaxVersion \in Nat
  /\ PartOf \in [Row -> 1..Parts] /\ Lapsing \subseteq Row
  /\ May \in [Handler -> SUBSET {"own", "global", "rebuild", "rollback"}]
  /\ Asking \subseteq Owner

VARIABLES
  rows,     \* the committed enabled rows
  lapsed,   \* the rows whose expires_at has passed
  snaps,    \* policy_snapshots: snaps[o][n] is version n of owner o
  tx,       \* the handlers and their transactions
  skipped   \* history: owners whose last publication may have missed a change

stvars == <<rows, lapsed, snaps, tx, skipped>>

-----------------------------------------------------------------------------

\* A snapshot and where it came from (rollback_from).
Snapshot(content, rollback) == [content |-> content, rollback |-> rollback]

\* The locals of a handler. row and on: what its transaction has changed; todo:
\* the owners rebuildAll is not done with; target: the version to roll back to, 0 if none;
\* base: the latest version when it was read; read: the rows that the first
\* "part" queries returned, and then the content; insert: it has inserted version base + 1;
\* asof: what had lapsed when a rebuild's transaction began, which is PostgreSQL's now();
\* missed, a history: since it began to build, another handler has ended with the
\* same owner, and without a version that this one would conflict with.
Begin(at, owner, row, on, todo, target) ==
  [at |-> at, owner |-> owner, row |-> row, on |-> on, todo |-> todo,
   target |-> target, base |-> 0, read |-> {}, part |-> 0,
   insert |-> FALSE, missed |-> FALSE, asof |-> IF at = "latest" /\ target = 0 THEN lapsed ELSE {}]
Idle == Begin("idle", Global, NoRow, FALSE, <<>>, 0)

Become(t, record) == tx' = [tx EXCEPT ![t] = record]

\* What the statements of a transaction see.
Changed(S, x) ==
  IF x.row = NoRow THEN S ELSE IF x.on THEN S \cup {x.row} ELSE S \ {x.row}
Visible(t) == Changed(rows, tx[t])

InScope(S, o) == {r \in S : ScopeOf[r] \in {o, Global}}

\* One row per key: the preferred one.
Effective(S) ==
  {r \in S : \A s \in S : KeyOf[s] = KeyOf[r] => RankOf[s] <= RankOf[r]}

Latest(o) ==
  IF snaps[o] = <<>> THEN Snapshot({}, FALSE) ELSE snaps[o][Len(snaps[o])]

StInit ==
  /\ rows = {}
  /\ lapsed = {}
  /\ snaps = [o \in Owner |-> <<>>]
  /\ tx = [t \in Handler |-> Idle]
  /\ skipped = {}

-----------------------------------------------------------------------------
(* Requests *)

\* A user creates, updates or disables a row of theirs, or the scheduler
\* expires one. The row lock is held until the transaction ends.
MutateOwn(t, r, on) ==
  /\ "own" \in May[t]
  /\ tx[t].at = "idle"
  /\ ScopeOf[r] # Global
  /\ \A u \in Handler : tx[u].row # r
  /\ (r \in rows) # on
  /\ Become(t, Begin("latest", ScopeOf[r], r, on, <<>>, 0))
  /\ UNCHANGED <<rows, lapsed, snaps, skipped>>

\* The same for an admin_global row or for the rows of a feed.
MutateGlobal(t, r, on) ==
  /\ "global" \in May[t]
  /\ tx[t].at = "idle"
  /\ ScopeOf[r] = Global
  /\ \A u \in Handler : tx[u].row # r
  /\ (r \in rows) # on
  /\ Become(t, Begin("commit", Global, r, on, Owners, 0))
  /\ UNCHANGED <<rows, lapsed, snaps, skipped>>

RebuildSnapshot(t, o) ==
  /\ "rebuild" \in May[t]
  /\ tx[t].at = "idle"
  /\ Become(t, Begin("latest", o, NoRow, FALSE, <<>>, 0))
  /\ UNCHANGED <<rows, lapsed, snaps, skipped>>

RollbackSnapshot(t, o, v) ==
  /\ "rollback" \in May[t]
  /\ tx[t].at = "idle"
  /\ Become(t, Begin("latest", o, NoRow, FALSE, <<>>, v))
  /\ UNCHANGED <<rows, lapsed, snaps, skipped>>

-----------------------------------------------------------------------------
(* rebuildSnapshotInTx and RollbackSnapshot *)

\* VerifyPolicySnapshot refuses a content with an entry that has expired by now.
Verified(S) == IF S \cap lapsed = {} THEN "insert" ELSE "refused"

\* latestSnapshot; a rollback reads its target next and builds nothing.
ReadLatest(t) ==
  LET x == tx[t]  o == x.owner
      old == IF x.target = 0 THEN {} ELSE snaps[o][x.target].content
  IN  /\ x.at = "latest"
      /\ Become(t, [x EXCEPT
           !.at = IF x.target = 0 THEN "build" ELSE Verified(old),
           !.base = Len(snaps[o]),
           !.read = old,
           !.part = 0])
      /\ UNCHANGED <<rows, lapsed, snaps, skipped>>

\* One query of buildEffectiveSnapshot; the last one completes the content.
ReadPart(t) ==
  LET x == tx[t]
      found == x.read \cup {r \in InScope(Visible(t), x.owner) \ x.asof :
                               PartOf[r] = x.part + 1}
  IN  /\ x.at = "build"
      /\ Become(t,
           IF x.part + 1 < Parts
             THEN [x EXCEPT !.read = found, !.part = @ + 1]
             ELSE [x EXCEPT !.at = Verified(Effective(found)),
                            !.read = Effective(found), !.part = 0, !.asof = {}])
      /\ UNCHANGED <<rows, lapsed, snaps, skipped>>

\* The same fingerprint as the snapshot that was the latest: no new version.
SameContent(t) ==
  /\ tx[t].target = 0
  /\ tx[t].base # 0
  /\ tx[t].read = snaps[tx[t].owner][tx[t].base].content

Unchanged(t) ==
  /\ tx[t].at = "insert"
  /\ SameContent(t)
  /\ Become(t, [tx[t] EXCEPT !.at = "commit"])
  /\ UNCHANGED <<rows, lapsed, snaps, skipped>>

NeedsInsert(t) == tx[t].at = "insert" /\ ~SameContent(t)

\* Another transaction has inserted the same primary key: wait for its end.
KeyLocked(t) ==
  \E u \in Handler : /\ tx[u].insert
                     /\ tx[u].owner = tx[t].owner
                     /\ tx[u].base = tx[t].base

\* Faulty variant: an insert that does not mind the primary key.
InsertUnchecked(t) ==
  /\ NeedsInsert(t)
  /\ Len(snaps[tx[t].owner]) < MaxVersion
  /\ Become(t, [tx[t] EXCEPT !.at = "commit", !.insert = TRUE])
  /\ UNCHANGED <<rows, lapsed, snaps, skipped>>

Insert(t) ==
  /\ NeedsInsert(t)
  /\ Len(snaps[tx[t].owner]) = tx[t].base
  /\ ~KeyLocked(t)
  /\ tx[t].base < MaxVersion
  /\ Become(t, [tx[t] EXCEPT !.at = "commit", !.insert = TRUE])
  /\ UNCHANGED <<rows, lapsed, snaps, skipped>>

\* The change itself is being committed, before any owner is rebuilt.
mutating(t) == tx[t].owner = Global /\ tx[t].at = "commit"

\* Handler t goes on with record; who is building for an owner of S has missed
\* what t had to do for them.
BecomeMissed(t, record, S) ==
  tx' = [u \in Handler |->
    IF u = t THEN record
    ELSE IF tx[u].owner \in S /\ tx[u].at \in {"build", "insert", "commit"}
    THEN [tx[u] EXCEPT !.missed = TRUE] ELSE tx[u]]

Todo(t) == {tx[t].todo[i] : i \in 1..Len(tx[t].todo)}

\* The handler returns an error and its transaction is rolled back. A failed
\* rebuildAll is not taken up again: the owners it was not done with are left
\* as they are.
Abort(t) ==
  LET left == IF mutating(t) THEN {} ELSE Todo(t) IN
  /\ skipped' = skipped \cup left
  /\ BecomeMissed(t, Idle, left)
  /\ UNCHANGED <<rows, lapsed, snaps>>

\* The primary key exists. A bound on versions ends a handler here too.
InsertConflict(t) ==
  /\ NeedsInsert(t)
  /\ Len(snaps[tx[t].owner]) > tx[t].base \/ tx[t].base = MaxVersion
  /\ Abort(t)

VerifyRefuses(t) == tx[t].at = "refused" /\ Abort(t)

\* Any other statement fails, or Control goes down.
StatementFails(t) ==
  /\ "db" \in Faults
  /\ tx[t].at \in {"latest", "build", "insert", "commit", "owners"}
  /\ Abort(t)

-----------------------------------------------------------------------------
(* Commit and rebuildAllActiveUserSnapshots *)

\* Faulty variant: rebuildAll is left out after a change of a global row.
CommitOnly(t) ==
  LET x == tx[t]
  IN  /\ x.at = "commit"
      /\ rows' = Changed(rows, x)
      /\ snaps' = IF x.insert
                    THEN [snaps EXCEPT ![x.owner] =
                            Append(@, Snapshot(x.read, x.target # 0))]
                    ELSE snaps
      /\ Become(t, Idle)
      /\ UNCHANGED <<lapsed, skipped>>

\* A commit that changes nothing, of a rebuild that somebody has asked for.
Idles(t) == ~tx[t].insert /\ tx[t].row = NoRow /\ tx[t].todo = <<>>

\* History: nothing came in between what t has read and its commit.
Undisturbed(t) ==
  ~tx[t].missed /\ (tx[t].insert \/ tx[t].base = Len(snaps[tx[t].owner]))

Commit(t) ==
  LET x == tx[t]
      todo == IF mutating(t) \/ x.todo = <<>> THEN x.todo ELSE Tail(x.todo)
  IN  /\ x.at = "commit"
      /\ rows' = Changed(rows, x)
      /\ snaps' = IF x.insert
                    THEN [snaps EXCEPT ![x.owner] =
                            Append(@, Snapshot(x.read, x.target # 0))]
                    ELSE snaps
      /\ skipped' = IF mutating(t) \/ Idles(t) \/ x.target # 0 THEN skipped
                    ELSE IF Undisturbed(t) THEN skipped \ {x.owner}
                    ELSE skipped \cup {x.owner}
      /\ BecomeMissed(t,
           IF todo = <<>> THEN Idle ELSE Begin("owners", Global, NoRow, FALSE, todo, 0),
           IF mutating(t) \/ Idles(t) \/ x.insert THEN {} ELSE {x.owner})
      /\ UNCHANGED lapsed

NextOwner(t) ==
  /\ tx[t].at = "owners"
  /\ Become(t, Begin("latest", Head(tx[t].todo), NoRow, FALSE, tx[t].todo, 0))
  /\ UNCHANGED <<rows, lapsed, snaps, skipped>>

-----------------------------------------------------------------------------

Request(t) ==
  \/ \E r \in Row, on \in BOOLEAN : MutateOwn(t, r, on) \/ MutateGlobal(t, r, on)
  \/ \E o \in Asking : \/ RebuildSnapshot(t, o)
                       \/ \E v \in 1..Len(snaps[o]) : RollbackSnapshot(t, o, v)

Statement(t) ==
  \/ ReadLatest(t) \/ ReadPart(t)
  \/ Unchanged(t) \/ Insert(t) \/ InsertConflict(t) \/ VerifyRefuses(t)
  \/ Commit(t) \/ NextOwner(t)

\* The expires_at of a row passes. A row that is given a later one counts as
\* another row.
Lapse(r) ==
  /\ r \in Lapsing \ lapsed
  /\ lapsed' = lapsed \cup {r}
  /\ UNCHANGED <<rows, snaps, tx, skipped>>

StNext ==
  \/ \E t \in Handler : Request(t) \/ Statement(t) \/ StatementFails(t)
  \/ \E r \in Row : Lapse(r)

StSpec == StInit /\ [][StNext]_stvars

-----------------------------------------------------------------------------
(* Properties *)

quiescent == \A t \in Handler : tx[t].at = "idle"

\* The latest snapshot of an owner is what the committed rows say, but for rows
\* that had lapsed when it was made and what they shadow, or an older content
\* that the owner has rolled back to.
UpToDate(o) ==
  \/ Latest(o).rollback
  \/ \E gone \in SUBSET lapsed : Latest(o).content = Effective(InScope(rows, o) \ gone)

\* Once every handler has returned, each owner's latest snapshot is up to date,
\* however users' requests and rebuildAll interleaved and failed, with two
\* exceptions (snapshot.go:40-110, policy_scope.go:150-167, feed.go:488-513). A
\* rebuildAll that fails leaves out the owners it was not done with. And of two
\* handlers that build at the same time, one may find nothing to publish and
\* commit its change without a version, on which the other would have failed:
\* that one then publishes what it had read before. The next change that is
\* published for the owner repairs both.
PublishedUpToDate == quiescent => \A o \in Owner \ skipped : UpToDate(o)

\* A version is published on top of the very snapshot its content was compared
\* with: two handlers never publish successors of the same version
\* (snapshot.go:40-48, 84-92).
SuccessorOfBase ==
  [][\A t \in Handler :
       tx[t].at = "commit" /\ tx[t].insert =>
         \A o \in {tx[t].owner} :
           snaps'[o] # snaps[o] => Len(snaps'[o]) = tx[t].base + 1]_stvars
=============================================================================
