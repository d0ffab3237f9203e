------------------------ MODULE SnapshotStoreProofs ------------------------
(***************************************************************************)
(* Proofs about the publication of snapshots, for any number of handlers,  *)
(* users, rows and queries, and rows that shadow one another. A handler    *)
(* that builds has in its hands what the rows say, unless it has lost its  *)
(* version to another, is marked, or a rebuildAll will yet come to the     *)
(* owner: StoreInv.                                                        *)
(***************************************************************************)
EXTENDS SnapshotStore, SequenceTheorems, TLAPS

Working == {"latest", "build", "insert", "commit"}

TxRecord ==
  [at : Working \cup {"idle", "owners", "refused"}, owner : Owner \cup {Global},
   row : Row \cup {NoRow}, on : BOOLEAN, todo : Seq(Owner), target : Nat,
   base : Nat, read : SUBSET Row, part : Nat, insert : BOOLEAN,
   missed : BOOLEAN, asof : SUBSET Row]

StoreTypes ==
  /\ rows \subseteq Row /\ lapsed \subseteq Row
  /\ snaps \in [Owner -> Seq([content : SUBSET Row, rollback : BOOLEAN])]
  /\ tx \in [Handler -> TxRecord]
  /\ skipped \subseteq Owner

\* How the locals of handler t go together. Only who commits a shared row has
\* no owner; who rebuilds as part of rebuildAll does it for the head of todo.
LocalOK(t) ==
  LET x == tx[t] IN
  /\ x.at \in {"latest", "build", "insert"} => x.owner # Global
  /\ x.at = "idle" => x.todo = <<>> /\ x.row = NoRow
  /\ x.at = "owners" => x.todo # <<>> /\ x.row = NoRow
  /\ x.row # NoRow => ScopeOf[x.row] = x.owner
  /\ x.target # 0 => x.row = NoRow /\ x.todo = <<>> /\ x.owner # Global
  /\ x.at \in Working \cup {"refused"} /\ x.owner # Global /\ x.todo # <<>> =>
       x.row = NoRow /\ x.owner = Head(x.todo)
  /\ mutating(t) => x.todo = Owners /\ ~x.insert /\ x.row # NoRow

LocalInv == \A t \in Handler : LocalOK(t)

\* Who has inserted a version is alone with it, and it is the next one.
VersionInv ==
  /\ \A t \in Handler : tx[t].insert =>
       /\ tx[t].at = "commit" /\ tx[t].owner # Global
       /\ Len(snaps[tx[t].owner]) = tx[t].base
  /\ \A t, u \in Handler : tx[t].insert /\ tx[u].insert /\ tx[t].owner = tx[u].owner => t = u

\* A rebuildAll will yet come to owner o.
Coming(t, o) == ~mutating(t) /\ o \in Todo(t)

\* Handler t makes a snapshot from the rows for its owner.
Rebuilding(t) ==
  tx[t].target = 0 /\ tx[t].owner # Global /\ tx[t].at \in {"build", "insert", "commit"}

\* What t holds need not be what the rows say: it is marked, its version is
\* taken, or another handler will yet rebuild the owner.
Excused(t) ==
  \/ tx[t].missed
  \/ tx[t].base < Len(snaps[tx[t].owner])
  \/ \E g \in Handler \ {t} : Coming(g, tx[t].owner)

\* t holds what its transaction sees: of the queries done so far, and then of all.
Faithful(t) ==
  LET x == tx[t] IN
  /\ x.at = "build" =>
       x.read = {r \in InScope(Visible(t), x.owner) \ x.asof : PartOf[r] <= x.part}
  /\ x.at # "build" =>
       \E gone \in SUBSET lapsed : x.read = Effective(InScope(Visible(t), x.owner) \ gone)

BuildOK(t) ==
  LET x == tx[t] IN
  /\ x.asof \subseteq lapsed
  /\ x.at = "build" => x.part \in 0..(Parts - 1)
  /\ x.target # 0 => x.target <= Len(snaps[x.owner])
  /\ Rebuilding(t) =>
       /\ x.base <= Len(snaps[x.owner])
       /\ x.at = "commit" /\ ~x.insert =>
            x.base # 0 /\ x.read = snaps[x.owner][x.base].content
       /\ Excused(t) \/ Faithful(t)

BuildInv == \A t \in Handler : BuildOK(t)

\* The latest snapshot of an owner is up to date, unless it is on record as
\* left out or a rebuildAll will yet come.
PublishedInv ==
  \A o \in Owner \ skipped : UpToDate(o) \/ \E g \in Handler : Coming(g, o)

StoreInv == StoreTypes /\ LocalInv /\ VersionInv /\ BuildInv /\ PublishedInv

-----------------------------------------------------------------------------
(* The operators *)

\* An owner is never Global, and rebuildAll starts with every owner.
LEMMA OwnersListed ==
  /\ Global \notin Owner /\ NoRow \notin Row /\ Owners \in Seq(Owner)
  /\ Owner = {Owners[i] : i \in 1..Len(Owners)}
  /\ Owners = <<>> => Owner = {}
BY StoreAssumption DEF StoreAssumption, Owner

\* Who leaves the head of a list keeps all the others.
LEMMA TailKeeps ==
  ASSUME NEW S, NEW s \in Seq(S), s # <<>>,
         NEW i \in 1..Len(s), s[i] # Head(s)
  PROVE  /\ Tail(s) \in Seq(S) /\ Tail(s) # <<>>
         /\ \E j \in 1..Len(Tail(s)) : Tail(s)[j] = s[i]
<1>1. i # 1
  BY HeadTailProperties
<1>2. /\ Tail(s) \in Seq(S) /\ Len(Tail(s)) = Len(s) - 1
      /\ \A j \in 1..Len(Tail(s)) : Tail(s)[j] = s[j + 1]
  BY HeadTailProperties
<1>3. i - 1 \in 1..Len(Tail(s)) /\ Tail(s)[i - 1] = s[i]
  BY <1>1, <1>2, LenProperties
<1>4. Tail(s) # <<>>
  BY <1>3, 1..Len(<<>>) = {}
<1> QED
  BY <1>2, <1>3, <1>4

\* The effective rows of a set are among them.
LEMMA EffectiveWithin ==
  ASSUME NEW S PROVE Effective(S) \subseteq S
BY DEF Effective

\* A change of a row of one owner is not seen by another.
LEMMA ChangeOfAnother ==
  ASSUME NEW S, NEW x, NEW o \in Owner,
         x.row # NoRow => ScopeOf[x.row] # o /\ ScopeOf[x.row] # Global
  PROVE  InScope(Changed(S, x), o) = InScope(S, o)
BY OwnersListed DEF InScope, Changed

-----------------------------------------------------------------------------
(* A step of a handler that leaves the tables alone *)

\* What is known of the other handlers when one of them, t, goes on with x.
LEMMA OthersKept ==
  ASSUME StoreInv, NEW t \in Handler, NEW x, tx' = [tx EXCEPT ![t] = x],
         UNCHANGED <<rows, lapsed, snaps, skipped>>,
         \A o \in Owner : Coming(t, o)' <=> Coming(t, o),
         NEW u \in Handler, u # t
  PROVE  LocalOK(u)' /\ BuildOK(u)'
<1>1. tx'[u] = tx[u]
  BY DEF StoreInv, StoreTypes
<1>2. LocalOK(u) /\ BuildOK(u) /\ tx[u] \in TxRecord
  BY DEF StoreInv, StoreTypes, LocalInv, BuildInv
<1>3. LocalOK(u)' /\ (mutating(u)' <=> mutating(u))
  BY <1>1, <1>2 DEF LocalOK, mutating
<1>4. \A g \in Handler, o \in Owner : Coming(g, o)' <=> Coming(g, o)
  <2> TAKE g \in Handler, o \in Owner
  <2>1. CASE g = t
    BY <2>1
  <2>2. CASE g # t
    <3>1. tx'[g] = tx[g]
      BY <2>2 DEF StoreInv, StoreTypes
    <3> QED
      BY <3>1 DEF Coming, mutating, Todo
  <2> QED
    BY <2>1, <2>2
<1>5. Rebuilding(u)' <=> Rebuilding(u)
  BY <1>1 DEF Rebuilding
<1>6. ASSUME Rebuilding(u) PROVE (Excused(u)' <=> Excused(u)) /\ (Faithful(u)' <=> Faithful(u))
  <2>1. tx[u].owner \in Owner
    BY <1>2, <1>6 DEF TxRecord, Rebuilding
  <2>2. Excused(u)' <=> Excused(u)
    BY <1>1, <1>4, <2>1 DEF Excused
  <2>3. Faithful(u)' <=> Faithful(u)
    BY <1>1 DEF Faithful, Visible
  <2> QED
    BY <2>2, <2>3
<1>7. BuildOK(u)'
  BY <1>1, <1>2, <1>5, <1>6 DEF BuildOK
<1> QED
  BY <1>3, <1>7

\* A handler goes on with x, which is as it should be, and does not come to
\* another set of owners than before.
LEMMA LocalStep ==
  ASSUME StoreInv, NEW t \in Handler, NEW x \in TxRecord,
         tx' = [tx EXCEPT ![t] = x],
         UNCHANGED <<rows, lapsed, snaps, skipped>>,
         LocalOK(t)', BuildOK(t)',
         \A o \in Owner : Coming(t, o)' <=> Coming(t, o),
         x.insert =>
           /\ x.at = "commit" /\ x.owner # Global
           /\ Len(snaps[x.owner]) = x.base
           /\ \A u \in Handler \ {t} : tx[u].insert => tx[u].owner # x.owner
  PROVE  StoreInv'
<1>1. StoreTypes'
  BY DEF StoreInv, StoreTypes
<1>2. LocalInv' /\ BuildInv'
  BY OthersKept DEF LocalInv, BuildInv
<1>3. tx'[t] = x /\ \A u \in Handler \ {t} : tx'[u] = tx[u]
  BY DEF StoreInv, StoreTypes
<1>4. VersionInv'
  BY <1>3 DEF StoreInv, VersionInv
<1>5. \A g \in Handler, o \in Owner : Coming(g, o)' <=> Coming(g, o)
  BY <1>3 DEF Coming, mutating, Todo
<1>6. PublishedInv'
  <2>1. \A o \in Owner : UpToDate(o)' <=> UpToDate(o)
    BY DEF UpToDate, Latest
  <2> QED
    BY <2>1, <1>5 DEF StoreInv, PublishedInv
<1> QED
  BY <1>1, <1>2, <1>4, <1>6 DEF StoreInv

\* Nobody waits for a handler whose list is empty.
LEMMA NothingTodo ==
  ASSUME NEW t \in Handler, NEW o, tx[t].todo = <<>>
  PROVE  ~Coming(t, o)
<1>1. 1..Len(tx[t].todo) = {}
  BY EmptySeq
<1> QED
  BY <1>1 DEF Coming, Todo

\* A request begins: the handler has nothing in its hands but its locals.
LEMMA RequestBegins ==
  ASSUME StoreInv, NEW t \in Handler, tx[t].at = "idle",
         NEW at \in {"latest", "commit"}, NEW owner \in Owner \cup {Global},
         NEW row \in Row \cup {NoRow}, NEW on \in BOOLEAN,
         NEW todo \in Seq(Owner), NEW target \in Nat,
         Become(t, Begin(at, owner, row, on, todo, target)),
         UNCHANGED <<rows, lapsed, snaps, skipped>>,
         at = "latest" => owner # Global /\ todo = <<>>,
         at = "commit" => owner = Global /\ todo = Owners /\ row # NoRow,
         row # NoRow => ScopeOf[row] = owner,
         target # 0 => row = NoRow /\ at = "latest" /\ target <= Len(snaps[owner])
  PROVE  StoreInv'
<1> DEFINE x == Begin(at, owner, row, on, todo, target)
<1>1. /\ x \in TxRecord /\ x.asof \subseteq lapsed
      /\ x.at = at /\ x.owner = owner /\ x.row = row /\ x.on = on /\ x.todo = todo
      /\ x.target = target /\ ~x.insert
  BY DEF Begin, TxRecord, Working, StoreInv, StoreTypes
<1>2. tx' = [tx EXCEPT ![t] = x] /\ tx'[t] = x
  BY DEF Become, StoreInv, StoreTypes
<1> HIDE DEF x
<1>3. LocalOK(t)'
  BY <1>1, <1>2 DEF LocalOK, mutating, Working
<1>4. BuildOK(t)'
  BY <1>1, <1>2 DEF BuildOK, Rebuilding
<1>5. tx[t].todo = <<>>
  BY DEF StoreInv, LocalInv, LocalOK
<1>6. \A o \in Owner : Coming(t, o)' <=> Coming(t, o)
  <2> TAKE o \in Owner
  <2>1. ~Coming(t, o)
    BY <1>5, NothingTodo
  <2>2. CASE at = "commit"
    BY <2>1, <2>2, <1>1, <1>2 DEF Coming, mutating
  <2>3. CASE at = "latest"
    <3>1. tx'[t].todo = <<>>
      BY <2>3, <1>1, <1>2
    <3>2. 1..Len(tx'[t].todo) = {}
      BY <3>1, EmptySeq
    <3> QED
      BY <3>2, <2>1 DEF Coming, Todo
  <2> QED
    BY <2>2, <2>3
<1> QED
  BY <1>1, <1>2, <1>3, <1>4, <1>6, LocalStep

LEMMA RequestStep ==
  ASSUME StoreInv, NEW t \in Handler, Request(t)
  PROVE  StoreInv'
<1>1. ASSUME NEW r \in Row, NEW on \in BOOLEAN, MutateOwn(t, r, on) PROVE StoreInv'
  <2>1. ScopeOf[r] \in Owner /\ r # NoRow /\ r \in Row \cup {NoRow} /\ <<>> \in Seq(Owner)
    BY <1>1, StoreAssumption, EmptySeq DEF StoreAssumption, MutateOwn
  <2>2. ScopeOf[r] # Global /\ ScopeOf[r] \in Owner \cup {Global} /\ 0 \in Nat
    BY <2>1, OwnersListed
  <2> QED
    BY <1>1, <2>1, <2>2, RequestBegins DEF MutateOwn
<1>2. ASSUME NEW r \in Row, NEW on \in BOOLEAN, MutateGlobal(t, r, on) PROVE StoreInv'
  <2>1. r # NoRow /\ r \in Row \cup {NoRow} /\ Owners \in Seq(Owner) /\ 0 \in Nat
    BY OwnersListed
  <2> QED
    BY <1>2, <2>1, RequestBegins DEF MutateGlobal
<1>3. ASSUME NEW o \in Asking, RebuildSnapshot(t, o) PROVE StoreInv'
  <2>1. o \in Owner \cup {Global} /\ o # Global /\ <<>> \in Seq(Owner) /\ 0 \in Nat
    BY StoreAssumption, EmptySeq DEF StoreAssumption
  <2> QED
    BY <1>3, <2>1, RequestBegins DEF RebuildSnapshot
<1>4. ASSUME NEW o \in Asking, NEW v \in 1..Len(snaps[o]), RollbackSnapshot(t, o, v)
      PROVE  StoreInv'
  <2>1. o \in Owner \cup {Global} /\ o # Global /\ <<>> \in Seq(Owner) /\ v \in Nat
    BY StoreAssumption, EmptySeq DEF StoreAssumption
  <2>2. v <= Len(snaps[o])
    <3>1. Len(snaps[o]) \in Nat
      BY <2>1, LenProperties DEF StoreInv, StoreTypes
    <3> QED
      BY <3>1
  <2> QED
    BY <1>4, <2>1, <2>2, RequestBegins DEF RollbackSnapshot
<1> QED
  BY <1>1, <1>2, <1>3, <1>4 DEF Request

\* The latest version is read, and the queries begin; a rollback has its
\* content at once.
LEMMA ReadLatestStep ==
  ASSUME StoreInv, NEW t \in Handler, ReadLatest(t)
  PROVE  StoreInv'
<1> DEFINE o == tx[t].owner
           old == IF tx[t].target = 0 THEN {} ELSE snaps[o][tx[t].target].content
           at == IF tx[t].target = 0 THEN "build" ELSE Verified(old)
           x == [tx[t] EXCEPT !.at = at, !.base = Len(snaps[o]), !.read = old, !.part = 0]
<1>1. /\ tx[t].at = "latest" /\ tx' = [tx EXCEPT ![t] = x]
      /\ UNCHANGED <<rows, lapsed, snaps, skipped>>
  BY DEF ReadLatest, Become
<1>2. tx[t] \in TxRecord /\ LocalOK(t) /\ BuildOK(t) /\ tx[t].target \in Nat
  BY DEF StoreInv, StoreTypes, LocalInv, BuildInv, TxRecord
<1>3. o \in Owner /\ o # Global
  BY <1>1, <1>2, OwnersListed DEF LocalOK, TxRecord
<1>4. /\ snaps[o] \in Seq([content : SUBSET Row, rollback : BOOLEAN])
      /\ Len(snaps[o]) \in Nat
  BY <1>3, LenProperties DEF StoreInv, StoreTypes
<1>5. old \subseteq Row
  <2>1. CASE tx[t].target = 0
    BY <2>1
  <2>2. CASE tx[t].target # 0
    <3>1. tx[t].target \in 1..Len(snaps[o])
      BY <2>2, <1>2, <1>4 DEF BuildOK
    <3>2. snaps[o][tx[t].target] \in [content : SUBSET Row, rollback : BOOLEAN]
      BY <3>1, <1>4, ElementOfSeq
    <3>3. snaps[o][tx[t].target].content \subseteq Row
      BY <3>2
    <3> QED
      BY <2>2, <3>3
  <2> QED
    BY <2>1, <2>2
<1>6. at \in {"build", "insert", "refused"} /\ (at = "build" <=> tx[t].target = 0)
  BY DEF Verified
<1> HIDE DEF at, old
<1>7. /\ x \in TxRecord /\ x.at = at /\ x.base = Len(snaps[o]) /\ x.read = old /\ x.part = 0
      /\ x.owner = o /\ x.row = tx[t].row /\ x.on = tx[t].on /\ x.todo = tx[t].todo
      /\ x.target = tx[t].target /\ x.insert = tx[t].insert /\ x.asof = tx[t].asof
  BY <1>2, <1>4, <1>5, <1>6 DEF TxRecord, Working
<1>8. tx'[t] = x
  BY <1>1 DEF StoreInv, StoreTypes
<1> HIDE DEF x
<1>9. ~tx[t].insert
  BY <1>1 DEF StoreInv, VersionInv
<1>10. LocalOK(t)'
  BY <1>1, <1>2, <1>3, <1>6, <1>7, <1>8 DEF LocalOK, mutating, Working
<1>11. \A p \in Owner : Coming(t, p)' <=> Coming(t, p)
  BY <1>1, <1>3, <1>7, <1>8 DEF Coming, mutating, Todo
<1>12. ASSUME tx[t].target = 0 PROVE Faithful(t)'
  <2>1. x.read = {} /\ x.at = "build"
    BY <1>6, <1>7, <1>12 DEF old
  <2>2. \A r \in InScope(Visible(t)', o) \ x.asof : ~(PartOf[r] <= 0)
    <3>1. InScope(Visible(t)', o) \subseteq Row
      BY <1>1, <1>2, <1>7, <1>8 DEF InScope, Visible, Changed, StoreInv, StoreTypes, TxRecord
    <3>2. \A r \in Row : PartOf[r] \in 1..Parts
      BY StoreAssumption DEF StoreAssumption
    <3> QED
      BY <3>1, <3>2, StoreAssumption DEF StoreAssumption
  <2>3. {r \in InScope(Visible(t)', o) \ x.asof : PartOf[r] <= 0} = {}
    BY <2>2
  <2> QED
    BY <2>1, <2>3, <1>7, <1>8 DEF Faithful
<1>13. BuildOK(t)'
  <2>1. Parts \in Nat \ {0}
    BY StoreAssumption DEF StoreAssumption
  <2> QED
    BY <2>1, <1>1, <1>2, <1>4, <1>6, <1>7, <1>8, <1>12 DEF BuildOK, Rebuilding
<1> QED
  BY <1>1, <1>7, <1>9, <1>10, <1>11, <1>13, LocalStep

\* One more query: of what it returns and of what was there, nothing is missing.
LEMMA ReadPartStep ==
  ASSUME StoreInv, NEW t \in Handler, ReadPart(t)
  PROVE  StoreInv'
<1> DEFINE o == tx[t].owner
           seen == InScope(Visible(t), o) \ tx[t].asof
           found == tx[t].read \cup {r \in seen : PartOf[r] = tx[t].part + 1}
           last == ~(tx[t].part + 1 < Parts)
           at == IF last THEN Verified(Effective(found)) ELSE "build"
           read == IF last THEN Effective(found) ELSE found
           part == IF last THEN 0 ELSE tx[t].part + 1
           asof == IF last THEN {} ELSE tx[t].asof
           x == [tx[t] EXCEPT !.at = at, !.read = read, !.part = part, !.asof = asof]
<1>1. tx[t] \in TxRecord /\ LocalOK(t) /\ BuildOK(t)
  BY DEF StoreInv, StoreTypes, LocalInv, BuildInv
<1>2. /\ tx[t].at = "build" /\ tx' = [tx EXCEPT ![t] = x]
      /\ UNCHANGED <<rows, lapsed, snaps, skipped>>
  <2>1. CASE last
    BY <2>1 DEF ReadPart, Become
  <2>2. CASE ~last
    <3>1. x = [tx[t] EXCEPT !.read = found, !.part = @ + 1]
      BY <2>2, <1>1 DEF TxRecord, ReadPart
    <3> QED
      BY <2>2, <3>1 DEF ReadPart, Become
  <2> QED
    BY <2>1, <2>2
<1>3. o \in Owner /\ o # Global
  BY <1>1, <1>2, OwnersListed DEF LocalOK, TxRecord
<1>4. /\ Parts \in Nat \ {0} /\ tx[t].part \in 0..(Parts - 1)
      /\ \A r \in Row : PartOf[r] \in 1..Parts
  BY <1>1, <1>2, StoreAssumption DEF StoreAssumption, BuildOK
<1>5. seen \subseteq Row /\ found \subseteq Row
  BY <1>1 DEF InScope, Visible, Changed, StoreInv, StoreTypes, TxRecord
<1>6. read \subseteq Row /\ asof \subseteq lapsed /\ asof \subseteq Row /\ part \in Nat
  BY <1>1, <1>4, <1>5, EffectiveWithin DEF BuildOK, TxRecord
<1>7. /\ at \in {"build", "insert", "refused"} /\ (at = "build" <=> ~last)
      /\ at = "build" => part \in 0..(Parts - 1)
  BY <1>4 DEF Verified
<1>8. tx[t].target = 0 /\ Faithful(t) => found = {r \in seen : PartOf[r] <= tx[t].part + 1}
  BY <1>1, <1>2, <1>4, <1>5 DEF Faithful
<1>9. last => \A r \in seen : PartOf[r] <= tx[t].part + 1
  BY <1>4, <1>5
<1> HIDE DEF at, read, part, asof
<1>10. /\ x \in TxRecord /\ x.at = at /\ x.base = tx[t].base /\ x.read = read /\ x.part = part
       /\ x.owner = o /\ x.row = tx[t].row /\ x.on = tx[t].on /\ x.todo = tx[t].todo
       /\ x.target = tx[t].target /\ x.insert = tx[t].insert /\ x.asof = asof
       /\ x.missed = tx[t].missed
  BY <1>1, <1>6, <1>7 DEF TxRecord, Working
<1>11. tx'[t] = x
  BY <1>2 DEF StoreInv, StoreTypes
<1> HIDE DEF x
<1>12. ~tx[t].insert
  BY <1>2 DEF StoreInv, VersionInv
<1>13. LocalOK(t)'
  BY <1>1, <1>2, <1>3, <1>7, <1>10, <1>11 DEF LocalOK, mutating, Working
<1>14. \A p \in Owner : Coming(t, p)' <=> Coming(t, p)
  BY <1>2, <1>3, <1>10, <1>11 DEF Coming, mutating, Todo
<1>15. Visible(t)' = Visible(t)
  BY <1>2, <1>10, <1>11 DEF Visible, Changed
<1>16. ASSUME tx[t].target = 0, Faithful(t) PROVE Faithful(t)'
  <2>1. CASE last
    <3>1. found = seen
      BY <2>1, <1>8, <1>9, <1>16
    <3>2. read = Effective(seen) /\ at # "build"
      BY <2>1, <3>1, <1>7 DEF read
    <3>3. tx[t].asof \in SUBSET lapsed'
      BY <1>1, <1>2 DEF BuildOK
    <3> QED
      BY <3>2, <3>3, <1>10, <1>11, <1>15 DEF Faithful
  <2>2. CASE ~last
    BY <2>2, <1>7, <1>8, <1>10, <1>11, <1>15, <1>16 DEF Faithful, read, part, asof
  <2> QED
    BY <2>1, <2>2
<1>17. Excused(t) => Excused(t)'
  <2>1. \A g \in Handler \ {t} : tx'[g] = tx[g]
    BY <1>2 DEF StoreInv, StoreTypes
  <2> QED
    BY <2>1, <1>2, <1>10, <1>11 DEF Excused, Coming, mutating, Todo
<1>18. BuildOK(t)'
  <2>1. Rebuilding(t)' => Rebuilding(t)
    BY <1>2, <1>10, <1>11 DEF Rebuilding
  <2>2. Rebuilding(t)' => Excused(t)' \/ Faithful(t)'
    BY <2>1, <1>1, <1>16, <1>17 DEF BuildOK, Rebuilding
  <2> QED
    BY <2>1, <2>2, <1>1, <1>2, <1>6, <1>7, <1>10, <1>11 DEF BuildOK
<1> QED
  BY <1>2, <1>10, <1>12, <1>13, <1>14, <1>18, LocalStep

\* The content is there, and the transaction may commit: with a version or,
\* when the content is that of the latest version it has read, without.
LEMMA ReadyStep ==
  ASSUME StoreInv, NEW t \in Handler, NEW ins \in BOOLEAN, tx[t].at = "insert",
         tx' = [tx EXCEPT ![t] = [tx[t] EXCEPT !.at = "commit", !.insert = ins]],
         UNCHANGED <<rows, lapsed, snaps, skipped>>,
         ins => /\ Len(snaps[tx[t].owner]) = tx[t].base
                /\ \A u \in Handler \ {t} : tx[u].insert => tx[u].owner # tx[t].owner,
         ~ins => SameContent(t)
  PROVE  StoreInv'
<1> DEFINE x == [tx[t] EXCEPT !.at = "commit", !.insert = ins]
<1>1. tx[t] \in TxRecord /\ LocalOK(t) /\ BuildOK(t)
  BY DEF StoreInv, StoreTypes, LocalInv, BuildInv
<1>2. /\ x \in TxRecord /\ x.at = "commit" /\ x.base = tx[t].base /\ x.read = tx[t].read
      /\ x.owner = tx[t].owner /\ x.row = tx[t].row /\ x.on = tx[t].on /\ x.todo = tx[t].todo
      /\ x.target = tx[t].target /\ x.asof = tx[t].asof /\ x.missed = tx[t].missed
      /\ (x.insert <=> ins) /\ x.owner # Global
  BY <1>1 DEF TxRecord, Working, LocalOK
<1>3. tx'[t] = x /\ tx' = [tx EXCEPT ![t] = x]
  BY DEF StoreInv, StoreTypes
<1> HIDE DEF x
<1>4. LocalOK(t)'
  BY <1>1, <1>2, <1>3 DEF LocalOK, mutating, Working
<1>5. \A p \in Owner : Coming(t, p)' <=> Coming(t, p)
  BY <1>2, <1>3 DEF Coming, mutating, Todo
<1>6. Excused(t) => Excused(t)'
  <2>1. \A g \in Handler \ {t} : tx'[g] = tx[g]
    BY DEF StoreInv, StoreTypes
  <2> QED
    BY <2>1, <1>2, <1>3 DEF Excused, Coming, mutating, Todo
<1>7. Faithful(t) => Faithful(t)'
  <2>1. Visible(t)' = Visible(t)
    BY <1>2, <1>3 DEF Visible, Changed
  <2> HAVE Faithful(t)
  <2>2. PICK gone \in SUBSET lapsed :
           tx[t].read = Effective(InScope(Visible(t), tx[t].owner) \ gone)
    BY DEF Faithful
  <2>3. x.read = Effective(InScope(Visible(t)', x.owner) \ gone)
    BY <2>1, <2>2, <1>2
  <2>4. gone \in SUBSET lapsed' /\ x.at # "build"
    BY <1>2
  <2> QED
    BY <2>3, <2>4, <1>3 DEF Faithful
<1>8. Rebuilding(t)' => Rebuilding(t)
  BY <1>2, <1>3 DEF Rebuilding
<1>9. ~ins => x.base # 0 /\ x.read = snaps[x.owner][x.base].content
  BY <1>2 DEF SameContent
<1>10. BuildOK(t)'
  BY <1>1, <1>2, <1>3, <1>6, <1>7, <1>8, <1>9 DEF BuildOK
<1>11. x.insert =>
         /\ x.at = "commit" /\ x.owner # Global /\ Len(snaps[x.owner]) = x.base
         /\ \A u \in Handler \ {t} : tx[u].insert => tx[u].owner # x.owner
  BY <1>2
<1>12. x \in TxRecord
  BY <1>2
<1> QED
  BY <1>3, <1>4, <1>5, <1>10, <1>11, <1>12, LocalStep

LEMMA UnchangedStep ==
  ASSUME StoreInv, NEW t \in Handler, Unchanged(t)
  PROVE  StoreInv'
<1>1. tx[t] \in TxRecord /\ tx[t].insert = FALSE
  BY DEF StoreInv, StoreTypes, VersionInv, Unchanged, TxRecord
<1>2. [tx[t] EXCEPT !.at = "commit"] = [tx[t] EXCEPT !.at = "commit", !.insert = FALSE]
  BY <1>1 DEF TxRecord
<1> QED
  BY <1>2, ReadyStep DEF Unchanged, Become

\* The primary key: nobody else has inserted the version.
LEMMA InsertStep ==
  ASSUME StoreInv, NEW t \in Handler, Insert(t)
  PROVE  StoreInv'
<1>1. ASSUME NEW u \in Handler \ {t}, tx[u].insert PROVE tx[u].owner # tx[t].owner
  BY <1>1 DEF Insert, KeyLocked, StoreInv, VersionInv
<1> QED
  BY <1>1, ReadyStep DEF Insert, NeedsInsert, Become

\* rebuildAll goes on with the next of its owners.
LEMMA NextOwnerStep ==
  ASSUME StoreInv, NEW t \in Handler, NextOwner(t)
  PROVE  StoreInv'
<1> DEFINE x == Begin("latest", Head(tx[t].todo), NoRow, FALSE, tx[t].todo, 0)
<1>1. tx[t] \in TxRecord /\ LocalOK(t) /\ BuildOK(t)
  BY DEF StoreInv, StoreTypes, LocalInv, BuildInv
<1>2. Head(tx[t].todo) \in Owner /\ Head(tx[t].todo) # Global
  <2>1. tx[t].todo \in Seq(Owner) /\ tx[t].todo # <<>>
    BY <1>1 DEF TxRecord, LocalOK, NextOwner
  <2> QED
    BY <2>1, HeadTailProperties, OwnersListed
<1>3. /\ x \in TxRecord /\ x.asof \subseteq lapsed /\ x.at = "latest"
      /\ x.owner = Head(tx[t].todo) /\ x.row = NoRow /\ x.todo = tx[t].todo
      /\ x.target = 0 /\ ~x.insert
  BY <1>1, <1>2 DEF Begin, TxRecord, Working, StoreInv, StoreTypes
<1>4. tx'[t] = x /\ tx' = [tx EXCEPT ![t] = x] /\ tx[t].at = "owners"
  BY DEF NextOwner, Become, StoreInv, StoreTypes
<1> HIDE DEF x
<1>5. LocalOK(t)'
  BY <1>1, <1>2, <1>3, <1>4 DEF LocalOK, mutating, Working
<1>6. \A p \in Owner : Coming(t, p)' <=> Coming(t, p)
  BY <1>3, <1>4 DEF Coming, mutating, Todo
<1>7. BuildOK(t)'
  BY <1>3, <1>4 DEF BuildOK, Rebuilding, NextOwner
<1> QED
  BY <1>3, <1>4, <1>5, <1>6, <1>7, LocalStep DEF NextOwner

\* A row that lapses was or was not left out by whoever has read it.
LEMMA LapseStep ==
  ASSUME StoreInv, NEW r \in Row, Lapse(r)
  PROVE  StoreInv'
<1>1. /\ lapsed \subseteq lapsed' /\ lapsed' \subseteq Row
      /\ UNCHANGED <<rows, snaps, tx, skipped>>
  BY DEF Lapse, StoreInv, StoreTypes
<1>2. StoreTypes' /\ LocalInv' /\ VersionInv'
  BY <1>1 DEF StoreInv, StoreTypes, LocalInv, LocalOK, VersionInv, mutating
<1>3. \A g \in Handler, o \in Owner : Coming(g, o)' <=> Coming(g, o)
  BY <1>1 DEF Coming, mutating, Todo
<1>4. BuildInv'
  <2>1. ASSUME NEW t \in Handler PROVE BuildOK(t)'
    <3>1. BuildOK(t)
      BY DEF StoreInv, BuildInv
    <3>2. Excused(t) => Excused(t)'
      BY <1>1 DEF Excused, Coming, mutating, Todo
    <3>3. Faithful(t) => Faithful(t)'
      BY <1>1 DEF Faithful, Visible
    <3> QED
      BY <3>1, <3>2, <3>3, <1>1 DEF BuildOK, Rebuilding
  <2> QED
    BY <2>1 DEF BuildInv
<1>5. PublishedInv'
  <2>1. ASSUME NEW o \in Owner, UpToDate(o) PROVE UpToDate(o)'
    BY <2>1, <1>1 DEF UpToDate, Latest
  <2> QED
    BY <2>1, <1>1, <1>3 DEF StoreInv, PublishedInv
<1> QED
  BY <1>2, <1>4, <1>5 DEF StoreInv

-----------------------------------------------------------------------------
(* The end of a transaction *)

\* Handler u is where it was, and may have been marked.
Kept(u) ==
  /\ tx'[u].at = tx[u].at /\ tx'[u].owner = tx[u].owner /\ tx'[u].row = tx[u].row
  /\ tx'[u].on = tx[u].on /\ tx'[u].todo = tx[u].todo /\ tx'[u].target = tx[u].target
  /\ tx'[u].base = tx[u].base /\ tx'[u].read = tx[u].read /\ tx'[u].part = tx[u].part
  /\ tx'[u].insert = tx[u].insert /\ tx'[u].asof = tx[u].asof
  /\ tx[u].missed => tx'[u].missed

LEMMA MarksOnly ==
  ASSUME StoreTypes, NEW t \in Handler, NEW x \in TxRecord, NEW S, BecomeMissed(t, x, S)
  PROVE  /\ tx' \in [Handler -> TxRecord] /\ tx'[t] = x
         /\ \A u \in Handler \ {t} :
              /\ Kept(u)
              /\ tx[u].owner \in S /\ tx[u].at \in {"build", "insert", "commit"} =>
                   tx'[u].missed
<1>1. tx' = [u \in Handler |->
        IF u = t THEN x
        ELSE IF tx[u].owner \in S /\ tx[u].at \in {"build", "insert", "commit"}
        THEN [tx[u] EXCEPT !.missed = TRUE] ELSE tx[u]]
  BY DEF BecomeMissed
<1>2. tx'[t] = x
  BY <1>1
<1>3. ASSUME NEW u \in Handler \ {t}
      PROVE  /\ tx'[u] \in TxRecord /\ Kept(u)
             /\ tx[u].owner \in S /\ tx[u].at \in {"build", "insert", "commit"} =>
                  tx'[u].missed
  <2>1. tx[u] \in TxRecord
    BY DEF StoreTypes
  <2>2. CASE tx[u].owner \in S /\ tx[u].at \in {"build", "insert", "commit"}
    <3>1. tx'[u] = [tx[u] EXCEPT !.missed = TRUE]
      BY <1>1, <2>2
    <3> QED
      BY <3>1, <2>1 DEF Kept, TxRecord
  <2>3. CASE ~(tx[u].owner \in S /\ tx[u].at \in {"build", "insert", "commit"})
    <3>1. tx'[u] = tx[u]
      BY <1>1, <2>3
    <3> QED
      BY <3>1, <2>1, <2>3 DEF Kept
  <2> QED
    BY <2>2, <2>3
<1>4. tx' \in [Handler -> TxRecord]
  BY <1>1, <1>2, <1>3
<1> QED
  BY <1>2, <1>3, <1>4

\* What is in scope does not change, whatever a transaction adds to it.
LEMMA SameScope ==
  ASSUME NEW S, NEW T, NEW o, InScope(S, o) = InScope(T, o), NEW x
  PROVE  InScope(Changed(S, x), o) = InScope(Changed(T, x), o)
BY DEF InScope, Changed

\* Versions are only ever added.
Grows ==
  \A o \in Owner :
    /\ Len(snaps[o]) <= Len(snaps'[o])
    /\ \A i \in 1..Len(snaps[o]) : snaps'[o][i] = snaps[o][i]

\* What another handler, u, holds after a step of t that may have changed rows
\* and versions: whoever builds for an owner that t has changed something for, or
\* was to rebuild, knows of it by a version, a mark or a rebuildAll to come.
LEMMA OtherEnds ==
  ASSUME StoreInv, NEW t \in Handler, NEW x \in TxRecord, NEW S, BecomeMissed(t, x, S),
         lapsed' = lapsed, Grows,
         \A o \in Owner : Len(snaps'[o]) \in Nat,
         \A o \in Owner :
           \/ Coming(t, o)' \/ o \in S \/ Len(snaps[o]) < Len(snaps'[o])
           \/ ~Coming(t, o) /\ InScope(rows', o) = InScope(rows, o),
         NEW u \in Handler, u # t
  PROVE  LocalOK(u)' /\ BuildOK(u)'
<1>1. /\ \A g \in Handler \ {t} : Kept(g)
      /\ tx[u].owner \in S /\ tx[u].at \in {"build", "insert", "commit"} => tx'[u].missed
  BY MarksOnly DEF StoreInv
<1>2. Kept(u) /\ tx[u] \in TxRecord /\ LocalOK(u) /\ BuildOK(u)
  BY <1>1 DEF StoreInv, StoreTypes, LocalInv, BuildInv
<1>3. LocalOK(u)'
  BY <1>2 DEF LocalOK, mutating, Kept
<1>4. Rebuilding(u)' <=> Rebuilding(u)
  BY <1>2 DEF Rebuilding, Kept
<1>5. \A g \in Handler \ {t}, o \in Owner : Coming(g, o)' <=> Coming(g, o)
  BY <1>1 DEF Kept, Coming, mutating, Todo
<1>6. tx[u].target # 0 => tx[u].target <= Len(snaps'[tx[u].owner])
  <2> HAVE tx[u].target # 0
  <2>1. tx[u].owner \in Owner /\ tx[u].target \in Nat
    BY <1>2 DEF LocalOK, TxRecord
  <2>2. Len(snaps[tx[u].owner]) \in Nat /\ Len(snaps'[tx[u].owner]) \in Nat
    BY <2>1, LenProperties DEF StoreInv, StoreTypes
  <2> QED
    BY <1>2, <2>1, <2>2 DEF BuildOK, Grows
<1>7. ASSUME Rebuilding(u)
      PROVE  /\ tx[u].base <= Len(snaps'[tx[u].owner])
             /\ tx[u].at = "commit" /\ ~tx[u].insert =>
                  tx[u].base # 0 /\ tx[u].read = snaps'[tx[u].owner][tx[u].base].content
             /\ Excused(u)' \/ Faithful(u)'
  <2>1. PICK o \in Owner :
          /\ tx[u].owner = o /\ tx[u].base \in Nat /\ tx[u].target = 0
          /\ tx[u].at \in {"build", "insert", "commit"}
    BY <1>2, <1>7 DEF Rebuilding, TxRecord
  <2>2. Len(snaps[o]) \in Nat /\ Len(snaps'[o]) \in Nat
    BY <2>1, LenProperties DEF StoreInv, StoreTypes
  <2>3. tx[u].base <= Len(snaps[o]) /\ Len(snaps[o]) <= Len(snaps'[o])
    BY <2>1, <1>2, <1>7 DEF BuildOK, Grows
  <2>4. tx[u].base <= Len(snaps'[o])
    BY <2>1, <2>2, <2>3
  <2>5. ASSUME tx[u].at = "commit", ~tx[u].insert
        PROVE  tx[u].base # 0 /\ tx[u].read = snaps'[o][tx[u].base].content
    <3>1. tx[u].base # 0 /\ tx[u].read = snaps[o][tx[u].base].content
      BY <2>1, <1>2, <1>7, <2>5 DEF BuildOK
    <3>2. tx[u].base \in 1..Len(snaps[o])
      BY <3>1, <2>1, <2>2, <2>3
    <3> QED
      BY <3>1, <3>2, <2>1 DEF Grows
  <2>6. ASSUME o \in S PROVE Excused(u)'
    BY <2>6, <2>1, <1>1 DEF Excused
  <2>7. ASSUME Len(snaps[o]) < Len(snaps'[o]) PROVE Excused(u)'
    <3>1. tx'[u].base < Len(snaps'[tx'[u].owner])
      BY <2>7, <2>1, <2>2, <2>3, <1>2 DEF Kept
    <3> QED
      BY <3>1 DEF Excused
  <2>8. ASSUME NEW g \in Handler \ {u}, Coming(g, o)' PROVE Excused(u)'
    BY <2>1, <2>8, <1>2 DEF Excused, Kept
  <2>9. ASSUME ~Coming(t, o), InScope(rows', o) = InScope(rows, o), Excused(u)
        PROVE  Excused(u)'
    <3>1. CASE tx[u].missed
      BY <3>1, <1>2 DEF Excused, Kept
    <3>2. CASE tx[u].base < Len(snaps[o])
      <4>1. tx'[u].base < Len(snaps'[tx'[u].owner])
        BY <3>2, <2>1, <2>2, <2>3, <1>2 DEF Kept
      <4> QED
        BY <4>1 DEF Excused
    <3>3. CASE \E g \in Handler \ {u} : Coming(g, o)
      <4>1. PICK g \in Handler \ {u} : Coming(g, o)
        BY <3>3
      <4>2. g \in Handler \ {t}
        BY <4>1, <2>9
      <4> QED
        BY <4>1, <4>2, <2>1, <2>8, <1>5
    <3> QED
      BY <3>1, <3>2, <3>3, <2>1, <2>9 DEF Excused
  <2>10. ASSUME InScope(rows', o) = InScope(rows, o), Faithful(u)
         PROVE  Faithful(u)'
    <3>1. InScope(Changed(rows', tx[u]), o) = InScope(Changed(rows, tx[u]), o)
      BY <2>10, SameScope
    <3>2. Changed(rows', tx'[u]) = Changed(rows', tx[u])
      BY <1>2 DEF Changed, Kept
    <3>3. InScope(Visible(u)', tx'[u].owner) = InScope(Visible(u), o)
      BY <3>1, <3>2, <2>1, <1>2 DEF Visible, Kept
    <3> QED
      BY <3>3, <2>1, <2>10, <1>2 DEF Faithful, Kept
  <2>11. Excused(u) \/ Faithful(u)
    BY <1>2, <1>7 DEF BuildOK
  <2>12. Excused(u)' \/ Faithful(u)'
    BY <2>1, <2>6, <2>7, <2>8, <2>9, <2>10, <2>11
  <2> QED
    BY <2>1, <2>4, <2>5, <2>12
<1>8. BuildOK(u)'
  BY <1>2, <1>4, <1>6, <1>7 DEF BuildOK, Kept
<1> QED
  BY <1>3, <1>8

\* A transaction ends and its handler goes on with x: idle, or on its way to
\* the next owner.
LEMMA EndStep ==
  ASSUME StoreInv, NEW t \in Handler, NEW x \in TxRecord, NEW S, BecomeMissed(t, x, S),
         lapsed' = lapsed, Grows, rows' \subseteq Row, skipped' \subseteq Owner,
         snaps' \in [Owner -> Seq([content : SUBSET Row, rollback : BOOLEAN])],
         \A o \in Owner : Len(snaps'[o]) # Len(snaps[o]) => tx[t].insert /\ tx[t].owner = o,
         \A o \in Owner :
           \/ Coming(t, o)' \/ o \in S \/ Len(snaps[o]) < Len(snaps'[o])
           \/ ~Coming(t, o) /\ InScope(rows', o) = InScope(rows, o),
         x.at \in {"idle", "owners"}, x.at = "idle" <=> x.todo = <<>>,
         x.row = NoRow, x.target = 0, ~x.insert, x.asof = {},
         PublishedInv'
  PROVE  StoreInv'
<1>1. /\ tx' \in [Handler -> TxRecord] /\ tx'[t] = x
      /\ \A u \in Handler \ {t} : Kept(u)
  BY MarksOnly DEF StoreInv
<1>2. StoreTypes'
  BY <1>1 DEF StoreInv, StoreTypes
<1>3. \A o \in Owner : Len(snaps'[o]) \in Nat
  BY LenProperties
<1>4. \A u \in Handler \ {t} : LocalOK(u)' /\ BuildOK(u)'
  BY <1>3, OtherEnds
<1>5. LocalOK(t)'
  BY <1>1 DEF LocalOK, mutating, Working
<1>6. BuildOK(t)'
  BY <1>1 DEF BuildOK, Rebuilding
<1>7. VersionInv'
  <2>1. ASSUME NEW u \in Handler, tx'[u].insert
        PROVE  /\ tx[u].insert /\ u # t
               /\ tx'[u].at = "commit" /\ tx'[u].owner # Global
               /\ Len(snaps'[tx'[u].owner]) = tx'[u].base
    <3>1. u # t /\ Kept(u) /\ tx[u].insert /\ tx[u] \in TxRecord
      BY <1>1, <2>1 DEF Kept, StoreInv, StoreTypes
    <3>2. /\ tx[u].at = "commit" /\ tx[u].owner \in Owner /\ tx[u].owner # Global
          /\ Len(snaps[tx[u].owner]) = tx[u].base
      BY <3>1 DEF StoreInv, VersionInv, TxRecord
    <3>3. ~(tx[t].insert /\ tx[t].owner = tx[u].owner)
      BY <3>1 DEF StoreInv, VersionInv
    <3> QED
      BY <3>1, <3>2, <3>3 DEF Kept
  <2>2. ASSUME NEW u \in Handler, NEW v \in Handler,
               tx'[u].insert, tx'[v].insert, tx'[u].owner = tx'[v].owner
        PROVE  u = v
    <3>1. tx[u].insert /\ u # t /\ tx[v].insert /\ v # t
      BY <2>1, <2>2
    <3>2. tx[u].owner = tx[v].owner
      BY <3>1, <2>2, <1>1 DEF Kept
    <3> QED
      BY <3>1, <3>2 DEF StoreInv, VersionInv
  <2> QED
    BY <2>1, <2>2 DEF VersionInv
<1> QED
  BY <1>2, <1>4, <1>5, <1>6, <1>7 DEF StoreInv, LocalInv, BuildInv

LEMMA AbortStep ==
  ASSUME StoreInv, NEW t \in Handler, Abort(t)
  PROVE  StoreInv'
<1> DEFINE left == IF mutating(t) THEN {} ELSE Todo(t)
<1>1. tx[t] \in TxRecord /\ tx[t].todo \in Seq(Owner)
  BY DEF StoreInv, StoreTypes, TxRecord
<1>2. left \subseteq Owner /\ \A o \in Owner : Coming(t, o) => o \in left
  BY <1>1, ElementOfSeq DEF Todo, Coming
<1>3. PICK S : S = left
  OBVIOUS
<1>4. /\ skipped' = skipped \cup S /\ BecomeMissed(t, Idle, S)
      /\ UNCHANGED <<rows, lapsed, snaps>>
  BY <1>3 DEF Abort
<1>5. /\ Idle \in TxRecord /\ Idle.at = "idle" /\ Idle.todo = <<>> /\ Idle.row = NoRow
      /\ Idle.target = 0 /\ ~Idle.insert /\ Idle.asof = {}
  BY EmptySeq DEF Idle, Begin, TxRecord, Working
<1>6. Grows
  <2>1. \A o \in Owner : Len(snaps[o]) \in Nat
    BY LenProperties DEF StoreInv, StoreTypes
  <2> QED
    BY <2>1, <1>4 DEF Grows
<1>7. PublishedInv'
  <2>1. \A o \in Owner : UpToDate(o)' <=> UpToDate(o)
    BY <1>4 DEF UpToDate, Latest
  <2>2. \A g \in Handler \ {t} : Kept(g)
    BY <1>4, <1>5, MarksOnly DEF StoreInv
  <2>3. \A g \in Handler \ {t}, o \in Owner : Coming(g, o)' <=> Coming(g, o)
    BY <2>2 DEF Kept, Coming, mutating, Todo
  <2>4. ASSUME NEW o \in Owner \ skipped' PROVE UpToDate(o)' \/ \E g \in Handler : Coming(g, o)'
    <3>1. o \in Owner \ skipped /\ ~Coming(t, o)
      BY <2>4, <1>2, <1>3, <1>4
    <3>2. UpToDate(o) \/ \E g \in Handler \ {t} : Coming(g, o)
      BY <3>1 DEF StoreInv, PublishedInv
    <3> QED
      BY <3>2, <2>1, <2>3
  <2> QED
    BY <2>4 DEF PublishedInv
<1>8. /\ rows' \subseteq Row /\ skipped' \subseteq Owner /\ lapsed' = lapsed
      /\ snaps' \in [Owner -> Seq([content : SUBSET Row, rollback : BOOLEAN])]
      /\ \A o \in Owner : Len(snaps'[o]) # Len(snaps[o]) => tx[t].insert /\ tx[t].owner = o
  BY <1>2, <1>3, <1>4 DEF StoreInv, StoreTypes
<1>9. \A o \in Owner :
        \/ Coming(t, o)' \/ o \in S \/ Len(snaps[o]) < Len(snaps'[o])
        \/ ~Coming(t, o) /\ InScope(rows', o) = InScope(rows, o)
  BY <1>2, <1>3, <1>4
<1>10. PICK x \in TxRecord : x = Idle
  BY <1>5
<1>11. /\ BecomeMissed(t, x, S) /\ x.row = NoRow /\ x.target = 0 /\ ~x.insert /\ x.asof = {}
       /\ x.at \in {"idle", "owners"} /\ (x.at = "idle" <=> x.todo = <<>>)
  <2>1. BecomeMissed(t, x, S)
    BY <1>4, <1>10 DEF BecomeMissed
  <2> QED
    BY <2>1, <1>5, <1>10
<1> HIDE DEF left
<1> QED
  BY <1>6, <1>7, <1>8, <1>9, <1>11, EndStep

\* What a commit does to the handler and who is left on its list.
LEMMA CommitGoesOn ==
  ASSUME StoreInv, NEW t \in Handler, Commit(t)
  PROVE  \E x \in TxRecord :
           /\ BecomeMissed(t, x,
                IF mutating(t) \/ Idles(t) \/ tx[t].insert THEN {} ELSE {tx[t].owner})
           /\ x.at \in {"idle", "owners"} /\ (x.at = "idle" <=> x.todo = <<>>)
           /\ x.row = NoRow /\ x.target = 0 /\ ~x.insert /\ x.asof = {}
           /\ x.todo = IF mutating(t) \/ tx[t].todo = <<>> THEN tx[t].todo ELSE Tail(tx[t].todo)
<1> DEFINE todo == IF mutating(t) \/ tx[t].todo = <<>> THEN tx[t].todo ELSE Tail(tx[t].todo)
           x == IF todo = <<>> THEN Idle ELSE Begin("owners", Global, NoRow, FALSE, todo, 0)
<1>1. todo \in Seq(Owner)
  <2>1. tx[t].todo \in Seq(Owner)
    BY DEF StoreInv, StoreTypes, TxRecord
  <2> QED
    BY <2>1, HeadTailProperties
<1>2. BecomeMissed(t, x,
        IF mutating(t) \/ Idles(t) \/ tx[t].insert THEN {} ELSE {tx[t].owner})
  BY DEF Commit
<1> HIDE DEF todo
<1>3. /\ x \in TxRecord /\ x.at \in {"idle", "owners"} /\ (x.at = "idle" <=> x.todo = <<>>)
      /\ x.row = NoRow /\ x.target = 0 /\ ~x.insert /\ x.asof = {} /\ x.todo = todo
  BY <1>1 DEF Idle, Begin, TxRecord, Working
<1>4. PICK y : y = x
  OBVIOUS
<1>5. BecomeMissed(t, y,
        IF mutating(t) \/ Idles(t) \/ tx[t].insert THEN {} ELSE {tx[t].owner})
  BY <1>2, <1>4 DEF BecomeMissed
<1> HIDE DEF x
<1> QED
  BY <1>3, <1>4, <1>5 DEF todo

\* A commit adds at most the version its handler has inserted.
LEMMA CommitAppends ==
  ASSUME StoreInv, NEW t \in Handler, Commit(t)
  PROVE  /\ snaps' \in [Owner -> Seq([content : SUBSET Row, rollback : BOOLEAN])]
         /\ Grows
         /\ ~tx[t].insert => snaps' = snaps
         /\ \A o \in Owner : ~(tx[t].insert /\ tx[t].owner = o) => snaps'[o] = snaps[o]
         /\ \A o \in Owner : tx[t].insert /\ tx[t].owner = o =>
              /\ Len(snaps'[o]) = Len(snaps[o]) + 1 /\ Len(snaps[o]) = tx[t].base
              /\ Latest(o)' = Snapshot(tx[t].read, tx[t].target # 0)
<1>1. tx[t] \in TxRecord
  BY DEF StoreInv, StoreTypes
<1>2. \A o \in Owner : /\ snaps[o] \in Seq([content : SUBSET Row, rollback : BOOLEAN])
                       /\ Len(snaps[o]) \in Nat
  BY LenProperties DEF StoreInv, StoreTypes
<1>3. CASE ~tx[t].insert
  <2>1. snaps' = snaps
    BY <1>3 DEF Commit
  <2>2. Grows
    BY <2>1, <1>2 DEF Grows
  <2>3. snaps' \in [Owner -> Seq([content : SUBSET Row, rollback : BOOLEAN])]
    BY <2>1 DEF StoreInv, StoreTypes
  <2> QED
    BY <1>3, <2>1, <2>2, <2>3
<1>4. CASE tx[t].insert
  <2>1. PICK o \in Owner : tx[t].owner = o /\ Len(snaps[o]) = tx[t].base
    BY <1>1, <1>4 DEF StoreInv, VersionInv, TxRecord
  <2> DEFINE sn == Snapshot(tx[t].read, tx[t].target # 0)
  <2>2. snaps' = [snaps EXCEPT ![o] = Append(snaps[o], sn)]
    BY <1>4, <2>1 DEF Commit
  <2>3. sn \in [content : SUBSET Row, rollback : BOOLEAN]
    BY <1>1 DEF Snapshot, TxRecord
  <2> HIDE DEF sn
  <2>4. /\ snaps'[o] = Append(snaps[o], sn)
        /\ \A p \in Owner : p # o => snaps'[p] = snaps[p]
    BY <2>2 DEF StoreInv, StoreTypes
  <2>5. /\ snaps'[o] \in Seq([content : SUBSET Row, rollback : BOOLEAN])
        /\ Len(snaps'[o]) = Len(snaps[o]) + 1 /\ snaps'[o][Len(snaps[o]) + 1] = sn
        /\ \A i \in 1..Len(snaps[o]) : snaps'[o][i] = snaps[o][i]
    <3>1. PICK s \in Seq([content : SUBSET Row, rollback : BOOLEAN]) : s = snaps[o]
      BY <1>2
    <3>2. /\ Append(s, sn) \in Seq([content : SUBSET Row, rollback : BOOLEAN])
          /\ Len(Append(s, sn)) = Len(s) + 1 /\ Append(s, sn)[Len(s) + 1] = sn
          /\ \A i \in 1..Len(s) : Append(s, sn)[i] = s[i]
      BY <2>3, AppendProperties
    <3> QED
      BY <3>1, <3>2, <2>4
  <2>6. snaps' \in [Owner -> Seq([content : SUBSET Row, rollback : BOOLEAN])]
    BY <2>2, <2>4, <2>5 DEF StoreInv, StoreTypes
  <2>7. Grows
    <3>1. ASSUME NEW p \in Owner
          PROVE  /\ Len(snaps[p]) <= Len(snaps'[p])
                 /\ \A i \in 1..Len(snaps[p]) : snaps'[p][i] = snaps[p][i]
      BY <2>4, <2>5, <1>2
    <3> QED
      BY <3>1 DEF Grows
  <2>8. Latest(o)' = sn
    <3>1. snaps'[o] # <<>>
      BY <2>5, <1>2, EmptySeq
    <3> QED
      BY <3>1, <2>5 DEF Latest
  <2> QED
    BY <1>4, <2>1, <2>4, <2>5, <2>6, <2>7, <2>8 DEF sn
<1> QED
  BY <1>3, <1>4

\* A commit: the owner's snapshot is what the rows say, or there is a record.
LEMMA CommitStep ==
  ASSUME StoreInv, NEW t \in Handler, Commit(t)
  PROVE  StoreInv'
<1>1. /\ tx[t] \in TxRecord /\ LocalOK(t) /\ BuildOK(t) /\ tx[t].at = "commit"
      /\ rows' = Changed(rows, tx[t]) /\ lapsed' = lapsed /\ tx[t].todo \in Seq(Owner)
  BY DEF Commit, StoreInv, StoreTypes, LocalInv, BuildInv, TxRecord
<1>2. PICK S :
        S = IF mutating(t) \/ Idles(t) \/ tx[t].insert THEN {} ELSE {tx[t].owner}
  OBVIOUS
<1>3. PICK x \in TxRecord :
        /\ BecomeMissed(t, x,
             IF mutating(t) \/ Idles(t) \/ tx[t].insert THEN {} ELSE {tx[t].owner})
        /\ x.at \in {"idle", "owners"} /\ (x.at = "idle" <=> x.todo = <<>>)
        /\ x.row = NoRow /\ x.target = 0 /\ ~x.insert /\ x.asof = {}
        /\ x.todo = IF mutating(t) \/ tx[t].todo = <<>> THEN tx[t].todo ELSE Tail(tx[t].todo)
  BY CommitGoesOn
<1>4. BecomeMissed(t, x, S)
  BY <1>2, <1>3 DEF BecomeMissed
<1>5. tx'[t] = x /\ \A u \in Handler \ {t} : Kept(u)
  BY <1>4, MarksOnly DEF StoreInv
<1>6. \A o : Coming(t, o)' <=> \E i \in 1..Len(x.todo) : x.todo[i] = o
  BY <1>3, <1>5 DEF Coming, mutating, Todo
<1>7. ASSUME mutating(t), NEW o \in Owner PROVE Coming(t, o)'
  <2>1. x.todo = Owners
    BY <1>1, <1>3, <1>7 DEF LocalOK
  <2> QED
    BY <2>1, <1>6, OwnersListed
<1>8. ~mutating(t) => tx[t].owner \in Owner /\ tx[t].owner # Global
  BY <1>1 DEF mutating, TxRecord
<1>9. ASSUME NEW o \in Owner, ~mutating(t), Coming(t, o), o # tx[t].owner PROVE Coming(t, o)'
  <2>1. PICK i \in 1..Len(tx[t].todo) : tx[t].todo[i] = o
    BY <1>9 DEF Coming, Todo
  <2>2. tx[t].todo # <<>>
    BY <2>1, 1..Len(<<>>) = {}
  <2>3. tx[t].owner = Head(tx[t].todo)
    BY <2>2, <1>1, <1>8, <1>9 DEF LocalOK, Working
  <2>4. \E j \in 1..Len(Tail(tx[t].todo)) : Tail(tx[t].todo)[j] = o
    BY <2>1, <2>2, <2>3, <1>1, <1>9, TailKeeps
  <2>5. x.todo = Tail(tx[t].todo)
    BY <2>2, <1>3, <1>9
  <2> QED
    BY <2>4, <2>5, <1>6
<1>10. ASSUME NEW o \in Owner, ~mutating(t), o # tx[t].owner
      PROVE  InScope(rows', o) = InScope(rows, o)
  <2>1. tx[t].row # NoRow => ScopeOf[tx[t].row] # o /\ ScopeOf[tx[t].row] # Global
    BY <1>1, <1>8, <1>10 DEF LocalOK
  <2> QED
    BY <2>1, <1>1, ChangeOfAnother
<1>11. ASSUME Idles(t) PROVE rows' = rows /\ snaps' = snaps /\ \A o : ~Coming(t, o)
  <2>1. tx[t].todo = <<>> /\ tx[t].row = NoRow /\ ~tx[t].insert
    BY <1>11 DEF Idles
  <2> QED
    BY <2>1, <1>1, NothingTodo, CommitAppends DEF Changed
<1>12. \A o \in Owner : Len(snaps[o]) \in Nat
  BY LenProperties DEF StoreInv, StoreTypes
<1>13. \A o \in Owner :
         \/ Coming(t, o)' \/ o \in S \/ Len(snaps[o]) < Len(snaps'[o])
         \/ ~Coming(t, o) /\ InScope(rows', o) = InScope(rows, o)
  <2> TAKE o \in Owner
  <2>1. CASE mutating(t)
    BY <2>1, <1>7
  <2>2. CASE ~mutating(t) /\ o # tx[t].owner
    BY <2>2, <1>9, <1>10
  <2>3. CASE ~mutating(t) /\ o = tx[t].owner /\ tx[t].insert
    BY <2>3, <1>12, CommitAppends
  <2>4. CASE Idles(t)
    BY <2>4, <1>11
  <2>5. CASE ~mutating(t) /\ o = tx[t].owner /\ ~tx[t].insert /\ ~Idles(t)
    BY <2>5, <1>2
  <2> QED
    BY <2>1, <2>2, <2>3, <2>4, <2>5
<1>14. \A g \in Handler \ {t}, o \in Owner : Coming(g, o)' <=> Coming(g, o)
  BY <1>5 DEF Kept, Coming, mutating, Todo
<1>15. ASSUME NEW o \in Owner, InScope(rows', o) = InScope(rows, o), snaps'[o] = snaps[o],
              UpToDate(o)
       PROVE  UpToDate(o)'
  <2>1. Latest(o)' = Latest(o)
    BY <1>15 DEF Latest
  <2> QED
    BY <2>1, <1>1, <1>15 DEF UpToDate
<1>16. ASSUME NEW o \in Owner \ skipped' PROVE UpToDate(o)' \/ \E g \in Handler : Coming(g, o)'
  <2>1. CASE mutating(t)
    BY <2>1, <1>7
  <2>2. CASE Idles(t)
    <3>1. skipped' = skipped /\ rows' = rows /\ snaps' = snaps
      BY <2>2, <1>11 DEF Commit
    <3>2. UpToDate(o) \/ \E g \in Handler \ {t} : Coming(g, o)
      BY <3>1, <1>11, <1>16, <2>2 DEF StoreInv, PublishedInv
    <3> QED
      BY <3>1, <3>2, <1>14, <1>15
  <2>3. CASE ~mutating(t) /\ o # tx[t].owner
    <3>1. o \in Owner \ skipped
      BY <2>3, <1>16 DEF Commit
    <3>2. InScope(rows', o) = InScope(rows, o) /\ snaps'[o] = snaps[o]
      BY <2>3, <1>10, CommitAppends
    <3>3. PICK g \in Handler : UpToDate(o) \/ Coming(g, o)
      BY <3>1 DEF StoreInv, PublishedInv
    <3> QED
      BY <3>2, <3>3, <2>3, <1>9, <1>14, <1>15
  <2>4. CASE ~mutating(t) /\ ~Idles(t) /\ o = tx[t].owner /\ tx[t].target # 0
    <3>1. tx[t].insert
      BY <2>4, <1>1 DEF LocalOK, Idles
    <3>2. Latest(o)' = Snapshot(tx[t].read, tx[t].target # 0)
      BY <3>1, <2>4, CommitAppends
    <3>3. Latest(o)'.rollback = (tx[t].target # 0)
      BY <3>2 DEF Snapshot
    <3> QED
      BY <3>3, <2>4 DEF UpToDate
  <2>5. CASE ~mutating(t) /\ ~Idles(t) /\ o = tx[t].owner /\ tx[t].target = 0
    <3>1. Undisturbed(t)
      BY <2>5, <1>16 DEF Commit
    <3>2. Rebuilding(t)
      BY <2>5, <1>1, <1>8 DEF Rebuilding
    <3>3. tx[t].base = Len(snaps[o]) /\ ~tx[t].missed
      BY <3>1, <2>5 DEF Undisturbed, StoreInv, VersionInv
    <3>4. CASE \E g \in Handler \ {t} : Coming(g, o)
      BY <3>4, <1>14
    <3>5. CASE ~\E g \in Handler \ {t} : Coming(g, o)
      <4>1. ~(tx[t].base < Len(snaps[o]))
        BY <3>3, <1>12
      <4>2. Faithful(t)
        BY <4>1, <3>2, <3>3, <3>5, <2>5, <1>1 DEF BuildOK, Excused
      <4>3. PICK gone \in SUBSET lapsed : tx[t].read = Effective(InScope(rows', o) \ gone)
        BY <4>2, <1>1, <2>5 DEF Faithful, Visible
      <4>4. Latest(o)'.content = tx[t].read
        <5>1. CASE tx[t].insert
          BY <5>1, <2>5, CommitAppends DEF Snapshot
        <5>2. CASE ~tx[t].insert
          <6>1. /\ snaps' = snaps /\ tx[t].base # 0
                /\ tx[t].read = snaps[o][tx[t].base].content
            BY <5>2, <3>2, <2>5, <1>1, CommitAppends DEF BuildOK
          <6>2. snaps[o] # <<>>
            BY <6>1, <3>3, EmptySeq
          <6> QED
            BY <6>1, <6>2, <3>3 DEF Latest
        <5> QED
          BY <5>1, <5>2
      <4> QED
        BY <4>3, <4>4, <1>1 DEF UpToDate
    <3> QED
      BY <3>4, <3>5
  <2> QED
    BY <2>1, <2>2, <2>3, <2>4, <2>5
<1>17. PublishedInv'
  BY <1>16 DEF PublishedInv
<1>18. rows' \subseteq Row /\ skipped' \subseteq Owner
  <2>1. rows' \subseteq Row
    BY <1>1 DEF Changed, StoreInv, StoreTypes, TxRecord
  <2>2. skipped' \subseteq Owner
    BY <1>8 DEF Commit, StoreInv, StoreTypes
  <2> QED
    BY <2>1, <2>2
<1>19. \A o \in Owner : Len(snaps'[o]) # Len(snaps[o]) => tx[t].insert /\ tx[t].owner = o
  BY CommitAppends
<1>20. Grows /\ snaps' \in [Owner -> Seq([content : SUBSET Row, rollback : BOOLEAN])]
  BY CommitAppends
<1> QED
  BY <1>1, <1>3, <1>4, <1>13, <1>17, <1>18, <1>19, <1>20, EndStep

-----------------------------------------------------------------------------
(* The specification *)

LEMMA StoreInit ==
  ASSUME StInit PROVE StoreInv
<1>1. /\ Idle \in TxRecord /\ Idle.at = "idle" /\ Idle.todo = <<>> /\ Idle.row = NoRow
      /\ Idle.target = 0 /\ ~Idle.insert /\ Idle.asof = {}
  BY EmptySeq DEF Idle, Begin, TxRecord, Working
<1>2. PICK x \in TxRecord : x = Idle
  BY <1>1
<1>3. \A t \in Handler : tx[t] = x
  BY <1>2 DEF StInit
<1>4. StoreTypes
  <2>1. tx \in [Handler -> TxRecord]
    BY <1>2 DEF StInit
  <2>2. snaps \in [Owner -> Seq([content : SUBSET Row, rollback : BOOLEAN])]
    BY EmptySeq DEF StInit
  <2> QED
    BY <2>1, <2>2 DEF StInit, StoreTypes
<1>5. LocalInv
  BY <1>1, <1>2, <1>3 DEF LocalInv, LocalOK, mutating, Working
<1>6. VersionInv
  BY <1>1, <1>2, <1>3 DEF VersionInv
<1>7. BuildInv
  BY <1>1, <1>2, <1>3 DEF BuildInv, BuildOK, Rebuilding
<1>8. PublishedInv
  <2>1. ASSUME NEW o \in Owner PROVE UpToDate(o)
    <3>1. Latest(o).content = {}
      BY DEF StInit, Latest, Snapshot
    <3>2. Effective(InScope(rows, o) \ {}) = {}
      BY DEF StInit, Effective, InScope
    <3> QED
      BY <3>1, <3>2 DEF UpToDate
  <2> QED
    BY <2>1 DEF PublishedInv
<1> QED
  BY <1>4, <1>5, <1>6, <1>7, <1>8 DEF StoreInv

LEMMA StoreStep ==
  ASSUME StoreInv, [StNext]_stvars PROVE StoreInv'
<1>1. ASSUME NEW t \in Handler, Request(t) PROVE StoreInv'
  BY <1>1, RequestStep
<1>2. ASSUME NEW t \in Handler, Statement(t) PROVE StoreInv'
  <2>1. InsertConflict(t) \/ VerifyRefuses(t) => Abort(t)
    BY DEF InsertConflict, VerifyRefuses
  <2> QED
    BY <1>2, <2>1, ReadLatestStep, ReadPartStep, UnchangedStep, InsertStep, AbortStep,
       CommitStep, NextOwnerStep DEF Statement
<1>3. ASSUME NEW t \in Handler, StatementFails(t) PROVE StoreInv'
  BY <1>3, AbortStep DEF StatementFails
<1>4. ASSUME NEW r \in Row, Lapse(r) PROVE StoreInv'
  BY <1>4, LapseStep
<1>5. CASE UNCHANGED stvars
  <2>1. StoreTypes' /\ LocalInv' /\ VersionInv'
    BY <1>5 DEF stvars, StoreInv, StoreTypes, LocalInv, LocalOK, VersionInv, mutating
  <2>2. \A t \in Handler : BuildOK(t)' <=> BuildOK(t)
    BY <1>5 DEF stvars, BuildOK, Rebuilding, Excused, Faithful, Visible, Coming, Todo, mutating
  <2>3. PublishedInv'
    <3>1. \A o \in Owner : UpToDate(o)' <=> UpToDate(o)
      BY <1>5 DEF stvars, UpToDate, Latest
    <3>2. \A g \in Handler, o \in Owner : Coming(g, o)' <=> Coming(g, o)
      BY <1>5 DEF stvars, Coming, Todo, mutating
    <3> QED
      BY <3>1, <3>2, <1>5 DEF stvars, StoreInv, PublishedInv
  <2> QED
    BY <2>1, <2>2, <2>3 DEF StoreInv, BuildInv
<1> QED
  BY <1>1, <1>2, <1>3, <1>4, <1>5 DEF StNext

\* Whatever a handler holds is what its transaction sees, or it will not be
\* published unnoticed (snapshot.go:40-110).
THEOREM StoreInvariance == StSpec => []StoreInv
<1>1. StInit => StoreInv
  BY StoreInit
<1>2. StoreInv /\ [StNext]_stvars => StoreInv'
  BY StoreStep
<1> QED
  BY <1>1, <1>2, PTL DEF StSpec

\* Once every handler has returned, each owner's latest snapshot is what the
\* committed rows say, unless it is on record that a failed rebuildAll or two
\* handlers that built at the same time have left it behind (snapshot.go:40-110,
\* policy_scope.go:150-167).
THEOREM LatestIsUpToDate == StSpec => []PublishedUpToDate
<1>1. StoreInv => PublishedUpToDate
  <2> SUFFICES ASSUME StoreInv, quiescent, NEW o \in Owner \ skipped PROVE UpToDate(o)
    BY DEF PublishedUpToDate
  <2>1. ASSUME NEW g \in Handler PROVE ~Coming(g, o)
    <3>1. tx[g].todo = <<>>
      BY DEF quiescent, StoreInv, LocalInv, LocalOK
    <3> QED
      BY <3>1, NothingTodo
  <2> QED
    BY <2>1 DEF StoreInv, PublishedInv
<1> QED
  BY <1>1, StoreInvariance, PTL

\* Only the handler that has inserted a version adds it, and nobody else has
\* inserted one for the owner.
LEMMA VersionStep ==
  ASSUME StoreInv, [StNext]_stvars, NEW t \in Handler, tx[t].at = "commit", tx[t].insert,
         NEW o, o = tx[t].owner, snaps'[o] # snaps[o]
  PROVE  Len(snaps'[o]) = tx[t].base + 1
<1>1. o \in Owner /\ Len(snaps[o]) = tx[t].base
  BY DEF StoreInv, StoreTypes, VersionInv, TxRecord
<1>2. PICK u \in Handler : Commit(u)
  <2>1. ASSUME NEW u \in Handler, Request(u) PROVE snaps' = snaps
    BY <2>1 DEF Request, MutateOwn, MutateGlobal, RebuildSnapshot, RollbackSnapshot
  <2>2. ASSUME NEW u \in Handler, Abort(u) PROVE snaps' = snaps
    BY <2>2 DEF Abort
  <2>3. ASSUME NEW u \in Handler, ReadLatest(u) \/ ReadPart(u) \/ Unchanged(u) \/ Insert(u)
                                  \/ NextOwner(u)
        PROVE  snaps' = snaps
    BY <2>3 DEF ReadLatest, ReadPart, Unchanged, Insert, NextOwner
  <2>4. ASSUME NEW u \in Handler, Statement(u) PROVE snaps' = snaps \/ Commit(u)
    BY <2>2, <2>3, <2>4 DEF Statement, InsertConflict, VerifyRefuses
  <2>5. ASSUME NEW u \in Handler, StatementFails(u) PROVE snaps' = snaps
    BY <2>2, <2>5 DEF StatementFails
  <2>6. ASSUME NEW r \in Row, Lapse(r) PROVE snaps' = snaps
    BY <2>6 DEF Lapse
  <2>7. UNCHANGED stvars => snaps' = snaps
    BY DEF stvars
  <2> QED
    BY <2>1, <2>4, <2>5, <2>6, <2>7 DEF StNext
<1>3. tx[u].insert /\ tx[u].owner = o
  BY <1>1, <1>2, CommitAppends
<1> QED
  BY <1>1, <1>2, <1>3, CommitAppends

\* Two handlers never publish successors of the same version, and a version is
\* published on top of the one its handler has read (snapshot.go:40-48, 84-92).
THEOREM VersionsFollowTheirBase == StSpec => SuccessorOfBase
<1>1. ASSUME StoreInv, [StNext]_stvars
      PROVE  [\A t \in Handler :
                tx[t].at = "commit" /\ tx[t].insert =>
                  \A o \in {tx[t].owner} :
                    snaps'[o] # snaps[o] => Len(snaps'[o]) = tx[t].base + 1]_stvars
  BY <1>1, VersionStep
<1> QED
  BY <1>1, StoreInvariance, PTL DEF StSpec, SuccessorOfBase
=============================================================================
