----------------------------- MODULE PolicyRows -----------------------------
(***************************************************************************)
(* The configuration rows of Control and the operations on them:           *)
(* internal/control/policy_store.go, admin_console.go, policy_scope.go and *)
(* the routes of server.go. What a snapshot is made of is EffectivePolicy. *)
(*                                                                         *)
(* A user's request changes its own rows and rebuilds its snapshot in one  *)
(* transaction: if the rebuild is refused, nothing has happened, except    *)
(* that the sequence of the table has moved on. An admin's request changes *)
(* admin_global rows, commits, and then rebuilds the active users one by   *)
(* one, up to the first that is refused. The interleaving of transactions  *)
(* is the subject of SnapshotStore; here each operation is one step.       *)
(***************************************************************************)
EXTENDS EffectivePolicy

CONSTANTS
  Owners,        \* the active users, in the order of activeOwnerUserIDs
  Admin,         \* the owner_user_id of what an admin creates
  InitRows,      \* rows from before
  InitSeq,       \* and the last ebpf_id that each table has handed out for them
  Inputs,        \* what a request may say of a list entry or rule
  ServiceInputs, \* and of a service or forwarding policy
  MaxRequests    \* bound on the requests

Owner == {Owners[i] : i \in 1..Len(Owners)}
Kinds == {"rule", "whitelist", "blacklist", "udp"}
Tables == Kinds \cup {"service", "policy"}

Scopes == {"admin_global", "user_global", "service"}
Expiry == {"never", "ahead", "past"}
RowType ==
  [kind : Kinds, id : Nat, owner : Owner \cup {Admin}, scope : Scopes, service : Nat, key : Nat,
   pref : Int, rule : Nat, manual : BOOLEAN, enabled : BOOLEAN, exp : Expiry]
InputType ==
  [scope : Scopes, service : Nat, key : Nat, pref : Int, rule : Nat, enabled : BOOLEAN,
   exp : Expiry]

ASSUME RowsAssumption ==
  /\ Admin \notin Owner
  /\ MaxRequests \in Nat
  /\ Inputs \subseteq InputType
  /\ Capacity \in [DOMAIN Capacity -> Nat]
  /\ {"whitelist_v4", "whitelist_service_v4", "blacklist_v4", "blacklist_service_v4",
      "udp_src_port_blocks", "udp_src_port_service_blocks"} \subseteq DOMAIN Capacity

VARIABLES
  db,         \* the tables
  seq,        \* [table -> the last ebpf_id handed out]
  published,  \* [Owner -> the latest snapshot]
  past,       \* [Owner -> policy_snapshots: what it has published so far]
  left,       \* history: the users whose latest snapshot is not that of the last rebuild
              \* meant for them: it did not reach them, or they have rolled it back
  requests    \* history: requests made

prvars == <<db, seq, published, past, left, requests>>

-----------------------------------------------------------------------------
(* Who may change what *)

\* requirePolicyMutation: a normal admin session changes admin_global rows
\* only, a user its own; an admin that views a user changes nothing.
RequirePolicyMutation(actor, scope) ==
  IF actor = Admin THEN scope = "admin_global" ELSE scope \in {"user_global", "service"}

\* Faulty variant: the condition of a user leaves the scope out.
PolicyMutationWhereOwner(actor, r) ==
  IF actor = Admin THEN r.scope = "admin_global" ELSE r.owner = actor

\* policyMutationWhere, the condition of every UPDATE of such a row.
PolicyMutationWhere(actor, r) ==
  IF actor = Admin THEN r.scope = "admin_global"
  ELSE r.scope # "admin_global" /\ r.owner = actor

\* validatePolicyScope
ValidatePolicyScope(scope, service) == (scope = "service") <=> (service # 0)

\* Faulty variant: the owner of the service is not compared.
GetAnyService(actor, id) == \E s \in db.services : s.id = id

\* getService finds the services of the owner, deleted ones too.
GetService(actor, id) == \E s \in db.services : s.id = id /\ s.owner = actor
GetRule(actor, id) ==
  \E r \in db.rows : r.kind = "rule" /\ r.id = id /\ PolicyMutationWhere(actor, r)

-----------------------------------------------------------------------------
(* Rebuild and commit *)

\* Where rebuildAllActiveUserSnapshots stops: the first user whose rebuild is
\* refused, or past the end.
FirstRefused(new) ==
  LET bad == {i \in 1..Len(Owners) : ~Rebuilds(new, Owners[i])} IN
  IF bad = {} THEN Len(Owners) + 1 ELSE CHOOSE i \in bad : \A j \in bad : i <= j

RebuildAllActiveUserSnapshots(new) ==
  LET reached == {Owners[i] : i \in 1..(FirstRefused(new) - 1)} IN
  /\ published' = [u \in Owner |-> IF u \in reached THEN BuildEffectiveSnapshot(new, u)
                                   ELSE published[u]]
  /\ left' = Owner \ reached

RebuildSnapshot(u, new) ==
  IF Rebuilds(new, u)
  THEN /\ db' = new
       /\ published' = [published EXCEPT ![u] = BuildEffectiveSnapshot(new, u)]
       /\ left' = left \ {u}
  ELSE UNCHANGED <<db, published, left>>

\* No version is ever deleted.
KeepVersions == past' = [u \in Owner |-> past[u] \cup {published'[u]}]

\* Faulty variant: a change is committed although the rebuild refuses it.
CommitUnverified(actor, new) ==
  /\ db' = new
  /\ IF actor = Admin THEN RebuildAllActiveUserSnapshots(new)
     ELSE IF Rebuilds(new, actor) THEN RebuildSnapshot(actor, new)
     ELSE UNCHANGED <<published, left>>

\* rebuildPolicyMutationInTx and commitPolicyMutation
CommitPolicyMutation(actor, new) ==
  IF actor = Admin THEN db' = new /\ RebuildAllActiveUserSnapshots(new)
  ELSE RebuildSnapshot(actor, new)

-----------------------------------------------------------------------------
(* List entries and rules *)

\* The service_id of an input is blanked before it is validated, unless the
\* scope is "service".
ServiceID(in) == IF in.scope = "service" THEN in.service ELSE 0

Row(kind, id, owner, in) ==
  [kind |-> kind, id |-> id, owner |-> owner, scope |-> in.scope, service |-> ServiceID(in),
   key |-> in.key, pref |-> in.pref, rule |-> in.rule, manual |-> TRUE,
   enabled |-> in.enabled, exp |-> in.exp]

\* What the inputs of every kind are checked for.
Acceptable(actor, in) ==
  /\ RequirePolicyMutation(actor, in.scope)
  /\ ValidatePolicyScope(in.scope, ServiceID(in))
  /\ ServiceID(in) # 0 => GetService(actor, ServiceID(in))

\* nextval of a table's sequence, which a rollback does not take back.
Nextval(table) == seq' = [seq EXCEPT ![table] = @ + 1]

CreateRow(actor, kind, in) ==
  LET id == seq[kind] + 1 IN
  /\ Acceptable(actor, in) /\ Nextval(kind)
  /\ CommitPolicyMutation(actor, [db EXCEPT !.rows = @ \cup {Row(kind, id, actor, in)}])

\* The owner of a row stays, whoever changes it.
Replace(r, new) == [db EXCEPT !.rows = (@ \ {r}) \cup {new}]

UpdateRow(actor, r, in) ==
  /\ Acceptable(actor, in) /\ PolicyMutationWhere(actor, r)
  /\ CommitPolicyMutation(actor, Replace(r, Row(r.kind, r.id, r.owner, in)))
  /\ UNCHANGED seq

DisableRow(actor, r) ==
  /\ PolicyMutationWhere(actor, r)
  /\ CommitPolicyMutation(actor, Replace(r, [r EXCEPT !.enabled = FALSE]))
  /\ UNCHANGED seq

\* A rule has no key of its own and names no rule; only a rule has a ttl_seconds,
\* from which CreateRule and UpdateRule derive expires_at.
RuleInput(in) == in.key = 0 /\ in.rule = 0
WhitelistInput(in) == in.key # 0 /\ in.rule = 0
BlacklistInput(actor, in) == in.key # 0 /\ (in.rule # 0 => GetRule(actor, in.rule))
UDPSourcePortBlockInput(in) == in.key # 0 /\ in.rule = 0 /\ in.pref = 0

CreateRule(actor, in) == RuleInput(in) /\ CreateRow(actor, "rule", in)
CreateWhitelistEntry(actor, in) == WhitelistInput(in) /\ CreateRow(actor, "whitelist", in)
CreateBlacklistEntry(actor, in) == BlacklistInput(actor, in) /\ CreateRow(actor, "blacklist", in)
CreateUDPSourcePortBlock(actor, in) == UDPSourcePortBlockInput(in) /\ CreateRow(actor, "udp", in)

UpdateRule(actor, r, in) == r.kind = "rule" /\ RuleInput(in) /\ UpdateRow(actor, r, in)
UpdateWhitelistEntry(actor, r, in) ==
  r.kind = "whitelist" /\ WhitelistInput(in) /\ UpdateRow(actor, r, in)
UpdateBlacklistEntry(actor, r, in) ==
  r.kind = "blacklist" /\ r.manual /\ BlacklistInput(actor, in) /\ UpdateRow(actor, r, in)
UpdateUDPSourcePortBlock(actor, r, in) ==
  r.kind = "udp" /\ UDPSourcePortBlockInput(in) /\ UpdateRow(actor, r, in)

DisableRule(actor, r) == r.kind = "rule" /\ DisableRow(actor, r)
DisableWhitelistEntry(actor, r) == r.kind = "whitelist" /\ DisableRow(actor, r)
DisableBlacklistEntry(actor, r) == r.kind = "blacklist" /\ r.manual /\ DisableRow(actor, r)
DisableUDPSourcePortBlock(actor, r) == r.kind = "udp" /\ DisableRow(actor, r)

-----------------------------------------------------------------------------
(* Services and forwarding policies, which only users have *)

ServiceRow(id, u, in, deleted) ==
  [id |-> id, owner |-> u, target |-> in.target, ports |-> in.ports, mac |-> in.mac,
   ifindex |-> in.ifindex, enabled |-> in.enabled, deleted |-> deleted]

CreateService(u, in) ==
  LET id == seq["service"] + 1 IN
  /\ Nextval("service")
  /\ RebuildSnapshot(u, [db EXCEPT !.services = @ \cup {ServiceRow(id, u, in, FALSE)}])

\* A deleted service can be updated, and stays deleted.
UpdateService(u, s, in) ==
  /\ s.owner = u
  /\ RebuildSnapshot(u, [db EXCEPT !.services = (@ \ {s}) \cup {ServiceRow(s.id, u, in, s.deleted)}])
  /\ UNCHANGED seq

DeleteService(u, s) ==
  /\ s.owner = u
  /\ RebuildSnapshot(u, [db EXCEPT !.services =
       (@ \ {s}) \cup {[s EXCEPT !.enabled = FALSE, !.deleted = TRUE]}])
  /\ UNCHANGED seq

\* One enabled forwarding policy per service and port (an index); one that is
\* created disabled is never seen again, as nothing updates it.
CreateForwardingPolicy(u, s, in, port, devmap) ==
  LET id == seq["policy"] + 1
      row == [id |-> id, owner |-> u, service |-> s.id, target |-> in.target, port |-> port,
              mac |-> in.mac, ifindex |-> in.ifindex, devmap |-> devmap] IN
  /\ GetService(u, s.id) /\ Nextval("policy")
  /\ IF \E p \in db.policies : p.service = s.id /\ p.port = port
     THEN UNCHANGED <<db, published, left>>
     ELSE RebuildSnapshot(u, [db EXCEPT !.policies = @ \cup {row}])

-----------------------------------------------------------------------------
(* Snapshots on request *)

\* Store.RebuildSnapshot: no change, but a rebuild.
ManualRebuild(u) ==
  /\ RebuildSnapshot(u, db)
  /\ UNCHANGED seq

\* Store.RollbackSnapshot: what u has published once is published again, under a
\* new version, whatever has become of the rows. It is refused when an entry of
\* it has expired in the meantime, which is left open here.
RollbackSnapshot(u, S) ==
  /\ S \in past[u]
  /\ published' = [published EXCEPT ![u] = S]
  /\ left' = left \cup {u}
  /\ UNCHANGED <<db, seq>>

-----------------------------------------------------------------------------
(* Time *)

\* An expires_at passes. Nobody is told.
Lapse(r) ==
  /\ r.exp = "ahead"
  /\ db' = Replace(r, [r EXCEPT !.exp = "past"])
  /\ UNCHANGED <<seq, published, past, left, requests>>

Expired(u) == {r \in db.rows : r.kind = "rule" /\ r.enabled /\ r.exp = "past" /\ r.owner = u}
ExpiredGlobal ==
  {r \in db.rows : r.kind = "rule" /\ r.enabled /\ r.exp = "past" /\ r.scope = "admin_global"}
Disabled(S) == [db EXCEPT !.rows = (@ \ S) \cup {[r EXCEPT !.enabled = FALSE] : r \in S}]

\* Faulty variant: rules are disabled without a rebuild.
ExpireTTLRulesQuietly(u) ==
  /\ Expired(u) # {}
  /\ db' = Disabled(Expired(u))
  /\ UNCHANGED <<seq, published, past, left, requests>>

\* ExpireTTLRules of the scheduler, for the shared rules and for each user in
\* turn, all expired rules of it at once. A user's part that is refused is
\* tried again at the next tick; the shared rules are disabled for good.
ExpireTTLRules(u) ==
  /\ Expired(u) # {}
  /\ RebuildSnapshot(u, Disabled(Expired(u)))
  /\ KeepVersions
  /\ UNCHANGED <<seq, requests>>

ExpireAdminGlobalTTLRules ==
  /\ ExpiredGlobal # {}
  /\ db' = Disabled(ExpiredGlobal)
  /\ RebuildAllActiveUserSnapshots(Disabled(ExpiredGlobal))
  /\ KeepVersions
  /\ UNCHANGED <<seq, requests>>

-----------------------------------------------------------------------------

EmptyDb == [services |-> {}, policies |-> {}, rows |-> InitRows]

\* Without the shared rows.
Unshared(d) == [d EXCEPT !.rows = {r \in @ : r.scope # "admin_global"}]

\* Rows from before have their ids from the sequences, or, as entries of the
\* blacklist only, from a feed, and stop nobody's rebuild unless they are shared.
ASSUME InitRowsAssumption ==
  /\ InitRows \subseteq RowType /\ IsFiniteSet(InitRows)
  /\ InitSeq \in [Tables -> Nat]
  /\ \A r \in InitRows : /\ r.scope # "service" /\ r.service = 0
                         /\ r.manual => r.id \in 1..InitSeq[r.kind]
                         /\ ~r.manual => r.kind = "blacklist"
  /\ \A r, s \in InitRows : <<r.kind, r.manual, r.id>> = <<s.kind, s.manual, s.id>> => r = s
  /\ \A u \in Owner : Rebuilds(Unshared(EmptyDb), u)

PrInit ==
  /\ db = EmptyDb
  /\ seq = InitSeq
  /\ published = [u \in Owner |-> BuildEffectiveSnapshot(EmptyDb, u)]
  /\ past = [u \in Owner |-> {published[u]}]
  /\ left = {}
  /\ requests = 0

Entries(actor) ==
  \/ \E in \in Inputs :
       \/ CreateRule(actor, in) \/ CreateWhitelistEntry(actor, in)
       \/ CreateBlacklistEntry(actor, in) \/ CreateUDPSourcePortBlock(actor, in)
       \/ \E r \in db.rows :
            \/ UpdateRule(actor, r, in) \/ UpdateWhitelistEntry(actor, r, in)
            \/ UpdateBlacklistEntry(actor, r, in) \/ UpdateUDPSourcePortBlock(actor, r, in)
  \/ \E r \in db.rows :
       \/ DisableRule(actor, r) \/ DisableWhitelistEntry(actor, r)
       \/ DisableBlacklistEntry(actor, r) \/ DisableUDPSourcePortBlock(actor, r)

Services(u) ==
  \/ \E in \in ServiceInputs :
       \/ CreateService(u, in)
       \/ \E s \in db.services :
            \/ UpdateService(u, s, in)
            \/ \E port \in in.ports, devmap \in {0, DevmapSize} :
                 CreateForwardingPolicy(u, s, in, port, devmap)
  \/ \E s \in db.services : DeleteService(u, s)

Snapshots(u) == ManualRebuild(u) \/ \E S \in past[u] : RollbackSnapshot(u, S)

Request ==
  /\ requests < MaxRequests
  /\ requests' = requests + 1
  /\ \/ \E actor \in Owner \cup {Admin} : Entries(actor)
     \/ \E u \in Owner : Services(u) \/ Snapshots(u)
  /\ KeepVersions

PrNext ==
  \/ Request
  \/ \E u \in Owner : ExpireTTLRules(u)
  \/ ExpireAdminGlobalTTLRules
  \/ \E r \in db.rows : Lapse(r)

PrSpec == PrInit /\ [][PrNext]_prvars

-----------------------------------------------------------------------------
(* Properties *)

\* The tables hold rows of the owners, ids are unique in a table, and a row
\* has a service exactly when its scope is "service". That service, and the one
\* of a forwarding policy, belongs to the row's own user.
PrTypeOK ==
  /\ \A r \in db.rows : r \in RowType /\ (r.scope = "service" <=> r.service # 0)
  /\ \A r, s \in db.rows : <<r.kind, r.manual, r.id>> = <<s.kind, s.manual, s.id>> => r = s
  /\ \A s, t \in db.services : s.id = t.id => s = t
  /\ \A r \in db.rows : r.scope = "service" =>
       \E s \in db.services : s.id = r.service /\ s.owner = r.owner
  /\ \A p \in db.policies : \E s \in db.services : s.id = p.service /\ s.owner = p.owner
  /\ left \subseteq Owner

\* Of the rows in the database, those of one user alone never stop that user's
\* rebuild: whatever sequence of requests is committed, only admin_global and
\* feed rows can make it fail. A rebuild that is refused takes the change with
\* it.
OwnRowsVerify ==
  \A u \in Owner : Rebuilds(Unshared(db), u)

\* Whoever changes a shared row, other than by its lapse: the users are all
\* rebuilt, up to one that refuses. In particular the rows that an admin has
\* shared are out of its reach once it is downgraded to user. The one step that
\* breaks this is ExpireTTLRules for such a user, which disables the expired
\* rules among them as if they were its own (policy_store.go:718).
Shared(d) == {[r EXCEPT !.exp = "never"] : r \in {s \in d.rows : s.scope = "admin_global"}}
SharedChangesReachAll ==
  [][Shared(db') # Shared(db) /\ ~(\E u \in Owner : ExpireTTLRules(u)) =>
       \A u \in Owner \ left' : published'[u] = BuildEffectiveSnapshot(db', u)]_prvars

\* byKey as the loop in the source does it, over the rows in some order.
Fold(kind, order) ==
  LET step[i \in 0..Len(order)] ==
        IF i = 0 THEN {}
        ELSE LET kept == step[i - 1]
                 rivals == {r \in kept : EntryKey(r) = EntryKey(order[i])} IN
             IF \A r \in rivals : Preferred(kind, order[i], r)
             THEN (kept \ rivals) \cup {order[i]} ELSE kept
  IN step[Len(order)]
Orders(S) == {f \in [1..Cardinality(S) -> S] : \A r \in S : \E i \in DOMAIN f : f[i] = r}

\* Which of the competing rows gets into the snapshot does not depend on the
\* order in which the query returns them (the blacklist query leaves it open),
\* so that two builds of the same rows have the same fingerprint.
OrderIrrelevant ==
  \A u \in Owner, kind \in {"whitelist", "blacklist", "udp"} :
    LET S == Candidates(db, u, kind) IN
    \A order \in Orders(S) : Fold(kind, order) = ByKey(kind, S)

\* What has been disabled, changed or deleted is not in the latest snapshot: each
\* entry of it is that of an enabled row or a live service as it is now. The
\* exceptions are a user that has rolled back to an older snapshot
\* (RollbackSnapshot, until its next rebuild), one whose rebuild an admin_global
\* row stopped, or that of a user before it, and a rule that a downgraded admin
\* has shared: when it expires, ExpireTTLRules may take it for a rule of that
\* user alone, and the other users keep it. That an expires_at has passed shows
\* in no snapshot until the next rebuild.
SameRow(e, r) == r.enabled /\ [r EXCEPT !.exp = e.exp] = e
NothingWithdrawnIsPublished ==
  \A u \in Owner \ left :
    LET S == published[u] IN
    /\ \A e \in S.whitelist \cup S.blacklist \cup S.udp \cup S.rules :
         \/ \E r \in db.rows : SameRow(e, r)
         \/ e.kind = "rule" /\ e.scope = "admin_global" /\ e.owner \in Owner \ {u}
    /\ {s.entry : s \in S.services} =
         SnapshotServicesFromForwardingPolicies(db, u)
           \cup SnapshotServicesFromBackendServices(db, u)

-----------------------------------------------------------------------------
(* The inductive invariant of the proofs *)

\* The tables d, with the sequences at q: ids have been handed out before they are
\* used, and once.
RowsOK(d, q) ==
  /\ d = [services |-> d.services, policies |-> d.policies, rows |-> d.rows]
  /\ q \in [Tables -> Nat]
  /\ d.rows \subseteq RowType /\ IsFiniteSet(d.rows)
  /\ \A r \in d.rows : /\ r.scope = "service" <=> r.service # 0
                       /\ r.manual => r.id \in 1..q[r.kind]
                       /\ ~r.manual => r.kind = "blacklist"
                       /\ r.scope = "service" =>
                            \E s \in d.services : s.id = r.service /\ s.owner = r.owner
  /\ \A r, s \in d.rows : <<r.kind, r.manual, r.id>> = <<s.kind, s.manual, s.id>> => r = s
  /\ \A s \in d.services : s = ServiceRow(s.id, s.owner, s, s.deleted) /\ s.id \in 1..q["service"]
  /\ \A s, t \in d.services : s.id = t.id => s = t
  /\ \A p \in d.policies : \E s \in d.services : s.id = p.service /\ s.owner = p.owner

\* Of a list, a user is shown its own rows and the shared ones, in every version.
Listed(S) == S.whitelist \cup S.blacklist \cup S.udp \cup S.rules
RowsFor(u, S) ==
  \A e \in Listed(S) : e \in RowType /\ (e.scope = "admin_global" \/ e.owner = u)
PublishedOK ==
  /\ published = [u \in Owner |-> published[u]]
  /\ \A u \in Owner : RowsFor(u, published[u])
PastOK ==
  /\ past = [u \in Owner |-> past[u]]
  /\ \A u \in Owner : \A S \in past[u] : RowsFor(u, S)

RowsInv ==
  /\ RowsOK(db, seq) /\ PublishedOK /\ PastOK
  /\ left \subseteq Owner /\ requests \in 0..MaxRequests
  /\ OwnRowsVerify
  /\ NothingWithdrawnIsPublished
=============================================================================
