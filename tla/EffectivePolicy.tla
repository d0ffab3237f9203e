-------------------------- MODULE EffectivePolicy --------------------------
(***************************************************************************)
(* From the rows of the configuration tables to the snapshot of one user:  *)
(* buildEffectiveSnapshot and the preferences between rows                 *)
(* (internal/control/snapshot.go, policy_scope.go), and what               *)
(* VerifyPolicySnapshot checks of its entries                              *)
(* (validatePolicyEntries in internal/agent/policy_snapshot.go).           *)
(*                                                                         *)
(* db is a record of three sets of rows:                                   *)
(*   services  id, owner, target, ports, mac, ifindex, enabled, deleted    *)
(*   policies  id, owner, service, target, port, mac, ifindex, devmap      *)
(*   rows      kind, id, owner, scope, service, key, pref, rule, manual,   *)
(*             enabled, exp                                                *)
(* id is the ebpf_id, from one sequence per table for all users. A port    *)
(* stands for protocol and port, mac says that resolved addresses are      *)
(* given, key is the CIDR or UDP port of a list entry, pref its priority   *)
(* or score, exp is "never", "ahead" or "past", service and rule are 0     *)
(* when there is none.                                                     *)
(***************************************************************************)
EXTENDS Integers, Sequences, FiniteSets

CONSTANTS
  Capacity,    \* [map name -> Nat], ExpectedMaps
  DevmapSize   \* keys of tx_devmap, the 128 of devmapKeyOrDefault

ASSUME EffectiveAssumption == DevmapSize \in Nat \ {0}

\* The target of a service that is a network and not a host /32.
Network == "network"

-----------------------------------------------------------------------------
(* Lists *)

ScopeTypeRank(scope) ==
  CASE scope = "service" -> 3 [] scope = "user_global" -> 2 [] scope = "admin_global" -> 1

\* The WHERE clauses of the snapshot queries.
InForce(r, u) ==
  r.enabled /\ r.exp # "past" /\ (r.scope = "admin_global" \/ r.owner = u)

Candidates(db, u, kind) == {r \in db.rows : r.kind = kind /\ InForce(r, u)}

\* Two rows with one key compete: global ones of both scopes share a key.
EntryKey(r) == <<IF r.scope = "service" THEN r.service ELSE 0, r.key>>

CidrCandidatePreferred(next, current) ==
  LET n == ScopeTypeRank(next.scope)
      c == ScopeTypeRank(current.scope) IN
  \/ n > c
  \/ n = c /\ next.pref < current.pref
  \/ n = c /\ next.pref = current.pref /\ next.id < current.id

UdpBlockCandidatePreferred(next, current) ==
  LET n == ScopeTypeRank(next.scope)
      c == ScopeTypeRank(current.scope) IN
  n > c \/ (n = c /\ next.id < current.id)

\* Faulty variant: the id alone decides, which manual and feed rows share.
BlacklistPreferredById(next, current) ==
  LET n == ScopeTypeRank(next.scope)
      c == ScopeTypeRank(current.scope) IN
  n > c \/ (n = c /\ (next.pref > current.pref \/ (next.pref = current.pref /\ next.id < current.id)))

\* Feed rows have ids of their own, so that manual decides before id.
BlacklistCandidatePreferred(next, current) ==
  LET n == ScopeTypeRank(next.scope)
      c == ScopeTypeRank(current.scope) IN
  \/ n > c
  \/ n = c /\ next.manual /\ ~current.manual
  \/ /\ n = c /\ next.manual = current.manual
     /\ next.pref > current.pref \/ (next.pref = current.pref /\ next.id < current.id)

Preferred(kind, next, current) ==
  CASE kind = "whitelist" -> CidrCandidatePreferred(next, current)
    [] kind = "udp" -> UdpBlockCandidatePreferred(next, current)
    [] kind = "blacklist" -> BlacklistCandidatePreferred(next, current)

\* byKey: one row per key, the preferred one.
ByKey(kind, S) ==
  {r \in S : \A s \in S : s # r /\ EntryKey(s) = EntryKey(r) => Preferred(kind, r, s)}

SnapshotWhitelist(db, u) == ByKey("whitelist", Candidates(db, u, "whitelist"))
SnapshotBlacklist(db, u) == ByKey("blacklist", Candidates(db, u, "blacklist"))
SnapshotUDPSourcePortBlocks(db, u) == ByKey("udp", Candidates(db, u, "udp"))
SnapshotRules(db, u) == Candidates(db, u, "rule")

-----------------------------------------------------------------------------
(* Services *)

DevmapKeyOrDefault(value, seed) ==
  IF value # 0 THEN value ELSE IF seed % DevmapSize = 0 THEN 1 ELSE seed % DevmapSize

Live(s, u) == s.enabled /\ ~s.deleted /\ s.owner = u

\* An entry of the service allowlist; ifindex 0 is left for the agent to resolve.
MakePolicyService(service, policy, target, port, ifindex, devmap) ==
  [service |-> service, policy |-> policy, dst |-> target, port |-> port,
   ifindex |-> ifindex, devmap |-> devmap]

SnapshotServicesFromForwardingPolicies(db, u) ==
  {MakePolicyService(p.service, p.id, p.target, p.port, IF p.mac THEN p.ifindex ELSE 0,
                     DevmapKeyOrDefault(p.devmap, p.id)) :
     p \in {q \in db.policies :
              q.owner = u /\ \E s \in db.services : s.id = q.service /\ Live(s, u)}}

\* The services without a forwarding policy, whose every port becomes an entry.
SnapshotServicesFromBackendServices(db, u) ==
  UNION {{MakePolicyService(s.id, s.id, s.target, port, IF s.mac THEN s.ifindex ELSE 0,
                            DevmapKeyOrDefault(0, s.id)) : port \in s.ports} :
         s \in {t \in db.services : Live(t, u) /\ \A p \in db.policies : p.service # t.id}}

\* A network as the target, or resolved addresses without an interface, is an
\* error of the build and not of the verification.
BuildFails(db, u) ==
  LET bad(x) == x.target = Network \/ (x.mac /\ x.ifindex = 0) IN
  \/ \E s \in db.services : Live(s, u) /\ (\A p \in db.policies : p.service # s.id) /\ bad(s)
  \/ \E p \in db.policies : p.owner = u /\ bad(p)
                            /\ \E s \in db.services : s.id = p.service /\ Live(s, u)

RulePreferred(next, current) == CidrCandidatePreferred(next, current)

\* assignDefaultRules: the best rule of the service, else the best of those
\* without a service, else 0.
BestRule(S) ==
  IF S = {} THEN 0
  ELSE (CHOOSE r \in S : \A s \in S : s # r => RulePreferred(r, s)).id
AssignDefaultRule(service, rules) ==
  LET own == {r \in rules : r.service = service.service} IN
  IF own # {} THEN BestRule(own) ELSE BestRule({r \in rules : r.service = 0})

SnapshotServices(db, u) ==
  LET rules == SnapshotRules(db, u) IN
  {[entry |-> e, rule |-> AssignDefaultRule(e, rules)] :
     e \in SnapshotServicesFromForwardingPolicies(db, u)
           \cup SnapshotServicesFromBackendServices(db, u)}

BuildEffectiveSnapshot(db, u) ==
  [services |-> SnapshotServices(db, u),
   rules |-> SnapshotRules(db, u),
   whitelist |-> SnapshotWhitelist(db, u),
   blacklist |-> SnapshotBlacklist(db, u),
   udp |-> SnapshotUDPSourcePortBlocks(db, u)]

-----------------------------------------------------------------------------
(* Verification *)

Scoped(S) == {e \in S : e.scope = "service"}

\* One kind of list: no duplicate key, nothing expired, within the capacity of
\* its two maps.
ValidList(S, global, service) ==
  /\ \A d, e \in S : EntryKey(d) = EntryKey(e) => d = e
  /\ \A e \in S : e.exp # "past"
  /\ \A e \in Scoped(S) : e.service # 0
  /\ Cardinality(S \ Scoped(S)) <= Capacity[global]
  /\ Cardinality(Scoped(S)) <= Capacity[service]

ValidWhitelist(S) == ValidList(S, "whitelist_v4", "whitelist_service_v4")
ValidBlacklist(S) == ValidList(S, "blacklist_v4", "blacklist_service_v4")
ValidUDP(S) == ValidList(S, "udp_src_port_blocks", "udp_src_port_service_blocks")

\* Entries of one destination, and keys of tx_devmap with two interfaces,
\* contradict each other. An unresolved service is passed over here. (Every
\* service has an output_interface here: the test for it is left out.)
ValidServices(S) ==
  LET E == {s.entry : s \in S} IN
  /\ \A d, e \in E : <<d.dst, d.port>> = <<e.dst, e.port>> => d = e
  /\ \A e \in E : e.devmap < DevmapSize
  /\ \A d, e \in E :
       d.devmap = e.devmap /\ d.ifindex # 0 /\ e.ifindex # 0 => d.ifindex = e.ifindex
  /\ Cardinality(E) <= Capacity["service_allowlist"]

\* rule_config is an array indexed by the ebpf_id of the rule.
ValidRules(S) ==
  \A r \in S : r.id < Capacity["rule_config"] /\ r.exp # "past"

\* The tests of the memory budget and of sample_denom, which look at no entry,
\* are left out.
ValidatePolicyEntries(snapshot) ==
  /\ ValidWhitelist(snapshot.whitelist)
  /\ ValidBlacklist(snapshot.blacklist)
  /\ ValidUDP(snapshot.udp)
  /\ ValidServices(snapshot.services)
  /\ ValidRules(snapshot.rules)

\* rebuildSnapshotInTx gets as far as a snapshot that it may publish.
Rebuilds(db, u) ==
  ~BuildFails(db, u) /\ ValidatePolicyEntries(BuildEffectiveSnapshot(db, u))
=============================================================================
