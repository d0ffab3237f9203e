-------------------------- MODULE PolicyRowsProofs --------------------------
(***************************************************************************)
(* Proofs about the configuration rows and the snapshots made of them, for *)
(* any number of users and requests, any inputs and any capacity of the    *)
(* maps. RowsInv is the inductive invariant.                               *)
(*                                                                         *)
(* The preferences between rows are strict total orders on the rows that   *)
(* compete, so that one row per key wins; that is the argument for what    *)
(* the loop over the rows computes (OrderIrrelevant), and for what becomes *)
(* of a list when rows go (OwnRowsVerify). Both take an induction, over    *)
(* the naturals or over finite sets, which is done with least              *)
(* counterexamples.                                                        *)
(***************************************************************************)
EXTENDS PolicyRows, FiniteSetTheorems, FunctionTheorems, WellFoundedInduction, TLAPS

ListKinds == {"whitelist", "blacklist", "udp"}

\* A set of rows that can compete in the list of a kind.
RowSet(kind, S) ==
  /\ S \subseteq RowType /\ IsFiniteSet(S)
  /\ \A r \in S : r.kind = kind /\ (r.manual \/ kind = "blacklist")
  /\ \A r, s \in S : r.manual = s.manual /\ r.id = s.id => r = s

-----------------------------------------------------------------------------
(* Induction *)

LEMMA LeastNat ==
  ASSUME NEW T \in SUBSET Nat, T # {}
  PROVE  \E n \in T : \A m \in T : n <= m
<1>1. PICK R : R = OpToRel(<, Nat)
  OBVIOUS
<1>2. IsWellFoundedOn(R, Nat)
  BY <1>1, NatLessThanWellFounded
<1>3. ASSUME NEW x \in Nat, NEW y \in Nat, x < y PROVE <<x, y>> \in R
  BY <1>1, <1>3 DEF OpToRel
<1>4. \E n \in T : \A m \in T : ~(<<m, n>> \in R)
  BY <1>2, WFMin
<1>5. PICK n \in T : \A m \in T : ~(<<m, n>> \in R)
  BY <1>4
<1>6. ASSUME NEW m \in T PROVE ~(m < n)
  <2>1. m \in Nat /\ n \in Nat
    BY <1>5
  <2> QED
    BY <2>1, <1>3, <1>5, Zenon
<1> QED
  BY <1>5, <1>6

\* A set of finite sets that is not empty has one no subset of which is in it.
LEMMA LeastSet ==
  ASSUME NEW S, IsFiniteSet(S), NEW X \in SUBSET SUBSET S, X # {}
  PROVE  \E T \in X : \A U \in X : U \subseteq T => U = T
<1>1. X \subseteq FiniteSubsetsOf(S)
  BY FS_FiniteSubsetsOfFinite
<1>2. PICK R : R = StrictSubsetOrdering(S)
  OBVIOUS
<1>3. IsWellFoundedOn(R, FiniteSubsetsOf(S))
  BY <1>2, FS_StrictSubsetOrderingWellFounded
<1>4. \E T \in X : \A U \in X : ~(<<U, T>> \in R)
  BY <1>1, <1>3, WFMin
<1>5. PICK T \in X : \A U \in X : ~(<<U, T>> \in R)
  BY <1>4
<1>6. ASSUME NEW U \in X, U \subseteq T, U # T PROVE <<U, T>> \in R
  BY <1>2, <1>6 DEF StrictSubsetOrdering
<1>7. ASSUME NEW U \in X, U \subseteq T PROVE U = T
  BY <1>5, <1>6, <1>7, Zenon
<1> QED
  BY <1>5, <1>7, Zenon

-----------------------------------------------------------------------------
(* Preferences *)

LEMMA Ranks == \A scope \in Scopes : ScopeTypeRank(scope) \in 1..3
  BY DEF Scopes, ScopeTypeRank

\* Of two rows one is preferred, and only one; and preferences add up.
LEMMA PreferenceOrder ==
  ASSUME NEW kind \in ListKinds, NEW S, RowSet(kind, S)
  PROVE  /\ \A r, s \in S : r # s => Preferred(kind, r, s) \/ Preferred(kind, s, r)
         /\ \A r, s \in S : Preferred(kind, r, s) => ~Preferred(kind, s, r)
         /\ \A r, s, t \in S : Preferred(kind, r, s) /\ Preferred(kind, s, t) => Preferred(kind, r, t)
<1>1. \A r \in S : /\ ScopeTypeRank(r.scope) \in Int /\ r.pref \in Int /\ r.id \in Int
                   /\ r.manual \in BOOLEAN
  BY Ranks DEF RowSet, RowType
<1>2. CASE kind = "whitelist"
  <2>1. \A r, s : Preferred(kind, r, s) <=> CidrCandidatePreferred(r, s)
    BY <1>2 DEF Preferred
  <2>2. \A r, s \in S : r.id = s.id => r = s
    BY <1>2 DEF RowSet, RowType
  <2>3. ASSUME NEW r \in S, NEW s \in S, r # s
        PROVE  CidrCandidatePreferred(r, s) \/ CidrCandidatePreferred(s, r)
    BY <1>1, <2>2, <2>3 DEF CidrCandidatePreferred
  <2>4. ASSUME NEW r \in S, NEW s \in S, CidrCandidatePreferred(r, s)
        PROVE  ~CidrCandidatePreferred(s, r)
    BY <1>1, <2>4 DEF CidrCandidatePreferred
  <2>5. ASSUME NEW r \in S, NEW s \in S, NEW t \in S, CidrCandidatePreferred(r, s),
               CidrCandidatePreferred(s, t)
        PROVE  CidrCandidatePreferred(r, t)
    BY <1>1, <2>5 DEF CidrCandidatePreferred
  <2> QED
    BY <2>1, <2>3, <2>4, <2>5, Zenon
<1>3. CASE kind = "udp"
  <2>1. \A r, s : Preferred(kind, r, s) <=> UdpBlockCandidatePreferred(r, s)
    BY <1>3 DEF Preferred
  <2>2. \A r, s \in S : r.id = s.id => r = s
    BY <1>3 DEF RowSet, RowType
  <2>3. ASSUME NEW r \in S, NEW s \in S, r # s
        PROVE  UdpBlockCandidatePreferred(r, s) \/ UdpBlockCandidatePreferred(s, r)
    BY <1>1, <2>2, <2>3 DEF UdpBlockCandidatePreferred
  <2>4. ASSUME NEW r \in S, NEW s \in S, UdpBlockCandidatePreferred(r, s)
        PROVE  ~UdpBlockCandidatePreferred(s, r)
    BY <1>1, <2>4 DEF UdpBlockCandidatePreferred
  <2>5. ASSUME NEW r \in S, NEW s \in S, NEW t \in S, UdpBlockCandidatePreferred(r, s),
               UdpBlockCandidatePreferred(s, t)
        PROVE  UdpBlockCandidatePreferred(r, t)
    BY <1>1, <2>5 DEF UdpBlockCandidatePreferred
  <2> QED
    BY <2>1, <2>3, <2>4, <2>5, Zenon
<1>4. CASE kind = "blacklist"
  <2>1. \A r, s : Preferred(kind, r, s) <=> BlacklistCandidatePreferred(r, s)
    BY <1>4 DEF Preferred
  <2>2. \A r, s \in S : r.manual = s.manual /\ r.id = s.id => r = s
    BY <1>4 DEF RowSet, RowType
  <2>3. ASSUME NEW r \in S, NEW s \in S, r # s
        PROVE  BlacklistCandidatePreferred(r, s) \/ BlacklistCandidatePreferred(s, r)
    BY <1>1, <2>2, <2>3 DEF BlacklistCandidatePreferred
  <2>4. ASSUME NEW r \in S, NEW s \in S, BlacklistCandidatePreferred(r, s)
        PROVE  ~BlacklistCandidatePreferred(s, r)
    BY <1>1, <2>4 DEF BlacklistCandidatePreferred
  <2>5. ASSUME NEW r \in S, NEW s \in S, NEW t \in S, BlacklistCandidatePreferred(r, s),
               BlacklistCandidatePreferred(s, t)
        PROVE  BlacklistCandidatePreferred(r, t)
    BY <1>1, <2>5 DEF BlacklistCandidatePreferred
  <2> QED
    BY <2>1, <2>3, <2>4, <2>5, Zenon
<1> QED
  BY <1>2, <1>3, <1>4 DEF ListKinds

\* The rows of one key have a best one.
LEMMA BestExists ==
  ASSUME NEW kind \in ListKinds, NEW S, RowSet(kind, S), S # {}
  PROVE  \E r \in S : \A s \in S : s # r => Preferred(kind, r, s)
<1> DEFINE Best(T) == \E r \in T : \A s \in T : s # r => Preferred(kind, r, s)
           X == {T \in SUBSET S : T # {} /\ ~Best(T)}
<1> SUFFICES ASSUME X # {} PROVE FALSE
  OBVIOUS
<1>0. X \in SUBSET SUBSET S /\ IsFiniteSet(S)
  BY DEF RowSet
<1>1. PICK T \in X : \A U \in X : U \subseteq T => U = T
  <2> HIDE DEF X
  <2> QED
    BY <1>0, LeastSet
<1>2. PICK x \in T : TRUE
  BY <1>1
<1>3. CASE T \ {x} = {}
  BY <1>1, <1>2, <1>3
<1>4. CASE T \ {x} # {}
  <2>1. Best(T \ {x})
    <3>1. T \ {x} \in SUBSET S /\ T \ {x} \subseteq T /\ T \ {x} # T
      BY <1>0, <1>1, <1>2
    <3>2. T \ {x} \notin X
      BY <1>1, <3>1
    <3> HIDE DEF Best
    <3> QED
      BY <1>4, <3>1, <3>2
  <2>2. PICK y \in T \ {x} : \A s \in T \ {x} : s # y => Preferred(kind, y, s)
    BY <2>1
  <2>3. x \in S /\ y \in S /\ T \subseteq S
    BY <1>1, <1>2
  <2>4. CASE Preferred(kind, y, x)
    BY <1>1, <2>2, <2>4
  <2>5. CASE Preferred(kind, x, y)
    <3>1. \A s \in T : s # x => Preferred(kind, x, s)
      BY <2>2, <2>3, <2>5, PreferenceOrder
    <3> QED
      BY <1>1, <3>1
  <2> QED
    BY <2>2, <2>3, <2>4, <2>5, PreferenceOrder
<1> QED
  BY <1>3, <1>4

LEMMA RowSubset ==
  ASSUME NEW kind, NEW S, RowSet(kind, S), NEW T \in SUBSET S
  PROVE  RowSet(kind, T)
<1>1. IsFiniteSet(T)
  BY FS_Subset DEF RowSet
<1> QED
  BY <1>1 DEF RowSet

\* Every key of a set of rows is the key of one row of its list, and only one.
LEMMA ByKeyCovers ==
  ASSUME NEW kind \in ListKinds, NEW S, RowSet(kind, S), NEW r \in S
  PROVE  \E t \in ByKey(kind, S) : EntryKey(t) = EntryKey(r)
<1> DEFINE R == {s \in S : EntryKey(s) = EntryKey(r)}
<1>1. RowSet(kind, R) /\ R # {}
  BY RowSubset
<1>2. PICK t \in R : \A s \in R : s # t => Preferred(kind, t, s)
  <2> HIDE DEF R
  <2> QED
    BY <1>1, BestExists
<1>3. t \in S /\ EntryKey(t) = EntryKey(r)
  BY <1>2
<1>4. ASSUME NEW s \in S, s # t, EntryKey(s) = EntryKey(t) PROVE Preferred(kind, t, s)
  <2>1. s \in R
    BY <1>3, <1>4
  <2> QED
    BY <2>1, <1>2, <1>4
<1>5. t \in ByKey(kind, S)
  BY <1>3, <1>4 DEF ByKey
<1> QED
  BY <1>3, <1>5

LEMMA ByKeyUnique ==
  ASSUME NEW kind \in ListKinds, NEW S, RowSet(kind, S),
         NEW r \in ByKey(kind, S), NEW s \in ByKey(kind, S), EntryKey(r) = EntryKey(s)
  PROVE  r = s
<1>1. r \in S /\ s \in S
  BY DEF ByKey
<1>2. r # s => Preferred(kind, r, s) /\ Preferred(kind, s, r)
  BY <1>1 DEF ByKey
<1> QED
  BY <1>1, <1>2, PreferenceOrder

\* Whose rows have a service when their scope says so, and only then.
ScopesOK(S) == \A r \in S : r.scope = "service" <=> r.service # 0

LEMMA SameKeySameScope ==
  ASSUME NEW S, S \subseteq RowType, ScopesOK(S), NEW r \in S, NEW s \in S, EntryKey(r) = EntryKey(s)
  PROVE  r.scope = "service" <=> s.scope = "service"
  BY DEF EntryKey, ScopesOK, RowType

\* With fewer rows the list of a kind gets no longer, in either of its two maps,
\* although rows may show up in it that were not preferred before.
LEMMA ListShrinks ==
  ASSUME NEW kind \in ListKinds, NEW S, RowSet(kind, S), ScopesOK(S), NEW T \in SUBSET S
  PROVE  LET A == ByKey(kind, T)
             B == ByKey(kind, S) IN
         /\ Cardinality(Scoped(A)) <= Cardinality(Scoped(B))
         /\ Cardinality(A \ Scoped(A)) <= Cardinality(B \ Scoped(B))
         /\ {Cardinality(Scoped(A)), Cardinality(Scoped(B)), Cardinality(A \ Scoped(A)),
             Cardinality(B \ Scoped(B))} \subseteq Nat
<1> DEFINE A == ByKey(kind, T)
           B == ByKey(kind, S)
           f == [t \in A |-> CHOOSE s \in B : EntryKey(s) = EntryKey(t)]
<1>1. RowSet(kind, T) /\ S \subseteq RowType
  BY RowSubset DEF RowSet
<1>2. A \subseteq S /\ B \subseteq S
  BY DEF ByKey
<1>3. IsFiniteSet(A) /\ IsFiniteSet(B)
  BY <1>2, FS_Subset DEF RowSet
<1>4. ASSUME NEW t \in A PROVE f[t] \in B /\ EntryKey(f[t]) = EntryKey(t)
  <2>1. t \in S
    BY <1>2
  <2>2. \E s \in B : EntryKey(s) = EntryKey(t)
    BY <2>1, ByKeyCovers
  <2> HIDE DEF A, B
  <2> QED
    BY <2>2
<1>5. ASSUME NEW t \in A PROVE f[t].scope = "service" <=> t.scope = "service"
  BY <1>1, <1>2, <1>4, SameKeySameScope
<1>6. ASSUME NEW t \in A, NEW v \in A, f[t] = f[v] PROVE t = v
  <2>1. EntryKey(t) = EntryKey(v)
    BY <1>4, <1>6
  <2> QED
    BY <2>1, <1>1, ByKeyUnique
<1>7. ASSUME NEW X \in SUBSET A, NEW Y \in SUBSET B, \A t \in X : f[t] \in Y
      PROVE  Cardinality(X) <= Cardinality(Y) /\ Cardinality(X) \in Nat /\ Cardinality(Y) \in Nat
  <2> DEFINE g == [t \in X |-> f[t]]
  <2>1. IsFiniteSet(X) /\ IsFiniteSet(Y)
    BY <1>3, FS_Subset
  <2>2. g \in Injection(X, Y)
    <3>1. g \in [X -> Y]
      BY <1>7
    <3>2. \A t, v \in X : g[t] = g[v] => t = v
      <4> HIDE DEF f
      <4> QED
        BY <1>6
    <3> HIDE DEF g
    <3> QED
      BY <3>1, <3>2, Fun_IsInj
  <2> QED
    BY <2>1, <2>2, FS_Injection, FS_CardinalityType
<1>8. Scoped(A) \in SUBSET A /\ A \ Scoped(A) \in SUBSET A
  BY DEF Scoped
<1>9. Scoped(B) \in SUBSET B /\ B \ Scoped(B) \in SUBSET B
  BY DEF Scoped
<1>10. \A t \in Scoped(A) : f[t] \in Scoped(B)
  <2> HIDE DEF f, A, B
  <2> QED
    BY <1>4, <1>5 DEF Scoped
<1>11. \A t \in A \ Scoped(A) : f[t] \in B \ Scoped(B)
  <2> HIDE DEF f, A, B
  <2> QED
    BY <1>4, <1>5 DEF Scoped
<1> HIDE DEF f, A, B
<1>12. /\ Cardinality(Scoped(A)) <= Cardinality(Scoped(B))
       /\ Cardinality(Scoped(A)) \in Nat /\ Cardinality(Scoped(B)) \in Nat
  BY <1>7, <1>8, <1>9, <1>10
<1>13. /\ Cardinality(A \ Scoped(A)) <= Cardinality(B \ Scoped(B))
       /\ Cardinality(A \ Scoped(A)) \in Nat /\ Cardinality(B \ Scoped(B)) \in Nat
  BY <1>7, <1>8, <1>9, <1>11
<1> QED
  BY <1>12, <1>13 DEF A, B

-----------------------------------------------------------------------------
(* Rebuilds *)

\* The tables d and e have the same services of u, with the same policies.
SameServices(d, e, u) ==
  /\ {s \in d.services : s.owner = u} = {s \in e.services : s.owner = u}
  /\ {p \in d.policies : p.owner = u} = {p \in e.policies : p.owner = u}
  /\ \A s \in d.services : s.owner = u =>
       ((\E p \in d.policies : p.service = s.id) <=> (\E p \in e.policies : p.service = s.id))

CandidatesOK(d, u) ==
  \A kind \in ListKinds :
    RowSet(kind, Candidates(d, u, kind)) /\ ScopesOK(Candidates(d, u, kind))

LEMMA ServicesAlike ==
  ASSUME NEW d, NEW e, NEW u, SameServices(d, e, u)
  PROVE  /\ SnapshotServicesFromForwardingPolicies(d, u) = SnapshotServicesFromForwardingPolicies(e, u)
         /\ SnapshotServicesFromBackendServices(d, u) = SnapshotServicesFromBackendServices(e, u)
         /\ BuildFails(d, u) <=> BuildFails(e, u)
<1> DEFINE F(x) == {q \in x.policies : q.owner = u /\ \E s \in x.services : s.id = q.service /\ Live(s, u)}
           B(x) == {t \in x.services : Live(t, u) /\ \A p \in x.policies : p.service # t.id}
<1>1. \A s : s \in d.services /\ s.owner = u <=> s \in e.services /\ s.owner = u
  BY DEF SameServices
<1>2. \A p : p \in d.policies /\ p.owner = u <=> p \in e.policies /\ p.owner = u
  BY DEF SameServices
<1>3. F(d) = F(e)
  BY <1>1, <1>2 DEF Live
<1>4. B(d) = B(e)
  <2>1. ASSUME NEW s PROVE s \in B(d) <=> s \in B(e)
    <3>1. CASE s \in d.services /\ s.owner = u
      <4>1. s \in e.services
        BY <1>1, <3>1
      <4>2. (\E p \in d.policies : p.service = s.id) <=> (\E p \in e.policies : p.service = s.id)
        BY <3>1 DEF SameServices
      <4> QED
        BY <3>1, <4>1, <4>2
    <3>2. CASE ~(s \in d.services /\ s.owner = u)
      <4>1. ~(s \in e.services /\ s.owner = u)
        BY <1>1, <3>2
      <4> QED
        BY <3>2, <4>1 DEF Live
    <3> QED
      BY <3>1, <3>2
  <2> QED
    BY <2>1
<1>5. SnapshotServicesFromForwardingPolicies(d, u) = SnapshotServicesFromForwardingPolicies(e, u)
  BY <1>3 DEF SnapshotServicesFromForwardingPolicies
<1>6. SnapshotServicesFromBackendServices(d, u) = SnapshotServicesFromBackendServices(e, u)
  BY <1>4 DEF SnapshotServicesFromBackendServices
<1>7. ASSUME NEW x
      PROVE  BuildFails(x, u) <=>
               \/ \E s \in B(x) : s.target = Network \/ (s.mac /\ s.ifindex = 0)
               \/ \E p \in F(x) : p.target = Network \/ (p.mac /\ p.ifindex = 0)
  BY DEF BuildFails
<1>8. BuildFails(d, u) <=> BuildFails(e, u)
  <2> HIDE DEF F, B
  <2> QED
    BY <1>3, <1>4, <1>7
<1> QED
  BY <1>5, <1>6, <1>8

LEMMA EntriesOfServices ==
  ASSUME NEW d, NEW u
  PROVE  {s.entry : s \in SnapshotServices(d, u)} =
           SnapshotServicesFromForwardingPolicies(d, u) \cup SnapshotServicesFromBackendServices(d, u)
<1> DEFINE E == SnapshotServicesFromForwardingPolicies(d, u)
                  \cup SnapshotServicesFromBackendServices(d, u)
           With(e) == [entry |-> e, rule |-> AssignDefaultRule(e, SnapshotRules(d, u))]
<1>1. SnapshotServices(d, u) = {With(e) : e \in E}
  BY DEF SnapshotServices
<1>2. \A e : With(e).entry = e
  OBVIOUS
<1> HIDE DEF E, With
<1>3. {s.entry : s \in SnapshotServices(d, u)} = E
  BY <1>1, <1>2
<1> QED
  BY <1>3 DEF E

LEMMA ValidListShrinks ==
  ASSUME NEW kind \in ListKinds, NEW S, RowSet(kind, S), ScopesOK(S), NEW T \in SUBSET S,
         NEW global, NEW service, Capacity[global] \in Nat, Capacity[service] \in Nat,
         \A r \in T : r.exp # "past", ValidList(ByKey(kind, S), global, service)
  PROVE  ValidList(ByKey(kind, T), global, service)
<1> DEFINE A == ByKey(kind, T)
           B == ByKey(kind, S)
<1>1. A \subseteq T /\ RowSet(kind, T)
  BY RowSubset DEF ByKey
<1>2. \A x, y \in A : EntryKey(x) = EntryKey(y) => x = y
  BY <1>1, ByKeyUnique
<1>3. \A x \in Scoped(A) : x.service # 0
  BY <1>1 DEF Scoped, ScopesOK
<1>4. /\ Cardinality(Scoped(A)) <= Cardinality(Scoped(B))
      /\ Cardinality(A \ Scoped(A)) <= Cardinality(B \ Scoped(B))
      /\ {Cardinality(Scoped(A)), Cardinality(Scoped(B)), Cardinality(A \ Scoped(A)),
          Cardinality(B \ Scoped(B))} \subseteq Nat
  BY ListShrinks
<1>5. Cardinality(B \ Scoped(B)) <= Capacity[global] /\ Cardinality(Scoped(B)) <= Capacity[service]
  BY DEF ValidList
<1> HIDE DEF A, B
<1>6. Cardinality(A \ Scoped(A)) <= Capacity[global] /\ Cardinality(Scoped(A)) <= Capacity[service]
  BY <1>4, <1>5
<1>7. ValidList(A, global, service)
  BY <1>1, <1>2, <1>3, <1>6 DEF ValidList
<1> QED
  BY <1>7 DEF A

\* Rows that go, or that no longer count, stop no rebuild that went through.
LEMMA RebuildsWithLess ==
  ASSUME NEW d, NEW e, NEW u, CandidatesOK(e, u), SameServices(d, e, u),
         \A kind \in Kinds : Candidates(d, u, kind) \subseteq Candidates(e, u, kind),
         Rebuilds(e, u)
  PROVE  Rebuilds(d, u)
<1> DEFINE D == BuildEffectiveSnapshot(d, u)
           E == BuildEffectiveSnapshot(e, u)
<1>1. ~BuildFails(d, u)
  BY ServicesAlike DEF Rebuilds
<1>2. ValidatePolicyEntries(E)
  BY DEF Rebuilds
<1>3. \A kind \in Kinds : \A r \in Candidates(d, u, kind) : r.exp # "past"
  BY DEF Candidates, InForce
<1>4. "whitelist" \in ListKinds /\ "blacklist" \in ListKinds /\ "udp" \in ListKinds /\ ListKinds \subseteq Kinds
      /\ "rule" \in Kinds
  BY DEF ListKinds, Kinds
<1>5. \A m \in {"whitelist_v4", "whitelist_service_v4", "blacklist_v4", "blacklist_service_v4",
                "udp_src_port_blocks", "udp_src_port_service_blocks"} : Capacity[m] \in Nat
  BY RowsAssumption
<1>6. ASSUME NEW kind \in ListKinds, NEW global, NEW service, Capacity[global] \in Nat,
             Capacity[service] \in Nat, ValidList(ByKey(kind, Candidates(e, u, kind)), global, service)
      PROVE  ValidList(ByKey(kind, Candidates(d, u, kind)), global, service)
  <2>1. Candidates(d, u, kind) \in SUBSET Candidates(e, u, kind)
    BY <1>4
  <2>2. RowSet(kind, Candidates(e, u, kind)) /\ ScopesOK(Candidates(e, u, kind))
    BY DEF CandidatesOK
  <2>3. \A r \in Candidates(d, u, kind) : r.exp # "past"
    BY <1>3, <1>4
  <2> QED
    BY <1>6, <2>1, <2>2, <2>3, ValidListShrinks
<1>7. ValidWhitelist(D.whitelist)
  <2>1. ValidWhitelist(E.whitelist)
    BY <1>2 DEF ValidatePolicyEntries
  <2> QED
    BY <2>1, <1>4, <1>5, <1>6 DEF ValidWhitelist, BuildEffectiveSnapshot, SnapshotWhitelist
<1>8. ValidBlacklist(D.blacklist)
  <2>1. ValidBlacklist(E.blacklist)
    BY <1>2 DEF ValidatePolicyEntries
  <2> QED
    BY <2>1, <1>4, <1>5, <1>6 DEF ValidBlacklist, BuildEffectiveSnapshot, SnapshotBlacklist
<1>9. ValidUDP(D.udp)
  <2>1. ValidUDP(E.udp)
    BY <1>2 DEF ValidatePolicyEntries
  <2> QED
    BY <2>1, <1>4, <1>5, <1>6 DEF ValidUDP, BuildEffectiveSnapshot, SnapshotUDPSourcePortBlocks
<1>10. ValidServices(D.services)
  <2>1. {s.entry : s \in D.services} = {s.entry : s \in E.services}
    BY EntriesOfServices, ServicesAlike, ZenonT(30) DEF BuildEffectiveSnapshot
  <2>2. ValidServices(E.services)
    BY <1>2 DEF ValidatePolicyEntries
  <2> HIDE DEF D, E
  <2> QED
    BY <2>1, <2>2 DEF ValidServices
<1>11. ValidRules(D.rules)
  <2>1. ValidRules(E.rules)
    BY <1>2 DEF ValidatePolicyEntries
  <2> QED
    BY <2>1, <1>4 DEF ValidRules, BuildEffectiveSnapshot, SnapshotRules
<1> QED
  BY <1>1, <1>7, <1>8, <1>9, <1>10, <1>11 DEF Rebuilds, ValidatePolicyEntries

\* The tables of the invariant give sets of rows that may compete.
LEMMA CandidatesOfTables ==
  ASSUME NEW d, NEW q, RowsOK(d, q), NEW u
  PROVE  CandidatesOK(d, u) /\ CandidatesOK(Unshared(d), u)
<1>1. ASSUME NEW kind \in ListKinds, NEW S \in SUBSET d.rows, \A r \in S : r.kind = kind
      PROVE  RowSet(kind, S) /\ ScopesOK(S)
  <2>1. IsFiniteSet(S)
    BY FS_Subset DEF RowsOK
  <2>2. \A r \in S : r.manual \/ kind = "blacklist"
    BY <1>1 DEF RowsOK
  <2>3. ASSUME NEW r \in S, NEW s \in S, r.manual = s.manual, r.id = s.id PROVE r = s
    BY <1>1, <2>3 DEF RowsOK
  <2> QED
    BY <1>1, <2>1, <2>2, <2>3 DEF RowSet, ScopesOK, RowsOK
<1>2. Unshared(d).rows \subseteq d.rows
  BY DEF Unshared, RowsOK
<1>3. ASSUME NEW kind
      PROVE  /\ Candidates(d, u, kind) \in SUBSET d.rows
             /\ Candidates(Unshared(d), u, kind) \in SUBSET d.rows
             /\ \A r \in Candidates(d, u, kind) : r.kind = kind
             /\ \A r \in Candidates(Unshared(d), u, kind) : r.kind = kind
  BY <1>2 DEF Candidates
<1> QED
  BY <1>1, <1>3 DEF CandidatesOK

-----------------------------------------------------------------------------
(* The tables *)

\* What a new or a changed row must be like, beside its id.
RowAllowed(d, r) ==
  /\ r \in RowType
  /\ r.scope = "service" <=> r.service # 0
  /\ r.scope = "service" => \E s \in d.services : s.id = r.service /\ s.owner = r.owner

\* Rows that are changed keep their table and id.
LEMMA RowsChanged ==
  ASSUME NEW d, NEW q, RowsOK(d, q), NEW g \in [d.rows -> RowType],
         \A r \in d.rows : /\ <<g[r].kind, g[r].manual, g[r].id>> = <<r.kind, r.manual, r.id>>
                           /\ RowAllowed(d, g[r])
  PROVE  RowsOK([d EXCEPT !.rows = {g[r] : r \in d.rows}], q)
<1> DEFINE R == {g[r] : r \in d.rows}
           e == [d EXCEPT !.rows = R]
<1>1. /\ d = [services |-> d.services, policies |-> d.policies, rows |-> d.rows]
      /\ q \in [Tables -> Nat]
      /\ IsFiniteSet(d.rows)
      /\ \A r, s \in d.rows : <<r.kind, r.manual, r.id>> = <<s.kind, s.manual, s.id>> => r = s
  BY DEF RowsOK
<1>2. e = [services |-> d.services, policies |-> d.policies, rows |-> R]
  <2> HIDE DEF R
  <2> QED
    BY <1>1
<1>3. e.services = d.services /\ e.policies = d.policies /\ e.rows = R
  BY <1>2
<1>4. IsFiniteSet(R)
  <2>1. g \in [d.rows -> R]
    OBVIOUS
  <2>2. g \in Surjection(d.rows, R)
    BY <2>1, Fun_IsSurj
  <2> QED
    BY <2>2, <1>1, FS_Surjection
<1>5. ASSUME NEW r \in R
      PROVE  /\ r \in RowType
             /\ r.scope = "service" <=> r.service # 0
             /\ r.manual => r.id \in 1..q[r.kind]
             /\ ~r.manual => r.kind = "blacklist"
             /\ r.scope = "service" =>
                  \E s \in d.services : s.id = r.service /\ s.owner = r.owner
  <2>1. PICK o \in d.rows : r = g[o]
    OBVIOUS
  <2>2. o.manual => o.id \in 1..q[o.kind]
    BY DEF RowsOK
  <2>3. ~o.manual => o.kind = "blacklist"
    BY DEF RowsOK
  <2>4. r.kind = o.kind /\ r.manual = o.manual /\ r.id = o.id /\ RowAllowed(d, r)
    BY <2>1
  <2> QED
    BY <2>2, <2>3, <2>4 DEF RowAllowed
<1>6. ASSUME NEW r \in R, NEW s \in R, <<r.kind, r.manual, r.id>> = <<s.kind, s.manual, s.id>>
      PROVE  r = s
  <2>1. PICK o \in d.rows : r = g[o]
    OBVIOUS
  <2>2. PICK p \in d.rows : s = g[p]
    OBVIOUS
  <2>3. o = p
    BY <1>1, <1>6, <2>1, <2>2
  <2> QED
    BY <2>1, <2>2, <2>3
<1>7. /\ \A s \in d.services : s = ServiceRow(s.id, s.owner, s, s.deleted) /\ s.id \in 1..q["service"]
      /\ \A s, t \in d.services : s.id = t.id => s = t
      /\ \A p \in d.policies : \E s \in d.services : s.id = p.service /\ s.owner = p.owner
  BY DEF RowsOK
<1> HIDE DEF R, e
<1>8. RowsOK(e, q)
  BY <1>1, <1>2, <1>3, <1>4, <1>5, <1>6, <1>7 DEF RowsOK
<1> QED
  BY <1>8 DEF e, R

LEMMA RowReplaced ==
  ASSUME RowsOK(db, seq), NEW r \in db.rows, NEW n, RowAllowed(db, n),
         <<n.kind, n.manual, n.id>> = <<r.kind, r.manual, r.id>>
  PROVE  RowsOK(Replace(r, n), seq)
<1> DEFINE g == [s \in db.rows |-> IF s = r THEN n ELSE s]
<1>1. \A s \in db.rows : RowAllowed(db, s)
  BY DEF RowAllowed, RowsOK
<1>2. g \in [db.rows -> RowType]
  BY <1>1 DEF RowAllowed
<1>3. \A s \in db.rows : /\ <<g[s].kind, g[s].manual, g[s].id>> = <<s.kind, s.manual, s.id>>
                         /\ RowAllowed(db, g[s])
  BY <1>1
<1>4. {g[s] : s \in db.rows} = (db.rows \ {r}) \cup {n}
  OBVIOUS
<1>5. Replace(r, n) = [db EXCEPT !.rows = {g[s] : s \in db.rows}]
  BY <1>4 DEF Replace
<1> HIDE DEF g
<1> QED
  BY <1>2, <1>3, <1>5, RowsChanged

LEMMA RowsDisabled ==
  ASSUME RowsOK(db, seq), NEW S \in SUBSET db.rows
  PROVE  RowsOK(Disabled(S), seq)
<1> DEFINE g == [s \in db.rows |-> IF s \in S THEN [s EXCEPT !.enabled = FALSE] ELSE s]
<1>1. \A s \in db.rows : RowAllowed(db, s)
  BY DEF RowAllowed, RowsOK
<1>2. \A s \in db.rows : RowAllowed(db, [s EXCEPT !.enabled = FALSE])
  <2> SUFFICES ASSUME NEW s \in db.rows PROVE RowAllowed(db, [s EXCEPT !.enabled = FALSE])
    OBVIOUS
  <2>1. s \in RowType
    BY <1>1 DEF RowAllowed
  <2>2. [s EXCEPT !.enabled = FALSE] \in RowType
    BY <2>1 DEF RowType
  <2>3. /\ [s EXCEPT !.enabled = FALSE].scope = s.scope
        /\ [s EXCEPT !.enabled = FALSE].service = s.service
        /\ [s EXCEPT !.enabled = FALSE].owner = s.owner
    BY <2>1 DEF RowType
  <2> QED
    BY <1>1, <2>2, <2>3 DEF RowAllowed
<1>3. g \in [db.rows -> RowType]
  BY <1>1, <1>2 DEF RowAllowed
<1>4. \A s \in db.rows : /\ <<g[s].kind, g[s].manual, g[s].id>> = <<s.kind, s.manual, s.id>>
                         /\ RowAllowed(db, g[s])
  <2>1. \A s \in db.rows : s \in RowType
    BY <1>1 DEF RowAllowed
  <2>2. ASSUME NEW s \in RowType
        PROVE  LET n == [s EXCEPT !.enabled = FALSE] IN
               n.kind = s.kind /\ n.manual = s.manual /\ n.id = s.id
    BY DEF RowType
  <2> QED
    BY <1>1, <1>2, <2>1, <2>2
<1>5. {g[s] : s \in db.rows} = (db.rows \ S) \cup {[r EXCEPT !.enabled = FALSE] : r \in S}
  OBVIOUS
<1>6. Disabled(S) = [db EXCEPT !.rows = {g[s] : s \in db.rows}]
  BY <1>5 DEF Disabled
<1> HIDE DEF g
<1> QED
  BY <1>3, <1>4, <1>6, RowsChanged

LEMMA RowAdded ==
  ASSUME RowsOK(db, seq), NEW kind \in Kinds, NEW n, RowAllowed(db, n), n.kind = kind, n.manual,
         n.id = seq[kind] + 1
  PROVE  RowsOK([db EXCEPT !.rows = @ \cup {n}], [seq EXCEPT ![kind] = @ + 1])
<1> DEFINE e == [db EXCEPT !.rows = @ \cup {n}]
           q == [seq EXCEPT ![kind] = @ + 1]
<1>1. /\ db = [services |-> db.services, policies |-> db.policies, rows |-> db.rows]
      /\ seq \in [Tables -> Nat]
      /\ IsFiniteSet(db.rows) /\ db.rows \subseteq RowType
      /\ \A r, s \in db.rows : <<r.kind, r.manual, r.id>> = <<s.kind, s.manual, s.id>> => r = s
  BY DEF RowsOK
<1>2. e = [services |-> db.services, policies |-> db.policies, rows |-> db.rows \cup {n}]
  BY <1>1
<1>3. e.services = db.services /\ e.policies = db.policies /\ e.rows = db.rows \cup {n}
  BY <1>2
<1>4. IsFiniteSet(e.rows)
  BY <1>1, <1>3, FS_AddElement
<1>5. /\ q \in [Tables -> Nat] /\ q["service"] = seq["service"]
      /\ q[kind] = seq[kind] + 1 /\ \A k \in Kinds : seq[k] \in Nat /\ q[k] \in Nat /\ seq[k] <= q[k]
  BY <1>1 DEF Tables, Kinds
<1>6. \A r \in db.rows : r.kind \in Kinds /\ r.id \in Nat /\ r.manual \in BOOLEAN
  BY <1>1 DEF RowType
<1>7. n \in RowType /\ n.id \in 1..q[n.kind]
  BY <1>5 DEF RowAllowed
<1>8. \A r \in db.rows : r.manual => r.id \in 1..seq[r.kind]
  BY DEF RowsOK
<1>9. ASSUME NEW r \in db.rows, r.manual PROVE r.id \in 1..q[r.kind] /\ ~(r.kind = kind /\ r.id = n.id)
  BY <1>5, <1>6, <1>8, <1>9
<1>10. ASSUME NEW r \in db.rows \cup {n}
       PROVE  /\ r \in RowType
              /\ r.scope = "service" <=> r.service # 0
              /\ r.manual => r.id \in 1..q[r.kind]
              /\ ~r.manual => r.kind = "blacklist"
              /\ r.scope = "service" => \E s \in db.services : s.id = r.service /\ s.owner = r.owner
  <2>1. CASE r = n
    BY <1>7, <2>1 DEF RowAllowed
  <2>2. CASE r \in db.rows
    <3>1. r.manual => r.id \in 1..q[r.kind]
      BY <1>9, <2>2
    <3> QED
      BY <2>2, <3>1 DEF RowsOK
  <2> QED
    BY <2>1, <2>2
<1>11. ASSUME NEW r \in db.rows \cup {n}, NEW s \in db.rows \cup {n},
              <<r.kind, r.manual, r.id>> = <<s.kind, s.manual, s.id>>
       PROVE  r = s
  <2>1. r.kind = s.kind /\ r.manual = s.manual /\ r.id = s.id
    BY <1>11
  <2>2. CASE r \in db.rows /\ s \in db.rows
    BY <1>1, <2>1, <2>2
  <2>3. CASE r = n /\ s # n
    BY <1>9, <2>1, <2>3
  <2>4. CASE s = n /\ r # n
    BY <1>9, <2>1, <2>4
  <2> QED
    BY <2>2, <2>3, <2>4
<1>12. /\ \A s \in db.services : s = ServiceRow(s.id, s.owner, s, s.deleted) /\ s.id \in 1..seq["service"]
       /\ \A s, t \in db.services : s.id = t.id => s = t
       /\ \A p \in db.policies : \E s \in db.services : s.id = p.service /\ s.owner = p.owner
  BY DEF RowsOK
<1> HIDE DEF e, q
<1>13. RowsOK(e, q)
  BY <1>2, <1>3, <1>4, <1>5, <1>10, <1>11, <1>12 DEF RowsOK
<1> QED
  BY <1>13 DEF e, q

\* Services and policies that are added or changed; no service goes.
LEMMA ServicesChanged ==
  ASSUME RowsOK(db, seq), NEW X, NEW P, NEW q \in [Tables -> Nat],
         q["service"] >= seq["service"], \A k \in Kinds : q[k] = seq[k],
         \A s \in db.services : \E t \in X : t.id = s.id /\ t.owner = s.owner,
         \A s \in X : s = ServiceRow(s.id, s.owner, s, s.deleted) /\ s.id \in 1..q["service"],
         \A s, t \in X : s.id = t.id => s = t,
         \A p \in P : \E s \in X : s.id = p.service /\ s.owner = p.owner
  PROVE  RowsOK([services |-> X, policies |-> P, rows |-> db.rows], q)
<1> DEFINE e == [services |-> X, policies |-> P, rows |-> db.rows]
<1>1. e.services = X /\ e.policies = P /\ e.rows = db.rows
  OBVIOUS
<1>2. e = [services |-> e.services, policies |-> e.policies, rows |-> e.rows]
  OBVIOUS
<1>3. /\ db.rows \subseteq RowType /\ IsFiniteSet(db.rows)
      /\ \A r, s \in db.rows : <<r.kind, r.manual, r.id>> = <<s.kind, s.manual, s.id>> => r = s
  BY DEF RowsOK
<1>4. ASSUME NEW r \in db.rows
      PROVE  /\ r.scope = "service" <=> r.service # 0
             /\ r.manual => r.id \in 1..q[r.kind]
             /\ ~r.manual => r.kind = "blacklist"
             /\ r.scope = "service" => \E s \in X : s.id = r.service /\ s.owner = r.owner
  <2>1. /\ r.scope = "service" <=> r.service # 0
        /\ r.manual => r.id \in 1..seq[r.kind]
        /\ ~r.manual => r.kind = "blacklist"
        /\ r.scope = "service" => \E s \in db.services : s.id = r.service /\ s.owner = r.owner
    BY DEF RowsOK
  <2>2. q[r.kind] = seq[r.kind]
    BY <1>3 DEF RowType
  <2> QED
    BY <2>1, <2>2
<1> HIDE DEF e
<1>5. RowsOK(e, q)
  BY <1>1, <1>2, <1>3, <1>4 DEF RowsOK
<1> QED
  BY <1>5 DEF e

\* The three operations on services and the one on policies.
LEMMA ServiceAdded ==
  ASSUME RowsOK(db, seq), NEW n, n = ServiceRow(n.id, n.owner, n, n.deleted),
         n.id = seq["service"] + 1
  PROVE  RowsOK([db EXCEPT !.services = @ \cup {n}], [seq EXCEPT !["service"] = @ + 1])
<1> DEFINE X == db.services \cup {n}
           q == [seq EXCEPT !["service"] = @ + 1]
<1>1. /\ db = [services |-> db.services, policies |-> db.policies, rows |-> db.rows]
      /\ seq \in [Tables -> Nat]
      /\ \A s \in db.services : s = ServiceRow(s.id, s.owner, s, s.deleted) /\ s.id \in 1..seq["service"]
      /\ \A s, t \in db.services : s.id = t.id => s = t
      /\ \A p \in db.policies : \E s \in db.services : s.id = p.service /\ s.owner = p.owner
  BY DEF RowsOK
<1>2. [db EXCEPT !.services = @ \cup {n}] = [services |-> X, policies |-> db.policies, rows |-> db.rows]
  <2>1. db = [services |-> db.services, policies |-> db.policies, rows |-> db.rows]
    BY DEF RowsOK
  <2> QED
    BY <2>1
<1>3. /\ q \in [Tables -> Nat] /\ q["service"] = seq["service"] + 1 /\ seq["service"] \in Nat
      /\ \A k \in Kinds : q[k] = seq[k]
  BY <1>1 DEF Tables, Kinds
<1>4. \A s \in X : s = ServiceRow(s.id, s.owner, s, s.deleted) /\ s.id \in 1..q["service"]
  <2>1. \A s \in db.services : s.id \in 1..q["service"]
    BY <1>1, <1>3
  <2>2. n.id \in 1..q["service"]
    BY <1>3
  <2> HIDE DEF q
  <2> QED
    BY <1>1, <2>1, <2>2
<1>5. \A s, t \in X : s.id = t.id => s = t
  <2>1. \A s \in db.services : s.id # n.id
    BY <1>1, <1>3
  <2> QED
    BY <1>1, <2>1
<1>6. \A p \in db.policies : \E s \in X : s.id = p.service /\ s.owner = p.owner
  BY <1>1
<1>7. \A s \in db.services : \E t \in X : t.id = s.id /\ t.owner = s.owner
  OBVIOUS
<1>8. q["service"] >= seq["service"]
  BY <1>3
<1> HIDE DEF X, q
<1>9. RowsOK([services |-> X, policies |-> db.policies, rows |-> db.rows], q)
  BY <1>3, <1>4, <1>5, <1>6, <1>7, <1>8, ServicesChanged
<1> QED
  BY <1>2, <1>9 DEF X, q

LEMMA ServiceReplaced ==
  ASSUME RowsOK(db, seq), NEW s \in db.services, NEW n, n = ServiceRow(s.id, s.owner, n, n.deleted)
  PROVE  RowsOK([db EXCEPT !.services = (@ \ {s}) \cup {n}], seq)
<1> DEFINE X == (db.services \ {s}) \cup {n}
<1>1. /\ db = [services |-> db.services, policies |-> db.policies, rows |-> db.rows]
      /\ seq \in [Tables -> Nat]
      /\ \A t \in db.services : t = ServiceRow(t.id, t.owner, t, t.deleted) /\ t.id \in 1..seq["service"]
      /\ \A t, v \in db.services : t.id = v.id => t = v
      /\ \A p \in db.policies : \E t \in db.services : t.id = p.service /\ t.owner = p.owner
  BY DEF RowsOK
<1>2. [db EXCEPT !.services = (@ \ {s}) \cup {n}] = [services |-> X, policies |-> db.policies, rows |-> db.rows]
  <2>1. db = [services |-> db.services, policies |-> db.policies, rows |-> db.rows]
    BY DEF RowsOK
  <2> QED
    BY <2>1
<1>3. n.id = s.id /\ n.owner = s.owner
  BY DEF ServiceRow
<1>4. \A t \in X : t = ServiceRow(t.id, t.owner, t, t.deleted) /\ t.id \in 1..seq["service"]
  BY <1>1, <1>3
<1>5. \A t, v \in X : t.id = v.id => t = v
  BY <1>1, <1>3
<1>6. \A t \in db.services : \E v \in X : v.id = t.id /\ v.owner = t.owner
  BY <1>3
<1>7. \A p \in db.policies : \E t \in X : t.id = p.service /\ t.owner = p.owner
  <2> SUFFICES ASSUME NEW p \in db.policies PROVE \E t \in X : t.id = p.service /\ t.owner = p.owner
    OBVIOUS
  <2>1. PICK t \in db.services : t.id = p.service /\ t.owner = p.owner
    BY <1>1
  <2>2. PICK v \in X : v.id = t.id /\ v.owner = t.owner
    BY <1>6
  <2> QED
    BY <2>1, <2>2
<1>8. seq["service"] >= seq["service"]
  BY <1>1 DEF Tables
<1> HIDE DEF X
<1>9. RowsOK([services |-> X, policies |-> db.policies, rows |-> db.rows], seq)
  BY <1>1, <1>4, <1>5, <1>6, <1>7, <1>8, ServicesChanged
<1> QED
  BY <1>2, <1>9 DEF X

LEMMA PolicyAdded ==
  ASSUME RowsOK(db, seq), NEW p, \E s \in db.services : s.id = p.service /\ s.owner = p.owner
  PROVE  RowsOK([db EXCEPT !.policies = @ \cup {p}], [seq EXCEPT !["policy"] = @ + 1])
<1> DEFINE P == db.policies \cup {p}
           q == [seq EXCEPT !["policy"] = @ + 1]
<1>1. /\ db = [services |-> db.services, policies |-> db.policies, rows |-> db.rows]
      /\ seq \in [Tables -> Nat]
      /\ \A s \in db.services : s = ServiceRow(s.id, s.owner, s, s.deleted) /\ s.id \in 1..seq["service"]
      /\ \A s, t \in db.services : s.id = t.id => s = t
      /\ \A o \in db.policies : \E s \in db.services : s.id = o.service /\ s.owner = o.owner
  BY DEF RowsOK
<1>2. [db EXCEPT !.policies = @ \cup {p}] = [services |-> db.services, policies |-> P, rows |-> db.rows]
  BY <1>1
<1>3. /\ q \in [Tables -> Nat] /\ q["service"] = seq["service"] /\ q["service"] >= seq["service"]
      /\ \A k \in Kinds : q[k] = seq[k]
  BY <1>1 DEF Tables, Kinds
<1>4. \A o \in P : \E s \in db.services : s.id = o.service /\ s.owner = o.owner
  BY <1>1
<1>5. \A s \in db.services : \E t \in db.services : t.id = s.id /\ t.owner = s.owner
  OBVIOUS
<1>6. \A s \in db.services : s = ServiceRow(s.id, s.owner, s, s.deleted) /\ s.id \in 1..q["service"]
  BY <1>1, <1>3
<1> HIDE DEF P, q
<1>7. RowsOK([services |-> db.services, policies |-> P, rows |-> db.rows], q)
  BY <1>1, <1>3, <1>4, <1>5, <1>6, ServicesChanged
<1> QED
  BY <1>2, <1>7 DEF P, q

LEMMA SequenceMoves ==
  ASSUME NEW d, RowsOK(d, seq), NEW table \in Tables
  PROVE  RowsOK(d, [seq EXCEPT ![table] = @ + 1])
<1> DEFINE q == [seq EXCEPT ![table] = @ + 1]
<1>1. seq \in [Tables -> Nat] /\ d.rows \subseteq RowType
  BY DEF RowsOK
<1>2. q \in [Tables -> Nat] /\ \A t \in Tables : seq[t] \in Nat /\ q[t] \in Nat /\ seq[t] <= q[t]
  BY <1>1
<1>3. "service" \in Tables /\ Kinds \subseteq Tables
  BY DEF Tables
<1>4. \A s \in d.services : s = ServiceRow(s.id, s.owner, s, s.deleted) /\ s.id \in 1..q["service"]
  <2>1. \A s \in d.services : s = ServiceRow(s.id, s.owner, s, s.deleted) /\ s.id \in 1..seq["service"]
    BY DEF RowsOK
  <2>2. 1..seq["service"] \subseteq 1..q["service"]
    BY <1>2, <1>3
  <2> HIDE DEF q
  <2> QED
    BY <2>1, <2>2
<1>5. ASSUME NEW r \in d.rows, r.manual PROVE r.id \in 1..q[r.kind]
  <2>1. r.id \in 1..seq[r.kind]
    BY <1>5 DEF RowsOK
  <2>2. r.kind \in Tables
    BY <1>1, <1>3 DEF RowType
  <2> QED
    BY <2>1, <2>2, <1>2
<1> HIDE DEF q
<1>6. RowsOK(d, q)
  BY <1>2, <1>4, <1>5 DEF RowsOK
<1> QED
  BY <1>6 DEF q

-----------------------------------------------------------------------------
(* What a step does to the tables *)

\* A request of user a: its own rows, of which none is shared.
OwnOnly(a, d, e) ==
  /\ {r \in d.rows : r.owner # a \/ r.scope = "admin_global"} =
       {r \in e.rows : r.owner # a \/ r.scope = "admin_global"}
  /\ {s \in d.services : s.owner # a} = {s \in e.services : s.owner # a}
  /\ {p \in d.policies : p.owner # a} = {p \in e.policies : p.owner # a}

\* A request of an admin: shared rows.
SharedOnly(d, e) ==
  /\ {r \in d.rows : r.scope # "admin_global"} = {r \in e.rows : r.scope # "admin_global"}
  /\ d.services = e.services /\ d.policies = e.policies

Committed(a) ==
  /\ Rebuilds(db', a)
  /\ published' = [published EXCEPT ![a] = BuildEffectiveSnapshot(db', a)]
  /\ left' = left \ {a}

\* A rollback of user a to what it has published before.
RolledBack(a) ==
  \E S \in past[a] :
    db' = db /\ published' = [published EXCEPT ![a] = S] /\ left' = left \cup {a}

\* What a step does that is not a pass of ExpireTTLRules.
Usual ==
  /\ RowsOK(db', seq')
  /\ \/ UNCHANGED <<db, published, left>>
     \/ \E a \in Owner : OwnOnly(a, db, db') /\ Committed(a)
     \/ SharedOnly(db, db') /\ RebuildAllActiveUserSnapshots(db')
     \/ \E r \in db.rows : Lapse(r)
     \/ \E a \in Owner : RolledBack(a)

Shape ==
  \/ Usual
  \/ RowsOK(db', seq') /\ \E a \in Owner : db' = Disabled(Expired(a)) /\ Committed(a)

LEMMA TableFields ==
  ASSUME NEW d, NEW q, RowsOK(d, q), NEW X
  PROVE  /\ LET e == [d EXCEPT !.rows = X] IN
            e.rows = X /\ e.services = d.services /\ e.policies = d.policies
         /\ LET e == [d EXCEPT !.services = X] IN
            e.rows = d.rows /\ e.services = X /\ e.policies = d.policies
         /\ LET e == [d EXCEPT !.policies = X] IN
            e.rows = d.rows /\ e.services = d.services /\ e.policies = X
<1>1. d = [services |-> d.services, policies |-> d.policies, rows |-> d.rows]
  BY DEF RowsOK
<1> QED
  BY <1>1

LEMMA ShapeOfRebuild ==
  ASSUME NEW a \in Owner, NEW new, OwnOnly(a, db, new), RowsOK(db, seq'), RowsOK(new, seq'),
         RebuildSnapshot(a, new)
  PROVE  Usual
<1>1. CASE Rebuilds(new, a)
  <2>1. /\ db' = new /\ left' = left \ {a}
        /\ published' = [published EXCEPT ![a] = BuildEffectiveSnapshot(new, a)]
    BY <1>1 DEF RebuildSnapshot
  <2>2. OwnOnly(a, db, db') /\ Committed(a)
    BY <1>1, <2>1 DEF Committed
  <2> QED
    BY <2>1, <2>2 DEF Usual
<1>2. CASE ~Rebuilds(new, a)
  <2>1. UNCHANGED <<db, published, left>>
    BY <1>2 DEF RebuildSnapshot
  <2> QED
    BY <2>1 DEF Usual
<1> QED
  BY <1>1, <1>2

LEMMA ShapeOfCommit ==
  ASSUME NEW actor \in Owner \cup {Admin}, NEW new, RowsOK(db, seq'), RowsOK(new, seq'),
         actor # Admin => OwnOnly(actor, db, new), actor = Admin => SharedOnly(db, new),
         CommitPolicyMutation(actor, new)
  PROVE  Usual
<1>1. CASE actor = Admin
  BY <1>1 DEF Usual, CommitPolicyMutation
<1>2. CASE actor # Admin
  <2>1. RebuildSnapshot(actor, new) /\ OwnOnly(actor, db, new) /\ actor \in Owner
    BY <1>2 DEF CommitPolicyMutation
  <2> QED
    BY <2>1, ShapeOfRebuild
<1> QED
  BY <1>1, <1>2

LEMMA ScopeOfInput ==
  ASSUME NEW actor \in Owner \cup {Admin}, NEW in \in Inputs, Acceptable(actor, in),
         NEW n, n = Row(n.kind, n.id, n.owner, in), n.kind \in Kinds, n.id \in Nat,
         n.owner \in Owner \cup {Admin}, actor # Admin => n.owner = actor
  PROVE  /\ RowAllowed(db, n) /\ n.manual = TRUE
         /\ actor = Admin => n.scope = "admin_global"
         /\ actor # Admin => n.scope # "admin_global"
<1>1. in \in InputType
  BY RowsAssumption
<1>2. n.manual = TRUE /\ n.scope = in.scope /\ n.service = ServiceID(in)
  BY DEF Row
<1>3. n \in RowType
  <2>1. ASSUME NEW k \in Kinds, NEW i \in Nat, NEW o \in Owner \cup {Admin}
        PROVE  Row(k, i, o, in) \in RowType
    BY <1>1 DEF Row, RowType, InputType, ServiceID
  <2>2. Row(n.kind, n.id, n.owner, in) \in RowType
    BY <2>1
  <2> QED
    BY <2>2
<1>4. IF actor = Admin THEN n.scope = "admin_global" ELSE n.scope # "admin_global"
  BY <1>2 DEF Acceptable, RequirePolicyMutation
<1>5. n.scope = "service" <=> n.service # 0
  BY <1>2 DEF Acceptable, ValidatePolicyScope
<1>6. ASSUME n.scope = "service" PROVE \E s \in db.services : s.id = n.service /\ s.owner = n.owner
  <2>1. actor # Admin /\ ServiceID(in) # 0
    BY <1>2, <1>4, <1>5, <1>6
  <2>2. GetService(actor, ServiceID(in))
    BY <2>1 DEF Acceptable
  <2> QED
    BY <1>2, <2>1, <2>2 DEF GetService
<1>7. RowAllowed(db, n)
  BY <1>3, <1>5, <1>6 DEF RowAllowed
<1> QED
  BY <1>2, <1>4, <1>7

LEMMA ShapeOfCreate ==
  ASSUME RowsOK(db, seq), NEW actor \in Owner \cup {Admin}, NEW kind \in Kinds, NEW in \in Inputs,
         CreateRow(actor, kind, in)
  PROVE  Usual
<1> DEFINE n == Row(kind, seq[kind] + 1, actor, in)
           new == [db EXCEPT !.rows = @ \cup {n}]
<1>1. /\ Acceptable(actor, in) /\ seq' = [seq EXCEPT ![kind] = @ + 1]
      /\ CommitPolicyMutation(actor, new)
  BY DEF CreateRow, Nextval
<1>2. kind \in Tables /\ seq[kind] + 1 \in Nat
  BY DEF RowsOK, Tables
<1>3. n.kind = kind /\ n.id = seq[kind] + 1 /\ n.owner = actor /\ n = Row(n.kind, n.id, n.owner, in)
  BY DEF Row
<1> HIDE DEF n
<1>4. /\ RowAllowed(db, n) /\ n.manual = TRUE
      /\ actor = Admin => n.scope = "admin_global"
      /\ actor # Admin => n.scope # "admin_global"
  BY <1>1, <1>2, <1>3, ScopeOfInput
<1>5. RowsOK(new, seq') /\ RowsOK(db, seq')
  BY <1>1, <1>2, <1>3, <1>4, RowAdded, SequenceMoves
<1>6. new.rows = db.rows \cup {n} /\ new.services = db.services /\ new.policies = db.policies
  BY TableFields
<1> HIDE DEF new
<1>7. actor # Admin => OwnOnly(actor, db, new)
  BY <1>3, <1>6, <1>4 DEF OwnOnly
<1>8. actor = Admin => SharedOnly(db, new)
  BY <1>3, <1>6, <1>4 DEF SharedOnly
<1> QED
  BY <1>1, <1>5, <1>7, <1>8, ShapeOfCommit

\* A change of one row, by somebody who may.
LEMMA ShapeOfReplace ==
  ASSUME RowsOK(db, seq), seq' = seq, NEW actor \in Owner \cup {Admin}, NEW r \in db.rows, NEW n,
         RowAllowed(db, n), <<n.kind, n.manual, n.id>> = <<r.kind, r.manual, r.id>>, n.owner = r.owner,
         actor = Admin => n.scope = "admin_global", actor # Admin => n.scope # "admin_global",
         PolicyMutationWhere(actor, r), CommitPolicyMutation(actor, Replace(r, n))
  PROVE  Usual
<1> DEFINE new == Replace(r, n)
<1>1. RowsOK(new, seq') /\ RowsOK(db, seq')
  BY RowReplaced
<1>2. new.rows = (db.rows \ {r}) \cup {n} /\ new.services = db.services /\ new.policies = db.policies
  BY TableFields DEF Replace
<1> HIDE DEF new
<1>3. actor # Admin => OwnOnly(actor, db, new)
  BY <1>2 DEF OwnOnly, PolicyMutationWhere
<1>4. actor = Admin => SharedOnly(db, new)
  BY <1>2 DEF SharedOnly, PolicyMutationWhere
<1> QED
  BY <1>1, <1>3, <1>4, ShapeOfCommit DEF new

LEMMA ShapeOfUpdate ==
  ASSUME RowsOK(db, seq), NEW actor \in Owner \cup {Admin}, NEW r \in db.rows, r.manual,
         NEW in \in Inputs, UpdateRow(actor, r, in)
  PROVE  Usual
<1> DEFINE n == Row(r.kind, r.id, r.owner, in)
<1>1. /\ Acceptable(actor, in) /\ PolicyMutationWhere(actor, r) /\ seq' = seq
      /\ CommitPolicyMutation(actor, Replace(r, n))
  BY DEF UpdateRow
<1>2. r.kind \in Kinds /\ r.id \in Nat /\ r.owner \in Owner \cup {Admin} /\ r.manual = TRUE
  BY DEF RowsOK, RowType
<1>3. actor # Admin => r.owner = actor
  BY <1>1 DEF PolicyMutationWhere
<1>4. n.kind = r.kind /\ n.id = r.id /\ n.owner = r.owner /\ n = Row(n.kind, n.id, n.owner, in)
  BY DEF Row
<1> HIDE DEF n
<1>5. /\ RowAllowed(db, n) /\ n.manual = TRUE
      /\ actor = Admin => n.scope = "admin_global"
      /\ actor # Admin => n.scope # "admin_global"
  BY <1>1, <1>2, <1>3, <1>4, ScopeOfInput
<1> QED
  BY <1>1, <1>2, <1>4, <1>5, ShapeOfReplace

LEMMA ShapeOfDisable ==
  ASSUME RowsOK(db, seq), NEW actor \in Owner \cup {Admin}, NEW r \in db.rows, DisableRow(actor, r)
  PROVE  Usual
<1> DEFINE n == [r EXCEPT !.enabled = FALSE]
<1>1. /\ PolicyMutationWhere(actor, r) /\ seq' = seq
      /\ CommitPolicyMutation(actor, Replace(r, n))
  BY DEF DisableRow
<1>2. r \in RowType /\ RowAllowed(db, r)
  BY DEF RowsOK, RowAllowed
<1>3. /\ n \in RowType /\ n.kind = r.kind /\ n.manual = r.manual /\ n.id = r.id /\ n.owner = r.owner
      /\ n.scope = r.scope /\ n.service = r.service
  BY <1>2 DEF RowType
<1> HIDE DEF n
<1>4. RowAllowed(db, n)
  BY <1>2, <1>3 DEF RowAllowed
<1>5. /\ actor = Admin => n.scope = "admin_global"
      /\ actor # Admin => n.scope # "admin_global"
  BY <1>1, <1>3 DEF PolicyMutationWhere
<1> QED
  BY <1>1, <1>3, <1>4, <1>5, ShapeOfReplace

LEMMA ShapeOfEntries ==
  ASSUME RowsOK(db, seq), NEW actor \in Owner \cup {Admin}, Entries(actor)
  PROVE  Usual
<1>1. ASSUME NEW in \in Inputs,
             \/ CreateRule(actor, in) \/ CreateWhitelistEntry(actor, in)
             \/ CreateBlacklistEntry(actor, in) \/ CreateUDPSourcePortBlock(actor, in)
      PROVE  Usual
  <2>1. \E kind \in Kinds : CreateRow(actor, kind, in)
    BY <1>1 DEF CreateRule, CreateWhitelistEntry, CreateBlacklistEntry, CreateUDPSourcePortBlock, Kinds
  <2> QED
    BY <2>1, ShapeOfCreate
<1>2. ASSUME NEW in \in Inputs, NEW r \in db.rows,
             \/ UpdateRule(actor, r, in) \/ UpdateWhitelistEntry(actor, r, in)
             \/ UpdateBlacklistEntry(actor, r, in) \/ UpdateUDPSourcePortBlock(actor, r, in)
      PROVE  Usual
  <2>1. UpdateRow(actor, r, in) /\ (r.manual \/ r.kind # "blacklist")
    BY <1>2 DEF UpdateRule, UpdateWhitelistEntry, UpdateBlacklistEntry, UpdateUDPSourcePortBlock
  <2>2. r.manual
    BY <2>1 DEF RowsOK
  <2> QED
    BY <2>1, <2>2, ShapeOfUpdate
<1>3. ASSUME NEW r \in db.rows,
             \/ DisableRule(actor, r) \/ DisableWhitelistEntry(actor, r)
             \/ DisableBlacklistEntry(actor, r) \/ DisableUDPSourcePortBlock(actor, r)
      PROVE  Usual
  <2>1. DisableRow(actor, r)
    BY <1>3 DEF DisableRule, DisableWhitelistEntry, DisableBlacklistEntry, DisableUDPSourcePortBlock
  <2> QED
    BY <2>1, ShapeOfDisable
<1> QED
  BY <1>1, <1>2, <1>3 DEF Entries

LEMMA ShapeOfServices ==
  ASSUME RowsOK(db, seq), NEW u \in Owner, Services(u)
  PROVE  Usual
<1>1. ASSUME NEW in \in ServiceInputs, CreateService(u, in) PROVE Usual
  <2> DEFINE n == ServiceRow(seq["service"] + 1, u, in, FALSE)
             new == [db EXCEPT !.services = @ \cup {n}]
  <2>1. RebuildSnapshot(u, new) /\ seq' = [seq EXCEPT !["service"] = @ + 1]
    BY <1>1 DEF CreateService, Nextval
  <2>2. n.id = seq["service"] + 1 /\ n.owner = u /\ n = ServiceRow(n.id, n.owner, n, n.deleted)
    BY DEF ServiceRow
  <2> HIDE DEF n
  <2>3. RowsOK(new, seq') /\ RowsOK(db, seq')
    BY <2>1, <2>2, ServiceAdded, SequenceMoves DEF Tables
  <2>4. new.rows = db.rows /\ new.services = db.services \cup {n} /\ new.policies = db.policies
    BY TableFields
  <2> HIDE DEF new
  <2>5. OwnOnly(u, db, new)
    BY <2>2, <2>4 DEF OwnOnly
  <2> QED
    BY <2>1, <2>3, <2>5, ShapeOfRebuild
<1>2. ASSUME NEW s \in db.services, s.owner = u, NEW n, n = ServiceRow(s.id, s.owner, n, n.deleted),
             RebuildSnapshot(u, [db EXCEPT !.services = (@ \ {s}) \cup {n}]), seq' = seq
      PROVE  Usual
  <2> DEFINE new == [db EXCEPT !.services = (@ \ {s}) \cup {n}]
  <2>1. RowsOK(new, seq') /\ RowsOK(db, seq')
    BY <1>2, ServiceReplaced
  <2>2. new.rows = db.rows /\ new.services = (db.services \ {s}) \cup {n} /\ new.policies = db.policies
    BY TableFields
  <2>3. n.owner = u
    BY <1>2 DEF ServiceRow
  <2> HIDE DEF new
  <2>4. OwnOnly(u, db, new)
    BY <1>2, <2>2, <2>3 DEF OwnOnly
  <2> QED
    BY <1>2, <2>1, <2>4, ShapeOfRebuild DEF new
<1>3. ASSUME NEW in \in ServiceInputs, NEW s \in db.services, UpdateService(u, s, in) PROVE Usual
  <2> DEFINE n == ServiceRow(s.id, u, in, s.deleted)
  <2>1. /\ s.owner = u /\ seq' = seq
        /\ RebuildSnapshot(u, [db EXCEPT !.services = (@ \ {s}) \cup {n}])
    BY <1>3 DEF UpdateService
  <2>2. n = ServiceRow(s.id, s.owner, n, n.deleted)
    BY <2>1 DEF ServiceRow
  <2> HIDE DEF n
  <2> QED
    BY <2>1, <2>2, <1>2
<1>4. ASSUME NEW s \in db.services, DeleteService(u, s) PROVE Usual
  <2> DEFINE n == [s EXCEPT !.enabled = FALSE, !.deleted = TRUE]
  <2>1. /\ s.owner = u /\ seq' = seq
        /\ RebuildSnapshot(u, [db EXCEPT !.services = (@ \ {s}) \cup {n}])
    BY <1>4 DEF DeleteService
  <2>2. s = ServiceRow(s.id, s.owner, s, s.deleted)
    BY DEF RowsOK
  <2>3. n = ServiceRow(s.id, s.owner, n, n.deleted)
    <3>1. s = [id |-> s.id, owner |-> s.owner, target |-> s.target, ports |-> s.ports, mac |-> s.mac,
               ifindex |-> s.ifindex, enabled |-> s.enabled, deleted |-> s.deleted]
      BY <2>2 DEF ServiceRow
    <3>2. PICK m : m = [s EXCEPT !.enabled = FALSE, !.deleted = TRUE]
      OBVIOUS
    <3>3. m = [id |-> s.id, owner |-> s.owner, target |-> s.target, ports |-> s.ports, mac |-> s.mac,
               ifindex |-> s.ifindex, enabled |-> FALSE, deleted |-> TRUE]
      BY <3>1, <3>2
    <3>4. m = ServiceRow(s.id, s.owner, m, m.deleted)
      BY <3>3 DEF ServiceRow
    <3> QED
      BY <3>2, <3>4
  <2> HIDE DEF n
  <2> QED
    BY <2>1, <2>3, <1>2
<1>5. ASSUME NEW in \in ServiceInputs, NEW s \in db.services, NEW port, NEW devmap,
             CreateForwardingPolicy(u, s, in, port, devmap)
      PROVE  Usual
  <2> DEFINE p == [id |-> seq["policy"] + 1, owner |-> u, service |-> s.id, target |-> in.target,
                   port |-> port, mac |-> in.mac, ifindex |-> in.ifindex, devmap |-> devmap]
             new == [db EXCEPT !.policies = @ \cup {p}]
  <2>1. /\ GetService(u, s.id) /\ seq' = [seq EXCEPT !["policy"] = @ + 1]
        /\ UNCHANGED <<db, published, left>> \/ RebuildSnapshot(u, new)
    BY <1>5 DEF CreateForwardingPolicy, Nextval
  <2>2. p.owner = u /\ p.service = s.id
    OBVIOUS
  <2> HIDE DEF p
  <2>3. \E t \in db.services : t.id = p.service /\ t.owner = p.owner
    BY <2>1, <2>2 DEF GetService
  <2>4. RowsOK(new, seq') /\ RowsOK(db, seq')
    BY <2>1, <2>3, PolicyAdded, SequenceMoves DEF Tables
  <2>5. new.rows = db.rows /\ new.services = db.services /\ new.policies = db.policies \cup {p}
    BY TableFields
  <2> HIDE DEF new
  <2>6. OwnOnly(u, db, new)
    BY <2>2, <2>5 DEF OwnOnly
  <2>7. CASE UNCHANGED <<db, published, left>>
    BY <2>4, <2>7 DEF Usual
  <2>8. CASE RebuildSnapshot(u, new)
    BY <2>4, <2>6, <2>8, ShapeOfRebuild
  <2> QED
    BY <2>1, <2>7, <2>8
<1> QED
  BY <1>1, <1>3, <1>4, <1>5 DEF Services

LEMMA ShapeOfSnapshots ==
  ASSUME RowsOK(db, seq), NEW u \in Owner, Snapshots(u)
  PROVE  Usual
<1>1. CASE ManualRebuild(u)
  <2>1. OwnOnly(u, db, db) /\ seq' = seq
    BY <1>1 DEF ManualRebuild, OwnOnly
  <2> QED
    BY <1>1, <2>1, ShapeOfRebuild DEF ManualRebuild
<1>2. ASSUME NEW S \in past[u], RollbackSnapshot(u, S) PROVE Usual
  <2>1. RolledBack(u) /\ db' = db /\ seq' = seq
    BY <1>2 DEF RollbackSnapshot, RolledBack
  <2> QED
    BY <2>1 DEF Usual
<1> QED
  BY <1>1, <1>2 DEF Snapshots

LEMMA NextShape ==
  ASSUME RowsOK(db, seq), requests \in 0..MaxRequests, PrNext
  PROVE  /\ Shape /\ requests' \in 0..MaxRequests
         /\ Usual \/ \E u \in Owner : ExpireTTLRules(u)
<1>1. CASE Request
  <2>1. Usual
    BY <1>1, ShapeOfEntries, ShapeOfServices, ShapeOfSnapshots DEF Request
  <2>2. requests' \in 0..MaxRequests
    BY <1>1, RowsAssumption DEF Request
  <2> QED
    BY <2>1, <2>2 DEF Shape
<1>2. ASSUME NEW u \in Owner, ExpireTTLRules(u) PROVE Shape /\ requests' \in 0..MaxRequests
  <2> DEFINE new == Disabled(Expired(u))
  <2>1. RebuildSnapshot(u, new) /\ seq' = seq /\ requests' = requests
    BY <1>2 DEF ExpireTTLRules
  <2>2. RowsOK(new, seq') /\ RowsOK(db, seq')
    BY <2>1, RowsDisabled DEF Expired
  <2>3. CASE Rebuilds(new, u)
    <3>1. /\ db' = new /\ left' = left \ {u}
          /\ published' = [published EXCEPT ![u] = BuildEffectiveSnapshot(new, u)]
      BY <2>1, <2>3 DEF RebuildSnapshot
    <3>2. db' = Disabled(Expired(u)) /\ Committed(u)
      BY <2>3, <3>1 DEF Committed
    <3>3. RowsOK(db', seq')
      BY <2>2, <3>1
    <3>4. \E a \in Owner : db' = Disabled(Expired(a)) /\ Committed(a)
      BY <3>2, Zenon
    <3>5. Shape
      BY <3>3, <3>4, Zenon DEF Shape
    <3>6. requests' \in 0..MaxRequests /\ ExpireTTLRules(u)
      BY <1>2, <2>1
    <3> QED
      BY <3>5, <3>6, Zenon
  <2>4. CASE ~Rebuilds(new, u)
    <3>1. UNCHANGED <<db, published, left>>
      BY <2>1, <2>4 DEF RebuildSnapshot
    <3> QED
      BY <2>1, <2>2, <3>1 DEF Shape, Usual
  <2> QED
    BY <2>3, <2>4
<1>3. CASE ExpireAdminGlobalTTLRules
  <2> DEFINE new == Disabled(ExpiredGlobal)
  <2>1. /\ db' = new /\ RebuildAllActiveUserSnapshots(new) /\ seq' = seq /\ requests' = requests
    BY <1>3 DEF ExpireAdminGlobalTTLRules
  <2>2. RowsOK(new, seq')
    BY <2>1, RowsDisabled DEF ExpiredGlobal
  <2>3. /\ new.rows = (db.rows \ ExpiredGlobal) \cup {[r EXCEPT !.enabled = FALSE] : r \in ExpiredGlobal}
        /\ new.services = db.services /\ new.policies = db.policies
    BY TableFields DEF Disabled
  <2>4. \A r \in ExpiredGlobal : r.scope = "admin_global" /\ [r EXCEPT !.enabled = FALSE].scope = "admin_global"
    <3>1. \A r \in ExpiredGlobal : r \in RowType /\ r.scope = "admin_global"
      BY DEF ExpiredGlobal, RowsOK
    <3>2. \A r \in RowType : [r EXCEPT !.enabled = FALSE].scope = r.scope
      BY DEF RowType
    <3> QED
      BY <3>1, <3>2
  <2> HIDE DEF new
  <2>5. SharedOnly(db, new)
    BY <2>3, <2>4 DEF SharedOnly
  <2> QED
    BY <2>1, <2>2, <2>5 DEF Shape, Usual
<1>4. ASSUME NEW r \in db.rows, Lapse(r) PROVE Usual /\ Shape /\ requests' \in 0..MaxRequests
  <2> DEFINE n == [r EXCEPT !.exp = "past"]
  <2>1. db' = Replace(r, n) /\ seq' = seq /\ requests' = requests
    BY <1>4 DEF Lapse
  <2>2. r \in RowType /\ RowAllowed(db, r)
    BY DEF RowsOK, RowAllowed
  <2>3. /\ n \in RowType /\ n.kind = r.kind /\ n.manual = r.manual /\ n.id = r.id /\ n.owner = r.owner
        /\ n.scope = r.scope /\ n.service = r.service
    BY <2>2 DEF RowType, Expiry
  <2> HIDE DEF n
  <2>4. RowAllowed(db, n)
    BY <2>2, <2>3 DEF RowAllowed
  <2>5. RowsOK(db', seq')
    BY <2>1, <2>3, <2>4, RowReplaced
  <2> QED
    BY <1>4, <2>1, <2>5 DEF Shape, Usual
<1> QED
  BY <1>1, <1>2, <1>3, <1>4 DEF PrNext

-----------------------------------------------------------------------------
(* What a step leaves alone *)

\* Everything that is not user a's.
OthersSame(a, d, e) ==
  /\ {r \in d.rows : r.owner # a} = {r \in e.rows : r.owner # a}
  /\ {s \in d.services : s.owner # a} = {s \in e.services : s.owner # a}
  /\ {p \in d.policies : p.owner # a} = {p \in e.policies : p.owner # a}

LEMMA DisabledRows ==
  ASSUME RowsOK(db, seq), NEW S \in SUBSET db.rows
  PROVE  LET new == Disabled(S) IN
         /\ new.services = db.services /\ new.policies = db.policies
         /\ db.rows \ S \subseteq new.rows
         /\ \A r \in new.rows \ db.rows : \E s \in S : /\ r = [s EXCEPT !.enabled = FALSE]
                                                      /\ r.owner = s.owner /\ r.scope = s.scope /\ r.kind = s.kind
         /\ \A r \in new.rows : \/ r \in db.rows \ S
                                \/ \E s \in S : r.owner = s.owner /\ r.scope = s.scope /\ r.kind = s.kind
<1>1. /\ Disabled(S).rows = (db.rows \ S) \cup {[r EXCEPT !.enabled = FALSE] : r \in S}
      /\ Disabled(S).services = db.services /\ Disabled(S).policies = db.policies
  BY TableFields DEF Disabled
<1>2. \A r \in S : r \in RowType
  BY DEF RowsOK
<1>3. \A r \in RowType : /\ [r EXCEPT !.enabled = FALSE].owner = r.owner
                         /\ [r EXCEPT !.enabled = FALSE].scope = r.scope
                         /\ [r EXCEPT !.enabled = FALSE].kind = r.kind
  BY DEF RowType
<1> QED
  BY <1>1, <1>2, <1>3, ZenonT(30)

LEMMA OthersKept ==
  ASSUME RowsOK(db, seq), NEW a, OwnOnly(a, db, db') \/ db' = Disabled(Expired(a))
  PROVE  OthersSame(a, db, db')
<1>1. CASE OwnOnly(a, db, db')
  <2>1. \A r : r.owner # a => (r \in db.rows <=> r \in db'.rows)
    BY <1>1 DEF OwnOnly
  <2> QED
    BY <1>1, <2>1 DEF OwnOnly, OthersSame
<1>2. CASE db' = Disabled(Expired(a))
  <2>1. Expired(a) \in SUBSET db.rows /\ \A r \in Expired(a) : r.owner = a
    BY DEF Expired
  <2>2. /\ db'.services = db.services /\ db'.policies = db.policies
        /\ db.rows \ Expired(a) \subseteq db'.rows
        /\ \A r \in db'.rows : r \in db.rows \ Expired(a) \/ \E s \in Expired(a) : r.owner = s.owner
    BY <1>2, <2>1, DisabledRows
  <2> QED
    BY <2>1, <2>2 DEF OthersSame
<1> QED
  BY <1>1, <1>2

LEMMA OthersServices ==
  ASSUME NEW d, NEW e, NEW q, NEW p, RowsOK(d, q), RowsOK(e, p), NEW a, NEW v, v # a, OthersSame(a, d, e)
  PROVE  SameServices(e, d, v)
<1>1. \A s : s.owner = v => (s \in d.services <=> s \in e.services)
  BY DEF OthersSame
<1>2. \A x : x.owner = v => (x \in d.policies <=> x \in e.policies)
  BY DEF OthersSame
<1>3. ASSUME NEW x, NEW z, RowsOK(x, z), NEW s \in x.services, NEW y \in x.policies, y.service = s.id
      PROVE  y.owner = s.owner
  BY <1>3 DEF RowsOK
<1>4. ASSUME NEW s \in e.services, s.owner = v
      PROVE  (\E y \in e.policies : y.service = s.id) <=> (\E y \in d.policies : y.service = s.id)
  <2>1. s \in d.services
    BY <1>1, <1>4
  <2>2. ASSUME NEW y \in e.policies, y.service = s.id PROVE y \in d.policies
    BY <1>2, <1>3, <1>4, <2>2
  <2>3. ASSUME NEW y \in d.policies, y.service = s.id PROVE y \in e.policies
    BY <1>2, <1>3, <1>4, <2>1, <2>3
  <2> QED
    BY <2>2, <2>3
<1> QED
  BY <1>1, <1>2, <1>4 DEF SameServices

LEMMA UnsharedTables ==
  ASSUME NEW d, NEW q, RowsOK(d, q)
  PROVE  /\ Unshared(d).rows = {r \in d.rows : r.scope # "admin_global"}
         /\ Unshared(d).services = d.services /\ Unshared(d).policies = d.policies
  BY TableFields DEF Unshared

LEMMA OwnRowsStep ==
  ASSUME RowsInv, Shape
  PROVE  OwnRowsVerify'
<1> SUFFICES ASSUME NEW v \in Owner PROVE Rebuilds(Unshared(db'), v)
  BY DEF OwnRowsVerify
<1>1. RowsOK(db, seq) /\ RowsOK(db', seq') /\ Rebuilds(Unshared(db), v)
  BY DEF RowsInv, Shape, Usual, OwnRowsVerify
<1>2. CandidatesOK(Unshared(db), v) /\ CandidatesOK(db', v)
  BY <1>1, CandidatesOfTables
<1>3. /\ Unshared(db).rows = {r \in db.rows : r.scope # "admin_global"}
      /\ Unshared(db).services = db.services /\ Unshared(db).policies = db.policies
  BY <1>1, UnsharedTables
<1>4. /\ Unshared(db').rows = {r \in db'.rows : r.scope # "admin_global"}
      /\ Unshared(db').services = db'.services /\ Unshared(db').policies = db'.policies
  BY <1>1, UnsharedTables
<1>5. CASE UNCHANGED <<db, published, left>>
  BY <1>1, <1>5
<1>6. ASSUME SameServices(db', db, v),
             \A r \in db'.rows : r.owner = v /\ r.scope # "admin_global" /\ r.exp # "past" => r \in db.rows
      PROVE  Rebuilds(Unshared(db'), v)
  <2>1. SameServices(Unshared(db'), Unshared(db), v)
    BY <1>3, <1>4, <1>6 DEF SameServices
  <2>2. \A kind \in Kinds : Candidates(Unshared(db'), v, kind) \subseteq Candidates(Unshared(db), v, kind)
    BY <1>3, <1>4, <1>6 DEF Candidates, InForce
  <2> QED
    BY <1>1, <1>2, <2>1, <2>2, RebuildsWithLess
<1>7. ASSUME NEW a \in Owner, OwnOnly(a, db, db') \/ db' = Disabled(Expired(a)), Committed(a)
      PROVE  Rebuilds(Unshared(db'), v)
  <2>1. CASE v = a
    <3>1. SameServices(Unshared(db'), db', v)
      BY <1>4 DEF SameServices
    <3>2. \A kind \in Kinds : Candidates(Unshared(db'), v, kind) \subseteq Candidates(db', v, kind)
      BY <1>4 DEF Candidates
    <3>3. Rebuilds(db', v)
      BY <1>7, <2>1 DEF Committed
    <3> QED
      BY <1>2, <3>1, <3>2, <3>3, RebuildsWithLess
  <2>2. CASE v # a
    <3>1. OthersSame(a, db, db')
      BY <1>1, <1>7, OthersKept
    <3>2. SameServices(db', db, v)
      BY <1>1, <2>2, <3>1, OthersServices
    <3>3. \A r \in db'.rows : r.owner = v => r \in db.rows
      BY <2>2, <3>1 DEF OthersSame
    <3> QED
      BY <1>6, <3>2, <3>3
  <2> QED
    BY <2>1, <2>2
<1>8. CASE SharedOnly(db, db')
  <2>1. SameServices(db', db, v)
    BY <1>8 DEF SharedOnly, SameServices
  <2>2. \A r \in db'.rows : r.scope # "admin_global" => r \in db.rows
    BY <1>8 DEF SharedOnly
  <2> QED
    BY <1>6, <2>1, <2>2
<1>9. ASSUME NEW r \in db.rows, Lapse(r) PROVE Rebuilds(Unshared(db'), v)
  <2> DEFINE n == [r EXCEPT !.exp = "past"]
  <2>1. /\ db'.rows = (db.rows \ {r}) \cup {n}
        /\ db'.services = db.services /\ db'.policies = db.policies
    BY <1>1, <1>9, TableFields DEF Lapse, Replace
  <2>2. n.exp = "past"
    BY <1>1 DEF RowsOK, RowType
  <2>3. SameServices(db', db, v)
    BY <2>1 DEF SameServices
  <2> HIDE DEF n
  <2>4. \A s \in db'.rows : s.exp # "past" => s \in db.rows
    BY <2>1, <2>2
  <2> QED
    BY <1>6, <2>3, <2>4
<1>10. ASSUME NEW a \in Owner, RolledBack(a) PROVE Rebuilds(Unshared(db'), v)
  BY <1>1, <1>10 DEF RolledBack
<1> QED
  BY <1>5, <1>7, <1>8, <1>9, <1>10 DEF Shape, Usual

-----------------------------------------------------------------------------
(* What is published *)

\* SameRow field by field.
Alike(e, r) ==
  /\ e.kind = r.kind /\ e.id = r.id /\ e.owner = r.owner /\ e.scope = r.scope /\ e.service = r.service
  /\ e.key = r.key /\ e.pref = r.pref /\ e.rule = r.rule /\ e.manual = r.manual /\ e.enabled = r.enabled

LEMMA RowExt ==
  ASSUME NEW e \in RowType, NEW r \in RowType, Alike(e, r), e.exp = r.exp
  PROVE  e = r
<1>1. e = [kind |-> e.kind, id |-> e.id, owner |-> e.owner, scope |-> e.scope, service |-> e.service,
           key |-> e.key, pref |-> e.pref, rule |-> e.rule, manual |-> e.manual,
           enabled |-> e.enabled, exp |-> e.exp]
  BY DEF RowType
<1>2. r = [kind |-> r.kind, id |-> r.id, owner |-> r.owner, scope |-> r.scope, service |-> r.service,
           key |-> r.key, pref |-> r.pref, rule |-> r.rule, manual |-> r.manual,
           enabled |-> r.enabled, exp |-> r.exp]
  BY DEF RowType
<1> QED
  BY <1>1, <1>2, Zenon DEF Alike

LEMMA ExpChanged ==
  ASSUME NEW r \in RowType, NEW x \in Expiry
  PROVE  LET n == [r EXCEPT !.exp = x] IN n \in RowType /\ Alike(n, r) /\ n.exp = x
  BY DEF RowType, Alike

LEMMA SameRowFields ==
  ASSUME NEW e \in RowType, NEW r \in RowType
  PROVE  SameRow(e, r) <=> r.enabled /\ Alike(e, r)
<1> DEFINE n == [r EXCEPT !.exp = e.exp]
<1>1. e.exp \in Expiry
  BY DEF RowType
<1>2. n \in RowType /\ Alike(n, r) /\ n.exp = e.exp
  BY <1>1, ExpChanged
<1>3. SameRow(e, r) <=> r.enabled /\ n = e
  BY DEF SameRow
<1> HIDE DEF n
<1>4. n = e => Alike(e, r)
  BY <1>2
<1>5. Alike(e, r) => Alike(n, e)
  BY <1>2 DEF Alike
<1>6. Alike(n, e) => n = e
  BY <1>2, RowExt
<1> QED
  BY <1>3, <1>4, <1>5, <1>6

LEMMA ListedRows ==
  ASSUME NEW d, NEW u
  PROVE  \A e \in Listed(BuildEffectiveSnapshot(d, u)) :
           e \in d.rows /\ e.enabled /\ (e.scope = "admin_global" \/ e.owner = u)
<1>1. ASSUME NEW kind
      PROVE  /\ ByKey(kind, Candidates(d, u, kind)) \subseteq Candidates(d, u, kind)
             /\ \A e \in Candidates(d, u, kind) :
                  e \in d.rows /\ e.enabled /\ (e.scope = "admin_global" \/ e.owner = u)
  BY DEF ByKey, Candidates, InForce
<1> QED
  BY <1>1 DEF Listed, BuildEffectiveSnapshot, SnapshotWhitelist, SnapshotBlacklist,
              SnapshotUDPSourcePortBlocks, SnapshotRules

\* The snapshot S of user u says of the tables d what NothingWithdrawnIsPublished asks.
EntriesCurrent(d, u, S) ==
  \A e \in Listed(S) :
    \/ \E r \in d.rows : SameRow(e, r)
    \/ e.kind = "rule" /\ e.scope = "admin_global" /\ e.owner \in Owner \ {u}
ServicesCurrent(d, u, S) ==
  {s.entry : s \in S.services} =
    SnapshotServicesFromForwardingPolicies(d, u) \cup SnapshotServicesFromBackendServices(d, u)

LEMMA NothingWithdrawnPerUser ==
  NothingWithdrawnIsPublished <=>
    \A u \in Owner \ left : EntriesCurrent(db, u, published[u]) /\ ServicesCurrent(db, u, published[u])
  BY DEF NothingWithdrawnIsPublished, EntriesCurrent, ServicesCurrent, Listed

LEMMA BuiltIsCurrent ==
  ASSUME NEW d, NEW q, RowsOK(d, q), NEW u
  PROVE  LET S == BuildEffectiveSnapshot(d, u) IN
         /\ EntriesCurrent(d, u, S) /\ ServicesCurrent(d, u, S)
         /\ RowsFor(u, S)
<1> DEFINE S == BuildEffectiveSnapshot(d, u)
<1>1. S.services = SnapshotServices(d, u)
  BY DEF BuildEffectiveSnapshot
<1>2. \A e \in Listed(S) : e \in d.rows /\ e.enabled /\ (e.scope = "admin_global" \/ e.owner = u)
  BY ListedRows
<1> HIDE DEF S
<1>3. \A e \in Listed(S) : e \in RowType
  BY <1>2 DEF RowsOK
<1>4. \A e \in Listed(S) : SameRow(e, e)
  <2>1. \A e : Alike(e, e)
    BY DEF Alike
  <2> QED
    BY <1>2, <1>3, <2>1, SameRowFields
<1>5. EntriesCurrent(d, u, S)
  BY <1>2, <1>4 DEF EntriesCurrent
<1>6. ServicesCurrent(d, u, S)
  BY <1>1, EntriesOfServices DEF ServicesCurrent
<1>7. RowsFor(u, S)
  BY <1>2, <1>3 DEF RowsFor
<1> QED
  BY <1>5, <1>6, <1>7 DEF S

LEMMA PublishedStep ==
  ASSUME RowsInv, Shape
  PROVE  PublishedOK' /\ left' \subseteq Owner /\ NothingWithdrawnIsPublished'
<1>1. RowsOK(db, seq) /\ RowsOK(db', seq') /\ left \subseteq Owner /\ PublishedOK /\ PastOK
  BY DEF RowsInv, Shape, Usual
<1>2. \A u \in Owner \ left : EntriesCurrent(db, u, published[u]) /\ ServicesCurrent(db, u, published[u])
  BY NothingWithdrawnPerUser DEF RowsInv
<1> DEFINE Good(u) == RowsFor(u, published'[u]) /\
                      (u \notin left' => EntriesCurrent(db', u, published'[u]) /\ ServicesCurrent(db', u, published'[u]))
<1>3. ASSUME published' = [u \in Owner |-> published'[u]], left' \subseteq Owner, \A u \in Owner : Good(u)
      PROVE  PublishedOK' /\ left' \subseteq Owner /\ NothingWithdrawnIsPublished'
  <2>1. PublishedOK'
    BY <1>3 DEF PublishedOK
  <2>2. NothingWithdrawnIsPublished'
    <3>1. NothingWithdrawnIsPublished' <=>
            \A u \in Owner \ left' : EntriesCurrent(db', u, published'[u]) /\ ServicesCurrent(db', u, published'[u])
      BY DEF NothingWithdrawnIsPublished, EntriesCurrent, ServicesCurrent, Listed
    <3> QED
      BY <1>3, <3>1
  <2> QED
    BY <1>3, <2>1, <2>2
<1>4. \A u \in Owner : RowsFor(u, published[u])
  BY <1>1 DEF PublishedOK
<1>5. ASSUME NEW u \in Owner, published'[u] = BuildEffectiveSnapshot(db', u) PROVE Good(u)
  BY <1>1, <1>5, BuiltIsCurrent
<1>6. ASSUME NEW u \in Owner, published'[u] = published[u], left \subseteq left' \cup (Owner \ {u}),
             SameServices(db', db, u),
             \A r \in db.rows : \/ r \in db'.rows
                                \/ r.scope # "admin_global" /\ r.owner # u
                                \/ r.kind = "rule" /\ r.scope = "admin_global" /\ r.owner \in Owner \ {u}
                                \/ \E s \in db'.rows : Alike(r, s)
      PROVE  Good(u)
  <2>1. RowsFor(u, published'[u])
    BY <1>4, <1>6
  <2>2. SUFFICES ASSUME u \notin left'
                 PROVE  EntriesCurrent(db', u, published[u]) /\ ServicesCurrent(db', u, published[u])
    BY <1>6, <2>1
  <2>3. u \in Owner \ left
    BY <1>6, <2>2
  <2>4. ServicesCurrent(db', u, published[u])
    BY <1>2, <1>6, <2>3, ServicesAlike DEF ServicesCurrent
  <2>5. ASSUME NEW e \in Listed(published[u]), NEW r \in db.rows, SameRow(e, r)
        PROVE  \/ \E s \in db'.rows : SameRow(e, s)
               \/ e.kind = "rule" /\ e.scope = "admin_global" /\ e.owner \in Owner \ {u}
    <3>1. e \in RowType /\ (e.scope = "admin_global" \/ e.owner = u)
      BY <1>4 DEF RowsFor
    <3>2. r \in RowType
      BY <1>1 DEF RowsOK
    <3>3. r.enabled /\ Alike(e, r)
      BY <2>5, <3>1, <3>2, SameRowFields
    <3>4. CASE r \in db'.rows
      BY <2>5, <3>4
    <3>5. CASE r.scope # "admin_global" /\ r.owner # u
      BY <3>1, <3>3, <3>5 DEF Alike
    <3>6. CASE r.kind = "rule" /\ r.scope = "admin_global" /\ r.owner \in Owner \ {u}
      BY <3>3, <3>6 DEF Alike
    <3>7. ASSUME NEW s \in db'.rows, Alike(r, s) PROVE SameRow(e, s)
      <4>1. s \in RowType
        BY <1>1 DEF RowsOK
      <4>2. Alike(e, s) /\ s.enabled
        BY <3>3, <3>7 DEF Alike
      <4> QED
        BY <3>1, <4>1, <4>2, SameRowFields
    <3> QED
      BY <1>6, <3>4, <3>5, <3>6, <3>7
  <2>6. EntriesCurrent(db', u, published[u])
    BY <1>2, <2>3, <2>5 DEF EntriesCurrent
  <2> QED
    BY <2>4, <2>6
<1>7. ASSUME NEW u PROVE SameServices(db, db, u)
  BY DEF SameServices
<1>8. CASE UNCHANGED <<db, published, left>>
  <2>1. \A u \in Owner : Good(u)
    <3> HIDE DEF Good
    <3> QED
      BY <1>1, <1>6, <1>7, <1>8
  <2>2. published' = [u \in Owner |-> published'[u]]
    BY <1>1, <1>8 DEF PublishedOK
  <2> HIDE DEF Good
  <2> QED
    BY <1>1, <1>3, <1>8, <2>1, <2>2
<1>9. ASSUME NEW a \in Owner, OwnOnly(a, db, db') \/ db' = Disabled(Expired(a)), Committed(a)
      PROVE  \A u \in Owner : Good(u)
  <2>1. /\ published' = [published EXCEPT ![a] = BuildEffectiveSnapshot(db', a)]
        /\ left' = left \ {a} /\ DOMAIN published = Owner
    BY <1>1, <1>9 DEF Committed, PublishedOK
  <2>2. Good(a)
    <3>1. published'[a] = BuildEffectiveSnapshot(db', a)
      BY <2>1
    <3> HIDE DEF Good
    <3> QED
      BY <1>5, <3>1
  <2>3. OthersSame(a, db, db')
    BY <1>1, <1>9, OthersKept
  <2>4. ASSUME NEW r \in db.rows, r \notin db'.rows
        PROVE  r.owner = a /\ (r.scope # "admin_global" \/ r.kind = "rule")
    <3>1. r.owner = a
      BY <2>3, <2>4 DEF OthersSame
    <3>2. CASE OwnOnly(a, db, db')
      BY <2>4, <3>1, <3>2 DEF OwnOnly
    <3>3. CASE db' = Disabled(Expired(a))
      <4>1. Expired(a) \in SUBSET db.rows /\ \A s \in Expired(a) : s.kind = "rule"
        BY DEF Expired
      <4>2. db.rows \ Expired(a) \subseteq db'.rows
        BY <1>1, <3>3, <4>1, DisabledRows
      <4> QED
        BY <2>4, <3>1, <4>1, <4>2
    <3> QED
      BY <1>9, <3>1, <3>2, <3>3
  <2>5. ASSUME NEW u \in Owner, u # a PROVE Good(u)
    <3>1. published'[u] = published[u]
      BY <2>1, <2>5
    <3>2. left \subseteq left' \cup (Owner \ {u})
      BY <1>1, <2>1, <2>5
    <3>3. SameServices(db', db, u)
      BY <1>1, <2>3, <2>5, OthersServices
    <3>4. \A r \in db.rows : \/ r \in db'.rows
                             \/ r.scope # "admin_global" /\ r.owner # u
                             \/ r.kind = "rule" /\ r.scope = "admin_global" /\ r.owner \in Owner \ {u}
      BY <2>4, <2>5
    <3> HIDE DEF Good
    <3> QED
      BY <1>6, <3>1, <3>2, <3>3, <3>4
  <2> HIDE DEF Good
  <2> QED
    BY <2>2, <2>5
<1>10. ASSUME NEW a \in Owner, Committed(a)
       PROVE  published' = [u \in Owner |-> published'[u]] /\ left' \subseteq Owner
  <2>1. published = [u \in Owner |-> published[u]]
    BY <1>1 DEF PublishedOK
  <2>2. published' = [published EXCEPT ![a] = BuildEffectiveSnapshot(db', a)] /\ left' = left \ {a}
    BY <1>10 DEF Committed
  <2> QED
    BY <1>1, <2>1, <2>2
<1>11. CASE SharedOnly(db, db') /\ RebuildAllActiveUserSnapshots(db')
  <2> DEFINE reached == {Owners[i] : i \in 1..(FirstRefused(db') - 1)}
  <2>1. /\ published' = [u \in Owner |-> IF u \in reached THEN BuildEffectiveSnapshot(db', u)
                                         ELSE published[u]]
        /\ left' = Owner \ reached
    BY <1>11 DEF RebuildAllActiveUserSnapshots
  <2> HIDE DEF reached
  <2>2. published' = [u \in Owner |-> published'[u]] /\ left' \subseteq Owner
    BY <2>1
  <2>3. ASSUME NEW u \in Owner PROVE Good(u)
    <3>1. CASE u \in reached
      <4>1. published'[u] = BuildEffectiveSnapshot(db', u)
        BY <2>1, <3>1
      <4> HIDE DEF Good
      <4> QED
        BY <1>5, <4>1
    <3>2. CASE u \notin reached
      <4>1. published'[u] = published[u] /\ u \in left'
        BY <2>1, <3>2
      <4>2. RowsFor(u, published'[u])
        BY <1>4, <4>1
      <4> QED
        BY <4>1, <4>2
    <3> QED
      BY <3>1, <3>2
  <2> HIDE DEF Good
  <2> QED
    BY <1>3, <2>2, <2>3
<1>12. ASSUME NEW r \in db.rows, Lapse(r)
       PROVE  PublishedOK' /\ left' \subseteq Owner /\ NothingWithdrawnIsPublished'
  <2> DEFINE n == [r EXCEPT !.exp = "past"]
  <2>1. /\ db'.rows = (db.rows \ {r}) \cup {n} /\ published' = published /\ left' = left
        /\ db'.services = db.services /\ db'.policies = db.policies
    BY <1>1, <1>12, TableFields DEF Lapse, Replace
  <2>2. n \in RowType /\ Alike(n, r)
    BY <1>1, ExpChanged DEF RowsOK, Expiry
  <2> HIDE DEF n
  <2>3. \A s \in db.rows : s \in db'.rows \/ \E t \in db'.rows : Alike(s, t)
    BY <2>1, <2>2 DEF Alike
  <2>4. \A u : SameServices(db', db, u)
    BY <2>1 DEF SameServices
  <2>5. \A u \in Owner : Good(u)
    <3> HIDE DEF Good
    <3> QED
      BY <1>1, <1>6, <2>1, <2>3, <2>4
  <2>6. published' = [u \in Owner |-> published'[u]]
    BY <1>1, <2>1 DEF PublishedOK
  <2> HIDE DEF Good
  <2> QED
    BY <1>1, <1>3, <2>1, <2>5, <2>6
<1> HIDE DEF Good
<1>13. ASSUME NEW a \in Owner, OwnOnly(a, db, db') \/ db' = Disabled(Expired(a)), Committed(a)
       PROVE  PublishedOK' /\ left' \subseteq Owner /\ NothingWithdrawnIsPublished'
  BY <1>3, <1>9, <1>10, <1>13
<1>14. ASSUME NEW a \in Owner, RolledBack(a)
       PROVE  PublishedOK' /\ left' \subseteq Owner /\ NothingWithdrawnIsPublished'
  <2>1. PICK S \in past[a] : db' = db /\ published' = [published EXCEPT ![a] = S] /\ left' = left \cup {a}
    BY <1>14 DEF RolledBack
  <2>2. DOMAIN published = Owner /\ published' = [u \in Owner |-> published'[u]] /\ left' \subseteq Owner
    <3>1. published = [u \in Owner |-> published[u]]
      BY <1>1 DEF PublishedOK
    <3> QED
      BY <1>1, <2>1, <3>1
  <2>3. Good(a)
    <3>1. published'[a] = S /\ a \in left' /\ RowsFor(a, S)
      BY <1>1, <2>1, <2>2 DEF PastOK
    <3> QED
      BY <3>1 DEF Good
  <2>4. ASSUME NEW u \in Owner, u # a PROVE Good(u)
    <3>1. published'[u] = published[u] /\ left \subseteq left' \cup (Owner \ {u})
      BY <2>1, <2>2, <2>4
    <3> QED
      BY <1>6, <1>7, <2>1, <3>1
  <2> QED
    BY <1>3, <2>2, <2>3, <2>4
<1> QED
  BY <1>8, <1>11, <1>12, <1>13, <1>14 DEF Shape, Usual

\* The versions of the snapshots, which are kept.
LEMMA PastStep ==
  ASSUME RowsInv, PrNext, PublishedOK'
  PROVE  PastOK'
<1>1. PastOK /\ PublishedOK
  BY DEF RowsInv
<1>2. CASE KeepVersions
  <2>1. past' = [u \in Owner |-> past[u] \cup {published'[u]}]
    BY <1>2 DEF KeepVersions
  <2> QED
    BY <1>1, <2>1 DEF PastOK, PublishedOK
<1>3. CASE past' = past
  BY <1>1, <1>3 DEF PastOK
<1> QED
  BY <1>2, <1>3 DEF PrNext, Request, ExpireTTLRules, ExpireAdminGlobalTTLRules, Lapse

-----------------------------------------------------------------------------
(* Invariants *)

LEMMA InitInv == ASSUME PrInit PROVE RowsInv
<1>1. db = EmptyDb /\ seq = InitSeq /\ left = {} /\ requests = 0
      /\ published = [u \in Owner |-> BuildEffectiveSnapshot(EmptyDb, u)]
      /\ past = [u \in Owner |-> {published[u]}]
  BY DEF PrInit
<1>2. EmptyDb.services = {} /\ EmptyDb.policies = {} /\ EmptyDb.rows = InitRows
  BY DEF EmptyDb
<1>3. EmptyDb = [services |-> EmptyDb.services, policies |-> EmptyDb.policies, rows |-> EmptyDb.rows]
  BY DEF EmptyDb
<1>4. RowsOK(EmptyDb, InitSeq)
  BY <1>2, <1>3, InitRowsAssumption DEF RowsOK
<1>5. ASSUME NEW u \in Owner
      PROVE  LET S == published[u] IN
             /\ EntriesCurrent(db, u, S) /\ ServicesCurrent(db, u, S)
             /\ RowsFor(u, S)
  BY <1>1, <1>4, BuiltIsCurrent
<1>6. PublishedOK /\ PastOK
  BY <1>1, <1>5 DEF PublishedOK, PastOK
<1>7. NothingWithdrawnIsPublished
  BY <1>5, NothingWithdrawnPerUser
<1>8. OwnRowsVerify
  BY <1>1, InitRowsAssumption DEF OwnRowsVerify
<1>9. requests \in 0..MaxRequests /\ left \subseteq Owner
  BY <1>1, RowsAssumption
<1> QED
  BY <1>1, <1>4, <1>6, <1>7, <1>8, <1>9 DEF RowsInv

LEMMA NextInv == ASSUME RowsInv, [PrNext]_prvars PROVE RowsInv'
<1>1. CASE PrNext
  <2>1. Shape /\ requests' \in 0..MaxRequests
    BY <1>1, NextShape DEF RowsInv
  <2>2. RowsOK(db', seq')
    BY <2>1 DEF Shape, Usual
  <2>3. OwnRowsVerify' /\ PublishedOK' /\ left' \subseteq Owner /\ NothingWithdrawnIsPublished'
    BY <2>1, OwnRowsStep, PublishedStep
  <2>4. PastOK'
    BY <1>1, <2>3, PastStep
  <2> QED
    BY <2>1, <2>2, <2>3, <2>4 DEF RowsInv
<1>2. CASE UNCHANGED prvars
  <2>1. /\ db' = db /\ seq' = seq /\ published' = published /\ past' = past
        /\ left' = left /\ requests' = requests
    BY <1>2 DEF prvars
  <2> QED
    BY <2>1 DEF RowsInv, PublishedOK, PastOK, OwnRowsVerify, NothingWithdrawnIsPublished
<1> QED
  BY <1>1, <1>2

\* RowsInv is an invariant of the tables and of what is published.
THEOREM RowsInvariance == PrSpec => []RowsInv
<1>1. PrInit => RowsInv
  BY InitInv
<1>2. RowsInv /\ [PrNext]_prvars => RowsInv'
  BY NextInv
<1> QED
  BY <1>1, <1>2, PTL DEF PrSpec

\* The rows of the tables are those of the users and admins, with the ids that
\* the sequences have handed out, once each, and a row that names a service
\* names one of its own user.
THEOREM RowsTypeCorrect == PrSpec => []PrTypeOK
<1>1. RowsInv => PrTypeOK
  BY DEF RowsInv, RowsOK, PrTypeOK
<1> QED
  BY <1>1, RowsInvariance, PTL

\* No sequence of requests, expiries and lapses makes the rows of a user stop
\* its own rebuild (rebuildSnapshotInTx): what it may not have is rolled back,
\* and what goes later, a lapsed row or one of a service, makes no list longer.
THEOREM OwnRowsNeverStopARebuild == PrSpec => []OwnRowsVerify
<1>1. RowsInv => OwnRowsVerify
  BY DEF RowsInv
<1> QED
  BY <1>1, RowsInvariance, PTL

\* A snapshot that the last rebuild has reached, and that its user has not rolled
\* back since, holds no row that has been disabled, changed or deleted, but for
\* the shared rules of a user that ExpireTTLRules takes for its own.
THEOREM WithdrawnRowsAreUnpublished == PrSpec => []NothingWithdrawnIsPublished
<1>1. RowsInv => NothingWithdrawnIsPublished
  BY DEF RowsInv
<1> QED
  BY <1>1, RowsInvariance, PTL

LEMMA SharedOfRows ==
  ASSUME NEW d, NEW e,
         \A r \in d.rows : r.scope = "admin_global" =>
           \E s \in e.rows : s.scope = "admin_global" /\ [s EXCEPT !.exp = "never"] = [r EXCEPT !.exp = "never"]
  PROVE  Shared(d) \subseteq Shared(e)
  BY DEF Shared

LEMMA SharedStep ==
  ASSUME RowsOK(db, seq), Usual, Shared(db') # Shared(db)
  PROVE  \A u \in Owner \ left' : published'[u] = BuildEffectiveSnapshot(db', u)
<1>1. ASSUME \A r : r.scope = "admin_global" => (r \in db.rows <=> r \in db'.rows) PROVE FALSE
  <2>1. Shared(db) \subseteq Shared(db') /\ Shared(db') \subseteq Shared(db)
    BY <1>1, SharedOfRows
  <2> QED
    BY <2>1
<1>2. CASE UNCHANGED <<db, published, left>>
  BY <1>2
<1>3. ASSUME NEW a \in Owner, OwnOnly(a, db, db') PROVE FALSE
  BY <1>1, <1>3 DEF OwnOnly
<1>4. ASSUME NEW a \in Owner, RolledBack(a) PROVE FALSE
  BY <1>4 DEF RolledBack
<1>5. CASE SharedOnly(db, db') /\ RebuildAllActiveUserSnapshots(db')
  BY <1>5 DEF RebuildAllActiveUserSnapshots
<1>6. ASSUME NEW r \in db.rows, Lapse(r) PROVE FALSE
  <2> DEFINE n == [r EXCEPT !.exp = "past"]
  <2>1. db'.rows = (db.rows \ {r}) \cup {n}
    BY <1>6, TableFields DEF Lapse, Replace
  <2>2. r \in RowType
    BY DEF RowsOK
  <2>3. n \in RowType /\ Alike(n, r)
    BY <2>2, ExpChanged DEF Expiry
  <2> HIDE DEF n
  <2>4. [n EXCEPT !.exp = "never"] = [r EXCEPT !.exp = "never"]
    <3>1. PICK x : x = [n EXCEPT !.exp = "never"]
      OBVIOUS
    <3>2. PICK y : y = [r EXCEPT !.exp = "never"]
      OBVIOUS
    <3>3. x \in RowType /\ Alike(x, n) /\ x.exp = "never" /\ y \in RowType /\ Alike(y, r) /\ y.exp = "never"
      BY <2>2, <2>3, <3>1, <3>2, ExpChanged DEF Expiry
    <3>4. Alike(x, y)
      BY <2>3, <3>3 DEF Alike
    <3>5. x = y
      BY <3>3, <3>4, RowExt
    <3> QED
      BY <3>1, <3>2, <3>5
  <2>5. n.scope = r.scope
    BY <2>3 DEF Alike
  <2>6. Shared(db) \subseteq Shared(db')
    BY <2>1, <2>4, <2>5, SharedOfRows
  <2>7. Shared(db') \subseteq Shared(db)
    BY <2>1, <2>4, <2>5, SharedOfRows
  <2> QED
    BY <2>6, <2>7
<1> QED
  BY <1>2, <1>3, <1>4, <1>5, <1>6 DEF Usual

\* Whoever changes shared rows makes a new snapshot for every user up to the one
\* that refuses (commitPolicyMutation, rebuildAllActiveUserSnapshots); a user's
\* requests, its rollbacks and the lapse of a row change none. ExpireTTLRules is
\* the one operation that does not.
THEOREM SharedChangesAreRebuilt == PrSpec => SharedChangesReachAll
<1>1. RowsInv /\ [PrNext]_prvars =>
        [Shared(db') # Shared(db) /\ ~(\E u \in Owner : ExpireTTLRules(u)) =>
           \A u \in Owner \ left' : published'[u] = BuildEffectiveSnapshot(db', u)]_prvars
  <2> SUFFICES ASSUME RowsInv, PrNext, Shared(db') # Shared(db), ~(\E u \in Owner : ExpireTTLRules(u))
               PROVE  \A u \in Owner \ left' : published'[u] = BuildEffectiveSnapshot(db', u)
    OBVIOUS
  <2>1. Usual /\ RowsOK(db, seq)
    BY NextShape DEF RowsInv
  <2> QED
    BY <2>1, SharedStep
<1> QED
  BY <1>1, RowsInvariance, PTL DEF PrSpec, SharedChangesReachAll

-----------------------------------------------------------------------------
(* The loop of byKey *)

\* One turn of the loop, from the list kept so far.
Turn(kind, kept, x) ==
  LET rivals == {r \in kept : EntryKey(r) = EntryKey(x)} IN
  IF \A r \in rivals : Preferred(kind, x, r) THEN (kept \ rivals) \cup {x} ELSE kept

\* It takes the list of some rows to the list of one row more.
LEMMA TurnAddsARow ==
  ASSUME NEW kind \in ListKinds, NEW S, RowSet(kind, S), NEW T \in SUBSET S, NEW x \in S
  PROVE  Turn(kind, ByKey(kind, T), x) = ByKey(kind, T \cup {x})
<1> DEFINE K == ByKey(kind, T)
           rivals == {r \in K : EntryKey(r) = EntryKey(x)}
           N == ByKey(kind, T \cup {x})
<1>1. RowSet(kind, T) /\ K \subseteq T
  BY RowSubset DEF ByKey
<1>2. /\ \A r, s \in S : r # s => Preferred(kind, r, s) \/ Preferred(kind, s, r)
      /\ \A r, s \in S : Preferred(kind, r, s) => ~Preferred(kind, s, r)
      /\ \A r, s, t \in S : Preferred(kind, r, s) /\ Preferred(kind, s, t) => Preferred(kind, r, t)
  BY PreferenceOrder
<1>3. \A s \in T : \E r \in K : EntryKey(r) = EntryKey(s)
  BY <1>1, ByKeyCovers
<1>4. \A r, s \in K : EntryKey(r) = EntryKey(s) => r = s
  BY <1>1, ByKeyUnique
<1>5. \A r : r \in K <=> r \in T /\ \A s \in T : s # r /\ EntryKey(s) = EntryKey(r) => Preferred(kind, r, s)
  BY DEF ByKey
<1>6. \A r : r \in N <=> /\ r \in T \cup {x}
                         /\ \A s \in T \cup {x} : s # r /\ EntryKey(s) = EntryKey(r) => Preferred(kind, r, s)
  BY DEF ByKey
<1>7. Turn(kind, K, x) = IF \A r \in rivals : Preferred(kind, x, r) THEN (K \ rivals) \cup {x} ELSE K
  BY DEF Turn
<1> HIDE DEF K, N
<1>8. CASE x \in T
  <2>1. PICK r \in K : EntryKey(r) = EntryKey(x)
    BY <1>3, <1>8
  <2>2. r \in T /\ r \in S
    BY <1>1, <2>1
  <2>3. ~Preferred(kind, x, r)
    <3>1. CASE x = r
      BY <1>2, <2>2, <3>1
    <3>2. CASE x # r
      BY <1>2, <1>5, <1>8, <2>1, <2>2, <3>2
    <3> QED
      BY <3>1, <3>2
  <2>4. Turn(kind, K, x) = K
    BY <1>7, <2>1, <2>3
  <2>5. T \cup {x} = T
    BY <1>8
  <2> QED
    BY <2>4, <2>5 DEF K
<1>9. CASE x \notin T /\ \A r \in rivals : Preferred(kind, x, r)
  <2>1. ASSUME NEW s \in T, EntryKey(s) = EntryKey(x) PROVE Preferred(kind, x, s)
    <3>1. PICK r \in K : EntryKey(r) = EntryKey(s)
      BY <1>3
    <3>2. Preferred(kind, x, r) /\ r \in S
      BY <1>1, <1>9, <2>1, <3>1
    <3>3. r = s \/ Preferred(kind, r, s)
      BY <1>5, <3>1
    <3> QED
      BY <1>2, <3>2, <3>3
  <2>2. x \in N
    BY <1>6, <2>1
  <2>3. ASSUME NEW y \in T PROVE y \in N <=> y \in K \ rivals
    <3>1. CASE EntryKey(y) = EntryKey(x)
      <4>1. ~Preferred(kind, y, x) /\ y # x
        BY <1>2, <1>9, <2>1, <3>1
      <4>2. y \notin N
        BY <1>6, <3>1, <4>1
      <4> QED
        BY <3>1, <4>2
    <3>2. CASE EntryKey(y) # EntryKey(x)
      BY <1>5, <1>6, <3>2
    <3> QED
      BY <3>1, <3>2
  <2>4. N \subseteq T \cup {x}
    BY <1>6
  <2>5. N = (K \ rivals) \cup {x}
    BY <1>1, <2>2, <2>3, <2>4
  <2> QED
    BY <1>7, <1>9, <2>5 DEF K, N
<1>10. CASE x \notin T /\ ~\A r \in rivals : Preferred(kind, x, r)
  <2>1. PICK r \in rivals : ~Preferred(kind, x, r)
    BY <1>10
  <2>2. r \in K /\ r \in T /\ r # x /\ EntryKey(r) = EntryKey(x)
    BY <1>1, <1>10, <2>1
  <2>3. Preferred(kind, r, x)
    BY <1>2, <2>1, <2>2
  <2>4. x \notin N
    BY <1>6, <2>1, <2>2
  <2>5. ASSUME NEW y \in T PROVE y \in N <=> y \in K
    <3>1. CASE EntryKey(y) = EntryKey(x)
      <4>1. y \in K => y = r
        BY <1>4, <2>2, <3>1
      <4>2. y \in K => y \in N
        BY <1>5, <1>6, <2>3, <4>1
      <4>3. y \in N => y \in K
        BY <1>5, <1>6
      <4> QED
        BY <4>2, <4>3
    <3>2. CASE EntryKey(y) # EntryKey(x)
      BY <1>5, <1>6, <3>2
    <3> QED
      BY <3>1, <3>2
  <2>6. N = K
    BY <1>1, <1>6, <2>4, <2>5
  <2> QED
    BY <1>7, <1>10, <2>6 DEF K, N
<1> QED
  BY <1>8, <1>9, <1>10

\* The loop over any order keeps the list of the rows it has seen.
LEMMA LoopKeepsTheList ==
  ASSUME NEW kind \in ListKinds, NEW S, RowSet(kind, S), NEW n \in Nat, NEW order \in [1..n -> S],
         Len(order) = n
  PROVE  Fold(kind, order) = ByKey(kind, {order[j] : j \in 1..n})
<1> DEFINE Seen(i) == {order[j] : j \in 1..i}
           G(f) == [i \in 0..n |-> IF i = 0 THEN {} ELSE Turn(kind, f[i - 1], order[i])]
           h == [i \in 0..n |-> ByKey(kind, Seen(i))]
<1>1. Seen(0) = {}
  OBVIOUS
<1>2. ASSUME NEW i \in 0..n PROVE Seen(i) \in SUBSET S
  OBVIOUS
<1>3. ASSUME NEW i \in 1..n
      PROVE  i - 1 \in 0..n /\ Seen(i) = Seen(i - 1) \cup {order[i]} /\ order[i] \in S
  OBVIOUS
<1>4. ByKey(kind, {}) = {}
  BY DEF ByKey
<1> HIDE DEF Seen
<1>5. ASSUME NEW i \in 1..n PROVE Turn(kind, ByKey(kind, Seen(i - 1)), order[i]) = ByKey(kind, Seen(i))
  BY <1>2, <1>3, TurnAddsARow
<1>6. h = G(h)
  <2>1. ASSUME NEW i \in 0..n
        PROVE  ByKey(kind, Seen(i)) = IF i = 0 THEN {} ELSE Turn(kind, h[i - 1], order[i])
    <3>1. CASE i = 0
      BY <1>1, <1>4, <3>1
    <3>2. CASE i # 0
      <4>1. i \in 1..n
        BY <3>2
      <4>2. h[i - 1] = ByKey(kind, Seen(i - 1))
        BY <1>3, <4>1
      <4> QED
        BY <1>5, <3>2, <4>1, <4>2
    <3> QED
      BY <3>1, <3>2
  <2>2. \A i \in 0..n : h[i] = G(h)[i]
    BY <2>1
  <2>3. h = [i \in 0..n |-> h[i]] /\ G(h) = [i \in 0..n |-> G(h)[i]]
    OBVIOUS
  <2> HIDE DEF h, G
  <2> QED
    BY <2>2, <2>3
<1>7. ASSUME NEW f, f = G(f) PROVE f[n] = h[n]
  <2> DEFINE X == {i \in 0..n : f[i] # h[i]}
  <2>1. SUFFICES ASSUME X # {} PROVE FALSE
    <3>1. n \notin X
      BY <2>1
    <3> QED
      BY <3>1
  <2>2. PICK i \in X : \A j \in X : i <= j
    <3>1. X \in SUBSET Nat
      OBVIOUS
    <3> HIDE DEF X
    <3> QED
      BY <2>1, <3>1, LeastNat
  <2>3. f[i] = IF i = 0 THEN {} ELSE Turn(kind, f[i - 1], order[i])
    BY <1>7, <2>2
  <2>4. h[i] = IF i = 0 THEN {} ELSE Turn(kind, h[i - 1], order[i])
    BY <1>6, <2>2
  <2>5. CASE i = 0
    BY <2>2, <2>3, <2>4, <2>5
  <2>6. CASE i # 0
    <3>1. i - 1 \in 0..n /\ i - 1 \notin X
      BY <2>2, <2>6
    <3>2. f[i - 1] = h[i - 1]
      BY <3>1
    <3> HIDE DEF h, G
    <3> QED
      BY <2>2, <2>3, <2>4, <2>6, <3>2
  <2> QED
    BY <2>5, <2>6
<1>8. Fold(kind, order) = (CHOOSE f : f = G(f))[n]
  BY DEF Fold, Turn
<1>9. (CHOOSE f : f = G(f)) = G(CHOOSE f : f = G(f))
  <2> HIDE DEF h, G
  <2> QED
    BY <1>6, Zenon
<1>10. Fold(kind, order) = h[n]
  <2> HIDE DEF h, G
  <2> QED
    BY <1>7, <1>8, <1>9, Zenon
<1> QED
  BY <1>10 DEF Seen

\* Whatever the order in which the rows of a user come from the query, the loop
\* of snapshotWhitelist, snapshotBlacklist and snapshotUDPSourcePortBlocks ends
\* with the same list.
THEOREM OrderOfRowsIsIrrelevant == PrSpec => []OrderIrrelevant
<1>1. RowsInv => OrderIrrelevant
  <2> SUFFICES ASSUME RowsInv, NEW u \in Owner, NEW kind \in ListKinds,
                      NEW order \in Orders(Candidates(db, u, kind))
               PROVE  Fold(kind, order) = ByKey(kind, Candidates(db, u, kind))
    BY DEF OrderIrrelevant, ListKinds
  <2> DEFINE S == Candidates(db, u, kind)
             n == Cardinality(S)
  <2>1. RowSet(kind, S)
    BY CandidatesOfTables DEF RowsInv, CandidatesOK
  <2>2. n \in Nat
    BY <2>1, FS_CardinalityType DEF RowSet
  <2>3. order \in [1..n -> S] /\ \A r \in S : \E i \in 1..n : order[i] = r
    BY DEF Orders
  <2> HIDE DEF S, n
  <2>4. Len(order) = n
    BY <2>2, <2>3
  <2>5. {order[j] : j \in 1..n} = S
    BY <2>3
  <2> QED
    BY <2>1, <2>2, <2>3, <2>4, <2>5, LoopKeepsTheList DEF S
<1> QED
  BY <1>1, RowsInvariance, PTL
=============================================================================
