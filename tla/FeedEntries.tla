----------------------------- MODULE FeedEntries -----------------------------
(***************************************************************************)
(* What a downloaded feed becomes before it is stored: parsing, removal of *)
(* duplicates and the merging of neighbouring prefixes                     *)
(* (internal/control/feed.go).                                             *)
(*                                                                         *)
(* A prefix is [bits, addr] over addresses of AddrBits bits instead of 32. *)
(* An entry is [cidr, class, reason]: class stands for score and ttl in    *)
(* the order in which sortFeedEntries puts them, all actions are drop. A   *)
(* line of a feed is an entry or Malformed, which is also what an item     *)
(* with another action, and a body that is not JSON at all, count as.      *)
(***************************************************************************)
EXTENDS Integers, Sequences, FiniteSets

CONSTANT AddrBits

ASSUME FeedEntriesAssumption == AddrBits \in Nat \ {0}

Malformed == [cidr |-> "malformed"]

-----------------------------------------------------------------------------
(* Prefixes *)

PowersOf2[i \in 0..AddrBits] == IF i = 0 THEN 1 ELSE 2 * PowersOf2[i - 1]
Size(bits) == PowersOf2[AddrBits - bits]

\* What parseCIDR returns has no bits beyond the prefix.
MaskedPrefixes ==
  {p \in [bits : 0..AddrBits, addr : 0..(Size(0) - 1)] : p.addr % Size(p.bits) = 0}
PrefixContains(p, a) == a \div Size(p.bits) = p.addr \div Size(p.bits)
Addresses(p) == {a \in 0..(Size(0) - 1) : PrefixContains(p, a)}

SiblingPrefix(p) ==
  LET size == Size(p.bits) IN
  [p EXCEPT !.addr = IF (@ \div size) % 2 = 0 THEN @ + size ELSE @ - size]
ParentPrefix(p) ==
  [bits |-> p.bits - 1, addr |-> p.addr - (p.addr % Size(p.bits - 1))]

PrefixesOverlap(a, b) == PrefixContains(a, b.addr) \/ PrefixContains(b, a.addr)
MatchingWhitelists(p, whitelist) == {w \in whitelist : PrefixesOverlap(p, w)}

\* Faulty variant: only a prefix that is whitelisted itself is kept apart.
PrefixIsWhitelisted(p, whitelist) == p \in whitelist

\* Only the first address of the whitelisted prefix counts.
PrefixContainsAnyWhitelist(p, whitelist) == \E w \in whitelist : PrefixContains(p, w.addr)

-----------------------------------------------------------------------------
(* Entries *)

\* The entries with their places in the body.
ParseFeedPayload(lines) ==
  LET good == {i \in DOMAIN lines : lines[i] # Malformed} IN
  [entries |-> [i \in good |-> lines[i]],
   parseErrors |-> Cardinality(DOMAIN lines \ good)]

\* The first entry of a prefix and class is kept, with its reason.
DedupeFeedEntries(entries) ==
  {entries[i] : i \in {j \in DOMAIN entries : \A k \in DOMAIN entries : k < j =>
     <<entries[k].cidr, entries[k].class>> # <<entries[j].cidr, entries[j].class>>}}

FeedMergeCompatible(a, b) == a.class = b.class /\ a.reason = b.reason

\* The loop of aggregateFeedEntries works on c.entries, of which c.merged is what
\* the last round has put in, and which comes last in its order. byPrefix keeps
\* the last entry of a prefix. (Two of one class can only be a merged entry and
\* one of the feed's own; their order after a sort is left open.)
ByPrefix(c, p) ==
  IF \E e \in c.merged : e.cidr = p THEN c.merged
  ELSE {e \in c.entries : e.cidr = p /\ \A d \in c.entries : d.cidr = p => d.class <= e.class}

\* The entries that can be merged with their sibling now.
Mergeable(c, whitelist) ==
  {l \in c.entries :
     /\ l.cidr.bits > 0
     /\ \E r \in ByPrefix(c, SiblingPrefix(l.cidr)) : FeedMergeCompatible(l, r)
     /\ ~PrefixContainsAnyWhitelist(ParentPrefix(l.cidr), whitelist)}

\* One round: every entry of the two prefixes goes, those of other classes too.
Merge(c, l) ==
  LET parent == [l EXCEPT !.cidr = ParentPrefix(l.cidr)] IN
  [entries |-> {e \in c.entries : e.cidr \notin {l.cidr, SiblingPrefix(l.cidr)}} \cup {parent},
   merged |-> {parent}]

\* The longest prefixes come first; which of one length is left open.
MergeRound(c, whitelist) ==
  LET M == Mergeable(c, whitelist) IN
  IF M = {} THEN {c}
  ELSE {Merge(c, l) : l \in {m \in M : \A k \in M : k.cidr.bits <= m.cidr.bits}}

\* What the loop may end with. Every round leaves fewer entries, so that there
\* are no more rounds than there were entries.
AggregateFeedEntries(E, whitelist) ==
  LET after[n \in 0..Cardinality(E)] ==
        IF n = 0 THEN {[entries |-> E, merged |-> {}]}
        ELSE UNION {MergeRound(c, whitelist) : c \in after[n - 1]}
  IN {c.entries : c \in after[Cardinality(E)]}

\* The rows that the entries become: one for each prefix and class.
Upserts(E) ==
  {R \in SUBSET E : \A e \in E : \E r \in R :
     \A s \in R : <<s.cidr, s.class>> = <<e.cidr, e.class>> <=> s = r}
=============================================================================
