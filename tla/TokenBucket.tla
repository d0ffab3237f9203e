---------------------------- MODULE TokenBucket ----------------------------
(***************************************************************************)
(* apply_token_bucket of bpf/xdp_data_plane.bpf.c: the CPUs of a node      *)
(* share one rate_state_v2 map. A CPU reads the clock, looks the key up or *)
(* inserts it, and only then takes the lock of the value and refills.      *)
(* Time is counted in ticks, Second of which make NSEC_PER_SEC.            *)
(***************************************************************************)
EXTENDS Integers, FiniteSets

CONSTANTS
  CPU,
  Key,           \* rate keys
  Packet,        \* records with the rate key, pkt_len and the SYN flag
  MaxRateState,  \* max_entries of rate_state_v2
  Second,        \* NSEC_PER_SEC
  Word,          \* 2^64, the modulus of the arithmetic on ns
  MaxClock,      \* bound on the clock
  MaxSeen,       \* bound on packets_seen
  ThresholdPPS, ThresholdBPS, ThresholdCPS, BurstPackets, BurstBytes  \* the rule

Bucket == {"packets", "bytes", "syn"}

ASSUME BucketAssumption ==
  /\ Packet \subseteq [key : Key, len : Nat \ {0}, syn : BOOLEAN]
  /\ Second \in Nat \ {0}
  /\ MaxClock \in Nat
  /\ Word \in Nat /\ Word > MaxClock + 2 * Second
  /\ {MaxSeen, MaxRateState, ThresholdPPS, ThresholdBPS, ThresholdCPS,
      BurstPackets, BurstBytes} \subseteq Nat

VARIABLES
  clock,   \* bpf_ktime_get_ns
  cpu,     \* the locals of apply_token_bucket on every CPU
  state,   \* rate_state_v2
  since,   \* history: when a key was inserted
  start,   \* history: the tokens a key was inserted with
  spent,   \* history: the tokens taken from a key
  ideal,   \* history: a bucket that refills continuously, in 1/Second tokens
  late     \* history: the keys that a CPU has locked with an older clock
           \* value than the CPU before it

bvars == <<clock, cpu, state, since, start, spent, ideal, late>>

-----------------------------------------------------------------------------

Least(a, b) == IF a <= b THEN a ELSE b

nonzero(preferred, fallback) ==
  IF preferred # 0 THEN preferred ELSE IF fallback # 0 THEN fallback ELSE 1

bps_to_bytes_per_sec(bps) == (bps + 7) \div 8

\* Tokens per second; 0 when the rule has no such threshold.
Rate(b) ==
  CASE b = "packets" -> ThresholdPPS
    [] b = "bytes" -> bps_to_bytes_per_sec(ThresholdBPS)
    [] b = "syn" -> ThresholdCPS

\* Without burst_bytes the size of a byte bucket depends on the packet.
byte_burst(p) ==
  IF BurstBytes = 0 /\ ThresholdBPS # 0
    THEN IF Rate("bytes") < p.len THEN p.len ELSE Rate("bytes")
    ELSE nonzero(BurstBytes, p.len)

Burst(b, p) ==
  CASE b = "packets" -> nonzero(BurstPackets, ThresholdPPS)
    [] b = "bytes" -> byte_burst(p)
    [] b = "syn" -> nonzero(BurstPackets, ThresholdCPS)

Cost(b, p) ==
  CASE b = "packets" -> 1
    [] b = "bytes" -> p.len
    [] b = "syn" -> IF p.syn THEN 1 ELSE 0

\* refill_bucket: the new tokens and remainder.
refill_bucket(tokens, remainder, burst, rate, elapsed) ==
  LET total  == Least(elapsed + remainder, 2 * Second)
      refill == (total * rate) \div Second
      used   == (refill * Second) \div rate
      full   == [tokens |-> burst, remainder |-> 0]
  IN  IF rate = 0 THEN [tokens |-> tokens, remainder |-> remainder]
      ELSE IF tokens >= burst THEN full
      ELSE IF refill = 0 THEN [tokens |-> tokens, remainder |-> total]
      ELSE IF tokens + refill >= burst THEN full
      ELSE [tokens |-> tokens + refill,
            remainder |-> IF used >= total THEN 0 ELSE total - used]

NoState == [exists |-> FALSE, last |-> 0,
            bucket |-> [b \in Bucket |-> [tokens |-> 0, remainder |-> 0]],
            packets_seen |-> 0]

NewState(now, p) ==
  [exists |-> TRUE, last |-> now,
   bucket |-> [b \in Bucket |-> [tokens |-> Burst(b, p), remainder |-> 0]],
   packets_seen |-> 0]

Parked(at, now, p) == [at |-> at, now |-> now, p |-> p]

BInit ==
  /\ clock = 0
  /\ \E p \in Packet : cpu = [c \in CPU |-> Parked("idle", 0, p)]
  /\ state = [k \in Key |-> NoState]
  /\ since = [k \in Key |-> 0]
  /\ start = [k \in Key |-> [b \in Bucket |-> 0]]
  /\ spent = [k \in Key |-> [b \in Bucket |-> 0]]
  /\ ideal = [k \in Key |-> [b \in Bucket |-> 0]]
  /\ late = {}

-----------------------------------------------------------------------------

Tick ==
  /\ clock < MaxClock
  /\ clock' = clock + 1
  /\ UNCHANGED <<cpu, state, since, start, spent, ideal, late>>

\* A packet reaches a rate-limit rule: "now" is read first.
Arrive(c) ==
  /\ cpu[c].at = "idle"
  /\ \E p \in Packet :
       /\ state[p.key].packets_seen < MaxSeen
       /\ cpu' = [cpu EXCEPT ![c] = Parked("lookup", clock, p)]
  /\ UNCHANGED <<clock, state, since, start, spent, ideal, late>>

GoOn(c, at) == cpu' = [cpu EXCEPT ![c] = Parked(at, cpu[c].now, cpu[c].p)]

LookupState(c) ==
  /\ cpu[c].at = "lookup"
  /\ GoOn(c, IF state[cpu[c].p.key].exists THEN "lock" ELSE "insert")
  /\ UNCHANGED <<clock, state, since, start, spent, ideal, late>>

Insert(c) ==
  LET k == cpu[c].p.key  new == NewState(cpu[c].now, cpu[c].p)
  IN  /\ state' = [state EXCEPT ![k] = new]
      /\ since' = [since EXCEPT ![k] = cpu[c].now]
      /\ start' = [start EXCEPT ![k] = [b \in Bucket |-> new.bucket[b].tokens]]
      /\ ideal' = [ideal EXCEPT ![k] =
                     [b \in Bucket |-> Second * new.bucket[b].tokens]]

full == Cardinality({k \in Key : state[k].exists}) >= MaxRateState

\* Faulty variant: BPF_ANY in place of BPF_NOEXIST.
InsertAny(c) ==
  /\ cpu[c].at = "insert"
  /\ ~full \/ state[cpu[c].p.key].exists
  /\ Insert(c)
  /\ GoOn(c, "lock")
  /\ UNCHANGED <<clock, spent, late>>

\* bpf_map_update_elem with BPF_NOEXIST succeeds.
InsertState(c) ==
  /\ cpu[c].at = "insert"
  /\ ~state[cpu[c].p.key].exists
  /\ ~full
  /\ Insert(c)
  /\ GoOn(c, "lock")
  /\ UNCHANGED <<clock, spent, late>>

\* It fails: another CPU was first, or the map is full and the packet is over
\* the limit.
InsertFails(c) ==
  /\ cpu[c].at = "insert"
  /\ state[cpu[c].p.key].exists \/ full
  /\ GoOn(c, IF state[cpu[c].p.key].exists THEN "lock" ELSE "idle")
  /\ UNCHANGED <<clock, state, since, start, spent, ideal, late>>

\* elapsed, with the wrap-around of unsigned subtraction.
Elapsed(now, last) == Least((now - last) % Word, Second)

\* Faulty variant: the remainder of a refill is dropped.
RefillWhole(s, now, p) ==
  [b \in Bucket |->
     [refill_bucket(s.bucket[b].tokens, s.bucket[b].remainder, Burst(b, p),
                    Rate(b), Elapsed(now, s.last)) EXCEPT !.remainder = 0]]

\* Faulty variant: a bucket is filled past its burst.
RefillUncapped(s, now, p) ==
  [b \in Bucket |->
     refill_bucket(s.bucket[b].tokens, s.bucket[b].remainder,
                   Burst(b, p) + 1, Rate(b), Elapsed(now, s.last))]

\* Faulty variant: every packet counts as a whole second.
RefillSecond(s, now, p) ==
  [b \in Bucket |->
     refill_bucket(s.bucket[b].tokens, s.bucket[b].remainder, Burst(b, p),
                   Rate(b), Second)]

\* The refills of a packet; nothing moves when no time has passed.
Refilled(s, now, p) ==
  IF Elapsed(now, s.last) = 0 THEN s.bucket
  ELSE [b \in Bucket |->
          refill_bucket(s.bucket[b].tokens, s.bucket[b].remainder,
                        Burst(b, p), Rate(b), Elapsed(now, s.last))]

\* The continuous bucket of the documentation, for comparison.
Flow(credit, s, now, p) ==
  [b \in Bucket |->
     IF Elapsed(now, s.last) = 0 THEN credit[b]
     ELSE Least(Second * Burst(b, p), credit[b] + Rate(b) * Elapsed(now, s.last))]

over_limit(bucket, p) ==
  \E b \in Bucket : Rate(b) # 0 /\ bucket[b].tokens < Cost(b, p)

Taken(b, p) == IF Rate(b) # 0 THEN Cost(b, p) ELSE 0

\* The section between bpf_spin_lock and bpf_spin_unlock.
Decide(c) ==
  LET p == cpu[c].p
      k == p.key
      now == cpu[c].now
      s == state[k]
      bucket == Refilled(s, now, p)
      admitted == ~over_limit(bucket, p)
      take(b) == IF admitted THEN Taken(b, p) ELSE 0
  IN  /\ cpu[c].at = "lock"
      /\ state' = [state EXCEPT ![k] =
           [exists |-> TRUE,
            last |-> now,
            bucket |-> [b \in Bucket |->
                          [tokens |-> bucket[b].tokens - take(b),
                           remainder |-> bucket[b].remainder]],
            packets_seen |-> s.packets_seen + 1]]
      /\ spent' = [spent EXCEPT ![k] = [b \in Bucket |-> @[b] + take(b)]]
      /\ ideal' = [ideal EXCEPT ![k] =
           [b \in Bucket |-> Flow(@, s, now, p)[b] - Second * take(b)]]
      /\ late' = IF now < s.last THEN late \cup {k} ELSE late
      /\ GoOn(c, "idle")
      /\ UNCHANGED <<clock, since, start>>

BNext ==
  \/ Tick
  \/ \E c \in CPU : \/ Arrive(c) \/ LookupState(c) \/ InsertState(c)
                    \/ InsertFails(c) \/ Decide(c)

BSpec == BInit /\ [][BNext]_bvars

-----------------------------------------------------------------------------
(* Properties *)

\* No bucket ever holds more than the largest burst of a packet, or less than
\* nothing: the subtractions of the locked section do not wrap, whatever the
\* CPUs interleave (xdp_data_plane.bpf.c:719-748).
TokensBounded ==
  \A k \in Key, b \in Bucket :
    /\ state[k].bucket[b].tokens >= 0
    /\ state[k].exists =>
         \E p \in Packet : state[k].bucket[b].tokens <= Burst(b, p)

\* The state of a key is created once: CPUs that meet a new key at the same
\* time do not reset one another's tokens (xdp_data_plane.bpf.c:679-693).
StateKept ==
  [][\A k \in Key : state[k].exists =>
       /\ state'[k].exists
       /\ state'[k].packets_seen >= state[k].packets_seen]_bvars

\* The threshold of a bucket is a divisor of a second: a token takes a whole
\* number of ticks.
Divides(b) == \E ticks \in 1..Second : Rate(b) * ticks = Second

\* refill_bucket loses no fraction of a token and invents none: tokens and
\* remainder together are the credit of a continuous bucket, as long as the
\* threshold divides a second (xdp_data_plane.bpf.c:586-629).
ExactRefill ==
  \A k \in Key, b \in Bucket :
    state[k].exists /\ Divides(b) =>
      Second * state[k].bucket[b].tokens
        + Rate(b) * state[k].bucket[b].remainder = ideal[k][b]

\* Of any other threshold, used is rounded down, and the remainder may keep up to
\* a tick too much, at most once per packet.
Rounding(b) == IF Divides(b) \/ Rate(b) = 0 THEN 0 ELSE Rate(b) - 1

\* What a key lets through between its insertion and now.
Conforms(k) ==
  \A b \in Bucket :
    Second * spent[k][b] <=
      Second * start[k][b] + Rate(b) * (clock - since[k]) + Rounding(b) * state[k].packets_seen

\* As long as CPUs take the lock in the order of their clock values, a key lets
\* through at most what it started with and the threshold times the time that
\* has passed, up to rounding (xdp_data_plane.bpf.c:586-629, 657-751).
RateConformsInOrder == \A k \in Key \ late : Conforms(k)
=============================================================================
