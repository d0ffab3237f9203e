------------------------- MODULE TokenBucketProofs -------------------------
(***************************************************************************)
(* Proofs about the token bucket, for any number of CPUs, keys and         *)
(* packets, any rule and any length of a second. The arithmetic of         *)
(* refill_bucket is in three lemmas: what it returns is bounded            *)
(* (RefillTyped), is worth at most what was there and what has flowed in,  *)
(* up to the rounding of one division (RefillBound), and exactly that if   *)
(* the rate divides a second (RefillExact).                                *)
(***************************************************************************)
EXTENDS TokenBucket, TLAPS

-----------------------------------------------------------------------------
(* Arithmetic *)

\* Division with a remainder.
LEMMA DivFacts ==
  ASSUME NEW a \in Nat, NEW d \in Nat \ {0}
  PROVE  /\ a \div d \in Nat
         /\ d * (a \div d) <= a
         /\ a < d * (a \div d) + d
OBVIOUS

\* A product grows with its factors.
LEMMA MulMonotone ==
  ASSUME NEW a \in Nat, NEW b \in Nat, NEW c \in Nat, a <= b
  PROVE  c * a <= c * b /\ c * a \in Nat
OBVIOUS

LEMMA MulStrict ==
  ASSUME NEW a \in Nat, NEW b \in Nat, NEW c \in Nat \ {0}, c * a < c * b
  PROVE  a < b
OBVIOUS

LEMMA MulDistributes ==
  ASSUME NEW a \in Int, NEW b \in Int, NEW c \in Int
  PROVE  /\ c * (a + b) = c * a + c * b
         /\ c * (a - b) = c * a - c * b
         /\ c * a \in Int /\ c * a = a * c
OBVIOUS

LEMMA MulAssociates ==
  ASSUME NEW a \in Int, NEW b \in Int, NEW c \in Int
  PROVE  (a * b) * c = a * (b * c)
OBVIOUS

-----------------------------------------------------------------------------
(* refill_bucket *)

BucketRecord == [tokens : Nat, remainder : Nat]

\* Its result is a bucket again, with no more tokens than before or the burst.
LEMMA RefillTyped ==
  ASSUME NEW tokens \in Nat, NEW remainder \in Nat, NEW burst \in Nat, NEW rate \in Nat,
         NEW elapsed \in Nat
  PROVE  /\ refill_bucket(tokens, remainder, burst, rate, elapsed) \in BucketRecord
         /\ \/ refill_bucket(tokens, remainder, burst, rate, elapsed).tokens <= tokens
            \/ refill_bucket(tokens, remainder, burst, rate, elapsed).tokens <= burst
<1> DEFINE total == Least(elapsed + remainder, 2 * Second)
           refill == (total * rate) \div Second
           used == (refill * Second) \div rate
<1>1. Second \in Nat \ {0}
  BY BucketAssumption DEF BucketAssumption
<1>2. total \in Nat
  BY <1>1 DEF Least
<1>3. refill \in Nat
  <2>1. total * rate \in Nat
    BY <1>2, MulMonotone, MulDistributes
  <2> QED
    BY <2>1, <1>1, DivFacts
<1>4. rate # 0 => used \in Nat
  <2>1. refill * Second \in Nat
    BY <1>1, <1>3, MulMonotone, MulDistributes
  <2> QED
    BY <2>1, DivFacts
<1>5. PICK r : r = refill_bucket(tokens, remainder, burst, rate, elapsed)
  OBVIOUS
<1>6. r = IF rate = 0 THEN [tokens |-> tokens, remainder |-> remainder]
          ELSE IF tokens >= burst THEN [tokens |-> burst, remainder |-> 0]
          ELSE IF refill = 0 THEN [tokens |-> tokens, remainder |-> total]
          ELSE IF tokens + refill >= burst THEN [tokens |-> burst, remainder |-> 0]
          ELSE [tokens |-> tokens + refill,
                remainder |-> IF used >= total THEN 0 ELSE total - used]
  BY <1>5 DEF refill_bucket
<1> HIDE DEF total, refill, used
<1>7. r \in BucketRecord /\ (r.tokens <= tokens \/ r.tokens <= burst)
  BY <1>2, <1>3, <1>4, <1>6 DEF BucketRecord
<1> QED
  BY <1>5, <1>7

\* The worth of a bucket, in tokens of a tick: with a rate, what was there and
\* what has flowed in are an upper bound, up to one rounding.
LEMMA RefillBound ==
  ASSUME NEW tokens \in Nat, NEW remainder \in Nat, NEW burst \in Nat, NEW rate \in Nat \ {0},
         NEW elapsed \in Nat, NEW r, r = refill_bucket(tokens, remainder, burst, rate, elapsed)
  PROVE  Second * r.tokens + rate * r.remainder <=
           Second * tokens + rate * remainder + rate * elapsed + (rate - 1)
<1> DEFINE total == Least(elapsed + remainder, 2 * Second)
           refill == (total * rate) \div Second
           used == (refill * Second) \div rate
           worth == rate * total
<1>1. Second \in Nat \ {0}
  BY BucketAssumption DEF BucketAssumption
<1>2. total \in Nat /\ total <= elapsed + remainder
  BY <1>1 DEF Least
<1>3. /\ worth \in Nat /\ worth = total * rate
      /\ worth <= rate * elapsed + rate * remainder
  BY <1>2, MulMonotone, MulDistributes
<1>4. /\ refill \in Nat /\ Second * refill <= worth /\ Second * refill \in Nat
      /\ refill * Second = Second * refill
  <2>1. refill = worth \div Second
    BY <1>3
  <2> HIDE DEF worth, refill
  <2>2. refill \in Nat /\ Second * refill <= worth
    BY <2>1, <1>1, <1>3, DivFacts
  <2> QED
    BY <2>2, <1>1, MulMonotone, MulDistributes
<1>5. used \in Nat /\ Second * refill < rate * used + rate /\ rate * used \in Nat
  <2>1. used = (Second * refill) \div rate
    BY <1>4
  <2> HIDE DEF used, refill
  <2>2. used \in Nat /\ Second * refill < rate * used + rate
    BY <2>1, <1>4, DivFacts
  <2> QED
    BY <2>2, MulMonotone
<1>6. r = IF tokens >= burst THEN [tokens |-> burst, remainder |-> 0]
          ELSE IF refill = 0 THEN [tokens |-> tokens, remainder |-> total]
          ELSE IF tokens + refill >= burst THEN [tokens |-> burst, remainder |-> 0]
          ELSE [tokens |-> tokens + refill,
                remainder |-> IF used >= total THEN 0 ELSE total - used]
  BY DEF refill_bucket
<1> HIDE DEF total, refill, used
<1>7. /\ Second * tokens \in Nat /\ Second * burst \in Nat /\ rate * remainder \in Nat
      /\ rate * elapsed \in Nat /\ rate * 0 = 0 /\ rate - 1 \in Nat
  BY <1>1, MulMonotone
<1>8. CASE tokens >= burst
  <2>1. Second * burst <= Second * tokens
    BY <1>1, <1>8, MulMonotone
  <2> QED
    BY <2>1, <1>6, <1>7, <1>8
<1>9. CASE tokens < burst /\ refill = 0
  BY <1>3, <1>6, <1>7, <1>9
<1>10. CASE tokens < burst /\ refill # 0 /\ tokens + refill >= burst
  <2>1. Second * burst <= Second * tokens + Second * refill
    BY <1>1, <1>4, <1>10, MulMonotone, MulDistributes
  <2> QED
    BY <2>1, <1>3, <1>4, <1>6, <1>7, <1>10
<1>11. CASE tokens < burst /\ refill # 0 /\ tokens + refill < burst
  <2>1. Second * (tokens + refill) = Second * tokens + Second * refill
    BY <1>1, <1>4, MulDistributes
  <2>2. CASE used >= total
    BY <2>1, <2>2, <1>3, <1>4, <1>6, <1>7, <1>11
  <2>3. CASE used < total
    <3>1. rate * (total - used) = worth - rate * used
      BY <1>2, <1>5, MulDistributes
    <3>2. r.tokens = tokens + refill /\ r.remainder = total - used
      BY <2>3, <1>2, <1>5, <1>6, <1>11, <1>4
    <3> QED
      BY <3>1, <3>2, <2>1, <1>3, <1>4, <1>5, <1>7
  <2> QED
    BY <2>2, <2>3, <1>2, <1>5
<1> QED
  BY <1>4, <1>8, <1>9, <1>10, <1>11

\* A rate that divides a second, with at most a second of time and less than a
\* token in the remainder: nothing is rounded.
LEMMA RefillExact ==
  ASSUME NEW tokens \in Nat, NEW remainder \in Nat, NEW burst \in Nat, NEW rate \in Nat,
         NEW elapsed \in 0..Second, NEW ticks \in 1..Second, rate * ticks = Second,
         rate * remainder < Second,
         NEW r, r = refill_bucket(tokens, remainder, burst, rate, elapsed)
  PROVE  /\ Second * r.tokens + rate * r.remainder =
              Least(Second * burst, Second * tokens + rate * remainder + rate * elapsed)
         /\ rate * r.remainder < Second
<1> DEFINE total == Least(elapsed + remainder, 2 * Second)
           refill == (total * rate) \div Second
           used == (refill * Second) \div rate
           worth == rate * elapsed + rate * remainder
<1>1. /\ Second \in Nat \ {0} /\ elapsed \in Nat /\ elapsed <= Second
      /\ ticks \in Nat \ {0} /\ ticks <= Second
  BY BucketAssumption DEF BucketAssumption
<1>2. rate \in Nat \ {0}
  <2>1. 0 * ticks = 0
    BY <1>1
  <2> QED
    BY <2>1, <1>1
<1>3. remainder < ticks
  BY <1>1, <1>2, MulStrict
<1>4. total = elapsed + remainder /\ total \in Nat
  BY <1>1, <1>3 DEF Least
<1>5. worth \in Nat /\ total * rate = worth /\ rate * total = worth
  BY <1>1, <1>4, MulMonotone, MulDistributes
<1> HIDE DEF total, worth
<1>6. /\ refill \in Nat /\ Second * refill <= worth /\ worth < Second * refill + Second
      /\ Second * refill \in Nat /\ refill * Second = Second * refill
  <2>1. refill = worth \div Second
    BY <1>5
  <2> HIDE DEF refill
  <2>2. refill \in Nat /\ Second * refill <= worth /\ worth < Second * refill + Second
    BY <2>1, <1>1, <1>5, DivFacts
  <2> QED
    BY <2>2, <1>1, MulMonotone, MulDistributes
<1>7. used \in Nat /\ rate * used = Second * refill
  <2>1. used = (Second * refill) \div rate
    BY <1>6
  <2>2. PICK n \in Nat : n = ticks * refill
    BY <1>1, <1>6, MulMonotone
  <2>3. Second * refill = rate * n
    BY <2>2, <1>1, <1>6, MulAssociates
  <2> HIDE DEF used, refill
  <2>4. used \in Nat /\ rate * used <= rate * n /\ rate * n < rate * used + rate
    BY <2>1, <2>3, <1>2, <1>6, DivFacts
  <2>5. rate * (used + 1) = rate * used + rate
    BY <2>4, <1>2, MulDistributes
  <2>6. n < used + 1
    BY <2>4, <2>5, <1>2, MulStrict
  <2>7. rate * n <= rate * used
    BY <2>4, <2>6, <1>2, MulMonotone
  <2>8. rate * n \in Nat /\ rate * used \in Nat
    BY <2>4, <1>2, MulMonotone
  <2> QED
    BY <2>3, <2>4, <2>7, <2>8
<1>8. r = IF tokens >= burst THEN [tokens |-> burst, remainder |-> 0]
          ELSE IF refill = 0 THEN [tokens |-> tokens, remainder |-> total]
          ELSE IF tokens + refill >= burst THEN [tokens |-> burst, remainder |-> 0]
          ELSE [tokens |-> tokens + refill,
                remainder |-> IF used >= total THEN 0 ELSE total - used]
  BY <1>2 DEF refill_bucket, total
<1> HIDE DEF refill, used
<1>9. used <= total
  <2>1. rate * used < rate * (total + 1)
    <3>1. rate * (total + 1) = worth + rate
      BY <1>2, <1>4, <1>5, MulDistributes
    <3> QED
      BY <3>1, <1>2, <1>5, <1>6, <1>7
  <2>2. used < total + 1
    BY <2>1, <1>2, <1>4, <1>7, MulStrict
  <2> QED
    BY <2>2, <1>4, <1>7
<1>10. /\ Second * tokens \in Nat /\ Second * burst \in Nat /\ rate * 0 = 0
       /\ Second * tokens + rate * remainder + rate * elapsed = Second * tokens + worth
  <2>1. rate * remainder \in Nat /\ rate * elapsed \in Nat
    BY <1>1, <1>2, MulMonotone
  <2>2. Second * tokens \in Nat /\ Second * burst \in Nat /\ rate * 0 = 0
    BY <1>1, <1>2, MulMonotone
  <2> QED
    BY <2>1, <2>2 DEF worth
<1>11. CASE tokens >= burst
  <2>1. Second * burst <= Second * tokens
    BY <1>1, <1>11, MulMonotone
  <2> QED
    BY <2>1, <1>1, <1>5, <1>8, <1>10, <1>11 DEF Least
<1>12. CASE tokens < burst /\ refill # 0 /\ tokens + refill >= burst
  <2>1. Second * burst <= Second * tokens + Second * refill
    BY <1>1, <1>6, <1>12, MulMonotone, MulDistributes
  <2> QED
    BY <2>1, <1>1, <1>5, <1>6, <1>8, <1>10, <1>12 DEF Least
<1>13. CASE tokens < burst /\ tokens + refill < burst
  <2>1. /\ Second * (tokens + refill) = Second * tokens + Second * refill
        /\ Second * (tokens + refill + 1) = Second * tokens + Second * refill + Second
        /\ Second * (tokens + refill + 1) <= Second * burst
    BY <1>1, <1>6, <1>13, MulMonotone, MulDistributes
  <2>2. Second * tokens + worth < Second * burst
    BY <2>1, <1>1, <1>5, <1>6, <1>10
  <2>3. r.tokens = tokens + refill /\ rate * r.remainder = worth - Second * refill
    <3>1. CASE refill = 0
      BY <3>1, <1>1, <1>5, <1>8, <1>13
    <3>2. CASE refill # 0
      <4>1. r.tokens = tokens + refill /\ r.remainder = total - used
        BY <3>2, <1>4, <1>6, <1>7, <1>8, <1>9, <1>13
      <4>2. rate * (total - used) = worth - Second * refill
        BY <1>2, <1>4, <1>5, <1>7, MulDistributes
      <4> QED
        BY <4>1, <4>2
    <3> QED
      BY <3>1, <3>2
  <2> QED
    BY <2>1, <2>2, <2>3, <1>1, <1>5, <1>6, <1>10 DEF Least
<1> QED
  BY <1>6, <1>11, <1>12, <1>13

-----------------------------------------------------------------------------
(* The operators of the rule *)

LEMMA RateTyped ==
  ASSUME NEW b \in Bucket PROVE Rate(b) \in Nat
<1>1. {ThresholdPPS, ThresholdBPS, ThresholdCPS} \subseteq Nat
  BY BucketAssumption DEF BucketAssumption
<1>2. bps_to_bytes_per_sec(ThresholdBPS) \in Nat
  BY <1>1 DEF bps_to_bytes_per_sec
<1> QED
  BY <1>1, <1>2 DEF Rate, Bucket

LEMMA RuleTyped ==
  ASSUME NEW b \in Bucket, NEW p \in Packet
  PROVE  /\ Rate(b) \in Nat /\ Burst(b, p) \in Nat /\ Cost(b, p) \in Nat /\ Taken(b, p) \in Nat
         /\ Rounding(b) \in Nat /\ (Divides(b) => Rounding(b) = 0 /\ Rate(b) # 0)
<1>1. /\ p \in [key : Key, len : Nat \ {0}, syn : BOOLEAN]
      /\ {ThresholdPPS, ThresholdBPS, ThresholdCPS, BurstPackets, BurstBytes} \subseteq Nat
      /\ Second \in Nat \ {0}
  BY BucketAssumption DEF BucketAssumption
<1>3. \A a \in Bucket : Rate(a) \in Nat
  BY RateTyped
<1>4. Burst(b, p) \in Nat
  <2>1. byte_burst(p) \in Nat
    BY <1>1, <1>3 DEF byte_burst, nonzero, Bucket
  <2> QED
    BY <2>1, <1>1 DEF Burst, nonzero, Bucket
<1>5. Cost(b, p) \in Nat /\ Taken(b, p) \in Nat
  BY <1>1 DEF Cost, Taken, Bucket
<1>6. Divides(b) => Rate(b) # 0
  <2>1. \A ticks \in 1..Second : 0 * ticks = 0
    BY <1>1
  <2> QED
    BY <2>1, <1>1 DEF Divides
<1>7. Rounding(b) \in Nat /\ (Divides(b) => Rounding(b) = 0)
  BY <1>3 DEF Rounding
<1> QED
  BY <1>3, <1>4, <1>5, <1>6, <1>7

\* The time since the last packet, at most a second; it is what it says when
\* the clock values are in order.
LEMMA ElapsedTyped ==
  ASSUME NEW now \in 0..MaxClock, NEW last \in 0..MaxClock
  PROVE  /\ Elapsed(now, last) \in 0..Second
         /\ last <= now => Elapsed(now, last) <= now - last
<1>1. /\ Second \in Nat \ {0} /\ MaxClock \in Nat
      /\ Word \in Nat /\ Word > MaxClock + 2 * Second
  BY BucketAssumption DEF BucketAssumption
<1>2. Word \in Nat \ {0} /\ now - last \in Int
  BY <1>1
<1>3. (now - last) % Word \in 0..(Word - 1)
  BY <1>2
<1>4. last <= now => (now - last) % Word = now - last
  <2>1. last <= now => now - last \in 0..(Word - 1)
    BY <1>1
  <2>2. \A n \in 0..(Word - 1) : n % Word = n
    BY <1>2
  <2> QED
    BY <2>1, <2>2
<1>5. (now - last) % Word \in Nat
  BY <1>3, <1>2
<1> QED
  BY <1>1, <1>2, <1>4, <1>5 DEF Elapsed, Least

StateRecord ==
  [exists : BOOLEAN, last : 0..MaxClock, bucket : [Bucket -> BucketRecord], packets_seen : Nat]

\* What a bucket is worth, in tokens of a tick.
Worth(x, b) == Second * x.tokens + Rate(b) * x.remainder

\* The refill of a packet, bucket by bucket.
LEMMA RefilledFacts ==
  ASSUME NEW s \in StateRecord, NEW now \in 0..MaxClock, NEW p \in Packet, NEW b \in Bucket,
         NEW x, x = s.bucket[b], NEW r, r = Refilled(s, now, p)[b],
         Divides(b) => Rate(b) * x.remainder < Second
  PROVE  /\ r \in BucketRecord
         /\ r.tokens <= x.tokens \/ r.tokens <= Burst(b, p)
         /\ Rate(b) # 0 => Worth(r, b) <= Worth(x, b) + Rate(b) * Elapsed(now, s.last) + Rounding(b)
         /\ Divides(b) =>
              /\ Rate(b) * r.remainder < Second
              /\ \A credit \in [Bucket -> Int] : credit[b] = Worth(x, b) =>
                   Worth(r, b) = Flow(credit, s, now, p)[b]
<1> DEFINE e == Elapsed(now, s.last)
<1>1. x \in BucketRecord /\ x.tokens \in Nat /\ x.remainder \in Nat
  BY DEF StateRecord, BucketRecord
<1>2. /\ Rate(b) \in Nat /\ Burst(b, p) \in Nat /\ Rounding(b) \in Nat
      /\ Divides(b) => Rounding(b) = 0 /\ Rate(b) # 0
  BY RuleTyped
<1>3. e \in 0..Second /\ Second \in Nat \ {0} /\ e \in Nat
  <2>1. s.last \in 0..MaxClock
    BY DEF StateRecord
  <2>2. Second \in Nat \ {0}
    BY BucketAssumption DEF BucketAssumption
  <2>3. e \in 0..Second
    BY <2>1, ElapsedTyped
  <2> HIDE DEF e
  <2> QED
    BY <2>2, <2>3
<1> HIDE DEF e
<1>4. PICK tok \in Nat, rem \in Nat, burst \in Nat, rate \in Nat, el \in 0..Second :
        tok = x.tokens /\ rem = x.remainder /\ burst = Burst(b, p) /\ rate = Rate(b) /\ el = e
  BY <1>1, <1>2, <1>3
<1>5. Worth(x, b) \in Nat /\ Rate(b) * e \in Nat
  <2>1. Second * tok \in Nat /\ rate * rem \in Nat /\ rate * el \in Nat
    BY <1>3, <1>4, MulMonotone
  <2> QED
    BY <2>1, <1>4 DEF Worth
<1>6. CASE e = 0
  <2>1. r = x /\ Rate(b) * e = 0
    BY <1>2, <1>6 DEF Refilled, e
  <2>2. \A credit \in [Bucket -> Int] : Flow(credit, s, now, p)[b] = credit[b]
    BY <1>6 DEF Flow, e
  <2>3. Worth(r, b) = Worth(x, b)
    BY <2>1
  <2> QED
    BY <2>1, <2>2, <2>3, <1>1, <1>2, <1>5 DEF e
<1>7. CASE e # 0
  <2>1. r = refill_bucket(tok, rem, burst, rate, el)
    BY <1>7, <1>4 DEF Refilled, e
  <2>2. \A credit \in [Bucket -> Int] :
          Flow(credit, s, now, p)[b] = Least(Second * Burst(b, p), credit[b] + Rate(b) * e)
    BY <1>7 DEF Flow, e
  <2>3. /\ r \in BucketRecord
        /\ r.tokens <= x.tokens \/ r.tokens <= Burst(b, p)
    <3>1. el \in Nat
      BY <1>3
    <3>2. /\ refill_bucket(tok, rem, burst, rate, el) \in BucketRecord
          /\ \/ refill_bucket(tok, rem, burst, rate, el).tokens <= tok
             \/ refill_bucket(tok, rem, burst, rate, el).tokens <= burst
      BY <3>1, RefillTyped
    <3> QED
      BY <3>2, <2>1, <1>4
  <2>4. ASSUME Divides(b)
        PROVE  /\ Rate(b) * r.remainder < Second
               /\ Worth(r, b) = Least(Second * Burst(b, p), Worth(x, b) + Rate(b) * e)
    <3>1. PICK ticks \in 1..Second : rate * ticks = Second
      BY <2>4, <1>4 DEF Divides
    <3>2. rate * rem < Second
      BY <2>4, <1>4
    <3>3. /\ Second * r.tokens + rate * r.remainder =
               Least(Second * burst, Second * tok + rate * rem + rate * el)
          /\ rate * r.remainder < Second
      BY <3>1, <3>2, <2>1, RefillExact
    <3> QED
      BY <3>3, <1>4 DEF Worth
  <2>5. ASSUME Rate(b) # 0 PROVE Worth(r, b) <= Worth(x, b) + Rate(b) * e + Rounding(b)
    <3>1. CASE Divides(b)
      <4>1. Second * Burst(b, p) \in Nat
        BY <1>2, <1>3, MulMonotone
      <4> QED
        BY <4>1, <3>1, <2>4, <1>2, <1>5 DEF Least
    <3>2. CASE ~Divides(b)
      <4>1. Rounding(b) = Rate(b) - 1
        BY <3>2, <2>5 DEF Rounding
      <4> QED
        <5>1. rate \in Nat \ {0} /\ el \in Nat
          BY <2>5, <1>3, <1>4
        <5>2. Second * r.tokens + rate * r.remainder <=
                Second * tok + rate * rem + rate * el + (rate - 1)
          BY <5>1, <2>1, RefillBound
        <5> QED
          BY <5>2, <4>1, <1>4 DEF Worth
    <3> QED
      BY <3>1, <3>2
  <2> QED
    BY <2>2, <2>3, <2>4, <2>5 DEF e
<1> QED
  BY <1>6, <1>7

-----------------------------------------------------------------------------
(* The invariant *)

BucketTypes ==
  /\ clock \in 0..MaxClock
  /\ cpu \in [CPU -> [at : {"idle", "lookup", "insert", "lock"}, now : 0..MaxClock, p : Packet]]
  /\ state \in [Key -> StateRecord]
  /\ since \in [Key -> 0..MaxClock]
  /\ start \in [Key -> [Bucket -> Nat]] /\ spent \in [Key -> [Bucket -> Nat]]
  /\ ideal \in [Key -> [Bucket -> Int]]

\* Nobody has a clock value of the future, and who is at the lock has a state to lock.
ClockInv ==
  /\ \A c \in CPU : /\ cpu[c].now <= clock
                    /\ cpu[c].at = "lock" => state[cpu[c].p.key].exists
  /\ \A k \in Key : state[k].last <= clock /\ since[k] <= clock

\* Of the buckets of a key: they are bounded, they are worth what they should, and
\* together with what was spent they do not exceed what has flowed in.
BucketOK(k, b) ==
  LET x == state[k].bucket[b] IN
  /\ state[k].exists => \E p \in Packet : x.tokens <= Burst(b, p)
  /\ Divides(b) => Rate(b) * x.remainder < Second
  /\ state[k].exists /\ Divides(b) => Worth(x, b) = ideal[k][b]
  /\ ~state[k].exists \/ Rate(b) = 0 => spent[k][b] = 0
  /\ state[k].exists /\ k \notin late =>
       /\ since[k] <= state[k].last
       /\ Rate(b) # 0 =>
            Worth(x, b) + Second * spent[k][b] <=
              Second * start[k][b] + Rate(b) * (state[k].last - since[k])
                + Rounding(b) * state[k].packets_seen

BucketInv ==
  /\ BucketTypes /\ ClockInv
  /\ \A k \in Key, b \in Bucket : BucketOK(k, b)

CpuRecord == [at : {"idle", "lookup", "insert", "lock"}, now : 0..MaxClock, p : Packet]

\* A CPU goes on without touching the map.
LEMMA CpuStep ==
  ASSUME BucketInv, NEW c \in CPU, NEW x \in CpuRecord, cpu' = [cpu EXCEPT ![c] = x],
         x.now <= clock, x.at = "lock" => state[x.p.key].exists,
         UNCHANGED <<clock, state, since, start, spent, ideal, late>>
  PROVE  BucketInv'
<1>1. BucketTypes'
  BY DEF BucketInv, BucketTypes, CpuRecord
<1>2. cpu'[c] = x /\ \A d \in CPU \ {c} : cpu'[d] = cpu[d]
  BY DEF BucketInv, BucketTypes
<1>3. ClockInv'
  BY <1>2 DEF BucketInv, ClockInv
<1>4. \A k \in Key, b \in Bucket : BucketOK(k, b)'
  BY DEF BucketInv, BucketOK
<1> QED
  BY <1>1, <1>3, <1>4 DEF BucketInv

LEMMA TickStep ==
  ASSUME BucketInv, Tick PROVE BucketInv'
<1>1. clock' = clock + 1 /\ clock' \in 0..MaxClock /\ clock \in 0..MaxClock
  BY BucketAssumption DEF Tick, BucketInv, BucketTypes, BucketAssumption
<1>2. BucketTypes'
  BY <1>1 DEF Tick, BucketInv, BucketTypes
<1>3. ClockInv'
  <2>1. \A c \in CPU : cpu[c].now \in 0..MaxClock
    BY DEF BucketInv, BucketTypes
  <2>2. \A k \in Key : state[k].last \in 0..MaxClock /\ since[k] \in 0..MaxClock
    BY DEF BucketInv, BucketTypes, StateRecord
  <2> QED
    BY <1>1, <2>1, <2>2, BucketAssumption DEF Tick, BucketInv, ClockInv, BucketAssumption
<1>4. \A k \in Key, b \in Bucket : BucketOK(k, b)'
  BY DEF Tick, BucketInv, BucketOK
<1> QED
  BY <1>2, <1>3, <1>4 DEF BucketInv

\* The locals after GoOn.
LEMMA Parks ==
  ASSUME BucketTypes, NEW c \in CPU, NEW at \in {"idle", "lookup", "insert", "lock"}
  PROVE  \E x \in CpuRecord :
           /\ x = Parked(at, cpu[c].now, cpu[c].p)
           /\ x.at = at /\ x.now = cpu[c].now /\ x.p = cpu[c].p
<1> DEFINE x == Parked(at, cpu[c].now, cpu[c].p)
<1>1. x \in CpuRecord /\ x.at = at /\ x.now = cpu[c].now /\ x.p = cpu[c].p
  BY DEF BucketTypes, Parked, CpuRecord
<1> HIDE DEF x
<1> QED
  BY <1>1 DEF x

LEMMA LocalSteps ==
  ASSUME BucketInv, NEW c \in CPU, Arrive(c) \/ LookupState(c) \/ InsertFails(c)
  PROVE  BucketInv'
<1>1. BucketTypes /\ clock \in 0..MaxClock
  BY DEF BucketInv, BucketTypes
<1>2. CASE Arrive(c)
  <2>1. PICK p \in Packet : cpu' = [cpu EXCEPT ![c] = Parked("lookup", clock, p)]
    BY <1>2 DEF Arrive
  <2>2. PICK x \in CpuRecord : x = Parked("lookup", clock, p)
    BY <1>1 DEF Parked, CpuRecord
  <2>3. x.at = "lookup" /\ x.now = clock
    BY <2>2 DEF Parked
  <2>4. x.now <= clock
    BY <2>3, <1>1, BucketAssumption DEF BucketAssumption
  <2> QED
    BY <2>1, <2>2, <2>3, <2>4, <1>2, CpuStep DEF Arrive
<1>3. CASE LookupState(c)
  <2>1. PICK at \in {"idle", "lookup", "insert", "lock"} :
          /\ at = IF state[cpu[c].p.key].exists THEN "lock" ELSE "insert"
    OBVIOUS
  <2>2. PICK x \in CpuRecord :
          /\ x = Parked(at, cpu[c].now, cpu[c].p)
          /\ x.at = at /\ x.now = cpu[c].now /\ x.p = cpu[c].p
    BY <1>1, Parks
  <2>3. cpu' = [cpu EXCEPT ![c] = x]
    BY <2>1, <2>2, <1>3 DEF LookupState, GoOn
  <2>4. x.now <= clock /\ (x.at = "lock" => state[x.p.key].exists)
    BY <2>1, <2>2 DEF BucketInv, ClockInv
  <2> QED
    BY <2>3, <2>4, <1>3, CpuStep DEF LookupState
<1>4. CASE InsertFails(c)
  <2>1. PICK at \in {"idle", "lookup", "insert", "lock"} :
          /\ at = IF state[cpu[c].p.key].exists THEN "lock" ELSE "idle"
    OBVIOUS
  <2>2. PICK x \in CpuRecord :
          /\ x = Parked(at, cpu[c].now, cpu[c].p)
          /\ x.at = at /\ x.now = cpu[c].now /\ x.p = cpu[c].p
    BY <1>1, Parks
  <2>3. cpu' = [cpu EXCEPT ![c] = x]
    BY <2>1, <2>2, <1>4 DEF InsertFails, GoOn
  <2>4. x.now <= clock /\ (x.at = "lock" => state[x.p.key].exists)
    BY <2>1, <2>2 DEF BucketInv, ClockInv
  <2> QED
    BY <2>3, <2>4, <1>4, CpuStep DEF InsertFails
<1> QED
  BY <1>2, <1>3, <1>4

\* A step that writes the state of one key, k, leaves the others alone.
LEMMA KeyStep ==
  ASSUME BucketInv, NEW c \in CPU, NEW x \in CpuRecord, cpu' = [cpu EXCEPT ![c] = x],
         x.now <= clock, NEW k \in Key, NEW s \in StateRecord, s.exists, s.last <= clock,
         state' = [state EXCEPT ![k] = s],
         x.at = "lock" => x.p.key = k,
         clock' = clock, BucketTypes',
         since'[k] <= clock,
         \A j \in Key \ {k} : /\ since'[j] = since[j] /\ start'[j] = start[j]
                              /\ spent'[j] = spent[j] /\ ideal'[j] = ideal[j]
                              /\ j \in late' <=> j \in late,
         \A b \in Bucket : BucketOK(k, b)'
  PROVE  BucketInv'
<1>1. cpu'[c] = x /\ \A d \in CPU \ {c} : cpu'[d] = cpu[d]
  BY DEF BucketInv, BucketTypes
<1>2. state'[k] = s /\ \A j \in Key \ {k} : state'[j] = state[j]
  BY DEF BucketInv, BucketTypes
<1>3. ClockInv'
  BY <1>1, <1>2 DEF BucketInv, ClockInv
<1>4. \A j \in Key \ {k}, b \in Bucket : BucketOK(j, b)'
  BY <1>2 DEF BucketInv, BucketOK
<1> QED
  BY <1>3, <1>4 DEF BucketInv

LEMMA InsertStateStep ==
  ASSUME BucketInv, NEW c \in CPU, InsertState(c) PROVE BucketInv'
<1>1. /\ BucketTypes /\ clock \in 0..MaxClock /\ cpu[c] \in CpuRecord
      /\ Second \in Nat \ {0} /\ MaxClock \in Nat
  BY BucketAssumption DEF BucketInv, BucketTypes, CpuRecord, BucketAssumption
<1>2. PICK p \in Packet, now \in 0..MaxClock : p = cpu[c].p /\ now = cpu[c].now /\ now <= clock
  BY <1>1 DEF CpuRecord, BucketInv, ClockInv
<1>3. PICK k \in Key : k = p.key
  BY BucketAssumption DEF BucketAssumption
<1>4. PICK x \in CpuRecord :
        /\ x = Parked("lock", cpu[c].now, cpu[c].p)
        /\ x.at = "lock" /\ x.now = cpu[c].now /\ x.p = cpu[c].p
  BY <1>1, Parks
<1>5. cpu' = [cpu EXCEPT ![c] = x]
  BY <1>4 DEF InsertState, GoOn
<1>6. \A b \in Bucket : /\ Burst(b, p) \in Nat /\ Rate(b) \in Nat /\ Rounding(b) \in Nat
                        /\ Second * Burst(b, p) \in Nat /\ Rate(b) * 0 = 0 /\ Second * 0 = 0
                        /\ Rounding(b) * 0 = 0
  BY <1>1, RuleTyped, MulMonotone
<1>7. PICK s \in StateRecord :
        /\ s = NewState(now, p) /\ s.exists /\ s.last = now /\ s.packets_seen = 0
        /\ \A b \in Bucket : s.bucket[b].tokens = Burst(b, p) /\ s.bucket[b].remainder = 0
  <2> DEFINE s == NewState(now, p)
  <2>1. \A b \in Bucket : [tokens |-> Burst(b, p), remainder |-> 0] \in BucketRecord
    BY <1>6 DEF BucketRecord
  <2>2. s \in StateRecord
    BY <2>1 DEF NewState, StateRecord
  <2>3. /\ s.exists /\ s.last = now /\ s.packets_seen = 0
        /\ \A b \in Bucket : s.bucket[b].tokens = Burst(b, p) /\ s.bucket[b].remainder = 0
    BY DEF NewState
  <2> HIDE DEF s
  <2> QED
    BY <2>2, <2>3 DEF s
<1>8. /\ state' = [state EXCEPT ![k] = s]
      /\ since' = [since EXCEPT ![k] = now]
      /\ start' = [start EXCEPT ![k] = [b \in Bucket |-> s.bucket[b].tokens]]
      /\ ideal' = [ideal EXCEPT ![k] = [b \in Bucket |-> Second * s.bucket[b].tokens]]
      /\ UNCHANGED <<clock, spent, late>> /\ ~state[k].exists
  BY <1>2, <1>3, <1>7 DEF InsertState, Insert
<1>9. /\ state'[k] = s /\ since'[k] = now /\ spent'[k] = spent[k]
      /\ \A b \in Bucket : start'[k][b] = Burst(b, p) /\ ideal'[k][b] = Second * Burst(b, p)
  BY <1>1, <1>7, <1>8 DEF BucketTypes
<1>10. BucketTypes'
  <2>1. /\ [b \in Bucket |-> s.bucket[b].tokens] \in [Bucket -> Nat]
        /\ [b \in Bucket |-> Second * s.bucket[b].tokens] \in [Bucket -> Int]
    BY <1>6, <1>7
  <2>2. start' \in [Key -> [Bucket -> Nat]] /\ ideal' \in [Key -> [Bucket -> Int]]
    BY <2>1, <1>1, <1>8 DEF BucketTypes
  <2>3. state' \in [Key -> StateRecord] /\ since' \in [Key -> 0..MaxClock]
    BY <1>1, <1>8 DEF BucketTypes
  <2>4. cpu' \in [CPU -> CpuRecord]
    BY <1>1, <1>5 DEF BucketTypes, CpuRecord
  <2> QED
    BY <2>2, <2>3, <2>4, <1>1, <1>8 DEF BucketTypes, CpuRecord
<1>11. \A b \in Bucket : BucketOK(k, b)'
  <2> TAKE b \in Bucket
  <2>1. spent'[k][b] = 0
    BY <1>8, <1>9 DEF BucketInv, BucketOK
  <2>2. Worth(s.bucket[b], b) = Second * Burst(b, p)
    BY <1>6, <1>7 DEF Worth
  <2>3. now - now = 0 /\ now <= now /\ Burst(b, p) <= Burst(b, p)
    BY <1>1, <1>6
  <2> QED
    BY <2>1, <2>2, <2>3, <1>1, <1>6, <1>7, <1>9 DEF BucketOK, Worth
<1>12. x.now <= clock /\ s.last <= clock /\ since'[k] <= clock /\ x.p.key = k
  BY <1>2, <1>3, <1>4, <1>7, <1>9
<1>13. \A j \in Key \ {k} : /\ since'[j] = since[j] /\ start'[j] = start[j]
                            /\ spent'[j] = spent[j] /\ ideal'[j] = ideal[j]
                            /\ j \in late' <=> j \in late
  BY <1>1, <1>8 DEF BucketTypes
<1> QED
  BY <1>5, <1>7, <1>8, <1>10, <1>11, <1>12, <1>13, KeyStep

\* What a packet takes is there.
LEMMA TakeFits ==
  ASSUME NEW B \in [Bucket -> BucketRecord], NEW p \in Packet, NEW b \in Bucket,
         NEW take, take = IF ~over_limit(B, p) THEN Taken(b, p) ELSE 0
  PROVE  /\ take \in Nat /\ take <= B[b].tokens
         /\ Rate(b) = 0 => take = 0
<1>1. B[b].tokens \in Nat
  BY DEF BucketRecord
<1> QED
  BY <1>1, RuleTyped DEF over_limit, Taken

\* The locked section: a bucket is refilled and pays, and the account of the key
\* grows by what has flowed in.
LEMMA DecideStep ==
  ASSUME BucketInv, NEW c \in CPU, Decide(c) PROVE BucketInv'
<1>1. /\ BucketTypes /\ clock \in 0..MaxClock /\ cpu[c] \in CpuRecord
      /\ Second \in Nat \ {0} /\ MaxClock \in Nat
  BY BucketAssumption DEF BucketInv, BucketTypes, CpuRecord, BucketAssumption
<1>2. PICK p \in Packet, now \in 0..MaxClock : p = cpu[c].p /\ now = cpu[c].now /\ now <= clock
  BY <1>1 DEF CpuRecord, BucketInv, ClockInv
<1>3. PICK k \in Key : k = p.key
  BY BucketAssumption DEF BucketAssumption
<1>4. PICK x \in CpuRecord :
        /\ x = Parked("idle", cpu[c].now, cpu[c].p)
        /\ x.at = "idle" /\ x.now = cpu[c].now /\ x.p = cpu[c].p
  BY <1>1, Parks
<1>5. PICK s \in StateRecord :
        /\ s = state[k] /\ s.exists /\ s.last \in 0..MaxClock /\ s.packets_seen \in Nat
  BY <1>1, <1>2, <1>3 DEF BucketTypes, StateRecord, BucketInv, ClockInv, Decide
<1>6. \A b \in Bucket : BucketOK(k, b)
  BY DEF BucketInv
<1>7. PICK B : B = Refilled(s, now, p)
  OBVIOUS
<1>8. ASSUME NEW b \in Bucket
      PROVE  /\ B[b] \in BucketRecord
             /\ B[b].tokens <= s.bucket[b].tokens \/ B[b].tokens <= Burst(b, p)
             /\ Rate(b) # 0 => Worth(B[b], b) <=
                  Worth(s.bucket[b], b) + Rate(b) * Elapsed(now, s.last) + Rounding(b)
             /\ Divides(b) =>
                  /\ Rate(b) * B[b].remainder < Second
                  /\ \A credit \in [Bucket -> Int] : credit[b] = Worth(s.bucket[b], b) =>
                       Worth(B[b], b) = Flow(credit, s, now, p)[b]
  <2>1. Divides(b) => Rate(b) * s.bucket[b].remainder < Second
    BY <1>5, <1>6 DEF BucketOK
  <2> QED
    BY <2>1, <1>7, RefilledFacts
<1>9. B \in [Bucket -> BucketRecord]
  <2>1. DOMAIN B = Bucket /\ B = [b \in Bucket |-> B[b]]
    BY <1>5, <1>7 DEF Refilled, StateRecord
  <2> QED
    BY <2>1, <1>8
<1>10. PICK take \in [Bucket -> Nat] :
         \A b \in Bucket : /\ take[b] = IF ~over_limit(B, p) THEN Taken(b, p) ELSE 0
                           /\ take[b] <= B[b].tokens /\ (Rate(b) = 0 => take[b] = 0)
  <2> DEFINE f == [b \in Bucket |-> IF ~over_limit(B, p) THEN Taken(b, p) ELSE 0]
  <2>1. ASSUME NEW b \in Bucket
        PROVE f[b] \in Nat /\ f[b] <= B[b].tokens /\ (Rate(b) = 0 => f[b] = 0)
    BY <1>9, TakeFits
  <2> QED
    BY <2>1
<1>11. PICK y :
         y = [exists |-> TRUE, last |-> now,
              bucket |-> [b \in Bucket |-> [tokens |-> B[b].tokens - take[b],
                                            remainder |-> B[b].remainder]],
              packets_seen |-> s.packets_seen + 1]
  OBVIOUS
<1>12. /\ cpu' = [cpu EXCEPT ![c] = x]
       /\ state' = [state EXCEPT ![k] = y]
       /\ spent' = [spent EXCEPT ![k] = [b \in Bucket |-> spent[k][b] + take[b]]]
       /\ ideal' = [ideal EXCEPT ![k] =
            [b \in Bucket |-> Flow(ideal[k], s, now, p)[b] - Second * take[b]]]
       /\ late' = IF now < s.last THEN late \cup {k} ELSE late
       /\ UNCHANGED <<clock, since, start>>
  <2>1. state' = [state EXCEPT ![k] = y]
    <3> DEFINE left == [b \in Bucket |->
                 [tokens |-> B[b].tokens - (IF ~over_limit(B, p) THEN Taken(b, p) ELSE 0),
                  remainder |-> B[b].remainder]]
    <3>1. state' = [state EXCEPT ![k] =
             [exists |-> TRUE, last |-> now, bucket |-> left, packets_seen |-> s.packets_seen + 1]]
      BY <1>2, <1>3, <1>5, <1>7 DEF Decide
    <3>2. left = [b \in Bucket |-> [tokens |-> B[b].tokens - take[b],
                                    remainder |-> B[b].remainder]]
      BY <1>10
    <3> HIDE DEF left
    <3> QED
      BY <3>1, <3>2, <1>11
  <2>2. spent' = [spent EXCEPT ![k] = [b \in Bucket |-> spent[k][b] + take[b]]]
    BY <1>2, <1>3, <1>5, <1>7, <1>10 DEF Decide
  <2>3. ideal' = [ideal EXCEPT ![k] =
            [b \in Bucket |-> Flow(ideal[k], s, now, p)[b] - Second * take[b]]]
    BY <1>2, <1>3, <1>5, <1>7, <1>10 DEF Decide
  <2> QED
    BY <2>1, <2>2, <2>3, <1>2, <1>3, <1>4, <1>5 DEF Decide, GoOn
<1>13. /\ y \in StateRecord /\ y.exists /\ y.last = now /\ y.packets_seen = s.packets_seen + 1
       /\ \A b \in Bucket : /\ y.bucket[b].tokens = B[b].tokens - take[b]
                             /\ y.bucket[b].remainder = B[b].remainder
  <2>1. \A b \in Bucket :
          [tokens |-> B[b].tokens - take[b], remainder |-> B[b].remainder] \in BucketRecord
    <3> TAKE b \in Bucket
    <3>1. B[b].tokens \in Nat /\ B[b].remainder \in Nat /\ take[b] \in Nat
      BY <1>9 DEF BucketRecord
    <3>2. B[b].tokens - take[b] \in Nat
      BY <3>1, <1>10
    <3> QED
      BY <3>1, <3>2 DEF BucketRecord
  <2>2. s.packets_seen + 1 \in Nat
    BY <1>5
  <2>3. y \in StateRecord
    BY <2>1, <2>2, <1>11 DEF StateRecord
  <2> QED
    BY <2>3, <1>11
<1>14. /\ state'[k] = y /\ since'[k] = since[k] /\ start'[k] = start[k]
       /\ \A b \in Bucket : /\ spent'[k][b] = spent[k][b] + take[b]
                             /\ ideal'[k][b] = Flow(ideal[k], s, now, p)[b] - Second * take[b]
  BY <1>1, <1>12 DEF BucketTypes
<1>15. BucketTypes'
  <2>1. [b \in Bucket |-> spent[k][b] + take[b]] \in [Bucket -> Nat]
    BY <1>1 DEF BucketTypes
  <2>2. spent' \in [Key -> [Bucket -> Nat]]
    BY <2>1, <1>1, <1>12 DEF BucketTypes
  <2>3. ASSUME NEW b \in Bucket PROVE Flow(ideal[k], s, now, p)[b] - Second * take[b] \in Int
    <3>1. ideal[k][b] \in Int /\ Elapsed(now, s.last) \in Nat /\ take[b] \in Nat
      BY <1>1, <1>5, ElapsedTyped DEF BucketTypes
    <3>2. Burst(b, p) \in Nat /\ Rate(b) \in Nat
      BY RuleTyped
    <3>3. /\ Second * Burst(b, p) \in Int /\ Rate(b) * Elapsed(now, s.last) \in Int
          /\ Second * take[b] \in Int
      BY <3>1, <3>2, <1>1, MulDistributes
    <3>4. Flow(ideal[k], s, now, p)[b] \in Int
      BY <3>1, <3>3 DEF Flow, Least
    <3> QED
      BY <3>3, <3>4
  <2>4. [b \in Bucket |-> Flow(ideal[k], s, now, p)[b] - Second * take[b]] \in [Bucket -> Int]
    BY <2>3
  <2>5. ideal' \in [Key -> [Bucket -> Int]]
    BY <2>4, <1>1, <1>12 DEF BucketTypes
  <2>6. state' \in [Key -> StateRecord] /\ cpu' \in [CPU -> CpuRecord]
    BY <1>1, <1>12, <1>13 DEF BucketTypes, CpuRecord
  <2> QED
    BY <2>2, <2>5, <2>6, <1>1, <1>12 DEF BucketTypes, CpuRecord
<1>16. ASSUME NEW b \in Bucket PROVE BucketOK(k, b)'
  <2>1. PICK tok \in Nat, rem \in Nat, pay \in Nat :
          /\ tok = B[b].tokens /\ rem = B[b].remainder /\ pay = take[b] /\ pay <= tok
    BY <1>9, <1>10 DEF BucketRecord
  <2>2. PICK rate \in Nat, rounding \in Nat : rate = Rate(b) /\ rounding = Rounding(b)
    BY RuleTyped
  <2>3. PICK old \in Nat : old = Worth(s.bucket[b], b)
    <3>1. s.bucket[b].tokens \in Nat /\ s.bucket[b].remainder \in Nat
      BY DEF StateRecord, BucketRecord
    <3>2. Second * s.bucket[b].tokens \in Nat /\ rate * s.bucket[b].remainder \in Nat
      BY <3>1, <1>1, MulMonotone
    <3> QED
      BY <3>2, <2>2 DEF Worth
  <2>4. /\ y.bucket[b].tokens = tok - pay /\ y.bucket[b].remainder = rem
        /\ Second * (tok - pay) = Second * tok - Second * pay
        /\ Second * tok \in Nat /\ Second * pay \in Nat /\ rate * rem \in Nat
    <3>1. y.bucket[b].tokens = tok - pay /\ y.bucket[b].remainder = rem
      BY <2>1, <1>13
    <3>2. Second * (tok - pay) = Second * tok - Second * pay
      BY <1>1, MulDistributes
    <3>3. Second * tok \in Nat /\ Second * pay \in Nat
      BY <1>1, MulMonotone
    <3>4. rate * rem \in Nat
      BY MulMonotone
    <3> QED
      BY <3>1, <3>2, <3>3, <3>4
  <2>5. /\ Worth(B[b], b) = Second * tok + rate * rem
        /\ Worth(y.bucket[b], b) = Worth(B[b], b) - Second * pay
    BY <2>1, <2>2, <2>4 DEF Worth
  <2>6. \E q \in Packet : y.bucket[b].tokens <= Burst(b, q)
    <3>1. PICK q \in Packet : s.bucket[b].tokens <= Burst(b, q)
      BY <1>5, <1>6 DEF BucketOK
    <3>2. s.bucket[b].tokens \in Nat /\ Burst(b, q) \in Nat /\ Burst(b, p) \in Nat
      BY RuleTyped DEF StateRecord, BucketRecord
    <3>3. tok <= s.bucket[b].tokens \/ tok <= Burst(b, p)
      BY <2>1, <1>8
    <3>4. y.bucket[b].tokens <= Burst(b, q) \/ y.bucket[b].tokens <= Burst(b, p)
      BY <3>1, <3>2, <3>3, <2>1, <2>4
    <3> QED
      BY <3>4
  <2>7. Divides(b) => /\ Rate(b) * y.bucket[b].remainder < Second
                      /\ Worth(y.bucket[b], b) = ideal'[k][b]
    <3> HAVE Divides(b)
    <3>1. ideal[k] \in [Bucket -> Int] /\ ideal[k][b] = Worth(s.bucket[b], b)
      BY <1>1, <1>5, <1>6 DEF BucketTypes, BucketOK
    <3>2. Worth(B[b], b) = Flow(ideal[k], s, now, p)[b]
      BY <3>1, <1>8
    <3>3. Rate(b) * B[b].remainder < Second
      BY <1>8
    <3> QED
      BY <3>2, <3>3, <2>1, <2>4, <2>5, <1>14
  <2>8. Rate(b) = 0 => spent'[k][b] = 0
    BY <1>6, <1>10, <1>14 DEF BucketOK
  <2>9. ASSUME k \notin late'
        PROVE  /\ since[k] <= now
               /\ Rate(b) # 0 =>
                    Worth(y.bucket[b], b) + Second * spent'[k][b] <=
                      Second * start[k][b] + Rate(b) * (now - since[k])
                        + Rounding(b) * y.packets_seen
    <3>1. k \notin late /\ s.last <= now
      BY <2>9, <1>1, <1>5, <1>12
    <3>2. PICK a \in 0..MaxClock, l \in 0..MaxClock, e \in Nat, n \in Nat :
            a = since[k] /\ l = s.last /\ e = Elapsed(now, s.last) /\ n = s.packets_seen
      <4>1. since[k] \in 0..MaxClock
        BY <1>1 DEF BucketTypes
      <4>2. Elapsed(now, s.last) \in 0..Second
        BY <1>5, ElapsedTyped
      <4>3. Elapsed(now, s.last) \in Nat
        BY <4>2, <1>1
      <4> QED
        BY <4>1, <4>3, <1>5
    <3>3. a <= l /\ l <= now /\ e <= now - l
      BY <3>1, <3>2, <1>5, <1>6, ElapsedTyped DEF BucketOK
    <3>4. since[k] <= now
      BY <3>2, <3>3, <1>1
    <3>5. ASSUME Rate(b) # 0
          PROVE  Worth(y.bucket[b], b) + Second * spent'[k][b] <=
                   Second * start[k][b] + Rate(b) * (now - since[k])
                     + Rounding(b) * y.packets_seen
      <4>1. PICK first \in Nat, gone \in Nat : first = start[k][b] /\ gone = spent[k][b]
        BY <1>1 DEF BucketTypes
      <4>2. old + Second * gone <= Second * first + rate * (l - a) + rounding * n
        BY <4>1, <3>1, <3>2, <3>5, <2>2, <2>3, <1>5, <1>6 DEF BucketOK
      <4>3. Second * tok + rate * rem <= old + rate * e + rounding
        BY <3>2, <3>5, <2>2, <2>3, <2>5, <1>8
      <4>4. /\ rate * e <= rate * (now - l) /\ rate * e \in Nat
            /\ rate * (now - a) = rate * (l - a) + rate * (now - l)
            /\ rate * (l - a) \in Nat /\ rate * (now - l) \in Nat
        <5>1. PICK u \in Nat, v \in Nat : u = l - a /\ v = now - l /\ now - a = u + v
          BY <3>3, <1>1
        <5>2. rate * e <= rate * v /\ rate * e \in Nat
          BY <5>1, <3>3, MulMonotone
        <5>3. rate * (u + v) = rate * u + rate * v /\ rate * u \in Nat /\ rate * v \in Nat
          BY <5>1, MulDistributes, MulMonotone
        <5> QED
          BY <5>1, <5>2, <5>3
      <4>5. /\ rounding * (n + 1) = rounding * n + rounding /\ rounding * n \in Nat
            /\ Second * (gone + pay) = Second * gone + Second * pay
            /\ Second * gone \in Nat /\ Second * first \in Nat
        BY <1>1, MulDistributes, MulMonotone
      <4>7. spent'[k][b] = gone + pay /\ y.packets_seen = n + 1
        BY <4>1, <3>2, <2>1, <1>13, <1>14
      <4>8. Worth(y.bucket[b], b) = (Second * tok + rate * rem) - Second * pay
        <5>1. PICK w : w = Worth(B[b], b)
          OBVIOUS
        <5>2. w = Second * tok + rate * rem /\ Worth(y.bucket[b], b) = w - Second * pay
          BY <5>1, <2>5
        <5> QED
          BY <5>2
      <4>9. /\ Second * spent'[k][b] = Second * (gone + pay)
            /\ Second * start[k][b] = Second * first
            /\ Rate(b) * (now - since[k]) = rate * (now - a)
            /\ Rounding(b) * y.packets_seen = rounding * (n + 1)
        BY <4>1, <4>7, <3>2, <2>2
      <4>10. PICK w \in Int, out \in Int, in \in Int, flow \in Int, slack \in Int :
               /\ w = (Second * tok + rate * rem) - Second * pay
               /\ out = Second * (gone + pay) /\ in = Second * first
               /\ flow = rate * (now - a) /\ slack = rounding * (n + 1)
        BY <4>4, <4>5, <2>4
      <4>11. w + out <= in + flow + slack
        <5>1. PICK st \in Nat, sp \in Nat, rr \in Nat, sg \in Nat, ra \in Nat, rn \in Nat,
                   re \in Nat, rv \in Nat :
                /\ st = Second * tok /\ sp = Second * pay /\ rr = rate * rem /\ sg = Second * gone
                /\ ra = rate * (l - a) /\ rn = rounding * n
                /\ re = rate * e /\ rv = rate * (now - l)
          BY <4>4, <4>5, <2>4
        <5>2. w = (st + rr) - sp /\ out = sg + sp /\ flow = ra + rv /\ slack = rn + rounding
          BY <5>1, <4>4, <4>5, <4>10
        <5>3. old + sg <= in + ra + rn
          BY <5>1, <4>2, <4>10
        <5>4. st + rr <= old + re + rounding /\ re <= rv
          BY <5>1, <4>3, <4>4
        <5> QED
          BY <5>2, <5>3, <5>4
      <4>12. /\ w = Worth(y.bucket[b], b) /\ out = Second * spent'[k][b]
             /\ in = Second * start[k][b] /\ flow = Rate(b) * (now - since[k])
             /\ slack = Rounding(b) * y.packets_seen
        BY <4>8, <4>9, <4>10
      <4> QED
        BY <4>11, <4>12
    <3> QED
      BY <3>4, <3>5
  <2> QED
    BY <2>6, <2>7, <2>8, <2>9, <1>13, <1>14 DEF BucketOK
<1>17. x.now <= clock /\ y.last <= clock /\ since'[k] <= clock
  BY <1>2, <1>4, <1>13, <1>14 DEF BucketInv, ClockInv
<1>18. \A j \in Key \ {k} : /\ since'[j] = since[j] /\ start'[j] = start[j]
                            /\ spent'[j] = spent[j] /\ ideal'[j] = ideal[j]
                            /\ j \in late' <=> j \in late
  BY <1>1, <1>12 DEF BucketTypes
<1> QED
  BY <1>4, <1>12, <1>13, <1>15, <1>16, <1>17, <1>18, KeyStep

LEMMA BucketInit ==
  ASSUME BInit PROVE BucketInv
<1>1. /\ Second \in Nat \ {0} /\ MaxClock \in Nat /\ 0 \in 0..MaxClock
  BY BucketAssumption DEF BucketAssumption
<1>2. PICK p \in Packet : cpu = [c \in CPU |-> Parked("idle", 0, p)]
  BY DEF BInit
<1>3. /\ NoState \in StateRecord /\ ~NoState.exists /\ NoState.last = 0
      /\ \A b \in Bucket : NoState.bucket[b].remainder = 0
  <2>1. [tokens |-> 0, remainder |-> 0] \in BucketRecord
    BY DEF BucketRecord
  <2> QED
    BY <2>1, <1>1 DEF NoState, StateRecord
<1>4. Parked("idle", 0, p) \in CpuRecord /\ Parked("idle", 0, p).at = "idle"
      /\ Parked("idle", 0, p).now = 0
  BY <1>1 DEF Parked, CpuRecord
<1>5. BucketTypes
  BY <1>1, <1>2, <1>3, <1>4 DEF BInit, BucketTypes, CpuRecord
<1>6. ClockInv
  BY <1>1, <1>2, <1>3, <1>4 DEF BInit, ClockInv
<1>7. ASSUME NEW k \in Key, NEW b \in Bucket PROVE BucketOK(k, b)
  <2>1. state[k] = NoState /\ spent[k][b] = 0
    BY DEF BInit
  <2>2. Rate(b) \in Nat
    BY RateTyped
  <2>3. Rate(b) * 0 = 0
    BY <2>2
  <2> QED
    BY <2>1, <2>3, <1>1, <1>3 DEF BucketOK
<1> QED
  BY <1>5, <1>6, <1>7 DEF BucketInv

LEMMA BucketStep ==
  ASSUME BucketInv, [BNext]_bvars PROVE BucketInv'
<1>1. CASE Tick
  BY <1>1, TickStep
<1>2. ASSUME NEW c \in CPU, Arrive(c) \/ LookupState(c) \/ InsertFails(c) PROVE BucketInv'
  BY <1>2, LocalSteps
<1>3. ASSUME NEW c \in CPU, InsertState(c) PROVE BucketInv'
  BY <1>3, InsertStateStep
<1>4. ASSUME NEW c \in CPU, Decide(c) PROVE BucketInv'
  BY <1>4, DecideStep
<1>5. CASE UNCHANGED bvars
  BY <1>5 DEF bvars, BucketInv, BucketTypes, ClockInv, BucketOK
<1> QED
  BY <1>1, <1>2, <1>3, <1>4, <1>5 DEF BNext

-----------------------------------------------------------------------------
(* Theorems *)

\* The invariant holds at every step: the types of the map and of the CPUs, the order
\* of the clock values, and the account of every bucket (xdp_data_plane.bpf.c:586-751).
THEOREM BucketInvariance == BSpec => []BucketInv
<1>1. BInit => BucketInv
  BY BucketInit
<1>2. BucketInv /\ [BNext]_bvars => BucketInv'
  BY BucketStep
<1> QED
  BY <1>1, <1>2, PTL DEF BSpec

\* No subtraction of the locked section wraps, and no bucket exceeds the burst of some
\* packet (xdp_data_plane.bpf.c:719-748).
THEOREM TokensAreBounded == BSpec => []TokensBounded
<1>1. BucketInv => TokensBounded
  <2> SUFFICES ASSUME BucketInv, NEW k \in Key, NEW b \in Bucket
               PROVE  /\ state[k].bucket[b].tokens >= 0
                      /\ state[k].exists =>
                           \E p \in Packet : state[k].bucket[b].tokens <= Burst(b, p)
    BY DEF TokensBounded
  <2>1. state[k].bucket[b].tokens \in Nat
    BY DEF BucketInv, BucketTypes, StateRecord, BucketRecord
  <2>2. BucketOK(k, b)
    BY DEF BucketInv
  <2> QED
    BY <2>1, <2>2 DEF BucketOK
<1> QED
  BY <1>1, BucketInvariance, PTL

\* With a threshold that divides a second, the integer bucket and its remainder are the
\* continuous bucket at every step (xdp_data_plane.bpf.c:586-629).
THEOREM RefillIsExact == BSpec => []ExactRefill
<1>1. BucketInv => ExactRefill
  BY DEF BucketInv, BucketOK, ExactRefill, Worth
<1> QED
  BY <1>1, BucketInvariance, PTL

\* A key whose lock is taken in the order of the clock values lets through no more than
\* its burst and its threshold allow, up to the rounding of one tick per packet
\* (xdp_data_plane.bpf.c:657-751).
THEOREM RateIsKept == BSpec => []RateConformsInOrder
<1>1. BucketInv => RateConformsInOrder
  <2> SUFFICES ASSUME BucketInv, NEW k \in Key \ late, NEW b \in Bucket
               PROVE  Second * spent[k][b] <=
                        Second * start[k][b] + Rate(b) * (clock - since[k])
                          + Rounding(b) * state[k].packets_seen
    BY DEF RateConformsInOrder, Conforms
  <2>1. /\ Second \in Nat \ {0} /\ MaxClock \in Nat
        /\ clock \in 0..MaxClock /\ state[k] \in StateRecord /\ since[k] \in 0..MaxClock
        /\ since[k] <= clock /\ state[k].last <= clock
    BY BucketAssumption DEF BucketAssumption, BucketInv, BucketTypes, ClockInv
  <2>2. PICK rate \in Nat, rounding \in Nat : rate = Rate(b) /\ rounding = Rounding(b)
    <3>1. Rate(b) \in Nat /\ Rounding(b) \in Nat
      <4>1. Rate(b) \in Nat
        BY RateTyped
      <4> QED
        BY <4>1 DEF Rounding
    <3> QED
      BY <3>1
  <2>3. PICK first \in Nat, gone \in Nat, n \in Nat, age \in Nat :
          /\ first = start[k][b] /\ gone = spent[k][b] /\ n = state[k].packets_seen
          /\ age = clock - since[k]
    <3>1. start[k][b] \in Nat /\ spent[k][b] \in Nat
      BY DEF BucketInv, BucketTypes
    <3>2. state[k].packets_seen \in Nat /\ clock - since[k] \in Nat
      BY <2>1 DEF StateRecord
    <3> QED
      BY <3>1, <3>2
  <2>4. /\ Second * first \in Nat /\ Second * gone \in Nat /\ rate * age \in Nat
        /\ rounding * n \in Nat
    BY <2>1, MulMonotone
  <2>5. BucketOK(k, b)
    BY DEF BucketInv
  <2>6. Second * gone <= Second * first + rate * age + rounding * n
    <3>1. CASE ~state[k].exists \/ Rate(b) = 0
      <4>1. gone = 0
        BY <3>1, <2>3, <2>5 DEF BucketOK
      <4>2. Second * 0 = 0
        BY <2>1
      <4> QED
        BY <4>1, <4>2, <2>4
    <3>2. CASE state[k].exists /\ Rate(b) # 0
      <4>1. PICK tok \in Nat, rem \in Nat, v \in Nat :
              /\ tok = state[k].bucket[b].tokens /\ rem = state[k].bucket[b].remainder
              /\ v = state[k].last - since[k] /\ v <= age
        <5>1. state[k].bucket[b].tokens \in Nat /\ state[k].bucket[b].remainder \in Nat
          BY <2>1 DEF StateRecord, BucketRecord
        <5>2. since[k] <= state[k].last /\ state[k].last \in 0..MaxClock
          BY <3>2, <2>1, <2>5 DEF BucketOK, StateRecord
        <5>3. state[k].last - since[k] \in Nat /\ state[k].last - since[k] <= age
          BY <5>2, <2>1, <2>3
        <5> QED
          BY <5>1, <5>3
      <4>2. Second * tok \in Nat /\ rate * rem \in Nat /\ rate * v \in Nat
        BY <2>1, MulMonotone
      <4>3. (Second * tok + rate * rem) + Second * gone <= Second * first + rate * v + rounding * n
        BY <4>1, <3>2, <2>2, <2>3, <2>5 DEF BucketOK, Worth
      <4>4. rate * v <= rate * age
        BY <4>1, MulMonotone
      <4> QED
        BY <4>2, <4>3, <4>4, <2>4
    <3> QED
      BY <3>1, <3>2
  <2> QED
    BY <2>6, <2>2, <2>3
<1> QED
  BY <1>1, BucketInvariance, PTL

\* The state of a key is created once and its count never falls: BPF_NOEXIST keeps two
\* CPUs that meet a new key from resetting one another (xdp_data_plane.bpf.c:679-693).
THEOREM StateIsKept == BSpec => StateKept
<1>1. ASSUME BucketInv, [BNext]_bvars, NEW k \in Key, state[k].exists
      PROVE  state'[k].exists /\ state'[k].packets_seen >= state[k].packets_seen
  <2>1. state \in [Key -> StateRecord] /\ state[k].packets_seen \in Nat
    <3>1. state \in [Key -> StateRecord]
      BY <1>1 DEF BucketInv, BucketTypes
    <3> QED
      BY <3>1 DEF StateRecord
  <2>2. CASE UNCHANGED state
    BY <2>1, <2>2, <1>1
  <2>3. ASSUME NEW c \in CPU, InsertState(c)
        PROVE  state'[k] = state[k]
    BY <2>1, <2>3, <1>1 DEF InsertState, Insert
  <2>4. ASSUME NEW c \in CPU, Decide(c)
        PROVE  \/ state'[k] = state[k]
               \/ state'[k].exists /\ state'[k].packets_seen = state[k].packets_seen + 1
    BY <2>1, <2>4 DEF Decide
  <2> QED
    BY <2>1, <2>2, <2>3, <2>4, <1>1
    DEF BNext, bvars, Tick, Arrive, LookupState, InsertFails
<1>2. BucketInv /\ [BNext]_bvars =>
        [\A k \in Key : state[k].exists =>
           /\ state'[k].exists
           /\ state'[k].packets_seen >= state[k].packets_seen]_bvars
  BY <1>1
<1> QED
  BY <1>2, BucketInvariance, PTL DEF BSpec, StateKept
=============================================================================
