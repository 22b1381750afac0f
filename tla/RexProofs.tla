------------------------------ MODULE RexProofs ------------------------------
(***************************************************************************)
(* Proofs about REX (modules RexReturns and Rex), for any users, amounts,  *)
(* fees, intervals and times.                                              *)
(***************************************************************************)
EXTENDS Rex, SumTheorems, SequenceTheorems

-----------------------------------------------------------------------------
(* Sums.                                                                   *)

\* A table of multiples has the multiple of the sum.
LEMMA SumOfScale ==
  ASSUME NEW S, IsFiniteSet(S), NEW f, NEW g, NEW c \in Int,
         \A x \in S : f[x] \in Int /\ g[x] = f[x] * c
  PROVE  SumOf(g, S) = SumOf(f, S) * c
<1> DEFINE G == {B \in SUBSET S : SumOf(g, B) = SumOf(f, B) * c}
<1>1. {} \in G
  BY SumOfNone
<1>2. ASSUME NEW B \in SUBSET S, NEW a \in S \ B, B \in G PROVE B \cup {a} \in G
  <2>1. IsFiniteSet(B)
    BY FS_Subset
  <2>2. \A x \in B \cup {a} : f[x] \in Int /\ g[x] \in Int
    OBVIOUS
  <2>3. SumOf(f, B) \in Int /\ SumOf(f, B \cup {a}) = SumOf(f, B) + f[a]
    BY <2>1, <2>2, SumOfOneMore
  <2>4. SumOf(g, B \cup {a}) = SumOf(g, B) + g[a]
    BY <2>1, <2>2, SumOfOneMore
  <2>5. f[a] \in Int /\ g[a] = f[a] * c /\ SumOf(g, B) = SumOf(f, B) * c
    BY <1>2
  <2>6. (SumOf(f, B) + f[a]) * c = SumOf(f, B) * c + f[a] * c
    BY <2>3, <2>5, Distrib
  <2>7. SumOf(g, B \cup {a}) = SumOf(f, B \cup {a}) * c
    BY <2>3, <2>4, <2>5, <2>6
  <2> QED
    BY <2>7
<1>3. S \in G
  <2> HIDE DEF G
  <2> QED BY <1>1, <1>2, SubsetInduction
<1> QED
  BY <1>3

\* The sum of a table, as the sum over its keys.
LEMMA SumIs ==
  ASSUME NEW D, NEW f, DOMAIN f = D
  PROVE  Total(f) = SumOf(f, D)
BY DEF Total

-----------------------------------------------------------------------------
(* Times that are whole intervals.                                         *)

Idx(t)   == t \div dist_interval
Whole(t) == t \in Nat /\ t = Idx(t) * dist_interval

\* A product by the interval divides exactly.
LEMMA ExactDiv ==
  ASSUME NEW k \in Nat, NEW d \in Nat \ {0}
  PROVE  (k * d) \div d = k
<1> DEFINE q == (k * d) \div d
           r == (k * d) % d
<1>0. k * d \in Nat /\ k * d = d * k
  BY Distrib, MulMono
<1>1. q \in Nat /\ r \in 0..(d - 1) /\ k * d = q * d + r
  BY <1>0, DivMod
<1>2. k <= q
  BY <1>0, DivGreatest
<1> HIDE DEF q, r
<1>3. q <= k
  <2>1. q * d = d * q /\ d * q \in Nat
    BY <1>1, Distrib, MulMono
  <2>2. d * q <= d * k
    BY <1>0, <1>1, <2>1
  <2> QED
    BY <1>1, <2>2, MulCancel
<1> QED
  BY <1>1, <1>2, <1>3 DEF q

\* What is a product by the interval is whole.
LEMMA WholeProduct ==
  ASSUME NEW k \in Nat
  PROVE  Whole(k * dist_interval) /\ Idx(k * dist_interval) = k
<1>1. dist_interval \in Nat \ {0}
  BY ReturnsAssumption
<1>2. k * dist_interval \in Nat /\ (k * dist_interval) \div dist_interval = k
  BY <1>1, ExactDiv, MulMono, Distrib
<1> QED
  BY <1>2 DEF Whole, Idx

\* The order of whole times is that of their indices, and the intervals between them are counted
\* exactly.
LEMMA WholeOrder ==
  ASSUME NEW s, NEW t, Whole(s), Whole(t)
  PROVE  /\ Idx(s) \in Nat /\ Idx(t) \in Nat
         /\ s <= t <=> Idx(s) <= Idx(t)
         /\ s < t <=> Idx(s) < Idx(t)
         /\ s = t <=> Idx(s) = Idx(t)
         /\ s <= t => Elapsed(t, s) = Idx(t) - Idx(s)
<1> DEFINE d == dist_interval
           i == Idx(s)
           j == Idx(t)
<1>1. d \in Nat \ {0}
  BY ReturnsAssumption
<1>2. s \in Nat /\ t \in Nat /\ s = i * d /\ t = j * d
  BY DEF Whole
<1>3. i \in Nat /\ j \in Nat
  BY <1>1, <1>2, DivBounds DEF Idx
<1> HIDE DEF d, i, j
<1>4. i <= j => s <= t
  BY <1>1, <1>2, <1>3, MulMono, Distrib
<1>5. j <= i => t <= s
  BY <1>1, <1>2, <1>3, MulMono, Distrib
<1>6. i < j => s < t
  <2> SUFFICES ASSUME i < j PROVE s < t
    OBVIOUS
  <2>1. i + 1 <= j
    BY <1>3
  <2>2. (i + 1) * d <= j * d
    BY <1>1, <1>3, <2>1, MulMono, Distrib
  <2>3. (i + 1) * d = i * d + d
    BY <1>1, <1>3, Distrib
  <2> QED
    BY <1>1, <1>2, <2>2, <2>3
<1>7. j < i => t < s
  <2> SUFFICES ASSUME j < i PROVE t < s
    OBVIOUS
  <2>1. j + 1 <= i
    BY <1>3
  <2>2. (j + 1) * d <= i * d
    BY <1>1, <1>3, <2>1, MulMono, Distrib
  <2>3. (j + 1) * d = j * d + d
    BY <1>1, <1>3, Distrib
  <2> QED
    BY <1>1, <1>2, <2>2, <2>3
<1>8. ASSUME s <= t PROVE Elapsed(t, s) = j - i
  <2>1. i <= j
    BY <1>2, <1>3, <1>7, <1>8
  <2>2. j - i \in Nat
    BY <1>3, <2>1
  <2>3. t - s = (j - i) * d
    BY <1>1, <1>2, <1>3, Distrib
  <2>4. ((j - i) * d) \div d = j - i
    BY <1>1, <2>2, ExactDiv
  <2> QED
    BY <2>3, <2>4 DEF Elapsed, d
<1> QED
  BY <1>2, <1>3, <1>4, <1>5, <1>6, <1>7, <1>8 DEF i, j

-----------------------------------------------------------------------------
(* The parts of update_rex_pool, named as they are in Updated.             *)

Eff       == now - (now % dist_interval)
Opens     == pool.pending_bucket_time <= Eff
Rem       == Remainder(pool.pending_bucket_proceeds)
NewRate   == IF Opens THEN (pool.pending_bucket_proceeds - Rem) \div total_intervals ELSE 0
NewTime   == pool.pending_bucket_time
Estimate  == pool.current_rate_of_increase * Elapsed(Eff, pool.last_dist_time)
             + (IF Opens THEN Rem + NewRate * Elapsed(Eff, NewTime) ELSE 0)
Opened    == IF Opens THEN [t \in DOMAIN buckets \cup {NewTime} |-> IF t = NewTime THEN NewRate ELSE buckets[t]]
                      ELSE buckets
OldestNow == IF Opens /\ NewTime < pool.oldest_bucket_time THEN NewTime ELSE pool.oldest_bucket_time
Trims     == OldestNow <= Eff - Span
Over      == {t \in DOMAIN Opened : Trims /\ t <= Eff - Span}
Kept      == DOMAIN Opened \ Over
Ended     == [t \in Over |-> Opened[t]]
StillOpen == [t \in Kept |-> Opened[t]]
Change    == Estimate - Surplus(Ended, Eff)
Left      == pool.proceeds - Change
Idle      == ~pool.created \/ Eff <= pool.last_dist_time

\* An update whose proceeds suffice, which they always do, adds the change.
LEMMA UpdatedIs ==
  ASSUME DOMAIN buckets \subseteq Times, Left \in Nat, Change \in Nat, unlent \in Nat
  PROVE  IF Idle THEN Updated = [pool |-> pool, buckets |-> buckets, unlent |-> unlent]
         ELSE /\ Updated.pool = [created |-> TRUE, last_dist_time |-> Eff,
                    pending_bucket_time |-> IF Opens THEN Maximum ELSE pool.pending_bucket_time,
                    oldest_bucket_time  |-> IF Trims THEN Oldest(StillOpen) ELSE OldestNow,
                    pending_bucket_proceeds |-> IF Opens THEN 0 ELSE pool.pending_bucket_proceeds,
                    current_rate_of_increase |-> pool.current_rate_of_increase + NewRate - Total(Ended),
                    proceeds |-> Left]
              /\ Updated.buckets = StillOpen
              /\ Updated.unlent = unlent + Change
<1> DEFINE effective == now - (now % dist_interval)
        opens     == pool.pending_bucket_time <= effective
        remainder == Remainder(pool.pending_bucket_proceeds)
        newRate   == IF opens THEN (pool.pending_bucket_proceeds - remainder) \div total_intervals ELSE 0
        newTime   == NewBucketTime(pool.pending_bucket_time, effective)
        estimate  == pool.current_rate_of_increase * Elapsed(effective, pool.last_dist_time)
                     + (IF opens THEN remainder + newRate * Elapsed(effective, newTime) ELSE 0)
        opened    == IF opens THEN [t \in DOMAIN buckets \cup {newTime} |-> IF t = newTime THEN newRate ELSE buckets[t]]
                              ELSE buckets
        oldest    == IF opens /\ newTime < pool.oldest_bucket_time THEN newTime ELSE pool.oldest_bucket_time
        threshold == effective - Span
        trims     == oldest <= threshold
        over      == IF trims THEN RestrictDomain(opened, LAMBDA t : t <= threshold) ELSE NoBuckets
        kept      == RestrictDomain(opened, LAMBDA t : t \notin DOMAIN over)
<1>1. /\ effective = Eff /\ opens = Opens /\ remainder = Rem /\ newRate = NewRate /\ newTime = NewTime
      /\ estimate = Estimate /\ opened = Opened /\ oldest = OldestNow /\ trims = Trims
  BY DEF Eff, Opens, Rem, NewRate, NewTime, Estimate, Opened, OldestNow, Trims, NewBucketTime
<1>2. over = Ended
  BY DEF Eff, Opens, Rem, NewRate, NewTime, Estimate, Opened, OldestNow, Trims, NewBucketTime, Over, Ended, RestrictDomain, Restrict, NoBuckets
<1>3. kept = StillOpen
  BY <1>1, <1>2 DEF Kept, StillOpen, Ended, RestrictDomain, Restrict
<1> DEFINE change == estimate - Surplus(over, effective)
           left   == pool.proceeds - change
           short  == change > 0 /\ left < 0
           due    == IF short THEN change + left ELSE change
<1>4. Updated = IF ~pool.created \/ effective <= pool.last_dist_time
        THEN [pool |-> pool, buckets |-> buckets, unlent |-> unlent]
        ELSE [pool |-> [created                  |-> TRUE,
                        last_dist_time           |-> effective,
                        pending_bucket_time      |-> IF opens THEN Maximum ELSE pool.pending_bucket_time,
                        oldest_bucket_time       |-> IF trims THEN Oldest(kept) ELSE oldest,
                        pending_bucket_proceeds  |-> IF opens THEN 0 ELSE pool.pending_bucket_proceeds,
                        current_rate_of_increase |-> pool.current_rate_of_increase + newRate - ExpiredRate(over, kept),
                        proceeds                 |-> IF short THEN 0 ELSE left],
              buckets |-> kept,
              unlent  |-> IF due > 0 THEN unlent + due ELSE unlent]
  BY DEF Updated
<1>5. change = Change /\ left = Left
  BY <1>1, <1>2 DEF Change, Left
<1> HIDE DEF effective, opens, remainder, newRate, newTime, estimate, opened, oldest, threshold, trims, over, kept,
             change, left
<1>6. ~short /\ due = Change /\ (IF due > 0 THEN unlent + due ELSE unlent) = unlent + Change
  BY <1>5
<1> HIDE DEF short, due
<1>7. Idle <=> (~pool.created \/ effective <= pool.last_dist_time)
  BY <1>1 DEF Idle
<1> QED
  BY <1>1, <1>2, <1>3, <1>4, <1>5, <1>6, <1>7 DEF ExpiredRate

-----------------------------------------------------------------------------
(* The invariant of the return pool.                                       *)

\* The open buckets start at whole intervals that have been reached, none of them has ended at the
\* last update, and the pending one comes after them.
BucketsOK ==
    /\ buckets \in [DOMAIN buckets -> Nat]
    /\ \A t \in DOMAIN buckets :
        /\ Whole(t) /\ t <= pool.last_dist_time /\ t + Span > pool.last_dist_time
        /\ t <= now /\ t <= lastFee + bucket_interval
        /\ pool.pending_bucket_time # Maximum => t < pool.pending_bucket_time

\* The pending bucket is not due at the last update, and ends soon after the last fee.
PendingOK ==
    /\ pool.created => Whole(pool.last_dist_time)
    /\ ~pool.created => DOMAIN buckets = {} /\ pool.pending_bucket_time = Maximum
    /\ IF pool.pending_bucket_time = Maximum THEN pool.pending_bucket_proceeds = 0
       ELSE /\ Whole(pool.pending_bucket_time) /\ pool.last_dist_time <= pool.pending_bucket_time
            /\ pool.pending_bucket_time <= lastFee + bucket_interval
    /\ pool.pending_bucket_time = Maximum => pool.last_dist_time <= now

ReturnsInv ==
    /\ ReturnsTypeOK /\ now > Span /\ lastFee <= now
    /\ BucketsOK /\ PendingOK /\ ReturnsAreOwed

\* The constants.
LEMMA Consts ==
  /\ dist_interval \in Nat \ {0} /\ total_intervals \in Nat \ {0} /\ bucket_interval \in Nat \ {0}
  /\ Whole(Span) /\ Idx(Span) = total_intervals /\ Span \in Nat
<1>1. dist_interval \in Nat \ {0} /\ total_intervals \in Nat \ {0} /\ bucket_interval \in Nat \ {0}
  BY ReturnsAssumption
<1>2. Whole(Span) /\ Idx(Span) = total_intervals
  BY <1>1, WholeProduct DEF Span
<1> QED
  BY <1>1, <1>2 DEF Whole

\* A span later.
LEMMA WholeSpan ==
  ASSUME NEW t, Whole(t)
  PROVE  Whole(t + Span) /\ Idx(t + Span) = Idx(t) + total_intervals
<1>1. t = Idx(t) * dist_interval /\ Idx(t) \in Nat
  BY WholeOrder DEF Whole
<1>2. t + Span = (Idx(t) + total_intervals) * dist_interval
  BY <1>1, Consts, Distrib DEF Span
<1>3. Idx(t) + total_intervals \in Nat
  BY <1>1, Consts
<1> QED
  BY <1>2, <1>3, WholeProduct

\* The time an update counts up to.
LEMMA EffOK ==
  ASSUME now \in Nat, now > Span, now <= MaxTime
  PROVE  /\ Whole(Eff) /\ Eff \in Nat /\ Eff <= now /\ Span <= Eff /\ Eff < Maximum
<1>1. /\ now \div dist_interval \in Nat /\ now % dist_interval \in 0..(dist_interval - 1)
      /\ now = (now \div dist_interval) * dist_interval + (now % dist_interval)
  BY Consts, DivMod
<1> DEFINE q == now \div dist_interval
<1>2. q * dist_interval \in Nat
  BY <1>1, Consts, MulMono
<1>3. Eff = q * dist_interval /\ Eff <= now
  BY <1>1, <1>2, Consts DEF Eff
<1>4. Whole(Eff) /\ Idx(Eff) = q
  BY <1>1, <1>3, WholeProduct
<1>5. total_intervals <= q
  <2>1. dist_interval * total_intervals <= now
    BY Consts, Distrib DEF Span
  <2> QED
    BY <2>1, Consts, DivGreatest
<1>6. Span <= Eff
  BY <1>4, <1>5, Consts, WholeOrder
<1>7. now < Maximum
  BY ReturnsAssumption
<1> QED
  BY <1>2, <1>3, <1>4, <1>6, <1>7, ReturnsAssumption

\* The end of the bucket that is filling.
LEMMA FillingOK ==
  ASSUME now \in Nat, now <= MaxTime
  PROVE  /\ Whole(FillingUntil) /\ FillingUntil \in Nat
         /\ now < FillingUntil /\ FillingUntil <= now + bucket_interval /\ FillingUntil < Maximum
<1> DEFINE b == bucket_interval
           q == now \div b
           k == b \div dist_interval
<1>1. q \in Nat /\ now % b \in 0..(b - 1) /\ now = q * b + (now % b)
  BY Consts, DivMod
<1>2. k \in Nat /\ b = k * dist_interval
  <2>1. k \in Nat /\ b = k * dist_interval + (b % dist_interval)
    BY Consts, DivMod
  <2>2. b % dist_interval = 0 /\ dist_interval \in Nat
    BY ReturnsAssumption
  <2> HIDE DEF k
  <2>3. k * dist_interval \in Nat
    BY <2>1, <2>2, MulMono
  <2> QED
    BY <2>1, <2>2, <2>3
<1> HIDE DEF q, k
<1>3. q * b \in Nat
  BY <1>1, Consts, MulMono
<1>4. FillingUntil = q * b + b
  BY <1>1, <1>3, Consts DEF FillingUntil
<1>5. q * b + b = ((q + 1) * k) * dist_interval
  <2>1. q * b + b = (q + 1) * b
    BY <1>1, Consts, Distrib
  <2>2. (q + 1) * (k * dist_interval) = ((q + 1) * k) * dist_interval
    BY <1>1, <1>2, Consts
  <2> QED
    BY <1>2, <2>1, <2>2
<1>6. (q + 1) * k \in Nat
  BY <1>1, <1>2, MulMono
<1>7. Whole(FillingUntil)
  BY <1>4, <1>5, <1>6, WholeProduct
<1>8. FillingUntil \in Nat /\ now < FillingUntil /\ FillingUntil <= now + b
  BY <1>1, <1>3, <1>4, Consts
<1> QED
  BY <1>7, <1>8, ReturnsAssumption

-----------------------------------------------------------------------------
(* The accounting of an update.                                            *)

\* What a bucket is owed after the update, and what it was owed before.
Owed == [t \in DOMAIN Opened |-> Opened[t] * (total_intervals - (Idx(Eff) - Idx(t)))]
Was  == [t \in DOMAIN Opened |-> IF Opens /\ t = NewTime THEN NewRate * total_intervals
                                 ELSE buckets[t] * (total_intervals - (Idx(pool.last_dist_time) - Idx(t)))]

\* The tables of an update, and the times they hold.
LEMMA UpdateTypes ==
  ASSUME ReturnsInv, ~Idle
  PROVE  /\ Whole(Eff) /\ Whole(pool.last_dist_time) /\ pool.last_dist_time < Eff
         /\ Rem \in Nat /\ NewRate \in Nat
         /\ Opens => /\ pool.pending_bucket_proceeds = Rem + NewRate * total_intervals
                     /\ Whole(NewTime) /\ NewTime <= Eff /\ NewTime # Maximum /\ NewTime >= pool.last_dist_time
                     /\ NewTime \notin DOMAIN buckets
         /\ DOMAIN Opened = DOMAIN buckets \cup (IF Opens THEN {NewTime} ELSE {})
         /\ IsFiniteSet(DOMAIN buckets) /\ IsFiniteSet(DOMAIN Opened)
         /\ Opened \in [DOMAIN Opened -> Nat]
         /\ \A t \in DOMAIN buckets : Opened[t] = buckets[t] /\ ~(Opens /\ t = NewTime)
         /\ Opens => Opened[NewTime] = NewRate
         /\ \A t \in DOMAIN Opened : Whole(t) /\ t <= Eff
<1>1. pool.created /\ pool.last_dist_time < Eff /\ Whole(Eff) /\ Eff < Maximum
  <2>1. now \in Nat /\ now > Span /\ now <= MaxTime /\ pool.last_dist_time \in Nat
    BY ReturnsAssumption DEF ReturnsInv, ReturnsTypeOK, Times, Minimum
  <2>2. Whole(Eff) /\ Eff \in Nat /\ Eff < Maximum
    BY <2>1, EffOK
  <2> QED
    BY <2>1, <2>2 DEF Idle
<1>2. Whole(pool.last_dist_time)
  BY <1>1 DEF ReturnsInv, PendingOK
<1> DEFINE p == pool.pending_bucket_proceeds
<1>3. p \in Nat
  BY DEF ReturnsInv, ReturnsTypeOK
<1>4. /\ p \div total_intervals \in Nat /\ Rem \in Nat
      /\ p = (p \div total_intervals) * total_intervals + Rem
  <2>1. /\ p \div total_intervals \in Nat /\ p % total_intervals \in 0..(total_intervals - 1)
        /\ p = (p \div total_intervals) * total_intervals + (p % total_intervals)
    <3> HIDE DEF p
    <3> QED BY <1>3, Consts, DivMod
  <2>2. Rem = p % total_intervals
    BY DEF Rem, Remainder
  <2> HIDE DEF p
  <2> QED
    BY <2>1, <2>2, Consts
<1>5. Opens => NewRate = p \div total_intervals
  <2>1. (p \div total_intervals) * total_intervals \in Nat
    BY <1>4, Consts, MulMono
  <2>2. p - Rem = (p \div total_intervals) * total_intervals
    BY <1>3, <1>4, <2>1
  <2>3. ((p \div total_intervals) * total_intervals) \div total_intervals = p \div total_intervals
    BY <1>4, Consts, ExactDiv
  <2> QED
    BY <2>2, <2>3 DEF NewRate
<1>6. NewRate \in Nat
  BY <1>4, <1>5 DEF NewRate
<1>7. ASSUME Opens
      PROVE  /\ Whole(NewTime) /\ NewTime <= Eff /\ NewTime # Maximum /\ NewTime >= pool.last_dist_time
             /\ NewTime \notin DOMAIN buckets
  <2>1. NewTime <= Eff /\ NewTime # Maximum
    BY <1>1, <1>7, ReturnsAssumption DEF Opens, NewTime, Whole
  <2>2. Whole(NewTime) /\ NewTime >= pool.last_dist_time
    BY <2>1, <1>2 DEF ReturnsInv, PendingOK, NewTime, Whole
  <2>3. \A t \in DOMAIN buckets : t < NewTime
    BY <2>1 DEF ReturnsInv, BucketsOK, NewTime
  <2> QED
    BY <2>1, <2>2, <2>3 DEF Whole
<1>8. Opens => p = Rem + NewRate * total_intervals
  <2>1. (p \div total_intervals) * total_intervals \in Nat
    BY <1>4, Consts, MulMono
  <2> QED
    BY <1>3, <1>4, <1>5, <2>1
<1>9. DOMAIN Opened = DOMAIN buckets \cup (IF Opens THEN {NewTime} ELSE {})
  BY DEF Opened
<1>10. IsFiniteSet(DOMAIN buckets) /\ IsFiniteSet(DOMAIN Opened)
  <2>1. DOMAIN buckets \subseteq 0..Maximum /\ Maximum \in Nat
    BY ReturnsAssumption DEF ReturnsInv, ReturnsTypeOK, Times, Minimum
  <2>2. IsFiniteSet(0..Maximum)
    BY <2>1, FS_Interval
  <2>3. IsFiniteSet(DOMAIN buckets)
    BY <2>1, <2>2, FS_Subset
  <2> QED
    BY <1>9, <2>3, FS_AddElement
<1>11. buckets \in [DOMAIN buckets -> Nat]
  BY DEF ReturnsInv, BucketsOK
<1>12. Opened \in [DOMAIN Opened -> Nat]
  BY <1>6, <1>11 DEF Opened
<1>13. \A t \in DOMAIN buckets : Opened[t] = buckets[t] /\ ~(Opens /\ t = NewTime)
  BY <1>7 DEF Opened
<1>14. Opens => Opened[NewTime] = NewRate
  BY DEF Opened
<1>15. \A t \in DOMAIN buckets : Whole(t) /\ t <= Eff
  <2>1. \A t \in DOMAIN buckets : Whole(t) /\ t <= pool.last_dist_time
    BY DEF ReturnsInv, BucketsOK
  <2> QED
    BY <1>1, <1>2, <2>1 DEF Whole
<1> QED
  BY <1>1, <1>2, <1>4, <1>6, <1>7, <1>8, <1>9, <1>10, <1>12, <1>13, <1>14, <1>15

\* The first of the buckets.
LEMMA OldestIs ==
  ASSUME NEW b, DOMAIN b \subseteq Nat
  PROVE  IF DOMAIN b = {} THEN Oldest(b) = Minimum
         ELSE Oldest(b) \in DOMAIN b /\ \A s \in DOMAIN b : Oldest(b) <= s
<1>1. CASE DOMAIN b = {}
  BY <1>1 DEF Oldest
<1>2. CASE DOMAIN b # {}
  <2>1. \E t \in DOMAIN b : \A s \in DOMAIN b : t <= s
    BY <1>2, LeastNatural
  <2> QED
    BY <1>2, <2>1 DEF Oldest
<1> QED
  BY <1>1, <1>2

\* The buckets that are over are those whose span has passed, whether they are looked for or not.
LEMMA OverIs ==
  ASSUME ReturnsInv, ~Idle
  PROVE  /\ \A t \in DOMAIN Opened : t \in Over <=> t + Span <= Eff
         /\ ~Trims => OldestNow = Oldest(Opened)
         /\ Over \subseteq DOMAIN Opened /\ Kept \subseteq DOMAIN Opened
<1>1. /\ \A t \in DOMAIN Opened : Whole(t)
      /\ Whole(Eff)
      /\ DOMAIN Opened = DOMAIN buckets \cup (IF Opens THEN {NewTime} ELSE {})
      /\ Opens => Whole(NewTime)
  BY UpdateTypes
<1>2. DOMAIN Opened \subseteq Nat /\ DOMAIN buckets \subseteq Nat /\ Eff \in Nat /\ Span \in Nat
  BY <1>1, Consts DEF Whole
<1>3. pool.oldest_bucket_time = Oldest(buckets)
  BY DEF ReturnsInv, ReturnsAreOwed
<1>4. ASSUME ~Trims
      PROVE  OldestNow = Oldest(Opened) /\ \A t \in DOMAIN Opened : t + Span > Eff
  <2>1. DOMAIN buckets # {}
    <3> SUFFICES ASSUME DOMAIN buckets = {} PROVE FALSE
      OBVIOUS
    <3>1. pool.oldest_bucket_time = 0
      BY <1>2, <1>3, OldestIs DEF Minimum
    <3>2. OldestNow = 0
      <4>1. Opens => NewTime \in Nat
        BY <1>1 DEF Whole
      <4> QED
        BY <3>1, <4>1 DEF OldestNow
    <3>3. Span <= Eff
      <4>1. now \in Nat /\ now > Span /\ now <= MaxTime
        BY ReturnsAssumption DEF ReturnsInv, ReturnsTypeOK
      <4> QED
        BY <4>1, EffOK
    <3> QED
      BY <1>2, <1>4, <3>2, <3>3 DEF Trims
  <2>2. Oldest(buckets) \in DOMAIN buckets /\ \A s \in DOMAIN buckets : Oldest(buckets) <= s
    BY <1>2, <2>1, OldestIs
  <2>3. OldestNow \in DOMAIN Opened /\ \A s \in DOMAIN Opened : OldestNow <= s
    <3>1. Opens => NewTime \in Nat
      BY <1>1 DEF Whole
    <3>2. Oldest(buckets) \in Nat
      BY <1>2, <2>2
    <3>3. CASE Opens /\ NewTime < Oldest(buckets)
      BY <1>1, <1>2, <1>3, <2>2, <3>1, <3>2, <3>3 DEF OldestNow
    <3>4. CASE ~(Opens /\ NewTime < Oldest(buckets))
      BY <1>1, <1>2, <1>3, <2>2, <3>1, <3>2, <3>4 DEF OldestNow
    <3> QED
      BY <3>3, <3>4
  <2>4. Oldest(Opened) \in DOMAIN Opened /\ \A s \in DOMAIN Opened : Oldest(Opened) <= s
    BY <1>2, <2>3, OldestIs
  <2>5. OldestNow = Oldest(Opened)
    BY <1>2, <2>3, <2>4
  <2>6. OldestNow > Eff - Span
    BY <1>2, <1>4, <2>3 DEF Trims
  <2>7. ASSUME NEW t \in DOMAIN Opened PROVE t + Span > Eff
    BY <1>2, <2>3, <2>6
  <2> QED
    BY <2>5, <2>7
<1>5. \A t \in DOMAIN Opened : (t <= Eff - Span) <=> (t + Span <= Eff)
  BY <1>2
<1>6. \A t \in DOMAIN Opened : t + Span > Eff => ~(t + Span <= Eff)
  BY <1>2
<1> QED
  BY <1>4, <1>5, <1>6 DEF Over, Kept

\* What an update adds is what the buckets were owed before and are not owed after it.
LEMMA UpdateAccounts ==
  ASSUME ReturnsInv, ~Idle
  PROVE  /\ Change \in Nat /\ Left \in Nat
         /\ Left = (IF Opens THEN 0 ELSE pool.pending_bucket_proceeds) + SumOf(Owed, Kept)
         /\ pool.current_rate_of_increase + NewRate - Total(Ended) = Total(StillOpen)
<1> DEFINE TI == total_intervals
           D  == DOMAIN Opened
           D0 == DOMAIN buckets
           e  == Idx(Eff)
           l  == Idx(pool.last_dist_time)
           p  == pool.pending_bucket_proceeds
           rate == pool.current_rate_of_increase
<1>1. /\ Whole(Eff) /\ Whole(pool.last_dist_time) /\ pool.last_dist_time < Eff
      /\ Rem \in Nat /\ NewRate \in Nat
      /\ Opens => /\ p = Rem + NewRate * TI /\ Whole(NewTime) /\ NewTime <= Eff
                  /\ NewTime >= pool.last_dist_time /\ NewTime \notin D0
      /\ D = D0 \cup (IF Opens THEN {NewTime} ELSE {})
      /\ IsFiniteSet(D0) /\ IsFiniteSet(D) /\ Opened \in [D -> Nat]
      /\ \A t \in D0 : Opened[t] = buckets[t] /\ ~(Opens /\ t = NewTime)
      /\ Opens => Opened[NewTime] = NewRate
      /\ \A t \in D : Whole(t) /\ t <= Eff
  BY UpdateTypes
<1>2. TI \in Nat /\ TI > 0 /\ rate \in Nat /\ p \in Nat /\ pool.proceeds \in Nat
  BY Consts DEF ReturnsInv, ReturnsTypeOK
<1>3. e \in Nat /\ l \in Nat /\ l < e /\ Elapsed(Eff, pool.last_dist_time) = e - l
  BY <1>1, WholeOrder DEF Whole
<1>4. \A t \in D : Idx(t) \in Nat /\ Idx(t) <= e /\ Elapsed(Eff, t) = e - Idx(t)
  BY <1>1, WholeOrder
<1>5. ASSUME NEW t \in D0 PROVE Idx(t) <= l /\ l < Idx(t) + TI /\ Elapsed(pool.last_dist_time, t) = l - Idx(t)
  <2>1. Whole(t) /\ t <= pool.last_dist_time /\ t + Span > pool.last_dist_time
    BY DEF ReturnsInv, BucketsOK
  <2>2. Whole(t + Span) /\ Idx(t + Span) = Idx(t) + TI
    BY <2>1, WholeSpan
  <2>3. pool.last_dist_time < t + Span
    BY <2>1, <2>2, <1>1 DEF Whole
  <2> QED
    BY <1>1, <2>1, <2>2, <2>3, WholeOrder
<1>6. ASSUME NEW t \in Kept PROVE t \in D /\ e < Idx(t) + TI
  <2>1. t \in D /\ ~(t + Span <= Eff)
    BY OverIs DEF Kept
  <2>2. Whole(t + Span) /\ Idx(t + Span) = Idx(t) + TI
    BY <1>1, <2>1, WholeSpan
  <2> QED
    BY <1>1, <1>3, <2>1, <2>2, WholeOrder
<1>7. ASSUME NEW t \in Over PROVE t \in D /\ Elapsed(Eff, t + Span) = e - (Idx(t) + TI)
  <2>1. t \in D /\ t + Span <= Eff
    BY OverIs
  <2>2. Whole(t + Span) /\ Idx(t + Span) = Idx(t) + TI
    BY <1>1, <2>1, WholeSpan
  <2> QED
    BY <1>1, <2>1, <2>2, WholeOrder
<1>8. Kept \cup Over = D /\ Kept \cap Over = {} /\ IsFiniteSet(Kept) /\ IsFiniteSet(Over)
  BY <1>1, OverIs, FS_Subset DEF Kept
<1> HIDE DEF e, l, TI
<1>9. \A t \in D : Opened[t] \in Nat /\ Owed[t] = Opened[t] * (TI - (e - Idx(t))) /\ Owed[t] \in Int
  BY <1>1, <1>2, <1>3, <1>4 DEF Owed, e, TI
<1>10. \A t \in D0 : /\ buckets[t] \in Nat /\ Opened[t] = buckets[t]
                     /\ Was[t] = buckets[t] * (TI - (l - Idx(t))) /\ Was[t] \in Int
  BY <1>1, <1>2, <1>3, <1>4 DEF Was, l, TI
<1>11. pool.proceeds = p + SumOf(Was, D0)
  <2> DEFINE f == [t \in D0 |-> buckets[t] * (total_intervals - Elapsed(pool.last_dist_time, t))]
  <2>1. pool.proceeds = p + Total(f)
    BY DEF ReturnsInv, ReturnsAreOwed
  <2>2. Total(f) = SumOf(f, D0)
    BY DEF Total
  <2>3. \A t \in D0 : f[t] = Was[t]
    BY <1>5, <1>10 DEF TI
  <2>4. SumOf(f, D0) = SumOf(Was, D0)
    <3> HIDE DEF f
    <3> QED BY <2>3, SumOfSame
  <2> QED
    BY <2>1, <2>2, <2>4
<1>12. SumOf(Was, D0) = SumOf(Owed, D0) + rate * (e - l)
  <2> DEFINE g == [t \in D0 |-> buckets[t] * (e - l)]
  <2>1. \A t \in D0 : Was[t] = Owed[t] + g[t] /\ Owed[t] \in Int /\ g[t] \in Int
    <3> SUFFICES ASSUME NEW t \in D0 PROVE Was[t] = Owed[t] + g[t] /\ Owed[t] \in Int /\ g[t] \in Int
      OBVIOUS
    <3>1. t \in D /\ Idx(t) \in Nat
      BY <1>1, <1>4
    <3>2. Was[t] = buckets[t] * (TI - (l - Idx(t))) /\ Owed[t] = buckets[t] * (TI - (e - Idx(t))) /\ buckets[t] \in Nat
      BY <1>9, <1>10, <3>1
    <3>3. TI - (l - Idx(t)) = (TI - (e - Idx(t))) + (e - l)
      BY <1>2, <1>3, <3>1
    <3>4. buckets[t] * ((TI - (e - Idx(t))) + (e - l)) = buckets[t] * (TI - (e - Idx(t))) + buckets[t] * (e - l)
      BY <1>2, <1>3, <3>1, <3>2, Distrib
    <3> QED
      BY <1>3, <1>9, <3>1, <3>2, <3>3, <3>4
  <2>2. SumOf(Was, D0) = SumOf(Owed, D0) + SumOf(g, D0)
    <3> HIDE DEF g
    <3> QED BY <1>1, <2>1, SumOfAdd
  <2>3. SumOf(g, D0) = SumOf(buckets, D0) * (e - l)
    <3>1. \A t \in D0 : buckets[t] \in Int /\ g[t] = buckets[t] * (e - l)
      BY <1>10
    <3>2. e - l \in Int
      BY <1>3
    <3> HIDE DEF g
    <3> QED BY <1>1, <3>1, <3>2, SumOfScale
  <2>4. rate = SumOf(buckets, D0)
    BY DEF ReturnsInv, ReturnsAreOwed, Total
  <2> QED
    BY <2>2, <2>3, <2>4
<1>13. SumOf(Owed, D0) \in Int /\ SumOf(Owed, Kept) \in Nat /\ SumOf(Owed, Over) \in Int
  <2>1. \A t \in Kept : Owed[t] >= 0
    <3> SUFFICES ASSUME NEW t \in Kept PROVE Owed[t] >= 0
      OBVIOUS
    <3>1. t \in D /\ TI - (e - Idx(t)) \in Nat /\ Opened[t] \in Nat
      BY <1>2, <1>3, <1>4, <1>6, <1>9
    <3> QED
      BY <1>9, <3>1, MulMono
  <2>2. \A t \in D : Owed[t] \in Int
    BY <1>9
  <2>3. D0 \subseteq D /\ Kept \subseteq D /\ Over \subseteq D
    BY <1>1, <1>8
  <2> QED
    BY <1>1, <1>8, <2>1, <2>2, <2>3, SumOfType
<1>14. SumOf(Owed, D) = SumOf(Owed, Kept) + SumOf(Owed, Over)
  BY <1>8, <1>9, SumOfSplit
<1>15. SumOf(Owed, D) = SumOf(Owed, D0) + (IF Opens THEN NewRate * (TI - (e - Idx(NewTime))) ELSE 0)
  <2>1. CASE Opens
    <3>1. D = D0 \cup {NewTime} /\ NewTime \notin D0
      BY <1>1, <2>1
    <3>2. \A x \in D0 \cup {NewTime} : Owed[x] \in Int
      BY <1>9, <3>1
    <3>3. SumOf(Owed, D) = SumOf(Owed, D0) + Owed[NewTime]
      <4>1. SumOf(Owed, D0 \cup {NewTime}) = SumOf(Owed, D0) + Owed[NewTime]
        <5> HIDE DEF D, D0
        <5> QED BY <1>1, <3>1, <3>2, SumOfOneMore
      <4> QED
        BY <3>1, <4>1
    <3> QED
      BY <1>1, <1>9, <2>1, <3>1, <3>3
  <2>2. CASE ~Opens
    BY <1>1, <1>13, <2>2
  <2> QED
    BY <2>1, <2>2
<1>16. Surplus(Ended, Eff) = 0 - SumOf(Owed, Over)
  <2> DEFINE f == [s \in DOMAIN Ended |-> Ended[s] * Elapsed(Eff, s + Span)]
  <2>1. DOMAIN Ended = Over /\ \A s \in Over : Ended[s] = Opened[s]
    BY DEF Ended
  <2>2. Surplus(Ended, Eff) = SumOf(f, Over)
    BY <2>1 DEF Surplus, Total
  <2>3. ASSUME NEW s \in Over PROVE f[s] = Owed[s] * (0 - 1) /\ Owed[s] \in Int
    <3>1. s \in D /\ f[s] = Opened[s] * (e - (Idx(s) + TI)) /\ Opened[s] \in Nat /\ Idx(s) \in Nat
      BY <1>4, <1>7, <1>9, <2>1
    <3>2. Owed[s] = Opened[s] * (TI - (e - Idx(s)))
      BY <1>9, <3>1
    <3>3. e - (Idx(s) + TI) = (TI - (e - Idx(s))) * (0 - 1)
      BY <1>2, <1>3, <3>1
    <3>4. Opened[s] * ((TI - (e - Idx(s))) * (0 - 1)) = (Opened[s] * (TI - (e - Idx(s)))) * (0 - 1)
      BY <1>2, <1>3, <3>1
    <3> QED
      BY <1>9, <3>1, <3>2, <3>3, <3>4
  <2>4. SumOf(f, Over) = SumOf(Owed, Over) * (0 - 1)
    <3> HIDE DEF f
    <3> QED BY <1>8, <2>3, SumOfScale
  <2> QED
    BY <1>13, <2>2, <2>4
<1>17. Estimate = rate * (e - l) + (IF Opens THEN Rem + NewRate * (e - Idx(NewTime)) ELSE 0)
  <2>1. Opens => NewTime \in D
    BY <1>1
  <2> QED
    BY <1>3, <1>4, <2>1 DEF Estimate
<1>18. rate * (e - l) \in Nat
  BY <1>2, <1>3, MulMono
<1>19. Opens => /\ Idx(NewTime) \in Nat /\ NewRate * TI \in Nat
                /\ NewRate * (e - Idx(NewTime)) \in Int /\ NewRate * (TI - (e - Idx(NewTime))) \in Int
                /\ NewRate * (TI - (e - Idx(NewTime))) = NewRate * TI - NewRate * (e - Idx(NewTime))
  <2> SUFFICES ASSUME Opens PROVE
                /\ Idx(NewTime) \in Nat /\ NewRate * TI \in Nat
                /\ NewRate * (e - Idx(NewTime)) \in Int /\ NewRate * (TI - (e - Idx(NewTime))) \in Int
                /\ NewRate * (TI - (e - Idx(NewTime))) = NewRate * TI - NewRate * (e - Idx(NewTime))
    OBVIOUS
  <2>1. Idx(NewTime) \in Nat /\ e - Idx(NewTime) \in Int
    BY <1>1, <1>3, <1>4
  <2>2. NewRate \in Nat /\ TI \in Nat
    BY <1>1, <1>2
  <2>3. NewRate * TI \in Nat
    BY <2>2, MulMono
  <2> DEFINE d == e - Idx(NewTime)
  <2>4. d \in Int
    BY <2>1
  <2> HIDE DEF d
  <2>5. NewRate * d \in Int /\ NewRate * (TI - d) \in Int
    BY <2>2, <2>4
  <2>6. NewRate * (TI - d) = NewRate * TI - NewRate * d
    BY <2>2, <2>4, Distrib
  <2> QED
    BY <2>1, <2>3, <2>5, <2>6 DEF d
<1>20. Left = (IF Opens THEN 0 ELSE p) + SumOf(Owed, Kept)
  <2>1. Left = pool.proceeds - (Estimate - Surplus(Ended, Eff))
    BY DEF Left, Change
  <2> DEFINE k == SumOf(Owed, Kept)
             o == SumOf(Owed, Over)
             w == SumOf(Owed, D0)
             x == rate * (e - l)
             y == NewRate * (e - Idx(NewTime))
             z == NewRate * TI
  <2>2. /\ pool.proceeds = p + (w + x) /\ Surplus(Ended, Eff) = 0 - o
        /\ Estimate = x + (IF Opens THEN Rem + y ELSE 0)
        /\ k + o = w + (IF Opens THEN z - y ELSE 0)
        /\ Opens => p = Rem + z /\ y \in Int /\ z \in Nat
        /\ k \in Nat /\ o \in Int /\ w \in Int /\ x \in Nat
    BY <1>1, <1>11, <1>12, <1>13, <1>14, <1>15, <1>16, <1>17, <1>18, <1>19
  <2> HIDE DEF k, o, w, x, y, z
  <2>3. CASE Opens
    BY <1>1, <1>2, <2>1, <2>2, <2>3 DEF k
  <2>4. CASE ~Opens
    BY <1>1, <1>2, <2>1, <2>2, <2>4 DEF k
  <2> QED
    BY <2>3, <2>4
<1>21. Left \in Nat
  BY <1>2, <1>13, <1>20
<1>22. Change \in Nat
  <2> DEFINE kk == [t \in D |-> IF t \in Kept THEN Owed[t] ELSE 0]
             zz == [t \in D |-> Was[t] - kk[t]]
  <2>1. ASSUME NEW t \in D PROVE Was[t] \in Int /\ kk[t] \in Int /\ zz[t] \in Nat /\ Was[t] = kk[t] + zz[t]
    <3>1. Opened[t] \in Nat /\ Idx(t) \in Nat /\ Idx(t) <= e
      BY <1>4, <1>9
    <3>2. PICK a \in Nat : Was[t] = Opened[t] * a /\ TI - (e - Idx(t)) <= a
      <4>1. CASE t \in D0
        <5>1. Was[t] = Opened[t] * (TI - (l - Idx(t))) /\ TI - (l - Idx(t)) \in Nat
          BY <1>2, <1>3, <1>5, <1>10, <3>1, <4>1
        <5>2. TI - (e - Idx(t)) <= TI - (l - Idx(t))
          BY <1>2, <1>3, <3>1
        <5> QED
          BY <5>1, <5>2
      <4>2. CASE t \notin D0
        <5>1. Opens /\ t = NewTime
          BY <1>1, <4>2
        <5>2. Was[t] = Opened[t] * TI
          BY <1>1, <5>1 DEF Was, TI
        <5> QED
          BY <1>2, <1>3, <3>1, <5>2
      <4> QED
        BY <4>1, <4>2
    <3>3. Opened[t] * a \in Nat
      BY <3>1, MulMono
    <3>4. CASE t \in Kept
      <4>1. TI - (e - Idx(t)) \in Nat
        BY <1>2, <1>3, <1>6, <3>1, <3>4
      <4>2. Opened[t] * (TI - (e - Idx(t))) <= Opened[t] * a /\ Opened[t] * (TI - (e - Idx(t))) \in Nat
        BY <3>1, <3>2, <4>1, MulMono
      <4>3. kk[t] = Opened[t] * (TI - (e - Idx(t)))
        BY <1>9, <3>4
      <4> HIDE DEF kk
      <4> QED
        BY <3>2, <3>3, <4>2, <4>3
    <3>5. CASE t \notin Kept
      BY <3>2, <3>3, <3>5
    <3> QED
      BY <3>4, <3>5
  <2> HIDE DEF kk, zz
  <2>2. SumOf(Was, D) = SumOf(kk, D) + SumOf(zz, D)
    BY <1>1, <2>1, SumOfAdd
  <2>3. SumOf(zz, D) \in Nat /\ SumOf(kk, D) \in Int
    BY <1>1, <2>1, SumOfType
  <2>4. SumOf(kk, D) = SumOf(Owed, Kept)
    <3>1. \A t \in D \ Kept : kk[t] = 0
      BY DEF kk
    <3>2. \A t \in Kept : kk[t] = Owed[t]
      BY <1>6 DEF kk
    <3>3. Kept \subseteq D
      BY <1>8
    <3>4. SumOf(kk, D) = SumOf(kk, Kept)
      BY <1>1, <2>1, <3>1, <3>3, SumOfSupport
    <3> QED
      BY <3>2, <3>4, SumOfSame
  <2>5. SumOf(Was, D) = SumOf(Was, D0) + (IF Opens THEN NewRate * TI ELSE 0)
    <3>1. CASE Opens
      <4>1. D = D0 \cup {NewTime} /\ NewTime \notin D0
        BY <1>1, <3>1
      <4>2. SumOf(Was, D) = SumOf(Was, D0) + Was[NewTime]
        <5>1. \A x \in D0 \cup {NewTime} : Was[x] \in Int
          BY <2>1, <4>1
        <5>2. SumOf(Was, D0 \cup {NewTime}) = SumOf(Was, D0) + Was[NewTime]
          <6> HIDE DEF D, D0
          <6> QED BY <1>1, <4>1, <5>1, SumOfOneMore
        <5> QED
          BY <4>1, <5>2
      <4>3. Was[NewTime] = NewRate * TI
        BY <3>1, <4>1 DEF Was, TI
      <4> QED
        BY <3>1, <4>2, <4>3
    <3>2. CASE ~Opens
      <4>1. D = D0
        BY <1>1, <3>2
      <4>2. SumOf(Was, D0) \in Int
        BY <1>1, <1>10, SumOfType
      <4> QED
        BY <3>2, <4>1, <4>2
    <3> QED
      BY <3>1, <3>2
  <2>6. SumOf(Was, D0) \in Int /\ (Opens => NewRate * TI \in Nat)
    BY <1>1, <1>10, <1>19, SumOfType
  <2>7. Change = pool.proceeds - Left
    <3>1. Surplus(Ended, Eff) \in Int /\ Estimate \in Int
      BY <1>1, <1>13, <1>16, <1>17, <1>18, <1>19
    <3> QED
      BY <1>2, <3>1 DEF Left, Change
  <2> DEFINE z == NewRate * TI
  <2>8. Opens => p = Rem + z /\ z \in Nat
    BY <1>1, <2>6
  <2> HIDE DEF z
  <2>9. SumOf(Was, D0) + (IF Opens THEN z ELSE 0) = SumOf(Owed, Kept) + SumOf(zz, D)
    BY <2>2, <2>4, <2>5 DEF z
  <2>10. CASE Opens
    BY <1>1, <1>2, <1>11, <1>13, <1>20, <2>3, <2>6, <2>7, <2>8, <2>9, <2>10
  <2>11. CASE ~Opens
    BY <1>1, <1>2, <1>11, <1>13, <1>20, <2>3, <2>6, <2>7, <2>8, <2>9, <2>11
  <2> QED
    BY <2>10, <2>11
<1>23. rate + NewRate - Total(Ended) = Total(StillOpen)
  <2>1. rate = SumOf(buckets, D0)
    BY DEF ReturnsInv, ReturnsAreOwed, Total
  <2>2. SumOf(buckets, D0) = SumOf(Opened, D0)
    BY <1>10, SumOfSame
  <2>3. \A t \in D : Opened[t] \in Int
    BY <1>9
  <2>4. SumOf(Opened, D) = SumOf(Opened, D0) + NewRate
    <3>1. CASE Opens
      <4>1. D = D0 \cup {NewTime} /\ NewTime \notin D0
        BY <1>1, <3>1
      <4> QED
        BY <1>1, <2>3, <3>1, <4>1, SumOfOneMore
    <3>2. CASE ~Opens
      <4>1. D = D0 /\ NewRate = 0
        BY <1>1, <3>2 DEF NewRate
      <4> QED
        BY <1>2, <2>1, <2>2, <4>1
    <3> QED
      BY <3>1, <3>2
  <2>5. SumOf(Opened, D) = SumOf(Opened, Kept) + SumOf(Opened, Over)
    BY <1>8, <2>3, SumOfSplit
  <2>6. Total(Ended) = SumOf(Opened, Over)
    <3>1. DOMAIN Ended = Over /\ \A t \in Over : Ended[t] = Opened[t]
      BY DEF Ended
    <3> QED
      BY <3>1, SumOfSame DEF Total
  <2>7. Total(StillOpen) = SumOf(Opened, Kept)
    <3>1. DOMAIN StillOpen = Kept /\ \A t \in Kept : StillOpen[t] = Opened[t]
      BY DEF StillOpen
    <3> QED
      BY <3>1, SumOfSame DEF Total
  <2>8. SumOf(Opened, Kept) \in Int /\ SumOf(Opened, Over) \in Int
    BY <1>8, <2>3, SumOfType
  <2> QED
    BY <1>1, <1>2, <2>1, <2>2, <2>4, <2>5, <2>6, <2>7, <2>8
<1> QED
  BY <1>20, <1>21, <1>22, <1>23

\* The invariant of the return pool, of its row p and its buckets b, at a time, when n of the fees has been added and the
\* last of them has come at last.
RowOK(p, b, n, time, fees, last) ==
    /\ p \in [created : BOOLEAN, last_dist_time : Times, pending_bucket_time : Times,
              oldest_bucket_time : Times, pending_bucket_proceeds : Nat,
              current_rate_of_increase : Nat, proceeds : Nat]
    /\ DOMAIN b \subseteq Times /\ b \in [DOMAIN b -> Nat] /\ n \in Nat
    /\ \A t \in DOMAIN b :
        /\ Whole(t) /\ t <= p.last_dist_time /\ t + Span > p.last_dist_time
        /\ t <= time /\ t <= last + bucket_interval
        /\ p.pending_bucket_time # Maximum => t < p.pending_bucket_time
    /\ p.created => Whole(p.last_dist_time)
    /\ ~p.created => DOMAIN b = {} /\ p.pending_bucket_time = Maximum
    /\ IF p.pending_bucket_time = Maximum THEN p.pending_bucket_proceeds = 0
       ELSE /\ Whole(p.pending_bucket_time) /\ p.last_dist_time <= p.pending_bucket_time
            /\ p.pending_bucket_time <= last + bucket_interval
    /\ p.pending_bucket_time = Maximum => p.last_dist_time <= time
    /\ n + p.proceeds = fees
    /\ p.proceeds = p.pending_bucket_proceeds
                    + Total([t \in DOMAIN b |-> b[t] * (total_intervals - Elapsed(p.last_dist_time, t))])
    /\ p.current_rate_of_increase = Total(b)
    /\ p.oldest_bucket_time = Oldest(b)

\* It is the invariant, of the row and the buckets there are.
LEMMA RowIs ==
  ReturnsInv <=> /\ RowOK(pool, buckets, unlent, now, added, lastFee)
                 /\ now \in 1..MaxTime /\ now > Span /\ lastFee <= now
                 /\ added \in Nat /\ lastFee \in 0..MaxTime
<1>1. buckets \in [DOMAIN buckets -> Nat] => Range(buckets) \subseteq Nat
  BY DEF Range
<1> QED
  BY <1>1 DEF ReturnsInv, RowOK, ReturnsTypeOK, BucketsOK, PendingOK, ReturnsAreOwed

LEMMA RowIsNext ==
  ASSUME /\ RowOK(pool', buckets', unlent', now', added', lastFee')
         /\ now' \in 1..MaxTime /\ now' > Span /\ lastFee' <= now'
         /\ added' \in Nat /\ lastFee' \in 0..MaxTime
  PROVE  ReturnsInv'
<1>1. buckets' \in [DOMAIN buckets' -> Nat] => Range(buckets)' \subseteq Nat
  BY DEF Range
<1> QED
  BY <1>1 DEF ReturnsInv, RowOK, ReturnsTypeOK, BucketsOK, PendingOK, ReturnsAreOwed

\* update_rex_pool keeps the invariant, whenever it comes, and never takes back what it has added.
LEMMA UpdateKeeps ==
  ASSUME ReturnsInv
  PROVE  /\ RowOK(Updated.pool, Updated.buckets, Updated.unlent, now, added, lastFee)
         /\ Updated.pool.created = pool.created /\ Updated.unlent >= unlent
<1>0. /\ DOMAIN buckets \subseteq Times /\ unlent \in Nat /\ added \in Nat /\ lastFee \in Nat
      /\ pool.pending_bucket_time \in Nat /\ pool.last_dist_time \in Nat /\ pool.created \in BOOLEAN
      /\ pool.oldest_bucket_time \in Times /\ pool.pending_bucket_time \in Times
      /\ pool.pending_bucket_proceeds \in Nat /\ pool.proceeds \in Nat /\ pool.current_rate_of_increase \in Nat
      /\ now \in Nat /\ now > Span /\ now <= MaxTime
  BY ReturnsAssumption DEF ReturnsInv, ReturnsTypeOK, Times, Minimum
<1>1. CASE Idle
  <2>1. Updated = [pool |-> pool, buckets |-> buckets, unlent |-> unlent]
    BY <1>1 DEF Updated, Idle, Eff
  <2> QED
    BY <1>0, <2>1, RowIs
<1>2. CASE ~Idle
  <2>1. /\ Change \in Nat /\ Left \in Nat
        /\ Left = (IF Opens THEN 0 ELSE pool.pending_bucket_proceeds) + SumOf(Owed, Kept)
        /\ pool.current_rate_of_increase + NewRate - Total(Ended) = Total(StillOpen)
    BY <1>2, UpdateAccounts
  <2>2. /\ Updated.pool = [created |-> TRUE, last_dist_time |-> Eff,
                    pending_bucket_time |-> IF Opens THEN Maximum ELSE pool.pending_bucket_time,
                    oldest_bucket_time  |-> IF Trims THEN Oldest(StillOpen) ELSE OldestNow,
                    pending_bucket_proceeds |-> IF Opens THEN 0 ELSE pool.pending_bucket_proceeds,
                    current_rate_of_increase |-> pool.current_rate_of_increase + NewRate - Total(Ended),
                    proceeds |-> Left]
        /\ Updated.buckets = StillOpen
        /\ Updated.unlent = unlent + Change
    BY <1>0, <1>2, <2>1, UpdatedIs
  <2>3. /\ Whole(Eff) /\ Eff \in Nat /\ Eff <= now /\ Eff < Maximum
    BY <1>0, EffOK
  <2>4. /\ DOMAIN Opened = DOMAIN buckets \cup (IF Opens THEN {NewTime} ELSE {})
        /\ Opened \in [DOMAIN Opened -> Nat] /\ IsFiniteSet(DOMAIN Opened)
        /\ \A t \in DOMAIN Opened : Whole(t) /\ t <= Eff
        /\ Opens => Whole(NewTime) /\ NewTime # Maximum
        /\ pool.last_dist_time < Eff
    BY <1>2, UpdateTypes
  <2>5. Kept \subseteq DOMAIN Opened /\ IsFiniteSet(Kept) /\ \A t \in Kept : ~(t + Span <= Eff)
    BY <1>2, <2>4, OverIs, FS_Subset DEF Kept
  <2>6. DOMAIN StillOpen = Kept /\ StillOpen \in [Kept -> Nat] /\ \A t \in Kept : StillOpen[t] = Opened[t]
    BY <2>4, <2>5 DEF StillOpen
  <2>7. \A t \in Kept : /\ t \in Times /\ t \in Nat /\ Whole(t) /\ t <= Eff /\ t + Span > Eff
                        /\ t <= now /\ t <= lastFee + bucket_interval
                        /\ ~Opens /\ pool.pending_bucket_time # Maximum => t < pool.pending_bucket_time
    <3> SUFFICES ASSUME NEW t \in Kept
                 PROVE  /\ t \in Times /\ t \in Nat /\ Whole(t) /\ t <= Eff /\ t + Span > Eff
                        /\ t <= now /\ t <= lastFee + bucket_interval
                        /\ ~Opens /\ pool.pending_bucket_time # Maximum => t < pool.pending_bucket_time
      OBVIOUS
    <3>1. t \in DOMAIN Opened /\ Whole(t) /\ t \in Nat /\ t <= Eff /\ ~(t + Span <= Eff)
      BY <2>4, <2>5 DEF Whole
    <3>2. t \in Times /\ t <= now /\ t + Span > Eff
      BY <1>0, <2>3, <3>1, Consts, ReturnsAssumption DEF Times, Minimum
    <3>3. CASE t \in DOMAIN buckets
      BY <3>1, <3>2, <3>3 DEF ReturnsInv, BucketsOK
    <3>4. CASE t \notin DOMAIN buckets
      <4>1. Opens /\ t = NewTime /\ pool.pending_bucket_time # Maximum
        BY <2>4, <3>1, <3>4 DEF NewTime
      <4> QED
        BY <3>1, <3>2, <4>1 DEF ReturnsInv, PendingOK, NewTime
    <3> QED
      BY <3>3, <3>4
  <2>8. SumOf(Owed, Kept) = Total([t \in Kept |-> StillOpen[t] * (total_intervals - Elapsed(Eff, t))])
    <3> DEFINE f == [t \in Kept |-> StillOpen[t] * (total_intervals - Elapsed(Eff, t))]
    <3>1. \A t \in Kept : Owed[t] = f[t]
      <4> SUFFICES ASSUME NEW t \in Kept PROVE Owed[t] = f[t]
        OBVIOUS
      <4>1. Elapsed(Eff, t) = Idx(Eff) - Idx(t)
        BY <2>3, <2>7, WholeOrder
      <4>2. t \in DOMAIN Opened /\ StillOpen[t] = Opened[t]
        BY <2>5, <2>6
      <4> QED
        BY <4>1, <4>2 DEF Owed
    <3>2. DOMAIN f = Kept
      OBVIOUS
    <3> HIDE DEF f
    <3>3. Total(f) = SumOf(f, Kept)
      BY <3>2 DEF Total
    <3>4. SumOf(Owed, Kept) = SumOf(f, Kept)
      BY <3>1, SumOfSame
    <3> QED
      BY <3>3, <3>4 DEF f
  <2>9. Total(StillOpen) \in Nat
    <3>1. \A t \in Kept : StillOpen[t] \in Int /\ StillOpen[t] >= 0
      BY <2>6
    <3> QED
      BY <2>5, <2>6, <3>1, SumOfType DEF Total
  <2>10. (IF Trims THEN Oldest(StillOpen) ELSE OldestNow) = Oldest(StillOpen)
    <3>1. CASE ~Trims
      <4>1. OldestNow = Oldest(Opened)
        BY <1>2, <3>1, OverIs
      <4>2. Over = {}
        BY <3>1 DEF Over
      <4>3. StillOpen = Opened
        BY <2>4, <4>2 DEF StillOpen, Kept
      <4> QED
        BY <3>1, <4>1, <4>3
    <3> QED
      BY <3>1
  <2>11. Oldest(StillOpen) \in Times
    <3>1. DOMAIN StillOpen \subseteq Nat
      BY <2>6, <2>7
    <3> QED
      BY <2>6, <2>7, <3>1, OldestIs, ReturnsAssumption DEF Times, Minimum
  <2>12. unlent + Change + Left = added
    <3>1. Change = pool.proceeds - Left
      <4>1. Left = pool.proceeds - Change
        BY DEF Left
      <4> QED
        BY <1>0, <2>1, <4>1
    <3>2. unlent + pool.proceeds = added
      BY DEF ReturnsInv, ReturnsAreOwed
    <3> QED
      BY <1>0, <2>1, <3>1, <3>2
  <2>13. pool.created
    BY <1>2 DEF Idle
  <2>14. \A p \in {pool.pending_bucket_time} : (~Opens /\ p # Maximum) =>
             Whole(p) /\ Eff <= p /\ p <= lastFee + bucket_interval
    BY <1>0, <2>3 DEF ReturnsInv, PendingOK, Opens
  <2>15. (~Opens /\ pool.pending_bucket_time = Maximum) => pool.pending_bucket_proceeds = 0
    BY DEF ReturnsInv, PendingOK
  <2> DEFINE u == Updated
  <2>16. /\ u.pool.created = TRUE /\ u.pool.last_dist_time = Eff
         /\ u.pool.pending_bucket_time = (IF Opens THEN Maximum ELSE pool.pending_bucket_time)
         /\ u.pool.oldest_bucket_time = Oldest(StillOpen)
         /\ u.pool.pending_bucket_proceeds = (IF Opens THEN 0 ELSE pool.pending_bucket_proceeds)
         /\ u.pool.current_rate_of_increase = Total(StillOpen)
         /\ u.pool.proceeds = Left
         /\ u.buckets = StillOpen /\ u.unlent = unlent + Change
    BY <2>1, <2>2, <2>10
  <2>17. u.pool \in [created : BOOLEAN, last_dist_time : Times, pending_bucket_time : Times,
              oldest_bucket_time : Times, pending_bucket_proceeds : Nat,
              current_rate_of_increase : Nat, proceeds : Nat]
    <3>1. Eff \in Times /\ Maximum \in Times
      BY <2>3, ReturnsAssumption DEF Times, Minimum
    <3> QED
      BY <1>0, <2>1, <2>2, <2>9, <2>10, <2>11, <3>1
  <2> HIDE DEF u
  <2>18. RowOK(u.pool, u.buckets, u.unlent, now, added, lastFee)
    <3>1. u.unlent \in Nat /\ u.unlent + u.pool.proceeds = added /\ u.unlent >= unlent
      BY <1>0, <2>1, <2>12, <2>16
    <3>2. DOMAIN u.buckets = Kept
      BY <2>6, <2>16
    <3>3. u.pool.proceeds = u.pool.pending_bucket_proceeds
            + Total([t \in DOMAIN u.buckets |-> u.buckets[t] * (total_intervals - Elapsed(u.pool.last_dist_time, t))])
      BY <2>1, <2>8, <2>16, <3>2
    <3>4. \A t \in DOMAIN u.buckets :
        /\ Whole(t) /\ t <= u.pool.last_dist_time /\ t + Span > u.pool.last_dist_time
        /\ t <= now /\ t <= lastFee + bucket_interval
        /\ u.pool.pending_bucket_time # Maximum => t < u.pool.pending_bucket_time
      BY <2>7, <2>16, <3>2
    <3>5. IF u.pool.pending_bucket_time = Maximum THEN u.pool.pending_bucket_proceeds = 0
          ELSE /\ Whole(u.pool.pending_bucket_time) /\ u.pool.last_dist_time <= u.pool.pending_bucket_time
               /\ u.pool.pending_bucket_time <= lastFee + bucket_interval
      BY <2>14, <2>15, <2>16
    <3>6. DOMAIN u.buckets \subseteq Times /\ u.buckets \in [DOMAIN u.buckets -> Nat]
      BY <2>6, <2>7, <2>16, <3>2
    <3> QED
      BY <2>3, <2>16, <2>17, <3>1, <3>3, <3>4, <3>5, <3>6 DEF RowOK
  <2> QED
    <3>1. Updated.unlent = unlent + Change /\ Updated.pool.created = TRUE
      BY <2>2
    <3>2. pool.created = TRUE
      BY <1>0, <2>13
    <3> QED
      <4>1. RowOK(Updated.pool, Updated.buckets, Updated.unlent, now, added, lastFee)
        BY <2>18 DEF u
      <4>2. Updated.unlent >= unlent
        BY <1>0, <2>1, <3>1
      <4> QED
        BY <3>1, <3>2, <4>1, <4>2
<1> QED
  BY <1>1, <1>2

\* A fee, and the update that comes before it, keep the invariant.
LEMMA FeeKeeps ==
  ASSUME ReturnsInv, NEW fee \in Nat, add_to_rex_return_pool(fee)
  PROVE  ReturnsInv'
<1> DEFINE u == Updated
           q == IF fee > 0 THEN WithFee(u.pool, fee) ELSE u.pool
<1>1. /\ RowOK(u.pool, u.buckets, u.unlent, now, added, lastFee) /\ u.unlent >= unlent
  BY UpdateKeeps
<1> HIDE DEF u
<1>2. /\ pool' = q /\ buckets' = u.buckets /\ unlent' = u.unlent
      /\ added' = added + fee /\ lastFee' = (IF fee > 0 THEN now ELSE lastFee) /\ now' = now
  BY DEF add_to_rex_return_pool, Store, u
<1>3. /\ now \in 1..MaxTime /\ now > Span /\ lastFee <= now /\ added \in Nat /\ lastFee \in 0..MaxTime
      /\ MaxTime \in Nat /\ now \in Nat /\ lastFee \in Nat /\ Span \in Nat /\ bucket_interval \in Nat
  BY RowIs, ReturnsAssumption, Consts
<1>4. lastFee' \in 0..MaxTime /\ lastFee' <= now /\ lastFee <= lastFee' /\ lastFee' \in Nat
  BY <1>2, <1>3
<1>5. RowOK(q, u.buckets, u.unlent, now, added', lastFee')
  <2>1. CASE fee = 0
    <3>1. q = u.pool /\ lastFee' = lastFee /\ added' = added
      BY <1>2, <1>3, <2>1
    <3> QED
      BY <1>1, <3>1
  <2>2. CASE fee > 0
    <3> DEFINE p == u.pool
    <3>1. q = WithFee(p, fee) /\ lastFee' = now /\ added' = added + fee
      BY <1>2, <2>2
    <3> HIDE DEF q
    <3>2. /\ p \in [created : BOOLEAN, last_dist_time : Times, pending_bucket_time : Times,
                    oldest_bucket_time : Times, pending_bucket_proceeds : Nat,
                    current_rate_of_increase : Nat, proceeds : Nat]
          /\ DOMAIN u.buckets \subseteq Times /\ u.buckets \in [DOMAIN u.buckets -> Nat] /\ u.unlent \in Nat
      BY <1>1 DEF RowOK
    <3>3. /\ Whole(FillingUntil) /\ FillingUntil \in Nat /\ FillingUntil \in Times
          /\ now < FillingUntil /\ FillingUntil <= now + bucket_interval /\ FillingUntil < Maximum
      BY <1>3, FillingOK, ReturnsAssumption DEF Times, Minimum
    <3> HIDE DEF p
    <3>4. /\ q.created = TRUE
          /\ q.last_dist_time = (IF p.created THEN p.last_dist_time ELSE FillingUntil)
          /\ q.pending_bucket_proceeds = p.pending_bucket_proceeds + fee
          /\ q.proceeds = p.proceeds + fee
          /\ q.pending_bucket_time = (IF p.pending_bucket_time = Maximum THEN FillingUntil ELSE p.pending_bucket_time)
          /\ q.oldest_bucket_time = p.oldest_bucket_time
          /\ q.current_rate_of_increase = p.current_rate_of_increase
          /\ q \in [created : BOOLEAN, last_dist_time : Times, pending_bucket_time : Times,
                    oldest_bucket_time : Times, pending_bucket_proceeds : Nat,
                    current_rate_of_increase : Nat, proceeds : Nat]
      <4>1. q = [created |-> TRUE,
                 last_dist_time |-> IF p.created THEN p.last_dist_time ELSE FillingUntil,
                 pending_bucket_time |-> IF p.pending_bucket_time = Maximum THEN FillingUntil ELSE p.pending_bucket_time,
                 oldest_bucket_time |-> p.oldest_bucket_time,
                 pending_bucket_proceeds |-> p.pending_bucket_proceeds + fee,
                 current_rate_of_increase |-> p.current_rate_of_increase,
                 proceeds |-> p.proceeds + fee]
        BY <3>1, <3>2 DEF WithFee
      <4>2. /\ p.last_dist_time \in Times /\ p.pending_bucket_time \in Times /\ p.oldest_bucket_time \in Times
            /\ p.pending_bucket_proceeds + fee \in Nat /\ p.proceeds + fee \in Nat /\ p.current_rate_of_increase \in Nat
        BY <3>2
      <4> QED
        BY <3>3, <4>1, <4>2
    <3>5. /\ \A t \in DOMAIN u.buckets :
            /\ Whole(t) /\ t <= p.last_dist_time /\ t + Span > p.last_dist_time
            /\ t <= now /\ t <= lastFee + bucket_interval
            /\ p.pending_bucket_time # Maximum => t < p.pending_bucket_time
          /\ p.created => Whole(p.last_dist_time)
          /\ ~p.created => DOMAIN u.buckets = {} /\ p.pending_bucket_time = Maximum
          /\ IF p.pending_bucket_time = Maximum THEN p.pending_bucket_proceeds = 0
             ELSE /\ Whole(p.pending_bucket_time) /\ p.last_dist_time <= p.pending_bucket_time
                  /\ p.pending_bucket_time <= lastFee + bucket_interval
          /\ p.pending_bucket_time = Maximum => p.last_dist_time <= now
          /\ u.unlent + p.proceeds = added
          /\ p.current_rate_of_increase = Total(u.buckets)
          /\ p.oldest_bucket_time = Oldest(u.buckets)
      BY <1>1 DEF RowOK, p
    <3>6. /\ p.last_dist_time \in Nat /\ p.pending_bucket_time \in Nat /\ p.proceeds \in Nat
          /\ p.pending_bucket_proceeds \in Nat /\ p.created \in BOOLEAN
      BY <3>2, ReturnsAssumption DEF Times, Minimum
    <3> DEFINE owed(time) == Total([t \in DOMAIN u.buckets |-> u.buckets[t] * (total_intervals - Elapsed(time, t))])
    <3>7. p.proceeds = p.pending_bucket_proceeds + owed(p.last_dist_time)
      BY <1>1 DEF RowOK, p
    <3>8. owed(q.last_dist_time) = owed(p.last_dist_time)
      <4>1. CASE p.created
        BY <3>4, <4>1
      <4>2. CASE ~p.created
        <5>1. DOMAIN u.buckets = {}
          BY <3>5, <4>2
        <5>2. \A time : owed(time) = 0
          BY <5>1, SumOfNone DEF Total
        <5> QED
          BY <5>2
      <4> QED
        BY <4>1, <4>2
    <3>9. owed(p.last_dist_time) \in Int
      <4> DEFINE f == [t \in DOMAIN u.buckets |-> u.buckets[t] * (total_intervals - Elapsed(p.last_dist_time, t))]
      <4>1. IsFiniteSet(DOMAIN u.buckets)
        <5>1. IsFiniteSet(0..Maximum)
          BY FS_Interval, ReturnsAssumption
        <5> QED
          BY <3>2, <5>1, FS_Subset DEF Times, Minimum
      <4>2. \A t \in DOMAIN u.buckets : f[t] \in Int
        <5> SUFFICES ASSUME NEW t \in DOMAIN u.buckets PROVE f[t] \in Int
          OBVIOUS
        <5>1. t \in Nat /\ p.created /\ Whole(t) /\ Whole(p.last_dist_time) /\ t <= p.last_dist_time
          BY <3>5, <3>6 DEF Whole
        <5>2. Elapsed(p.last_dist_time, t) \in Int
          BY <5>1, WholeOrder
        <5>3. u.buckets[t] \in Nat
          BY <3>2
        <5> QED
          BY <5>2, <5>3, Consts
      <4>3. Total(f) = SumOf(f, DOMAIN u.buckets)
        BY DEF Total
      <4> HIDE DEF f
      <4>4. Total(f) \in Int
        BY <4>1, <4>2, <4>3, SumOfType
      <4> QED
        BY <4>4 DEF f
    <3> HIDE DEF owed
    <3>10. q.proceeds = q.pending_bucket_proceeds + owed(q.last_dist_time)
      BY <3>4, <3>6, <3>7, <3>8, <3>9
    <3>11. u.unlent + q.proceeds = added + fee
      BY <1>3, <3>2, <3>4, <3>5, <3>6
    <3>12. \A t \in DOMAIN u.buckets :
            /\ Whole(t) /\ t <= q.last_dist_time /\ t + Span > q.last_dist_time
            /\ t <= now /\ t <= now + bucket_interval
            /\ q.pending_bucket_time # Maximum => t < q.pending_bucket_time
      <4> SUFFICES ASSUME NEW t \in DOMAIN u.buckets
                   PROVE  /\ Whole(t) /\ t <= q.last_dist_time /\ t + Span > q.last_dist_time
                          /\ t <= now /\ t <= now + bucket_interval
                          /\ q.pending_bucket_time # Maximum => t < q.pending_bucket_time
        OBVIOUS
      <4>1. p.created /\ Whole(t) /\ t \in Nat /\ t <= now
        BY <3>5, <3>6 DEF Whole
      <4> QED
        BY <1>3, <3>3, <3>4, <3>5, <4>1
    <3>13. IF q.pending_bucket_time = Maximum THEN q.pending_bucket_proceeds = 0
           ELSE /\ Whole(q.pending_bucket_time) /\ q.last_dist_time <= q.pending_bucket_time
                /\ q.pending_bucket_time <= now + bucket_interval
      <4>1. CASE p.pending_bucket_time = Maximum
        BY <1>3, <3>3, <3>4, <3>5, <3>6, <4>1
      <4>2. CASE p.pending_bucket_time # Maximum
        BY <1>3, <3>3, <3>4, <3>5, <3>6, <4>2
      <4> QED
        BY <4>1, <4>2
    <3>14. q.created => Whole(q.last_dist_time)
      BY <3>3, <3>4, <3>5
    <3>15. q.pending_bucket_time # Maximum
      BY <3>3, <3>4, <3>6, ReturnsAssumption
    <3> QED
      BY <3>1, <3>2, <3>4, <3>5, <3>10, <3>11, <3>12, <3>13, <3>14, <3>15 DEF RowOK, owed
  <2> QED
    BY <2>1, <2>2
<1>6. RowOK(pool', buckets', unlent', now', added', lastFee')
  <2> HIDE DEF q
  <2> QED BY <1>2, <1>5
<1>7. added' \in Nat
  BY <1>2, <1>3
<1> QED
  BY <1>2, <1>3, <1>4, <1>6, <1>7, RowIsNext

\* Time passing keeps the invariant.
LEMMA TickKeeps ==
  ASSUME ReturnsInv, Tick
  PROVE  ReturnsInv'
<1>1. /\ RowOK(pool, buckets, unlent, now, added, lastFee)
      /\ now \in 1..MaxTime /\ now > Span /\ lastFee <= now
      /\ added \in Nat /\ lastFee \in 0..MaxTime
  BY RowIs
<1>2. /\ pool' = pool /\ buckets' = buckets /\ unlent' = unlent /\ added' = added /\ lastFee' = lastFee
      /\ now' = now + 1 /\ now < MaxTime
  BY DEF Tick, returnVars
<1>3. MaxTime \in Nat /\ now \in Nat /\ lastFee \in Nat /\ Span \in Nat
  BY <1>1, ReturnsAssumption, Consts
<1>4. RowOK(pool, buckets, unlent, now + 1, added, lastFee)
  <2>1. \A t \in DOMAIN buckets : t \in Nat
    BY <1>1 DEF RowOK, Whole
  <2>2. pool.last_dist_time \in Nat
    BY <1>1, ReturnsAssumption DEF RowOK, Times, Minimum
  <2> QED
    BY <1>1, <1>3, <2>1, <2>2 DEF RowOK
<1> QED
  BY <1>1, <1>2, <1>3, <1>4, RowIsNext

\* An action that leaves the return pool alone keeps the invariant.
LEMMA AsideKeeps ==
  ASSUME ReturnsInv, UNCHANGED <<now, returnVars>>
  PROVE  ReturnsInv'
<1>1. /\ pool' = pool /\ buckets' = buckets /\ unlent' = unlent /\ added' = added /\ lastFee' = lastFee
      /\ now' = now
  BY DEF returnVars
<1> QED
  BY <1>1, RowIs, RowIsNext

\* The return pool starts empty.
LEMMA ReturnsStart ==
  ASSUME ReturnsInit
  PROVE  ReturnsInv
<1>1. /\ pool = [created |-> FALSE, last_dist_time |-> Minimum, pending_bucket_time |-> Maximum,
                 oldest_bucket_time |-> Minimum, pending_bucket_proceeds |-> 0,
                 current_rate_of_increase |-> 0, proceeds |-> 0]
      /\ buckets = NoBuckets /\ unlent = 0 /\ added = 0 /\ lastFee = 0
      /\ now \in (Span + 1)..(Span + bucket_interval)
  BY DEF ReturnsInit
<1>2. now \in 1..MaxTime /\ now > Span /\ lastFee <= now /\ added \in Nat /\ lastFee \in 0..MaxTime
  BY <1>1, Consts, ReturnsAssumption DEF Span
<1>3. DOMAIN buckets = {} /\ Minimum \in Times /\ Maximum \in Times /\ Minimum = 0
  BY <1>1, ReturnsAssumption DEF NoBuckets, Times, Minimum
<1>4. Total(buckets) = 0
  BY <1>3, SumOfNone DEF Total
<1>5. Total([t \in DOMAIN buckets |-> buckets[t] * (total_intervals - Elapsed(pool.last_dist_time, t))]) = 0
  BY <1>3, SumOfNone DEF Total
<1>6. Oldest(buckets) = Minimum
  BY <1>3 DEF Oldest
<1>7. buckets \in [DOMAIN buckets -> Nat]
  BY <1>1 DEF NoBuckets
<1>8. RowOK(pool, buckets, unlent, now, added, lastFee)
  BY <1>1, <1>2, <1>3, <1>4, <1>5, <1>6, <1>7 DEF RowOK
<1> QED
  BY <1>2, <1>8, RowIs

\* What the invariant says of an up-to-date pool.
LEMMA ReturnsPaid ==
  ASSUME ReturnsInv
  PROVE  PaidInFull
<1>1. SUFFICES ASSUME pool.created, pool.last_dist_time >= lastFee + bucket_interval + Span
      PROVE  unlent = added /\ pool.current_rate_of_increase = 0
  BY DEF PaidInFull
<1>2. RowOK(pool, buckets, unlent, now, added, lastFee) /\ lastFee \in Nat
  BY RowIs
<1>3. pool.last_dist_time \in Nat /\ unlent \in Nat /\ bucket_interval \in Nat /\ Span \in Nat /\ Span > 0
  <2>1. total_intervals * dist_interval > 0
    BY Consts
  <2> QED
    BY <1>2, <2>1, ReturnsAssumption, Consts DEF RowOK, Times, Minimum, Span
<1>4. DOMAIN buckets = {}
  <2> SUFFICES ASSUME NEW t \in DOMAIN buckets PROVE FALSE
    OBVIOUS
  <2>1. t \in Nat /\ t + Span > pool.last_dist_time /\ t <= lastFee + bucket_interval
    BY <1>2 DEF RowOK, Whole
  <2> QED
    BY <1>1, <1>2, <1>3, <2>1
<1>5. pool.pending_bucket_time = Maximum
  <2> SUFFICES ASSUME pool.pending_bucket_time # Maximum PROVE FALSE
    OBVIOUS
  <2>1. /\ pool.pending_bucket_time \in Nat /\ pool.last_dist_time <= pool.pending_bucket_time
        /\ pool.pending_bucket_time <= lastFee + bucket_interval
    BY <1>2 DEF RowOK, Whole
  <2> QED
    BY <1>1, <1>2, <1>3, <2>1
<1>6. pool.pending_bucket_proceeds = 0 /\ Total(buckets) = 0
  BY <1>2, <1>4, <1>5, SumOfNone DEF RowOK, Total
<1>7. Total([t \in DOMAIN buckets |-> buckets[t] * (total_intervals - Elapsed(pool.last_dist_time, t))]) = 0
  BY <1>4, SumOfNone DEF Total
<1>8. pool.proceeds = 0
  BY <1>2, <1>6, <1>7 DEF RowOK
<1> QED
  BY <1>2, <1>3, <1>6, <1>8 DEF RowOK

-----------------------------------------------------------------------------
(* The buckets of a row of rexbal.                                         *)

Bucket == [at : Nat, rex : Nat]

\* The REX in the buckets s that matures after a time.
Weights(s, time) == [i \in DOMAIN s |-> IF s[i].at > time THEN s[i].rex ELSE 0]
Mass(s, time)    == SumOf(Weights(s, time), DOMAIN s)

\* The buckets are in the order of their times; the last may be that of the savings.
Maturities(s) ==
    /\ s \in Seq(Bucket)
    /\ \A i, j \in DOMAIN s : i < j => s[i].at < s[j].at
    /\ \A i \in DOMAIN s : s[i].at <= get_rex_maturity \/ s[i].at = Maximum

\* The entries summed.
LEMMA WeightsType ==
  ASSUME NEW s \in Seq(Bucket), NEW time \in Int
  PROVE  /\ Len(s) \in Nat /\ DOMAIN s = 1..Len(s) /\ IsFiniteSet(1..Len(s))
         /\ \A i \in 1..Len(s) : s[i] \in Bucket /\ s[i].at \in Nat /\ s[i].rex \in Nat
         /\ \A i \in 1..Len(s) : /\ Weights(s, time)[i] = (IF s[i].at > time THEN s[i].rex ELSE 0)
                                 /\ Weights(s, time)[i] \in Int /\ Weights(s, time)[i] >= 0
         /\ Mass(s, time) \in Nat
<1>1. Len(s) \in Nat /\ DOMAIN s = 1..Len(s) /\ \A i \in 1..Len(s) : s[i] \in Bucket
  BY LenProperties, ElementOfSeq
<1>2. IsFiniteSet(1..Len(s))
  BY <1>1, FS_Interval
<1>3. \A i \in 1..Len(s) : s[i].at \in Nat /\ s[i].rex \in Nat
  BY <1>1 DEF Bucket
<1>4. \A i \in 1..Len(s) : /\ Weights(s, time)[i] = (IF s[i].at > time THEN s[i].rex ELSE 0)
                           /\ Weights(s, time)[i] \in Int /\ Weights(s, time)[i] >= 0
  BY <1>1, <1>3 DEF Weights
<1>5. Mass(s, time) \in Nat
  BY <1>1, <1>2, <1>4, SumOfType DEF Mass
<1> QED
  BY <1>1, <1>2, <1>3, <1>4, <1>5

\* No buckets hold nothing.
LEMMA MassNone ==
  ASSUME NEW time \in Int
  PROVE  Mass(<<>>, time) = 0
<1>1. DOMAIN <<>> = {}
  OBVIOUS
<1> QED
  BY <1>1, SumOfNone DEF Mass

\* The prefix sums of a table of the numbers 1 to n.
LEMMA PrefixSum ==
  ASSUME NEW n \in Nat, NEW f, \A i \in 1..(n + 1) : f[i] \in Int
  PROVE  SumOf(f, 1..(n + 1)) = SumOf(f, 1..n) + f[n + 1] /\ SumOf(f, 1..n) \in Int
<1>1. 1..(n + 1) = (1..n) \cup {n + 1} /\ n + 1 \notin 1..n /\ IsFiniteSet(1..n)
  BY FS_Interval
<1>2. \A x \in (1..n) \cup {n + 1} : f[x] \in Int
  BY <1>1
<1>3. SumOf(f, (1..n) \cup {n + 1}) = SumOf(f, 1..n) + f[n + 1] /\ SumOf(f, 1..n) \in Int
  BY <1>1, <1>2, SumOfOneMore
<1> QED
  BY <1>1, <1>3

\* One bucket more.
LEMMA MassAppend ==
  ASSUME NEW s \in Seq(Bucket), NEW e \in Bucket, NEW time \in Int
  PROVE  Mass(Append(s, e), time) = Mass(s, time) + (IF e.at > time THEN e.rex ELSE 0)
<1> DEFINE r == Append(s, e)
<1>1. r \in Seq(Bucket) /\ Len(r) = Len(s) + 1 /\ (\A i \in 1..Len(s) : r[i] = s[i]) /\ r[Len(s) + 1] = e
  BY AppendProperties
<1>2. /\ Len(s) \in Nat /\ DOMAIN s = 1..Len(s)
      /\ \A i \in 1..Len(s) : Weights(s, time)[i] = (IF s[i].at > time THEN s[i].rex ELSE 0)
  BY WeightsType
<1> HIDE DEF r
<1>3. /\ DOMAIN r = 1..Len(r)
      /\ \A i \in 1..Len(r) : /\ Weights(r, time)[i] = (IF r[i].at > time THEN r[i].rex ELSE 0)
                              /\ Weights(r, time)[i] \in Int
  BY <1>1, WeightsType
<1>4. SumOf(Weights(r, time), 1..(Len(s) + 1)) = SumOf(Weights(r, time), 1..Len(s)) + Weights(r, time)[Len(s) + 1]
  BY <1>1, <1>2, <1>3, PrefixSum
<1>5. \A i \in 1..Len(s) : Weights(r, time)[i] = Weights(s, time)[i]
  BY <1>1, <1>2, <1>3
<1>6. SumOf(Weights(r, time), 1..Len(s)) = SumOf(Weights(s, time), 1..Len(s))
  BY <1>5, SumOfSame
<1>7. Weights(r, time)[Len(s) + 1] = (IF e.at > time THEN e.rex ELSE 0)
  BY <1>1, <1>2, <1>3
<1> QED
  BY <1>1, <1>2, <1>3, <1>4, <1>6, <1>7 DEF Mass, r

\* The buckets after some place.
LEMMA SuffixIs ==
  ASSUME NEW s \in Seq(Bucket), NEW n \in 0..Len(s)
  PROVE  LET b == SubSeq(s, n + 1, Len(s))
         IN  b \in Seq(Bucket) /\ Len(b) = Len(s) - n /\ \A i \in 1..(Len(s) - n) : b[i] = s[n + i]
<1> DEFINE b == SubSeq(s, n + 1, Len(s))
<1>1. Len(s) \in Nat /\ DOMAIN s = 1..Len(s) /\ (\A i \in 1..Len(s) : s[i] \in Bucket)
  BY LenProperties, ElementOfSeq
<1>3. b \in Seq(Bucket) /\ Len(b) = Len(s) - n /\ \A i \in 1..(Len(s) - n) : b[i] = s[n + i]
  <2>1. n + 1 \in Int /\ Len(s) \in Int /\ \A i \in (n + 1)..Len(s) : s[i] \in Bucket
    BY <1>1
  <2>2. /\ b \in Seq(Bucket) /\ Len(b) = (IF n + 1 <= Len(s) THEN Len(s) - (n + 1) + 1 ELSE 0)
        /\ \A i \in 1..(Len(s) - (n + 1) + 1) : b[i] = s[(n + 1) + i - 1]
    BY <2>1, SubSeqProperties
  <2> HIDE DEF b
  <2>3. Len(s) - (n + 1) + 1 = Len(s) - n /\ \A i \in 1..(Len(s) - n) : (n + 1) + i - 1 = n + i
    BY <1>1
  <2>4. Len(b) = Len(s) - n
    <3>1. Len(s) \in Nat /\ n \in Nat /\ n <= Len(s)
      BY <1>1
    <3>2. Len(b) = (IF n + 1 <= Len(s) THEN Len(s) - (n + 1) + 1 ELSE 0)
      BY <2>2
    <3> HIDE DEF b
    <3>3. CASE n + 1 <= Len(s)
      BY <3>1, <3>2, <3>3
    <3>4. CASE ~(n + 1 <= Len(s))
      BY <3>1, <3>2, <3>4
    <3> QED
      BY <3>3, <3>4
  <2>5. ASSUME NEW i \in 1..(Len(s) - n) PROVE b[i] = s[n + i]
    <3>1. b[i] = s[(n + 1) + i - 1]
      BY <2>2, <2>3
    <3> QED
      BY <2>3, <3>1
  <2> QED
    BY <2>2, <2>4, <2>5
<1> QED
  BY <1>3

\* The buckets up to some place, and those after it.
LEMMA MassSplit ==
  ASSUME NEW s \in Seq(Bucket), NEW n \in 0..Len(s), NEW time \in Int
  PROVE  /\ SubSeq(s, 1, n) \in Seq(Bucket) /\ SubSeq(s, n + 1, Len(s)) \in Seq(Bucket)
         /\ Mass(s, time) = Mass(SubSeq(s, 1, n), time) + Mass(SubSeq(s, n + 1, Len(s)), time)
<1> DEFINE f == Weights(s, time)
           a == SubSeq(s, 1, n)
           b == SubSeq(s, n + 1, Len(s))
           g == Weights(b, time)
           G == {k \in Nat : k <= Len(s) - n => SumOf(g, 1..k) + SumOf(f, 1..n) = SumOf(f, 1..(n + k))}
<1>1. /\ Len(s) \in Nat /\ DOMAIN s = 1..Len(s) /\ (\A i \in 1..Len(s) : s[i] \in Bucket /\ f[i] \in Int)
      /\ \A i \in 1..Len(s) : f[i] = (IF s[i].at > time THEN s[i].rex ELSE 0)
  BY WeightsType
<1>2. a \in Seq(Bucket) /\ Len(a) = n /\ \A i \in 1..n : a[i] = s[i]
  BY <1>1, SubSeqProperties
<1>3. b \in Seq(Bucket) /\ Len(b) = Len(s) - n /\ \A i \in 1..(Len(s) - n) : b[i] = s[n + i]
  BY SuffixIs
<1> HIDE DEF a, b
<1>4. /\ DOMAIN a = 1..n /\ DOMAIN b = 1..(Len(s) - n)
      /\ \A i \in 1..n : Weights(a, time)[i] = (IF a[i].at > time THEN a[i].rex ELSE 0)
      /\ \A i \in 1..(Len(s) - n) : g[i] = (IF b[i].at > time THEN b[i].rex ELSE 0) /\ g[i] \in Int
  BY <1>2, <1>3, WeightsType
<1> HIDE DEF f, g
<1>5. \A i \in 1..n : Weights(a, time)[i] = f[i]
  BY <1>1, <1>2, <1>4
<1>6. \A i \in 1..(Len(s) - n) : g[i] = f[n + i]
  BY <1>1, <1>3, <1>4
<1>7. SumOf(f, 1..n) \in Int
  <2>1. IsFiniteSet(1..n) /\ \A x \in 1..n : f[x] \in Int
    BY <1>1, FS_Interval
  <2> QED BY <2>1, SumOfType
<1>8. 0 \in G
  <2>1. 1..0 = {} /\ n + 0 = n
    BY <1>1
  <2> QED
    BY <1>7, <2>1, SumOfNone
<1>9. ASSUME NEW k \in Nat, k \in G PROVE k + 1 \in G
  <2> SUFFICES ASSUME k + 1 <= Len(s) - n
               PROVE  SumOf(g, 1..(k + 1)) + SumOf(f, 1..n) = SumOf(f, 1..(n + (k + 1)))
    OBVIOUS
  <2>1. \A i \in 1..(k + 1) : g[i] \in Int /\ i \in 1..(Len(s) - n)
    BY <1>1, <1>4
  <2>2. SumOf(g, 1..(k + 1)) = SumOf(g, 1..k) + g[k + 1] /\ SumOf(g, 1..k) \in Int
    BY <2>1, PrefixSum
  <2>3. \A i \in 1..((n + k) + 1) : f[i] \in Int
    BY <1>1
  <2>4. SumOf(f, 1..((n + k) + 1)) = SumOf(f, 1..(n + k)) + f[(n + k) + 1]
    BY <1>1, <2>3, PrefixSum
  <2>5. g[k + 1] = f[n + (k + 1)] /\ n + (k + 1) = (n + k) + 1 /\ g[k + 1] \in Int
    <3>1. k + 1 \in 1..(k + 1) /\ n + (k + 1) = (n + k) + 1
      BY <1>1
    <3>2. k + 1 \in 1..(Len(s) - n) /\ g[k + 1] \in Int
      BY <2>1, <3>1
    <3> QED
      BY <1>6, <3>1, <3>2
  <2>6. SumOf(g, 1..k) + SumOf(f, 1..n) = SumOf(f, 1..(n + k))
    BY <1>1, <1>9
  <2> QED
    BY <1>7, <2>2, <2>4, <2>5, <2>6
<1>10. \A k \in Nat : k \in G
  <2> HIDE DEF G
  <2> QED BY <1>8, <1>9, Counting
<1>11. SumOf(g, 1..(Len(s) - n)) + SumOf(f, 1..n) = SumOf(f, 1..Len(s))
  <2>1. Len(s) - n \in Nat /\ n + (Len(s) - n) = Len(s)
    BY <1>1
  <2> QED
    BY <1>10, <2>1
<1>12. SumOf(Weights(a, time), 1..n) = SumOf(f, 1..n)
  BY <1>5, SumOfSame
<1>13. /\ Mass(s, time) = SumOf(f, 1..Len(s))
       /\ Mass(a, time) = SumOf(Weights(a, time), 1..n)
       /\ Mass(b, time) = SumOf(g, 1..(Len(s) - n))
  BY <1>1, <1>4 DEF Mass, f, g
<1>14. Mass(a, time) \in Nat /\ Mass(b, time) \in Nat
  BY <1>2, <1>3, WeightsType
<1>15. Mass(s, time) = Mass(a, time) + Mass(b, time)
  BY <1>7, <1>11, <1>12, <1>13, <1>14
<1> QED
  BY <1>2, <1>3, <1>15 DEF a, b

\* The last bucket, and the others.
LEMMA MassLast ==
  ASSUME NEW s \in Seq(Bucket), s # <<>>, NEW time \in Int
  PROVE  /\ Front(s) \in Seq(Bucket) /\ Len(Front(s)) = Len(s) - 1 /\ Len(s) \in Nat \ {0}
         /\ \A i \in 1..(Len(s) - 1) : Front(s)[i] = s[i]
         /\ Last(s) \in Bucket /\ Last(s).at \in Nat /\ Last(s).rex \in Nat
         /\ Last(s) = s[Len(s)]
         /\ Mass(s, time) = Mass(Front(s), time) + (IF Last(s).at > time THEN Last(s).rex ELSE 0)
<1>1. Len(s) \in Nat \ {0} /\ \A i \in 1..Len(s) : s[i] \in Bucket
  BY EmptySeq, WeightsType
<1>2. /\ Front(s) \in Seq(Bucket) /\ Len(Front(s)) = Len(s) - 1
      /\ \A i \in 1..(Len(s) - 1) : Front(s)[i] = s[i]
  <2>1. 1 \in Int /\ Len(s) - 1 \in Int /\ \A i \in 1..(Len(s) - 1) : s[i] \in Bucket
    BY <1>1
  <2>2. /\ Front(s) \in Seq(Bucket) /\ Len(Front(s)) = (IF 1 <= Len(s) - 1 THEN (Len(s) - 1) - 1 + 1 ELSE 0)
        /\ \A i \in 1..((Len(s) - 1) - 1 + 1) : Front(s)[i] = s[1 + i - 1]
    BY <2>1, SubSeqProperties DEF Front
  <2>3. (Len(s) - 1) - 1 + 1 = Len(s) - 1 /\ \A i \in 1..(Len(s) - 1) : 1 + i - 1 = i
    BY <1>1
  <2>4. Len(Front(s)) = Len(s) - 1
    <3>1. Len(s) \in Nat /\ Len(s) >= 1
      BY <1>1
    <3>2. Len(Front(s)) = (IF 1 <= Len(s) - 1 THEN (Len(s) - 1) - 1 + 1 ELSE 0)
      BY <2>2
    <3> DEFINE k == Len(s)
               m == Len(Front(s))
    <3> HIDE DEF k, m
    <3>3. m = k - 1
      <4>1. k \in Nat /\ k >= 1 /\ m = (IF 1 <= k - 1 THEN (k - 1) - 1 + 1 ELSE 0)
        BY <3>1, <3>2 DEF k, m
      <4> QED BY <4>1
    <3> QED
      BY <3>3 DEF k, m
  <2>5. ASSUME NEW i \in 1..(Len(s) - 1) PROVE Front(s)[i] = s[i]
    <3>1. Front(s)[i] = s[1 + i - 1]
      BY <2>2, <2>3
    <3> QED
      BY <2>3, <3>1
  <2> QED
    BY <2>2, <2>4, <2>5
<1>3. Last(s) \in Bucket /\ Last(s) = s[Len(s)]
  BY <1>1 DEF Last
<1>4. s = Append(Front(s), Last(s))
  <2> DEFINE r == Append(Front(s), Last(s))
  <2>1. r \in Seq(Bucket) /\ Len(r) = Len(s) /\ (\A i \in 1..(Len(s) - 1) : r[i] = s[i]) /\ r[Len(s)] = s[Len(s)]
    BY <1>1, <1>2, <1>3, AppendProperties
  <2> HIDE DEF r
  <2>2. \A i \in 1..Len(s) : r[i] = s[i]
    BY <1>1, <2>1
  <2>3. r = s
    BY <2>1, <2>2, SeqEqual
  <2> QED
    BY <2>3 DEF r
<1>5. Mass(Append(Front(s), Last(s)), time) = Mass(Front(s), time) + (IF Last(s).at > time THEN Last(s).rex ELSE 0)
  BY <1>2, <1>3, MassAppend
<1> QED
  BY <1>1, <1>2, <1>3, <1>4, <1>5 DEF Bucket

\* Less matures after a later time; nothing after all of the times; all after an earlier one.
LEMMA MassOrder ==
  ASSUME NEW s \in Seq(Bucket), NEW t0 \in Int, NEW t1 \in Int
  PROVE  /\ t0 <= t1 => Mass(s, t1) <= Mass(s, t0)
         /\ (\A i \in DOMAIN s : s[i].at <= t0) => Mass(s, t0) = 0
         /\ (\A i \in DOMAIN s : s[i].at > t0 /\ s[i].at > t1) => Mass(s, t0) = Mass(s, t1)
<1>1. /\ Len(s) \in Nat /\ DOMAIN s = 1..Len(s) /\ IsFiniteSet(1..Len(s))
      /\ \A i \in 1..Len(s) : s[i].at \in Nat /\ s[i].rex \in Nat
      /\ \A i \in 1..Len(s) : Weights(s, t0)[i] = (IF s[i].at > t0 THEN s[i].rex ELSE 0) /\ Weights(s, t0)[i] \in Int
  BY WeightsType
<1>2. \A i \in 1..Len(s) : Weights(s, t1)[i] = (IF s[i].at > t1 THEN s[i].rex ELSE 0) /\ Weights(s, t1)[i] \in Int
  BY WeightsType
<1>3. ASSUME t0 <= t1 PROVE Mass(s, t1) <= Mass(s, t0)
  <2> DEFINE d == [i \in 1..Len(s) |-> Weights(s, t0)[i] - Weights(s, t1)[i]]
  <2>1. \A i \in 1..Len(s) : d[i] \in Int /\ d[i] >= 0 /\ Weights(s, t0)[i] = Weights(s, t1)[i] + d[i]
    BY <1>1, <1>2, <1>3
  <2> HIDE DEF d
  <2>2. SumOf(Weights(s, t0), 1..Len(s)) = SumOf(Weights(s, t1), 1..Len(s)) + SumOf(d, 1..Len(s))
    BY <1>1, <1>2, <2>1, SumOfAdd
  <2>3. SumOf(d, 1..Len(s)) \in Nat /\ SumOf(Weights(s, t1), 1..Len(s)) \in Int
    BY <1>1, <1>2, <2>1, SumOfType
  <2> QED
    BY <1>1, <2>2, <2>3 DEF Mass
<1>4. ASSUME \A i \in DOMAIN s : s[i].at <= t0 PROVE Mass(s, t0) = 0
  <2>1. \A i \in 1..Len(s) : Weights(s, t0)[i] = 0
    BY <1>1, <1>4
  <2>2. SumOf(Weights(s, t0), 1..Len(s)) = SumOf(Weights(s, t0), {})
    BY <1>1, <2>1, SumOfSupport
  <2> QED
    BY <1>1, <2>2, SumOfNone DEF Mass
<1>5. ASSUME \A i \in DOMAIN s : s[i].at > t0 /\ s[i].at > t1 PROVE Mass(s, t0) = Mass(s, t1)
  <2>1. \A i \in 1..Len(s) : Weights(s, t0)[i] = Weights(s, t1)[i]
    BY <1>1, <1>2, <1>5
  <2> QED
    BY <1>1, <2>1, SumOfSame DEF Mass
<1> QED
  BY <1>3, <1>4, <1>5

\* The model's sums over buckets.
LEMMA SumSeqIs ==
  ASSUME NEW s \in Seq(Bucket)
  PROVE  SumSeq(s) = Mass(s, 0 - 1)
<1> DEFINE f == [i \in DOMAIN s |-> s[i].rex]
<1>1. \A i \in DOMAIN s : f[i] = Weights(s, 0 - 1)[i]
  <2>1. DOMAIN s = 1..Len(s) /\ \A i \in 1..Len(s) : s[i].at \in Nat /\ Weights(s, 0 - 1)[i] = (IF s[i].at > 0 - 1 THEN s[i].rex ELSE 0)
    <3>1. 0 - 1 \in Int
      OBVIOUS
    <3> QED BY <3>1, WeightsType
  <2> QED
    BY <2>1
<1>2. SumSeq(s) = SumOf(f, DOMAIN s)
  BY DEF SumSeq, Total
<1> HIDE DEF f
<1> QED
  BY <1>1, <1>2, SumOfSame DEF Mass

LEMMA HeldIs ==
  ASSUME NEW b, b.rex_maturities \in Seq(Bucket), NEW time \in Int
  PROVE  Held(b, time) = Mass(b.rex_maturities, time)
<1> DEFINE s == b.rex_maturities
           S == {j \in DOMAIN s : s[j].at > time}
           f == [i \in S |-> s[i].rex]
<1>1. /\ DOMAIN s = 1..Len(s) /\ IsFiniteSet(1..Len(s))
      /\ \A i \in 1..Len(s) : Weights(s, time)[i] = (IF s[i].at > time THEN s[i].rex ELSE 0) /\ Weights(s, time)[i] \in Int
  BY WeightsType
<1>2. Held(b, time) = SumOf(f, S)
  BY DEF Held, Total
<1> HIDE DEF s
<1>3. S \in SUBSET (1..Len(s)) /\ \A i \in (1..Len(s)) \ S : Weights(s, time)[i] = 0
  BY <1>1
<1>4. \A i \in S : f[i] = Weights(s, time)[i]
  BY <1>1
<1> HIDE DEF S, f
<1>5. SumOf(Weights(s, time), 1..Len(s)) = SumOf(Weights(s, time), S)
  BY <1>1, <1>3, SumOfSupport
<1>6. SumOf(f, S) = SumOf(Weights(s, time), S)
  BY <1>4, SumOfSame
<1> QED
  BY <1>1, <1>2, <1>5, <1>6 DEF Mass, s

-----------------------------------------------------------------------------
(* The rows of rexbal.                                                     *)

RexRow == [vote_stake : Nat, rex_balance : Nat, matured_rex : Nat, rex_maturities : Seq(Bucket)]

\* A row whose buckets are in order; none of them is the savings.
Ordered(b)   == b \in RexRow /\ Maturities(b.rex_maturities)
NoSavings(b) == \A i \in DOMAIN b.rex_maturities : b.rex_maturities[i].at <= get_rex_maturity

\* The REX that matures after a time, and all REX, of a row.
Young(b, time) == Mass(b.rex_maturities, time)
AllRex(b)      == b.matured_rex + Young(b, 0 - 1)

\* A row of the table accounts for its REX.
HolderOK(b) == Ordered(b) /\ b.rex_balance = AllRex(b)

\* The two rows differ in their buckets and matured REX only.
SameTotals(b, c) == c.vote_stake = b.vote_stake /\ c.rex_balance = b.rex_balance

ClockOK == now \in 1..MaxTime

\* REX bought now matures later, and before the end of days.
LEMMA MaturityIs ==
  ASSUME ClockOK
  PROVE  /\ now \in Nat /\ get_rex_maturity \in Nat /\ now < get_rex_maturity /\ get_rex_maturity < Maximum
         /\ Maximum \in Nat
<1> DEFINE d == seconds_per_day
           n == num_of_maturity_buckets
<1>1. /\ now \in Nat /\ now <= MaxTime /\ d \in Nat \ {0} /\ n \in Nat \ {0} /\ MaxTime \in Nat /\ Maximum \in Nat
      /\ Maximum > MaxTime + n * d
  BY ReturnsAssumption, RexAssumption DEF ClockOK
<1> HIDE DEF d, n
<1>2. now % d \in 0..(d - 1) /\ now = (now \div d) * d + (now % d) /\ now \div d \in Nat
  BY <1>1, DivMod
<1>3. n * d \in Nat /\ d <= n * d
  <2>1. 1 \in Nat /\ 1 <= n
    BY <1>1
  <2>2. d * 1 <= d * n /\ d * n = n * d /\ d * 1 = d
    BY <1>1, <2>1, MulMono, Distrib
  <2>3. n * d \in Nat
    BY <1>1, MulMono
  <2> QED
    BY <2>2, <2>3
<1>4. (now \div d) * d \in Nat
  BY <1>1, <1>2, MulMono
<1>5. now % d \in Nat /\ now % d < d /\ now % d <= now
  BY <1>1, <1>2, <1>4
<1>6. get_rex_maturity = now - (now % d) + n * d
  BY DEF get_rex_maturity, d, n
<1> DEFINE r == now % d
           k == n * d
<1>7. r \in Nat /\ r < d /\ r <= now /\ k \in Nat /\ d <= k /\ get_rex_maturity = now - r + k /\ Maximum > MaxTime + k
  BY <1>1, <1>3, <1>5, <1>6
<1> HIDE DEF r, k
<1> QED
  BY <1>1, <1>7

\* What a row holds.
LEMMA RowTypes ==
  ASSUME NEW b, Ordered(b), NEW time \in Int
  PROVE  /\ b.vote_stake \in Nat /\ b.rex_balance \in Nat /\ b.matured_rex \in Nat /\ b.rex_maturities \in Seq(Bucket)
         /\ Young(b, time) \in Nat /\ AllRex(b) \in Nat
         /\ Young(b, time) <= AllRex(b)
         /\ SumSeq(b.rex_maturities) = Young(b, 0 - 1)
         /\ Held(b, time) = Young(b, time)
<1>1. b.vote_stake \in Nat /\ b.rex_balance \in Nat /\ b.matured_rex \in Nat /\ b.rex_maturities \in Seq(Bucket)
  BY DEF Ordered, RexRow
<1>2. Young(b, time) \in Nat
  BY <1>1, WeightsType DEF Young
<1>3. Young(b, 0 - 1) \in Nat /\ 0 - 1 \in Int
  <2>1. 0 - 1 \in Int
    OBVIOUS
  <2> QED
    BY <1>1, <2>1, WeightsType DEF Young
<1>4. AllRex(b) \in Nat
  BY <1>1, <1>3 DEF AllRex
<1>5. SumSeq(b.rex_maturities) = Young(b, 0 - 1) /\ Held(b, time) = Young(b, time)
  BY <1>1, SumSeqIs, HeldIs DEF Young
<1>6. Young(b, time) <= Young(b, 0 - 1)
  <2>1. CASE 0 - 1 <= time
    BY <1>1, <1>3, <2>1, MassOrder DEF Young
  <2>2. CASE time < 0 - 1
    <3>1. \A i \in DOMAIN b.rex_maturities : b.rex_maturities[i].at > time /\ b.rex_maturities[i].at > 0 - 1
      <4> DEFINE q == b.rex_maturities
      <4>1. DOMAIN q = 1..Len(q) /\ \A i \in 1..Len(q) : q[i].at \in Nat
        BY <1>1, WeightsType
      <4> QED
        BY <2>2, <4>1
    <3>2. Mass(b.rex_maturities, time) = Mass(b.rex_maturities, 0 - 1)
      BY <1>1, <1>3, <3>1, MassOrder
    <3> QED
      BY <1>2, <3>2 DEF Young
  <2> QED
    BY <2>1, <2>2
<1> QED
  BY <1>1, <1>2, <1>3, <1>4, <1>5, <1>6 DEF AllRex

\* The buckets that have matured are at the front.
LEMMA RipeIs ==
  ASSUME NEW s, Maturities(s), NEW time \in Int
  PROVE  /\ Ripe(s, time) \in 0..Len(s)
         /\ \A i \in 1..Ripe(s, time) : s[i].at <= time
         /\ \A i \in (Ripe(s, time) + 1)..Len(s) : s[i].at > time
<1>1. s \in Seq(Bucket) /\ \A i, j \in DOMAIN s : i < j => s[i].at < s[j].at
  BY DEF Maturities
<1>2. Len(s) \in Nat /\ DOMAIN s = 1..Len(s) /\ \A i \in 1..Len(s) : s[i].at \in Nat
  BY <1>1, WeightsType
<1> DEFINE P(n) == (\A i \in 1..n : s[i].at <= time) /\ (n < Len(s) => s[n + 1].at > time)
           T == {n \in 0..Len(s) : \A i \in 1..n : s[i].at <= time}
<1>3. 0 \in T
  BY <1>2
<1>4. IsFiniteSet(T) /\ T \in SUBSET Nat
  <2>1. IsFiniteSet(0..Len(s)) /\ T \subseteq 0..Len(s)
    BY <1>2, FS_Interval
  <2> QED
    BY <1>2, <2>1, FS_Subset
<1>5. PICK m \in T : \A n \in T : n <= m
  BY <1>3, <1>4, GreatestNatural
<1>6. m \in 0..Len(s) /\ P(m)
  <2>1. m \in 0..Len(s) /\ \A i \in 1..m : s[i].at <= time
    OBVIOUS
  <2>2. ASSUME m < Len(s), ~(s[m + 1].at > time) PROVE FALSE
    <3>1. m + 1 \in 0..Len(s) /\ m + 1 \in 1..Len(s)
      BY <1>2, <2>1, <2>2
    <3>2. \A i \in 1..(m + 1) : s[i].at <= time
      BY <1>2, <2>1, <2>2, <3>1
    <3>3. m + 1 \in T
      BY <3>1, <3>2
    <3> QED
      BY <1>2, <1>5, <2>1, <3>3
  <2> QED
    BY <2>1, <2>2
<1>7. Ripe(s, time) \in 0..Len(s) /\ P(Ripe(s, time))
  <2>1. \E n \in 0..Len(s) : EndsAt(s, time, n)
    BY <1>6 DEF EndsAt
  <2>2. Ripe(s, time) \in 0..Len(s) /\ EndsAt(s, time, Ripe(s, time))
    BY <2>1 DEF Ripe
  <2> QED
    BY <2>2 DEF EndsAt
<1> DEFINE r == Ripe(s, time)
<1>8. r \in Nat /\ r <= Len(s) /\ (\A i \in 1..r : s[i].at <= time) /\ (r < Len(s) => s[r + 1].at > time)
  BY <1>2, <1>7
<1> HIDE DEF r
<1>9. ASSUME NEW i \in (r + 1)..Len(s) PROVE s[i].at > time
  <2>1. i \in DOMAIN s /\ r + 1 \in DOMAIN s /\ r + 1 <= i /\ s[r + 1].at > time
    BY <1>2, <1>8
  <2>2. CASE i = r + 1
    BY <2>1, <2>2
  <2>3. CASE r + 1 < i
    <3>1. s[r + 1].at < s[i].at
      BY <1>1, <2>1, <2>3
    <3> QED
      BY <1>2, <2>1, <3>1
  <2> QED
    BY <1>2, <1>8, <2>1, <2>2, <2>3
<1> QED
  BY <1>7, <1>9 DEF r

\* What has matured counts as matured, and nothing else changes.
LEMMA MatureKeeps ==
  ASSUME ClockOK, NEW b, Ordered(b)
  PROVE  LET c == process_rex_maturities(b)
         IN  /\ Ordered(c) /\ SameTotals(b, c) /\ AllRex(c) = AllRex(b) /\ c.matured_rex >= b.matured_rex
             /\ \A time \in Int : time >= now => Young(c, time) = Young(b, time)
             /\ NoSavings(b) => NoSavings(c)
<1> DEFINE s == b.rex_maturities
           n == Ripe(s, now)
           x == SubSeq(s, 1, n)
           y == SubSeq(s, n + 1, Len(s))
           c == process_rex_maturities(b)
<1>1. /\ b.matured_rex \in Nat /\ s \in Seq(Bucket) /\ Maturities(s) /\ b \in RexRow
  BY DEF Ordered, RexRow
<1>2. now \in Int
  BY MaturityIs
<1> HIDE DEF s
<1>3. /\ n \in 0..Len(s) /\ (\A i \in 1..n : s[i].at <= now) /\ (\A i \in (n + 1)..Len(s) : s[i].at > now)
  BY <1>1, <1>2, RipeIs
<1>4. Len(s) \in Nat /\ DOMAIN s = 1..Len(s) /\ (\A i \in 1..Len(s) : s[i] \in Bucket /\ s[i].at \in Nat)
  BY <1>1, <1>2, WeightsType
<1> HIDE DEF n
<1>5. /\ x \in Seq(Bucket) /\ y \in Seq(Bucket)
      /\ \A time \in Int : Mass(s, time) = Mass(x, time) + Mass(y, time)
  <2>1. \A time \in Int : x \in Seq(Bucket) /\ y \in Seq(Bucket) /\ Mass(s, time) = Mass(x, time) + Mass(y, time)
    BY <1>1, <1>3, MassSplit
  <2> QED
    BY <1>2, <2>1
<1>6. Len(x) = n /\ \A i \in 1..n : x[i] = s[i]
  <2>1. \A i \in 1..n : s[i] \in Bucket
    BY <1>3, <1>4
  <2>2. n \in Nat /\ n \in Int
    BY <1>3, <1>4
  <2> QED
    BY <2>1, <2>2, SubSeqProperties
<1>7. Len(y) = Len(s) - n /\ \A i \in 1..(Len(s) - n) : y[i] = s[n + i]
  BY <1>1, <1>3, SuffixIs
<1>8. c = [b EXCEPT !.matured_rex = @ + SumSeq(x), !.rex_maturities = y]
  BY DEF process_rex_maturities, TakeFirst, s, n
<1>9. SumSeq(x) = Mass(x, 0 - 1) /\ Mass(x, 0 - 1) \in Nat
  <2>1. 0 - 1 \in Int
    OBVIOUS
  <2> QED
    BY <1>5, <2>1, SumSeqIs, WeightsType
<1> HIDE DEF x, y, c
<1>10. /\ c \in RexRow /\ c.matured_rex = b.matured_rex + Mass(x, 0 - 1) /\ c.rex_maturities = y /\ SameTotals(b, c)
  <2>1. c = [vote_stake |-> b.vote_stake, rex_balance |-> b.rex_balance,
             matured_rex |-> b.matured_rex + SumSeq(x), rex_maturities |-> y]
    BY <1>1, <1>8 DEF RexRow
  <2>2. b.vote_stake \in Nat /\ b.rex_balance \in Nat /\ b.matured_rex + SumSeq(x) \in Nat
    BY <1>1, <1>9 DEF RexRow
  <2> QED
    BY <1>5, <1>9, <2>1, <2>2 DEF RexRow, SameTotals
<1>11. Len(y) \in Nat /\ DOMAIN y = 1..Len(y)
  BY <1>2, <1>5, WeightsType
<1>12. \A i \in DOMAIN y : n + i \in DOMAIN s /\ y[i] = s[n + i]
  BY <1>3, <1>4, <1>7, <1>11
<1>13. Maturities(y)
  <2>1. \A i, j \in DOMAIN y : i < j => y[i].at < y[j].at
    <3> SUFFICES ASSUME NEW i \in DOMAIN y, NEW j \in DOMAIN y, i < j PROVE y[i].at < y[j].at
      OBVIOUS
    <3>1. n + i \in DOMAIN s /\ n + j \in DOMAIN s /\ n + i < n + j
      BY <1>3, <1>4, <1>11, <1>12
    <3> QED
      BY <1>1, <1>12, <3>1 DEF Maturities
  <2>2. \A i \in DOMAIN y : y[i].at <= get_rex_maturity \/ y[i].at = Maximum
    BY <1>1, <1>12 DEF Maturities
  <2> QED
    BY <1>5, <2>1, <2>2 DEF Maturities
<1>14. Ordered(c)
  BY <1>10, <1>13 DEF Ordered
<1>15. ASSUME NEW time \in Int, time >= now PROVE Young(c, time) = Young(b, time)
  <2>1. \A i \in DOMAIN x : x[i].at <= time
    <3>1. DOMAIN x = 1..n
      BY <1>2, <1>5, <1>6, WeightsType
    <3>2. \A i \in 1..n : x[i] = s[i] /\ s[i].at <= now /\ s[i].at \in Nat
      BY <1>3, <1>4, <1>6
    <3> QED
      BY <1>2, <1>15, <3>1, <3>2
  <2>2. Mass(x, time) = 0
    BY <1>5, <2>1, MassOrder
  <2>3. Mass(y, time) \in Nat
    BY <1>5, WeightsType
  <2> QED
    BY <1>5, <1>10, <2>2, <2>3 DEF Young, s
<1>16. AllRex(c) = AllRex(b)
  <2>1. 0 - 1 \in Int
    OBVIOUS
  <2>2. Mass(y, 0 - 1) \in Nat /\ Mass(s, 0 - 1) = Mass(x, 0 - 1) + Mass(y, 0 - 1)
    BY <1>5, <2>1, WeightsType
  <2>3. AllRex(c) = c.matured_rex + Mass(y, 0 - 1) /\ AllRex(b) = b.matured_rex + Mass(s, 0 - 1)
    BY <1>10 DEF AllRex, Young, s
  <2> QED
    BY <1>1, <1>9, <1>10, <2>2, <2>3
<1>17. NoSavings(b) => NoSavings(c)
  BY <1>10, <1>12 DEF NoSavings, s
<1>18. c.matured_rex >= b.matured_rex
  BY <1>1, <1>9, <1>10
<1> QED
  BY <1>10, <1>14, <1>15, <1>16, <1>17, <1>18 DEF c

\* What a sequence of buckets holds, and its last one.
LEMMA BucketTypes ==
  ASSUME NEW s \in Seq(Bucket)
  PROVE  Len(s) \in Nat /\ DOMAIN s = 1..Len(s) /\ \A i \in 1..Len(s) : s[i] \in Bucket /\ s[i].at \in Nat /\ s[i].rex \in Nat
<1>1. 0 \in Int
  OBVIOUS
<1> QED
  BY <1>1, WeightsType

LEMMA LastOf ==
  ASSUME NEW s \in Seq(Bucket), s # <<>>
  PROVE  /\ Front(s) \in Seq(Bucket) /\ Len(Front(s)) = Len(s) - 1 /\ Len(s) \in Nat \ {0}
         /\ \A i \in 1..(Len(s) - 1) : Front(s)[i] = s[i]
         /\ Last(s) \in Bucket /\ Last(s).at \in Nat /\ Last(s).rex \in Nat
         /\ Last(s) = s[Len(s)]
<1>1. 0 \in Int
  OBVIOUS
<1> QED
  BY <1>1, MassLast

\* A row with other buckets, and one with another amount of matured REX.
LEMMA NewBuckets ==
  ASSUME NEW b, b \in RexRow, NEW s \in Seq(Bucket)
  PROVE  LET d == [b EXCEPT !.rex_maturities = s]
         IN  d \in RexRow /\ d.rex_maturities = s /\ d.matured_rex = b.matured_rex /\ SameTotals(b, d)
<1> DEFINE d == [b EXCEPT !.rex_maturities = s]
<1>1. b.vote_stake \in Nat /\ b.rex_balance \in Nat /\ b.matured_rex \in Nat
  BY DEF RexRow
<1>2. d = [vote_stake |-> b.vote_stake, rex_balance |-> b.rex_balance, matured_rex |-> b.matured_rex, rex_maturities |-> s]
  BY DEF RexRow
<1> HIDE DEF d
<1>3. d \in RexRow /\ d.rex_maturities = s /\ d.matured_rex = b.matured_rex /\ SameTotals(b, d)
  BY <1>1, <1>2 DEF RexRow, SameTotals
<1> QED
  BY <1>3 DEF d

LEMMA NewMatured ==
  ASSUME NEW b, b \in RexRow, NEW n \in Nat
  PROVE  LET d == [b EXCEPT !.matured_rex = n]
         IN  d \in RexRow /\ d.rex_maturities = b.rex_maturities /\ d.matured_rex = n /\ SameTotals(b, d)
<1> DEFINE d == [b EXCEPT !.matured_rex = n]
<1>1. b.vote_stake \in Nat /\ b.rex_balance \in Nat /\ b.rex_maturities \in Seq(Bucket)
  BY DEF RexRow
<1>2. d = [vote_stake |-> b.vote_stake, rex_balance |-> b.rex_balance, matured_rex |-> n, rex_maturities |-> b.rex_maturities]
  BY DEF RexRow
<1> HIDE DEF d
<1>3. d \in RexRow /\ d.rex_maturities = b.rex_maturities /\ d.matured_rex = n /\ SameTotals(b, d)
  BY <1>1, <1>2 DEF RexRow, SameTotals
<1> QED
  BY <1>3 DEF d

\* A prefix of the buckets is in order.
LEMMA PrefixOrdered ==
  ASSUME NEW s, Maturities(s), NEW r \in Seq(Bucket), Len(r) <= Len(s), \A i \in 1..Len(r) : r[i] = s[i]
  PROVE  /\ Maturities(r)
         /\ (\A i \in DOMAIN s : s[i].at <= get_rex_maturity) => \A i \in DOMAIN r : r[i].at <= get_rex_maturity
<1>1. Len(r) \in Nat /\ DOMAIN r = 1..Len(r) /\ Len(s) \in Nat /\ DOMAIN s = 1..Len(s)
  BY LenProperties DEF Maturities
<1>2. \A i \in DOMAIN r : i \in DOMAIN s /\ r[i] = s[i]
  BY <1>1
<1> QED
  BY <1>2 DEF Maturities

\* The savings apart.
LEMMA SavingsApart ==
  ASSUME ClockOK, NEW b, Ordered(b)
  PROVE  LET c == TakeSavings(b)
             n == read_rex_savings(b)
         IN  /\ Ordered(c) /\ NoSavings(c) /\ SameTotals(b, c) /\ c.matured_rex = b.matured_rex /\ n \in Nat
             /\ AllRex(b) = AllRex(c) + n
             /\ \A time \in Int : Young(b, time) = Young(c, time) + (IF Maximum > time THEN n ELSE 0)
<1> DEFINE s == b.rex_maturities
           c == TakeSavings(b)
           n == read_rex_savings(b)
<1>1. b \in RexRow /\ Maturities(s) /\ s \in Seq(Bucket) /\ b.matured_rex \in Nat
  BY DEF Ordered, RexRow
<1>2. /\ now \in Nat /\ get_rex_maturity \in Nat /\ get_rex_maturity < Maximum /\ Maximum \in Nat
  BY MaturityIs
<1>3. Len(s) \in Nat /\ DOMAIN s = 1..Len(s) /\ \A i \in 1..Len(s) : s[i].at \in Nat /\ s[i].rex \in Nat
  BY <1>1, BucketTypes
<1> HIDE DEF s
<1>4. CASE HasSavings(b)
  <2>1. s # <<>> /\ Last(s).at = Maximum /\ n = Last(s).rex /\ c = [b EXCEPT !.rex_maturities = Front(s)]
    BY <1>4 DEF HasSavings, TakeSavings, read_rex_savings, end_of_days, s
  <2>2. /\ Front(s) \in Seq(Bucket) /\ Len(Front(s)) = Len(s) - 1 /\ Len(s) \in Nat \ {0}
        /\ \A i \in 1..(Len(s) - 1) : Front(s)[i] = s[i]
        /\ Last(s).rex \in Nat /\ Last(s) = s[Len(s)]
    BY <1>1, <2>1, LastOf
  <2>3. \A time \in Int : Mass(s, time) = Mass(Front(s), time) + (IF Maximum > time THEN n ELSE 0)
    BY <1>1, <2>1, MassLast
  <2> HIDE DEF c, n
  <2>4. c \in RexRow /\ c.rex_maturities = Front(s) /\ c.matured_rex = b.matured_rex /\ SameTotals(b, c)
    BY <1>1, <2>1, <2>2, NewBuckets
  <2>5. Maturities(Front(s))
    <3>1. Len(Front(s)) <= Len(s)
      BY <2>2
    <3> QED
      BY <1>1, <2>2, <3>1, PrefixOrdered
  <2>6. NoSavings(c)
    <3> SUFFICES ASSUME NEW i \in DOMAIN Front(s) PROVE Front(s)[i].at <= get_rex_maturity
      BY <2>4 DEF NoSavings
    <3>1. DOMAIN Front(s) = 1..(Len(s) - 1)
      BY <2>2, LenProperties
    <3>2. i \in DOMAIN s /\ Len(s) \in DOMAIN s /\ i < Len(s) /\ Front(s)[i] = s[i]
      BY <1>3, <2>2, <3>1
    <3>3. s[i].at < s[Len(s)].at
      BY <1>1, <3>2 DEF Maturities
    <3>4. s[i].at # Maximum
      BY <1>2, <2>1, <2>2, <3>3
    <3> QED
      BY <1>1, <3>2, <3>4 DEF Maturities
  <2>7. AllRex(b) = AllRex(c) + n
    <3>1. 0 - 1 \in Int /\ Maximum > 0 - 1
      BY <1>2
    <3>2. Mass(s, 0 - 1) = Mass(Front(s), 0 - 1) + n
      BY <2>3, <3>1
    <3>3. Mass(Front(s), 0 - 1) \in Nat
      BY <2>2, <3>1, WeightsType
    <3>4. AllRex(b) = b.matured_rex + Mass(s, 0 - 1) /\ AllRex(c) = b.matured_rex + Mass(Front(s), 0 - 1)
      BY <2>4 DEF AllRex, Young, s
    <3> QED
      BY <1>1, <2>1, <2>2, <3>2, <3>3, <3>4
  <2>8. \A time \in Int : Young(b, time) = Young(c, time) + (IF Maximum > time THEN n ELSE 0)
    BY <2>3, <2>4 DEF Young, s
  <2> QED
    BY <2>1, <2>2, <2>4, <2>5, <2>6, <2>7, <2>8 DEF Ordered, c, n
<1>5. CASE ~HasSavings(b)
  <2>1. c = b /\ n = 0
    BY <1>5 DEF TakeSavings, read_rex_savings
  <2>2. NoSavings(b)
    <3> SUFFICES ASSUME NEW i \in DOMAIN s PROVE s[i].at <= get_rex_maturity
      BY DEF NoSavings, s
    <3>1. i \in 1..Len(s) /\ Len(s) \in DOMAIN s /\ s # <<>>
      <4>1. i \in 1..Len(s) /\ Len(s) \in DOMAIN s /\ Len(s) # 0
        BY <1>3
      <4> QED
        BY <4>1, EmptySeq
    <3>2. s[Len(s)].at # Maximum
      BY <1>5, <3>1 DEF HasSavings, Last, end_of_days, s
    <3>3. CASE i = Len(s)
      BY <1>1, <3>2, <3>3 DEF Maturities
    <3>4. CASE i # Len(s)
      <4>1. s[i].at < s[Len(s)].at /\ s[Len(s)].at <= get_rex_maturity
        BY <1>1, <1>3, <3>1, <3>2, <3>4 DEF Maturities
      <4>2. s[i].at \in Nat /\ s[Len(s)].at \in Nat
        BY <1>3, <3>1
      <4> QED
        BY <1>2, <4>1, <4>2
    <3> QED
      BY <3>3, <3>4
  <2>3. SameTotals(b, b)
    BY DEF SameTotals
  <2>4. AllRex(b) = AllRex(b) + 0 /\ \A time \in Int : Young(b, time) = Young(b, time) + (IF Maximum > time THEN 0 ELSE 0)
    <3>1. AllRex(b) \in Nat /\ \A time \in Int : Young(b, time) \in Nat
      BY <1>2, RowTypes
    <3> QED
      BY <3>1
  <2> QED
    BY <2>1, <2>2, <2>3, <2>4
<1> QED
  BY <1>4, <1>5

\* REX joins the last bucket, or a new one after it.
LEMMA BucketAdded ==
  ASSUME ClockOK, NEW b, Ordered(b), NEW at \in Nat, NEW rex \in Nat,
         \A i \in DOMAIN b.rex_maturities : b.rex_maturities[i].at <= at,
         at <= get_rex_maturity \/ at = Maximum
  PROVE  LET c == AddBucket(b, at, rex)
         IN  /\ Ordered(c) /\ SameTotals(b, c) /\ c.matured_rex = b.matured_rex
             /\ \A time \in Int : Young(c, time) = Young(b, time) + (IF at > time THEN rex ELSE 0)
             /\ AllRex(c) = AllRex(b) + rex
             /\ at <= get_rex_maturity => NoSavings(c)
<1> DEFINE s == b.rex_maturities
           c == AddBucket(b, at, rex)
<1>1. b \in RexRow /\ Maturities(s) /\ s \in Seq(Bucket) /\ b.matured_rex \in Nat /\ b.rex_maturities = s
  BY DEF Ordered, RexRow
<1>2. /\ now \in Nat /\ get_rex_maturity \in Nat /\ get_rex_maturity < Maximum /\ Maximum \in Nat
  BY MaturityIs
<1>3. Len(s) \in Nat /\ DOMAIN s = 1..Len(s) /\ \A i \in 1..Len(s) : s[i].at \in Nat /\ s[i].rex \in Nat
  BY <1>1, BucketTypes
<1>4. \A i \in 1..Len(s) : s[i].at <= at
  BY <1>3
<1> DEFINE joins == s # <<>> /\ Last(s).at = at
           f == IF joins THEN Front(s) ELSE s
           e == [at |-> at, rex |-> IF joins THEN Last(s).rex + rex ELSE rex]
           r == Append(f, e)
<1>5. c = [b EXCEPT !.rex_maturities = r]
  BY DEF AddBucket
<1> HIDE DEF s
<1>6. joins => /\ Front(s) \in Seq(Bucket) /\ Len(Front(s)) = Len(s) - 1 /\ Len(s) \in Nat \ {0}
               /\ \A i \in 1..(Len(s) - 1) : Front(s)[i] = s[i]
               /\ Last(s).at \in Nat /\ Last(s).rex \in Nat /\ Last(s) = s[Len(s)]
  BY <1>1, LastOf
<1>7. f \in Seq(Bucket) /\ Len(f) <= Len(s) /\ \A i \in 1..Len(f) : f[i] = s[i]
  <2>1. CASE joins
    BY <1>6, <2>1
  <2>2. CASE ~joins
    BY <1>1, <1>3, <2>2
  <2> QED
    BY <2>1, <2>2
<1>8. e \in Bucket /\ e.at = at
  BY <1>6 DEF Bucket
<1>9. Maturities(f)
  BY <1>1, <1>7, PrefixOrdered
<1>10. \A i \in 1..Len(f) : f[i].at < at
  <2> SUFFICES ASSUME NEW i \in 1..Len(f) PROVE f[i].at < at
    OBVIOUS
  <2>0. Len(f) \in Nat
    BY <1>7, LenProperties
  <2>1. i \in 1..Len(s) /\ f[i] = s[i] /\ s[i].at \in Nat /\ s[i].at <= at
    BY <1>3, <1>4, <1>7, <2>0
  <2>2. CASE joins
    <3>1. i < Len(s) /\ Len(s) \in DOMAIN s /\ i \in DOMAIN s
      BY <1>3, <1>6, <2>1, <2>2
    <3>2. s[i].at < s[Len(s)].at /\ s[Len(s)].at = at
      BY <1>1, <1>6, <2>2, <3>1 DEF Maturities
    <3> QED
      BY <2>1, <3>2
  <2>3. CASE ~joins
    <3>1. s # <<>> /\ Len(s) \in DOMAIN s
      <4>1. Len(s) # 0 /\ Len(s) \in DOMAIN s
        BY <1>3, <2>1
      <4> QED
        BY <4>1, EmptySeq
    <3>2. s[Len(s)].at # at
      BY <2>3, <3>1 DEF Last
    <3>3. s[Len(s)].at < at /\ s[Len(s)].at \in Nat
      BY <1>3, <1>4, <3>1, <3>2
    <3>4. i = Len(s) \/ s[i].at < s[Len(s)].at
      <4>1. i \in DOMAIN s /\ (i = Len(s) \/ i < Len(s))
        <5> DEFINE k == Len(s)
        <5>1. k \in Nat /\ i \in 1..k /\ i \in DOMAIN s
          BY <1>3, <2>1
        <5> HIDE DEF k
        <5>2. i = k \/ i < k
          BY <5>1
        <5> QED
          BY <5>1, <5>2 DEF k
      <4> QED
        BY <1>1, <3>1, <4>1 DEF Maturities
    <3> QED
      BY <2>1, <3>3, <3>4
  <2> QED
    BY <2>2, <2>3
<1> HIDE DEF f, e, joins
<1>11. /\ r \in Seq(Bucket) /\ Len(r) = Len(f) + 1 /\ (\A i \in 1..Len(f) : r[i] = f[i]) /\ r[Len(f) + 1] = e
       /\ Len(f) \in Nat /\ DOMAIN f = 1..Len(f) /\ DOMAIN r = 1..(Len(f) + 1)
  <2>1. r \in Seq(Bucket) /\ Len(r) = Len(f) + 1 /\ (\A i \in 1..Len(f) : r[i] = f[i]) /\ r[Len(f) + 1] = e
    BY <1>7, <1>8, AppendProperties
  <2> QED
    BY <1>7, <2>1, LenProperties
<1> HIDE DEF r
<1>12. Maturities(r)
  <2>1. \A i, j \in DOMAIN r : i < j => r[i].at < r[j].at
    <3> SUFFICES ASSUME NEW i \in DOMAIN r, NEW j \in DOMAIN r, i < j PROVE r[i].at < r[j].at
      OBVIOUS
    <3>1. i \in 1..Len(f) /\ r[i] = f[i]
      BY <1>11
    <3>2. CASE j = Len(f) + 1
      BY <1>8, <1>10, <1>11, <3>1, <3>2
    <3>3. CASE j # Len(f) + 1
      <4>1. j \in 1..Len(f) /\ r[j] = f[j]
        BY <1>11, <3>3
      <4> QED
        BY <1>9, <1>11, <3>1, <4>1 DEF Maturities
    <3> QED
      BY <3>2, <3>3
  <2>2. ASSUME NEW i \in DOMAIN r PROVE r[i].at <= get_rex_maturity \/ r[i].at = Maximum
    <3>1. CASE i = Len(f) + 1
      BY <1>8, <1>11, <3>1
    <3>2. CASE i # Len(f) + 1
      <4>1. i \in 1..Len(f) /\ r[i] = f[i]
        BY <1>11, <3>2
      <4> QED
        BY <1>9, <1>11, <4>1 DEF Maturities
    <3> QED
      BY <3>1, <3>2
  <2> QED
    BY <1>11, <2>1, <2>2 DEF Maturities
<1>13. ASSUME NEW time \in Int PROVE Mass(r, time) = Mass(s, time) + (IF at > time THEN rex ELSE 0)
  <2>1. Mass(r, time) = Mass(f, time) + (IF e.at > time THEN e.rex ELSE 0)
    BY <1>7, <1>8, MassAppend DEF r
  <2>2. Mass(f, time) \in Nat
    BY <1>7, WeightsType
  <2>3. CASE joins
    <3>1. f = Front(s) /\ e.rex = Last(s).rex + rex /\ Last(s).at = at /\ s # <<>>
      BY <2>3 DEF joins, f, e
    <3>2. Mass(s, time) = Mass(f, time) + (IF at > time THEN Last(s).rex ELSE 0)
      BY <1>1, <3>1, MassLast
    <3>3. Last(s).rex \in Nat
      BY <1>6, <2>3
    <3> QED
      BY <1>8, <2>1, <2>2, <3>1, <3>2, <3>3
  <2>4. CASE ~joins
    BY <1>8, <2>1, <2>4 DEF joins, f, e
  <2> QED
    BY <2>3, <2>4
<1> HIDE DEF c
<1>14. c \in RexRow /\ c.rex_maturities = r /\ c.matured_rex = b.matured_rex /\ SameTotals(b, c)
  BY <1>1, <1>5, <1>11, NewBuckets
<1>15. AllRex(c) = AllRex(b) + rex
  <2>1. 0 - 1 \in Int /\ at > 0 - 1
    OBVIOUS
  <2>2. Mass(r, 0 - 1) = Mass(s, 0 - 1) + rex
    BY <1>13, <2>1
  <2>3. Mass(s, 0 - 1) \in Nat
    BY <1>1, <2>1, WeightsType
  <2>4. AllRex(c) = b.matured_rex + Mass(r, 0 - 1) /\ AllRex(b) = b.matured_rex + Mass(s, 0 - 1)
    BY <1>14 DEF AllRex, Young, s
  <2> QED
    BY <1>1, <2>2, <2>3, <2>4
<1>16. ASSUME at <= get_rex_maturity PROVE NoSavings(c)
  <2> SUFFICES ASSUME NEW i \in DOMAIN r PROVE r[i].at <= get_rex_maturity
    BY <1>14 DEF NoSavings
  <2>1. CASE i = Len(f) + 1
    BY <1>8, <1>11, <1>16, <2>1
  <2>2. CASE i # Len(f) + 1
    <3>1. i \in 1..Len(f) /\ r[i] = f[i]
      BY <1>11, <2>2
    <3>2. f[i].at < at /\ (f[i].at <= get_rex_maturity \/ f[i].at = Maximum)
      BY <1>9, <1>10, <1>11, <3>1 DEF Maturities
    <3> QED
      BY <1>2, <1>16, <3>1, <3>2
  <2> QED
    BY <2>1, <2>2
<1>17. \A time \in Int : Young(c, time) = Young(b, time) + (IF at > time THEN rex ELSE 0)
  BY <1>13, <1>14 DEF Young, s
<1> QED
  BY <1>12, <1>14, <1>15, <1>16, <1>17 DEF Ordered, c

\* The savings are put last.
LEMMA SavingsPut ==
  ASSUME ClockOK, NEW b, Ordered(b), NoSavings(b), NEW rex \in Nat
  PROVE  LET c == put_rex_savings(b, rex)
         IN  /\ Ordered(c) /\ SameTotals(b, c) /\ c.matured_rex = b.matured_rex /\ AllRex(c) = AllRex(b) + rex
             /\ \A time \in Int : Young(c, time) = Young(b, time) + (IF Maximum > time THEN rex ELSE 0)
<1> DEFINE c == put_rex_savings(b, rex)
<1>1. /\ get_rex_maturity \in Nat /\ get_rex_maturity < Maximum /\ Maximum \in Nat
  BY MaturityIs
<1>2. AllRex(b) \in Nat /\ \A time \in Int : Young(b, time) \in Nat
  <2>1. 0 \in Int
    OBVIOUS
  <2> QED
    BY <2>1, RowTypes
<1>3. CASE rex = 0
  <2>1. c = b /\ SameTotals(b, b)
    BY <1>3 DEF put_rex_savings, SameTotals
  <2>2. AllRex(b) = AllRex(b) + rex /\ \A time \in Int : Young(b, time) = Young(b, time) + (IF Maximum > time THEN rex ELSE 0)
    BY <1>2, <1>3
  <2> HIDE DEF c
  <2>3. c.matured_rex = b.matured_rex /\ Ordered(c)
    BY <2>1
  <2> QED
    BY <2>1, <2>2, <2>3 DEF c
<1>4. CASE rex # 0
  <2>1. c = AddBucket(b, Maximum, rex)
    BY <1>4 DEF put_rex_savings, end_of_days
  <2>2. \A i \in DOMAIN b.rex_maturities : b.rex_maturities[i].at <= Maximum
    <3> DEFINE s == b.rex_maturities
    <3>1. s \in Seq(Bucket)
      BY DEF Ordered, Maturities
    <3>2. DOMAIN s = 1..Len(s) /\ \A i \in 1..Len(s) : s[i].at \in Nat
      BY <3>1, BucketTypes
    <3>3. \A i \in DOMAIN s : s[i].at <= get_rex_maturity
      BY DEF NoSavings
    <3> HIDE DEF s
    <3>4. \A i \in DOMAIN s : s[i].at <= Maximum
      BY <1>1, <3>2, <3>3
    <3> QED
      BY <3>4 DEF s
  <2>3. LET a == AddBucket(b, Maximum, rex)
        IN  /\ Ordered(a) /\ SameTotals(b, a) /\ a.matured_rex = b.matured_rex
            /\ \A time \in Int : Young(a, time) = Young(b, time) + (IF Maximum > time THEN rex ELSE 0)
            /\ AllRex(a) = AllRex(b) + rex
    BY <1>1, <2>2, BucketAdded
  <2> QED
    BY <2>1, <2>3
<1> QED
  BY <1>3, <1>4

\* REX that matures last is added, and the savings are what is said.
LEMMA MaturingAdded ==
  ASSUME ClockOK, NEW b, Ordered(b), NEW rex \in Nat, NEW savings \in Nat
  PROVE  LET c == AddMaturing(b, rex, savings)
         IN  /\ Ordered(c) /\ SameTotals(b, c) /\ c.matured_rex >= b.matured_rex
             /\ AllRex(c) + read_rex_savings(b) = AllRex(b) + rex + savings
             /\ \A time \in Int : now <= time /\ time < get_rex_maturity =>
                    Young(c, time) + read_rex_savings(b) = Young(b, time) + rex + savings
<1> DEFINE m == get_rex_maturity
           x == TakeSavings(b)
           y == process_rex_maturities(x)
           z == AddBucket(y, m, rex)
           c == put_rex_savings(z, savings)
           n == read_rex_savings(b)
<1>1. AddMaturing(b, rex, savings) = c
  BY DEF AddMaturing
<1>2. /\ now \in Nat /\ m \in Nat /\ now < m /\ m < Maximum /\ Maximum \in Nat
  BY MaturityIs
<1>3. /\ Ordered(x) /\ NoSavings(x) /\ SameTotals(b, x) /\ x.matured_rex = b.matured_rex /\ n \in Nat
      /\ AllRex(b) = AllRex(x) + n
      /\ \A time \in Int : Young(b, time) = Young(x, time) + (IF Maximum > time THEN n ELSE 0)
  BY SavingsApart
<1> HIDE DEF x, n
<1>4. /\ Ordered(y) /\ NoSavings(y) /\ SameTotals(x, y) /\ y.matured_rex >= x.matured_rex /\ AllRex(y) = AllRex(x)
      /\ \A time \in Int : time >= now => Young(y, time) = Young(x, time)
  BY <1>3, MatureKeeps
<1> HIDE DEF y
<1>5. /\ Ordered(z) /\ SameTotals(y, z) /\ z.matured_rex = y.matured_rex /\ NoSavings(z) /\ AllRex(z) = AllRex(y) + rex
      /\ \A time \in Int : Young(z, time) = Young(y, time) + (IF m > time THEN rex ELSE 0)
  <2>1. \A i \in DOMAIN y.rex_maturities : y.rex_maturities[i].at <= m
    BY <1>4 DEF NoSavings
  <2>2. m <= get_rex_maturity
    BY <1>2
  <2> QED
    BY <1>2, <1>4, <2>1, <2>2, BucketAdded
<1> HIDE DEF z
<1>6. /\ Ordered(c) /\ SameTotals(z, c) /\ c.matured_rex = z.matured_rex /\ AllRex(c) = AllRex(z) + savings
      /\ \A time \in Int : Young(c, time) = Young(z, time) + (IF Maximum > time THEN savings ELSE 0)
  BY <1>5, SavingsPut
<1> HIDE DEF c
<1>7. AllRex(x) \in Nat /\ \A time \in Int : Young(x, time) \in Nat
  <2>1. 0 \in Int
    OBVIOUS
  <2> QED
    BY <1>3, <2>1, RowTypes
<1>8. AllRex(c) + n = AllRex(b) + rex + savings
  BY <1>3, <1>4, <1>5, <1>6, <1>7
<1>9. ASSUME NEW time \in Int, now <= time, time < m PROVE Young(c, time) + n = Young(b, time) + rex + savings
  <2>1. Maximum > time /\ m > time
    BY <1>2, <1>9
  <2>2. /\ Young(c, time) = Young(z, time) + savings /\ Young(z, time) = Young(y, time) + rex
        /\ Young(y, time) = Young(x, time) /\ Young(b, time) = Young(x, time) + n /\ Young(x, time) \in Nat
    BY <1>2, <1>3, <1>4, <1>5, <1>6, <1>7, <1>9, <2>1
  <2> QED
    BY <1>3, <2>2
<1>10. SameTotals(b, c)
  BY <1>3, <1>4, <1>5, <1>6 DEF SameTotals
<1>11. c.matured_rex >= b.matured_rex
  BY <1>3, <1>4, <1>5, <1>6
<1> QED
  BY <1>1, <1>6, <1>8, <1>9, <1>10, <1>11 DEF n

\* All buckets become one, except the savings and the REX that is in a sell order.
LEMMA Consolidated ==
  ASSUME ClockOK, NEW b, Ordered(b), NEW inOrder \in Nat, inOrder <= b.matured_rex
  PROVE  LET c == consolidate_rex_balance(b, inOrder)
         IN  /\ Ordered(c) /\ SameTotals(b, c) /\ c.matured_rex = inOrder /\ AllRex(c) = AllRex(b)
             /\ \A time \in Int : now <= time /\ time < get_rex_maturity => Young(c, time) >= Young(b, time)
<1> DEFINE m == get_rex_maturity
           x == TakeSavings(b)
           n == read_rex_savings(b)
           total == b.matured_rex - inOrder + SumSeq(x.rex_maturities)
           none == [b EXCEPT !.matured_rex = inOrder, !.rex_maturities = <<>>]
           o == OneBucket(b, total, inOrder)
           c == put_rex_savings(o, n)
<1>1. consolidate_rex_balance(b, inOrder) = c
  BY DEF consolidate_rex_balance
<1>2. /\ now \in Nat /\ m \in Nat /\ now < m /\ m < Maximum /\ Maximum \in Nat
  BY MaturityIs
<1>3. /\ Ordered(x) /\ SameTotals(b, x) /\ x.matured_rex = b.matured_rex /\ n \in Nat
      /\ AllRex(b) = AllRex(x) + n
      /\ \A time \in Int : Young(b, time) = Young(x, time) + (IF Maximum > time THEN n ELSE 0)
  BY SavingsApart
<1>4. b \in RexRow /\ b.matured_rex \in Nat
  BY DEF Ordered, RexRow
<1> HIDE DEF x, n
<1>5. /\ SumSeq(x.rex_maturities) = Young(x, 0 - 1) /\ Young(x, 0 - 1) \in Nat
      /\ \A time \in Int : Young(x, time) \in Nat /\ Young(x, time) <= AllRex(x)
  <2>1. 0 - 1 \in Int
    OBVIOUS
  <2> QED
    BY <1>3, <2>1, RowTypes
<1>6. total \in Nat /\ AllRex(x) = total + inOrder
  BY <1>3, <1>4, <1>5 DEF AllRex
<1> HIDE DEF total
<1>7. none \in RexRow /\ none.rex_maturities = <<>> /\ none.matured_rex = inOrder /\ SameTotals(b, none)
  <2>1. PICK q \in Seq(Bucket) : q = <<>>
    BY EmptySeq
  <2> DEFINE a == [b EXCEPT !.matured_rex = inOrder]
  <2>2. none = [a EXCEPT !.rex_maturities = q]
    BY <2>1
  <2>3. a \in RexRow /\ a.matured_rex = inOrder /\ SameTotals(b, a)
    BY <1>4, NewMatured
  <2> HIDE DEF none, a
  <2>4. none \in RexRow /\ none.rex_maturities = q /\ none.matured_rex = inOrder /\ SameTotals(b, none)
    <3>1. none \in RexRow /\ none.rex_maturities = q /\ none.matured_rex = a.matured_rex /\ SameTotals(a, none)
      BY <2>2, <2>3, NewBuckets
    <3> QED
      BY <2>3, <3>1 DEF SameTotals
  <2> QED
    BY <2>1, <2>4
<1> HIDE DEF none
<1>8. Ordered(none) /\ NoSavings(none) /\ (\A i \in DOMAIN none.rex_maturities : none.rex_maturities[i].at <= m)
  BY <1>7, EmptySeq DEF Ordered, NoSavings, Maturities
<1>9. AllRex(none) = inOrder /\ \A time \in Int : Young(none, time) = 0
  <2>1. \A time \in Int : Young(none, time) = 0
    BY <1>7, MassNone DEF Young
  <2>2. 0 - 1 \in Int
    OBVIOUS
  <2> QED
    BY <1>7, <2>1, <2>2 DEF AllRex
<1>10. o = IF total > 0 THEN AddBucket(none, m, total) ELSE none
  BY DEF OneBucket, none
<1> HIDE DEF o
<1>11. /\ Ordered(o) /\ SameTotals(none, o) /\ o.matured_rex = inOrder /\ NoSavings(o) /\ AllRex(o) = inOrder + total
       /\ \A time \in Int : time < m => Young(o, time) = total
  <2>1. CASE total > 0
    <3>1. m <= get_rex_maturity
      BY <1>2
    <3>2. LET a == AddBucket(none, m, total)
          IN  /\ Ordered(a) /\ SameTotals(none, a) /\ a.matured_rex = none.matured_rex
              /\ \A time \in Int : Young(a, time) = Young(none, time) + (IF m > time THEN total ELSE 0)
              /\ AllRex(a) = AllRex(none) + total
              /\ m <= get_rex_maturity => NoSavings(a)
      BY <1>2, <1>6, <1>8, <3>1, BucketAdded
    <3>3. o = AddBucket(none, m, total)
      BY <1>10, <2>1
    <3>4. \A time \in Int : time < m => Young(o, time) = total
      BY <1>2, <1>6, <1>9, <3>2, <3>3
    <3> QED
      BY <1>6, <1>7, <1>9, <3>1, <3>2, <3>3, <3>4
  <2>2. CASE ~(total > 0)
    <3>1. o = none /\ total = 0 /\ SameTotals(none, none)
      BY <1>6, <1>10, <2>2 DEF SameTotals
    <3> QED
      BY <1>6, <1>7, <1>8, <1>9, <3>1
  <2> QED
    BY <2>1, <2>2
<1>12. /\ Ordered(c) /\ SameTotals(o, c) /\ c.matured_rex = o.matured_rex /\ AllRex(c) = AllRex(o) + n
       /\ \A time \in Int : Young(c, time) = Young(o, time) + (IF Maximum > time THEN n ELSE 0)
  BY <1>3, <1>11, SavingsPut
<1> HIDE DEF c
<1>13. AllRex(c) = AllRex(b)
  BY <1>3, <1>6, <1>11, <1>12
<1>14. ASSUME NEW time \in Int, now <= time, time < m PROVE Young(c, time) >= Young(b, time)
  <2>1. Maximum > time
    BY <1>2, <1>14
  <2>2. Young(c, time) = total + n /\ Young(b, time) = Young(x, time) + n /\ Young(x, time) \in Nat
    BY <1>3, <1>5, <1>11, <1>12, <1>14, <2>1
  <2>3. Young(x, time) <= total
    <3>1. Young(x, time) <= Young(x, 0 - 1)
      <4>1. 0 - 1 \in Int /\ 0 - 1 <= time
        BY <1>2, <1>14
      <4>2. x.rex_maturities \in Seq(Bucket)
        BY <1>3 DEF Ordered, Maturities
      <4> QED
        BY <4>1, <4>2, MassOrder DEF Young
    <3> QED
      BY <1>4, <1>5, <2>2, <3>1 DEF total
  <2> QED
    BY <1>3, <1>6, <2>2, <2>3
<1>15. SameTotals(b, c)
  BY <1>7, <1>11, <1>12 DEF SameTotals
<1> QED
  BY <1>1, <1>11, <1>12, <1>13, <1>14, <1>15

\* The REX after some place.
LEMMA AfterIs ==
  ASSUME NEW s \in Seq(Bucket), NEW n \in 0..Len(s)
  PROVE  /\ AfterPlace(s, n) = Mass(SubSeq(s, n + 1, Len(s)), 0 - 1) /\ AfterPlace(s, n) \in Nat
         /\ n = Len(s) => AfterPlace(s, n) = 0
<1>1. SubSeq(s, n + 1, Len(s)) \in Seq(Bucket)
  BY SuffixIs
<1>2. AfterPlace(s, n) = Mass(SubSeq(s, n + 1, Len(s)), 0 - 1)
  BY <1>1, SumSeqIs DEF AfterPlace
<1>3. 0 - 1 \in Int
  OBVIOUS
<1>4. ASSUME n = Len(s) PROVE AfterPlace(s, n) = 0
  <2>1. Len(s) \in Nat
    BY BucketTypes
  <2>2. SubSeq(s, n + 1, Len(s)) = <<>>
    BY <1>4, <2>1, SubSeqEmpty
  <2> QED
    BY <1>2, <1>3, <2>2, MassNone
<1> QED
  BY <1>1, <1>2, <1>3, <1>4, WeightsType

\* REX taken from the last buckets: no more is missing after any time than was taken.
LEMMA MaturingTaken ==
  ASSUME ClockOK, NEW b, Ordered(b), NoSavings(b), NEW rex \in Nat \ {0}, rex <= AllRex(b)
  PROVE  LET c == TakeMaturing(b, rex)
         IN  /\ Ordered(c) /\ NoSavings(c) /\ SameTotals(b, c) /\ c.matured_rex <= b.matured_rex
             /\ AllRex(c) + rex = AllRex(b)
             /\ \A time \in Int : Young(c, time) + rex >= Young(b, time)
<1> DEFINE s == b.rex_maturities
           c == TakeMaturing(b, rex)
           n == CHOOSE i \in 0..Len(s) : TakenFrom(s, rex, i)
<1>0. b \in RexRow /\ Maturities(s) /\ s \in Seq(Bucket) /\ b.matured_rex \in Nat /\ b.rex_maturities = s
  BY DEF Ordered, RexRow
<1>1. Len(s) \in Nat /\ DOMAIN s = 1..Len(s) /\ \A i \in 1..Len(s) : s[i] \in Bucket /\ s[i].at \in Nat /\ s[i].rex \in Nat
  BY <1>0, BucketTypes
<1>2. 0 - 1 \in Int /\ \A time \in Int : Mass(s, time) \in Nat /\ Mass(s, time) <= Mass(s, 0 - 1) /\ Young(b, time) = Mass(s, time)
  <2>1. 0 - 1 \in Int
    OBVIOUS
  <2>2. \A time \in Int : Mass(s, time) \in Nat
    BY <1>0, WeightsType
  <2>3. ASSUME NEW time \in Int PROVE Mass(s, time) <= Mass(s, 0 - 1)
    <3>1. CASE 0 - 1 <= time
      BY <1>0, <2>1, <3>1, MassOrder
    <3>2. CASE ~(0 - 1 <= time)
      <4>1. \A i \in DOMAIN s : s[i].at > time /\ s[i].at > 0 - 1
        BY <1>1, <3>2
      <4>2. Mass(s, time) = Mass(s, 0 - 1)
        BY <1>0, <2>1, <4>1, MassOrder
      <4> QED
        BY <2>1, <2>2, <4>2
    <3> QED
      BY <3>1, <3>2
  <2> QED
    BY <2>1, <2>2, <2>3 DEF Young
<1>3. AfterPlace(s, 0) = Mass(s, 0 - 1) /\ AllRex(b) = b.matured_rex + Mass(s, 0 - 1)
  <2>1. 0 \in 0..Len(s) /\ 0 + 1 = 1
    BY <1>1
  <2>2. SubSeq(s, 1, Len(s)) = s
    BY <1>0, SubSeqFull
  <2> QED
    BY <1>0, <2>1, <2>2, AfterIs DEF AllRex, Young
<1> HIDE DEF s
<1>4. CASE AfterPlace(s, 0) < rex
  <2>1. c = [b EXCEPT !.rex_maturities = <<>>, !.matured_rex = b.matured_rex - (rex - AfterPlace(s, 0))]
    BY <1>0, <1>4 DEF TakeMaturing
  <2>0. Mass(s, 0 - 1) \in Nat
    BY <1>2
  <2>2. b.matured_rex - (rex - AfterPlace(s, 0)) \in Nat
    <3> DEFINE M == Mass(s, 0 - 1)
               A == AfterPlace(s, 0)
    <3>1. M \in Nat /\ A = M /\ AllRex(b) = b.matured_rex + M /\ A < rex
      BY <1>3, <1>4, <2>0
    <3> HIDE DEF M, A
    <3>2. b.matured_rex - (rex - A) \in Nat
      BY <1>0, <3>1
    <3> QED
      BY <3>2 DEF A
  <2> DEFINE k == b.matured_rex - (rex - AfterPlace(s, 0))
  <2> HIDE DEF k, c
  <2>3. c \in RexRow /\ c.rex_maturities = <<>> /\ c.matured_rex = k /\ SameTotals(b, c)
    <3>1. k \in Nat /\ <<>> \in Seq(Bucket)
      BY <2>2, EmptySeq DEF k
    <3>2. c = [b EXCEPT !.rex_maturities = <<>>, !.matured_rex = k]
      BY <2>1 DEF k
    <3>3. PICK q \in Seq(Bucket) : q = <<>>
      BY EmptySeq
    <3> DEFINE d == [b EXCEPT !.rex_maturities = q]
    <3>4. c = [d EXCEPT !.matured_rex = k]
      BY <3>2, <3>3
    <3>5. d \in RexRow /\ d.rex_maturities = q /\ SameTotals(b, d)
      BY <1>0, NewBuckets
    <3> HIDE DEF d
    <3>6. c \in RexRow /\ c.rex_maturities = d.rex_maturities /\ c.matured_rex = k /\ SameTotals(d, c)
      BY <3>1, <3>4, <3>5, NewMatured
    <3>7. c \in RexRow /\ c.rex_maturities = q /\ c.matured_rex = k /\ SameTotals(b, c)
      BY <3>5, <3>6 DEF SameTotals
    <3> QED
      BY <3>3, <3>7
  <2>4. Ordered(c) /\ NoSavings(c)
    BY <2>3, EmptySeq DEF Ordered, NoSavings, Maturities
  <2>5. \A time \in Int : Young(c, time) = 0
    BY <2>3, MassNone DEF Young
  <2>6. AllRex(c) = k
    BY <1>2, <2>2, <2>3, <2>5 DEF AllRex, k
  <2>7. AllRex(c) + rex = AllRex(b) /\ c.matured_rex <= b.matured_rex
    <3> DEFINE M == Mass(s, 0 - 1)
               A == AfterPlace(s, 0)
    <3>1. /\ M \in Nat /\ A = M /\ AllRex(b) = b.matured_rex + M /\ A < rex
          /\ AllRex(c) = b.matured_rex - (rex - A) /\ c.matured_rex = b.matured_rex - (rex - A)
      BY <1>3, <1>4, <2>0, <2>3, <2>6 DEF k
    <3> HIDE DEF M, A
    <3> QED
      BY <1>0, <3>1
  <2>8. \A time \in Int : Young(c, time) + rex >= Young(b, time)
    <3> SUFFICES ASSUME NEW time \in Int PROVE Young(c, time) + rex >= Young(b, time)
      OBVIOUS
    <3>1. Young(c, time) = 0 /\ Young(b, time) <= Mass(s, 0 - 1) /\ Young(b, time) \in Nat /\ Mass(s, 0 - 1) \in Nat
      BY <1>2, <2>5
    <3> QED
      BY <1>3, <1>4, <3>1
  <2> QED
    BY <2>3, <2>4, <2>7, <2>8 DEF c
<1>5. CASE ~(AfterPlace(s, 0) < rex)
  <2>1. n \in 0..Len(s) /\ TakenFrom(s, rex, n)
    <3> DEFINE T == {i \in 0..Len(s) : AfterPlace(s, i) >= rex}
    <3>1. 0 \in T
      <4>1. 0 \in 0..Len(s) /\ AfterPlace(s, 0) \in Nat
        BY <1>0, <1>1, AfterIs
      <4> QED
        BY <1>5, <4>1
    <3>2. IsFiniteSet(T) /\ T \in SUBSET Nat
      <4>1. IsFiniteSet(0..Len(s)) /\ T \subseteq 0..Len(s)
        BY <1>1, FS_Interval
      <4> QED
        BY <1>1, <4>1, FS_Subset
    <3>3. PICK i \in T : \A j \in T : j <= i
      BY <3>1, <3>2, GreatestNatural
    <3>4. i \in 0..Len(s) /\ i \in Nat
      BY <1>1
    <3>5. i < Len(s) => AfterPlace(s, i + 1) < rex
      <4> SUFFICES ASSUME i < Len(s) PROVE AfterPlace(s, i + 1) < rex
        OBVIOUS
      <4>1. i + 1 \in 0..Len(s)
        BY <1>1, <3>4
      <4>2. AfterPlace(s, i + 1) \in Nat
        BY <1>0, <4>1, AfterIs
      <4>3. i + 1 \notin T
        BY <3>3, <3>4
      <4> QED
        BY <4>1, <4>2, <4>3
    <3>6. TakenFrom(s, rex, i)
      BY <3>3, <3>5 DEF TakenFrom
    <3>7. \E j \in 0..Len(s) : TakenFrom(s, rex, j)
      BY <3>4, <3>6
    <3> QED
      BY <3>7
  <2> DEFINE a == AfterPlace(s, n)
             w == SubSeq(s, 1, n)
             z == SubSeq(s, n + 1, Len(s))
             r == IF a = rex THEN w ELSE Append(w, [at |-> s[n + 1].at, rex |-> a - rex])
  <2>2. c = [b EXCEPT !.rex_maturities = r]
    BY <1>0, <1>5 DEF TakeMaturing
  <2> HIDE DEF c, n
  <2>3. a >= rex /\ (n < Len(s) => AfterPlace(s, n + 1) < rex) /\ n \in Nat /\ n <= Len(s)
    BY <1>1, <2>1 DEF TakenFrom
  <2>4. a = Mass(z, 0 - 1) /\ a \in Nat /\ (n = Len(s) => a = 0)
    BY <1>0, <2>1, AfterIs
  <2>5. n < Len(s) /\ n + 1 \in 1..Len(s)
    BY <1>1, <2>3, <2>4
  <2>6. /\ w \in Seq(Bucket) /\ z \in Seq(Bucket)
        /\ \A time \in Int : Mass(s, time) = Mass(w, time) + Mass(z, time) /\ Mass(w, time) \in Nat /\ Mass(z, time) \in Nat
    <3>1. w \in Seq(Bucket) /\ z \in Seq(Bucket)
      BY <1>0, <1>2, <2>1, MassSplit
    <3>2. \A time \in Int : Mass(s, time) = Mass(w, time) + Mass(z, time)
      BY <1>0, <2>1, MassSplit
    <3>3. \A time \in Int : Mass(w, time) \in Nat /\ Mass(z, time) \in Nat
      <4> HIDE DEF w, z
      <4> QED BY <3>1, WeightsType
    <3> QED
      BY <3>1, <3>2, <3>3
  <2>7. Len(w) = n /\ \A i \in 1..n : w[i] = s[i]
    <3>1. \A i \in 1..n : s[i] \in Bucket
      BY <1>1, <2>3
    <3> QED
      BY <2>3, <3>1, SubSeqProperties
  <2>8. Maturities(w) /\ \A i \in DOMAIN w : w[i].at <= get_rex_maturity
    <3>1. \A i \in DOMAIN s : s[i].at <= get_rex_maturity
      BY <1>0 DEF NoSavings
    <3>2. Len(w) <= Len(s)
      BY <2>3, <2>7
    <3> HIDE DEF w
    <3> QED
      BY <1>0, <2>6, <2>7, <3>1, <3>2, PrefixOrdered
  <2> DEFINE e == [at |-> s[n + 1].at, rex |-> a - rex]
  <2>9. e \in Bucket /\ e.at = s[n + 1].at /\ e.rex = a - rex
    <3>1. a - rex \in Nat
      BY <2>3, <2>4
    <3>2. s[n + 1].at \in Nat
      BY <1>1, <2>5
    <3> HIDE DEF a
    <3> QED
      BY <3>1, <3>2 DEF Bucket
  \* The bucket that is taken from stays the last.
  <2>10. r \in Seq(Bucket) /\ Maturities(r) /\ \A i \in DOMAIN r : r[i].at <= get_rex_maturity
    <3>1. CASE a = rex
      BY <2>6, <2>8, <3>1
    <3>2. CASE a # rex
      <4>1. r = Append(w, e)
        BY <3>2
      <4> HIDE DEF r, e, w, a
      <4>2. /\ r \in Seq(Bucket) /\ Len(r) = n + 1 /\ (\A i \in 1..n : r[i] = w[i]) /\ r[n + 1] = e
        <5>1. /\ r \in Seq(Bucket) /\ Len(r) = Len(w) + 1 /\ (\A i \in 1..Len(w) : r[i] = w[i]) /\ r[Len(w) + 1] = e
          BY <2>6, <2>9, <4>1, AppendProperties
        <5> QED
          BY <2>7, <5>1
      <4>3. DOMAIN r = 1..(n + 1)
        BY <4>2, LenProperties
      <4>4. \A i \in 1..(n + 1) : i \in DOMAIN s /\ r[i].at = s[i].at
        <5> SUFFICES ASSUME NEW i \in 1..(n + 1) PROVE i \in DOMAIN s /\ r[i].at = s[i].at
          OBVIOUS
        <5>1. i \in DOMAIN s /\ (i = n + 1 \/ i \in 1..n)
          BY <1>1, <2>3, <2>5
        <5> QED
          BY <2>7, <2>9, <4>2, <5>1
      <4>5. \A i, j \in DOMAIN r : i < j => r[i].at < r[j].at
        BY <1>0, <4>3, <4>4 DEF Maturities
      <4>6. \A i \in DOMAIN r : r[i].at <= get_rex_maturity
        BY <1>0, <4>3, <4>4 DEF NoSavings
      <4> QED
        BY <4>2, <4>5, <4>6 DEF Maturities
    <3> QED
      BY <3>1, <3>2
  <2>11. Mass(r, 0 - 1) + rex = Mass(s, 0 - 1)
    <3>1. Mass(s, 0 - 1) = Mass(w, 0 - 1) + a /\ Mass(w, 0 - 1) \in Nat
      BY <1>2, <2>4, <2>6
    <3>2. CASE a = rex
      BY <3>1, <3>2
    <3>3. CASE a # rex
      <4>1. r = Append(w, e)
        BY <3>3
      <4>2. e.at > 0 - 1
        BY <1>1, <2>5, <2>9
      <4> HIDE DEF r, e, w, a
      <4>3. Mass(r, 0 - 1) = Mass(w, 0 - 1) + e.rex
        BY <1>2, <2>6, <2>9, <4>1, <4>2, MassAppend
      <4> QED
        BY <2>3, <2>4, <2>9, <3>1, <4>3
    <3> QED
      BY <3>2, <3>3
  <2>12. ASSUME NEW time \in Int PROVE Mass(r, time) + rex >= Mass(s, time)
    <3>1. Mass(s, time) = Mass(w, time) + Mass(z, time) /\ Mass(w, time) \in Nat /\ Mass(z, time) \in Nat
      BY <2>6
    <3>2. Mass(z, time) <= a
      <4>1. CASE 0 - 1 <= time
        <5> HIDE DEF z, a
        <5> QED BY <1>2, <2>4, <2>6, <4>1, MassOrder
      <4>2. CASE ~(0 - 1 <= time)
        <5> HIDE DEF z, a
        <5>1. \A i \in DOMAIN z : z[i].at > time /\ z[i].at > 0 - 1
          <6>1. DOMAIN z = 1..Len(z) /\ \A i \in 1..Len(z) : z[i].at \in Nat
            BY <2>6, BucketTypes
          <6> QED
            BY <4>2, <6>1
        <5>2. Mass(z, time) = Mass(z, 0 - 1)
          BY <1>2, <2>6, <5>1, MassOrder
        <5> QED
          BY <2>4, <3>1, <5>2
      <4> QED
        BY <4>1, <4>2
    <3>3. CASE a = rex
      <4>1. r = w
        BY <3>3
      <4> HIDE DEF w, z, a, r
      <4> QED
        BY <3>1, <3>2, <3>3, <4>1
    <3>4. CASE a # rex
      <4>1. r = Append(w, e)
        BY <3>4
      <4> HIDE DEF r, e, w
      <4>2. Mass(r, time) = Mass(w, time) + (IF e.at > time THEN e.rex ELSE 0)
        BY <2>6, <2>9, <4>1, MassAppend
      <4>3. CASE e.at > time
        <5> HIDE DEF a, z
        <5> QED BY <2>3, <2>4, <2>9, <3>1, <3>2, <4>2, <4>3
      <4>4. CASE ~(e.at > time)
        <5> DEFINE q == SubSeq(s, (n + 1) + 1, Len(s))
        <5>1. n + 1 \in 0..Len(s)
          BY <2>5
        <5>2. q \in Seq(Bucket) /\ AfterPlace(s, n + 1) = Mass(q, 0 - 1) /\ AfterPlace(s, n + 1) < rex
          BY <1>0, <2>3, <2>5, <5>1, AfterIs, SuffixIs
        <5>3. Mass(z, time) = Mass(q, time)
          <6>1. z \in Seq(Bucket) /\ Len(z) = Len(s) - n /\ \A i \in 1..(Len(s) - n) : z[i] = s[n + i]
            BY <1>0, <2>1, SuffixIs
          <6>2. 1 \in 0..Len(z) /\ 1 \in 1..(Len(s) - n)
            BY <1>1, <2>3, <2>5, <6>1
          <6> DEFINE f == SubSeq(z, 1, 1)
                     g == SubSeq(z, 1 + 1, Len(z))
          <6>3. f \in Seq(Bucket) /\ g \in Seq(Bucket) /\ Mass(z, time) = Mass(f, time) + Mass(g, time)
            <7> HIDE DEF z
            <7> QED BY <6>1, <6>2, MassSplit
          <6>4. Mass(f, time) = 0
            <7>1. z[1] = s[n + 1] /\ z[1] \in Bucket
              BY <1>1, <2>5, <6>1, <6>2
            <7>2. f \in Seq(Bucket) /\ Len(f) = 1 /\ f[1] = z[1]
              <8> HIDE DEF z
              <8>1. \A i \in 1..1 : i = 1
                OBVIOUS
              <8>2. \A i \in 1..1 : z[i] \in Bucket
                BY <7>1, <8>1
              <8>3. /\ f \in Seq(Bucket) /\ Len(f) = (IF 1 <= 1 THEN 1 - 1 + 1 ELSE 0)
                    /\ \A i \in 1..(1 - 1 + 1) : f[i] = z[1 + i - 1]
                BY <8>2, SubSeqProperties
              <8> HIDE DEF f
              <8>4. Len(f) = 1 /\ 1 \in 1..(1 - 1 + 1) /\ 1 + 1 - 1 = 1
                BY <8>3
              <8> QED
                BY <8>3, <8>4
            <7> HIDE DEF f
            <7>3. DOMAIN f = 1..1
              BY <7>2, LenProperties
            <7>4. \A i \in DOMAIN f : f[i].at <= time
              BY <1>1, <2>5, <2>9, <4>4, <7>1, <7>2, <7>3
            <7> QED
              BY <7>2, <7>4, MassOrder
          <6>5. g = q
            <7>1. Len(z) \in Nat /\ 1 <= Len(z)
              BY <6>1, <6>2, BucketTypes
            <7>2. /\ q \in Seq(Bucket) /\ Len(q) = Len(s) - (n + 1)
                  /\ \A i \in 1..(Len(s) - (n + 1)) : q[i] = s[(n + 1) + i]
              BY <1>0, <5>1, SuffixIs
            <7>3. g \in Seq(Bucket) /\ Len(g) = Len(z) - 1 /\ \A i \in 1..(Len(z) - 1) : g[i] = z[1 + i]
              <8> HIDE DEF z
              <8> QED BY <6>1, <6>2, SuffixIs
            <7> HIDE DEF g, q, z
            <7>4. Len(g) = Len(q)
              BY <1>1, <2>3, <6>1, <7>2, <7>3
            <7>5. \A i \in 1..Len(q) : g[i] = q[i]
              <8> SUFFICES ASSUME NEW i \in 1..Len(q) PROVE g[i] = q[i]
                OBVIOUS
              <8>1. /\ i \in 1..(Len(s) - (n + 1)) /\ i \in 1..(Len(z) - 1) /\ 1 + i \in 1..(Len(s) - n)
                    /\ n + (1 + i) = (n + 1) + i
                BY <1>1, <2>3, <6>1, <7>2
              <8> QED
                BY <6>1, <7>2, <7>3, <8>1
            <7> QED
              BY <7>2, <7>3, <7>4, <7>5, SeqEqual
          <6>6. Mass(g, time) \in Nat
            <7> HIDE DEF g
            <7> QED BY <6>3, WeightsType
          <6> HIDE DEF f, g, q, z
          <6> QED
            BY <6>3, <6>4, <6>5, <6>6
        <5> HIDE DEF q, z
        <5>4. Mass(q, time) <= Mass(q, 0 - 1) /\ Mass(q, time) \in Nat /\ Mass(q, 0 - 1) \in Nat
          <6>1. Mass(q, time) \in Nat /\ Mass(q, 0 - 1) \in Nat
            BY <1>2, <5>2, WeightsType
          <6>2. CASE 0 - 1 <= time
            BY <1>2, <5>2, <6>1, <6>2, MassOrder
          <6>3. CASE ~(0 - 1 <= time)
            BY <1>1, <2>5, <2>9, <4>4, <6>3
          <6> QED
            BY <6>1, <6>2, <6>3
        <5> QED
          BY <3>1, <4>2, <4>4, <5>2, <5>3, <5>4
      <4> QED
        BY <4>3, <4>4
    <3> QED
      BY <3>3, <3>4
  <2> HIDE DEF r
  <2>13. c \in RexRow /\ c.rex_maturities = r /\ c.matured_rex = b.matured_rex /\ SameTotals(b, c)
    BY <1>0, <2>2, <2>10, NewBuckets
  <2>14. Ordered(c) /\ NoSavings(c)
    BY <2>10, <2>13 DEF Ordered, NoSavings
  <2>15. AllRex(c) + rex = AllRex(b)
    <3>1. AllRex(c) = b.matured_rex + Mass(r, 0 - 1) /\ Mass(r, 0 - 1) \in Nat
      BY <1>2, <2>10, <2>13, WeightsType DEF AllRex, Young
    <3>2. Mass(s, 0 - 1) \in Nat
      BY <1>2
    <3> QED
      BY <1>0, <1>3, <2>11, <3>1, <3>2
  <2>16. \A time \in Int : Young(c, time) + rex >= Young(b, time)
    BY <1>2, <2>12, <2>13 DEF Young
  <2> QED
    BY <1>0, <2>13, <2>14, <2>15, <2>16 DEF c
<1> QED
  BY <1>4, <1>5

-----------------------------------------------------------------------------
(* Sums over the users and over the loans.                                 *)

\* A table that differs in one entry.
LEMMA SumOfChange ==
  ASSUME NEW S, IsFiniteSet(S), NEW a \in S, NEW f, NEW g,
         \A x \in S : f[x] \in Int /\ g[x] \in Int, \A x \in S \ {a} : g[x] = f[x]
  PROVE  SumOf(g, S) = SumOf(f, S) - f[a] + g[a]
<1> DEFINE R == S \ {a}
<1>1. IsFiniteSet(R) /\ a \notin R /\ R \cup {a} = S
  BY FS_Subset
<1>2. SumOf(f, R) \in Int /\ SumOf(f, R \cup {a}) = SumOf(f, R) + f[a]
  BY <1>1, SumOfOneMore
<1>3. SumOf(g, R \cup {a}) = SumOf(g, R) + g[a]
  BY <1>1, SumOfOneMore
<1>4. SumOf(g, R) = SumOf(f, R)
  BY SumOfSame
<1>5. f[a] \in Int /\ g[a] \in Int
  OBVIOUS
<1> HIDE DEF R
<1>6. SumOf(f, S) = SumOf(f, R) + f[a] /\ SumOf(g, S) = SumOf(f, R) + g[a]
  BY <1>1, <1>2, <1>3, <1>4
<1> QED
  BY <1>2, <1>5, <1>6

\* The sum of one column of a set of rows.
Col(L, c) == SumOf([l \in L |-> l[c]], L)

LEMMA ColWith ==
  ASSUME NEW L, IsFiniteSet(L), NEW m, m \notin L, NEW c, \A l \in L \cup {m} : l[c] \in Nat
  PROVE  Col(L, c) \in Nat /\ Col(L \cup {m}, c) = Col(L, c) + m[c] /\ IsFiniteSet(L \cup {m})
<1> DEFINE f == [l \in L |-> l[c]]
           g == [l \in L \cup {m} |-> l[c]]
<1>1. SumOf(g, L) \in Int /\ SumOf(g, L \cup {m}) = SumOf(g, L) + g[m]
  BY SumOfOneMore
<1>2. SumOf(g, L) = SumOf(f, L)
  BY SumOfSame
<1>3. SumOf(f, L) \in Nat
  BY SumOfType
<1>4. IsFiniteSet(L \cup {m})
  BY FS_AddElement
<1> QED
  BY <1>1, <1>2, <1>3, <1>4 DEF Col

LEMMA ColWithout ==
  ASSUME NEW L, IsFiniteSet(L), NEW m \in L, NEW c, \A l \in L : l[c] \in Nat
  PROVE  Col(L, c) \in Nat /\ m[c] <= Col(L, c) /\ Col(L \ {m}, c) = Col(L, c) - m[c] /\ IsFiniteSet(L \ {m})
<1> DEFINE R == L \ {m}
<1>1. IsFiniteSet(R) /\ m \notin R /\ R \cup {m} = L
  BY FS_Subset
<1>2. Col(R, c) \in Nat /\ Col(R \cup {m}, c) = Col(R, c) + m[c]
  BY <1>1, ColWith
<1>3. m[c] \in Nat
  OBVIOUS
<1>4. Col(L, c) = Col(R, c) + m[c]
  BY <1>1, <1>2
<1> HIDE DEF R
<1>5. Col(L, c) \in Nat /\ m[c] <= Col(L, c) /\ Col(R, c) = Col(L, c) - m[c]
  BY <1>2, <1>3, <1>4
<1> QED
  BY <1>5, <1>1 DEF R

LEMMA ColNone ==
  ASSUME NEW c
  PROVE  Col({}, c) = 0
BY SumOfNone DEF Col

LEMMA ColType ==
  ASSUME NEW L, IsFiniteSet(L), NEW c, \A l \in L : l[c] \in Nat
  PROVE  Col(L, c) \in Nat
<1> DEFINE f == [l \in L |-> l[c]]
<1>1. SumOf(f, L) \in Nat
  BY SumOfType
<1> QED
  BY <1>1 DEF Col

-----------------------------------------------------------------------------
(* The invariant, of the parts of the tables.                              *)

PoolRow == [total_lent : Nat, total_unlent : Nat, total_rent : Nat, total_lendable : Nat,
            total_rex : Nat, namebid_proceeds : Nat, loan_num : Nat]
Order   == [rex_requested : Nat \ {0}, proceeds : Nat, stake_change : Int, order_time : Nat, is_open : BOOLEAN]
Loan    == [from : Users, receiver : Users, payment : Nat \ {0}, balance : Nat, total_staked : Nat \ {0},
            loan_num : Nat, expiration : Nat]

\* What the rows of a user hold, and 0 when it has none.
FundOf(funds, u)       == IF u \in DOMAIN funds THEN funds[u] ELSE 0
RexOf(bal, u)          == IF u \in DOMAIN bal THEN bal[u].rex_balance ELSE 0
StakeIn(bal, u)        == IF u \in DOMAIN bal THEN bal[u].vote_stake ELSE 0
YoungOf(bal, u, time)  == IF u \in DOMAIN bal THEN Young(bal[u], time) ELSE 0
ProceedsOf(orders, u)  == IF u \in DOMAIN orders THEN orders[u].proceeds ELSE 0
ChangeOf(orders, u)    == IF u \in DOMAIN orders THEN orders[u].stake_change ELSE 0

AllFunds(funds)     == SumOf([u \in Users |-> FundOf(funds, u)], Users)
RexOfAll(bal)       == SumOf([u \in Users |-> RexOf(bal, u)], Users)
AllProceeds(orders) == SumOf([u \in Users |-> ProceedsOf(orders, u)], Users)
BothKinds(ls, c)    == Col(ls["cpu"], c) + Col(ls["net"], c)
For(L, u)           == {l \in L : l.receiver = u}
Received(L, u)      == Col(For(L, u), "total_staked")

FundsOK(funds)   == DOMAIN funds \subseteq Users /\ \A u \in DOMAIN funds : funds[u] \in Nat
BalOK(bal)       == DOMAIN bal \subseteq Users /\ \A u \in DOMAIN bal : HolderOK(bal[u])
OrdersOK(orders) ==
    /\ DOMAIN orders \subseteq Users
    /\ \A u \in DOMAIN orders : /\ orders[u] \in Order
                                /\ orders[u].is_open => orders[u].proceeds = 0 /\ orders[u].stake_change = 0
\* An open order is covered by matured REX.
Covers(orders, bal) ==
    \A u \in DOMAIN orders : orders[u].is_open => u \in DOMAIN bal /\ orders[u].rex_requested <= bal[u].matured_rex

\* The loans of a kind, numbered up to n.
KindOK(L, n) ==
    /\ IsFiniteSet(L) /\ L \subseteq Loan
    /\ \A l \in L : l.loan_num <= n
    /\ \A l, m \in L : l.loan_num = m.loan_num => l = m
LoansOK(ls, n) ==
    /\ DOMAIN ls = Kinds
    /\ \A k \in Kinds : KindOK(ls[k], n)
    /\ \A l \in ls["cpu"], m \in ls["net"] : l.loan_num # m.loan_num

\* The resources of an account are its own and those of the loans made for it.
ResOK(tot, del, ls) ==
    /\ tot \in [Users -> [Kinds -> Int]] /\ del \in [Users -> [Kinds -> Nat]]
    /\ \A u \in Users, k \in Kinds : tot[u][k] = del[u][k] + Received(ls[k], u)

PoolOK(p, init, ls, bal) ==
    /\ p \in PoolRow
    /\ p.total_lendable = p.total_lent + p.total_unlent
    /\ p.total_lent = BothKinds(ls, "total_staked")
    /\ p.total_rex = RexOfAll(bal)
    /\ ~init => p.total_rex = 0
    /\ p.total_rex = 0 => p.total_lent = 0

\* Everything eosio.rex holds is somebody's; x is held by the return pool.
Backing(tok, funds, ls, orders, p, off, fee, x) ==
    tok[rex_account] = AllFunds(funds) + BothKinds(ls, "balance") + AllProceeds(orders)
                       + p.total_lendable + off + fee + x

\* What was bought and matures after a time is in the buckets that mature after it.
After(h, time) == SumOf([at \in DOMAIN h |-> IF at > time THEN h[at] ELSE 0], DOMAIN h)
BoughtOK(h)    == h \in [DOMAIN h -> Nat] /\ DOMAIN h \subseteq (now + 1)..get_rex_maturity
YoungOK(b, bal) ==
    /\ DOMAIN b = Users
    /\ \A u \in Users : BoughtOK(b[u]) /\ \A time \in Int : time >= now => After(b[u], time) <= YoungOf(bal, u, time)

\* The stake of a voter, when the change d of it is still to be counted.
StakeOK(sta, del, bal, orders, str, d) ==
    \A u \in Users : sta[u] + d[u] = del[u]["net"] + del[u]["cpu"] + StakeIn(bal, u) + str[u] - ChangeOf(orders, u)

\* The tables t1 are t but for the fields F.
Fields == {"pool", "init", "funds", "bal", "orders", "loans", "delband", "totals", "staked", "tokens",
           "off", "strays", "bought", "fee"}
AllBut(t, t1, F) == DOMAIN t1 = Fields /\ \A f \in Fields \ F : t1[f] = t[f]

Shape(t) ==
    /\ DOMAIN t = Fields /\ t.fee \in Nat /\ t.off \in Nat /\ t.init \in BOOLEAN
    /\ t.tokens \in [Users \cup {rex_account} -> Int] /\ \A u \in Users : t.tokens[u] >= 0
    /\ t.strays \in [Users -> Int] /\ t.staked \in [Users -> Int]

\* The tables t, when the return pool has x tokens: all but the cover of the orders and the votes.
Sound(t, x) ==
    /\ Shape(t)
    /\ PoolOK(t.pool, t.init, t.loans, t.bal)
    /\ FundsOK(t.funds) /\ BalOK(t.bal) /\ OrdersOK(t.orders)
    /\ LoansOK(t.loans, t.pool.loan_num)
    /\ ResOK(t.totals, t.delband, t.loans)
    /\ Backing(t.tokens, t.funds, t.loans, t.orders, t.pool, t.off, t.fee, x)
    /\ YoungOK(t.bought, t.bal)

\* The tables of a step of an action, with the votes d still to be counted.
Good(t, x, d) ==
    /\ Sound(t, x) /\ Covers(t.orders, t.bal)
    /\ StakeOK(t.staked, t.delband, t.bal, t.orders, t.strays, d)

LEMMA UsersFinite == IsFiniteSet(Users) /\ Users \subseteq Nat /\ rex_account \notin Users
BY RexAssumption

\* The total of the users, and how one user changes it.
LEMMA UserTotals ==
  ASSUME NEW F, NEW G, NEW u \in Users, \A v \in Users : F[v] \in Nat /\ G[v] \in Nat,
         \A v \in Users \ {u} : G[v] = F[v]
  PROVE  /\ SumOf(F, Users) \in Nat /\ SumOf(G, Users) \in Nat
         /\ SumOf(G, Users) = SumOf(F, Users) - F[u] + G[u] /\ F[u] <= SumOf(F, Users)
<1> DEFINE Z == [v \in Users |-> IF v = u THEN 0 ELSE F[v]]
<1>1. /\ \A v \in Users : Z[v] \in Nat /\ Z[u] = 0
      /\ \A v \in Users \ {u} : Z[v] = F[v]
  OBVIOUS
<1> HIDE DEF Z
<1>0. IsFiniteSet(Users)
  BY UsersFinite
<1>f. \A v \in Users : F[v] \in Int /\ F[v] >= 0
  OBVIOUS
<1>g. \A v \in Users : G[v] \in Int /\ G[v] >= 0
  OBVIOUS
<1>z. \A v \in Users : Z[v] \in Int /\ Z[v] >= 0
  BY <1>1
<1>2. SumOf(F, Users) \in Nat
  BY <1>0, <1>f, SumOfType
<1>3. SumOf(G, Users) \in Nat
  BY <1>0, <1>g, SumOfType
<1>4. SumOf(Z, Users) \in Nat
  BY <1>0, <1>z, SumOfType
<1>5. SumOf(G, Users) = SumOf(F, Users) - F[u] + G[u]
  BY <1>0, <1>f, <1>g, SumOfChange
<1>6. SumOf(Z, Users) = SumOf(F, Users) - F[u] + Z[u]
  BY <1>0, <1>f, <1>z, <1>1, SumOfChange
<1>7. F[u] \in Nat /\ G[u] \in Nat
  OBVIOUS
<1> QED
  BY <1>1, <1>2, <1>3, <1>4, <1>5, <1>6, <1>7

LEMMA FundsChange ==
  ASSUME NEW f, NEW g, FundsOK(f), FundsOK(g), NEW u \in Users, \A v \in Users \ {u} : FundOf(g, v) = FundOf(f, v)
  PROVE  /\ AllFunds(f) \in Nat /\ AllFunds(g) \in Nat /\ FundOf(f, u) \in Nat /\ FundOf(g, u) \in Nat
         /\ AllFunds(g) = AllFunds(f) - FundOf(f, u) + FundOf(g, u) /\ FundOf(f, u) <= AllFunds(f)
<1> DEFINE F == [v \in Users |-> FundOf(f, v)]
           G == [v \in Users |-> FundOf(g, v)]
<1>1. \A v \in Users : FundOf(f, v) \in Nat /\ FundOf(g, v) \in Nat
  BY DEF FundsOK, FundOf
<1>2. /\ \A v \in Users : F[v] \in Nat /\ G[v] \in Nat
      /\ \A v \in Users \ {u} : G[v] = F[v]
  BY <1>1
<1>3. F[u] = FundOf(f, u) /\ G[u] = FundOf(g, u)
  OBVIOUS
<1>4. SumOf(F, Users) = AllFunds(f) /\ SumOf(G, Users) = AllFunds(g)
  BY DEF AllFunds
<1> HIDE DEF F, G
<1>5. /\ SumOf(F, Users) \in Nat /\ SumOf(G, Users) \in Nat
      /\ SumOf(G, Users) = SumOf(F, Users) - F[u] + G[u] /\ F[u] <= SumOf(F, Users)
  BY <1>2, UserTotals
<1> QED
  BY <1>1, <1>3, <1>4, <1>5

LEMMA RexChange ==
  ASSUME NEW f, NEW g, BalOK(f), BalOK(g), NEW u \in Users, \A v \in Users \ {u} : RexOf(g, v) = RexOf(f, v)
  PROVE  /\ RexOfAll(f) \in Nat /\ RexOfAll(g) \in Nat /\ RexOf(f, u) \in Nat /\ RexOf(g, u) \in Nat
         /\ RexOfAll(g) = RexOfAll(f) - RexOf(f, u) + RexOf(g, u) /\ RexOf(f, u) <= RexOfAll(f)
<1> DEFINE F == [v \in Users |-> RexOf(f, v)]
           G == [v \in Users |-> RexOf(g, v)]
<1>1. \A v \in Users : RexOf(f, v) \in Nat /\ RexOf(g, v) \in Nat
  BY DEF BalOK, RexOf, HolderOK, Ordered, RexRow
<1>2. /\ \A v \in Users : F[v] \in Nat /\ G[v] \in Nat
      /\ \A v \in Users \ {u} : G[v] = F[v]
  BY <1>1
<1>3. F[u] = RexOf(f, u) /\ G[u] = RexOf(g, u)
  OBVIOUS
<1>4. SumOf(F, Users) = RexOfAll(f) /\ SumOf(G, Users) = RexOfAll(g)
  BY DEF RexOfAll
<1> HIDE DEF F, G
<1>5. /\ SumOf(F, Users) \in Nat /\ SumOf(G, Users) \in Nat
      /\ SumOf(G, Users) = SumOf(F, Users) - F[u] + G[u] /\ F[u] <= SumOf(F, Users)
  BY <1>2, UserTotals
<1> QED
  BY <1>1, <1>3, <1>4, <1>5

LEMMA ProceedsChange ==
  ASSUME NEW f, NEW g, OrdersOK(f), OrdersOK(g), NEW u \in Users, \A v \in Users \ {u} : ProceedsOf(g, v) = ProceedsOf(f, v)
  PROVE  /\ AllProceeds(f) \in Nat /\ AllProceeds(g) \in Nat /\ ProceedsOf(f, u) \in Nat /\ ProceedsOf(g, u) \in Nat
         /\ AllProceeds(g) = AllProceeds(f) - ProceedsOf(f, u) + ProceedsOf(g, u) /\ ProceedsOf(f, u) <= AllProceeds(f)
<1> DEFINE F == [v \in Users |-> ProceedsOf(f, v)]
           G == [v \in Users |-> ProceedsOf(g, v)]
<1>1. \A v \in Users : ProceedsOf(f, v) \in Nat /\ ProceedsOf(g, v) \in Nat
  BY DEF OrdersOK, ProceedsOf, Order
<1>2. /\ \A v \in Users : F[v] \in Nat /\ G[v] \in Nat
      /\ \A v \in Users \ {u} : G[v] = F[v]
  BY <1>1
<1>3. F[u] = ProceedsOf(f, u) /\ G[u] = ProceedsOf(g, u)
  OBVIOUS
<1>4. SumOf(F, Users) = AllProceeds(f) /\ SumOf(G, Users) = AllProceeds(g)
  BY DEF AllProceeds
<1> HIDE DEF F, G
<1>5. /\ SumOf(F, Users) \in Nat /\ SumOf(G, Users) \in Nat
      /\ SumOf(G, Users) = SumOf(F, Users) - F[u] + G[u] /\ F[u] <= SumOf(F, Users)
  BY <1>2, UserTotals
<1> QED
  BY <1>1, <1>3, <1>4, <1>5

\* The numbers of a pool that is sound.
LEMMA PoolTypes ==
  ASSUME NEW p, p \in PoolRow
  PROVE  /\ p.total_lent \in Nat /\ p.total_unlent \in Nat /\ p.total_rent \in Nat /\ p.total_lendable \in Nat
         /\ p.total_rex \in Nat /\ p.namebid_proceeds \in Nat /\ p.loan_num \in Nat
BY DEF PoolRow

\* What the tables hold, in numbers.
LEMMA Accounts ==
  ASSUME NEW t, NEW x \in Int, Sound(t, x)
  PROVE  /\ t.tokens[rex_account] \in Int /\ AllFunds(t.funds) \in Nat /\ AllProceeds(t.orders) \in Nat
         /\ BothKinds(t.loans, "balance") \in Nat /\ BothKinds(t.loans, "total_staked") \in Nat
         /\ t.off \in Nat /\ t.fee \in Nat /\ t.pool \in PoolRow /\ t.pool.total_lendable \in Nat
         /\ t.tokens[rex_account] = AllFunds(t.funds) + BothKinds(t.loans, "balance") + AllProceeds(t.orders)
                                    + t.pool.total_lendable + t.off + t.fee + x
<1>1. t.tokens[rex_account] \in Int /\ t.off \in Nat /\ t.fee \in Nat /\ t.pool \in PoolRow
  BY DEF Sound, Shape, PoolOK
<1>2. t.pool.total_lendable \in Nat
  BY <1>1, PoolTypes
<1>3. t.tokens[rex_account] = AllFunds(t.funds) + BothKinds(t.loans, "balance") + AllProceeds(t.orders)
                              + t.pool.total_lendable + t.off + t.fee + x
  BY DEF Sound, Backing
<1>4. AllFunds(t.funds) \in Nat /\ AllProceeds(t.orders) \in Nat
  <2>1. \A v \in Users : FundOf(t.funds, v) \in Int /\ FundOf(t.funds, v) >= 0
    BY DEF Sound, FundsOK, FundOf
  <2>2. \A v \in Users : ProceedsOf(t.orders, v) \in Int /\ ProceedsOf(t.orders, v) >= 0
    BY DEF Sound, OrdersOK, ProceedsOf, Order
  <2> DEFINE F == [v \in Users |-> FundOf(t.funds, v)]
             G == [v \in Users |-> ProceedsOf(t.orders, v)]
  <2>3. (\A v \in Users : F[v] \in Int /\ F[v] >= 0) /\ (\A v \in Users : G[v] \in Int /\ G[v] >= 0)
    BY <2>1, <2>2
  <2>4. AllFunds(t.funds) = SumOf(F, Users) /\ AllProceeds(t.orders) = SumOf(G, Users)
    BY DEF AllFunds, AllProceeds
  <2>5. IsFiniteSet(Users)
    BY UsersFinite
  <2> HIDE DEF F, G
  <2>6. SumOf(F, Users) \in Nat
    BY <2>3, <2>5, SumOfType
  <2>7. SumOf(G, Users) \in Nat
    BY <2>3, <2>5, SumOfType
  <2> QED
    BY <2>4, <2>6, <2>7
<1>5. \A k \in Kinds : /\ IsFiniteSet(t.loans[k]) /\ \A l \in t.loans[k] : l["balance"] \in Nat
                       /\ \A l \in t.loans[k] : l["total_staked"] \in Nat
  BY DEF Sound, LoansOK, KindOK, Loan
<1>6. \A k \in Kinds : Col(t.loans[k], "balance") \in Nat
  BY <1>5, ColType
<1>7. \A k \in Kinds : Col(t.loans[k], "total_staked") \in Nat
  BY <1>5, ColType
<1>8. BothKinds(t.loans, "balance") \in Nat /\ BothKinds(t.loans, "total_staked") \in Nat
  BY <1>6, <1>7 DEF BothKinds, Kinds
<1> QED
  BY <1>1, <1>2, <1>3, <1>4, <1>8

\* Funds are moved: with other funds of u the tables stay sound.
LEMMA FundsMoved ==
  ASSUME NEW t, NEW x \in Int, Sound(t, x), NEW t1, AllBut(t, t1, {"funds"}), FundsOK(t1.funds),
         NEW u \in Users, \A v \in Users \ {u} : FundOf(t1.funds, v) = FundOf(t.funds, v),
         NEW y \in Int, y = x - (FundOf(t1.funds, u) - FundOf(t.funds, u))
  PROVE  Sound(t1, y)
<1>1. /\ t1.pool = t.pool /\ t1.init = t.init /\ t1.bal = t.bal /\ t1.orders = t.orders /\ t1.loans = t.loans
      /\ t1.delband = t.delband /\ t1.totals = t.totals /\ t1.staked = t.staked /\ t1.tokens = t.tokens
      /\ t1.off = t.off /\ t1.strays = t.strays /\ t1.bought = t.bought /\ t1.fee = t.fee /\ DOMAIN t1 = Fields
  BY DEF AllBut, Fields
<1>2. /\ AllFunds(t1.funds) = AllFunds(t.funds) - FundOf(t.funds, u) + FundOf(t1.funds, u)
      /\ FundOf(t.funds, u) \in Nat /\ FundOf(t1.funds, u) \in Nat
  BY FundsChange DEF Sound
<1>3. Backing(t1.tokens, t1.funds, t1.loans, t1.orders, t1.pool, t1.off, t1.fee, y)
  BY Accounts, <1>1, <1>2 DEF Backing
<1>4. Shape(t1)
  BY <1>1 DEF Sound, Shape
<1> QED
  BY <1>1, <1>3, <1>4 DEF Sound

\* Tokens come from outside or leave.
LEMMA TokensMoved ==
  ASSUME NEW t, NEW x \in Int, Sound(t, x), NEW t1, AllBut(t, t1, {"tokens"}),
         t1.tokens \in [Users \cup {rex_account} -> Int], \A u \in Users : t1.tokens[u] >= 0,
         NEW y \in Int, y = x + t1.tokens[rex_account] - t.tokens[rex_account]
  PROVE  Sound(t1, y)
<1>1. /\ t1.pool = t.pool /\ t1.init = t.init /\ t1.bal = t.bal /\ t1.orders = t.orders /\ t1.loans = t.loans
      /\ t1.delband = t.delband /\ t1.totals = t.totals /\ t1.staked = t.staked /\ t1.funds = t.funds
      /\ t1.off = t.off /\ t1.strays = t.strays /\ t1.bought = t.bought /\ t1.fee = t.fee /\ DOMAIN t1 = Fields
  BY DEF AllBut, Fields
<1>2. t1.tokens[rex_account] \in Int
  OBVIOUS
<1>3. Backing(t1.tokens, t1.funds, t1.loans, t1.orders, t1.pool, t1.off, t1.fee, y)
  BY Accounts, <1>1, <1>2 DEF Backing
<1>4. Shape(t1)
  BY <1>1 DEF Sound, Shape
<1> QED
  BY <1>1, <1>3, <1>4 DEF Sound

\* A fee is added to what the action brings.
LEMMA FeeMoved ==
  ASSUME NEW t, NEW x \in Int, Sound(t, x), NEW t1, AllBut(t, t1, {"fee"}), t1.fee \in Nat,
         NEW y \in Int, y = x - (t1.fee - t.fee)
  PROVE  Sound(t1, y)
<1>1. /\ t1.pool = t.pool /\ t1.init = t.init /\ t1.bal = t.bal /\ t1.orders = t.orders /\ t1.loans = t.loans
      /\ t1.delband = t.delband /\ t1.totals = t.totals /\ t1.staked = t.staked /\ t1.funds = t.funds
      /\ t1.off = t.off /\ t1.strays = t.strays /\ t1.bought = t.bought /\ t1.tokens = t.tokens /\ DOMAIN t1 = Fields
  BY DEF AllBut, Fields
<1>3. Backing(t1.tokens, t1.funds, t1.loans, t1.orders, t1.pool, t1.off, t1.fee, y)
  BY Accounts, <1>1 DEF Backing
<1>4. Shape(t1)
  BY <1>1 DEF Sound, Shape
<1> QED
  BY <1>1, <1>3, <1>4 DEF Sound

\* The row of the pool changes, in numbers that no other table has, or by what x has to give.
LEMMA PoolMoved ==
  ASSUME NEW t, NEW x \in Int, Sound(t, x), NEW t1, AllBut(t, t1, {"pool"}),
         t1.pool \in PoolRow, t1.pool.loan_num = t.pool.loan_num, t1.pool.total_rex = t.pool.total_rex,
         t1.pool.total_lent = t.pool.total_lent, t1.pool.total_lendable = t1.pool.total_lent + t1.pool.total_unlent,
         NEW y \in Int, y = x - (t1.pool.total_lendable - t.pool.total_lendable)
  PROVE  Sound(t1, y)
<1>1. /\ t1.fee = t.fee /\ t1.init = t.init /\ t1.bal = t.bal /\ t1.orders = t.orders /\ t1.loans = t.loans
      /\ t1.delband = t.delband /\ t1.totals = t.totals /\ t1.staked = t.staked /\ t1.funds = t.funds
      /\ t1.off = t.off /\ t1.strays = t.strays /\ t1.bought = t.bought /\ t1.tokens = t.tokens /\ DOMAIN t1 = Fields
  BY DEF AllBut, Fields
<1>2. t1.pool.total_lendable \in Nat
  BY PoolTypes
<1>3. Backing(t1.tokens, t1.funds, t1.loans, t1.orders, t1.pool, t1.off, t1.fee, y)
  BY Accounts, <1>1, <1>2 DEF Backing
<1>4. Shape(t1)
  BY <1>1 DEF Sound, Shape
<1>5. PoolOK(t1.pool, t1.init, t1.loans, t1.bal)
  BY <1>1 DEF Sound, PoolOK
<1> QED
  BY <1>1, <1>3, <1>4, <1>5 DEF Sound

\* Orders are opened, filled and removed.
LEMMA OrdersMoved ==
  ASSUME NEW t, NEW x \in Int, Sound(t, x), NEW t1, AllBut(t, t1, {"orders"}), OrdersOK(t1.orders),
         NEW u \in Users, \A v \in Users \ {u} : ProceedsOf(t1.orders, v) = ProceedsOf(t.orders, v),
         NEW y \in Int, y = x - (ProceedsOf(t1.orders, u) - ProceedsOf(t.orders, u))
  PROVE  Sound(t1, y)
<1>1. /\ t1.pool = t.pool /\ t1.init = t.init /\ t1.bal = t.bal /\ t1.funds = t.funds /\ t1.loans = t.loans
      /\ t1.delband = t.delband /\ t1.totals = t.totals /\ t1.staked = t.staked /\ t1.tokens = t.tokens
      /\ t1.off = t.off /\ t1.strays = t.strays /\ t1.bought = t.bought /\ t1.fee = t.fee /\ DOMAIN t1 = Fields
  BY DEF AllBut, Fields
<1>2. /\ AllProceeds(t1.orders) = AllProceeds(t.orders) - ProceedsOf(t.orders, u) + ProceedsOf(t1.orders, u)
      /\ ProceedsOf(t.orders, u) \in Nat /\ ProceedsOf(t1.orders, u) \in Nat
  BY ProceedsChange DEF Sound
<1>3. Backing(t1.tokens, t1.funds, t1.loans, t1.orders, t1.pool, t1.off, t1.fee, y)
  BY Accounts, <1>1, <1>2 DEF Backing
<1>4. Shape(t1)
  BY <1>1 DEF Sound, Shape
<1> QED
  BY <1>1, <1>3, <1>4 DEF Sound

\* Votes are counted.
LEMMA StakedMoved ==
  ASSUME NEW t, NEW x \in Int, Sound(t, x), NEW t1, AllBut(t, t1, {"staked"}), t1.staked \in [Users -> Int]
  PROVE  Sound(t1, x)
<1>1. /\ t1.pool = t.pool /\ t1.init = t.init /\ t1.bal = t.bal /\ t1.funds = t.funds /\ t1.loans = t.loans
      /\ t1.delband = t.delband /\ t1.totals = t.totals /\ t1.orders = t.orders /\ t1.tokens = t.tokens
      /\ t1.off = t.off /\ t1.strays = t.strays /\ t1.bought = t.bought /\ t1.fee = t.fee /\ DOMAIN t1 = Fields
  BY DEF AllBut, Fields
<1>4. Shape(t1)
  BY <1>1 DEF Sound, Shape
<1> QED
  BY <1>1, <1>4 DEF Sound

\* The REX of a user in its buckets: rows that hold no less young REX hold what was bought.
LEMMA YoungKept ==
  ASSUME ClockOK, NEW b, NEW f, NEW g, YoungOK(b, f), BalOK(f), BalOK(g),
         \A u \in Users : \A time \in Int : now <= time /\ time < get_rex_maturity => YoungOf(g, u, time) >= YoungOf(f, u, time)
  PROVE  YoungOK(b, g)
<1> SUFFICES ASSUME NEW u \in Users, NEW time \in Int, time >= now PROVE After(b[u], time) <= YoungOf(g, u, time)
  BY DEF YoungOK
<1> DEFINE h == b[u]
           D == DOMAIN h
           w == [at \in D |-> IF at > time THEN h[at] ELSE 0]
<1>1. BoughtOK(h) /\ After(h, time) <= YoungOf(f, u, time)
  BY DEF YoungOK
<1>2. YoungOf(g, u, time) \in Nat /\ YoungOf(f, u, time) \in Nat
  BY RowTypes DEF YoungOf, BalOK, HolderOK
<1>3. get_rex_maturity \in Nat /\ now \in Nat
  BY MaturityIs
<1>4. IsFiniteSet(D) /\ D \subseteq Nat /\ h \in [D -> Nat] /\ \A at \in D : at <= get_rex_maturity
  <2>1. IsFiniteSet((now + 1)..get_rex_maturity)
    BY <1>3, FS_Interval
  <2> QED
    BY <1>1, <1>3, <2>1, FS_Subset DEF BoughtOK
<1>5. After(h, time) \in Int
  <2>1. \A at \in D : w[at] \in Int
    BY <1>4
  <2>2. SumOf(w, D) \in Int
    BY <1>4, <2>1, SumOfType
  <2> QED
    BY <2>2 DEF After
<1>6. CASE time < get_rex_maturity
  <2>1. YoungOf(g, u, time) >= YoungOf(f, u, time)
    BY <1>6
  <2> QED
    BY <1>1, <1>2, <1>5, <2>1
<1>7. CASE ~(time < get_rex_maturity)
  <2>1. \A at \in D : ~(at > time)
    BY <1>4, <1>7, <1>3
  <2>2. (\A at \in D : w[at] \in Int) /\ (\A at \in D \ {} : w[at] = 0)
    BY <2>1, <1>4
  <2>3. {} \in SUBSET D
    OBVIOUS
  <2> HIDE DEF w
  <2>4. SumOf(w, D) = SumOf(w, {})
    BY <1>4, <2>2, <2>3, SumOfSupport
  <2>5. SumOf(w, {}) = 0
    BY SumOfNone
  <2>6. After(h, time) = SumOf(w, D)
    BY DEF After, w
  <2> QED
    BY <2>4, <2>5, <2>6, <1>2
<1> QED
  BY <1>6, <1>7

\* The row of u is replaced by another with the same REX, of which no less is young.
LEMMA RowMoved ==
  ASSUME ClockOK, NEW t, NEW x \in Int, Sound(t, x), NEW t1, AllBut(t, t1, {"bal"}), NEW u \in DOMAIN t.bal,
         DOMAIN t1.bal = DOMAIN t.bal, \A v \in DOMAIN t.bal \ {u} : t1.bal[v] = t.bal[v],
         HolderOK(t1.bal[u]), t1.bal[u].rex_balance = t.bal[u].rex_balance,
         \A time \in Int : now <= time /\ time < get_rex_maturity => Young(t1.bal[u], time) >= Young(t.bal[u], time)
  PROVE  Sound(t1, x)
<1>1. /\ t1.pool = t.pool /\ t1.init = t.init /\ t1.orders = t.orders /\ t1.funds = t.funds /\ t1.loans = t.loans
      /\ t1.delband = t.delband /\ t1.totals = t.totals /\ t1.staked = t.staked /\ t1.tokens = t.tokens
      /\ t1.off = t.off /\ t1.strays = t.strays /\ t1.bought = t.bought /\ t1.fee = t.fee /\ DOMAIN t1 = Fields
  BY DEF AllBut, Fields
<1>2. BalOK(t1.bal) /\ BalOK(t.bal)
  BY DEF Sound, BalOK
<1>3. RexOfAll(t1.bal) = RexOfAll(t.bal)
  <2>1. u \in Users /\ (\A v \in Users : RexOf(t1.bal, v) = RexOf(t.bal, v))
    BY <1>2 DEF RexOf, BalOK
  <2>2. [v \in Users |-> RexOf(t1.bal, v)] = [v \in Users |-> RexOf(t.bal, v)]
    BY <2>1
  <2> QED
    BY <2>2 DEF RexOfAll
<1>4. Shape(t1)
  BY <1>1 DEF Sound, Shape
<1>5. PoolOK(t1.pool, t1.init, t1.loans, t1.bal)
  BY <1>1, <1>3 DEF Sound, PoolOK
<1>6. YoungOK(t1.bought, t1.bal)
  <2>1. \A v \in DOMAIN t.bal : \A time \in Int : Young(t.bal[v], time) \in Nat
    BY <1>2, RowTypes DEF BalOK, HolderOK
  <2>2. \A v \in Users : \A time \in Int : now <= time /\ time < get_rex_maturity => YoungOf(t1.bal, v, time) >= YoungOf(t.bal, v, time)
    BY <2>1 DEF YoungOf
  <2>3. YoungOK(t.bought, t.bal)
    BY DEF Sound
  <2> QED
    BY <1>1, <1>2, <2>2, <2>3, YoungKept
<1> QED
  BY <1>1, <1>2, <1>4, <1>5, <1>6 DEF Sound

\* What a loan holds.
LEMMA LoanTypes ==
  ASSUME NEW l, l \in Loan
  PROVE  /\ l.from \in Users /\ l.receiver \in Users /\ l.payment \in Nat \ {0} /\ l.balance \in Nat
         /\ l.total_staked \in Nat \ {0} /\ l.loan_num \in Nat /\ l.expiration \in Nat
BY DEF Loan

\* A loan leaves the loans of its kind.
LEMMA LoanOut ==
  ASSUME NEW L, IsFiniteSet(L), L \subseteq Loan, NEW l \in L
  PROVE  LET R == L \ {l}
         IN  /\ IsFiniteSet(R) /\ R \subseteq Loan
             /\ Col(R, "total_staked") = Col(L, "total_staked") - l.total_staked /\ l.total_staked <= Col(L, "total_staked")
             /\ Col(R, "balance") = Col(L, "balance") - l.balance
             /\ Col(L, "total_staked") \in Nat /\ Col(L, "balance") \in Nat
             /\ \A u \in Users : /\ Received(R, u) = Received(L, u) - (IF u = l.receiver THEN l.total_staked ELSE 0)
                                 /\ Received(L, u) \in Nat
<1> DEFINE R == L \ {l}
<1>1. \A m \in L : m["total_staked"] \in Nat /\ m["balance"] \in Nat
  BY LoanTypes
<1>2. /\ Col(L, "total_staked") \in Nat /\ l["total_staked"] <= Col(L, "total_staked")
      /\ Col(R, "total_staked") = Col(L, "total_staked") - l["total_staked"] /\ IsFiniteSet(R)
  BY <1>1, ColWithout
<1>3. /\ Col(L, "balance") \in Nat /\ Col(R, "balance") = Col(L, "balance") - l["balance"]
  BY <1>1, ColWithout
<1>4. ASSUME NEW u \in Users
      PROVE  Received(R, u) = Received(L, u) - (IF u = l.receiver THEN l.total_staked ELSE 0) /\ Received(L, u) \in Nat
  <2> DEFINE S == For(L, u)
  <2>1. IsFiniteSet(S) /\ \A m \in S : m["total_staked"] \in Nat
    BY <1>1, FS_Subset DEF For
  <2>2. CASE u = l.receiver
    <3>1. l \in S /\ For(R, u) = S \ {l}
      BY <2>2 DEF For
    <3> HIDE DEF S
    <3>2. Col(S, "total_staked") \in Nat /\ Col(S \ {l}, "total_staked") = Col(S, "total_staked") - l["total_staked"]
      BY <2>1, <3>1, ColWithout
    <3> QED
      BY <2>2, <3>1, <3>2 DEF Received, S
  <2>3. CASE u # l.receiver
    <3>1. For(R, u) = S
      BY <2>3 DEF For
    <3>2. Col(S, "total_staked") \in Nat
      BY <2>1, ColType
    <3> QED
      BY <2>3, <3>1, <3>2 DEF Received
  <2> QED
    BY <2>2, <2>3
<1> QED
  BY <1>2, <1>3, <1>4

\* A loan joins the loans of its kind.
LEMMA LoanIn ==
  ASSUME NEW L, IsFiniteSet(L), L \subseteq Loan, NEW l \in Loan, l \notin L
  PROVE  LET R == L \cup {l}
         IN  /\ IsFiniteSet(R) /\ R \subseteq Loan
             /\ Col(R, "total_staked") = Col(L, "total_staked") + l.total_staked
             /\ Col(R, "balance") = Col(L, "balance") + l.balance
             /\ \A u \in Users : Received(R, u) = Received(L, u) + (IF u = l.receiver THEN l.total_staked ELSE 0)
<1> DEFINE R == L \cup {l}
<1>1. \A m \in R : m["total_staked"] \in Nat /\ m["balance"] \in Nat
  BY LoanTypes
<1>2. Col(R, "total_staked") = Col(L, "total_staked") + l["total_staked"] /\ IsFiniteSet(R)
  BY <1>1, ColWith
<1>3. Col(R, "balance") = Col(L, "balance") + l["balance"]
  BY <1>1, ColWith
<1>4. ASSUME NEW u \in Users
      PROVE  Received(R, u) = Received(L, u) + (IF u = l.receiver THEN l.total_staked ELSE 0)
  <2> DEFINE S == For(L, u)
  <2>1. IsFiniteSet(S) /\ \A m \in S \cup {l} : m["total_staked"] \in Nat
    BY <1>1, FS_Subset DEF For
  <2>2. CASE u = l.receiver
    <3>1. l \notin S /\ For(R, u) = S \cup {l}
      BY <2>2 DEF For
    <3> HIDE DEF S
    <3>2. Col(S \cup {l}, "total_staked") = Col(S, "total_staked") + l["total_staked"]
      BY <2>1, <3>1, ColWith
    <3> QED
      BY <2>2, <3>1, <3>2 DEF Received, S
  <2>3. CASE u # l.receiver
    <3>1. For(R, u) = S
      BY <2>3 DEF For
    <3>2. Col(S, "total_staked") \in Nat
      BY <2>1, ColType
    <3> QED
      BY <2>3, <3>1, <3>2 DEF Received
  <2> QED
    BY <2>2, <2>3
<1> QED
  BY <1>2, <1>3, <1>4

\* The loans of kind k become M, by delta more staked, all of it for r; the return pool then has y.
LoansChange(t, t1, x, y, k, M, r, delta) ==
    /\ AllBut(t, t1, {"pool", "loans", "totals", "fee"})
    /\ t1.loans = [t.loans EXCEPT ![k] = M] /\ KindOK(M, t1.pool.loan_num)
    /\ \A m \in M : \A j \in Kinds \ {k} : \A l \in t.loans[j] : l.loan_num # m.loan_num
    /\ r \in Users /\ delta \in Int /\ Col(M, "total_staked") = Col(t.loans[k], "total_staked") + delta
    /\ \A u \in Users : Received(M, u) = Received(t.loans[k], u) + (IF u = r THEN delta ELSE 0)
    /\ t1.totals \in [Users -> [Kinds -> Int]]
    /\ \A u \in Users, j \in Kinds : t1.totals[u][j] = t.totals[u][j] + (IF u = r /\ j = k THEN delta ELSE 0)
    /\ t1.pool \in PoolRow /\ t1.pool.total_lent = t.pool.total_lent + delta
    /\ t1.pool.total_unlent = t.pool.total_unlent - delta /\ t1.pool.total_lendable = t.pool.total_lendable
    /\ t1.pool.total_rex = t.pool.total_rex /\ t1.pool.loan_num >= t.pool.loan_num
    /\ t.pool.total_rex = 0 => delta <= 0
    /\ t1.fee \in Nat /\ y \in Int /\ y = x - (t1.fee - t.fee) - (Col(M, "balance") - Col(t.loans[k], "balance"))

LEMMA LoansMoved ==
  ASSUME NEW t, NEW x \in Int, Sound(t, x), NEW t1, NEW k \in Kinds, NEW M, NEW r, NEW delta, NEW y,
         LoansChange(t, t1, x, y, k, M, r, delta)
  PROVE  Sound(t1, y)
<1> USE DEF LoansChange
<1>1. /\ t1.bal = t.bal /\ t1.init = t.init /\ t1.orders = t.orders /\ t1.funds = t.funds
      /\ t1.delband = t.delband /\ t1.staked = t.staked /\ t1.tokens = t.tokens
      /\ t1.off = t.off /\ t1.strays = t.strays /\ t1.bought = t.bought /\ DOMAIN t1 = Fields
  BY DEF AllBut, Fields
<1>2. DOMAIN t.loans = Kinds /\ t1.loans[k] = M /\ \A j \in Kinds \ {k} : t1.loans[j] = t.loans[j]
  BY DEF Sound, LoansOK
<1>3. Shape(t1)
  BY <1>1 DEF Sound, Shape
<1>4. LoansOK(t1.loans, t1.pool.loan_num)
  <2>1. DOMAIN t1.loans = Kinds
    BY <1>2
  <2>2. ASSUME NEW j \in Kinds PROVE KindOK(t1.loans[j], t1.pool.loan_num)
    <3>1. KindOK(t.loans[j], t.pool.loan_num)
      BY DEF Sound, LoansOK
    <3>2. t.pool.loan_num \in Nat /\ t1.pool.loan_num \in Nat
      BY PoolTypes DEF Sound, PoolOK
    <3>3. \A l \in t.loans[j] : l.loan_num \in Nat
      BY <3>1, LoanTypes DEF KindOK
    <3>4. KindOK(t.loans[j], t1.pool.loan_num)
      BY <3>1, <3>2, <3>3 DEF KindOK
    <3> QED
      BY <3>4, <1>2
  <2>3. \A l \in t1.loans["cpu"], m \in t1.loans["net"] : l.loan_num # m.loan_num
    <3>1. \A l \in t.loans["cpu"], m \in t.loans["net"] : l.loan_num # m.loan_num
      BY DEF Sound, LoansOK
    <3>2. CASE k = "cpu"
      BY <1>2, <3>2 DEF Kinds
    <3>3. CASE k = "net"
      BY <1>2, <3>3 DEF Kinds
    <3> QED
      BY <3>2, <3>3 DEF Kinds
  <2> QED
    BY <2>1, <2>2, <2>3 DEF LoansOK
<1>5. \A j \in Kinds : Col(t.loans[j], "balance") \in Nat /\ Col(t.loans[j], "total_staked") \in Nat
  <2>1. \A j \in Kinds : IsFiniteSet(t.loans[j]) /\ \A l \in t.loans[j] : l["balance"] \in Nat /\ l["total_staked"] \in Nat
    BY LoanTypes DEF Sound, LoansOK, KindOK
  <2> QED
    BY <2>1, ColType
<1>6. Col(M, "balance") \in Nat
  <2>1. IsFiniteSet(M) /\ \A l \in M : l["balance"] \in Nat
    BY LoanTypes DEF KindOK
  <2> QED
    BY <2>1, ColType
<1>7. /\ BothKinds(t1.loans, "total_staked") = BothKinds(t.loans, "total_staked") + delta
      /\ BothKinds(t1.loans, "balance") = BothKinds(t.loans, "balance") + (Col(M, "balance") - Col(t.loans[k], "balance"))
  <2>1. CASE k = "cpu"
    BY <1>2, <1>5, <1>6, <2>1 DEF Kinds, BothKinds
  <2>2. CASE k = "net"
    BY <1>2, <1>5, <1>6, <2>2 DEF Kinds, BothKinds
  <2> QED
    BY <2>1, <2>2 DEF Kinds
<1>8. /\ t.pool.total_lent \in Nat /\ t.pool.total_unlent \in Nat /\ t.pool.total_rex \in Nat /\ t1.pool.total_lent \in Nat
      /\ t.pool.total_lendable \in Nat
  BY PoolTypes DEF Sound, PoolOK
<1>9. PoolOK(t1.pool, t1.init, t1.loans, t1.bal)
  <2>1. /\ t.pool.total_lendable = t.pool.total_lent + t.pool.total_unlent
        /\ t.pool.total_lent = BothKinds(t.loans, "total_staked") /\ t.pool.total_rex = RexOfAll(t.bal)
        /\ ~t.init => t.pool.total_rex = 0
        /\ t.pool.total_rex = 0 => t.pool.total_lent = 0
    BY DEF Sound, PoolOK
  <2>2. t1.pool.total_lendable = t1.pool.total_lent + t1.pool.total_unlent
    BY <2>1, <1>8
  <2>3. t1.pool.total_lent = BothKinds(t1.loans, "total_staked")
    BY <2>1, <1>7
  <2>4. ASSUME t1.pool.total_rex = 0 PROVE t1.pool.total_lent = 0
    <3>1. t.pool.total_rex = 0
      BY <2>4
    <3>2. t.pool.total_lent = 0 /\ delta <= 0
      BY <3>1, <2>1
    <3>3. t1.pool.total_lent = t.pool.total_lent + delta /\ t1.pool.total_lent \in Nat
      BY <1>8
    <3> QED
      BY <3>2, <3>3
  <2> QED
    BY <2>1, <2>2, <2>3, <2>4, <1>1 DEF PoolOK
<1>10. ResOK(t1.totals, t1.delband, t1.loans)
  <2>1. /\ t.totals \in [Users -> [Kinds -> Int]] /\ t.delband \in [Users -> [Kinds -> Nat]]
        /\ \A u \in Users, j \in Kinds : t.totals[u][j] = t.delband[u][j] + Received(t.loans[j], u)
    BY DEF Sound, ResOK
  <2>2. ASSUME NEW u \in Users, NEW j \in Kinds PROVE t1.totals[u][j] = t.delband[u][j] + Received(t1.loans[j], u)
    <3>1. Received(t.loans[j], u) \in Nat
      <4>1. IsFiniteSet(For(t.loans[j], u)) /\ \A l \in For(t.loans[j], u) : l["total_staked"] \in Nat
        BY LoanTypes, FS_Subset DEF Sound, LoansOK, KindOK, For
      <4> QED
        BY <4>1, ColType DEF Received
    <3>2. t.delband[u][j] \in Nat /\ t.totals[u][j] = t.delband[u][j] + Received(t.loans[j], u)
      BY <2>1
    <3>3. CASE j = k
      <4>1. t1.loans[j] = M
        BY <1>2, <3>3
      <4>2. Received(M, u) = Received(t.loans[j], u) + (IF u = r THEN delta ELSE 0)
        BY <3>3
      <4>3. t1.totals[u][j] = t.totals[u][j] + (IF u = r THEN delta ELSE 0)
        BY <3>3
      <4> QED
        BY <3>1, <3>2, <4>1, <4>2, <4>3
    <3>4. CASE j # k
      <4>1. t1.loans[j] = t.loans[j]
        BY <1>2, <3>4
      <4>3. t1.totals[u][j] = t.totals[u][j] + 0
        BY <3>4
      <4> QED
        BY <3>1, <3>2, <4>1, <4>3
    <3> QED
      BY <3>3, <3>4
  <2> QED
    BY <1>1, <2>1, <2>2 DEF ResOK
<1>11. Backing(t1.tokens, t1.funds, t1.loans, t1.orders, t1.pool, t1.off, t1.fee, y)
  <2> DEFINE B == BothKinds(t.loans, "balance")
             e == Col(M, "balance") - Col(t.loans[k], "balance")
  <2>1. e \in Int /\ y = x - (t1.fee - t.fee) - e /\ BothKinds(t1.loans, "balance") = B + e
    BY <1>5, <1>6, <1>7
  <2> HIDE DEF e
  <2> QED
    BY Accounts, <1>1, <2>1 DEF Backing
<1> QED
  BY <1>1, <1>3, <1>4, <1>9, <1>10, <1>11 DEF Sound

-----------------------------------------------------------------------------
(* The operators on the loans, field by field.                             *)

LEMMA AllButChain ==
  ASSUME NEW a, NEW b, NEW c, NEW F, NEW G, AllBut(a, b, F), AllBut(b, c, G), NEW H, F \subseteq H, G \subseteq H
  PROVE  AllBut(a, c, H)
BY DEF AllBut

\* What a payment buys from a reserve is at most the reserve.
LEMMA Bancor ==
  ASSUME NEW inp_reserve \in Nat, NEW out_reserve \in Nat, NEW inp \in Nat \ {0}
  PROVE  /\ get_bancor_output(inp_reserve, out_reserve, inp) \in Nat
         /\ get_bancor_output(inp_reserve, out_reserve, inp) <= out_reserve
<1> DEFINE n == inp_reserve + inp
           m == inp * out_reserve
           q == m \div n
<1>1. n \in Nat /\ n > 0 /\ inp <= n
  OBVIOUS
<1>2. m \in Nat /\ out_reserve * inp <= out_reserve * n /\ m = out_reserve * inp
  BY <1>1, MulMono, Distrib
<1>3. out_reserve * n = n * out_reserve
  BY <1>1, Distrib
<1>4. get_bancor_output(inp_reserve, out_reserve, inp) = q
  BY DEF get_bancor_output
<1> HIDE DEF n, m
<1>5. q \in Nat /\ n * q <= m
  BY <1>1, <1>2, DivBounds
<1>6. n * q \in Int /\ n * out_reserve \in Int /\ out_reserve * inp \in Int /\ out_reserve * n \in Int
  BY <1>1, <1>5
<1> HIDE DEF q
<1>7. n * q <= n * out_reserve
  BY <1>2, <1>3, <1>5, <1>6
<1>8. q <= out_reserve
  BY <1>1, <1>5, <1>7, MulCancel
<1> QED
  BY <1>4, <1>5, <1>8

LEMMA RemoveIs ==
  ASSUME NEW t, DOMAIN t = Fields, t.pool \in PoolRow, NEW l, l \in Loan, l.total_staked <= t.pool.total_lent,
         t.pool.total_lendable = t.pool.total_lent + t.pool.total_unlent
  PROVE  LET t1 == remove_loan_from_rex_pool(t, l)
         IN  /\ AllBut(t, t1, {"pool"}) /\ t1.pool \in PoolRow
             /\ t1.pool.total_unlent = t.pool.total_unlent + l.total_staked
             /\ t1.pool.total_lent = t.pool.total_lent - l.total_staked
             /\ t1.pool.total_lendable = t.pool.total_lendable /\ t1.pool.total_rex = t.pool.total_rex
             /\ t1.pool.loan_num = t.pool.loan_num
<1> DEFINE p  == t.pool
           o  == get_bancor_output(p.total_unlent, p.total_rent, l.total_staked)
           t1 == remove_loan_from_rex_pool(t, l)
<1>1. o \in Nat /\ o <= p.total_rent
  BY Bancor, PoolTypes, LoanTypes
<1>2. l.total_staked \in Nat /\ p.total_unlent \in Nat /\ p.total_lent \in Nat /\ p.total_rent \in Nat /\ p.total_lendable \in Nat
  BY PoolTypes, LoanTypes
<1>3. t1 = [t EXCEPT !.pool.total_rent = @ - o, !.pool.total_unlent = @ + l.total_staked, !.pool.total_lent = @ - l.total_staked,
                     !.pool.total_lendable = p.total_unlent + p.total_lent]
  BY DEF remove_loan_from_rex_pool
<1> HIDE DEF o, t1
<1>4. AllBut(t, t1, {"pool"})
  BY <1>3 DEF AllBut, Fields
<1>5. t1.pool = [p EXCEPT !.total_rent = @ - o, !.total_unlent = @ + l.total_staked, !.total_lent = @ - l.total_staked,
                          !.total_lendable = p.total_unlent + p.total_lent]
  BY <1>3 DEF Fields, PoolRow
<1>6. t1.pool \in PoolRow
  <2> DEFINE a == p.total_rent - o
             b == p.total_unlent + l.total_staked
             c == p.total_lent - l.total_staked
             d == p.total_unlent + p.total_lent
  <2>1. a \in Nat /\ b \in Nat /\ c \in Nat /\ d \in Nat
    BY <1>1, <1>2
  <2>2. t1.pool = [p EXCEPT !.total_rent = a, !.total_unlent = b, !.total_lent = c, !.total_lendable = d]
    BY <1>5 DEF PoolRow
  <2> HIDE DEF a, b, c, d
  <2> QED
    BY <2>1, <2>2 DEF PoolRow
<1>7. /\ t1.pool.total_unlent = p.total_unlent + l.total_staked /\ t1.pool.total_lent = p.total_lent - l.total_staked
      /\ t1.pool.total_lendable = p.total_unlent + p.total_lent /\ t1.pool.total_rex = p.total_rex
      /\ t1.pool.loan_num = p.loan_num
  BY <1>5 DEF PoolRow
<1>8. t1.pool.total_lendable = p.total_lendable
  BY <1>2, <1>7
<1> QED
  BY <1>4, <1>6, <1>7, <1>8 DEF t1

WithNewLoan(t, payment, rented) == add_loan_to_rex_pool(t, payment, rented, TRUE)
LEMMA NewLoanIs ==
  ASSUME NEW t, DOMAIN t = Fields, t.pool \in PoolRow, NEW payment \in Nat, NEW rented \in Nat, rented <= t.pool.total_unlent,
         NEW t1, t1 = WithNewLoan(t, payment, rented)
  PROVE      /\ AllBut(t, t1, {"pool", "fee"}) /\ t1.pool \in PoolRow /\ t1.fee = t.fee + payment
             /\ t1.pool.total_unlent = t.pool.total_unlent - rented
             /\ t1.pool.total_lent = t.pool.total_lent + rented
             /\ t1.pool.total_lendable = t.pool.total_lendable /\ t1.pool.total_rex = t.pool.total_rex
             /\ t1.pool.loan_num = t.pool.loan_num + 1
<1> DEFINE p  == t.pool
<1>1. t1 = [t EXCEPT !.fee = @ + payment,
              !.pool.total_rent = @ + payment, !.pool.total_unlent = @ - rented, !.pool.total_lent = @ + rented,
              !.pool.loan_num = @ + 1]
  BY DEF WithNewLoan, add_loan_to_rex_pool
<1>2. AllBut(t, t1, {"pool", "fee"}) /\ t1.fee = t.fee + payment
  BY <1>1 DEF AllBut, Fields
<1>3. t1.pool = [p EXCEPT !.total_rent = @ + payment, !.total_unlent = @ - rented, !.total_lent = @ + rented,
                          !.loan_num = @ + 1]
  BY <1>1 DEF Fields, PoolRow
<1>4. p.total_unlent \in Nat /\ p.total_lent \in Nat /\ p.total_rent \in Nat /\ p.total_lendable \in Nat /\ p.loan_num \in Nat
  BY PoolTypes
<1>5. t1.pool \in PoolRow
  <2> DEFINE a == p.total_rent + payment
             b == p.total_unlent - rented
             c == p.total_lent + rented
             d == p.loan_num + 1
  <2>1. a \in Nat /\ b \in Nat /\ c \in Nat /\ d \in Nat
    BY <1>4
  <2>2. t1.pool = [p EXCEPT !.total_rent = a, !.total_unlent = b, !.total_lent = c, !.loan_num = d]
    BY <1>3 DEF PoolRow
  <2> HIDE DEF a, b, c, d
  <2> QED
    BY <2>1, <2>2 DEF PoolRow
<1>6. /\ t1.pool.total_unlent = p.total_unlent - rented /\ t1.pool.total_lent = p.total_lent + rented
      /\ t1.pool.total_lendable = p.total_lendable /\ t1.pool.total_rex = p.total_rex
  BY <1>3 DEF PoolRow
<1>7. t1.pool.loan_num = p.loan_num + 1
  BY <1>3, <1>4 DEF PoolRow
<1> QED
  BY <1>2, <1>5, <1>6, <1>7

WithRenewed(t, payment, rented) == add_loan_to_rex_pool(t, payment, rented, FALSE)
LEMMA RenewedIs ==
  ASSUME NEW t, DOMAIN t = Fields, t.pool \in PoolRow, NEW payment \in Nat, NEW rented \in Nat, rented <= t.pool.total_unlent,
         NEW t1, t1 = WithRenewed(t, payment, rented)
  PROVE      /\ AllBut(t, t1, {"pool", "fee"}) /\ t1.pool \in PoolRow /\ t1.fee = t.fee + payment
             /\ t1.pool.total_unlent = t.pool.total_unlent - rented
             /\ t1.pool.total_lent = t.pool.total_lent + rented
             /\ t1.pool.total_lendable = t.pool.total_lendable /\ t1.pool.total_rex = t.pool.total_rex
             /\ t1.pool.loan_num = t.pool.loan_num
<1> DEFINE p  == t.pool
<1>1. t1 = [t EXCEPT !.fee = @ + payment,
              !.pool.total_rent = @ + payment, !.pool.total_unlent = @ - rented, !.pool.total_lent = @ + rented,
              !.pool.loan_num = @]
  BY DEF WithRenewed, add_loan_to_rex_pool
<1>2. AllBut(t, t1, {"pool", "fee"}) /\ t1.fee = t.fee + payment
  BY <1>1 DEF AllBut, Fields
<1>3. t1.pool = [p EXCEPT !.total_rent = @ + payment, !.total_unlent = @ - rented, !.total_lent = @ + rented,
                          !.loan_num = @]
  BY <1>1 DEF Fields, PoolRow
<1>4. p.total_unlent \in Nat /\ p.total_lent \in Nat /\ p.total_rent \in Nat /\ p.total_lendable \in Nat /\ p.loan_num \in Nat
  BY PoolTypes
<1>5. t1.pool \in PoolRow
  <2> DEFINE a == p.total_rent + payment
             b == p.total_unlent - rented
             c == p.total_lent + rented
             d == p.loan_num
  <2>1. a \in Nat /\ b \in Nat /\ c \in Nat /\ d \in Nat
    BY <1>4
  <2>2. t1.pool = [p EXCEPT !.total_rent = a, !.total_unlent = b, !.total_lent = c, !.loan_num = d]
    BY <1>3 DEF PoolRow
  <2> HIDE DEF a, b, c, d
  <2> QED
    BY <2>1, <2>2 DEF PoolRow
<1>6. /\ t1.pool.total_unlent = p.total_unlent - rented /\ t1.pool.total_lent = p.total_lent + rented
      /\ t1.pool.total_lendable = p.total_lendable /\ t1.pool.total_rex = p.total_rex
  BY <1>3 DEF PoolRow
<1>7. t1.pool.loan_num = p.loan_num
  BY <1>3, <1>4 DEF PoolRow
<1> QED
  BY <1>2, <1>5, <1>6, <1>7

\* The limit k of r is delta higher.
Limited(t, t1, r, k, delta) ==
    /\ AllBut(t, t1, {"totals"}) /\ t1.totals \in [Users -> [Kinds -> Int]]
    /\ \A u \in Users, j \in Kinds : t1.totals[u][j] = t.totals[u][j] + (IF u = r /\ j = k THEN delta ELSE 0)

LEMMA LimitsIs ==
  ASSUME NEW t, DOMAIN t = Fields, t.totals \in [Users -> [Kinds -> Int]], NEW r \in Users, NEW k \in Kinds, NEW delta \in Int,
         NEW t1, t1 = update_resource_limits(t, r, k, delta)
  PROVE  Limited(t, t1, r, k, delta)
<1>1. t1 = [t EXCEPT !.totals[r][k] = @ + delta]
  BY DEF update_resource_limits
<1>2. AllBut(t, t1, {"totals"})
  BY <1>1 DEF AllBut, Fields
<1>3. t1.totals = [t.totals EXCEPT ![r][k] = @ + delta]
  BY <1>1 DEF Fields
<1>4. t1.totals \in [Users -> [Kinds -> Int]]
  BY <1>3
<1>5. \A u \in Users, j \in Kinds : t1.totals[u][j] = t.totals[u][j] + (IF u = r /\ j = k THEN delta ELSE 0)
  BY <1>3
<1> QED
  BY <1>2, <1>4, <1>5 DEF Limited

LEMMA FundInIs ==
  ASSUME NEW t, DOMAIN t = Fields, FundsOK(t.funds), NEW u \in Users, NEW a \in Nat
  PROVE  LET t1 == transfer_to_fund(t, u, a)
         IN  /\ AllBut(t, t1, {"funds"}) /\ FundsOK(t1.funds) /\ FundOf(t1.funds, u) = FundOf(t.funds, u) + a
             /\ \A v \in Users \ {u} : FundOf(t1.funds, v) = FundOf(t.funds, v)
             /\ FundOf(t.funds, u) \in Nat
<1> DEFINE t1 == transfer_to_fund(t, u, a)
           f  == t.funds
<1>1. t1 = [t EXCEPT !.funds = Row(@, u, a + IF u \in DOMAIN @ THEN @[u] ELSE 0)]
  BY DEF transfer_to_fund
<1> HIDE DEF t1
<1>2. AllBut(t, t1, {"funds"}) /\ t1.funds = Row(f, u, a + IF u \in DOMAIN f THEN f[u] ELSE 0)
  BY <1>1 DEF AllBut, Fields
<1>3. DOMAIN t1.funds = DOMAIN f \cup {u} /\ \A v \in DOMAIN f \cup {u} : t1.funds[v] = (IF v = u THEN a + FundOf(f, u) ELSE f[v])
  BY <1>2 DEF Row, FundOf
<1>4. FundOf(f, u) \in Nat
  BY DEF FundOf, FundsOK
<1>5. FundsOK(t1.funds)
  BY <1>3, <1>4 DEF FundsOK
<1>6. FundOf(t1.funds, u) = FundOf(f, u) + a /\ \A v \in Users \ {u} : FundOf(t1.funds, v) = FundOf(f, v)
  BY <1>3, <1>4 DEF FundOf
<1> QED
  BY <1>2, <1>4, <1>5, <1>6 DEF t1

LEMMA FundOutIs ==
  ASSUME NEW t, DOMAIN t = Fields, FundsOK(t.funds), NEW u \in Users, NEW a \in Nat, HasFund(t, u, a)
  PROVE  LET t1 == transfer_from_fund(t, u, a)
         IN  /\ AllBut(t, t1, {"funds"}) /\ FundsOK(t1.funds) /\ FundOf(t1.funds, u) = FundOf(t.funds, u) - a
             /\ \A v \in Users \ {u} : FundOf(t1.funds, v) = FundOf(t.funds, v)
             /\ FundOf(t.funds, u) \in Nat
<1> DEFINE t1 == transfer_from_fund(t, u, a)
           f  == t.funds
<1>1. t1 = [t EXCEPT !.funds[u] = @ - a]
  BY DEF transfer_from_fund
<1> HIDE DEF t1
<1>2. AllBut(t, t1, {"funds"}) /\ t1.funds = [f EXCEPT ![u] = @ - a]
  BY <1>1 DEF AllBut, Fields
<1>3. u \in DOMAIN f /\ a <= f[u] /\ f[u] \in Nat
  BY DEF HasFund, FundsOK
<1>4. DOMAIN t1.funds = DOMAIN f /\ \A v \in DOMAIN f : t1.funds[v] = (IF v = u THEN f[u] - a ELSE f[v])
  BY <1>2
<1>5. FundsOK(t1.funds)
  BY <1>3, <1>4 DEF FundsOK
<1>6. FundOf(t1.funds, u) = FundOf(f, u) - a /\ (\A v \in Users \ {u} : FundOf(t1.funds, v) = FundOf(f, v)) /\ FundOf(f, u) \in Nat
  BY <1>3, <1>4 DEF FundOf
<1> QED
  BY <1>2, <1>5, <1>6 DEF t1

-----------------------------------------------------------------------------
(* The loans.                                                              *)

\* What the processing of a loan leaves alone.
LoanFields == {"pool", "funds", "loans", "totals", "fee"}
LoanStep(t, t1) ==
    /\ AllBut(t, t1, LoanFields)
    /\ t1.pool.total_rex = t.pool.total_rex /\ t1.pool.total_lendable = t.pool.total_lendable

\* A loan of the tables.
LEMMA LoanOf ==
  ASSUME NEW t, NEW x \in Int, Sound(t, x), NEW k \in Kinds, NEW l \in t.loans[k]
  PROVE  /\ l \in Loan /\ KindOK(t.loans[k], t.pool.loan_num) /\ l.total_staked <= t.pool.total_lent
         /\ t.pool \in PoolRow /\ t.pool.total_lendable = t.pool.total_lent + t.pool.total_unlent
         /\ DOMAIN t = Fields /\ FundsOK(t.funds) /\ t.totals \in [Users -> [Kinds -> Int]]
<1>1. KindOK(t.loans[k], t.pool.loan_num) /\ l \in Loan
  BY DEF Sound, LoansOK, KindOK
<1>2. l.total_staked <= Col(t.loans[k], "total_staked")
  BY <1>1, LoanOut DEF KindOK
<1>3. \A j \in Kinds : IsFiniteSet(t.loans[j]) /\ \A m \in t.loans[j] : m["total_staked"] \in Nat
  BY LoanTypes DEF Sound, LoansOK, KindOK
<1>4. \A j \in Kinds : Col(t.loans[j], "total_staked") \in Nat
  BY <1>3, ColType
<1>5. t.pool.total_lent = Col(t.loans["cpu"], "total_staked") + Col(t.loans["net"], "total_staked")
  BY DEF Sound, PoolOK, BothKinds
<1>6. l.total_staked <= t.pool.total_lent
  BY <1>1, <1>2, <1>4, <1>5, LoanTypes DEF Kinds
<1> QED
  BY <1>1, <1>6 DEF Sound, Shape, PoolOK, ResOK

LEMMA RenewKeeps ==
  ASSUME NEW t, NEW x \in Int, Sound(t, x), NEW k \in Kinds, NEW l \in t.loans[k],
         NEW tr, tr = remove_loan_from_rex_pool(t, l), NEW rented, rented = Rented(tr, l.payment), Renews(tr, l, rented),
         NEW t1, t1 = Renew(tr, k, l, rented)
  PROVE  Sound(t1, x) /\ LoanStep(t, t1)
<1> DEFINE L  == t.loans[k]
           n  == t.pool.loan_num
           nl == update_renewed_loan(l, rented)
           M  == (L \ {l}) \cup {nl}
           ta == WithRenewed(tr, l.payment, rented)
           tl == [ta EXCEPT !.loans[k] = M]
           delta == rented - l.total_staked
<1>1. /\ l \in Loan /\ KindOK(L, n) /\ l.total_staked <= t.pool.total_lent
      /\ t.pool \in PoolRow /\ t.pool.total_lendable = t.pool.total_lent + t.pool.total_unlent
      /\ DOMAIN t = Fields /\ FundsOK(t.funds) /\ t.totals \in [Users -> [Kinds -> Int]]
  BY LoanOf
<1>2. /\ l.from \in Users /\ l.receiver \in Users /\ l.payment \in Nat \ {0} /\ l.balance \in Nat
      /\ l.total_staked \in Nat \ {0} /\ l.loan_num \in Nat /\ l.expiration \in Nat
  BY <1>1, LoanTypes
<1>3. /\ AllBut(t, tr, {"pool"}) /\ tr.pool \in PoolRow
      /\ tr.pool.total_unlent = t.pool.total_unlent + l.total_staked
      /\ tr.pool.total_lent = t.pool.total_lent - l.total_staked
      /\ tr.pool.total_lendable = t.pool.total_lendable /\ tr.pool.total_rex = t.pool.total_rex
      /\ tr.pool.loan_num = n
  BY <1>1, RemoveIs
<1>4. rented \in Nat /\ rented <= tr.pool.total_unlent
  BY <1>2, <1>3, Bancor, PoolTypes DEF Rented
<1>5. l.payment <= l.balance /\ l.payment < rented /\ tr.pool.total_rex > 0
  BY DEF Renews, rex_loans_available, rex_available
<1>6. DOMAIN tr = Fields /\ tr.loans = t.loans /\ tr.totals = t.totals /\ tr.fee = t.fee
  BY <1>3 DEF AllBut, Fields
<1>7. /\ AllBut(tr, ta, {"pool", "fee"}) /\ ta.pool \in PoolRow /\ ta.fee = tr.fee + l.payment
      /\ ta.pool.total_unlent = tr.pool.total_unlent - rented
      /\ ta.pool.total_lent = tr.pool.total_lent + rented
      /\ ta.pool.total_lendable = tr.pool.total_lendable /\ ta.pool.total_rex = tr.pool.total_rex
      /\ ta.pool.loan_num = tr.pool.loan_num
  <2>1. l.payment \in Nat
    BY <1>2
  <2>2. ta = WithRenewed(tr, l.payment, rented)
    OBVIOUS
  <2> HIDE DEF ta
  <2>3. DOMAIN tr = Fields /\ tr.pool \in PoolRow /\ rented \in Nat /\ rented <= tr.pool.total_unlent
    BY <1>3, <1>4, <1>6
  <2>4. QED
    BY <2>1, <2>2, <2>3, RenewedIs
<1>8. DOMAIN ta = Fields /\ ta.loans = t.loans /\ ta.totals = t.totals
  BY <1>6, <1>7 DEF AllBut, Fields
<1>9. AllBut(ta, tl, {"loans"}) /\ tl.loans = [ta.loans EXCEPT ![k] = M]
  <2>1. tl = [ta EXCEPT !.loans[k] = M]
    OBVIOUS
  <2> HIDE DEF tl, M, ta
  <2> QED
    BY <1>8, <2>1 DEF AllBut, Fields
<1>10. DOMAIN tl = Fields /\ tl.loans = [t.loans EXCEPT ![k] = M] /\ tl.totals = t.totals /\ tl.pool = ta.pool /\ tl.fee = ta.fee
  BY <1>8, <1>9 DEF AllBut, Fields
<1>11. t1 = update_resource_limits(tl, l.receiver, k, delta)
  <2>1. DOMAIN t.loans = Kinds
    BY DEF Sound, LoansOK
  <2>2. t1 = update_resource_limits([ta EXCEPT !.loans[k] = (ta.loans[k] \ {l}) \cup {nl}], l.receiver, k, delta)
    BY <1>8, <2>1 DEF Renew, WithRenewed, Fields
  <2> QED
    BY <2>2, <1>8
<1> HIDE DEF tl, ta
<1>12. /\ AllBut(tl, t1, {"totals"}) /\ t1.totals \in [Users -> [Kinds -> Int]]
       /\ \A u \in Users, j \in Kinds : t1.totals[u][j] = tl.totals[u][j] + (IF u = l.receiver /\ j = k THEN delta ELSE 0)
  <2>1. delta \in Int /\ tl.totals \in [Users -> [Kinds -> Int]]
    BY <1>2, <1>4, <1>10, <1>1
  <2> HIDE DEF delta
  <2>2. DOMAIN tl = Fields /\ l.receiver \in Users
    BY <1>2, <1>10
  <2>3. Limited(tl, t1, l.receiver, k, delta)
    BY <1>11, <2>1, <2>2, LimitsIs
  <2> QED
    BY <2>3 DEF Limited
<1>13. AllBut(t, t1, {"pool", "loans", "totals", "fee"})
  <2>1. AllBut(t, ta, {"pool", "loans", "totals", "fee"})
    BY <1>3, <1>7, AllButChain
  <2>2. AllBut(ta, t1, {"pool", "loans", "totals", "fee"})
    BY <1>9, <1>12, AllButChain
  <2> QED
    BY <2>1, <2>2, AllButChain
<1>14. t1.loans = [t.loans EXCEPT ![k] = M] /\ t1.pool = ta.pool /\ t1.fee = t.fee + l.payment
  BY <1>10, <1>12, <1>7, <1>6 DEF AllBut, Fields
<1>15. /\ nl \in Loan /\ nl.loan_num = l.loan_num /\ nl.receiver = l.receiver
       /\ nl.total_staked = rented /\ nl.balance = l.balance - l.payment
  <2>1. l.balance - l.payment \in Nat /\ rented \in Nat \ {0} /\ l.expiration + loan_length \in Nat
    BY <1>2, <1>4, <1>5, Consts DEF loan_length
  <2>2. nl = [l EXCEPT !.total_staked = rented, !.expiration = l.expiration + loan_length, !.balance = l.balance - l.payment]
    BY <1>1 DEF update_renewed_loan, Loan
  <2> QED
    BY <1>1, <2>1, <2>2 DEF Loan
<1> HIDE DEF nl
<1>16. /\ IsFiniteSet(L) /\ L \subseteq Loan /\ (\A m \in L : m.loan_num <= n)
       /\ \A m, o \in L : m.loan_num = o.loan_num => m = o
  BY <1>1 DEF KindOK
<1>17. nl \notin L \ {l}
  BY <1>15, <1>16
<1>18. /\ IsFiniteSet(L \ {l}) /\ L \ {l} \subseteq Loan
       /\ Col(L \ {l}, "total_staked") = Col(L, "total_staked") - l.total_staked
       /\ Col(L \ {l}, "balance") = Col(L, "balance") - l.balance
       /\ Col(L, "total_staked") \in Nat /\ Col(L, "balance") \in Nat
       /\ \A u \in Users : /\ Received(L \ {l}, u) = Received(L, u) - (IF u = l.receiver THEN l.total_staked ELSE 0)
                           /\ Received(L, u) \in Nat
  BY <1>16, LoanOut
<1>19. /\ IsFiniteSet(M) /\ M \subseteq Loan
       /\ Col(M, "total_staked") = Col(L \ {l}, "total_staked") + nl.total_staked
       /\ Col(M, "balance") = Col(L \ {l}, "balance") + nl.balance
       /\ \A u \in Users : Received(M, u) = Received(L \ {l}, u) + (IF u = nl.receiver THEN nl.total_staked ELSE 0)
  <2> DEFINE R == L \ {l}
  <2>1. IsFiniteSet(R) /\ R \subseteq Loan /\ nl \in Loan /\ nl \notin R
    BY <1>15, <1>17, <1>18
  <2> HIDE DEF R
  <2>2. /\ IsFiniteSet(R \cup {nl}) /\ R \cup {nl} \subseteq Loan
        /\ Col(R \cup {nl}, "total_staked") = Col(R, "total_staked") + nl.total_staked
        /\ Col(R \cup {nl}, "balance") = Col(R, "balance") + nl.balance
        /\ \A u \in Users : Received(R \cup {nl}, u) = Received(R, u) + (IF u = nl.receiver THEN nl.total_staked ELSE 0)
    BY <2>1, LoanIn
  <2> QED
    BY <2>2 DEF R
<1>20. KindOK(M, t1.pool.loan_num)
  <2>1. t1.pool.loan_num = n
    BY <1>14, <1>7, <1>3, PoolTypes, <1>1
  <2>2. \A m \in M : m.loan_num <= n
    BY <1>15, <1>16
  <2>3. \A m, o \in M : m.loan_num = o.loan_num => m = o
    BY <1>15, <1>16
  <2> QED
    BY <2>1, <2>2, <2>3, <1>19 DEF KindOK
<1>21. \A m \in M : \A j \in Kinds \ {k} : \A o \in t.loans[j] : o.loan_num # m.loan_num
  <2>1. \A m \in L : \A j \in Kinds \ {k} : \A o \in t.loans[j] : o.loan_num # m.loan_num
    BY DEF Sound, LoansOK, Kinds
  <2> QED
    BY <2>1, <1>15
<1>22. delta \in Int /\ Col(M, "total_staked") = Col(L, "total_staked") + delta
  BY <1>2, <1>4, <1>15, <1>18, <1>19
<1>23. \A u \in Users : Received(M, u) = Received(L, u) + (IF u = l.receiver THEN delta ELSE 0)
  <2> SUFFICES ASSUME NEW u \in Users PROVE Received(M, u) = Received(L, u) + (IF u = l.receiver THEN delta ELSE 0)
    OBVIOUS
  <2> HIDE DEF M
  <2>1. /\ Received(L \ {l}, u) = Received(L, u) - (IF u = l.receiver THEN l.total_staked ELSE 0)
        /\ Received(L, u) \in Nat
        /\ Received(M, u) = Received(L \ {l}, u) + (IF u = l.receiver THEN rented ELSE 0)
    BY <1>15, <1>18, <1>19
  <2> QED
    BY <1>2, <1>4, <2>1
<1>24. x = x - (t1.fee - t.fee) - (Col(M, "balance") - Col(L, "balance"))
  <2>1. t.fee \in Nat
    BY DEF Sound, Shape
  <2>2. Col(M, "balance") = Col(L, "balance") - l.payment
    BY <1>2, <1>15, <1>18, <1>19
  <2> QED
    BY <1>2, <1>14, <1>18, <2>1, <2>2
<1>25. /\ t1.pool \in PoolRow /\ t1.pool.total_lent = t.pool.total_lent + delta
       /\ t1.pool.total_unlent = t.pool.total_unlent - delta /\ t1.pool.total_lendable = t.pool.total_lendable
       /\ t1.pool.total_rex = t.pool.total_rex /\ t1.pool.loan_num >= t.pool.loan_num
       /\ ~(t.pool.total_rex = 0)
  BY <1>1, <1>2, <1>3, <1>4, <1>5, <1>7, <1>14, PoolTypes
<1>26. t1.fee \in Nat
  BY <1>2, <1>14 DEF Sound, Shape
<1>27. \A u \in Users, j \in Kinds : t1.totals[u][j] = t.totals[u][j] + (IF u = l.receiver /\ j = k THEN delta ELSE 0)
  BY <1>10, <1>12
<1> HIDE DEF delta, M, n
<1>28. Sound(t1, x)
  <2>1. t.pool.total_rex = 0 => delta <= 0
    BY <1>25
  <2>2. LoansChange(t, t1, x, x, k, M, l.receiver, delta)
    BY <1>2, <1>12, <1>13, <1>14, <1>20, <1>21, <1>22, <1>23, <1>24, <1>25, <1>26, <1>27, <2>1 DEF LoansChange
  <2> QED
    BY <2>2, LoansMoved
<1>29. LoanStep(t, t1)
  <2>1. AllBut(t, t1, LoanFields)
    BY <1>13 DEF AllBut, LoanFields
  <2> QED
    BY <1>25, <2>1 DEF LoanStep
<1> QED
  BY <1>28, <1>29

\* The refund of a loan that is closed.
LEMMA RefundIs ==
  ASSUME NEW t, DOMAIN t = Fields, FundsOK(t.funds), NEW l, l \in Loan, NEW t1, t1 = RefundLoan(t, l)
  PROVE  /\ AllBut(t, t1, {"funds"}) /\ FundsOK(t1.funds) /\ FundOf(t1.funds, l.from) = FundOf(t.funds, l.from) + l.balance
         /\ \A v \in Users \ {l.from} : FundOf(t1.funds, v) = FundOf(t.funds, v)
         /\ FundOf(t.funds, l.from) \in Nat
<1>1. l.from \in Users /\ l.balance \in Nat
  BY LoanTypes
<1>2. CASE l.balance > 0
  <2>1. t1 = transfer_to_fund(t, l.from, l.balance)
    BY <1>2 DEF RefundLoan
  <2> QED
    BY <1>1, <2>1, FundInIs
<1>3. CASE ~(l.balance > 0)
  <2>1. t1 = t /\ l.balance = 0
    BY <1>1, <1>3 DEF RefundLoan
  <2>2. FundOf(t.funds, l.from) \in Nat
    BY DEF FundsOK, FundOf
  <2> QED
    BY <2>1, <2>2 DEF AllBut
<1> QED
  BY <1>2, <1>3

LEMMA CloseKeeps ==
  ASSUME NEW t, NEW x \in Int, Sound(t, x), NEW k \in Kinds, NEW l \in t.loans[k],
         NEW tr, tr = remove_loan_from_rex_pool(t, l), NEW t1, t1 = Close(tr, k, l)
  PROVE  Sound(t1, x) /\ LoanStep(t, t1)
<1> DEFINE L  == t.loans[k]
           n  == t.pool.loan_num
           M  == L \ {l}
           ta == RefundLoan(tr, l)
           tl == [ta EXCEPT !.loans[k] = M]
           delta == -l.total_staked
           t0 == [t EXCEPT !.funds = ta.funds]
           y  == x - l.balance
<1>1. /\ l \in Loan /\ KindOK(L, n) /\ l.total_staked <= t.pool.total_lent
      /\ t.pool \in PoolRow /\ t.pool.total_lendable = t.pool.total_lent + t.pool.total_unlent
      /\ DOMAIN t = Fields /\ FundsOK(t.funds) /\ t.totals \in [Users -> [Kinds -> Int]]
  BY LoanOf
<1>2. /\ l.from \in Users /\ l.receiver \in Users /\ l.balance \in Nat
      /\ l.total_staked \in Nat \ {0} /\ l.loan_num \in Nat
  BY <1>1, LoanTypes
<1>3. /\ AllBut(t, tr, {"pool"}) /\ tr.pool \in PoolRow
      /\ tr.pool.total_unlent = t.pool.total_unlent + l.total_staked
      /\ tr.pool.total_lent = t.pool.total_lent - l.total_staked
      /\ tr.pool.total_lendable = t.pool.total_lendable /\ tr.pool.total_rex = t.pool.total_rex
      /\ tr.pool.loan_num = n
  BY <1>1, RemoveIs
<1>6. DOMAIN tr = Fields /\ tr.loans = t.loans /\ tr.totals = t.totals /\ tr.fee = t.fee /\ tr.funds = t.funds
  BY <1>3 DEF AllBut, Fields
<1>7. /\ AllBut(tr, ta, {"funds"}) /\ FundsOK(ta.funds) /\ FundOf(ta.funds, l.from) = FundOf(tr.funds, l.from) + l.balance
      /\ \A v \in Users \ {l.from} : FundOf(ta.funds, v) = FundOf(tr.funds, v)
      /\ FundOf(tr.funds, l.from) \in Nat
  <2>1. ta = RefundLoan(tr, l) /\ FundsOK(tr.funds)
    BY <1>1, <1>6
  <2> HIDE DEF ta
  <2> QED
    BY <1>1, <1>6, <2>1, RefundIs
<1>8. DOMAIN ta = Fields /\ ta.loans = t.loans /\ ta.totals = t.totals /\ ta.pool = tr.pool /\ ta.fee = t.fee
  BY <1>6, <1>7 DEF AllBut, Fields
<1>9. AllBut(ta, tl, {"loans"}) /\ tl.loans = [ta.loans EXCEPT ![k] = M]
  <2> HIDE DEF M, ta
  <2> QED
    BY <1>8 DEF AllBut, Fields
<1>10. /\ DOMAIN tl = Fields /\ tl.loans = [t.loans EXCEPT ![k] = M] /\ tl.totals = t.totals /\ tl.pool = ta.pool /\ tl.fee = ta.fee
       /\ tl.funds = ta.funds
  BY <1>8, <1>9 DEF AllBut, Fields
<1>11. t1 = update_resource_limits(tl, l.receiver, k, delta)
  <2>1. DOMAIN t.loans = Kinds
    BY DEF Sound, LoansOK
  <2>2. t1 = update_resource_limits([ta EXCEPT !.loans[k] = ta.loans[k] \ {l}], l.receiver, k, delta)
    BY <1>8, <2>1 DEF Close, Fields
  <2> QED
    BY <2>2, <1>8
<1> HIDE DEF tl, ta
<1>12. /\ AllBut(tl, t1, {"totals"}) /\ t1.totals \in [Users -> [Kinds -> Int]]
       /\ \A u \in Users, j \in Kinds : t1.totals[u][j] = tl.totals[u][j] + (IF u = l.receiver /\ j = k THEN delta ELSE 0)
  <2>1. delta \in Int /\ tl.totals \in [Users -> [Kinds -> Int]]
    BY <1>2, <1>10, <1>1
  <2> HIDE DEF delta
  <2>2. DOMAIN tl = Fields /\ l.receiver \in Users
    BY <1>2, <1>10
  <2>3. Limited(tl, t1, l.receiver, k, delta)
    BY <1>11, <2>1, <2>2, LimitsIs
  <2> QED
    BY <2>3 DEF Limited
<1>13. AllBut(t, t1, LoanFields)
  <2>1. AllBut(t, ta, LoanFields)
    <3>1. {"pool"} \subseteq LoanFields /\ {"funds"} \subseteq LoanFields
      BY DEF LoanFields
    <3> QED
      BY <1>3, <1>7, <3>1, AllButChain
  <2>2. AllBut(ta, t1, LoanFields)
    <3>1. {"loans"} \subseteq LoanFields /\ {"totals"} \subseteq LoanFields
      BY DEF LoanFields
    <3> QED
      BY <1>9, <1>12, <3>1, AllButChain
  <2> QED
    BY <2>1, <2>2, AllButChain
<1>14. t1.loans = [t.loans EXCEPT ![k] = M] /\ t1.pool = tr.pool /\ t1.fee = t.fee /\ t1.funds = ta.funds
  BY <1>10, <1>12, <1>8 DEF AllBut, Fields
<1>15. AllBut(t, t0, {"funds"}) /\ t0.funds = ta.funds
  BY <1>1 DEF AllBut, Fields
<1>16. /\ t0.loans = t.loans /\ t0.totals = t.totals /\ t0.pool = t.pool /\ t0.fee = t.fee /\ DOMAIN t0 = Fields
  BY <1>15 DEF AllBut, Fields
<1> HIDE DEF t0
<1>17. AllBut(t0, t1, {"pool", "loans", "totals", "fee"})
  BY <1>13, <1>14, <1>15 DEF AllBut, Fields, LoanFields
<1>18. Sound(t0, y) /\ y \in Int
  <2>1. y \in Int /\ y = x - (FundOf(t0.funds, l.from) - FundOf(t.funds, l.from))
    BY <1>2, <1>6, <1>7, <1>15
  <2> HIDE DEF y
  <2>2. FundsOK(t0.funds) /\ \A v \in Users \ {l.from} : FundOf(t0.funds, v) = FundOf(t.funds, v)
    BY <1>6, <1>7, <1>15
  <2> QED
    BY <1>2, <1>15, <2>1, <2>2, FundsMoved
<1>19. /\ IsFiniteSet(L) /\ L \subseteq Loan /\ (\A m \in L : m.loan_num <= n)
       /\ \A m, o \in L : m.loan_num = o.loan_num => m = o
  BY <1>1 DEF KindOK
<1>20. /\ IsFiniteSet(M) /\ M \subseteq Loan
       /\ Col(M, "total_staked") = Col(L, "total_staked") - l.total_staked
       /\ Col(M, "balance") = Col(L, "balance") - l.balance
       /\ Col(L, "total_staked") \in Nat /\ Col(L, "balance") \in Nat
       /\ \A u \in Users : /\ Received(M, u) = Received(L, u) - (IF u = l.receiver THEN l.total_staked ELSE 0)
                           /\ Received(L, u) \in Nat
  BY <1>19, LoanOut
<1>21. KindOK(M, t1.pool.loan_num)
  BY <1>3, <1>14, <1>19, <1>20 DEF KindOK
<1>22. \A m \in M : \A j \in Kinds \ {k} : \A o \in t0.loans[j] : o.loan_num # m.loan_num
  BY <1>16 DEF Sound, LoansOK, Kinds
<1>23. \A u \in Users : Received(M, u) = Received(t0.loans[k], u) + (IF u = l.receiver THEN delta ELSE 0)
  <2> SUFFICES ASSUME NEW u \in Users PROVE Received(M, u) = Received(L, u) + (IF u = l.receiver THEN delta ELSE 0)
    BY <1>16
  <2> HIDE DEF M
  <2>1. /\ Received(M, u) = Received(L, u) - (IF u = l.receiver THEN l.total_staked ELSE 0)
        /\ Received(L, u) \in Nat
    BY <1>20
  <2> QED
    BY <1>2, <2>1
<1>24. delta \in Int /\ Col(M, "total_staked") = Col(t0.loans[k], "total_staked") + delta /\ delta <= 0
  BY <1>2, <1>16, <1>20
<1>25. x = y - (t1.fee - t0.fee) - (Col(M, "balance") - Col(t0.loans[k], "balance"))
  <2>1. t.fee \in Nat
    BY DEF Sound, Shape
  <2> QED
    BY <1>2, <1>14, <1>16, <1>20, <2>1
<1>26. /\ t1.pool \in PoolRow /\ t1.pool.total_lent = t0.pool.total_lent + delta
       /\ t1.pool.total_unlent = t0.pool.total_unlent - delta /\ t1.pool.total_lendable = t0.pool.total_lendable
       /\ t1.pool.total_rex = t0.pool.total_rex /\ t1.pool.loan_num >= t0.pool.loan_num
  BY <1>1, <1>2, <1>3, <1>14, <1>16, PoolTypes
<1>27. \A u \in Users, j \in Kinds : t1.totals[u][j] = t0.totals[u][j] + (IF u = l.receiver /\ j = k THEN delta ELSE 0)
  BY <1>10, <1>12, <1>16
<1>28. t1.fee \in Nat /\ t1.loans = [t0.loans EXCEPT ![k] = M]
  BY <1>14, <1>16 DEF Sound, Shape
<1> HIDE DEF delta, M, L, n, y
<1>29. LoansChange(t0, t1, y, x, k, M, l.receiver, delta)
  BY <1>2, <1>12, <1>17, <1>21, <1>22, <1>23, <1>24, <1>25, <1>26, <1>27, <1>28 DEF LoansChange
<1>30. Sound(t1, x)
  BY <1>18, <1>29, LoansMoved
<1>31. LoanStep(t, t1)
  BY <1>13, <1>3, <1>14 DEF LoanStep
<1> QED
  BY <1>30, <1>31

\* An expired loan is renewed or closed.
LEMMA ExpiredKeeps ==
  ASSUME NEW t, NEW x \in Int, Sound(t, x), NEW k \in Kinds, NEW l \in t.loans[k],
         NEW t1, t1 = process_expired_loan(t, k, l)
  PROVE  Sound(t1, x) /\ LoanStep(t, t1)
<1> DEFINE tr == remove_loan_from_rex_pool(t, l)
           rented == Rented(tr, l.payment)
<1>1. t1 = RenewOrClose(tr, k, l, rented)
  BY DEF process_expired_loan, Requote
<1> HIDE DEF rented
<1>2. CASE Renews(tr, l, rented)
  <2>1. t1 = Renew(tr, k, l, rented)
    BY <1>1, <1>2 DEF RenewOrClose
  <2> QED
    BY <1>2, <2>1, RenewKeeps DEF rented
<1>3. CASE ~Renews(tr, l, rented)
  <2>1. t1 = Close(tr, k, l)
    BY <1>1, <1>3 DEF RenewOrClose
  <2> QED
    BY <2>1, CloseKeeps
<1> QED
  BY <1>2, <1>3

\* The first of the expired loans.
LEMMA FirstExpired ==
  ASSUME NEW L, IsFiniteSet(L), L \subseteq Loan, L # {}
  PROVE  (CHOOSE l \in L : \A m \in L : Sooner(l, m)) \in L
<1> DEFINE E == {l.expiration : l \in L}
           F == {l \in L : \A m \in L : l.expiration <= m.expiration}
           N == {l.loan_num : l \in F}
<1>1. E \in SUBSET Nat /\ E # {}
  BY LoanTypes
<1>2. PICK e \in E : \A g \in E : e <= g
  BY <1>1, LeastNatural
<1>3. F # {}
  BY <1>2
<1>4. N \in SUBSET Nat /\ N # {}
  BY <1>3, LoanTypes
<1>5. PICK i \in N : \A j \in N : i <= j
  BY <1>4, LeastNatural
<1>6. PICK l \in F : l.loan_num = i
  BY <1>5
<1>7. ASSUME NEW m \in L PROVE Sooner(l, m)
  <2>1. l.expiration \in Nat /\ m.expiration \in Nat /\ l.expiration <= m.expiration
    BY <1>6, LoanTypes
  <2>2. CASE l.expiration = m.expiration
    <3>1. m \in F
      BY <1>6, <2>2
    <3>2. l.loan_num <= m.loan_num
      BY <1>5, <1>6, <3>1
    <3> QED
      BY <2>2, <3>2 DEF Sooner
  <2>3. CASE l.expiration # m.expiration
    BY <2>1, <2>3 DEF Sooner
  <2> QED
    BY <2>2, <2>3
<1>8. \E h \in L : \A m \in L : Sooner(h, m)
  BY <1>6, <1>7
<1> QED
  BY <1>8, Zenon

\* One step of the loop keeps everything.
LEMMA LoanKeeps ==
  ASSUME NEW t, NEW x \in Int, Sound(t, x), NEW k \in Kinds, NEW t1, t1 = process_loan(t, k)
  PROVE  Sound(t1, x) /\ LoanStep(t, t1)
<1> DEFINE E == {l \in t.loans[k] : l.expiration <= now}
           l == CHOOSE l \in E : \A m \in E : Sooner(l, m)
<1>1. t1 = IF E = {} THEN t ELSE process_expired_loan(t, k, l)
  BY DEF process_loan
<1>2. CASE E = {}
  BY <1>1, <1>2 DEF LoanStep, AllBut, Sound, Shape
<1>3. CASE E # {}
  <2>1. IsFiniteSet(E) /\ E \subseteq Loan
    BY FS_Subset DEF Sound, LoansOK, KindOK
  <2>2. l \in E
    <3> HIDE DEF E
    <3> QED
      BY <1>3, <2>1, FirstExpired
  <2>3. l \in t.loans[k]
    BY <2>2
  <2> HIDE DEF l, E
  <2> QED
    BY <1>1, <1>3, <2>3, ExpiredKeeps
<1> QED
  BY <1>2, <1>3

\* The loop over the loans, step by step.
LEMMA LoanLoop ==
  ASSUME NEW t, NEW k, NEW max \in Nat
  PROVE  \E f : /\ f[0] = t /\ \A i \in 0..(max - 1) : f[i + 1] = process_loan(f[i], k)
                /\ process_loans(t, k, max) = f[max]
<1> DEFINE Steps(f, n) == f[0] = t /\ \A i \in 1..n : f[i] = process_loan(f[i - 1], k)
           G == {n \in Nat : \E f : DOMAIN f = 0..n /\ Steps(f, n)}
           upTo == CHOOSE f : f = [i \in 0..max |-> IF i = 0 THEN t ELSE process_loan(f[i - 1], k)]
<1>1. 0 \in G
  <2>1. DOMAIN [i \in 0..0 |-> t] = 0..0 /\ Steps([i \in 0..0 |-> t], 0)
    OBVIOUS
  <2> QED
    BY <2>1
<1>2. ASSUME NEW n \in Nat, n \in G PROVE n + 1 \in G
  <2>1. PICK f : DOMAIN f = 0..n /\ Steps(f, n)
    BY <1>2
  <2> DEFINE g == [i \in 0..(n + 1) |-> IF i = n + 1 THEN process_loan(f[n], k) ELSE f[i]]
  <2>2. DOMAIN g = 0..(n + 1) /\ g[0] = t
    BY <2>1
  <2>3. ASSUME NEW i \in 1..(n + 1) PROVE g[i] = process_loan(g[i - 1], k)
    <3>1. CASE i = n + 1
      BY <3>1, i - 1 = n, n \in 0..(n + 1), n # n + 1
    <3>2. CASE i # n + 1
      <4>1. i \in 1..n /\ i - 1 \in 0..n
        BY <3>2
      <4> QED
        BY <4>1, <2>1, <3>2
    <3> QED
      BY <3>1, <3>2
  <2>4. Steps(g, n + 1)
    BY <2>2, <2>3
  <2> HIDE DEF g, Steps
  <2>5. \E h : DOMAIN h = 0..(n + 1) /\ Steps(h, n + 1)
    BY <2>2, <2>4
  <2>6. n + 1 \in Nat
    OBVIOUS
  <2> QED
    BY <2>5, <2>6
<1>3. max \in G
  <2> HIDE DEF G
  <2> QED
    BY <1>1, <1>2, Counting
<1>4. PICK f : DOMAIN f = 0..max /\ Steps(f, max)
  BY <1>3
<1>5. \E h : h = [i \in 0..max |-> IF i = 0 THEN t ELSE process_loan(h[i - 1], k)]
  <2> DEFINE h == [i \in 0..max |-> f[i]]
  <2>1. h[0] = t /\ \A i \in 1..max : h[i] = process_loan(h[i - 1], k)
    BY <1>4
  <2> HIDE DEF h
  <2>2. h = [i \in 0..max |-> h[i]]
    BY DEF h
  <2>3. [i \in 0..max |-> h[i]] = [i \in 0..max |-> IF i = 0 THEN t ELSE process_loan(h[i - 1], k)]
    BY <2>1
  <2> QED
    BY <2>2, <2>3, Zenon
<1>6. upTo = [i \in 0..max |-> IF i = 0 THEN t ELSE process_loan(upTo[i - 1], k)]
  BY <1>5, Zenon
<1>7. process_loans(t, k, max) = upTo[max]
  BY DEF process_loans
<1> HIDE DEF upTo
<1>8. upTo[0] = t
  BY <1>6
<1>9. ASSUME NEW i \in 0..(max - 1) PROVE upTo[i + 1] = process_loan(upTo[i], k)
  BY <1>6, i + 1 \in 0..max, i + 1 # 0, (i + 1) - 1 = i
<1> QED
  BY <1>7, <1>8, <1>9

LEMMA LoanStepChain ==
  ASSUME NEW a, NEW b, NEW c, LoanStep(a, b), LoanStep(b, c)
  PROVE  LoanStep(a, c)
BY DEF LoanStep, AllBut

\* The loop keeps everything.
LEMMA LoansRun ==
  ASSUME NEW t, NEW x \in Int, Sound(t, x), NEW k \in Kinds, NEW max \in Nat, NEW t1, t1 = process_loans(t, k, max)
  PROVE  Sound(t1, x) /\ LoanStep(t, t1)
<1>1. PICK f : /\ f[0] = t /\ \A i \in 0..(max - 1) : f[i + 1] = process_loan(f[i], k)
               /\ process_loans(t, k, max) = f[max]
  BY LoanLoop
<1> DEFINE G == {n \in Nat : n <= max => Sound(f[n], x) /\ LoanStep(t, f[n])}
<1>2. 0 \in G
  <2>1. LoanStep(t, t)
    BY DEF LoanStep, AllBut, Sound, Shape
  <2> QED
    BY <1>1, <2>1
<1>3. ASSUME NEW n \in Nat, n \in G PROVE n + 1 \in G
  <2> SUFFICES ASSUME n + 1 <= max PROVE Sound(f[n + 1], x) /\ LoanStep(t, f[n + 1])
    OBVIOUS
  <2>1. n \in 0..(max - 1) /\ n <= max
    OBVIOUS
  <2>2. Sound(f[n], x) /\ LoanStep(t, f[n])
    BY <1>3, <2>1
  <2>3. f[n + 1] = process_loan(f[n], k)
    BY <1>1, <2>1
  <2> HIDE DEF G
  <2>4. Sound(f[n + 1], x) /\ LoanStep(f[n], f[n + 1])
    BY <2>2, <2>3, LoanKeeps
  <2> QED
    BY <2>2, <2>4, LoanStepChain
<1>4. max \in G
  <2> HIDE DEF G
  <2> QED
    BY <1>2, <1>3, Counting
<1> QED
  BY <1>1, <1>4

-----------------------------------------------------------------------------
(* The orders.                                                             *)

\* The REX of a pool with numbers q is worth no less than in p.
Dearer(p, q) ==
    q.total_rex > 0 => p.total_rex > 0 /\ q.total_lendable * p.total_rex >= p.total_lendable * q.total_rex

LEMMA DearerSame ==
  ASSUME NEW p \in PoolRow, NEW q \in PoolRow, q.total_rex = p.total_rex, q.total_lendable >= p.total_lendable
  PROVE  Dearer(p, q)
<1> DEFINE r == p.total_rex
           a == p.total_lendable
           b == q.total_lendable
<1>1. r \in Nat /\ a \in Nat /\ b \in Nat /\ a <= b
  BY PoolTypes
<1> HIDE DEF r, a, b
<1>2. r * a <= r * b /\ r * a = a * r /\ r * b = b * r
  BY <1>1, MulMono, Distrib
<1>3. a * r <= b * r /\ a * r \in Int /\ b * r \in Int
  BY <1>1, <1>2
<1>4. b * r >= a * r
  BY <1>3
<1> QED
  BY <1>4 DEF Dearer, r, a, b

LEMMA DearerChain ==
  ASSUME NEW p \in PoolRow, NEW q \in PoolRow, NEW s \in PoolRow, Dearer(p, q), Dearer(q, s)
  PROVE  Dearer(p, s)
<1> SUFFICES ASSUME s.total_rex > 0
             PROVE  p.total_rex > 0 /\ s.total_lendable * p.total_rex >= p.total_lendable * s.total_rex
  BY DEF Dearer
<1> DEFINE a == p.total_lendable
           b == q.total_lendable
           c == s.total_lendable
           u == p.total_rex
           v == q.total_rex
           w == s.total_rex
<1>1. a \in Nat /\ b \in Nat /\ c \in Nat /\ u \in Nat /\ v \in Nat /\ w \in Nat
  BY PoolTypes
<1>2. v > 0 /\ c * v >= b * w
  BY DEF Dearer
<1>3. u > 0 /\ b * u >= a * v
  BY <1>2 DEF Dearer
<1> HIDE DEF a, b, c, u, v, w
<1>4. b * w \in Nat /\ c * v \in Nat /\ a * v \in Nat /\ b * u \in Nat /\ c * u \in Int /\ a * w \in Int
  BY <1>1
<1>5. u * (b * w) <= u * (c * v) /\ w * (a * v) <= w * (b * u)
  BY <1>1, <1>2, <1>3, <1>4, MulMono
<1>6. u * (b * w) = w * (b * u) /\ u * (c * v) = v * (c * u) /\ w * (a * v) = v * (a * w)
  BY <1>1
<1>7. v * (a * w) \in Int /\ v * (c * u) \in Int /\ w * (b * u) \in Int
  BY <1>1
<1>8. v * (a * w) <= v * (c * u)
  BY <1>5, <1>6, <1>7
<1>9. a * w <= c * u
  BY <1>1, <1>2, <1>4, <1>8, MulCancel
<1>10. c * u >= a * w
  BY <1>4, <1>9
<1> QED
  BY <1>3, <1>10 DEF a, c, u, w

\* What REX is worth: rounded down, more for more of it, and all that is lendable for all of it.
LEMMA Worth ==
  ASSUME NEW n \in Nat, NEW r \in Nat, NEW s \in Nat, r > 0, s <= r
  PROVE  /\ (s * n) \div r \in Nat /\ r * ((s * n) \div r) <= s * n /\ (s * n) \div r <= n
         /\ s = r => (s * n) \div r = n
         /\ \A m \in Nat : m <= s => (m * n) \div r <= (s * n) \div r
<1>1. s * n \in Nat /\ n * s <= n * r /\ n * s = s * n /\ n * r = r * n
  BY MulMono, Distrib
<1>2. (s * n) \div r \in Nat /\ r * ((s * n) \div r) <= s * n
  BY <1>1, DivBounds
<1> DEFINE a == s * n
           q == a \div r
<1>3. a \in Nat /\ q \in Nat /\ r * q <= a /\ a <= r * n /\ r * n \in Int /\ r * q \in Int
  BY <1>1, <1>2
<1> HIDE DEF a, q
<1>4. r * q <= r * n
  BY <1>3
<1>5. q <= n
  BY <1>3, <1>4, MulCancel
<1>6. ASSUME s = r PROVE q = n
  <2>1. r * n <= a
    BY <1>3, <1>6 DEF a
  <2>2. n <= a \div r
    BY <1>3, <2>1, DivGreatest
  <2> QED
    BY <1>3, <1>5, <2>2 DEF q
<1>7. ASSUME NEW m \in Nat, m <= s PROVE (m * n) \div r <= q
  <2> DEFINE b == m * n
             o == b \div r
  <2>1. n * m <= n * s /\ n * m = m * n /\ n * s = s * n /\ n * m \in Nat
    BY <1>7, MulMono, Distrib
  <2>2. b \in Nat /\ b <= a
    BY <2>1 DEF a
  <2> HIDE DEF b
  <2>3. o \in Nat /\ r * o <= b
    BY <2>2, DivBounds
  <2>4. r * o <= a
    BY <1>3, <2>2, <2>3
  <2>5. o <= a \div r
    BY <1>3, <2>3, <2>4, DivGreatest
  <2> QED
    BY <2>5 DEF q, b
<1> QED
  BY <1>2, <1>5, <1>6, <1>7 DEF a, q

\* A sale, field by field.
LEMMA FillIs ==
  ASSUME NEW t, DOMAIN t = Fields, t.pool \in PoolRow, NEW u \in DOMAIN t.bal, t.bal[u] \in RexRow, NEW rex,
         NEW t1, t1 = fill_rex_order(t, u, rex),
         NEW p, p = Value(t, rex), NEW w, w = Value(t, t.bal[u].rex_balance),
         w - p \in Nat, t.bal[u].rex_balance - rex \in Nat, t.bal[u].matured_rex - rex \in Nat,
         t.pool.total_rex - rex \in Nat, t.pool.total_lendable - p \in Nat, t.pool.total_lendable - p - t.pool.total_lent \in Nat
  PROVE  /\ AllBut(t, t1, {"pool", "bal"})
         /\ t1.pool \in PoolRow /\ t1.pool.total_rex = t.pool.total_rex - rex /\ t1.pool.total_lendable = t.pool.total_lendable - p
         /\ t1.pool.total_unlent = t.pool.total_lendable - p - t.pool.total_lent
         /\ t1.pool.total_lent = t.pool.total_lent /\ t1.pool.loan_num = t.pool.loan_num
         /\ DOMAIN t1.bal = DOMAIN t.bal /\ \A v \in DOMAIN t.bal \ {u} : t1.bal[v] = t.bal[v]
         /\ t1.bal[u] \in RexRow /\ t1.bal[u].vote_stake = w - p /\ t1.bal[u].rex_balance = t.bal[u].rex_balance - rex
         /\ t1.bal[u].matured_rex = t.bal[u].matured_rex - rex /\ t1.bal[u].rex_maturities = t.bal[u].rex_maturities
<1>1. t1 = [t EXCEPT !.pool.total_rex = @ - rex,
                  !.pool.total_lendable = @ - p,
                  !.pool.total_unlent = t.pool.total_lendable - p - t.pool.total_lent,
                  !.bal[u].vote_stake = w - p,
                  !.bal[u].rex_balance = @ - rex,
                  !.bal[u].matured_rex = @ - rex]
  BY SMTT(40) DEF fill_rex_order
<1>2. AllBut(t, t1, {"pool", "bal"})
  BY <1>1 DEF AllBut, Fields
<1> DEFINE P == t.pool
           b == t.bal[u]
           n1 == P.total_rex - rex
           n2 == P.total_lendable - p
           n3 == P.total_lendable - p - P.total_lent
           m1 == w - p
           m2 == b.rex_balance - rex
           m3 == b.matured_rex - rex
<1>3. t1.pool = [P EXCEPT !.total_rex = n1, !.total_lendable = n2, !.total_unlent = n3]
  BY <1>1 DEF Fields, PoolRow
<1>4. t1.bal = [t.bal EXCEPT ![u].vote_stake = m1, ![u].rex_balance = @ - rex, ![u].matured_rex = @ - rex]
  BY <1>1 DEF Fields
<1>5. DOMAIN t1.bal = DOMAIN t.bal /\ \A v \in DOMAIN t.bal \ {u} : t1.bal[v] = t.bal[v]
  BY <1>4
<1>6. t1.bal[u] = [b EXCEPT !.vote_stake = m1, !.rex_balance = m2, !.matured_rex = m3]
  BY <1>4 DEF RexRow
<1>7. n1 \in Nat /\ n2 \in Nat /\ n3 \in Nat /\ m1 \in Nat /\ m2 \in Nat /\ m3 \in Nat
  OBVIOUS
<1> HIDE DEF n1, n2, n3, m1, m2, m3
<1>8. /\ t1.pool \in PoolRow /\ t1.pool.total_rex = n1 /\ t1.pool.total_lendable = n2 /\ t1.pool.total_unlent = n3
      /\ t1.pool.total_lent = P.total_lent /\ t1.pool.loan_num = P.loan_num
  BY <1>3, <1>7 DEF PoolRow
<1>9. /\ t1.bal[u] \in RexRow /\ t1.bal[u].vote_stake = m1 /\ t1.bal[u].rex_balance = m2
      /\ t1.bal[u].matured_rex = m3 /\ t1.bal[u].rex_maturities = b.rex_maturities
  BY <1>6, <1>7 DEF RexRow
<1> QED
  BY <1>2, <1>5, <1>8, <1>9 DEF n1, n2, n3, m1, m2, m3

\* A sale that can be filled keeps everything but the cover of the orders and the votes.
LEMMA FillKeeps ==
  ASSUME ClockOK, NEW t, NEW x \in Int, Sound(t, x), NEW u \in DOMAIN t.bal, NEW rex \in Nat \ {0}, rex <= t.bal[u].matured_rex,
         Filled(t, rex), NEW t1, t1 = fill_rex_order(t, u, rex)
  PROVE  /\ Value(t, rex) \in Nat /\ Sound(t1, x + Value(t, rex)) /\ AllBut(t, t1, {"pool", "bal"})
         /\ DOMAIN t1.bal = DOMAIN t.bal /\ \A v \in DOMAIN t.bal \ {u} : t1.bal[v] = t.bal[v]
         /\ t1.bal[u].matured_rex = t.bal[u].matured_rex - rex
         /\ Dearer(t.pool, t1.pool)
<1> DEFINE b == t.bal[u]
           c == t1.bal[u]
           P == t.pool
           Q == t1.pool
           p == Value(t, rex)
           w == Value(t, b.rex_balance)
           R == P.total_rex
           n == P.total_lendable
<1>1. /\ HolderOK(b) /\ u \in Users /\ P \in PoolRow /\ DOMAIN t = Fields /\ BalOK(t.bal)
  BY DEF Sound, Shape, PoolOK, BalOK
<1>2. b \in RexRow /\ b.matured_rex \in Nat /\ b.rex_balance \in Nat /\ b.matured_rex <= b.rex_balance /\ Maturities(b.rex_maturities)
  <2>1. 0 - 1 \in Int
    OBVIOUS
  <2>2. b.matured_rex \in Nat /\ b.rex_balance \in Nat /\ Young(b, 0 - 1) \in Nat
    BY <1>1, <2>1, RowTypes DEF HolderOK
  <2>3. b.rex_balance = b.matured_rex + Young(b, 0 - 1)
    BY <1>1 DEF HolderOK, AllRex
  <2> QED
    BY <1>1, <2>2, <2>3 DEF HolderOK, Ordered
<1>3. /\ R \in Nat /\ n \in Nat /\ P.total_lent \in Nat /\ P.total_unlent \in Nat /\ n = P.total_lent + P.total_unlent
      /\ R = RexOfAll(t.bal) /\ P.loan_num \in Nat
  BY <1>1, PoolTypes DEF Sound, PoolOK
<1>4. b.rex_balance <= R
  <2>1. RexOf(t.bal, u) <= RexOfAll(t.bal)
    BY <1>1, RexChange
  <2> QED
    BY <1>3, <2>1 DEF RexOf
<1>5. rex <= R /\ R > 0 /\ rex <= b.rex_balance
  BY <1>2, <1>3, <1>4
<1>6. p = (rex * n) \div R /\ w = (b.rex_balance * n) \div R
  BY DEF Value
<1>7. p \in Nat /\ R * p <= rex * n /\ p <= n /\ (rex = R => p = n)
  BY <1>3, <1>5, <1>6, Worth
<1>8. w \in Nat /\ p <= w
  <2>1. w \in Nat /\ \A m \in Nat : m <= b.rex_balance => (m * n) \div R <= w
    BY <1>2, <1>3, <1>4, <1>5, <1>6, Worth
  <2> QED
    BY <1>5, <1>6, <2>1
<1>9. P.total_lent \div UnlentShare \in Nat
  <2>1. UnlentShare \in Nat /\ UnlentShare > 0
    BY RexAssumption
  <2> QED
    BY <1>3, <2>1, DivBounds
<1>10. p <= P.total_unlent - P.total_lent \div UnlentShare
  BY DEF Filled
<1> HIDE DEF p, w
<1>11. p <= P.total_unlent /\ (rex = R => P.total_lent = 0)
  BY <1>3, <1>7, <1>9, <1>10
<1>12. /\ AllBut(t, t1, {"pool", "bal"})
       /\ Q \in PoolRow /\ Q.total_rex = R - rex /\ Q.total_lendable = n - p /\ Q.total_unlent = n - p - P.total_lent
       /\ Q.total_lent = P.total_lent /\ Q.loan_num = P.loan_num
       /\ DOMAIN t1.bal = DOMAIN t.bal /\ \A v \in DOMAIN t.bal \ {u} : t1.bal[v] = t.bal[v]
       /\ c \in RexRow /\ c.vote_stake = w - p /\ c.rex_balance = b.rex_balance - rex
       /\ c.matured_rex = b.matured_rex - rex /\ c.rex_maturities = b.rex_maturities
  <2>1. w - p \in Nat /\ b.rex_balance - rex \in Nat /\ b.matured_rex - rex \in Nat
    BY <1>2, <1>5, <1>7, <1>8
  <2>2. R - rex \in Nat /\ n - p \in Nat /\ n - p - P.total_lent \in Nat
    BY <1>3, <1>5, <1>7, <1>11
  <2>3. p = Value(t, rex) /\ w = Value(t, b.rex_balance)
    BY DEF p, w
  <2> QED
    BY <1>1, <1>2, <2>1, <2>2, <2>3, FillIs
<1>15. HolderOK(c)
  <2>1. Young(c, 0 - 1) = Young(b, 0 - 1) /\ Young(b, 0 - 1) \in Nat
    <3>1. 0 - 1 \in Int
      OBVIOUS
    <3> QED
      BY <1>1, <1>12, <3>1, RowTypes DEF Young, HolderOK
  <2>2. c.rex_balance = AllRex(c)
    BY <1>1, <1>2, <1>12, <2>1 DEF AllRex, HolderOK
  <2> QED
    BY <1>2, <1>12, <2>2 DEF HolderOK, Ordered
<1>16. BalOK(t1.bal)
  BY <1>1, <1>12, <1>15 DEF BalOK
<1>17. RexOfAll(t1.bal) = R - rex
  <2>1. \A v \in Users \ {u} : RexOf(t1.bal, v) = RexOf(t.bal, v)
    BY <1>12 DEF RexOf
  <2>2. RexOfAll(t1.bal) = RexOfAll(t.bal) - RexOf(t.bal, u) + RexOf(t1.bal, u)
    BY <1>1, <1>16, <2>1, RexChange
  <2>3. RexOf(t.bal, u) = b.rex_balance /\ RexOf(t1.bal, u) = b.rex_balance - rex
    BY <1>12 DEF RexOf
  <2> QED
    BY <1>2, <1>3, <2>2, <2>3
<1>18. YoungOK(t1.bought, t1.bal)
  <2>1. t1.bought = t.bought /\ YoungOK(t.bought, t.bal)
    BY <1>12 DEF AllBut, Fields, Sound
  <2>2. \A v \in DOMAIN t.bal : \A time \in Int : Young(t.bal[v], time) \in Nat
    BY <1>1, RowTypes DEF BalOK, HolderOK
  <2>3. \A v \in DOMAIN t.bal : \A time \in Int : Young(t1.bal[v], time) = Young(t.bal[v], time)
    BY <1>12 DEF Young
  <2>4. \A v \in Users : \A time \in Int : now <= time /\ time < get_rex_maturity => YoungOf(t1.bal, v, time) >= YoungOf(t.bal, v, time)
    <3> SUFFICES ASSUME NEW v \in Users, NEW time \in Int PROVE YoungOf(t1.bal, v, time) >= YoungOf(t.bal, v, time)
      OBVIOUS
    <3>1. DOMAIN t1.bal = DOMAIN t.bal
      BY <1>12
    <3>2. CASE v \in DOMAIN t.bal
      BY <2>2, <2>3, <3>1, <3>2 DEF YoungOf
    <3>3. CASE v \notin DOMAIN t.bal
      BY <3>1, <3>3 DEF YoungOf
    <3> QED
      BY <3>2, <3>3
  <2>5. BalOK(t.bal)
    BY <1>1
  <2> QED
    BY <1>16, <2>1, <2>4, <2>5, YoungKept
<1>19. /\ t1.fee = t.fee /\ t1.init = t.init /\ t1.orders = t.orders /\ t1.loans = t.loans
       /\ t1.delband = t.delband /\ t1.totals = t.totals /\ t1.staked = t.staked /\ t1.funds = t.funds
       /\ t1.off = t.off /\ t1.strays = t.strays /\ t1.bought = t.bought /\ t1.tokens = t.tokens /\ DOMAIN t1 = Fields
  BY <1>12 DEF AllBut, Fields
<1>20. Shape(t1)
  BY <1>19 DEF Sound, Shape
<1>21. PoolOK(t1.pool, t1.init, t1.loans, t1.bal)
  <2>1. P.total_lent = BothKinds(t.loans, "total_staked") /\ (~t.init => R = 0)
    BY DEF Sound, PoolOK
  <2>2. Q.total_lendable = Q.total_lent + Q.total_unlent
    BY <1>3, <1>7, <1>12
  <2>3. Q.total_rex = 0 => Q.total_lent = 0
    BY <1>3, <1>5, <1>11, <1>12
  <2>4. ~t1.init => Q.total_rex = 0
    BY <1>5, <1>3, <1>19, <2>1
  <2> QED
    BY <1>12, <1>17, <1>19, <2>1, <2>2, <2>3, <2>4 DEF PoolOK
<1>22. Backing(t1.tokens, t1.funds, t1.loans, t1.orders, t1.pool, t1.off, t1.fee, x + p)
  BY Accounts, <1>7, <1>12, <1>19 DEF Backing
<1>23. LoansOK(t1.loans, t1.pool.loan_num)
  BY <1>12, <1>19 DEF Sound
<1>24. Sound(t1, x + p)
  <2> DEFINE y == x + p
  <2> HIDE DEF y
  <2>1. Backing(t1.tokens, t1.funds, t1.loans, t1.orders, t1.pool, t1.off, t1.fee, y)
    BY <1>22 DEF y
  <2>2. Sound(t1, y)
    BY <1>16, <1>18, <1>19, <1>20, <1>21, <1>23, <2>1 DEF Sound
  <2> QED
    BY <2>2 DEF y
<1>25. Dearer(P, Q)
  <2>1. R * p <= n * rex
    BY <1>7, <1>3, Distrib
  <2>2. (n - p) * R = n * R - R * p /\ n * (R - rex) = n * R - n * rex
    BY <1>3, <1>7, Distrib
  <2>3. n * R \in Int /\ R * p \in Int /\ n * rex \in Int
    BY <1>3, <1>7
  <2>4. (n - p) * R >= n * (R - rex)
    BY <2>1, <2>2, <2>3
  <2> QED
    BY <1>5, <1>12, <2>4 DEF Dearer
<1> QED
  BY <1>7, <1>12, <1>24, <1>25 DEF p

\* What the processing of an order leaves alone.
OrderStep(t, t1) ==
    /\ AllBut(t, t1, {"pool", "bal", "orders"}) /\ DOMAIN t1.bal = DOMAIN t.bal
    /\ t1.pool \in PoolRow /\ t.pool \in PoolRow /\ Dearer(t.pool, t1.pool)

LEMMA OrderStepChain ==
  ASSUME NEW a, NEW b, NEW c, OrderStep(a, b), OrderStep(b, c)
  PROVE  OrderStep(a, c)
<1>1. Dearer(a.pool, c.pool)
  BY DearerChain DEF OrderStep
<1> QED
  BY <1>1 DEF OrderStep, AllBut

LEMMA OrderKeeps ==
  ASSUME ClockOK, NEW t, NEW x \in Int, NEW d \in [Users -> Int], Good(t, x, d), NEW u, NEW t1, t1 = process_order(t, u)
  PROVE  Good(t1, x, d) /\ OrderStep(t, t1)
<1> DEFINE fills == u \in Open(t) /\ u \in DOMAIN t.bal /\ Filled(t, t.orders[u].rex_requested)
<1>0. t.pool \in PoolRow /\ DOMAIN t = Fields /\ OrdersOK(t.orders) /\ BalOK(t.bal) /\ Sound(t, x) /\ Covers(t.orders, t.bal)
  BY DEF Good, Sound, PoolOK, Shape
<1>1. CASE ~fills
  <2>1. t1 = t
    BY <1>1 DEF process_order
  <2>2. Dearer(t.pool, t.pool)
    BY <1>0, DearerSame, PoolTypes
  <2> QED
    BY <1>0, <2>1, <2>2 DEF OrderStep, AllBut
<1>2. CASE fills
  <2> DEFINE rex == t.orders[u].rex_requested
             tf  == fill_rex_order(t, u, rex)
             p   == Value(t, rex)
             ch  == tf.bal[u].vote_stake - t.bal[u].vote_stake
             o   == t.orders
  <2>1. /\ u \in DOMAIN o /\ o[u].is_open /\ u \in DOMAIN t.bal /\ Filled(t, rex) /\ u \in Users
        /\ o[u] \in Order /\ o[u].proceeds = 0 /\ o[u].stake_change = 0 /\ rex <= t.bal[u].matured_rex /\ rex \in Nat \ {0}
    BY <1>0, <1>2 DEF Open, OrdersOK, Covers, Order
  <2>2. t1 = CloseOrder(t, tf, u)
    BY <1>2 DEF process_order
  <2>3. /\ p \in Nat /\ Sound(tf, x + p) /\ AllBut(t, tf, {"pool", "bal"})
        /\ DOMAIN tf.bal = DOMAIN t.bal /\ \A v \in DOMAIN t.bal \ {u} : tf.bal[v] = t.bal[v]
        /\ tf.bal[u].matured_rex = t.bal[u].matured_rex - rex
        /\ Dearer(t.pool, tf.pool)
    BY <1>0, <2>1, FillKeeps, SMTT(40)
  <2>4. t1 = [tf EXCEPT !.orders[u].proceeds = p, !.orders[u].stake_change = ch, !.orders[u].is_open = FALSE]
    BY <2>2 DEF CloseOrder
  <2> HIDE DEF tf, p
  <2>5. DOMAIN tf = Fields /\ tf.orders = o /\ tf.staked = t.staked /\ tf.delband = t.delband /\ tf.strays = t.strays
    BY <2>3 DEF AllBut, Fields
  <2>6. ch \in Int
    BY <1>0, <2>1, <2>3, SMTT(40) DEF Sound, BalOK, HolderOK, Ordered, RexRow
  <2> HIDE DEF ch
  <2>7. AllBut(tf, t1, {"orders"}) /\ t1.orders = [o EXCEPT ![u].proceeds = p, ![u].stake_change = ch, ![u].is_open = FALSE]
    BY <2>4, <2>5, ZenonT(60) DEF AllBut, Fields
  <2>8. DOMAIN t1.orders = DOMAIN o /\ \A v \in DOMAIN o \ {u} : t1.orders[v] = o[v]
    BY <2>7
  <2>9. t1.orders[u] = [o[u] EXCEPT !.proceeds = p, !.stake_change = ch, !.is_open = FALSE]
    BY <2>7, <2>1 DEF Order
  <2>10. t1.orders[u] \in Order /\ t1.orders[u].proceeds = p /\ t1.orders[u].stake_change = ch /\ ~t1.orders[u].is_open
    BY <2>1, <2>3, <2>6, <2>9 DEF Order
  <2>11. OrdersOK(t1.orders)
    BY <1>0, <2>8, <2>10 DEF OrdersOK
  <2>12. Sound(t1, x)
    <3>1. \A v \in Users \ {u} : ProceedsOf(t1.orders, v) = ProceedsOf(tf.orders, v)
      BY <2>5, <2>8 DEF ProceedsOf
    <3>2. ProceedsOf(t1.orders, u) = p /\ ProceedsOf(tf.orders, u) = 0
      BY <2>1, <2>5, <2>8, <2>10 DEF ProceedsOf
    <3> DEFINE y == x + p
    <3>3. y \in Int /\ x = y - (ProceedsOf(t1.orders, u) - ProceedsOf(tf.orders, u)) /\ Sound(tf, y)
      BY <2>3, <3>2
    <3> HIDE DEF y
    <3> QED
      BY <2>1, <2>7, <2>11, <3>1, <3>3, OrdersMoved
  <2>13. t1.bal = tf.bal /\ t1.pool = tf.pool /\ t1.staked = t.staked /\ t1.delband = t.delband /\ t1.strays = t.strays
    BY <2>5, <2>7 DEF AllBut, Fields
  <2>14. Covers(t1.orders, t1.bal)
    BY <1>0, <2>3, <2>8, <2>10, <2>13 DEF Covers
  <2>15. StakeOK(t1.staked, t1.delband, t1.bal, t1.orders, t1.strays, d)
    <3> SUFFICES ASSUME NEW v \in Users
                 PROVE  t.staked[v] + d[v] = t.delband[v]["net"] + t.delband[v]["cpu"] + StakeIn(t1.bal, v) + t.strays[v] - ChangeOf(t1.orders, v)
      BY <2>13 DEF StakeOK
    <3>1. t.staked[v] + d[v] = t.delband[v]["net"] + t.delband[v]["cpu"] + StakeIn(t.bal, v) + t.strays[v] - ChangeOf(t.orders, v)
      BY DEF Good, StakeOK
    <3>2. t.delband[v]["net"] \in Int /\ t.delband[v]["cpu"] \in Int /\ t.strays[v] \in Int
      BY <1>0 DEF Sound, ResOK, Shape, Kinds
    <3>3. CASE v = u
      <4>1. StakeIn(t.bal, v) = t.bal[u].vote_stake /\ StakeIn(t1.bal, v) = tf.bal[u].vote_stake
        BY <2>1, <2>3, <2>13, <3>3 DEF StakeIn
      <4>2. ChangeOf(t.orders, v) = 0 /\ ChangeOf(t1.orders, v) = ch
        BY <2>1, <2>8, <2>10, <3>3 DEF ChangeOf
      <4>3. t.bal[u].vote_stake \in Int /\ tf.bal[u].vote_stake \in Int
        BY <1>0, <2>1, <2>3 DEF Sound, BalOK, HolderOK, Ordered, RexRow
      <4>4. ch = tf.bal[u].vote_stake - t.bal[u].vote_stake
        BY DEF ch
      <4> QED
        BY <3>1, <3>2, <4>1, <4>2, <4>3, <4>4
    <3>4. CASE v # u
      <4>1. StakeIn(t1.bal, v) = StakeIn(t.bal, v)
        BY <2>3, <2>13, <3>4 DEF StakeIn
      <4>2. ChangeOf(t1.orders, v) = ChangeOf(t.orders, v)
        BY <2>8, <3>4 DEF ChangeOf
      <4> QED
        BY <3>1, <4>1, <4>2
    <3> QED
      BY <3>3, <3>4
  <2>16. OrderStep(t, t1)
    <3>1. tf.pool \in PoolRow
      BY <2>3 DEF Sound, PoolOK
    <3>2. AllBut(t, t1, {"pool", "bal", "orders"})
      BY <2>3, <2>7, AllButChain
    <3> QED
      BY <1>0, <2>3, <2>13, <3>1, <3>2 DEF OrderStep
  <2> QED
    BY <2>12, <2>14, <2>15, <2>16 DEF Good
<1> QED
  BY <1>1, <1>2

\* A step of the loop over the orders.
AfterTry(s) == IF s.untried = {} THEN s ELSE TryNext(s.tables, s.untried)

LEMMA OrderLoop ==
  ASSUME NEW t, NEW max \in Nat
  PROVE  \E f : /\ f[0] = [tables |-> t, untried |-> Open(t)] /\ \A i \in 0..(max - 1) : f[i + 1] = AfterTry(f[i])
                /\ process_orders(t, max) = f[max].tables
<1> DEFINE s0 == [tables |-> t, untried |-> Open(t)]
           Steps(f, n) == f[0] = s0 /\ \A i \in 1..n : f[i] = AfterTry(f[i - 1])
           G == {n \in Nat : \E f : DOMAIN f = 0..n /\ Steps(f, n)}
           upTo == CHOOSE f : f = [i \in 0..max |-> IF i = 0 THEN s0 ELSE AfterTry(f[i - 1])]
<1>7. process_orders(t, max) = upTo[max].tables
  BY DEF process_orders, AfterTry
<1> HIDE DEF s0
<1>1. 0 \in G
  <2>1. DOMAIN [i \in 0..0 |-> s0] = 0..0 /\ Steps([i \in 0..0 |-> s0], 0)
    OBVIOUS
  <2> QED
    BY <2>1
<1>2. ASSUME NEW n \in Nat, n \in G PROVE n + 1 \in G
  <2>1. PICK f : DOMAIN f = 0..n /\ Steps(f, n)
    BY <1>2
  <2> DEFINE g == [i \in 0..(n + 1) |-> IF i = n + 1 THEN AfterTry(f[n]) ELSE f[i]]
  <2>2. DOMAIN g = 0..(n + 1) /\ g[0] = s0
    BY <2>1
  <2>3. ASSUME NEW i \in 1..(n + 1) PROVE g[i] = AfterTry(g[i - 1])
    <3>1. CASE i = n + 1
      BY <3>1, i - 1 = n, n \in 0..(n + 1), n # n + 1
    <3>2. CASE i # n + 1
      <4>1. i \in 1..n /\ i - 1 \in 0..n
        BY <3>2
      <4> QED
        BY <4>1, <2>1, <3>2
    <3> QED
      BY <3>1, <3>2
  <2>4. Steps(g, n + 1)
    BY <2>2, <2>3
  <2> HIDE DEF g, Steps
  <2>5. \E h : DOMAIN h = 0..(n + 1) /\ Steps(h, n + 1)
    BY <2>2, <2>4
  <2>6. n + 1 \in Nat
    OBVIOUS
  <2> QED
    BY <2>5, <2>6
<1>3. max \in G
  <2> HIDE DEF G
  <2> QED
    BY <1>1, <1>2, Counting
<1>4. PICK f : DOMAIN f = 0..max /\ Steps(f, max)
  BY <1>3
<1>5. \E h : h = [i \in 0..max |-> IF i = 0 THEN s0 ELSE AfterTry(h[i - 1])]
  <2> DEFINE h == [i \in 0..max |-> f[i]]
  <2>1. h[0] = s0 /\ \A i \in 1..max : h[i] = AfterTry(h[i - 1])
    BY <1>4
  <2> HIDE DEF h
  <2>2. h = [i \in 0..max |-> h[i]]
    BY DEF h
  <2>3. [i \in 0..max |-> h[i]] = [i \in 0..max |-> IF i = 0 THEN s0 ELSE AfterTry(h[i - 1])]
    BY <2>1
  <2> QED
    BY <2>2, <2>3, Zenon
<1>6. upTo = [i \in 0..max |-> IF i = 0 THEN s0 ELSE AfterTry(upTo[i - 1])]
  BY <1>5, Zenon
<1> HIDE DEF upTo
<1>8. upTo[0] = s0
  BY <1>6
<1>9. ASSUME NEW i \in 0..(max - 1) PROVE upTo[i + 1] = AfterTry(upTo[i])
  BY <1>6, i + 1 \in 0..max, i + 1 # 0, (i + 1) - 1 = i
<1> QED
  BY <1>7, <1>8, <1>9 DEF s0

\* The loop keeps everything.
LEMMA OrdersRun ==
  ASSUME ClockOK, NEW t, NEW x \in Int, NEW d \in [Users -> Int], Good(t, x, d), NEW max \in Nat,
         NEW t1, t1 = process_orders(t, max)
  PROVE  Good(t1, x, d) /\ OrderStep(t, t1)
<1>1. PICK f : /\ f[0] = [tables |-> t, untried |-> Open(t)] /\ \A i \in 0..(max - 1) : f[i + 1] = AfterTry(f[i])
               /\ process_orders(t, max) = f[max].tables
  BY OrderLoop
<1> DEFINE G == {n \in Nat : n <= max => Good(f[n].tables, x, d) /\ OrderStep(t, f[n].tables)}
<1>2. 0 \in G
  <2>1. t.pool \in PoolRow /\ DOMAIN t = Fields
    BY DEF Good, Sound, PoolOK, Shape
  <2>2. Dearer(t.pool, t.pool)
    BY <2>1, DearerSame, PoolTypes
  <2>3. OrderStep(t, t)
    BY <2>1, <2>2 DEF OrderStep, AllBut
  <2>4. f[0].tables = t
    BY <1>1
  <2> QED
    BY <2>3, <2>4
<1>3. ASSUME NEW n \in Nat, n \in G PROVE n + 1 \in G
  <2> SUFFICES ASSUME n + 1 <= max PROVE Good(f[n + 1].tables, x, d) /\ OrderStep(t, f[n + 1].tables)
    OBVIOUS
  <2>1. n \in 0..(max - 1) /\ n <= max
    OBVIOUS
  <2>2. Good(f[n].tables, x, d) /\ OrderStep(t, f[n].tables)
    BY <1>3, <2>1
  <2>3. f[n + 1] = AfterTry(f[n])
    BY <1>1, <2>1
  <2> HIDE DEF G
  <2>4. CASE f[n].untried = {}
    BY <2>2, <2>3, <2>4 DEF AfterTry
  <2>5. CASE f[n].untried # {}
    <3>1. f[n + 1] = TryNext(f[n].tables, f[n].untried)
      BY <2>3, <2>5 DEF AfterTry
    <3> DEFINE s == f[n].tables
               R == f[n].untried
               u == CHOOSE u \in R : \A v \in R : Earlier(s, u, v)
    <3>2. f[n + 1] = [tables |-> process_order(s, u), untried |-> R \ {u}]
      BY <3>1 DEF TryNext
    <3> HIDE DEF u
    <3>3. f[n + 1].tables = process_order(f[n].tables, u)
      BY <3>2
    <3>4. Good(f[n + 1].tables, x, d) /\ OrderStep(f[n].tables, f[n + 1].tables)
      BY <2>2, <3>3, OrderKeeps
    <3> QED
      BY <2>2, <3>4, OrderStepChain
  <2> QED
    BY <2>4, <2>5
<1>4. max \in G
  <2> HIDE DEF G
  <2> QED
    BY <1>2, <1>3, Counting
<1> QED
  BY <1>1, <1>4

-----------------------------------------------------------------------------
(* runrex.                                                                 *)

RunFields == {"pool", "funds", "loans", "totals", "fee", "bal", "orders", "tokens"}
RunStep(t, t1) ==
    /\ AllBut(t, t1, RunFields) /\ DOMAIN t1.bal = DOMAIN t.bal
    /\ t1.pool \in PoolRow /\ t.pool \in PoolRow /\ Dearer(t.pool, t1.pool)

LEMMA RunStepChain ==
  ASSUME NEW a, NEW b, NEW c, RunStep(a, b), RunStep(b, c)
  PROVE  RunStep(a, c)
<1>1. Dearer(a.pool, c.pool)
  BY DearerChain DEF RunStep
<1> QED
  BY <1>1 DEF RunStep, AllBut

\* Tables whose rows of owners, orders and votes are the same stay good.
LEMMA GoodMoved ==
  ASSUME NEW t, NEW x, NEW d, Good(t, x, d), NEW t1, NEW y, Sound(t1, y), AllBut(t, t1, LoanFields \cup {"tokens"})
  PROVE  Good(t1, y, d)
<1>1. t1.orders = t.orders /\ t1.bal = t.bal /\ t1.staked = t.staked /\ t1.delband = t.delband /\ t1.strays = t.strays
  BY DEF AllBut, Fields, LoanFields
<1> QED
  BY <1>1 DEF Good

\* The returns are added to the pool.
LEMMA ReturnsKeep ==
  ASSUME NEW t, NEW x \in Int, NEW d, Good(t, x, d), NEW gain \in Nat, NEW t1, t1 = AddReturns(t, gain)
  PROVE  Good(t1, x - gain, d) /\ RunStep(t, t1) /\ t1.bal = t.bal /\ t1.pool.total_rex = t.pool.total_rex /\ t1.init = t.init
<1>1. Sound(t, x) /\ t.pool \in PoolRow /\ DOMAIN t = Fields /\ t.pool.total_lendable = t.pool.total_lent + t.pool.total_unlent
  BY DEF Good, Sound, PoolOK, Shape
<1>2. t.pool.total_lendable \in Nat /\ t.pool.total_lent \in Nat /\ t.pool.total_unlent \in Nat
  BY <1>1, PoolTypes
<1>3. CASE gain = 0
  <2>1. t1 = t /\ x - gain = x
    BY <1>3 DEF AddReturns
  <2>2. Dearer(t.pool, t.pool)
    BY <1>1, <1>2, DearerSame
  <2> QED
    BY <1>1, <2>1, <2>2 DEF RunStep, AllBut
<1>4. CASE gain > 0
  <2> DEFINE n == t.pool.total_unlent + gain
             m == t.pool.total_unlent + gain + t.pool.total_lent
  <2>1. t1 = [t EXCEPT !.pool.total_unlent = n, !.pool.total_lendable = m]
    BY <1>1, <1>4 DEF AddReturns, Fields, PoolRow
  <2>2. n \in Nat /\ m \in Nat
    BY <1>2
  <2> HIDE DEF n, m
  <2>3. AllBut(t, t1, {"pool"}) /\ t1.pool = [t.pool EXCEPT !.total_unlent = n, !.total_lendable = m]
    BY <1>1, <2>1 DEF AllBut, Fields, PoolRow
  <2>4. /\ t1.pool \in PoolRow /\ t1.pool.total_unlent = n /\ t1.pool.total_lendable = m /\ t1.pool.total_lent = t.pool.total_lent
        /\ t1.pool.total_rex = t.pool.total_rex /\ t1.pool.loan_num = t.pool.loan_num
    BY <1>1, <2>2, <2>3 DEF PoolRow
  <2>5. t1.pool.total_lendable = t1.pool.total_lent + t1.pool.total_unlent /\ t1.pool.total_lendable = t.pool.total_lendable + gain
    BY <1>1, <1>2, <2>4 DEF n, m
  <2> DEFINE y == x - gain
  <2>6. y \in Int /\ y = x - (t1.pool.total_lendable - t.pool.total_lendable)
    BY <1>2, <2>5
  <2> HIDE DEF y
  <2>7. Sound(t1, y)
    BY <1>1, <2>3, <2>4, <2>5, <2>6, PoolMoved
  <2>8. AllBut(t, t1, LoanFields \cup {"tokens"}) /\ AllBut(t, t1, RunFields) /\ t1.bal = t.bal /\ t1.init = t.init
    BY <2>3 DEF AllBut, Fields, LoanFields, RunFields
  <2>9. Good(t1, y, d)
    BY <2>7, <2>8, GoodMoved
  <2>10. t1.pool.total_lendable >= t.pool.total_lendable
    BY <1>2, <2>5
  <2>11. Dearer(t.pool, t1.pool)
    BY <1>1, <2>4, <2>10, DearerSame
  <2> QED
    BY <1>1, <2>4, <2>8, <2>9, <2>11 DEF RunStep, y
<1> QED
  BY <1>3, <1>4

\* A fee from outside.
LEMMA ChannelKeeps ==
  ASSUME NEW t, NEW x \in Int, NEW d, Good(t, x, d), NEW amount \in Nat, NEW t1, t1 = channel_to_rex(t, amount)
  PROVE  Good(t1, x, d) /\ AllBut(t, t1, {"fee", "tokens"})
<1>1. Sound(t, x) /\ DOMAIN t = Fields /\ t.fee \in Nat /\ t.tokens \in [Users \cup {rex_account} -> Int] /\ t.pool \in PoolRow
      /\ \A u \in Users : t.tokens[u] >= 0
  BY DEF Good, Sound, Shape, PoolOK
<1>2. CASE ~rex_available(t)
  <2>1. t1 = t
    BY <1>2 DEF channel_to_rex
  <2> QED
    BY <1>1, <2>1 DEF AllBut
<1>3. CASE rex_available(t)
  <2>1. t1 = [t EXCEPT !.fee = @ + amount, !.tokens[rex_account] = @ + amount]
    BY <1>3 DEF channel_to_rex
  <2> DEFINE t0 == [t EXCEPT !.fee = @ + amount]
             y == x - amount
  <2>2. AllBut(t, t0, {"fee"}) /\ t0.fee = t.fee + amount /\ t0.tokens = t.tokens /\ DOMAIN t0 = Fields
    BY <1>1 DEF AllBut, Fields
  <2>3. AllBut(t, t1, {"fee", "tokens"}) /\ t1.fee = t.fee + amount /\ t1.tokens = [t.tokens EXCEPT ![rex_account] = @ + amount]
    BY <1>1, <2>1 DEF AllBut, Fields
  <2> HIDE DEF t0
  <2>4. AllBut(t0, t1, {"tokens"})
    BY <2>2, <2>3 DEF AllBut, Fields
  <2>5. y \in Int /\ y = x - (t0.fee - t.fee) /\ t0.fee \in Nat
    BY <1>1, <2>2
  <2>6. /\ t1.tokens \in [Users \cup {rex_account} -> Int] /\ t1.tokens[rex_account] = t.tokens[rex_account] + amount
        /\ \A u \in Users : t1.tokens[u] >= 0
    BY <1>1, <2>3, UsersFinite
  <2>7. x = y + t1.tokens[rex_account] - t0.tokens[rex_account]
    BY <1>1, <2>2, <2>6
  <2> HIDE DEF y
  <2>8. Sound(t0, y)
    BY <1>1, <2>2, <2>5, FeeMoved
  <2>9. Sound(t1, x)
    BY <2>4, <2>5, <2>6, <2>7, <2>8, TokensMoved
  <2>10. AllBut(t, t1, LoanFields \cup {"tokens"})
    BY <2>3 DEF AllBut, LoanFields
  <2> QED
    BY <2>3, <2>9, <2>10, GoodMoved
<1> QED
  BY <1>2, <1>3

LEMMA NamebidsKeep ==
  ASSUME NEW t, NEW x \in Int, NEW d, Good(t, x, d), NEW t1, t1 = channel_namebids(t)
  PROVE  Good(t1, x, d) /\ RunStep(t, t1)
<1>1. Sound(t, x) /\ DOMAIN t = Fields /\ t.pool \in PoolRow
  BY DEF Good, Sound, Shape, PoolOK
<1>2. Dearer(t.pool, t.pool)
  BY <1>1, DearerSame, PoolTypes
<1>3. CASE ~(t.pool.namebid_proceeds > 0)
  <2>1. t1 = t
    BY <1>3 DEF channel_namebids
  <2> QED
    BY <1>1, <1>2, <2>1 DEF RunStep, AllBut
<1>4. CASE t.pool.namebid_proceeds > 0
  <2> DEFINE tc == channel_to_rex(t, t.pool.namebid_proceeds)
  <2>1. t1 = [tc EXCEPT !.pool.namebid_proceeds = 0]
    BY <1>4 DEF channel_namebids
  <2>2. Good(tc, x, d) /\ AllBut(t, tc, {"fee", "tokens"})
    <3>1. t.pool.namebid_proceeds \in Nat
      BY <1>1, PoolTypes
    <3> QED
      BY <3>1, ChannelKeeps
  <2> HIDE DEF tc
  <2>3. DOMAIN tc = Fields /\ tc.pool = t.pool /\ tc.bal = t.bal
    BY <2>2 DEF AllBut, Fields
  <2>4. AllBut(tc, t1, {"pool"}) /\ t1.pool = [t.pool EXCEPT !.namebid_proceeds = 0]
    BY <2>1, <2>3 DEF AllBut, Fields
  <2>5. /\ t1.pool \in PoolRow /\ t1.pool.total_unlent = tc.pool.total_unlent /\ t1.pool.total_lendable = tc.pool.total_lendable
        /\ t1.pool.total_lent = tc.pool.total_lent
        /\ t1.pool.total_rex = tc.pool.total_rex /\ t1.pool.loan_num = tc.pool.loan_num
    BY <1>1, <2>3, <2>4 DEF PoolRow
  <2>6. tc.pool.total_lendable = tc.pool.total_lent + tc.pool.total_unlent /\ Sound(tc, x) /\ tc.pool.total_lendable \in Nat
    BY <2>2, <2>3, <1>1, PoolTypes DEF Good, Sound, PoolOK
  <2>7. x = x - (t1.pool.total_lendable - tc.pool.total_lendable)
    BY <2>5, <2>6
  <2>8. Sound(t1, x)
    BY <2>4, <2>5, <2>6, <2>7, PoolMoved
  <2>9. AllBut(tc, t1, LoanFields \cup {"tokens"})
    BY <2>4 DEF AllBut, LoanFields
  <2>10. Good(t1, x, d)
    BY <2>2, <2>8, <2>9, GoodMoved
  <2>11. AllBut(t, t1, RunFields) /\ t1.bal = t.bal
    BY <2>2, <2>3, <2>4 DEF AllBut, RunFields, Fields
  <2>12. Dearer(t.pool, t1.pool)
    BY <1>1, <2>3, <2>5, DearerSame, PoolTypes
  <2> QED
    BY <1>1, <2>5, <2>10, <2>11, <2>12 DEF RunStep
<1> QED
  BY <1>3, <1>4

\* runrex keeps everything, and adds the returns to the pool.
LEMMA RunKeeps ==
  ASSUME ClockOK, NEW t, NEW x \in Int, NEW d \in [Users -> Int], Good(t, x, d), NEW gain \in Nat, gain = Updated.unlent - unlent,
         NEW max \in Nat, NEW t1, t1 = runrex(t, max)
  PROVE  Good(t1, x - gain, d) /\ RunStep(t, t1)
<1> DEFINE ta == AddReturns(t, gain)
           tb == channel_namebids(ta)
           tc == process_loans(tb, "cpu", max)
           td == process_loans(tc, "net", max)
           te == process_orders(td, max)
           y  == x - gain
<1>0. t1 = te
  BY DEF runrex, update_rex_pool
<1> HIDE DEF te, td, tc, tb, ta
<1>y. y \in Int
  OBVIOUS
<1>1. Good(ta, y, d) /\ RunStep(t, ta)
  BY ReturnsKeep DEF ta
<1> HIDE DEF y
<1>2. Good(tb, y, d) /\ RunStep(ta, tb)
  BY <1>1, <1>y, NamebidsKeep DEF tb
<1>3. ASSUME NEW a, Good(a, y, d), NEW k \in Kinds, NEW b, b = process_loans(a, k, max) PROVE Good(b, y, d) /\ RunStep(a, b)
  <2>1. Sound(a, y) /\ a.pool \in PoolRow /\ a.pool.total_lendable \in Nat
    BY <1>3, PoolTypes DEF Good, Sound, PoolOK
  <2>2. Sound(b, y) /\ LoanStep(a, b)
    BY <1>3, <1>y, <2>1, LoansRun
  <2>3. b.pool \in PoolRow
    BY <2>2 DEF Sound, PoolOK
  <2>4. Dearer(a.pool, b.pool)
    BY <2>1, <2>2, <2>3, DearerSame DEF LoanStep
  <2>5. AllBut(a, b, RunFields) /\ b.bal = a.bal /\ AllBut(a, b, LoanFields \cup {"tokens"})
    BY <2>2 DEF LoanStep, AllBut, LoanFields, RunFields, Fields
  <2>6. Good(b, y, d)
    BY <1>3, <2>2, <2>5, GoodMoved
  <2> QED
    BY <2>1, <2>3, <2>4, <2>5, <2>6 DEF RunStep
<1>4. Good(tc, y, d) /\ RunStep(tb, tc)
  BY <1>2, <1>3 DEF tc, Kinds
<1>5. Good(td, y, d) /\ RunStep(tc, td)
  BY <1>4, <1>3 DEF td, Kinds
<1>6. Good(te, y, d) /\ OrderStep(td, te)
  BY <1>5, <1>y, OrdersRun DEF te
<1>7. RunStep(td, te)
  BY <1>6 DEF OrderStep, RunStep, AllBut, RunFields
<1>8. RunStep(t, tb)
  BY <1>1, <1>2, RunStepChain
<1>9. RunStep(t, tc)
  BY <1>8, <1>4, RunStepChain
<1>10. RunStep(t, td)
  BY <1>9, <1>5, RunStepChain
<1>11. RunStep(t, te)
  BY <1>10, <1>7, RunStepChain
<1> QED
  BY <1>0, <1>6, <1>11 DEF y

\* Only u has a change of stake to be counted, of n.
Debt(u, n) == [v \in Users |-> IF v = u THEN n ELSE 0]
NoDebt     == [v \in Users |-> 0]

LEMMA DebtIs ==
  ASSUME NEW u, NEW n \in Int
  PROVE  Debt(u, n) \in [Users -> Int] /\ Debt(u, 0) = NoDebt /\ \A v \in Users : Debt(u, n)[v] = IF v = u THEN n ELSE 0
BY DEF Debt, NoDebt

\* The terms of the stake of a user.
LEMMA StakeTypes ==
  ASSUME NEW t, NEW x, Sound(t, x), NEW v \in Users
  PROVE  /\ t.delband[v]["net"] \in Nat /\ t.delband[v]["cpu"] \in Nat /\ t.strays[v] \in Int /\ t.staked[v] \in Int
         /\ StakeIn(t.bal, v) \in Nat /\ ChangeOf(t.orders, v) \in Int
<1>1. t.delband[v]["net"] \in Nat /\ t.delband[v]["cpu"] \in Nat /\ t.strays[v] \in Int /\ t.staked[v] \in Int
  BY DEF Sound, ResOK, Shape, Kinds
<1>2. StakeIn(t.bal, v) \in Nat
  BY DEF Sound, BalOK, HolderOK, Ordered, RexRow, StakeIn
<1>3. ChangeOf(t.orders, v) \in Int
  BY DEF Sound, OrdersOK, Order, ChangeOf
<1> QED
  BY <1>1, <1>2, <1>3

\* The filled order of u, field by field.
LEMMA AccountIs ==
  ASSUME NEW t, NEW x, Sound(t, x), NEW u \in Users, NEW n \in Nat, NEW delta \in Int,
         NEW t1, t1 = update_rex_account(t, u, n, delta)
  PROVE  /\ AllBut(t, t1, {"funds", "orders", "staked"})
         /\ FundsOK(t1.funds) /\ FundOf(t.funds, u) \in Nat /\ ProceedsOf(t.orders, u) \in Nat
         /\ FundOf(t1.funds, u) = FundOf(t.funds, u) + (n + ProceedsOf(t.orders, u))
         /\ \A v \in Users \ {u} : FundOf(t1.funds, v) = FundOf(t.funds, v)
         /\ OrdersOK(t1.orders) /\ ProceedsOf(t1.orders, u) = 0 /\ ChangeOf(t1.orders, u) = 0
         /\ DOMAIN t1.orders \subseteq DOMAIN t.orders /\ \A v \in DOMAIN t1.orders : t1.orders[v] = t.orders[v]
         /\ \A v \in Users \ {u} : v \in DOMAIN t.orders => v \in DOMAIN t1.orders
         /\ u \in DOMAIN t1.orders => t1.orders[u].is_open
         /\ \A v \in DOMAIN t.orders : t.orders[v].is_open => v \in DOMAIN t1.orders
         /\ t1.staked \in [Users -> Int]
         /\ \A v \in Users : t1.staked[v] = t.staked[v] + (IF v = u THEN delta + ChangeOf(t.orders, u) ELSE 0)
<1> DEFINE a  == n + Uncollected(t, u)
           tp == PayFund(t, u, a)
           o  == t.orders
           o1 == IF Closed(t, u) THEN Without(o, u) ELSE o
           s1 == [t.staked EXCEPT ![u] = @ + delta + StakeChange(t, u)]
<1>1. DOMAIN t = Fields /\ OrdersOK(o) /\ FundsOK(t.funds) /\ t.staked \in [Users -> Int]
  BY DEF Sound, Shape
<1>2. Uncollected(t, u) = ProceedsOf(o, u) /\ StakeChange(t, u) = ChangeOf(o, u)
  BY <1>1 DEF Uncollected, StakeChange, Closed, ProceedsOf, ChangeOf, OrdersOK
<1>3. ProceedsOf(o, u) \in Nat /\ ChangeOf(o, u) \in Int
  BY <1>1 DEF ProceedsOf, ChangeOf, OrdersOK, Order
<1>4. a \in Nat /\ a = n + ProceedsOf(o, u)
  BY <1>2, <1>3
<1> HIDE DEF a
<1>5. /\ AllBut(t, tp, {"funds"}) /\ FundsOK(tp.funds) /\ FundOf(tp.funds, u) = FundOf(t.funds, u) + a
      /\ \A v \in Users \ {u} : FundOf(tp.funds, v) = FundOf(t.funds, v)
      /\ FundOf(t.funds, u) \in Nat
  <2>1. CASE a > 0
    <3>1. tp = transfer_to_fund(t, u, a)
      BY <2>1 DEF PayFund
    <3> QED
      BY <1>1, <1>4, <3>1, FundInIs
  <2>2. CASE ~(a > 0)
    <3>1. tp = t /\ a = 0
      BY <1>4, <2>2 DEF PayFund
    <3>2. FundOf(t.funds, u) \in Nat
      BY <1>1 DEF FundsOK, FundOf
    <3> QED
      BY <1>1, <3>1, <3>2 DEF AllBut
  <2> QED
    BY <2>1, <2>2
<1>6. DOMAIN tp = Fields /\ tp.orders = o /\ tp.staked = t.staked
  BY <1>5 DEF AllBut, Fields
<1>7. t1 = [tp EXCEPT !.orders = IF Closed(t, u) THEN Without(@, u) ELSE @, !.staked[u] = @ + delta + StakeChange(t, u)]
  BY DEF update_rex_account, a
<1> HIDE DEF tp
<1>8. AllBut(tp, t1, {"orders", "staked"}) /\ t1.orders = o1 /\ t1.staked = s1
  BY <1>6, <1>7 DEF AllBut, Fields
<1>9. AllBut(t, t1, {"funds", "orders", "staked"}) /\ t1.funds = tp.funds
  BY <1>5, <1>8 DEF AllBut, Fields
<1>10. DOMAIN o1 = (IF Closed(t, u) THEN DOMAIN o \ {u} ELSE DOMAIN o) /\ \A v \in DOMAIN o1 : o1[v] = o[v]
  BY DEF Without, RestrictDomain, Restrict
<1>11. u \in DOMAIN o1 => o1[u].is_open
  BY <1>10 DEF Closed
<1>12. \A v \in DOMAIN o : o[v].is_open => v \in DOMAIN o1
  BY <1>10 DEF Closed
<1>13. \A v \in Users \ {u} : v \in DOMAIN o => v \in DOMAIN o1
  BY <1>10
<1>14. OrdersOK(o1)
  BY <1>1, <1>10 DEF OrdersOK
<1> HIDE DEF o1
<1>15. ProceedsOf(o1, u) = 0 /\ ChangeOf(o1, u) = 0
  BY <1>11, <1>14 DEF OrdersOK, ProceedsOf, ChangeOf
<1>16. s1 \in [Users -> Int] /\ \A v \in Users : s1[v] = t.staked[v] + (IF v = u THEN delta + ChangeOf(o, u) ELSE 0)
  BY <1>1, <1>2, <1>3
<1>17. DOMAIN o1 \subseteq DOMAIN o
  BY <1>10
<1> HIDE DEF s1
<1>18. /\ FundsOK(t1.funds) /\ FundOf(t.funds, u) \in Nat /\ ProceedsOf(o, u) \in Nat
       /\ FundOf(t1.funds, u) = FundOf(t.funds, u) + (n + ProceedsOf(o, u))
       /\ \A v \in Users \ {u} : FundOf(t1.funds, v) = FundOf(t.funds, v)
  BY <1>3, <1>4, <1>5, <1>9
<1> QED
  BY <1>8, <1>9, <1>10, <1>11, <1>12, <1>13, <1>14, <1>15, <1>16, <1>17, <1>18

\* A filled order is collected: nothing is lost, and the votes are counted.
LEMMA AccountKeeps ==
  ASSUME NEW t, NEW x \in Int, Sound(t, x), NEW u \in Users, NEW n \in Nat, NEW delta \in Int, NEW m \in Int,
         StakeOK(t.staked, t.delband, t.bal, t.orders, t.strays, Debt(u, m)),
         NEW t1, t1 = update_rex_account(t, u, n, delta)
  PROVE  /\ Sound(t1, x - n) /\ AllBut(t, t1, {"funds", "orders", "staked"})
         /\ StakeOK(t1.staked, t1.delband, t1.bal, t1.orders, t1.strays, Debt(u, m - delta))
         /\ Covers(t.orders, t.bal) => Covers(t1.orders, t1.bal)
         /\ u \in DOMAIN t1.orders => t1.orders[u].is_open
         /\ DOMAIN t1.orders \subseteq DOMAIN t.orders /\ \A v \in DOMAIN t1.orders : t1.orders[v] = t.orders[v]
         /\ \A v \in DOMAIN t.orders : t.orders[v].is_open => v \in DOMAIN t1.orders
<1> DEFINE o  == t.orders
           o1 == t1.orders
           ta == [t EXCEPT !.funds = t1.funds]
           tb == [ta EXCEPT !.orders = o1]
           y  == x - (n + ProceedsOf(o, u))
           z  == x - n
<1>1. /\ AllBut(t, t1, {"funds", "orders", "staked"})
      /\ FundsOK(t1.funds) /\ FundOf(t.funds, u) \in Nat /\ ProceedsOf(t.orders, u) \in Nat
      /\ FundOf(t1.funds, u) = FundOf(t.funds, u) + (n + ProceedsOf(t.orders, u))
      /\ \A v \in Users \ {u} : FundOf(t1.funds, v) = FundOf(t.funds, v)
      /\ OrdersOK(t1.orders) /\ ProceedsOf(t1.orders, u) = 0 /\ ChangeOf(t1.orders, u) = 0
      /\ DOMAIN t1.orders \subseteq DOMAIN t.orders /\ \A v \in DOMAIN t1.orders : t1.orders[v] = t.orders[v]
      /\ \A v \in Users \ {u} : v \in DOMAIN t.orders => v \in DOMAIN t1.orders
      /\ u \in DOMAIN t1.orders => t1.orders[u].is_open
      /\ \A v \in DOMAIN t.orders : t.orders[v].is_open => v \in DOMAIN t1.orders
      /\ t1.staked \in [Users -> Int]
      /\ \A v \in Users : t1.staked[v] = t.staked[v] + (IF v = u THEN delta + ChangeOf(t.orders, u) ELSE 0)
  BY AccountIs
<1>2. DOMAIN t = Fields
  BY DEF Sound, Shape
<1>3. AllBut(t, ta, {"funds"}) /\ ta.funds = t1.funds /\ ta.orders = o /\ DOMAIN ta = Fields
  BY <1>2 DEF AllBut, Fields
<1> HIDE DEF ta
<1>4. AllBut(ta, tb, {"orders"}) /\ tb.orders = o1 /\ DOMAIN tb = Fields
  BY <1>3 DEF AllBut, Fields
<1> HIDE DEF tb
<1>5. AllBut(tb, t1, {"staked"})
  BY <1>1, <1>3, <1>4 DEF AllBut, Fields
<1>6. y \in Int /\ y = x - (FundOf(t1.funds, u) - FundOf(t.funds, u)) /\ z \in Int
  BY <1>1
<1>7. z = y - (0 - ProceedsOf(o, u))
  BY <1>1
<1> HIDE DEF y, z
<1>8. Sound(ta, y)
  BY <1>1, <1>3, <1>6, FundsMoved
<1>9. \A v \in Users \ {u} : ProceedsOf(o1, v) = ProceedsOf(o, v) /\ ChangeOf(o1, v) = ChangeOf(o, v)
  BY <1>1 DEF ProceedsOf, ChangeOf
<1>10. Sound(tb, z)
  <2>1. OrdersOK(tb.orders) /\ \A v \in Users \ {u} : ProceedsOf(tb.orders, v) = ProceedsOf(ta.orders, v)
    BY <1>1, <1>3, <1>4, <1>9
  <2>2. z = y - (ProceedsOf(tb.orders, u) - ProceedsOf(ta.orders, u))
    BY <1>1, <1>3, <1>4, <1>7
  <2> QED
    BY <1>4, <1>6, <1>8, <2>1, <2>2, OrdersMoved
<1>11. Sound(t1, z)
  BY <1>1, <1>5, <1>6, <1>10, StakedMoved
<1>12. t1.bal = t.bal /\ t1.delband = t.delband /\ t1.strays = t.strays
  BY <1>1 DEF AllBut, Fields
<1>13. StakeOK(t1.staked, t1.delband, t1.bal, t1.orders, t1.strays, Debt(u, m - delta))
  <2> SUFFICES ASSUME NEW v \in Users
               PROVE  t1.staked[v] + Debt(u, m - delta)[v]
                        = t.delband[v]["net"] + t.delband[v]["cpu"] + StakeIn(t.bal, v) + t.strays[v] - ChangeOf(o1, v)
    BY <1>12 DEF StakeOK
  <2>1. t.staked[v] + Debt(u, m)[v] = t.delband[v]["net"] + t.delband[v]["cpu"] + StakeIn(t.bal, v) + t.strays[v] - ChangeOf(o, v)
    BY DEF StakeOK
  <2>2. /\ t.delband[v]["net"] \in Nat /\ t.delband[v]["cpu"] \in Nat /\ t.strays[v] \in Int /\ t.staked[v] \in Int
        /\ StakeIn(t.bal, v) \in Nat /\ ChangeOf(t.orders, v) \in Int
    BY StakeTypes
  <2>3. Debt(u, m)[v] = (IF v = u THEN m ELSE 0) /\ Debt(u, m - delta)[v] = (IF v = u THEN m - delta ELSE 0)
    BY DEF Debt
  <2>4. t1.staked[v] = t.staked[v] + (IF v = u THEN delta + ChangeOf(o, u) ELSE 0)
    BY <1>1
  <2>5. CASE v = u
    <3>1. ChangeOf(o1, v) = 0 /\ t1.staked[v] = t.staked[v] + (delta + ChangeOf(o, v)) /\ Debt(u, m)[v] = m /\ Debt(u, m - delta)[v] = m - delta
      BY <1>1, <2>3, <2>4, <2>5
    <3>2. t.staked[v] + m = t.delband[v]["net"] + t.delband[v]["cpu"] + StakeIn(t.bal, v) + t.strays[v] - ChangeOf(t.orders, v)
      BY <2>1, <3>1
    <3>3. (t.staked[v] + (delta + ChangeOf(t.orders, v))) + (m - delta)
             = t.delband[v]["net"] + t.delband[v]["cpu"] + StakeIn(t.bal, v) + t.strays[v] - 0
      <4> DEFINE e == t.staked[v]
                 a == t.delband[v]["net"]
                 b == t.delband[v]["cpu"]
                 c == StakeIn(t.bal, v)
                 r == t.strays[v]
                 g == ChangeOf(t.orders, v)
      <4>1. e \in Int /\ a \in Nat /\ b \in Nat /\ c \in Nat /\ r \in Int /\ g \in Int /\ e + m = a + b + c + r - g
        BY <2>2, <3>2
      <4> HIDE DEF e, a, b, c, r, g
      <4>2. (e + (delta + g)) + (m - delta) = a + b + c + r - 0
        BY <4>1
      <4> QED
        BY <4>2 DEF e, a, b, c, r, g
    <3> QED
      BY <3>1, <3>3
  <2>6. CASE v # u
    BY <1>9, <2>1, <2>2, <2>3, <2>4, <2>6
  <2> QED
    BY <2>5, <2>6
<1>14. Covers(t.orders, t.bal) => Covers(t1.orders, t1.bal)
  BY <1>1, <1>12 DEF Covers
<1> QED
  BY <1>1, <1>11, <1>13, <1>14 DEF z

\* The row of u is edited.
LEMMA GoodRow ==
  ASSUME ClockOK, NEW t, NEW x \in Int, NEW d, Good(t, x, d), NEW t1, AllBut(t, t1, {"bal"}), NEW u \in DOMAIN t.bal,
         DOMAIN t1.bal = DOMAIN t.bal, \A v \in DOMAIN t.bal \ {u} : t1.bal[v] = t.bal[v],
         HolderOK(t1.bal[u]), SameTotals(t.bal[u], t1.bal[u]),
         \A time \in Int : now <= time /\ time < get_rex_maturity => Young(t1.bal[u], time) >= Young(t.bal[u], time),
         rex_in_sell_order(t, u) <= t1.bal[u].matured_rex
  PROVE  Good(t1, x, d)
<1>1. Sound(t1, x)
  BY RowMoved DEF Good, SameTotals
<1>2. t1.orders = t.orders /\ t1.staked = t.staked /\ t1.delband = t.delband /\ t1.strays = t.strays
  BY DEF AllBut, Fields
<1>3. Covers(t1.orders, t1.bal)
  BY <1>2 DEF Good, Covers, rex_in_sell_order, Open
<1>4. \A v \in Users : StakeIn(t1.bal, v) = StakeIn(t.bal, v)
  BY DEF StakeIn, SameTotals
<1>5. StakeOK(t1.staked, t1.delband, t1.bal, t1.orders, t1.strays, d)
  BY <1>2, <1>4 DEF Good, StakeOK
<1> QED
  BY <1>1, <1>3, <1>5 DEF Good

-----------------------------------------------------------------------------
(* A purchase.                                                             *)

\* No token of REX has lost value, unless there was none.
NotCheaper(p, q) == p.total_rex = 0 \/ Dearer(p, q)

\* The pool after a purchase.
LEMMA PurchasePool ==
  ASSUME NEW t, NEW x \in Int, Sound(t, x), NEW payment \in Nat \ {0}, CanBuy(t), NEW t1, t1 = add_to_rex_pool(t, payment)
  PROVE  /\ AllBut(t, t1, {"pool", "init", "off"}) /\ t1.init = TRUE /\ t1.pool \in PoolRow /\ t1.off \in Nat
         /\ t1.pool.loan_num = t.pool.loan_num /\ t1.pool.total_lent = t.pool.total_lent
         /\ t1.pool.total_lendable = t1.pool.total_lent + t1.pool.total_unlent
         /\ t1.pool.total_lendable + t1.off = t.pool.total_lendable + t.off + payment
         /\ t1.pool.total_rex > 0 /\ t1.pool.total_rex - t.pool.total_rex \in Nat
         /\ NotCheaper(t.pool, t1.pool)
<1> DEFINE p == t.pool
           q == t1.pool
           L == p.total_lendable
           R == p.total_rex
           S == ((L + payment) * R) \div L
<1>1. /\ DOMAIN t = Fields /\ p \in PoolRow /\ L = p.total_lent + p.total_unlent /\ (~t.init => R = 0) /\ (R = 0 => p.total_lent = 0)
      /\ t.off \in Nat
  BY DEF Sound, PoolOK, Shape
<1>2. L \in Nat /\ R \in Nat /\ p.total_lent \in Nat /\ p.total_unlent \in Nat
  BY <1>1, PoolTypes
<1>3. CASE rex_available(t)
  <2>1. R > 0 /\ L > 0 /\ t.init
    BY <1>2, <1>3 DEF CanBuy, rex_available
  <2>2. S \in Nat /\ L * S <= (L + payment) * R
    <3>1. (L + payment) * R \in Nat
      BY <1>2, MulMono
    <3> QED
      BY <1>2, <2>1, <3>1, DivBounds
  <2>3. R <= S
    <3>1. (L + payment) * R = L * R + payment * R
      BY <1>2, Distrib
    <3>2. L * R \in Nat /\ payment * R \in Nat
      BY <1>2, MulMono
    <3>3. L * R <= (L + payment) * R /\ (L + payment) * R \in Nat
      BY <3>1, <3>2
    <3> QED
      BY <1>2, <2>1, <3>3, DivGreatest
  <2>4. t1 = [t EXCEPT !.pool = GrownPool(p, payment)]
    BY <1>3 DEF add_to_rex_pool
  <2>5. q = GrownPool(p, payment) /\ AllBut(t, t1, {"pool"})
    BY <1>1, <2>4 DEF AllBut, Fields
  <2>6. q = [p EXCEPT !.total_lendable = L + payment, !.total_unlent = L + payment - p.total_lent, !.total_rex = S]
    BY <2>5 DEF GrownPool
  <2> HIDE DEF S
  <2>7. L + payment - p.total_lent \in Nat /\ L + payment \in Nat
    BY <1>1, <1>2
  <2>8. q \in PoolRow /\ q.loan_num = p.loan_num /\ q.total_lent = p.total_lent /\ q.total_lendable = L + payment
        /\ q.total_unlent = L + payment - p.total_lent /\ q.total_rex = S
    BY <1>1, <2>2, <2>6, <2>7 DEF PoolRow
  <2>9. t1.init = t.init /\ t1.off = t.off
    BY <2>5 DEF AllBut, Fields
  <2>10. t.init = TRUE
    BY <2>1 DEF Sound, Shape
  <2>11. Dearer(p, q)
    <3>1. q.total_lendable * p.total_rex >= p.total_lendable * q.total_rex
      BY <2>2, <2>8
    <3> QED
      BY <2>1, <3>1 DEF Dearer
  <2>12. q.total_lendable = q.total_lent + q.total_unlent
    BY <1>2, <2>8
  <2>13. q.total_lendable + t1.off = L + t.off + payment
    BY <1>1, <1>2, <2>8, <2>9
  <2>14. q.total_rex > 0 /\ q.total_rex - R \in Nat
    BY <1>2, <2>1, <2>2, <2>3, <2>8
  <2>15. AllBut(t, t1, {"pool", "init", "off"})
    BY <2>5 DEF AllBut
  <2> QED
    BY <1>1, <2>8, <2>9, <2>10, <2>11, <2>12, <2>13, <2>14, <2>15 DEF NotCheaper
<1>4. CASE ~rex_available(t)
  <2>1. R = 0 /\ p.total_lent = 0
    BY <1>1, <1>2, <1>4 DEF rex_available
  <2>2. t1 = [t EXCEPT !.init = TRUE, !.pool = EmptyPool(p, payment), !.off = t.off + L]
    BY <1>4 DEF add_to_rex_pool
  <2>3. q = EmptyPool(p, payment) /\ AllBut(t, t1, {"pool", "init", "off"}) /\ t1.init = TRUE /\ t1.off = t.off + L
    BY <1>1, <2>2 DEF AllBut, Fields
  <2>4. payment * rex_ratio \in Nat \ {0} /\ init_total_rent \in Nat
    <3>1. rex_ratio \in Nat \ {0} /\ init_total_rent \in Nat
      BY RexAssumption
    <3>2. payment * 1 <= payment * rex_ratio /\ payment * rex_ratio \in Nat
      BY <3>1, MulMono
    <3> QED
      BY <3>1, <3>2
  <2> DEFINE n == payment * rex_ratio
  <2>5. q = [p EXCEPT !.total_lendable = payment, !.total_lent = 0, !.total_unlent = payment,
                      !.total_rent = init_total_rent, !.total_rex = n]
    BY <2>3 DEF EmptyPool
  <2>6. n \in Nat \ {0}
    BY <2>4
  <2> HIDE DEF n
  <2>7. q \in PoolRow /\ q.loan_num = p.loan_num /\ q.total_lent = 0 /\ q.total_lendable = payment /\ q.total_unlent = payment
        /\ q.total_rex = n
    <3>1. init_total_rent \in Nat /\ n \in Nat /\ payment \in Nat
      BY <2>4, <2>6
    <3>2. DOMAIN q = DOMAIN p /\ q.total_rent = init_total_rent /\ q.namebid_proceeds = p.namebid_proceeds
          /\ q.loan_num = p.loan_num /\ q.total_lent = 0 /\ q.total_lendable = payment /\ q.total_unlent = payment /\ q.total_rex = n
      BY <1>1, <2>5 DEF PoolRow
    <3>3. q = [total_lent |-> q.total_lent, total_unlent |-> q.total_unlent, total_rent |-> q.total_rent,
               total_lendable |-> q.total_lendable, total_rex |-> q.total_rex, namebid_proceeds |-> q.namebid_proceeds,
               loan_num |-> q.loan_num]
      BY <1>1, <2>5 DEF PoolRow
    <3>4. q.namebid_proceeds \in Nat /\ q.loan_num \in Nat
      BY <1>1, <3>2, PoolTypes
    <3>5. q \in PoolRow
      BY <3>1, <3>2, <3>3, <3>4 DEF PoolRow
    <3> QED
      BY <3>2, <3>5
  <2> QED
    BY <1>1, <1>2, <2>1, <2>3, <2>6, <2>7 DEF NotCheaper
<1> QED
  BY <1>3, <1>4

\* The row of an owner that has received REX.
Purchased(old, rex, stake) ==
    AddMaturing([old EXCEPT !.rex_balance = @ + rex, !.vote_stake = stake], rex, read_rex_savings(old))

RowBought(old, c, rex, stake) ==
    /\ HolderOK(c) /\ c.vote_stake = stake /\ c.rex_balance = old.rex_balance + rex /\ c.matured_rex >= old.matured_rex
    /\ old.rex_balance \in Nat /\ old.matured_rex \in Nat /\ c.matured_rex \in Nat
    /\ \A time \in Int : now <= time /\ time < get_rex_maturity => Young(c, time) = Young(old, time) + rex
    /\ \A time \in Int : Young(old, time) \in Nat /\ Young(c, time) \in Nat

\* The new row of u: all it has received is in its buckets.
LEMMA PurchaseRow ==
  ASSUME ClockOK, NEW old, HolderOK(old), NEW rex \in Nat, NEW stake \in Nat,
         NEW c, c = Purchased(old, rex, stake)
  PROVE  RowBought(old, c, rex, stake)
<1> DEFINE n == read_rex_savings(old)
           new == [old EXCEPT !.rex_balance = @ + rex, !.vote_stake = stake]
<1>1. old \in RexRow /\ Ordered(old) /\ old.rex_balance = AllRex(old)
  BY DEF HolderOK, Ordered
<1>2. \A time \in Int : old.rex_balance \in Nat /\ AllRex(old) \in Nat /\ Young(old, time) \in Nat /\ old.matured_rex \in Nat
  BY <1>1, RowTypes
<1>3. /\ new \in RexRow /\ new.rex_balance = old.rex_balance + rex /\ new.vote_stake = stake
      /\ new.matured_rex = old.matured_rex /\ new.rex_maturities = old.rex_maturities
  <2>1. old.rex_balance + rex \in Nat
    BY <1>1 DEF RexRow
  <2> QED
    BY <1>1, <2>1 DEF RexRow
<1>4. Ordered(new) /\ read_rex_savings(new) = n /\ AllRex(new) = AllRex(old) /\ \A time \in Int : Young(new, time) = Young(old, time)
  BY <1>1, <1>3 DEF Ordered, read_rex_savings, HasSavings, AllRex, Young
<1>5. n \in Nat
  BY <1>1, SavingsApart
<1>6. c = AddMaturing(new, rex, n)
  BY DEF Purchased
<1> HIDE DEF n, new
<1>7. /\ Ordered(c) /\ SameTotals(new, c) /\ c.matured_rex >= new.matured_rex
      /\ AllRex(c) + n = AllRex(new) + rex + n
      /\ \A time \in Int : now <= time /\ time < get_rex_maturity => Young(c, time) + n = Young(new, time) + rex + n
  <2>1. /\ Ordered(AddMaturing(new, rex, n)) /\ SameTotals(new, AddMaturing(new, rex, n)) /\ AddMaturing(new, rex, n).matured_rex >= new.matured_rex
        /\ AllRex(AddMaturing(new, rex, n)) + read_rex_savings(new) = AllRex(new) + rex + n
        /\ \A time \in Int : now <= time /\ time < get_rex_maturity =>
                Young(AddMaturing(new, rex, n), time) + read_rex_savings(new) = Young(new, time) + rex + n
    <3>1. Ordered(new)
      BY <1>4
    <3> QED
      BY <1>5, <3>1, MaturingAdded
  <2> QED
    BY <1>4, <1>6, <2>1
<1>8. \A time \in Int : AllRex(c) \in Nat /\ Young(c, time) \in Nat /\ c.matured_rex \in Nat
  BY <1>7, RowTypes
<1>9. AllRex(c) \in Nat /\ AllRex(old) \in Nat /\ old.rex_balance \in Nat
  <2>1. 0 \in Int
    OBVIOUS
  <2> QED
    BY <1>2, <1>8, <2>1
<1>10. c.rex_balance = old.rex_balance + rex /\ c.vote_stake = stake
  BY <1>3, <1>7 DEF SameTotals
<1>11. c.rex_balance = AllRex(c)
  BY <1>1, <1>4, <1>5, <1>7, <1>9, <1>10
<1>12. \A time \in Int : now <= time /\ time < get_rex_maturity => Young(c, time) = Young(old, time) + rex
  <2> TAKE time \in Int
  <2> HAVE now <= time /\ time < get_rex_maturity
  <2>1. Young(c, time) + n = Young(old, time) + rex + n /\ Young(c, time) \in Nat /\ Young(old, time) \in Nat
    BY <1>2, <1>4, <1>7, <1>8
  <2> QED
    BY <1>5, <2>1
<1>13. HolderOK(c)
  BY <1>7, <1>11 DEF HolderOK
<1>14. c.matured_rex >= old.matured_rex /\ old.matured_rex \in Nat /\ c.matured_rex \in Nat
  BY <1>2, <1>3, <1>7, <1>8, <1>9
<1> QED
  BY <1>2, <1>8, <1>9, <1>10, <1>12, <1>13, <1>14 DEF RowBought

\* A user without a row has an empty one.
LEMMA NoRexOK == HolderOK(NoRex) /\ \A time \in Int : Young(NoRex, time) = 0
<1>1. NoRex.rex_maturities = <<>> /\ <<>> \in Seq(Bucket) /\ Len(<<>>) = 0
  BY DEF NoRex
<1>2. NoRex \in RexRow
  BY DEF NoRex, RexRow
<1>3. Maturities(<<>>)
  BY DEF Maturities
<1>4. \A time \in Int : Young(NoRex, time) = 0
  BY <1>1, MassNone DEF Young
<1>5. AllRex(NoRex) = 0
  <2>1. 0 - 1 \in Int
    OBVIOUS
  <2> QED
    BY <1>4, <2>1 DEF AllRex, NoRex
<1> QED
  BY <1>1, <1>2, <1>3, <1>4, <1>5 DEF HolderOK, Ordered, NoRex

\* What was bought is recorded with the time it matures.
Recorded(h, rex) == Row(h, get_rex_maturity, rex + IF get_rex_maturity \in DOMAIN h THEN h[get_rex_maturity] ELSE 0)
BoughtMore(h, g, rex) ==
    \A time \in Int : /\ After(h, time) \in Nat
                      /\ After(g, time) = After(h, time) + (IF get_rex_maturity > time THEN rex ELSE 0)

LEMMA BoughtAdded ==
  ASSUME ClockOK, NEW h, BoughtOK(h), NEW rex \in Nat, NEW g, g = Recorded(h, rex)
  PROVE  /\ BoughtOK(g)
         /\ BoughtMore(h, g, rex)
<1> DEFINE m == get_rex_maturity
           D == DOMAIN h
           E == D \cup {m}
           was == IF m \in D THEN h[m] ELSE 0
<1>1. now \in Nat /\ m \in Nat /\ now < m
  BY MaturityIs
<1>2. h \in [D -> Nat] /\ D \subseteq (now + 1)..m
  BY DEF BoughtOK
<1>3. IsFiniteSet(E) /\ E \subseteq (now + 1)..m
  <2>1. IsFiniteSet((now + 1)..m)
    BY <1>1, FS_Interval
  <2>2. E \subseteq (now + 1)..m
    BY <1>1, <1>2
  <2> QED
    BY <2>1, <2>2, FS_Subset
<1>4. was \in Nat
  BY <1>2
<1>0. g = Row(h, m, rex + was)
  BY DEF Recorded
<1> HIDE DEF was
<1>5. DOMAIN g = E /\ g[m] = rex + was /\ \A at \in D \ {m} : g[at] = h[at]
  BY <1>0 DEF Row
<1>6. g \in [E -> Nat]
  BY <1>0, <1>2, <1>4, <1>5 DEF Row
<1>7. BoughtOK(g)
  BY <1>3, <1>5, <1>6 DEF BoughtOK
<1>8. ASSUME NEW time \in Int
      PROVE  After(h, time) \in Nat /\ After(g, time) = After(h, time) + (IF m > time THEN rex ELSE 0)
  <2> DEFINE wh == [at \in D |-> IF at > time THEN h[at] ELSE 0]
             wg == [at \in E |-> IF at > time THEN g[at] ELSE 0]
             f  == [at \in E |-> IF at \in D THEN wh[at] ELSE 0]
  <2>1. IsFiniteSet(D) /\ D \in SUBSET E
    BY <1>3, FS_Subset
  <2>2. \A at \in D : wh[at] \in Nat
    BY <1>2
  <2>3. SumOf(wh, D) \in Nat
    BY <2>1, <2>2, SumOfType
  <2>4. (\A at \in E : f[at] \in Int /\ wg[at] \in Int) /\ (\A at \in E \ D : f[at] = 0) /\ \A at \in D : f[at] = wh[at]
    BY <1>6, <2>2
  <2>5. \A at \in E \ {m} : wg[at] = f[at]
    BY <1>5
  <2>6. f[m] = (IF m > time THEN was ELSE 0) /\ wg[m] = (IF m > time THEN rex + was ELSE 0) /\ m \in E
    BY <1>5 DEF was
  <2> HIDE DEF f, wg, wh, was, D, E
  <2>7. SumOf(f, E) = SumOf(f, D)
    BY <1>3, <2>1, <2>4, SumOfSupport
  <2>8. SumOf(f, D) = SumOf(wh, D)
    BY <2>4, SumOfSame
  <2>9. SumOf(wg, E) = SumOf(f, E) - f[m] + wg[m]
    <3>1. \A at \in E : f[at] \in Int /\ wg[at] \in Int
      BY <2>4
    <3>2. \A at \in E \ {m} : wg[at] = f[at]
      BY <2>5
    <3>3. IsFiniteSet(E) /\ m \in E
      BY <1>3, <2>6
    <3> HIDE DEF m
    <3> QED
      BY <3>1, <3>2, <3>3, SumOfChange
  <2>10. SumOf(wg, E) = SumOf(wh, D) + (IF m > time THEN rex ELSE 0)
    BY <1>1, <1>4, <2>3, <2>6, <2>7, <2>8, <2>9
  <2>11. After(h, time) = SumOf(wh, D)
    BY DEF After, wh, D
  <2>12. After(g, time) = SumOf(wg, E)
    BY <1>5 DEF After, wg
  <2> QED
    BY <2>3, <2>10, <2>11, <2>12
<1> QED
  BY <1>7, <1>8 DEF BoughtMore

\* The tables t of a purchase by u, the payment already taken from its fund or its stake; tp is
\* the pool after it, and t1 the tables when u has its REX.
LEMMA PurchaseIs ==
  ASSUME ClockOK, NEW t, NEW x \in Int, Sound(t, x), NEW u \in Users, NEW payment \in Nat \ {0},
         NEW tp, AllBut(t, tp, {"pool", "init", "off"}), tp.pool \in PoolRow, tp.pool.total_rex > 0,
         NEW rex \in Nat, rex = tp.pool.total_rex - t.pool.total_rex,
         NEW t1, t1 = add_to_rex_balance(tp, u, payment, t.pool.total_rex)
  PROVE  /\ AllBut(tp, t1, {"bal", "bought"})
         /\ DOMAIN t1.bal = DOMAIN t.bal \cup {u} /\ \A v \in DOMAIN t.bal \ {u} : t1.bal[v] = t.bal[v]
         /\ HolderOK(t1.bal[u]) /\ t1.bal[u].rex_balance = RexOf(t.bal, u) + rex
         /\ t1.bal[u].matured_rex \in Nat
         /\ u \in DOMAIN t.bal => t.bal[u].matured_rex \in Nat /\ t1.bal[u].matured_rex >= t.bal[u].matured_rex
         /\ \A time \in Int : now <= time /\ time < get_rex_maturity => Young(t1.bal[u], time) = YoungOf(t.bal, u, time) + rex
         /\ \A time \in Int : YoungOf(t.bal, u, time) \in Nat /\ Young(t1.bal[u], time) \in Nat
         /\ DOMAIN t1.bought = Users /\ \A v \in Users \ {u} : t1.bought[v] = t.bought[v]
         /\ BoughtOK(t1.bought[u]) /\ BoughtOK(t.bought[u])
         /\ \A time \in Int : /\ After(t.bought[u], time) \in Nat
                              /\ After(t1.bought[u], time) = After(t.bought[u], time) + (IF get_rex_maturity > time THEN rex ELSE 0)
<1> DEFINE old   == IF u \in DOMAIN t.bal THEN t.bal[u] ELSE NoRex
           m     == get_rex_maturity
           stake == IF u \notin DOMAIN tp.bal THEN payment ELSE Value(tp, old.rex_balance + rex)
           c     == Purchased(old, rex, stake)
           h     == t.bought[u]
           g     == Recorded(h, rex)
<1>1. DOMAIN tp = Fields /\ tp.bal = t.bal /\ tp.bought = t.bought
  BY DEF AllBut, Fields
<1>2. BalOK(t.bal) /\ YoungOK(t.bought, t.bal)
  BY DEF Sound
<1>3. HolderOK(old) /\ old.rex_balance = RexOf(t.bal, u) /\ \A time \in Int : Young(old, time) = YoungOf(t.bal, u, time)
  <2>1. NoRex.rex_balance = 0
    BY DEF NoRex
  <2> QED
    BY <1>2, <2>1, NoRexOK DEF BalOK, RexOf, YoungOf
<1>4. stake \in Nat
  <2>1. tp.pool.total_lendable \in Nat /\ tp.pool.total_rex \in Nat
    BY PoolTypes
  <2>2. old.rex_balance + rex \in Nat
    BY <1>3 DEF HolderOK, Ordered, RexRow
  <2>3. (old.rex_balance + rex) * tp.pool.total_lendable \in Nat
    BY <2>1, <2>2, MulMono
  <2>4. Value(tp, old.rex_balance + rex) \in Nat
    BY <2>1, <2>3, DivBounds DEF Value
  <2> QED
    BY <2>4
<1>5. t1 = [tp EXCEPT !.bal = Row(t.bal, u, c), !.bought = [t.bought EXCEPT ![u] = g]]
  BY <1>1 DEF add_to_rex_balance, WithRex, Recorded, Purchased
<1> HIDE DEF c, g, h
<1>6. AllBut(tp, t1, {"bal", "bought"}) /\ t1.bal = Row(t.bal, u, c) /\ t1.bought = [t.bought EXCEPT ![u] = g]
  BY <1>1, <1>5 DEF AllBut, Fields
<1>7. DOMAIN t1.bal = DOMAIN t.bal \cup {u} /\ t1.bal[u] = c /\ \A v \in DOMAIN t.bal \ {u} : t1.bal[v] = t.bal[v]
  BY <1>6 DEF Row
<1>8. DOMAIN t.bought = Users /\ BoughtOK(h)
  BY <1>2 DEF YoungOK, h
<1>9. DOMAIN t1.bought = Users /\ t1.bought[u] = g /\ \A v \in Users \ {u} : t1.bought[v] = t.bought[v]
  BY <1>6, <1>8 DEF h
<1>10. BoughtOK(g) /\ \A time \in Int : After(h, time) \in Nat /\ After(g, time) = After(h, time) + (IF m > time THEN rex ELSE 0)
  <2>1. g = Recorded(h, rex)
    BY DEF g
  <2>2. BoughtOK(h)
    BY <1>8
  <2>3. BoughtOK(g) /\ BoughtMore(h, g, rex)
    BY <2>1, <2>2, BoughtAdded
  <2> QED
    BY <2>3 DEF BoughtMore
<1> HIDE DEF stake, old
<1>11. /\ HolderOK(c) /\ c.vote_stake = stake /\ c.rex_balance = old.rex_balance + rex /\ c.matured_rex >= old.matured_rex
       /\ old.rex_balance \in Nat /\ old.matured_rex \in Nat /\ c.matured_rex \in Nat
       /\ \A time \in Int : now <= time /\ time < get_rex_maturity => Young(c, time) = Young(old, time) + rex
       /\ \A time \in Int : Young(old, time) \in Nat /\ Young(c, time) \in Nat
  <2>1. c = Purchased(old, rex, stake) /\ HolderOK(old)
    BY <1>3 DEF c
  <2>2. RowBought(old, c, rex, stake)
    BY <1>4, <2>1, PurchaseRow
  <2> QED
    BY <2>2 DEF RowBought
<1>12. u \in DOMAIN t.bal => t.bal[u].matured_rex \in Nat /\ c.matured_rex >= t.bal[u].matured_rex
  BY <1>11 DEF old
<1> QED
  BY <1>3, <1>6, <1>7, <1>8, <1>9, <1>10, <1>11, <1>12 DEF h

StakeGain(t, t1, u) == StakeOf(t1, u) - StakeOf(t, u)

Purchase(t, u, payment) == add_to_rex_balance(add_to_rex_pool(t, payment), u, payment, t.pool.total_rex)

\* A purchase keeps the tables good; the change of stake that it makes is still to be counted.
LEMMA PurchaseKeeps ==
  ASSUME ClockOK, NEW t, NEW y \in Int, NEW u \in Users, NEW payment \in Nat \ {0}, NEW owed \in Int,
         Good(t, y, Debt(u, owed)), NEW x \in Int, x = y - payment, CanBuy(t),
         NEW t1, t1 = Purchase(t, u, payment)
  PROVE  /\ Good(t1, x, Debt(u, owed + StakeGain(t, t1, u))) /\ StakeGain(t, t1, u) \in Int
         /\ t1.init = TRUE /\ t1.fee = t.fee /\ t1.pool \in PoolRow /\ t.pool \in PoolRow /\ NotCheaper(t.pool, t1.pool)
<1> DEFINE tp  == add_to_rex_pool(t, payment)
           rex == tp.pool.total_rex - t.pool.total_rex
           q   == t1.pool
<1>0. Sound(t, y) /\ Covers(t.orders, t.bal) /\ StakeOK(t.staked, t.delband, t.bal, t.orders, t.strays, Debt(u, owed))
  BY DEF Good
<1>1. /\ AllBut(t, tp, {"pool", "init", "off"}) /\ tp.init = TRUE /\ tp.pool \in PoolRow /\ tp.off \in Nat
      /\ tp.pool.loan_num = t.pool.loan_num /\ tp.pool.total_lent = t.pool.total_lent
      /\ tp.pool.total_lendable = tp.pool.total_lent + tp.pool.total_unlent
      /\ tp.pool.total_lendable + tp.off = t.pool.total_lendable + t.off + payment
      /\ tp.pool.total_rex > 0 /\ tp.pool.total_rex - t.pool.total_rex \in Nat
      /\ NotCheaper(t.pool, tp.pool)
  BY <1>0, PurchasePool
<1>2. t1 = add_to_rex_balance(tp, u, payment, t.pool.total_rex)
  BY DEF Purchase
<1> HIDE DEF tp
<1>3. rex \in Nat /\ rex = tp.pool.total_rex - t.pool.total_rex
  BY <1>1
<1> HIDE DEF rex
<1>4. /\ AllBut(tp, t1, {"bal", "bought"})
      /\ DOMAIN t1.bal = DOMAIN t.bal \cup {u} /\ \A v \in DOMAIN t.bal \ {u} : t1.bal[v] = t.bal[v]
      /\ HolderOK(t1.bal[u]) /\ t1.bal[u].rex_balance = RexOf(t.bal, u) + rex
      /\ t1.bal[u].matured_rex \in Nat
      /\ u \in DOMAIN t.bal => t.bal[u].matured_rex \in Nat /\ t1.bal[u].matured_rex >= t.bal[u].matured_rex
      /\ \A time \in Int : now <= time /\ time < get_rex_maturity => Young(t1.bal[u], time) = YoungOf(t.bal, u, time) + rex
      /\ \A time \in Int : YoungOf(t.bal, u, time) \in Nat /\ Young(t1.bal[u], time) \in Nat
      /\ DOMAIN t1.bought = Users /\ \A v \in Users \ {u} : t1.bought[v] = t.bought[v]
      /\ BoughtOK(t1.bought[u]) /\ BoughtOK(t.bought[u])
      /\ \A time \in Int : /\ After(t.bought[u], time) \in Nat
                           /\ After(t1.bought[u], time) = After(t.bought[u], time) + (IF get_rex_maturity > time THEN rex ELSE 0)
  BY <1>0, <1>1, <1>2, <1>3, PurchaseIs
<1>5. /\ q = tp.pool /\ t1.init = TRUE /\ t1.off = tp.off /\ t1.fee = t.fee /\ t1.orders = t.orders /\ t1.loans = t.loans
      /\ t1.delband = t.delband /\ t1.totals = t.totals /\ t1.staked = t.staked /\ t1.funds = t.funds
      /\ t1.strays = t.strays /\ t1.tokens = t.tokens /\ DOMAIN t1 = Fields
  BY <1>1, <1>4 DEF AllBut, Fields
<1>6. Shape(t1)
  BY <1>0, <1>1, <1>5 DEF Sound, Shape
<1>7. BalOK(t1.bal)
  BY <1>0, <1>4 DEF Sound, BalOK
<1>8. t.pool \in PoolRow /\ t.pool.total_rex \in Nat /\ t.pool.total_rex = RexOfAll(t.bal) /\ t.pool.total_lent = BothKinds(t.loans, "total_staked")
      /\ tp.pool.total_rex \in Nat
  BY <1>0, <1>1, PoolTypes DEF Sound, PoolOK
<1>9. RexOfAll(t1.bal) = q.total_rex
  <2>1. \A v \in Users \ {u} : RexOf(t1.bal, v) = RexOf(t.bal, v)
    BY <1>4 DEF RexOf
  <2>2. RexOfAll(t1.bal) = RexOfAll(t.bal) - RexOf(t.bal, u) + RexOf(t1.bal, u) /\ RexOf(t.bal, u) \in Nat
    BY <1>0, <1>7, <2>1, RexChange DEF Sound
  <2>3. RexOf(t1.bal, u) = RexOf(t.bal, u) + rex
    BY <1>4 DEF RexOf
  <2> QED
    BY <1>3, <1>5, <1>8, <2>2, <2>3
<1>10. PoolOK(t1.pool, t1.init, t1.loans, t1.bal)
  BY <1>1, <1>5, <1>8, <1>9 DEF PoolOK
<1>11. Backing(t1.tokens, t1.funds, t1.loans, t1.orders, t1.pool, t1.off, t1.fee, x)
  <2>1. q.total_lendable \in Nat /\ t1.off \in Nat /\ q.total_lendable + t1.off = t.pool.total_lendable + t.off + payment
    BY <1>1, <1>5, PoolTypes
  <2> QED
    BY <1>0, <1>5, <2>1, Accounts DEF Backing
<1>12. YoungOK(t1.bought, t1.bal)
  <2>1. YoungOK(t.bought, t.bal)
    BY <1>0 DEF Sound
  <2>2. ASSUME NEW v \in Users, v # u
        PROVE  BoughtOK(t1.bought[v]) /\ \A time \in Int : time >= now => After(t1.bought[v], time) <= YoungOf(t1.bal, v, time)
    <3>1. t1.bought[v] = t.bought[v] /\ \A time : YoungOf(t1.bal, v, time) = YoungOf(t.bal, v, time)
      BY <1>4, <2>2 DEF YoungOf
    <3> QED
      BY <2>1, <3>1 DEF YoungOK
  <2>3. ASSUME NEW time \in Int, time >= now
        PROVE  After(t1.bought[u], time) <= YoungOf(t1.bal, u, time)
    <3>1. YoungOf(t1.bal, u, time) = Young(t1.bal[u], time)
      BY <1>4 DEF YoungOf
    <3>2. After(t.bought[u], time) <= YoungOf(t.bal, u, time)
      BY <2>1, <2>3 DEF YoungOK
    <3>3. After(t.bought[u], time) \in Nat /\ YoungOf(t.bal, u, time) \in Nat /\ Young(t1.bal[u], time) \in Nat
      BY <1>4
    <3>4. get_rex_maturity \in Nat /\ now \in Nat
      BY MaturityIs
    <3>5. CASE time < get_rex_maturity
      <4>1. Young(t1.bal[u], time) = YoungOf(t.bal, u, time) + rex
        BY <1>4, <2>3, <3>5
      <4>2. After(t1.bought[u], time) = After(t.bought[u], time) + rex
        BY <1>4, <3>4, <3>5
      <4> QED
        BY <1>3, <3>1, <3>2, <3>3, <4>1, <4>2
    <3>6. CASE ~(time < get_rex_maturity)
      <4>1. After(t1.bought[u], time) = After(t.bought[u], time)
        <5>1. ~(get_rex_maturity > time)
          BY <3>4, <3>6
        <5>2. After(t1.bought[u], time) = After(t.bought[u], time) + 0
          BY <1>4, <5>1
        <5> QED
          BY <3>3, <5>2
      <4>2. After(t.bought[u], time) = 0
        <5> DEFINE h == t.bought[u]
                   D == DOMAIN h
                   w == [at \in D |-> IF at > time THEN h[at] ELSE 0]
        <5>1. h \in [D -> Nat] /\ D \subseteq (now + 1)..get_rex_maturity
          BY <1>4 DEF BoughtOK
        <5>2. \A at \in D : w[at] = 0
          BY <3>4, <3>6, <5>1
        <5>3. IsFiniteSet(D)
          <6>1. IsFiniteSet((now + 1)..get_rex_maturity)
            BY <3>4, FS_Interval
          <6> QED
            BY <5>1, <6>1, FS_Subset
        <5> HIDE DEF w, D
        <5>4. (\A at \in D : w[at] \in Int) /\ (\A at \in D \ {} : w[at] = 0) /\ {} \in SUBSET D
          BY <5>2
        <5>5. SumOf(w, D) = SumOf(w, {})
          BY <5>3, <5>4, SumOfSupport
        <5>6. SumOf(w, {}) = 0
          BY SumOfNone
        <5>7. After(h, time) = SumOf(w, D)
          BY DEF After, w, D
        <5> QED
          BY <5>5, <5>6, <5>7
      <4> QED
        BY <3>1, <3>3, <4>1, <4>2
    <3> QED
      BY <3>5, <3>6
  <2> QED
    BY <1>4, <2>2, <2>3 DEF YoungOK
<1>13. Sound(t1, x)
  BY <1>0, <1>1, <1>5, <1>6, <1>7, <1>10, <1>11, <1>12 DEF Sound
<1>14. Covers(t1.orders, t1.bal)
  <2> SUFFICES ASSUME NEW v \in DOMAIN t.orders, t.orders[v].is_open
               PROVE  v \in DOMAIN t1.bal /\ t.orders[v].rex_requested <= t1.bal[v].matured_rex
    BY <1>5 DEF Covers
  <2>1. v \in DOMAIN t.bal /\ t.orders[v].rex_requested <= t.bal[v].matured_rex
    BY <1>0 DEF Covers
  <2>2. t.orders[v].rex_requested \in Nat
    BY <1>0 DEF Sound, OrdersOK, Order
  <2>3. CASE v = u
    <3>1. t.orders[v].rex_requested <= t.bal[v].matured_rex /\ t.bal[v].matured_rex \in Nat /\ t1.bal[v].matured_rex \in Nat
          /\ t1.bal[v].matured_rex >= t.bal[v].matured_rex
      BY <1>4, <2>1, <2>3
    <3> QED
      BY <1>4, <2>2, <2>3, <3>1
  <2>4. CASE v # u
    BY <1>4, <2>1, <2>4
  <2> QED
    BY <2>3, <2>4
<1> DEFINE was == StakeOf(t, u)
           is  == StakeOf(t1, u)
           d   == owed + (is - was)
<1>15. /\ was = StakeIn(t.bal, u) /\ is = StakeIn(t1.bal, u) /\ was \in Nat /\ is \in Nat
       /\ \A v \in Users \ {u} : StakeIn(t1.bal, v) = StakeIn(t.bal, v)
  <2>1. StakeIn(t.bal, u) \in Nat /\ StakeIn(t1.bal, u) \in Nat
    BY <1>0, <1>13, StakeTypes
  <2>2. \A v \in Users \ {u} : StakeIn(t1.bal, v) = StakeIn(t.bal, v)
    BY <1>4 DEF StakeIn
  <2> QED
    BY <2>1, <2>2 DEF StakeOf, StakeIn
<1>16. StakeOK(t1.staked, t1.delband, t1.bal, t1.orders, t1.strays, Debt(u, d))
  <2> SUFFICES ASSUME NEW v \in Users
               PROVE  t.staked[v] + Debt(u, d)[v]
                        = t.delband[v]["net"] + t.delband[v]["cpu"] + StakeIn(t1.bal, v) + t.strays[v] - ChangeOf(t.orders, v)
    BY <1>5 DEF StakeOK
  <2>1. t.staked[v] + Debt(u, owed)[v] = t.delband[v]["net"] + t.delband[v]["cpu"] + StakeIn(t.bal, v) + t.strays[v] - ChangeOf(t.orders, v)
    BY <1>0 DEF StakeOK
  <2>2. /\ t.delband[v]["net"] \in Nat /\ t.delband[v]["cpu"] \in Nat /\ t.strays[v] \in Int /\ t.staked[v] \in Int
        /\ StakeIn(t.bal, v) \in Nat /\ ChangeOf(t.orders, v) \in Int
    BY <1>0, StakeTypes
  <2>3. Debt(u, owed)[v] = (IF v = u THEN owed ELSE 0) /\ Debt(u, d)[v] = (IF v = u THEN d ELSE 0)
    BY DEF Debt
  <2>4. CASE v = u
    <3> DEFINE e == t.staked[v]
               a == t.delband[v]["net"]
               b == t.delband[v]["cpu"]
               r == t.strays[v]
               g == ChangeOf(t.orders, v)
    <3>1. /\ e \in Int /\ a \in Nat /\ b \in Nat /\ r \in Int /\ g \in Int /\ e + owed = a + b + was + r - g
          /\ StakeIn(t1.bal, v) = is /\ Debt(u, d)[v] = d
      BY <1>15, <2>1, <2>2, <2>3, <2>4
    <3> HIDE DEF e, a, b, r, g, was, is
    <3>2. e + d = a + b + is + r - g
      BY <1>15, <3>1
    <3> QED
      BY <3>1, <3>2 DEF e, a, b, r, g
  <2>5. CASE v # u
    BY <1>15, <2>1, <2>2, <2>3, <2>5
  <2> QED
    BY <2>4, <2>5
<1>17. Good(t1, x, Debt(u, d))
  BY <1>13, <1>14, <1>16 DEF Good
<1> QED
  BY <1>1, <1>5, <1>8, <1>15, <1>17 DEF StakeGain

-----------------------------------------------------------------------------
(* The inductive invariant, and the end of an action.                      *)

RexInv ==
    /\ ReturnsInv
    /\ Good(Tables, pool.proceeds, NoDebt)
    /\ \A u \in Users : staked[u] >= 0
    /\ ~initialized => ~pool.created

\* What the return pool has when an action has brought it up to date.
Returns == Updated.pool.proceeds

\* The tables that an action may write: after update_rex_pool, and without it.
Ready(t) == /\ Good(t, Returns, NoDebt)
            /\ t.init = TRUE \/ (t.fee = 0 /\ ~pool.created)
            /\ NotCheaper(rexpool, t.pool)
ReadyAside(t) == /\ Good(t, pool.proceeds, NoDebt)
                 /\ t.init = initialized /\ t.fee = 0
                 /\ NotCheaper(rexpool, t.pool)

LEMMA DueIs ==
  ASSUME RexInv
  PROVE  /\ ClockOK /\ pool.proceeds \in Nat /\ Returns \in Nat /\ Updated.unlent - unlent \in Nat
         /\ Returns = pool.proceeds - (Updated.unlent - unlent) /\ Updated.pool.created = pool.created
<1>1. RowOK(pool, buckets, unlent, now, added, lastFee) /\ now \in 1..MaxTime /\ added \in Nat
  BY RowIs DEF RexInv
<1>2. RowOK(Updated.pool, Updated.buckets, Updated.unlent, now, added, lastFee) /\ Updated.pool.created = pool.created /\ Updated.unlent >= unlent
  BY UpdateKeeps DEF RexInv
<1> DEFINE p == Updated.pool
           n == Updated.unlent
<1>3. pool.proceeds \in Nat /\ unlent \in Nat /\ unlent + pool.proceeds = added
  BY <1>1 DEF RowOK
<1>4. p.proceeds \in Nat /\ n \in Nat /\ n + p.proceeds = added
  <2> HIDE DEF p, n
  <2>1. RowOK(p, Updated.buckets, n, now, added, lastFee)
    BY <1>2 DEF p, n
  <2> QED
    BY <2>1 DEF RowOK
<1>5. n >= unlent
  BY <1>2
<1> HIDE DEF p, n
<1>6. n - unlent \in Nat /\ p.proceeds = pool.proceeds - (n - unlent)
  BY <1>1, <1>3, <1>4, <1>5
<1> QED
  BY <1>1, <1>2, <1>3, <1>4, <1>6 DEF ClockOK, Returns, p, n

LEMMA TablesIs ==
  /\ DOMAIN Tables = Fields /\ Tables.pool = rexpool /\ Tables.init = initialized /\ Tables.funds = rexfunds
  /\ Tables.bal = rexbal /\ Tables.orders = rexorders /\ Tables.loans = loans /\ Tables.delband = delband
  /\ Tables.totals = totals /\ Tables.staked = staked /\ Tables.tokens = tokens /\ Tables.off = writtenOff
  /\ Tables.strays = strays /\ Tables.bought = bought /\ Tables.fee = 0
BY DEF Tables, Fields

\* The clock stands still in an action.
LEMMA NextGood ==
  ASSUME now' = now, NEW t, NEW x, NEW d, Good(t, x, d)
  PROVE  Good(t, x, d)'
<1>1. get_rex_maturity' = get_rex_maturity
  BY DEF get_rex_maturity
<1>2. ASSUME NEW b, HolderOK(b) PROVE HolderOK(b)'
  BY <1>1, <1>2 DEF HolderOK, Ordered, Maturities
<1>3. BalOK(t.bal)'
  BY <1>2 DEF Good, Sound, BalOK
<1>4. YoungOK(t.bought, t.bal)'
  BY <1>1 DEF Good, Sound, YoungOK, BoughtOK
<1> QED
  BY <1>3, <1>4 DEF Good, Sound

\* The tables of an action are written back without its fee, which is in the return pool.
LEMMA Written ==
  ASSUME NEW t, DOMAIN t = Fields, Write(t)
  PROVE  Tables' = [t EXCEPT !.fee = 0]
<1> DEFINE s == [t EXCEPT !.fee = 0]
<1>1. DOMAIN s = Fields /\ s.fee = 0 /\ \A f \in Fields \ {"fee"} : s[f] = t[f]
  OBVIOUS
<1>2. s = [pool |-> t.pool, init |-> t.init, funds |-> t.funds, bal |-> t.bal, orders |-> t.orders,
           loans |-> t.loans, delband |-> t.delband, totals |-> t.totals, staked |-> t.staked, tokens |-> t.tokens,
           off |-> t.off, strays |-> t.strays, bought |-> t.bought, fee |-> 0]
  BY DEF Fields
<1> QED
  BY <1>2 DEF Write, Tables

LEMMA WrittenGood ==
  ASSUME NEW t, NEW x \in Int, Good(t, x, NoDebt), Write(t), Checks(t), now' = now, NEW y \in Int, y = x + t.fee
  PROVE  /\ Good(Tables, y, NoDebt)' /\ rexpool' = t.pool /\ initialized' = t.init
         /\ \A u \in Users : staked'[u] >= 0
<1> DEFINE s == [t EXCEPT !.fee = 0]
<1>1. Sound(t, x) /\ DOMAIN t = Fields /\ t.fee \in Nat
  BY DEF Good, Sound, Shape
<1>2. Tables' = s
  BY <1>1, Written
<1>3. AllBut(t, s, {"fee"}) /\ s.fee = 0
  BY <1>1 DEF AllBut, Fields
<1> HIDE DEF s
<1>4. y = x - (s.fee - t.fee) /\ s.fee \in Nat
  BY <1>1, <1>3
<1>5. Sound(s, y)
  BY <1>1, <1>3, <1>4, FeeMoved
<1>6. s.orders = t.orders /\ s.bal = t.bal /\ s.staked = t.staked /\ s.delband = t.delband /\ s.strays = t.strays
  BY <1>3 DEF AllBut, Fields
<1>7. Good(s, y, NoDebt)
  BY <1>5, <1>6 DEF Good
<1>8. Good(s, y, NoDebt)'
  BY <1>7, NextGood DEF NoDebt
<1>9. Good(Tables, y, NoDebt)'
  BY <1>2, <1>8
<1> QED
  BY <1>9 DEF Write, Checks

LEMMA CommitKeeps ==
  ASSUME RexInv, NEW t, Ready(t), Commit(t)
  PROVE  RexInv' /\ NotCheaper(rexpool, rexpool')
<1>1. /\ Good(t, Returns, NoDebt) /\ (t.init = TRUE \/ (t.fee = 0 /\ ~pool.created)) /\ NotCheaper(rexpool, t.pool)
      /\ Write(t) /\ Checks(t) /\ add_to_rex_return_pool(t.fee) /\ t.fee \in Nat
  BY DEF Ready, Commit, Good, Sound, Shape
<1>2. ReturnsInv'
  BY <1>1, FeeKeeps DEF RexInv
<1>3. now' = now /\ pool' = IF t.fee > 0 THEN WithFee(Updated.pool, t.fee) ELSE Updated.pool
  BY <1>1 DEF add_to_rex_return_pool, Store
<1>4. Returns \in Nat /\ Updated.pool.created = pool.created
  BY DueIs
<1>5. pool'.proceeds = Returns + t.fee
  <2>1. CASE t.fee > 0
    <3> DEFINE q == Updated.pool
    <3>1. RowOK(q, Updated.buckets, Updated.unlent, now, added, lastFee)
      BY UpdateKeeps DEF RexInv
    <3>2. pool' = WithFee(q, t.fee)
      BY <1>3, <2>1
    <3> HIDE DEF q
    <3>3. WithFee(q, t.fee).proceeds = q.proceeds + t.fee
      BY <3>1 DEF WithFee, RowOK
    <3> QED
      BY <3>2, <3>3 DEF q, Returns
  <2>2. CASE ~(t.fee > 0)
    BY <1>1, <1>3, <1>4, <2>2 DEF Returns
  <2> QED
    BY <2>1, <2>2
<1>6. initialized' = t.init
  BY <1>1 DEF Write
<1>7. ~initialized' => ~pool'.created
  BY <1>1, <1>3, <1>4, <1>6
<1>12. PICK x \in Int : x = Returns
  BY <1>4
<1>13. PICK y \in Int : y = x + t.fee
  BY <1>1
<1>8. Good(t, x, NoDebt)
  BY <1>1, <1>12
<1>9. /\ Good(Tables, y, NoDebt)' /\ rexpool' = t.pool /\ \A u \in Users : staked'[u] >= 0
  BY <1>1, <1>3, <1>8, <1>13, WrittenGood
<1>10. pool'.proceeds = y
  BY <1>5, <1>12, <1>13
<1>11. Good(Tables, pool.proceeds, NoDebt)'
  BY <1>9, <1>10
<1> QED
  BY <1>1, <1>2, <1>7, <1>9, <1>11 DEF RexInv

LEMMA CommitAsideKeeps ==
  ASSUME RexInv, NEW t, ReadyAside(t), CommitAside(t)
  PROVE  RexInv' /\ NotCheaper(rexpool, rexpool')
<1>1. /\ Good(t, pool.proceeds, NoDebt) /\ t.init = initialized /\ t.fee = 0 /\ NotCheaper(rexpool, t.pool)
      /\ Write(t) /\ Checks(t) /\ now' = now /\ pool' = pool /\ UNCHANGED <<now, returnVars>>
  BY DEF ReadyAside, CommitAside, returnVars
<1>2. ReturnsInv'
  BY <1>1, AsideKeeps DEF RexInv
<1>7. PICK x \in Int : x = pool.proceeds
  BY DueIs
<1>3. x = x + t.fee
  BY <1>1
<1>4. Good(t, x, NoDebt) /\ pool'.proceeds = x
  BY <1>1, <1>7
<1>5. Good(Tables, x, NoDebt)' /\ rexpool' = t.pool /\ initialized' = t.init /\ \A u \in Users : staked'[u] >= 0
  BY <1>1, <1>3, <1>4, WrittenGood
<1>6. Good(Tables, pool.proceeds, NoDebt)'
  BY <1>4, <1>5
<1> QED
  BY <1>1, <1>2, <1>5, <1>6 DEF RexInv

-----------------------------------------------------------------------------
(* The actions.                                                            *)

LEMMA SameValue ==
  ASSUME NEW p \in PoolRow
  PROVE  Dearer(p, p) /\ NotCheaper(p, p)
BY DearerSame, PoolTypes DEF NotCheaper

LEMMA NotCheaperChain ==
  ASSUME NEW p \in PoolRow, NEW q \in PoolRow, NEW s \in PoolRow, NotCheaper(p, q), Dearer(q, s)
  PROVE  NotCheaper(p, s)
BY DearerChain DEF NotCheaper

LEMMA InvTables ==
  ASSUME RexInv
  PROVE  /\ Good(Tables, pool.proceeds, NoDebt) /\ Sound(Tables, pool.proceeds) /\ Covers(rexorders, rexbal)
         /\ rexpool \in PoolRow /\ NoDebt \in [Users -> Int]
  BY TablesIs DEF RexInv, Good, Sound, PoolOK, NoDebt

\* What Ready says does not depend on the other tables.
LEMMA ReadyMoved ==
  ASSUME NEW t, Ready(t), NEW t1, Good(t1, Returns, NoDebt), t1.pool = t.pool, t1.init = t.init, t1.fee = t.fee
  PROVE  Ready(t1)
BY DEF Ready

LEMMA Ran ==
  ASSUME RexInv, initialized, NEW max \in Nat, NEW t, t = runrex(Tables, max)
  PROVE  Ready(t) /\ RunStep(Tables, t) /\ t.init = initialized /\ DOMAIN t.bal = DOMAIN rexbal
<1> DEFINE x == pool.proceeds
           gain == Updated.unlent - unlent
<1>1. Good(Tables, x, NoDebt) /\ NoDebt \in [Users -> Int]
  BY InvTables
<1>2. ClockOK /\ x \in Int /\ gain \in Nat /\ Returns = x - gain
  BY DueIs
<1>3. gain = Updated.unlent - unlent
  OBVIOUS
<1> HIDE DEF x, gain
<1>4. Good(t, x - gain, NoDebt) /\ RunStep(Tables, t)
  BY <1>1, <1>2, <1>3, RunKeeps
<1>5. t.init = initialized /\ DOMAIN t.bal = DOMAIN rexbal /\ Dearer(rexpool, t.pool)
  BY <1>4, TablesIs DEF RunStep, AllBut, RunFields, Fields
<1>6. t.init = TRUE
  BY <1>4, <1>5 DEF Good, Sound, Shape
<1> QED
  BY <1>2, <1>4, <1>5, <1>6 DEF Ready, NotCheaper

LEMMA RanFirst ==
  ASSUME RexInv, NEW t, t = RunFirst(Tables)
  PROVE  Ready(t) /\ DOMAIN t.bal = DOMAIN rexbal
<1>1. CASE initialized
  <2>1. t = runrex(Tables, RunMax) /\ RunMax \in Nat
    BY <1>1, TablesIs, RexAssumption DEF RunFirst
  <2> QED
    BY <1>1, <2>1, Ran
<1>2. CASE ~initialized
  <2>1. t = Tables
    BY <1>2, TablesIs DEF RunFirst
  <2>2. ~pool.created
    BY <1>2 DEF RexInv
  <2>3. Updated.unlent - unlent = 0 /\ Returns = pool.proceeds
    <3>1. Updated = [pool |-> pool, buckets |-> buckets, unlent |-> unlent]
      BY <2>2 DEF Updated
    <3>2. Updated.pool = pool
      BY <3>1
    <3>3. Returns = pool.proceeds
      BY <3>2 DEF Returns
    <3>4. pool.proceeds \in Nat /\ Updated.unlent - unlent \in Nat /\ Returns = pool.proceeds - (Updated.unlent - unlent)
      BY DueIs
    <3> QED
      BY <3>3, <3>4
  <2>4. NotCheaper(rexpool, rexpool)
    BY InvTables, SameValue
  <2> QED
    BY <2>1, <2>2, <2>3, <2>4, TablesIs, InvTables DEF Ready
<1> QED
  BY <1>1, <1>2

\* The votes of u are counted, and its filled order is collected.
LEMMA GoodAccount ==
  ASSUME NEW t, NEW x \in Int, NEW u \in Users, NEW delta \in Int, Good(t, x, Debt(u, delta)),
         NEW t1, t1 = update_rex_account(t, u, 0, delta)
  PROVE  /\ Good(t1, x, NoDebt) /\ AllBut(t, t1, {"funds", "orders", "staked"})
         /\ u \in DOMAIN t1.orders => t1.orders[u].is_open
         /\ DOMAIN t1.orders \subseteq DOMAIN t.orders /\ \A v \in DOMAIN t1.orders : t1.orders[v] = t.orders[v]
         /\ t1.pool = t.pool /\ t1.init = t.init /\ t1.fee = t.fee /\ t1.bal = t.bal
<1>1. 0 \in Nat
  OBVIOUS
<1>2. Sound(t, x) /\ StakeOK(t.staked, t.delband, t.bal, t.orders, t.strays, Debt(u, delta)) /\ Covers(t.orders, t.bal)
  BY DEF Good
<1>3. /\ Sound(t1, x - 0) /\ AllBut(t, t1, {"funds", "orders", "staked"})
      /\ StakeOK(t1.staked, t1.delband, t1.bal, t1.orders, t1.strays, Debt(u, delta - delta))
      /\ Covers(t.orders, t.bal) => Covers(t1.orders, t1.bal)
      /\ u \in DOMAIN t1.orders => t1.orders[u].is_open
      /\ DOMAIN t1.orders \subseteq DOMAIN t.orders /\ \A v \in DOMAIN t1.orders : t1.orders[v] = t.orders[v]
  BY <1>1, <1>2, AccountKeeps
<1>4. x - 0 = x /\ delta - delta = 0
  OBVIOUS
<1>5. Debt(u, 0) = NoDebt
  BY DEF Debt, NoDebt
<1>6. t1.pool = t.pool /\ t1.init = t.init /\ t1.fee = t.fee /\ t1.bal = t.bal
  BY <1>3 DEF AllBut, Fields
<1>7. Good(t1, x, NoDebt)
  BY <1>2, <1>3, <1>4, <1>5 DEF Good
<1> QED
  BY <1>3, <1>6, <1>7

\* The same when there is nothing to count.
LEMMA AccountOnly ==
  ASSUME NEW t, NEW x \in Int, NEW u \in Users, Good(t, x, NoDebt), NEW t1, t1 = update_rex_account(t, u, 0, 0)
  PROVE  /\ Good(t1, x, NoDebt) /\ AllBut(t, t1, {"funds", "orders", "staked"})
         /\ u \in DOMAIN t1.orders => t1.orders[u].is_open
         /\ DOMAIN t1.orders \subseteq DOMAIN t.orders /\ \A v \in DOMAIN t1.orders : t1.orders[v] = t.orders[v]
         /\ t1.pool = t.pool /\ t1.init = t.init /\ t1.fee = t.fee /\ t1.bal = t.bal
<1>1. PICK delta \in Int : delta = 0
  OBVIOUS
<1>2. Debt(u, delta) = NoDebt
  BY <1>1 DEF Debt, NoDebt
<1>3. Good(t, x, Debt(u, delta)) /\ t1 = update_rex_account(t, u, 0, delta)
  BY <1>1, <1>2
<1> QED
  BY <1>3, GoodAccount

LEMMA CollectedReady ==
  ASSUME RexInv, NEW u \in Users, NEW t, t = Collected(u)
  PROVE  Ready(t) /\ DOMAIN t.bal = DOMAIN rexbal /\ (u \in DOMAIN t.orders => t.orders[u].is_open)
<1> DEFINE tr == RunFirst(Tables)
<1>1. Ready(tr) /\ DOMAIN tr.bal = DOMAIN rexbal
  BY RanFirst
<1>2. Returns \in Int /\ Good(tr, Returns, NoDebt)
  BY <1>1, DueIs DEF Ready
<1>3. t = update_rex_account(tr, u, 0, 0)
  BY DEF Collected
<1> HIDE DEF tr
<1>4. Good(t, Returns, NoDebt) /\ t.pool = tr.pool /\ t.init = tr.init /\ t.fee = tr.fee /\ t.bal = tr.bal
      /\ (u \in DOMAIN t.orders => t.orders[u].is_open)
  BY <1>2, <1>3, AccountOnly
<1> QED
  BY <1>1, <1>4, ReadyMoved

\* A purchase, from tables t without the payment.
LEMMA BuyKeeps ==
  ASSUME RexInv, NEW t, NEW u \in Users, NEW payment \in Nat \ {0}, NEW paid \in Nat, NEW y \in Int, y = pool.proceeds + payment,
         Good(t, y, Debt(u, 0 - paid)), t.pool = rexpool, Buy(t, u, payment, paid)
  PROVE  RexInv' /\ NotCheaper(rexpool, rexpool')
<1> DEFINE x  == pool.proceeds
           t1 == add_to_rex_balance(add_to_rex_pool(t, payment), u, payment, t.pool.total_rex)
           ch == StakeOf(t1, u) - StakeOf(t, u)
           t2 == runrex(t1, RunMax)
           gain  == Updated.unlent - unlent
           delta == StakeOf(t1, u) - StakeOf(t, u) - paid
           t3 == update_rex_account(t2, u, 0, delta)
<1>1. ClockOK /\ x \in Int /\ x = y - payment /\ gain \in Nat /\ Returns = x - gain /\ Returns \in Int
  BY DueIs
<1>2. PICK owed \in Int : owed = 0 - paid
  OBVIOUS
<1>3. CanBuy(t) /\ Commit(t3)
  BY DEF Buy, Receive, FinishPurchase
<1>4. gain = Updated.unlent - unlent /\ RunMax \in Nat
  BY RexAssumption
<1> HIDE DEF x, gain
<1>5. Good(t, y, Debt(u, owed))
  BY <1>2
<1>6. /\ Good(t1, x, Debt(u, owed + ch)) /\ ch \in Int
      /\ t1.init = TRUE /\ t1.pool \in PoolRow /\ t.pool \in PoolRow /\ NotCheaper(t.pool, t1.pool)
  <2>1. t1 = Purchase(t, u, payment)
    BY DEF Purchase
  <2>2. ClockOK /\ x \in Int /\ x = y - payment /\ CanBuy(t)
    BY <1>1, <1>3
  <2> HIDE DEF t1
  <2>3. /\ Good(t1, x, Debt(u, owed + StakeGain(t, t1, u))) /\ StakeGain(t, t1, u) \in Int
        /\ t1.init = TRUE /\ t1.pool \in PoolRow /\ t.pool \in PoolRow /\ NotCheaper(t.pool, t1.pool)
    <3>2. t1.init = TRUE
      BY <1>5, <2>1, <2>2, PurchaseKeeps
    <3>3. StakeGain(t, t1, u) \in Int
      BY <1>5, <2>1, <2>2, PurchaseKeeps
    <3>4. t1.pool \in PoolRow /\ t.pool \in PoolRow /\ NotCheaper(t.pool, t1.pool)
      BY <1>5, <2>1, <2>2, PurchaseKeeps
    <3>5. Good(t1, x, Debt(u, owed + StakeGain(t, t1, u)))
      BY <1>5, <2>1, <2>2, PurchaseKeeps
    <3> QED
      BY <3>2, <3>3, <3>4, <3>5
  <2> QED
    BY <2>3 DEF StakeGain
<1> HIDE DEF t1
<1>7. delta \in Int /\ owed + ch = delta
  <2> DEFINE a == StakeOf(t1, u)
             b == StakeOf(t, u)
  <2>1. a - b \in Int /\ delta = a - b - paid /\ ch = a - b
    BY <1>6
  <2> HIDE DEF a, b, ch, delta
  <2> QED
    BY <1>2, <2>1
<1> HIDE DEF delta, ch
<1>8. Debt(u, delta) \in [Users -> Int] /\ Good(t1, x, Debt(u, delta))
  BY <1>6, <1>7, DebtIs
<1> DEFINE d == Debt(u, delta)
<1>9. d \in [Users -> Int] /\ Good(t1, x, d)
  BY <1>8
<1> HIDE DEF d
<1>10. Good(t2, x - gain, d) /\ RunStep(t1, t2)
  BY <1>1, <1>4, <1>9, RunKeeps
<1> HIDE DEF t2
<1>11. Good(t2, Returns, Debt(u, delta))
  BY <1>1, <1>10 DEF d
<1>12. /\ Good(t3, Returns, NoDebt) /\ t3.pool = t2.pool /\ t3.init = t2.init
  <2>1. t3 = update_rex_account(t2, u, 0, delta) /\ delta \in Int /\ Returns \in Int
    BY <1>1, <1>7
  <2> HIDE DEF t3
  <2> QED
    BY <1>11, <2>1, GoodAccount
<1>13. t2.init = TRUE /\ t2.pool \in PoolRow /\ Dearer(t1.pool, t2.pool)
  BY <1>6, <1>10 DEF RunStep, AllBut, RunFields, Fields
<1>14. NotCheaper(rexpool, t2.pool)
  BY <1>6, <1>13, NotCheaperChain
<1>15. Ready(t3)
  BY <1>12, <1>13, <1>14 DEF Ready
<1> QED
  BY <1>3, <1>15, CommitKeeps

LEMMA FundOutGood ==
  ASSUME NEW t, NEW x \in Int, NEW d, Good(t, x, d), NEW u \in Users, NEW a \in Nat, HasFund(t, u, a), NEW t1, t1 = transfer_from_fund(t, u, a),
         NEW y \in Int, y = x + a
  PROVE  Good(t1, y, d) /\ AllBut(t, t1, {"funds"})
<1>1. DOMAIN t = Fields /\ FundsOK(t.funds) /\ Sound(t, x)
  BY DEF Good, Sound, Shape
<1>2. /\ AllBut(t, t1, {"funds"}) /\ FundsOK(t1.funds) /\ FundOf(t1.funds, u) = FundOf(t.funds, u) - a
      /\ \A v \in Users \ {u} : FundOf(t1.funds, v) = FundOf(t.funds, v)
      /\ FundOf(t.funds, u) \in Nat
  BY <1>1, FundOutIs
<1>3. y = x - (FundOf(t1.funds, u) - FundOf(t.funds, u))
  BY <1>2
<1>4. Sound(t1, y)
  BY <1>1, <1>2, <1>3, FundsMoved
<1>5. AllBut(t, t1, LoanFields \cup {"tokens"})
  BY <1>2 DEF AllBut, LoanFields
<1> QED
  BY <1>2, <1>4, <1>5, GoodMoved

LEMMA FundInGood ==
  ASSUME NEW t, NEW x \in Int, NEW d, Good(t, x, d), NEW u \in Users, NEW a \in Nat, NEW t1, t1 = transfer_to_fund(t, u, a),
         NEW y \in Int, y = x - a
  PROVE  Good(t1, y, d) /\ AllBut(t, t1, {"funds"})
<1>1. DOMAIN t = Fields /\ FundsOK(t.funds) /\ Sound(t, x)
  BY DEF Good, Sound, Shape
<1>2. /\ AllBut(t, t1, {"funds"}) /\ FundsOK(t1.funds) /\ FundOf(t1.funds, u) = FundOf(t.funds, u) + a
      /\ \A v \in Users \ {u} : FundOf(t1.funds, v) = FundOf(t.funds, v)
      /\ FundOf(t.funds, u) \in Nat
  BY <1>1, FundInIs
<1>3. y = x - (FundOf(t1.funds, u) - FundOf(t.funds, u))
  BY <1>2
<1>4. Sound(t1, y)
  BY <1>1, <1>2, <1>3, FundsMoved
<1>5. AllBut(t, t1, LoanFields \cup {"tokens"})
  BY <1>2 DEF AllBut, LoanFields
<1> QED
  BY <1>2, <1>4, <1>5, GoodMoved

LEMMA BuyrexKeeps ==
  ASSUME RexInv, NEW u \in Users, NEW a \in Nat \ {0}, buyrex(u, a)
  PROVE  RexInv' /\ NotCheaper(rexpool, rexpool')
<1> DEFINE t == transfer_from_fund(Tables, u, a)
           y == pool.proceeds + a
<1>1. HasFund(Tables, u, a) /\ Buy(t, u, a, 0)
  BY DEF buyrex
<1>2. y \in Int /\ y = pool.proceeds + a /\ pool.proceeds \in Int
  BY DueIs
<1>3. Good(Tables, pool.proceeds, NoDebt)
  BY InvTables
<1>4. Good(t, y, NoDebt) /\ AllBut(Tables, t, {"funds"})
  BY <1>1, <1>2, <1>3, FundOutGood
<1>5. t.pool = rexpool
  BY <1>4, TablesIs DEF AllBut, Fields
<1>6. PICK paid \in Nat : paid = 0
  OBVIOUS
<1>7. 0 - paid = 0 /\ Debt(u, 0) = NoDebt
  BY <1>6 DEF Debt, NoDebt
<1> HIDE DEF t, y
<1>8. Good(t, y, Debt(u, 0 - paid)) /\ Buy(t, u, a, paid)
  BY <1>1, <1>4, <1>6, <1>7
<1> QED
  BY <1>2, <1>5, <1>8, BuyKeeps

\* One entry of a table of the resources of the users becomes less.
LEMMA EntryLess ==
  ASSUME NEW f, f \in [Users -> [Kinds -> Int]], NEW u \in Users, NEW k \in Kinds, NEW n \in Int,
         NEW g, g = [f EXCEPT ![u][k] = @ - n]
  PROVE  /\ g \in [Users -> [Kinds -> Int]] /\ g[u][k] = f[u][k] - n
         /\ \A v \in Users, j \in Kinds : v # u \/ j # k => g[v][j] = f[v][j]
         /\ \A v \in Users \ {u} : g[v] = f[v]
<1>1. f[u] \in [Kinds -> Int]
  OBVIOUS
<1> DEFINE h == [f[u] EXCEPT ![k] = @ - n]
<1>2. h \in [Kinds -> Int] /\ h[k] = f[u][k] - n /\ \A j \in Kinds \ {k} : h[j] = f[u][j]
  BY <1>1
<1>3. g = [f EXCEPT ![u] = h]
  OBVIOUS
<1> HIDE DEF h
<1> QED
  BY <1>2, <1>3

\* Tokens leave the stake of u.
UnstakedTo(t, t1, u, n, c) ==
    /\ AllBut(t, t1, {"delband", "totals", "tokens"})
    /\ t1.delband \in [Users -> [Kinds -> Nat]] /\ t1.totals \in [Users -> [Kinds -> Int]]
    /\ \A v \in Users \ {u} : t1.delband[v] = t.delband[v] /\ t1.totals[v] = t.totals[v]
    /\ t1.delband[u]["net"] = t.delband[u]["net"] - n /\ t1.delband[u]["cpu"] = t.delband[u]["cpu"] - c
    /\ t1.totals[u]["net"] = t.totals[u]["net"] - n /\ t1.totals[u]["cpu"] = t.totals[u]["cpu"] - c
    /\ t1.tokens \in [Users \cup {rex_account} -> Int] /\ t1.tokens[rex_account] = t.tokens[rex_account] + n + c
    /\ \A v \in Users : t1.tokens[v] = t.tokens[v]

LEMMA UnstakedIs ==
  ASSUME NEW t, DOMAIN t = Fields, t.delband \in [Users -> [Kinds -> Nat]], t.totals \in [Users -> [Kinds -> Int]],
         t.tokens \in [Users \cup {rex_account} -> Int], NEW u \in Users, NEW n \in Nat, NEW c \in Nat,
         n <= t.delband[u]["net"], c <= t.delband[u]["cpu"], NEW t1, t1 = Unstaked(t, u, n, c)
  PROVE  UnstakedTo(t, t1, u, n, c)
<1> DEFINE D == [t.delband EXCEPT ![u]["net"] = @ - n]
           E == [t.totals EXCEPT ![u]["net"] = @ - n]
           K == [t.tokens EXCEPT ![rex_account] = @ + n + c]
<1>1. t1.delband = [D EXCEPT ![u]["cpu"] = @ - c]
  BY DEF Unstaked, Fields
<1>2. t1.totals = [E EXCEPT ![u]["cpu"] = @ - c]
  BY DEF Unstaked, Fields
<1>3. t1.tokens = K
  BY DEF Unstaked, Fields
<1>4. AllBut(t, t1, {"delband", "totals", "tokens"})
  BY DEF Unstaked, AllBut, Fields
<1>5. "net" \in Kinds /\ "cpu" \in Kinds /\ "net" # "cpu" /\ n \in Int /\ c \in Int
  BY DEF Kinds
<1>6. D \in [Users -> [Kinds -> Int]] /\ D[u]["net"] = t.delband[u]["net"] - n /\ D[u]["cpu"] = t.delband[u]["cpu"]
      /\ \A v \in Users \ {u} : D[v] = t.delband[v]
  <2>1. t.delband \in [Users -> [Kinds -> Int]]
    OBVIOUS
  <2> QED
    BY <1>5, <2>1, EntryLess
<1>7. E \in [Users -> [Kinds -> Int]] /\ E[u]["net"] = t.totals[u]["net"] - n /\ E[u]["cpu"] = t.totals[u]["cpu"]
      /\ \A v \in Users \ {u} : E[v] = t.totals[v]
  BY <1>5, EntryLess
<1> HIDE DEF D, E
<1>8. t1.delband \in [Users -> [Kinds -> Int]] /\ t1.delband[u]["net"] = D[u]["net"] /\ t1.delband[u]["cpu"] = D[u]["cpu"] - c
      /\ \A v \in Users \ {u} : t1.delband[v] = D[v]
  BY <1>1, <1>5, <1>6, EntryLess
<1>9. t1.totals \in [Users -> [Kinds -> Int]] /\ t1.totals[u]["net"] = E[u]["net"] /\ t1.totals[u]["cpu"] = E[u]["cpu"] - c
      /\ \A v \in Users \ {u} : t1.totals[v] = E[v]
  BY <1>2, <1>5, <1>7, EntryLess
<1>10. t1.delband \in [Users -> [Kinds -> Nat]]
  <2> SUFFICES ASSUME NEW v \in Users, NEW k \in Kinds PROVE t1.delband[v][k] \in Nat
    BY <1>8
  <2>1. t.delband[v][k] \in Nat /\ t.delband[u]["net"] \in Nat /\ t.delband[u]["cpu"] \in Nat
    BY <1>5
  <2>2. CASE v # u
    BY <1>6, <1>8, <2>1, <2>2
  <2>3. CASE v = u /\ k = "net"
    BY <1>6, <1>8, <2>1, <2>3
  <2>4. CASE v = u /\ k = "cpu"
    BY <1>6, <1>8, <2>1, <2>4
  <2> QED
    BY <2>2, <2>3, <2>4 DEF Kinds
<1>11. /\ t1.tokens \in [Users \cup {rex_account} -> Int] /\ t1.tokens[rex_account] = t.tokens[rex_account] + n + c
       /\ \A v \in Users : t1.tokens[v] = t.tokens[v]
  BY <1>3, UsersFinite
<1> QED
  BY <1>4, <1>6, <1>7, <1>8, <1>9, <1>10, <1>11 DEF UnstakedTo

LEMMA UnstakedKeeps ==
  ASSUME NEW t, NEW x \in Int, Good(t, x, NoDebt), NEW u \in Users, NEW n \in Nat, NEW c \in Nat,
         n <= t.delband[u]["net"], c <= t.delband[u]["cpu"], NEW t1, t1 = Unstaked(t, u, n, c),
         NEW paid \in Nat, paid = n + c, NEW y \in Int, y = x + paid
  PROVE  Good(t1, y, Debt(u, 0 - paid)) /\ t1.pool = t.pool
<1>0. Sound(t, x) /\ Covers(t.orders, t.bal) /\ StakeOK(t.staked, t.delband, t.bal, t.orders, t.strays, NoDebt)
  BY DEF Good
<1>1. /\ AllBut(t, t1, {"delband", "totals", "tokens"})
      /\ t1.delband \in [Users -> [Kinds -> Nat]] /\ t1.totals \in [Users -> [Kinds -> Int]]
      /\ \A v \in Users \ {u} : t1.delband[v] = t.delband[v] /\ t1.totals[v] = t.totals[v]
      /\ t1.delband[u]["net"] = t.delband[u]["net"] - n /\ t1.delband[u]["cpu"] = t.delband[u]["cpu"] - c
      /\ t1.totals[u]["net"] = t.totals[u]["net"] - n /\ t1.totals[u]["cpu"] = t.totals[u]["cpu"] - c
      /\ t1.tokens \in [Users \cup {rex_account} -> Int] /\ t1.tokens[rex_account] = t.tokens[rex_account] + n + c
      /\ \A v \in Users : t1.tokens[v] = t.tokens[v]
  <2>1. DOMAIN t = Fields /\ t.delband \in [Users -> [Kinds -> Nat]] /\ t.totals \in [Users -> [Kinds -> Int]]
        /\ t.tokens \in [Users \cup {rex_account} -> Int]
    BY <1>0 DEF Sound, Shape, ResOK
  <2>2. UnstakedTo(t, t1, u, n, c)
    BY <2>1, UnstakedIs
  <2> QED
    BY <2>2 DEF UnstakedTo
<1>2. /\ t1.pool = t.pool /\ t1.init = t.init /\ t1.bal = t.bal /\ t1.funds = t.funds /\ t1.loans = t.loans
      /\ t1.staked = t.staked /\ t1.orders = t.orders
      /\ t1.off = t.off /\ t1.strays = t.strays /\ t1.bought = t.bought /\ t1.fee = t.fee /\ DOMAIN t1 = Fields
  BY <1>1 DEF AllBut, Fields
<1>3. ResOK(t1.totals, t1.delband, t1.loans)
  <2> SUFFICES ASSUME NEW v \in Users, NEW k \in Kinds
               PROVE  t1.totals[v][k] = t1.delband[v][k] + Received(t.loans[k], v)
    BY <1>1, <1>2 DEF ResOK
  <2>1. t.totals[v][k] = t.delband[v][k] + Received(t.loans[k], v) /\ t.totals[v][k] \in Int /\ t.delband[v][k] \in Nat
    BY <1>0 DEF Sound, ResOK
  <2>2. Received(t.loans[k], v) \in Int
    <3> DEFINE L == For(t.loans[k], v)
    <3>1. IsFiniteSet(L) /\ \A l \in L : l["total_staked"] \in Nat
      BY <1>0, FS_Subset DEF Sound, LoansOK, KindOK, Loan, For
    <3> HIDE DEF L
    <3>2. Col(L, "total_staked") \in Nat
      BY <3>1, ColType
    <3> QED
      BY <3>2 DEF Received, L
  <2>3. CASE v = u /\ k = "net"
    BY <1>1, <2>1, <2>2, <2>3
  <2>4. CASE v = u /\ k = "cpu"
    BY <1>1, <2>1, <2>2, <2>4
  <2>5. CASE v # u
    BY <1>1, <2>1, <2>5
  <2> QED
    BY <2>3, <2>4, <2>5 DEF Kinds
<1>4. Shape(t1)
  BY <1>0, <1>1, <1>2 DEF Sound, Shape
<1>5. Backing(t1.tokens, t1.funds, t1.loans, t1.orders, t1.pool, t1.off, t1.fee, y)
  BY <1>0, <1>1, <1>2, Accounts DEF Backing
<1>6. Sound(t1, y)
  BY <1>0, <1>2, <1>3, <1>4, <1>5 DEF Sound
<1>7. StakeOK(t1.staked, t1.delband, t1.bal, t1.orders, t1.strays, Debt(u, 0 - paid))
  <2> SUFFICES ASSUME NEW v \in Users
               PROVE  t.staked[v] + Debt(u, 0 - paid)[v]
                        = t1.delband[v]["net"] + t1.delband[v]["cpu"] + StakeIn(t.bal, v) + t.strays[v] - ChangeOf(t.orders, v)
    BY <1>2 DEF StakeOK
  <2>1. t.staked[v] + 0 = t.delband[v]["net"] + t.delband[v]["cpu"] + StakeIn(t.bal, v) + t.strays[v] - ChangeOf(t.orders, v)
    BY <1>0 DEF StakeOK, NoDebt
  <2>2. /\ t.delband[v]["net"] \in Nat /\ t.delband[v]["cpu"] \in Nat /\ t.strays[v] \in Int /\ t.staked[v] \in Int
        /\ StakeIn(t.bal, v) \in Nat /\ ChangeOf(t.orders, v) \in Int
    BY <1>0, StakeTypes
  <2>3. Debt(u, 0 - paid)[v] = (IF v = u THEN 0 - paid ELSE 0)
    BY DEF Debt
  <2>4. CASE v = u
    <3> DEFINE e == t.staked[v]
               a == t.delband[v]["net"]
               b == t.delband[v]["cpu"]
               s == StakeIn(t.bal, v)
               r == t.strays[v]
               g == ChangeOf(t.orders, v)
    <3>1. /\ e \in Int /\ a \in Nat /\ b \in Nat /\ r \in Int /\ s \in Nat /\ g \in Int /\ e + 0 = a + b + s + r - g
          /\ t1.delband[v]["net"] = a - n /\ t1.delband[v]["cpu"] = b - c /\ Debt(u, 0 - paid)[v] = 0 - paid
      BY <1>1, <2>1, <2>2, <2>3, <2>4
    <3> HIDE DEF e, a, b, r, g, s
    <3>2. e + (0 - paid) = (a - n) + (b - c) + s + r - g
      BY <3>1
    <3> QED
      BY <3>1, <3>2 DEF e, a, b, r, g, s
  <2>5. CASE v # u
    BY <1>1, <2>1, <2>2, <2>3, <2>5
  <2> QED
    BY <2>4, <2>5
<1> QED
  BY <1>0, <1>2, <1>6, <1>7 DEF Good

LEMMA UnstaketorexKeeps ==
  ASSUME RexInv, NEW u \in Users, NEW n \in Nat, NEW c \in Nat, unstaketorex(u, n, c)
  PROVE  RexInv' /\ NotCheaper(rexpool, rexpool')
<1> DEFINE t == Unstaked(Tables, u, n, c)
           paid == n + c
           y == pool.proceeds + paid
<1>1. /\ n <= Tables.delband[u]["net"] /\ c <= Tables.delband[u]["cpu"]
      /\ paid \in Nat \ {0} /\ paid = n + c /\ Buy(t, u, paid, paid)
  BY TablesIs DEF unstaketorex
<1>2. y \in Int /\ y = pool.proceeds + paid /\ pool.proceeds \in Int
  BY DueIs
<1>3. Good(Tables, pool.proceeds, NoDebt)
  BY InvTables
<1>4. t = Unstaked(Tables, u, n, c)
  OBVIOUS
<1> HIDE DEF t, y, paid
<1>5. Good(t, y, Debt(u, 0 - paid)) /\ t.pool = Tables.pool
  BY <1>1, <1>2, <1>3, <1>4, UnstakedKeeps
<1>6. t.pool = rexpool /\ paid \in Nat
  BY <1>1, <1>5, TablesIs
<1> QED
  BY <1>1, <1>2, <1>5, <1>6, BuyKeeps

\* Tokens move between u and eosio.rex.
LEMMA TokensGood ==
  ASSUME NEW t, NEW x \in Int, NEW d, Good(t, x, d), NEW u \in Users, NEW a \in Int, NEW t1, AllBut(t, t1, {"tokens"}),
         DOMAIN t1.tokens = Users \cup {rex_account},
         t1.tokens[u] = t.tokens[u] - a, t1.tokens[rex_account] = t.tokens[rex_account] + a, a <= t.tokens[u],
         \A v \in Users \ {u} : t1.tokens[v] = t.tokens[v], t1.tokens \in [Users \cup {rex_account} -> Int],
         NEW y \in Int, y = x + a
  PROVE  Good(t1, y, d)
<1>1. Sound(t, x) /\ t.tokens \in [Users \cup {rex_account} -> Int] /\ \A v \in Users : t.tokens[v] >= 0
  BY DEF Good, Sound, Shape
<1>2. t.tokens[u] \in Int /\ t.tokens[rex_account] \in Int
  BY <1>1
<1>3. \A v \in Users : t1.tokens[v] >= 0
  BY <1>1, <1>2
<1>4. y = x + t1.tokens[rex_account] - t.tokens[rex_account]
  BY <1>2
<1>5. Sound(t1, y)
  BY <1>1, <1>3, <1>4, TokensMoved
<1>6. AllBut(t, t1, LoanFields \cup {"tokens"})
  BY DEF AllBut
<1> QED
  BY <1>5, <1>6, GoodMoved

LEMMA DepositKeeps ==
  ASSUME RexInv, NEW u \in Users, NEW a \in Nat, deposit(u, a)
  PROVE  RexInv' /\ NotCheaper(rexpool, rexpool')
<1> DEFINE tf == transfer_to_fund(Tables, u, a)
           t1 == [tf EXCEPT !.tokens[u] = @ - a, !.tokens[rex_account] = @ + a]
           x  == pool.proceeds
           y  == x - a
<1>1. a <= tokens[u] /\ CommitAside(t1)
  BY DEF deposit
<1>2. x \in Int /\ y \in Int /\ y = x - a /\ x = y + a
  BY DueIs
<1>3. Good(Tables, x, NoDebt)
  BY InvTables
<1>4. tf = transfer_to_fund(Tables, u, a) /\ x = pool.proceeds
  OBVIOUS
<1> HIDE DEF tf, x, y
<1>5. Good(tf, y, NoDebt) /\ AllBut(Tables, tf, {"funds"})
  BY <1>2, <1>3, <1>4, FundInGood
<1>6. DOMAIN tf = Fields /\ tf.tokens = tokens /\ tf.tokens \in [Users \cup {rex_account} -> Int] /\ tf.pool = rexpool /\ tf.init = initialized /\ tf.fee = 0
  BY <1>5, TablesIs DEF AllBut, Fields, Good, Sound, Shape
<1>7. AllBut(tf, t1, {"tokens"}) /\ t1.tokens = [tokens EXCEPT ![u] = @ - a, ![rex_account] = @ + a]
  BY <1>6 DEF AllBut, Fields
<1>8. /\ t1.tokens \in [Users \cup {rex_account} -> Int] /\ DOMAIN t1.tokens = Users \cup {rex_account}
      /\ t1.tokens[u] = tf.tokens[u] - a /\ t1.tokens[rex_account] = tf.tokens[rex_account] + a
      /\ \A v \in Users \ {u} : t1.tokens[v] = tf.tokens[v]
  BY <1>6, <1>7, UsersFinite
<1>9. a <= tf.tokens[u] /\ a \in Int
  BY <1>1, <1>6
<1>10. t1.pool = tf.pool /\ t1.init = tf.init /\ t1.fee = tf.fee
  BY <1>7 DEF AllBut, Fields
<1> HIDE DEF t1
<1>11. Good(t1, x, NoDebt)
  <2>1. x \in Int /\ y \in Int /\ x = y + a /\ Good(tf, y, NoDebt) /\ AllBut(tf, t1, {"tokens"})
    BY <1>2, <1>5, <1>7
  <2> QED
    BY <1>8, <1>9, <2>1, TokensGood
<1>12. NotCheaper(rexpool, rexpool)
  BY InvTables, SameValue
<1>13. ReadyAside(t1)
  BY <1>4, <1>6, <1>10, <1>11, <1>12 DEF ReadyAside
<1> QED
  BY <1>1, <1>13, CommitAsideKeeps

LEMMA WithdrawKeeps ==
  ASSUME RexInv, NEW u \in Users, NEW a \in Nat, withdraw(u, a)
  PROVE  RexInv' /\ NotCheaper(rexpool, rexpool')
<1> DEFINE tu == update_rex_account(Tables, u, 0, 0)
           tf == transfer_from_fund(tu, u, a)
           t1 == [tf EXCEPT !.tokens[u] = @ + a, !.tokens[rex_account] = @ - a]
           x  == pool.proceeds
           y  == x + a
<1>1. HasFund(tu, u, a) /\ CommitAside(t1)
  BY DEF withdraw, WithdrawFrom
<1>2. x \in Int /\ y \in Int /\ y = x + a /\ x = y + (0 - a) /\ 0 - a \in Int
  BY DueIs
<1>3. Good(Tables, x, NoDebt)
  BY InvTables
<1>4. tu = update_rex_account(Tables, u, 0, 0) /\ tf = transfer_from_fund(tu, u, a) /\ x = pool.proceeds
  OBVIOUS
<1> HIDE DEF tu, tf, x, y
<1>5. Good(tu, x, NoDebt) /\ AllBut(Tables, tu, {"funds", "orders", "staked"})
  BY <1>2, <1>3, <1>4, AccountOnly
<1>6. Good(tf, y, NoDebt) /\ AllBut(tu, tf, {"funds"})
  BY <1>1, <1>2, <1>4, <1>5, FundOutGood
<1>7. DOMAIN tf = Fields /\ tf.tokens = tokens /\ tf.tokens \in [Users \cup {rex_account} -> Int] /\ tf.pool = rexpool /\ tf.init = initialized /\ tf.fee = 0
      /\ \A v \in Users : tf.tokens[v] >= 0
  BY <1>5, <1>6, TablesIs DEF AllBut, Fields, Good, Sound, Shape
<1>8. AllBut(tf, t1, {"tokens"}) /\ t1.tokens = [tokens EXCEPT ![u] = @ + a, ![rex_account] = @ - a]
  BY <1>7 DEF AllBut, Fields
<1>9. /\ t1.tokens \in [Users \cup {rex_account} -> Int] /\ DOMAIN t1.tokens = Users \cup {rex_account}
      /\ t1.tokens[u] = tf.tokens[u] - (0 - a) /\ t1.tokens[rex_account] = tf.tokens[rex_account] + (0 - a)
      /\ \A v \in Users \ {u} : t1.tokens[v] = tf.tokens[v]
  <2>1. tokens[u] \in Int /\ tokens[rex_account] \in Int /\ u # rex_account
    BY <1>7, UsersFinite
  <2>2. /\ t1.tokens \in [Users \cup {rex_account} -> Int] /\ DOMAIN t1.tokens = Users \cup {rex_account}
        /\ t1.tokens[u] = tokens[u] + a /\ t1.tokens[rex_account] = tokens[rex_account] - a
        /\ \A v \in Users \ {u} : t1.tokens[v] = tokens[v]
    BY <1>7, <1>8, UsersFinite
  <2>3. tokens[u] + a = tokens[u] - (0 - a) /\ tokens[rex_account] - a = tokens[rex_account] + (0 - a)
    BY <2>1
  <2> QED
    BY <1>7, <2>2, <2>3
<1>10. 0 - a <= tf.tokens[u]
  <2>1. tf.tokens[u] \in Int /\ tf.tokens[u] >= 0
    BY <1>7
  <2> QED
    BY <2>1
<1>11. t1.pool = tf.pool /\ t1.init = tf.init /\ t1.fee = tf.fee
  BY <1>8 DEF AllBut, Fields
<1> HIDE DEF t1
<1>12. PICK b \in Int : b = 0 - a
  BY <1>2
<1>13. Good(t1, x, NoDebt)
  <2>1. /\ t1.tokens[u] = tf.tokens[u] - b /\ t1.tokens[rex_account] = tf.tokens[rex_account] + b /\ b <= tf.tokens[u] /\ x = y + b
    BY <1>2, <1>9, <1>10, <1>12
  <2>2. /\ t1.tokens \in [Users \cup {rex_account} -> Int] /\ DOMAIN t1.tokens = Users \cup {rex_account}
        /\ \A v \in Users \ {u} : t1.tokens[v] = tf.tokens[v]
    BY <1>9
  <2>3. x \in Int /\ y \in Int /\ Good(tf, y, NoDebt) /\ AllBut(tf, t1, {"tokens"})
    BY <1>2, <1>6, <1>8
  <2> QED
    BY <2>1, <2>2, <2>3, TokensGood
<1>14. NotCheaper(rexpool, rexpool)
  BY InvTables, SameValue
<1>15. ReadyAside(t1)
  BY <1>4, <1>7, <1>11, <1>13, <1>14 DEF ReadyAside
<1> QED
  BY <1>1, <1>15, CommitAsideKeeps

\* An open order is withdrawn.
LEMMA CancelKeeps ==
  ASSUME RexInv, NEW u \in Users, cnclrexorder(u)
  PROVE  RexInv' /\ NotCheaper(rexpool, rexpool')
<1> DEFINE t  == Tables
           t1 == [Tables EXCEPT !.orders = Without(@, u)]
           x  == pool.proceeds
           o1 == Without(rexorders, u)
<1>1. u \in DOMAIN t.orders /\ t.orders[u].is_open /\ CommitAside(t1)
  BY DEF cnclrexorder, Open
<1>2. x \in Int
  BY DueIs
<1>3. Good(t, x, NoDebt) /\ Sound(t, x) /\ OrdersOK(t.orders) /\ t.orders = rexorders
  BY InvTables, TablesIs DEF Sound
<1>4. AllBut(t, t1, {"orders"}) /\ t1.orders = o1
  BY TablesIs DEF AllBut, Fields
<1>5. DOMAIN o1 = DOMAIN rexorders \ {u} /\ \A v \in DOMAIN o1 : o1[v] = rexorders[v]
  BY DEF Without, RestrictDomain, Restrict
<1>6. t1.pool = rexpool /\ t1.init = initialized /\ t1.fee = 0 /\ t1.bal = t.bal /\ t1.staked = t.staked /\ t1.delband = t.delband /\ t1.strays = t.strays
  BY <1>4, TablesIs DEF AllBut, Fields
<1>7. OrdersOK(t1.orders)
  BY <1>3, <1>4, <1>5 DEF OrdersOK
<1>8. \A v \in Users : ProceedsOf(t1.orders, v) = ProceedsOf(t.orders, v) /\ ChangeOf(t1.orders, v) = ChangeOf(t.orders, v)
  BY <1>1, <1>3, <1>4, <1>5 DEF OrdersOK, ProceedsOf, ChangeOf
<1>9. ProceedsOf(t.orders, u) = 0
  BY <1>1, <1>3 DEF OrdersOK, ProceedsOf
<1> HIDE DEF t, t1, x, o1
<1>10. x = x - (ProceedsOf(t1.orders, u) - ProceedsOf(t.orders, u))
  BY <1>2, <1>8, <1>9
<1>11. Sound(t1, x)
  BY <1>2, <1>3, <1>4, <1>7, <1>8, <1>10, OrdersMoved
<1>12. Covers(t1.orders, t1.bal)
  BY <1>3, <1>4, <1>5, <1>6 DEF Good, Covers
<1>13. StakeOK(t1.staked, t1.delband, t1.bal, t1.orders, t1.strays, NoDebt)
  BY <1>3, <1>6, <1>8 DEF Good, StakeOK
<1>14. Good(t1, x, NoDebt)
  BY <1>11, <1>12, <1>13 DEF Good
<1>15. NotCheaper(rexpool, rexpool)
  BY InvTables, SameValue
<1>16. ReadyAside(t1)
  BY <1>6, <1>14, <1>15 DEF ReadyAside, x
<1> QED
  BY <1>1, <1>16, CommitAsideKeeps

\* The row of u becomes c, which has the same REX.
RowSet(t, u, c) == [t EXCEPT !.bal[u] = c]

LEMMA RowSetGood ==
  ASSUME ClockOK, NEW t, NEW x \in Int, NEW d, Good(t, x, d), NEW u \in DOMAIN t.bal, NEW c, HolderOK(c), SameTotals(t.bal[u], c),
         \A time \in Int : now <= time /\ time < get_rex_maturity => Young(c, time) >= Young(t.bal[u], time),
         rex_in_sell_order(t, u) <= c.matured_rex, NEW t1, t1 = RowSet(t, u, c)
  PROVE  /\ Good(t1, x, d) /\ AllBut(t, t1, {"bal"}) /\ DOMAIN t1.bal = DOMAIN t.bal /\ t1.bal[u] = c
         /\ t1.pool = t.pool /\ t1.init = t.init /\ t1.fee = t.fee /\ t1.orders = t.orders
<1>1. DOMAIN t = Fields
  BY DEF Good, Sound, Shape
<1>2. AllBut(t, t1, {"bal"}) /\ t1.bal = [t.bal EXCEPT ![u] = c]
  BY <1>1 DEF AllBut, Fields, RowSet
<1>3. DOMAIN t1.bal = DOMAIN t.bal /\ t1.bal[u] = c /\ \A v \in DOMAIN t.bal \ {u} : t1.bal[v] = t.bal[v]
  BY <1>2
<1>4. /\ HolderOK(t1.bal[u]) /\ SameTotals(t.bal[u], t1.bal[u]) /\ rex_in_sell_order(t, u) <= t1.bal[u].matured_rex
      /\ \A time \in Int : now <= time /\ time < get_rex_maturity => Young(t1.bal[u], time) >= Young(t.bal[u], time)
  BY <1>3
<1>5. Good(t1, x, d)
  BY <1>2, <1>3, <1>4, GoodRow
<1> QED
  BY <1>2, <1>3, <1>5 DEF AllBut, Fields

\* What is asked for in the open order of u is covered.
LEMMA InOrder ==
  ASSUME NEW t, NEW x, NEW d, Good(t, x, d), NEW u \in DOMAIN t.bal
  PROVE  /\ rex_in_sell_order(t, u) \in Nat /\ t.bal[u].matured_rex \in Nat /\ rex_in_sell_order(t, u) <= t.bal[u].matured_rex
         /\ HolderOK(t.bal[u]) /\ Ordered(t.bal[u]) /\ u \in Users
<1>1. HolderOK(t.bal[u]) /\ Ordered(t.bal[u]) /\ t.bal[u].matured_rex \in Nat /\ u \in Users
  BY DEF Good, Sound, BalOK, HolderOK, Ordered, RexRow
<1>2. u \in Open(t) => t.orders[u].rex_requested \in Nat /\ t.orders[u].rex_requested <= t.bal[u].matured_rex
  BY DEF Good, Covers, Open, Sound, OrdersOK, Order
<1> QED
  BY <1>1, <1>2 DEF rex_in_sell_order

LEMMA MatureGood ==
  ASSUME ClockOK, NEW t, NEW x \in Int, NEW d, Good(t, x, d), NEW u \in DOMAIN t.bal, NEW t1, t1 = MatureOf(t, u)
  PROVE  /\ Good(t1, x, d) /\ DOMAIN t1.bal = DOMAIN t.bal
         /\ t1.pool = t.pool /\ t1.init = t.init /\ t1.fee = t.fee /\ t1.orders = t.orders
<1> DEFINE b == t.bal[u]
           c == process_rex_maturities(b)
<1>1. HolderOK(b) /\ Ordered(b) /\ rex_in_sell_order(t, u) <= b.matured_rex /\ rex_in_sell_order(t, u) \in Nat
  BY InOrder
<1> HIDE DEF b
<1>2. /\ Ordered(c) /\ SameTotals(b, c) /\ AllRex(c) = AllRex(b) /\ c.matured_rex >= b.matured_rex
      /\ \A time \in Int : time >= now => Young(c, time) = Young(b, time)
  BY <1>1, MatureKeeps
<1>3. t1 = RowSet(t, u, c)
  BY DEF MatureOf, RowSet, b
<1> HIDE DEF c
<1>4. HolderOK(c)
  BY <1>1, <1>2 DEF HolderOK, SameTotals
<1>5. \A time \in Int : now <= time /\ time < get_rex_maturity => Young(c, time) >= Young(b, time)
  <2> TAKE time \in Int
  <2> HAVE now <= time /\ time < get_rex_maturity
  <2>1. Young(b, time) \in Nat /\ now \in Nat
    BY <1>1, RowTypes, MaturityIs
  <2>2. Young(c, time) = Young(b, time)
    BY <1>2, <2>1
  <2> QED
    BY <2>1, <2>2
<1>6. rex_in_sell_order(t, u) <= c.matured_rex
  <2>1. b.matured_rex \in Nat /\ c.matured_rex \in Nat
    BY <1>1, <1>2 DEF Ordered, RexRow
  <2> QED
    BY <1>1, <1>2, <2>1
<1>7. /\ SameTotals(t.bal[u], c) /\ \A time \in Int : now <= time /\ time < get_rex_maturity => Young(c, time) >= Young(t.bal[u], time)
  BY <1>2, <1>5 DEF b
<1> QED
  BY <1>3, <1>4, <1>6, <1>7, RowSetGood

\* The votes and the cover after u has sold REX in the step t -> t1.
LEMMA SoldStake ==
  ASSUME NEW t, NEW x, NEW y, Good(t, x, NoDebt), NEW t1, Sound(t1, y), AllBut(t, t1, {"pool", "bal"}), NEW u \in DOMAIN t.bal,
         DOMAIN t1.bal = DOMAIN t.bal, \A v \in DOMAIN t.bal \ {u} : t1.bal[v] = t.bal[v],
         NEW change, change = t1.bal[u].vote_stake - t.bal[u].vote_stake
  PROVE  change \in Int /\ StakeOK(t1.staked, t1.delband, t1.bal, t1.orders, t1.strays, Debt(u, change))
<1>0. Sound(t, x) /\ StakeOK(t.staked, t.delband, t.bal, t.orders, t.strays, NoDebt) /\ u \in Users
  BY DEF Good, Sound, BalOK
<1>1. t1.staked = t.staked /\ t1.delband = t.delband /\ t1.orders = t.orders /\ t1.strays = t.strays
  BY DEF AllBut, Fields
<1>2. \A v \in Users \ {u} : StakeIn(t1.bal, v) = StakeIn(t.bal, v)
  BY DEF StakeIn
<1>3. StakeIn(t1.bal, u) \in Nat /\ StakeIn(t.bal, u) \in Nat /\ change = StakeIn(t1.bal, u) - StakeIn(t.bal, u)
  BY <1>0, StakeTypes DEF StakeIn
<1>4. StakeOK(t1.staked, t1.delband, t1.bal, t1.orders, t1.strays, Debt(u, change))
  <2> SUFFICES ASSUME NEW v \in Users
               PROVE  t.staked[v] + Debt(u, change)[v]
                        = t.delband[v]["net"] + t.delband[v]["cpu"] + StakeIn(t1.bal, v) + t.strays[v] - ChangeOf(t.orders, v)
    BY <1>1 DEF StakeOK
  <2>1. t.staked[v] + 0 = t.delband[v]["net"] + t.delband[v]["cpu"] + StakeIn(t.bal, v) + t.strays[v] - ChangeOf(t.orders, v)
    BY <1>0 DEF StakeOK, NoDebt
  <2>2. /\ t.delband[v]["net"] \in Nat /\ t.delband[v]["cpu"] \in Nat /\ t.strays[v] \in Int /\ t.staked[v] \in Int
        /\ StakeIn(t.bal, v) \in Nat /\ ChangeOf(t.orders, v) \in Int
    BY <1>0, StakeTypes
  <2>3. Debt(u, change)[v] = (IF v = u THEN change ELSE 0)
    BY DEF Debt
  <2>4. CASE v = u
    <3> DEFINE e == t.staked[v]
               a == t.delband[v]["net"]
               b == t.delband[v]["cpu"]
               s == StakeIn(t.bal, v)
               s1 == StakeIn(t1.bal, v)
               r == t.strays[v]
               g == ChangeOf(t.orders, v)
    <3>1. /\ e \in Int /\ a \in Nat /\ b \in Nat /\ r \in Int /\ s \in Nat /\ g \in Int /\ e + 0 = a + b + s + r - g
          /\ s1 \in Nat /\ change = s1 - s /\ Debt(u, change)[v] = change
      BY <1>3, <2>1, <2>2, <2>3, <2>4
    <3> HIDE DEF e, a, b, r, g, s, s1
    <3>2. e + change = a + b + s1 + r - g
      BY <3>1
    <3> QED
      BY <3>1, <3>2 DEF e, a, b, r, g, s1
  <2>5. CASE v # u
    BY <1>2, <2>1, <2>2, <2>3, <2>5
  <2> QED
    BY <2>4, <2>5
<1> QED
  BY <1>3, <1>4

\* A sale that is filled at once.
LEMMA SellFilledKeeps ==
  ASSUME RexInv, NEW t, Ready(t), NEW u \in DOMAIN t.bal, NEW rex \in Nat \ {0}, rex <= t.bal[u].matured_rex, SellFilled(t, u, rex)
  PROVE  RexInv' /\ NotCheaper(rexpool, rexpool')
<1> DEFINE x  == Returns
           tf == fill_rex_order(t, u, rex)
           p  == Value(t, rex)
           change == tf.bal[u].vote_stake - t.bal[u].vote_stake
           t1 == update_rex_account(tf, u, p, change)
<1>1. Filled(t, rex) /\ Covered(t1, u, rex) /\ Commit(t1)
  BY DEF SellFilled, EndSale
<1>2. ClockOK /\ x \in Int /\ Good(t, x, NoDebt) /\ Sound(t, x) /\ u \in Users /\ t.pool \in PoolRow
  BY DueIs DEF Ready, Good, Sound, BalOK, PoolOK
<1>3. tf = fill_rex_order(t, u, rex) /\ p = Value(t, rex) /\ change = tf.bal[u].vote_stake - t.bal[u].vote_stake
      /\ t1 = update_rex_account(tf, u, p, change) /\ x = Returns
  OBVIOUS
<1> HIDE DEF tf, p, change, t1, x
<1>4. /\ p \in Nat /\ Sound(tf, x + p) /\ AllBut(t, tf, {"pool", "bal"})
      /\ DOMAIN tf.bal = DOMAIN t.bal /\ \A v \in DOMAIN t.bal \ {u} : tf.bal[v] = t.bal[v]
      /\ tf.bal[u].matured_rex = t.bal[u].matured_rex - rex
      /\ Dearer(t.pool, tf.pool)
  BY <1>1, <1>2, <1>3, FillKeeps
<1>5. PICK y \in Int : y = x + p
  BY <1>2, <1>4
<1>6. Sound(tf, y)
  BY <1>4, <1>5
<1>7. change \in Int /\ StakeOK(tf.staked, tf.delband, tf.bal, tf.orders, tf.strays, Debt(u, change))
  BY <1>2, <1>3, <1>4, <1>6, SoldStake
<1>8. /\ Sound(t1, y - p) /\ AllBut(tf, t1, {"funds", "orders", "staked"})
      /\ StakeOK(t1.staked, t1.delband, t1.bal, t1.orders, t1.strays, Debt(u, change - change))
      /\ DOMAIN t1.orders \subseteq DOMAIN tf.orders /\ \A v \in DOMAIN t1.orders : t1.orders[v] = tf.orders[v]
  BY <1>2, <1>3, <1>4, <1>6, <1>7, AccountKeeps
<1>9. y - p = x /\ change - change = 0 /\ Debt(u, 0) = NoDebt
  BY <1>2, <1>4, <1>5, <1>7 DEF Debt, NoDebt
<1>10. t1.bal = tf.bal /\ t1.pool = tf.pool /\ t1.init = t.init /\ t1.fee = t.fee /\ tf.orders = t.orders
  BY <1>4, <1>8 DEF AllBut, Fields
<1>11. Covers(t1.orders, t1.bal)
  <2> SUFFICES ASSUME NEW v \in DOMAIN t1.orders, t1.orders[v].is_open
               PROVE  v \in DOMAIN t1.bal /\ t1.orders[v].rex_requested <= t1.bal[v].matured_rex
    BY DEF Covers
  <2>1. CASE v = u
    BY <1>1, <1>4, <1>10, <2>1 DEF Covered, rex_in_sell_order, Open
  <2>2. CASE v # u
    BY <1>2, <1>4, <1>8, <1>10, <2>2 DEF Good, Covers
  <2> QED
    BY <2>1, <2>2
<1>12. Good(t1, x, NoDebt)
  BY <1>8, <1>9, <1>11 DEF Good
<1>13. tf.pool \in PoolRow /\ rexpool \in PoolRow /\ NotCheaper(rexpool, t.pool)
  BY <1>6, InvTables DEF Sound, PoolOK, Ready
<1>14. NotCheaper(rexpool, tf.pool)
  BY <1>2, <1>4, <1>13, NotCheaperChain
<1>15. Ready(t1)
  BY <1>10, <1>12, <1>14 DEF Ready, x
<1> QED
  BY <1>1, <1>15, CommitKeeps

\* A sale that has to wait.
LEMMA SellQueuedKeeps ==
  ASSUME RexInv, NEW t, Ready(t), NEW u \in DOMAIN t.bal, NEW rex \in Nat \ {0}, SellQueued(t, u, rex)
  PROVE  RexInv' /\ NotCheaper(rexpool, rexpool')
<1> DEFINE x  == Returns
           ta == update_rex_account(t, u, 0, 0)
           t1 == Enqueue(ta, u, rex)
           o  == ta.orders
           r  == [rex_requested |-> rex, proceeds |-> 0, stake_change |-> 0, order_time |-> now, is_open |-> TRUE]
<1>1. Covered(t1, u, rex) /\ Commit(t1)
  BY DEF SellQueued, EndSale
<1>2. x \in Int /\ Good(t, x, NoDebt) /\ u \in Users /\ now \in Nat
  BY DueIs, MaturityIs DEF Ready, Good, Sound, BalOK
<1>3. ta = update_rex_account(t, u, 0, 0) /\ t1 = Enqueue(ta, u, rex) /\ x = Returns
  OBVIOUS
<1> HIDE DEF ta, t1, x
<1>4. /\ Good(ta, x, NoDebt) /\ (u \in DOMAIN ta.orders => ta.orders[u].is_open)
      /\ ta.pool = t.pool /\ ta.init = t.init /\ ta.fee = t.fee /\ ta.bal = t.bal
  BY <1>2, <1>3, AccountOnly
<1>5. DOMAIN ta = Fields /\ OrdersOK(o) /\ Sound(ta, x) /\ Covers(o, ta.bal)
  BY <1>4 DEF Good, Sound, Shape
<1>6. /\ AllBut(ta, t1, {"orders"}) /\ DOMAIN t1.orders = DOMAIN o \cup {u} /\ \A v \in DOMAIN o \ {u} : t1.orders[v] = o[v]
      /\ t1.orders[u] \in Order /\ t1.orders[u].is_open /\ t1.orders[u].proceeds = 0 /\ t1.orders[u].stake_change = 0
  <2>1. CASE u \in DOMAIN o
    <3>1. o[u] \in Order /\ o[u].is_open /\ o[u].proceeds = 0 /\ o[u].stake_change = 0
      BY <1>4, <1>5, <2>1 DEF OrdersOK
    <3>2. t1 = [ta EXCEPT !.orders[u].rex_requested = @ + rex]
      BY <1>3, <2>1 DEF Enqueue
    <3>3. AllBut(ta, t1, {"orders"}) /\ t1.orders = [o EXCEPT ![u].rex_requested = @ + rex]
      BY <1>5, <3>2 DEF AllBut, Fields
    <3> DEFINE q == [o[u] EXCEPT !.rex_requested = @ + rex]
    <3>4. q \in Order /\ q.is_open = o[u].is_open /\ q.proceeds = o[u].proceeds /\ q.stake_change = o[u].stake_change
      <4>1. o[u].rex_requested + rex \in Nat \ {0}
        BY <3>1 DEF Order
      <4> QED
        BY <3>1, <4>1 DEF Order
    <3>5. t1.orders = [o EXCEPT ![u] = q]
      BY <3>3
    <3> HIDE DEF q
    <3>6. DOMAIN t1.orders = DOMAIN o \cup {u} /\ t1.orders[u] = q /\ \A v \in DOMAIN o \ {u} : t1.orders[v] = o[v]
      BY <2>1, <3>5
    <3> QED
      BY <3>1, <3>3, <3>4, <3>6
  <2>2. CASE u \notin DOMAIN o
    <3>1. t1 = [ta EXCEPT !.orders = Row(o, u, r)]
      BY <1>3, <2>2 DEF Enqueue
    <3>2. r \in Order /\ r.is_open = TRUE /\ r.proceeds = 0 /\ r.stake_change = 0
      BY <1>2 DEF Order
    <3> HIDE DEF r
    <3>3. AllBut(ta, t1, {"orders"}) /\ t1.orders = Row(o, u, r)
      BY <1>5, <3>1 DEF AllBut, Fields
    <3>4. DOMAIN t1.orders = DOMAIN o \cup {u} /\ t1.orders[u] = r /\ \A v \in DOMAIN o \ {u} : t1.orders[v] = o[v]
      BY <3>3 DEF Row
    <3> QED
      BY <3>2, <3>3, <3>4
  <2> QED
    BY <2>1, <2>2
<1>7. OrdersOK(t1.orders)
  BY <1>2, <1>5, <1>6 DEF OrdersOK
<1>8. \A v \in Users : ProceedsOf(t1.orders, v) = ProceedsOf(o, v) /\ ChangeOf(t1.orders, v) = ChangeOf(o, v)
  BY <1>4, <1>5, <1>6 DEF OrdersOK, ProceedsOf, ChangeOf
<1>9. ProceedsOf(o, u) = 0
  BY <1>4, <1>5 DEF OrdersOK, ProceedsOf
<1>10. x = x - (ProceedsOf(t1.orders, u) - ProceedsOf(o, u))
  BY <1>2, <1>8, <1>9
<1>11. Sound(t1, x)
  BY <1>2, <1>5, <1>6, <1>7, <1>8, <1>10, OrdersMoved
<1>12. /\ t1.pool = t.pool /\ t1.init = t.init /\ t1.fee = t.fee /\ t1.bal = t.bal
       /\ t1.staked = ta.staked /\ t1.delband = ta.delband /\ t1.strays = ta.strays
  BY <1>4, <1>6 DEF AllBut, Fields
<1>13. Covers(t1.orders, t1.bal)
  <2> SUFFICES ASSUME NEW v \in DOMAIN t1.orders, t1.orders[v].is_open
               PROVE  v \in DOMAIN t1.bal /\ t1.orders[v].rex_requested <= t1.bal[v].matured_rex
    BY DEF Covers
  <2>1. CASE v = u
    BY <1>1, <1>12, <2>1 DEF Covered, rex_in_sell_order, Open
  <2>2. CASE v # u
    BY <1>4, <1>5, <1>6, <1>12, <2>2 DEF Covers
  <2> QED
    BY <2>1, <2>2
<1>14. StakeOK(t1.staked, t1.delband, t1.bal, t1.orders, t1.strays, NoDebt)
  BY <1>4, <1>8, <1>12 DEF Good, StakeOK
<1>15. Good(t1, x, NoDebt)
  BY <1>11, <1>13, <1>14 DEF Good
<1>16. Ready(t1)
  BY <1>12, <1>15, ReadyMoved DEF x
<1> QED
  BY <1>1, <1>16, CommitKeeps

LEMMA SellrexKeeps ==
  ASSUME RexInv, NEW u \in Users, NEW rex \in Nat \ {0}, sellrex(u, rex)
  PROVE  RexInv' /\ NotCheaper(rexpool, rexpool')
<1> DEFINE tr == RunFirst(Tables)
           t  == MatureOf(tr, u)
           x  == Returns
<1>1. u \in DOMAIN rexbal /\ rex <= t.bal[u].matured_rex /\ (SellFilled(t, u, rex) \/ SellQueued(t, u, rex))
  BY DEF sellrex, SellFrom
<1>2. Ready(tr) /\ u \in DOMAIN tr.bal
  BY <1>1, RanFirst
<1>3. ClockOK /\ x \in Int /\ Good(tr, x, NoDebt)
  BY <1>2, DueIs DEF Ready
<1>4. t = MatureOf(tr, u) /\ x = Returns
  OBVIOUS
<1> HIDE DEF t, tr, x
<1>5. /\ Good(t, x, NoDebt) /\ DOMAIN t.bal = DOMAIN tr.bal
      /\ t.pool = tr.pool /\ t.init = tr.init /\ t.fee = tr.fee
  BY <1>2, <1>3, <1>4, MatureGood
<1>6. Ready(t) /\ u \in DOMAIN t.bal
  BY <1>2, <1>5, ReadyMoved DEF x
<1>7. CASE SellFilled(t, u, rex)
  BY <1>1, <1>6, <1>7, SellFilledKeeps
<1>8. CASE SellQueued(t, u, rex)
  BY <1>6, <1>8, SellQueuedKeeps
<1> QED
  BY <1>1, <1>7, <1>8

\* The row of a new loan.
NewLoan(from, receiver, payment, fund, rented, num) ==
    [from |-> from, receiver |-> receiver, payment |-> payment, balance |-> fund, total_staked |-> rented,
     loan_num |-> num, expiration |-> now + loan_length]

\* The tables with a new loan, its payment and its fund already taken.
LentTo(t, k, nl) ==
    update_resource_limits([WithNewLoan(t, nl.payment, nl.total_staked) EXCEPT !.loans[k] = @ \cup {nl}],
                           nl.receiver, k, nl.total_staked)

LEMMA LentKeeps ==
  ASSUME NEW t, NEW y \in Int, Sound(t, y), NEW k \in Kinds, NEW nl \in Loan, nl.loan_num = t.pool.loan_num + 1,
         nl.total_staked <= t.pool.total_unlent, t.pool.total_rex > 0,
         NEW t1, t1 = LentTo(t, k, nl), NEW x \in Int, x = y - nl.payment - nl.balance
  PROVE  Sound(t1, x) /\ LoanStep(t, t1)
<1> DEFINE L  == t.loans[k]
           n  == t.pool.loan_num
           M  == L \cup {nl}
           ta == WithNewLoan(t, nl.payment, nl.total_staked)
           tl == [ta EXCEPT !.loans[k] = M]
           delta == nl.total_staked
<1>1. /\ KindOK(L, n) /\ t.pool \in PoolRow /\ DOMAIN t = Fields /\ t.totals \in [Users -> [Kinds -> Int]]
      /\ DOMAIN t.loans = Kinds /\ t.fee \in Nat
  BY DEF Sound, LoansOK, Shape, PoolOK, ResOK
<1>2. /\ nl.receiver \in Users /\ nl.payment \in Nat \ {0} /\ nl.balance \in Nat /\ nl.total_staked \in Nat \ {0} /\ delta \in Int
  BY LoanTypes
<1>3. /\ AllBut(t, ta, {"pool", "fee"}) /\ ta.pool \in PoolRow /\ ta.fee = t.fee + nl.payment
      /\ ta.pool.total_unlent = t.pool.total_unlent - delta
      /\ ta.pool.total_lent = t.pool.total_lent + delta
      /\ ta.pool.total_lendable = t.pool.total_lendable /\ ta.pool.total_rex = t.pool.total_rex
      /\ ta.pool.loan_num = t.pool.loan_num + 1
  <2>1. nl.payment \in Nat /\ nl.total_staked \in Nat
    BY <1>2
  <2>2. ta = WithNewLoan(t, nl.payment, nl.total_staked)
    OBVIOUS
  <2> HIDE DEF ta
  <2> QED
    BY <1>1, <2>1, <2>2, NewLoanIs
<1>4. DOMAIN ta = Fields /\ ta.loans = t.loans /\ ta.totals = t.totals
  BY <1>1, <1>3 DEF AllBut, Fields
<1>5. t1 = update_resource_limits(tl, nl.receiver, k, delta)
  BY <1>4 DEF LentTo
<1> HIDE DEF ta
<1>6. AllBut(ta, tl, {"loans"}) /\ tl.loans = [t.loans EXCEPT ![k] = M] /\ DOMAIN tl = Fields
  BY <1>4 DEF AllBut, Fields
<1>7. tl.totals = t.totals /\ tl.pool = ta.pool /\ tl.fee = ta.fee
  BY <1>4, <1>6 DEF AllBut, Fields
<1> HIDE DEF tl, M, delta
<1>8. /\ AllBut(tl, t1, {"totals"}) /\ t1.totals \in [Users -> [Kinds -> Int]]
      /\ \A u \in Users, j \in Kinds : t1.totals[u][j] = tl.totals[u][j] + (IF u = nl.receiver /\ j = k THEN delta ELSE 0)
  <2> DEFINE r == nl.receiver
  <2>1. r \in Users /\ delta \in Int /\ DOMAIN tl = Fields /\ tl.totals \in [Users -> [Kinds -> Int]]
        /\ t1 = update_resource_limits(tl, r, k, delta)
    BY <1>1, <1>2, <1>5, <1>6, <1>7 DEF delta
  <2> HIDE DEF r
  <2>2. Limited(tl, t1, r, k, delta)
    BY <2>1, LimitsIs
  <2> QED
    BY <2>2 DEF r, Limited
<1>9. AllBut(t, t1, {"pool", "loans", "totals", "fee"})
  <2>1. AllBut(ta, t1, {"pool", "loans", "totals", "fee"})
    BY <1>6, <1>8, AllButChain
  <2> QED
    BY <1>3, <2>1, AllButChain
<1>10. t1.loans = [t.loans EXCEPT ![k] = M] /\ t1.pool = ta.pool /\ t1.fee = t.fee + nl.payment
  BY <1>3, <1>6, <1>7, <1>8 DEF AllBut, Fields
<1>11. /\ IsFiniteSet(L) /\ L \subseteq Loan /\ (\A m \in L : m.loan_num <= n)
       /\ \A m, o \in L : m.loan_num = o.loan_num => m = o
  BY <1>1 DEF KindOK
<1>12. n \in Nat /\ nl.loan_num = n + 1 /\ \A m \in Loan : m.loan_num \in Nat
  BY <1>1, PoolTypes, LoanTypes
<1>13. nl \notin L
  BY <1>11, <1>12
<1>14. /\ IsFiniteSet(M) /\ M \subseteq Loan
       /\ Col(M, "total_staked") = Col(L, "total_staked") + delta
       /\ Col(M, "balance") = Col(L, "balance") + nl.balance
       /\ \A u \in Users : Received(M, u) = Received(L, u) + (IF u = nl.receiver THEN delta ELSE 0)
  BY <1>11, <1>13, LoanIn DEF M, delta
<1>15. KindOK(M, t1.pool.loan_num)
  <2>1. t1.pool.loan_num = n + 1
    BY <1>10, <1>3
  <2>2. \A m \in M : m.loan_num <= n + 1
    BY <1>11, <1>12 DEF M
  <2>3. \A m, o \in M : m.loan_num = o.loan_num => m = o
    BY <1>11, <1>12 DEF M
  <2> QED
    BY <2>1, <2>2, <2>3, <1>14 DEF KindOK
<1>16. \A m \in M : \A j \in Kinds \ {k} : \A o \in t.loans[j] : o.loan_num # m.loan_num
  <2>1. \A m \in L : \A j \in Kinds \ {k} : \A o \in t.loans[j] : o.loan_num # m.loan_num
    BY DEF Sound, LoansOK, Kinds
  <2>2. \A j \in Kinds : \A o \in t.loans[j] : o.loan_num \in Nat /\ o.loan_num <= n
    BY <1>12 DEF Sound, LoansOK, KindOK
  <2>3. \A j \in Kinds : \A o \in t.loans[j] : o.loan_num # nl.loan_num
    BY <1>12, <2>2
  <2> QED
    BY <2>1, <2>3 DEF M
<1>17. x = y - (t1.fee - t.fee) - (Col(M, "balance") - Col(L, "balance"))
  <2>1. Col(L, "balance") \in Nat
    <3>1. \A m \in L : m["balance"] \in Nat
      BY <1>11, LoanTypes
    <3> QED
      BY <1>11, <3>1, ColType
  <2> QED
    BY <1>1, <1>2, <1>10, <1>14, <2>1
<1>18. /\ t1.pool \in PoolRow /\ t1.pool.total_lent = t.pool.total_lent + delta
       /\ t1.pool.total_unlent = t.pool.total_unlent - delta /\ t1.pool.total_lendable = t.pool.total_lendable
       /\ t1.pool.total_rex = t.pool.total_rex /\ t1.pool.loan_num >= t.pool.loan_num
       /\ ~(t.pool.total_rex = 0)
  BY <1>1, <1>3, <1>10, <1>12, PoolTypes
<1>19. t1.fee \in Nat
  BY <1>1, <1>2, <1>10
<1>20. \A u \in Users, j \in Kinds : t1.totals[u][j] = t.totals[u][j] + (IF u = nl.receiver /\ j = k THEN delta ELSE 0)
  BY <1>7, <1>8
<1> HIDE DEF n
<1>21. Sound(t1, x)
  <2>1. t.pool.total_rex = 0 => delta <= 0
    BY <1>18
  <2>2. LoansChange(t, t1, y, x, k, M, nl.receiver, delta)
    BY <1>2, <1>8, <1>9, <1>10, <1>14, <1>15, <1>16, <1>17, <1>18, <1>19, <1>20, <2>1 DEF LoansChange
  <2> QED
    BY <2>2, LoansMoved
<1>22. LoanStep(t, t1)
  <2>1. AllBut(t, t1, LoanFields)
    BY <1>9 DEF AllBut, LoanFields
  <2> QED
    BY <1>18, <2>1 DEF LoanStep
<1> QED
  BY <1>21, <1>22

LEMMA RentKeeps ==
  ASSUME RexInv, NEW k \in Kinds, NEW from \in Users, NEW receiver \in Users, NEW payment \in Nat \ {0}, NEW fund \in Nat,
         rent_rex(k, from, receiver, payment, fund)
  PROVE  RexInv' /\ NotCheaper(rexpool, rexpool')
<1> DEFINE t  == RunFirst(Tables)
           rented == Rented(t, payment)
           tf == transfer_from_fund(t, from, payment + fund)
           nl == NewLoan(from, receiver, payment, fund, rented, t.pool.loan_num + 1)
           t1 == Lend(t, k, from, receiver, payment, fund, rented)
           x  == Returns
           y  == x + (payment + fund)
<1>1. /\ rex_loans_available(t) /\ HasFund(t, from, payment + fund) /\ payment < rented /\ Commit(t1)
  BY DEF rent_rex, RentFrom
<1>2. Ready(t) /\ x \in Int /\ y \in Int /\ y = x + (payment + fund) /\ payment + fund \in Nat
  BY RanFirst, DueIs
<1>3. t1 = LentTo(tf, k, nl)
  BY DEF Lend, LentTo, WithNewLoan, NewLoan
<1>4. tf = transfer_from_fund(t, from, payment + fund) /\ rented = Rented(t, payment) /\ x = Returns
  OBVIOUS
<1>5. nl = NewLoan(from, receiver, payment, fund, rented, t.pool.loan_num + 1)
  OBVIOUS
<1> HIDE DEF t, rented, tf, nl, t1, x, y
<1>6. Good(t, x, NoDebt) /\ t.pool \in PoolRow
  BY <1>2, <1>4 DEF Ready, Good, Sound, PoolOK
<1>7. Good(tf, y, NoDebt) /\ AllBut(t, tf, {"funds"})
  BY <1>1, <1>2, <1>4, <1>6, FundOutGood
<1>8. tf.pool = t.pool /\ tf.init = t.init
  BY <1>7 DEF AllBut, Fields
<1>9. rented \in Nat \ {0} /\ rented <= t.pool.total_unlent /\ t.pool.loan_num \in Nat /\ t.pool.total_rex > 0
  <2>1. t.pool.total_rent \in Nat /\ t.pool.total_unlent \in Nat /\ t.pool.loan_num \in Nat
    BY <1>6, PoolTypes
  <2>2. rented \in Nat /\ rented <= t.pool.total_unlent
    BY <2>1, <1>4, Bancor DEF Rented
  <2> QED
    BY <1>1, <2>1, <2>2 DEF rex_loans_available, rex_available
<1>10. /\ nl \in Loan /\ nl.loan_num = t.pool.loan_num + 1 /\ nl.total_staked = rented /\ nl.payment = payment /\ nl.balance = fund
  <2>1. now + loan_length \in Nat
    BY DueIs, Consts DEF ClockOK, loan_length
  <2> HIDE DEF loan_length
  <2> QED
    BY <1>5, <1>9, <2>1 DEF NewLoan, Loan
<1>11. x = y - nl.payment - nl.balance
  BY <1>2, <1>10
<1>12. Sound(t1, x) /\ LoanStep(tf, t1)
  <2>1. Sound(tf, y) /\ nl.total_staked <= tf.pool.total_unlent /\ tf.pool.total_rex > 0 /\ nl.loan_num = tf.pool.loan_num + 1
    BY <1>7, <1>8, <1>9, <1>10 DEF Good
  <2> QED
    BY <1>2, <1>3, <1>10, <1>11, <2>1, LentKeeps
<1>13. Good(t1, x, NoDebt) /\ t1.init = t.init
  <2>1. AllBut(tf, t1, LoanFields \cup {"tokens"}) /\ t1.init = tf.init
    BY <1>12 DEF LoanStep, AllBut, LoanFields, Fields
  <2> QED
    BY <1>2, <1>7, <1>8, <1>12, <2>1, GoodMoved
<1>14. NotCheaper(rexpool, t1.pool)
  <2>1. t1.pool \in PoolRow /\ t1.pool.total_rex = t.pool.total_rex /\ t1.pool.total_lendable = t.pool.total_lendable
    BY <1>8, <1>12 DEF LoanStep, Sound, PoolOK
  <2>2. NotCheaper(rexpool, t.pool)
    BY <1>2 DEF Ready
  <2> QED
    BY <2>1, <2>2 DEF NotCheaper, Dearer
<1>15. t.init = TRUE
  BY <1>1, <1>6 DEF rex_loans_available, rex_available, Good, Sound, Shape
<1>16. Ready(t1)
  BY <1>4, <1>13, <1>14, <1>15 DEF Ready
<1> QED
  BY <1>1, <1>16, CommitKeeps

WithBalance(l, b) == [l EXCEPT !.balance = b]
\* The loan l of kind k has the balance b.
Balanced(t, k, l, b) == [t EXCEPT !.loans[k] = (@ \ {l}) \cup {WithBalance(l, b)}]

LEMMA BalancedKeeps ==
  ASSUME NEW t, NEW y \in Int, NEW d, Good(t, y, d), NEW k \in Kinds, NEW l \in t.loans[k], NEW b \in Nat,
         NEW t1, t1 = Balanced(t, k, l, b), NEW x \in Int, x = y - (b - l.balance)
  PROVE  Good(t1, x, d) /\ AllBut(t, t1, {"loans"})
<1> DEFINE L  == t.loans[k]
           n  == t.pool.loan_num
           nl == WithBalance(l, b)
           M  == (L \ {l}) \cup {nl}
<1>0. Sound(t, y)
  BY DEF Good
<1>1. l \in Loan /\ KindOK(L, n) /\ t.pool \in PoolRow /\ DOMAIN t = Fields /\ t.totals \in [Users -> [Kinds -> Int]]
  BY <1>0, LoanOf
<1>2. /\ l.receiver \in Users /\ l.balance \in Nat /\ l.total_staked \in Nat \ {0}
  BY <1>1, LoanTypes
<1>3. nl \in Loan /\ nl.loan_num = l.loan_num /\ nl.receiver = l.receiver /\ nl.total_staked = l.total_staked /\ nl.balance = b
  BY <1>1 DEF WithBalance, Loan
<1>4. t1 = [t EXCEPT !.loans[k] = M] /\ DOMAIN t.loans = Kinds /\ t.fee \in Nat
  BY <1>0 DEF Balanced, Sound, LoansOK, Shape
<1> HIDE DEF nl
<1>5. /\ IsFiniteSet(L) /\ L \subseteq Loan /\ (\A m \in L : m.loan_num <= n)
      /\ \A m, o \in L : m.loan_num = o.loan_num => m = o
  BY <1>1 DEF KindOK
<1>6. nl \notin L \ {l}
  BY <1>3, <1>5
<1>7. /\ IsFiniteSet(L \ {l}) /\ L \ {l} \subseteq Loan
      /\ Col(L \ {l}, "total_staked") = Col(L, "total_staked") - l.total_staked
      /\ Col(L \ {l}, "balance") = Col(L, "balance") - l.balance
      /\ Col(L, "total_staked") \in Nat /\ Col(L, "balance") \in Nat
      /\ \A u \in Users : /\ Received(L \ {l}, u) = Received(L, u) - (IF u = l.receiver THEN l.total_staked ELSE 0)
                          /\ Received(L, u) \in Nat
  BY <1>5, LoanOut
<1>8. /\ IsFiniteSet(M) /\ M \subseteq Loan
      /\ Col(M, "total_staked") = Col(L \ {l}, "total_staked") + l.total_staked
      /\ Col(M, "balance") = Col(L \ {l}, "balance") + b
      /\ \A u \in Users : Received(M, u) = Received(L \ {l}, u) + (IF u = l.receiver THEN l.total_staked ELSE 0)
  <2> DEFINE R == L \ {l}
  <2>1. IsFiniteSet(R) /\ R \subseteq Loan /\ nl \in Loan /\ nl \notin R
    BY <1>3, <1>6, <1>7
  <2> HIDE DEF R
  <2>2. /\ IsFiniteSet(R \cup {nl}) /\ R \cup {nl} \subseteq Loan
        /\ Col(R \cup {nl}, "total_staked") = Col(R, "total_staked") + nl.total_staked
        /\ Col(R \cup {nl}, "balance") = Col(R, "balance") + nl.balance
        /\ \A u \in Users : Received(R \cup {nl}, u) = Received(R, u) + (IF u = nl.receiver THEN nl.total_staked ELSE 0)
    BY <2>1, LoanIn
  <2> QED
    BY <1>3, <2>2 DEF R
<1>9. KindOK(M, n)
  <2>1. \A m \in M : m.loan_num <= n
    BY <1>3, <1>5
  <2>2. \A m, o \in M : m.loan_num = o.loan_num => m = o
    BY <1>3, <1>5
  <2> QED
    BY <2>1, <2>2, <1>8 DEF KindOK
<1>10. \A m \in M : \A j \in Kinds \ {k} : \A o \in t.loans[j] : o.loan_num # m.loan_num
  <2>1. \A m \in L : \A j \in Kinds \ {k} : \A o \in t.loans[j] : o.loan_num # m.loan_num
    BY <1>0 DEF Sound, LoansOK, Kinds
  <2> QED
    BY <2>1, <1>3
<1>11. PICK delta \in Int : delta = 0
  OBVIOUS
<1> HIDE DEF M
<1>12. Col(M, "total_staked") = Col(L, "total_staked") + delta
  BY <1>2, <1>7, <1>8, <1>11
<1>13. \A u \in Users : Received(M, u) = Received(L, u) + (IF u = l.receiver THEN delta ELSE 0)
  <2> SUFFICES ASSUME NEW u \in Users PROVE Received(M, u) = Received(L, u) + (IF u = l.receiver THEN delta ELSE 0)
    OBVIOUS
  <2>1. /\ Received(L \ {l}, u) = Received(L, u) - (IF u = l.receiver THEN l.total_staked ELSE 0)
        /\ Received(L, u) \in Nat
        /\ Received(M, u) = Received(L \ {l}, u) + (IF u = l.receiver THEN l.total_staked ELSE 0)
    BY <1>7, <1>8
  <2> QED
    BY <1>2, <1>11, <2>1
<1>14. AllBut(t, t1, {"loans"}) /\ t1.loans = [t.loans EXCEPT ![k] = M]
  BY <1>1, <1>4 DEF AllBut, Fields
<1>15. t1.pool = t.pool /\ t1.totals = t.totals /\ t1.fee = t.fee
  BY <1>14 DEF AllBut, Fields
<1>16. x = y - (t1.fee - t.fee) - (Col(M, "balance") - Col(L, "balance"))
  BY <1>2, <1>4, <1>7, <1>8, <1>15
<1>17. \A u \in Users, j \in Kinds : t1.totals[u][j] = t.totals[u][j] + (IF u = l.receiver /\ j = k THEN delta ELSE 0)
  BY <1>1, <1>11, <1>15
<1>18. /\ t1.pool.total_lent = t.pool.total_lent + delta /\ t1.pool.total_unlent = t.pool.total_unlent - delta
       /\ t1.pool.loan_num >= t.pool.loan_num /\ (t.pool.total_rex = 0 => delta <= 0)
  BY <1>1, <1>11, <1>15, PoolTypes
<1>19. AllBut(t, t1, {"pool", "loans", "totals", "fee"})
  BY <1>14 DEF AllBut
<1>20. KindOK(M, t1.pool.loan_num)
  BY <1>9, <1>15
<1> HIDE DEF n
<1>21. LoansChange(t, t1, y, x, k, M, l.receiver, delta)
  BY <1>1, <1>2, <1>4, <1>10, <1>12, <1>13, <1>14, <1>15, <1>16, <1>17, <1>18, <1>19, <1>20 DEF LoansChange
<1>22. Sound(t1, x)
  BY <1>0, <1>21, LoansMoved
<1>23. AllBut(t, t1, LoanFields \cup {"tokens"})
  BY <1>14 DEF AllBut, LoanFields
<1> QED
  BY <1>14, <1>22, <1>23, GoodMoved

\* What an action has written that does not touch the pool.
LEMMA AsideKeepsPool ==
  ASSUME RexInv, NEW t, Good(t, pool.proceeds, NoDebt), t.pool = rexpool, t.init = initialized, t.fee = 0, CommitAside(t)
  PROVE  RexInv' /\ NotCheaper(rexpool, rexpool')
<1>1. NotCheaper(rexpool, rexpool)
  BY InvTables, SameValue
<1>2. ReadyAside(t)
  BY <1>1 DEF ReadyAside
<1> QED
  BY <1>2, CommitAsideKeeps

LEMMA FundLoanKeeps ==
  ASSUME RexInv, NEW k \in Kinds, NEW l \in loans[k], NEW u \in Users, NEW a \in Nat, fund_rex_loan(k, l, u, a)
  PROVE  RexInv' /\ NotCheaper(rexpool, rexpool')
<1> DEFINE tf == transfer_from_fund(Tables, u, a)
           t1 == [tf EXCEPT !.loans[k] = (@ \ {l}) \cup {[l EXCEPT !.balance = @ + a]}]
           x  == pool.proceeds
           y  == x + a
           b  == l.balance + a
<1>1. HasFund(Tables, u, a) /\ CommitAside(t1)
  BY DEF fund_rex_loan
<1>2. x \in Int /\ y \in Int /\ y = x + a
  BY DueIs
<1>3. Good(Tables, x, NoDebt) /\ Sound(Tables, x)
  BY InvTables
<1>4. l \in Loan
  <2>1. l \in Tables.loans[k]
    BY TablesIs
  <2>2. Sound(Tables, x) /\ x \in Int
    BY <1>2, <1>3
  <2> HIDE DEF x
  <2> QED
    BY <2>1, <2>2, LoanOf
<1>5. l.balance \in Nat /\ b \in Nat
  BY <1>4, LoanTypes
<1>6. t1 = Balanced(tf, k, l, b)
  BY <1>4 DEF Balanced, WithBalance, Loan
<1>7. tf = transfer_from_fund(Tables, u, a) /\ x = pool.proceeds
  OBVIOUS
<1> HIDE DEF tf, t1, x, y
<1>8. Good(tf, y, NoDebt) /\ AllBut(Tables, tf, {"funds"})
  BY <1>1, <1>2, <1>3, <1>7, FundOutGood
<1>9. l \in tf.loans[k] /\ tf.pool = rexpool /\ tf.init = initialized /\ tf.fee = 0
  BY <1>8, TablesIs DEF AllBut, Fields
<1>10. x = y - (b - l.balance)
  BY <1>2, <1>5
<1> HIDE DEF b
<1>11. Good(t1, x, NoDebt) /\ AllBut(tf, t1, {"loans"})
  BY <1>2, <1>5, <1>6, <1>8, <1>9, <1>10, BalancedKeeps
<1>12. t1.pool = rexpool /\ t1.init = initialized /\ t1.fee = 0
  BY <1>9, <1>11 DEF AllBut, Fields
<1> QED
  BY <1>1, <1>7, <1>11, <1>12, AsideKeepsPool

LEMMA DefundLoanKeeps ==
  ASSUME RexInv, NEW k \in Kinds, NEW l \in loans[k], NEW u \in Users, NEW a \in Nat, defund_rex_loan(k, l, u, a)
  PROVE  RexInv' /\ NotCheaper(rexpool, rexpool')
<1> DEFINE tf == transfer_to_fund(Tables, u, a)
           t1 == [tf EXCEPT !.loans[k] = (@ \ {l}) \cup {[l EXCEPT !.balance = @ - a]}]
           x  == pool.proceeds
           y  == x - a
           b  == l.balance - a
<1>1. a <= l.balance /\ CommitAside(t1)
  BY DEF defund_rex_loan
<1>2. x \in Int /\ y \in Int /\ y = x - a
  BY DueIs
<1>3. Good(Tables, x, NoDebt) /\ Sound(Tables, x)
  BY InvTables
<1>4. l \in Loan
  <2>1. l \in Tables.loans[k]
    BY TablesIs
  <2>2. Sound(Tables, x) /\ x \in Int
    BY <1>2, <1>3
  <2> HIDE DEF x
  <2> QED
    BY <2>1, <2>2, LoanOf
<1>5. l.balance \in Nat /\ b \in Nat
  BY <1>1, <1>4, LoanTypes
<1>6. t1 = Balanced(tf, k, l, b)
  BY <1>4 DEF Balanced, WithBalance, Loan
<1>7. tf = transfer_to_fund(Tables, u, a) /\ x = pool.proceeds
  OBVIOUS
<1> HIDE DEF tf, t1, x, y
<1>8. Good(tf, y, NoDebt) /\ AllBut(Tables, tf, {"funds"})
  BY <1>2, <1>3, <1>7, FundInGood
<1>9. l \in tf.loans[k] /\ tf.pool = rexpool /\ tf.init = initialized /\ tf.fee = 0
  BY <1>8, TablesIs DEF AllBut, Fields
<1>10. x = y - (b - l.balance)
  BY <1>2, <1>5
<1> HIDE DEF b
<1>11. Good(t1, x, NoDebt) /\ AllBut(tf, t1, {"loans"})
  BY <1>2, <1>5, <1>6, <1>8, <1>9, <1>10, BalancedKeeps
<1>12. t1.pool = rexpool /\ t1.init = initialized /\ t1.fee = 0
  BY <1>9, <1>11 DEF AllBut, Fields
<1> QED
  BY <1>1, <1>7, <1>11, <1>12, AsideKeepsPool

LEMMA SetrexKeeps ==
  ASSUME RexInv, NEW n \in Nat, setrex(n)
  PROVE  RexInv' /\ NotCheaper(rexpool, rexpool')
<1> DEFINE x  == pool.proceeds
           t  == Tables
           t1 == [Tables EXCEPT !.pool.total_rent = n]
<1>1. CommitAside(t1)
  BY DEF setrex
<1>2. x \in Int /\ Good(t, x, NoDebt) /\ Sound(t, x) /\ t.pool \in PoolRow /\ x = pool.proceeds
  BY DueIs, InvTables, TablesIs
<1>3. AllBut(t, t1, {"pool"}) /\ t1.pool = [rexpool EXCEPT !.total_rent = n]
  BY TablesIs DEF AllBut, Fields
<1>4. rexpool \in PoolRow /\ t.pool = rexpool
  BY InvTables, TablesIs
<1>5. /\ t1.pool \in PoolRow /\ t1.pool.loan_num = rexpool.loan_num /\ t1.pool.total_rex = rexpool.total_rex
      /\ t1.pool.total_lent = rexpool.total_lent /\ t1.pool.total_lendable = rexpool.total_lendable
      /\ t1.pool.total_unlent = rexpool.total_unlent
  BY <1>3, <1>4 DEF PoolRow
<1>6. t1.init = initialized /\ t1.fee = 0
  BY <1>3, TablesIs DEF AllBut, Fields
<1>7. t.pool.total_lendable = t.pool.total_lent + t.pool.total_unlent
  BY <1>2 DEF Sound, PoolOK
<1> HIDE DEF t, t1, x
<1>8. x = x - (t1.pool.total_lendable - t.pool.total_lendable) /\ t1.pool.total_lendable = t1.pool.total_lent + t1.pool.total_unlent
  BY <1>2, <1>4, <1>5, <1>7, PoolTypes
<1>9. Sound(t1, x)
  BY <1>2, <1>3, <1>4, <1>5, <1>8, PoolMoved
<1>10. AllBut(t, t1, LoanFields \cup {"tokens"})
  BY <1>3 DEF AllBut, LoanFields
<1>11. Good(t1, x, NoDebt)
  BY <1>2, <1>9, <1>10, GoodMoved
<1>12. NotCheaper(rexpool, t1.pool)
  BY <1>4, <1>5, DearerSame, PoolTypes DEF NotCheaper
<1>13. ReadyAside(t1)
  BY <1>2, <1>6, <1>11, <1>12 DEF ReadyAside
<1> QED
  BY <1>1, <1>13, CommitAsideKeeps

LEMMA NamebidKeeps ==
  ASSUME RexInv, NEW bid \in Nat, channel_namebid_to_rex(bid)
  PROVE  RexInv' /\ NotCheaper(rexpool, rexpool')
<1> DEFINE x  == pool.proceeds
           t  == Tables
           t1 == [Tables EXCEPT !.pool.namebid_proceeds = @ + bid]
<1>1. CommitAside(t1)
  BY DEF channel_namebid_to_rex
<1>2. x \in Int /\ Good(t, x, NoDebt) /\ Sound(t, x) /\ t.pool \in PoolRow /\ x = pool.proceeds
  BY DueIs, InvTables, TablesIs
<1>3. AllBut(t, t1, {"pool"}) /\ t1.pool = [rexpool EXCEPT !.namebid_proceeds = rexpool.namebid_proceeds + bid]
  BY TablesIs DEF AllBut, Fields
<1>4. rexpool \in PoolRow /\ t.pool = rexpool /\ rexpool.namebid_proceeds + bid \in Nat
  BY InvTables, TablesIs, PoolTypes
<1>5. /\ t1.pool \in PoolRow /\ t1.pool.loan_num = rexpool.loan_num /\ t1.pool.total_rex = rexpool.total_rex
      /\ t1.pool.total_lent = rexpool.total_lent /\ t1.pool.total_lendable = rexpool.total_lendable
      /\ t1.pool.total_unlent = rexpool.total_unlent
  <2> DEFINE n == rexpool.namebid_proceeds + bid
  <2>1. n \in Nat /\ t1.pool = [rexpool EXCEPT !.namebid_proceeds = n]
    BY <1>3, <1>4
  <2> HIDE DEF n, t1
  <2> QED
    BY <1>4, <2>1 DEF PoolRow
<1>6. t1.init = initialized /\ t1.fee = 0
  BY <1>3, TablesIs DEF AllBut, Fields
<1>7. t.pool.total_lendable = t.pool.total_lent + t.pool.total_unlent
  BY <1>2 DEF Sound, PoolOK
<1> HIDE DEF t, t1, x
<1>8. x = x - (t1.pool.total_lendable - t.pool.total_lendable) /\ t1.pool.total_lendable = t1.pool.total_lent + t1.pool.total_unlent
  BY <1>2, <1>4, <1>5, <1>7, PoolTypes
<1>9. Sound(t1, x)
  BY <1>2, <1>3, <1>4, <1>5, <1>8, PoolMoved
<1>10. AllBut(t, t1, LoanFields \cup {"tokens"})
  BY <1>3 DEF AllBut, LoanFields
<1>11. Good(t1, x, NoDebt)
  BY <1>2, <1>9, <1>10, GoodMoved
<1>12. NotCheaper(rexpool, t1.pool)
  BY <1>4, <1>5, DearerSame, PoolTypes DEF NotCheaper
<1>13. ReadyAside(t1)
  BY <1>2, <1>6, <1>11, <1>12 DEF ReadyAside
<1> QED
  BY <1>1, <1>13, CommitAsideKeeps

LEMMA RamFeeKeeps ==
  ASSUME RexInv, NEW fee \in Nat, ram_fee(fee)
  PROVE  RexInv' /\ NotCheaper(rexpool, rexpool')
<1> DEFINE x  == pool.proceeds
           gain == Updated.unlent - unlent
           ta == update_rex_pool(Tables)
           t1 == channel_to_rex(ta, fee)
<1>1. Commit(t1) /\ rex_available(Tables)
  BY DEF ram_fee
<1>2. x \in Int /\ Good(Tables, x, NoDebt) /\ gain \in Nat /\ Returns = x - gain /\ Returns \in Int
  BY DueIs, InvTables
<1>3. ta = AddReturns(Tables, gain) /\ t1 = channel_to_rex(ta, fee)
  BY DEF update_rex_pool
<1> HIDE DEF x, gain, ta, t1
<1>4. Good(ta, Returns, NoDebt) /\ RunStep(Tables, ta) /\ ta.init = Tables.init
  BY <1>2, <1>3, ReturnsKeep
<1>5. Good(t1, Returns, NoDebt) /\ AllBut(ta, t1, {"fee", "tokens"})
  BY <1>2, <1>3, <1>4, ChannelKeeps
<1>6. t1.pool = ta.pool /\ t1.init = ta.init
  BY <1>5 DEF AllBut, Fields
<1>7. t1.init = TRUE
  BY <1>1, <1>4, <1>5, <1>6 DEF rex_available, Good, Sound, Shape
<1>8. NotCheaper(rexpool, t1.pool)
  BY <1>4, <1>6, TablesIs DEF RunStep, NotCheaper
<1>9. Ready(t1)
  BY <1>5, <1>7, <1>8 DEF Ready
<1> QED
  BY <1>1, <1>9, CommitKeeps

LEMMA RexexecKeeps ==
  ASSUME RexInv, NEW max \in Nat, rexexec(max)
  PROVE  RexInv' /\ NotCheaper(rexpool, rexpool')
<1> DEFINE t == runrex(Tables, max)
<1>1. Commit(t) /\ initialized /\ t = runrex(Tables, max)
  BY DEF rexexec
<1> HIDE DEF t
<1>2. Ready(t)
  BY <1>1, Ran
<1> QED
  BY <1>1, <1>2, CommitKeeps

LEMMA ConsolidateKeeps ==
  ASSUME RexInv, NEW u \in Users, consolidate(u)
  PROVE  RexInv' /\ NotCheaper(rexpool, rexpool')
<1> DEFINE t  == Collected(u)
           b  == t.bal[u]
           n  == rex_in_sell_order(t, u)
           c  == consolidate_rex_balance(b, n)
           t1 == RowSet(t, u, c)
           x  == Returns
<1>1. u \in DOMAIN rexbal /\ ConsolidateFrom(t, u)
  BY DEF consolidate
<1>2. Ready(t) /\ DOMAIN t.bal = DOMAIN rexbal /\ x \in Int /\ ClockOK /\ x = Returns
  BY CollectedReady, DueIs
<1>3. c = consolidate_rex_balance(b, n) /\ n = rex_in_sell_order(t, u) /\ b = t.bal[u] /\ t1 = RowSet(t, u, c)
  OBVIOUS
<1> HIDE DEF t, x
<1>4. Good(t, x, NoDebt) /\ u \in DOMAIN t.bal /\ DOMAIN t = Fields
  BY <1>1, <1>2 DEF Ready, Good, Sound, Shape
<1>5. Commit(t1)
  BY <1>1, <1>4 DEF ConsolidateFrom, RowSet, Fields
<1> HIDE DEF b, n, c, t1
<1>6. n \in Nat /\ n <= b.matured_rex /\ HolderOK(b) /\ Ordered(b)
  BY <1>2, <1>3, <1>4, InOrder
<1>7. /\ Ordered(c) /\ SameTotals(b, c) /\ c.matured_rex = n /\ AllRex(c) = AllRex(b)
      /\ \A time \in Int : now <= time /\ time < get_rex_maturity => Young(c, time) >= Young(b, time)
  BY <1>2, <1>3, <1>6, Consolidated
<1>8. HolderOK(c)
  BY <1>6, <1>7 DEF HolderOK, SameTotals
<1>9. rex_in_sell_order(t, u) <= c.matured_rex /\ SameTotals(t.bal[u], c) /\ HolderOK(c)
      /\ \A time \in Int : now <= time /\ time < get_rex_maturity => Young(c, time) >= Young(t.bal[u], time)
  BY <1>3, <1>6, <1>7, <1>8
<1>10. Good(t1, x, NoDebt) /\ t1.pool = t.pool /\ t1.init = t.init /\ t1.fee = t.fee
  BY <1>2, <1>3, <1>4, <1>9, RowSetGood
<1>11. Ready(t1)
  BY <1>2, <1>10, ReadyMoved
<1> QED
  BY <1>5, <1>11, CommitKeeps

\* Part of the savings matures with what is bought today.
LEMMA UnsavedRow ==
  ASSUME ClockOK, NEW b, HolderOK(b), NEW rex \in Nat, rex <= read_rex_savings(b),
         NEW c, c = AddMaturing(b, rex, read_rex_savings(b) - rex)
  PROVE  /\ HolderOK(c) /\ SameTotals(b, c) /\ c.matured_rex >= b.matured_rex
         /\ \A time \in Int : now <= time /\ time < get_rex_maturity => Young(c, time) >= Young(b, time)
<1> DEFINE n == read_rex_savings(b)
           savings == n - rex
<1>1. Ordered(b) /\ n \in Nat
  BY SavingsApart DEF HolderOK
<1>2. savings \in Nat /\ rex + savings = n
  BY <1>1
<1>3. c = AddMaturing(b, rex, savings)
  OBVIOUS
<1>4. n = read_rex_savings(b)
  OBVIOUS
<1> HIDE DEF n, savings
<1>5. /\ Ordered(c) /\ SameTotals(b, c) /\ c.matured_rex >= b.matured_rex
      /\ AllRex(c) + n = AllRex(b) + rex + savings
      /\ \A time \in Int : now <= time /\ time < get_rex_maturity => Young(c, time) + n = Young(b, time) + rex + savings
  <2>1. /\ Ordered(AddMaturing(b, rex, savings)) /\ SameTotals(b, AddMaturing(b, rex, savings))
        /\ AddMaturing(b, rex, savings).matured_rex >= b.matured_rex
        /\ AllRex(AddMaturing(b, rex, savings)) + read_rex_savings(b) = AllRex(b) + rex + savings
        /\ \A time \in Int : now <= time /\ time < get_rex_maturity =>
                Young(AddMaturing(b, rex, savings), time) + read_rex_savings(b) = Young(b, time) + rex + savings
    <3>1. Ordered(b) /\ savings \in Nat
      BY <1>1, <1>2
    <3> QED
      BY <3>1, MaturingAdded
  <2> QED
    BY <1>3, <1>4, <2>1
<1>6. AllRex(c) \in Nat /\ AllRex(b) \in Nat /\ \A time \in Int : Young(c, time) \in Nat /\ Young(b, time) \in Nat
  <2>1. Ordered(c) /\ Ordered(b) /\ 0 \in Int
    BY <1>1, <1>5
  <2>2. AllRex(c) \in Nat /\ AllRex(b) \in Nat
    BY <2>1, RowTypes
  <2>3. \A time \in Int : Young(c, time) \in Nat /\ Young(b, time) \in Nat
    BY <2>1, RowTypes
  <2> QED
    BY <2>2, <2>3
<1>7. AllRex(c) = AllRex(b)
  BY <1>1, <1>2, <1>5, <1>6
<1>8. \A time \in Int : now <= time /\ time < get_rex_maturity => Young(c, time) >= Young(b, time)
  <2> SUFFICES ASSUME NEW time \in Int, now <= time, time < get_rex_maturity PROVE Young(c, time) >= Young(b, time)
    OBVIOUS
  <2>1. Young(c, time) + n = Young(b, time) + rex + savings /\ Young(c, time) \in Nat /\ Young(b, time) \in Nat
    BY <1>5, <1>6
  <2> QED
    BY <1>1, <1>2, <2>1
<1> QED
  BY <1>5, <1>7, <1>8 DEF HolderOK, SameTotals

LEMMA UnsaveKeeps ==
  ASSUME RexInv, NEW u \in Users, NEW rex \in Nat, mvfrsavings(u, rex)
  PROVE  RexInv' /\ NotCheaper(rexpool, rexpool')
<1> DEFINE t  == RunFirst(Tables)
           b  == t.bal[u]
           c  == AddMaturing(b, rex, read_rex_savings(b) - rex)
           ta == RowSet(t, u, c)
           t1 == update_rex_account(ta, u, 0, 0)
           x  == Returns
<1>1. u \in DOMAIN rexbal /\ UnsaveFrom(t, u, rex)
  BY DEF mvfrsavings
<1>2. Ready(t) /\ DOMAIN t.bal = DOMAIN rexbal /\ x \in Int /\ ClockOK /\ x = Returns
  BY RanFirst, DueIs
<1>3. /\ c = AddMaturing(b, rex, read_rex_savings(b) - rex) /\ b = t.bal[u] /\ ta = RowSet(t, u, c)
      /\ t1 = update_rex_account(ta, u, 0, 0)
  OBVIOUS
<1> HIDE DEF t, x
<1>4. Good(t, x, NoDebt) /\ u \in DOMAIN t.bal /\ DOMAIN t = Fields
  BY <1>1, <1>2 DEF Ready, Good, Sound, Shape
<1>5. Commit(t1) /\ rex <= read_rex_savings(b)
  BY <1>1, <1>4 DEF UnsaveFrom, RowSet, Fields
<1> HIDE DEF b, c, ta, t1
<1>6. /\ rex_in_sell_order(t, u) \in Nat /\ b.matured_rex \in Nat /\ rex_in_sell_order(t, u) <= b.matured_rex /\ HolderOK(b)
  BY <1>2, <1>3, <1>4, InOrder
<1>7. /\ HolderOK(c) /\ SameTotals(b, c) /\ c.matured_rex >= b.matured_rex
      /\ \A time \in Int : now <= time /\ time < get_rex_maturity => Young(c, time) >= Young(b, time)
  BY <1>2, <1>3, <1>5, <1>6, UnsavedRow
<1>8. rex_in_sell_order(t, u) <= c.matured_rex
  <2>1. c.matured_rex \in Nat
    BY <1>7 DEF HolderOK, Ordered, RexRow
  <2> QED
    BY <1>6, <1>7, <2>1
<1>9. SameTotals(t.bal[u], c) /\ HolderOK(c)
      /\ \A time \in Int : now <= time /\ time < get_rex_maturity => Young(c, time) >= Young(t.bal[u], time)
  BY <1>3, <1>7
<1>10. Good(ta, x, NoDebt) /\ ta.pool = t.pool /\ ta.init = t.init /\ ta.fee = t.fee
  BY <1>2, <1>3, <1>4, <1>8, <1>9, RowSetGood
<1>11. Good(t1, x, NoDebt) /\ t1.pool = ta.pool /\ t1.init = ta.init /\ t1.fee = ta.fee
  BY <1>2, <1>3, <1>10, AccountOnly
<1>12. Ready(t1)
  BY <1>2, <1>10, <1>11, ReadyMoved
<1> QED
  BY <1>5, <1>12, CommitKeeps

\* REX moves to the savings, what matures last first.
LEMMA SavedRow ==
  ASSUME ClockOK, NEW b, HolderOK(b), NEW rex \in Nat \ {0}, rex + read_rex_savings(b) <= b.rex_balance,
         NEW m, m = process_rex_maturities(TakeSavings(b)), NEW c, c = TakeMaturing(m, rex),
         NEW e, e = put_rex_savings(c, read_rex_savings(b) + rex)
  PROVE  /\ HolderOK(e) /\ SameTotals(b, e) /\ m.matured_rex >= b.matured_rex /\ e.matured_rex = c.matured_rex
         /\ c.matured_rex <= m.matured_rex /\ c.matured_rex \in Nat /\ m.matured_rex \in Nat
         /\ \A time \in Int : now <= time /\ time < get_rex_maturity => Young(e, time) >= Young(b, time)
<1> DEFINE n == read_rex_savings(b)
           a == TakeSavings(b)
           r == n + rex
<1>1. /\ Ordered(a) /\ NoSavings(a) /\ SameTotals(b, a) /\ a.matured_rex = b.matured_rex /\ n \in Nat
      /\ AllRex(b) = AllRex(a) + n
      /\ \A time \in Int : Young(b, time) = Young(a, time) + (IF Maximum > time THEN n ELSE 0)
  BY SavingsApart DEF HolderOK
<1>2. m = process_rex_maturities(a) /\ r \in Nat /\ r = n + rex /\ e = put_rex_savings(c, r) /\ rex + n <= b.rex_balance
  BY <1>1
<1> HIDE DEF n, a, r
<1>3. /\ Ordered(m) /\ SameTotals(a, m) /\ AllRex(m) = AllRex(a) /\ m.matured_rex >= a.matured_rex
      /\ (\A time \in Int : time >= now => Young(m, time) = Young(a, time)) /\ NoSavings(m)
  BY <1>1, <1>2, MatureKeeps
<1>4. rex <= AllRex(m)
  <2>1. AllRex(m) \in Nat /\ b.rex_balance = AllRex(b)
    BY <1>3, RowTypes DEF HolderOK
  <2> QED
    BY <1>1, <1>2, <1>3, <2>1
<1>5. /\ Ordered(c) /\ NoSavings(c) /\ SameTotals(m, c) /\ c.matured_rex <= m.matured_rex
      /\ AllRex(c) + rex = AllRex(m)
      /\ \A time \in Int : Young(c, time) + rex >= Young(m, time)
  BY <1>3, <1>4, MaturingTaken
<1>6. /\ Ordered(e) /\ SameTotals(c, e) /\ e.matured_rex = c.matured_rex /\ AllRex(e) = AllRex(c) + r
      /\ \A time \in Int : Young(e, time) = Young(c, time) + (IF Maximum > time THEN r ELSE 0)
  BY <1>2, <1>5, SavingsPut
<1>7. AllRex(e) = AllRex(b) /\ SameTotals(b, e)
  <2>1. AllRex(c) \in Nat /\ AllRex(m) \in Nat /\ AllRex(a) \in Nat
    BY <1>1, <1>3, <1>5, RowTypes
  <2>2. AllRex(e) = AllRex(b)
    BY <1>1, <1>2, <1>3, <1>5, <1>6, <2>1
  <2> QED
    BY <2>2, <1>1, <1>3, <1>5, <1>6 DEF SameTotals
<1>8. \A time \in Int : now <= time /\ time < get_rex_maturity => Young(e, time) >= Young(b, time)
  <2> SUFFICES ASSUME NEW time \in Int, now <= time, time < get_rex_maturity PROVE Young(e, time) >= Young(b, time)
    OBVIOUS
  <2>1. Maximum > time
    BY MaturityIs
  <2>2. Young(e, time) = Young(c, time) + r /\ Young(c, time) + rex >= Young(m, time) /\ Young(m, time) = Young(a, time)
        /\ Young(b, time) = Young(a, time) + n
    BY <1>1, <1>3, <1>5, <1>6, <2>1, MaturityIs
  <2>3. Young(c, time) \in Nat /\ Young(m, time) \in Nat /\ Young(a, time) \in Nat
    BY <1>1, <1>3, <1>5, RowTypes
  <2> QED
    BY <1>1, <1>2, <2>2, <2>3
<1>9. c.matured_rex \in Nat /\ m.matured_rex \in Nat
  BY <1>3, <1>5 DEF Ordered, RexRow
<1>10. HolderOK(e)
  BY <1>6, <1>7 DEF HolderOK, SameTotals
<1> QED
  BY <1>1, <1>3, <1>5, <1>6, <1>7, <1>8, <1>9, <1>10

LEMMA SaveKeeps ==
  ASSUME RexInv, NEW u \in Users, NEW rex \in Nat \ {0}, mvtosavings(u, rex)
  PROVE  RexInv' /\ NotCheaper(rexpool, rexpool')
<1> DEFINE t  == Collected(u)
           b  == t.bal[u]
           m  == process_rex_maturities(TakeSavings(b))
           c  == TakeMaturing(m, rex)
           e  == put_rex_savings(c, read_rex_savings(b) + rex)
           t1 == RowSet(t, u, e)
           x  == Returns
           n  == rex_in_sell_order(t, u)
<1>1. u \in DOMAIN rexbal /\ SaveFrom(t, u, rex)
  BY DEF mvtosavings
<1>2. Ready(t) /\ DOMAIN t.bal = DOMAIN rexbal /\ x \in Int /\ ClockOK /\ x = Returns
  BY CollectedReady, DueIs
<1>3. /\ m = process_rex_maturities(TakeSavings(b)) /\ c = TakeMaturing(m, rex) /\ e = put_rex_savings(c, read_rex_savings(b) + rex)
      /\ b = t.bal[u] /\ t1 = RowSet(t, u, e) /\ n = rex_in_sell_order(t, u)
  OBVIOUS
<1> HIDE DEF t, x
<1>4. Good(t, x, NoDebt) /\ u \in DOMAIN t.bal /\ DOMAIN t = Fields
  BY <1>1, <1>2 DEF Ready, Good, Sound, Shape
<1>5. Commit(t1) /\ (c.matured_rex < m.matured_rex => n <= c.matured_rex) /\ rex + n + read_rex_savings(b) <= b.rex_balance
  BY <1>1, <1>4 DEF SaveFrom, SaveRex, RowSet, Fields
<1> HIDE DEF b, m, c, e, t1, n
<1>6. n \in Nat /\ b.matured_rex \in Nat /\ n <= b.matured_rex /\ HolderOK(b)
  BY <1>2, <1>3, <1>4, InOrder
<1>7. rex + read_rex_savings(b) <= b.rex_balance
  <2>1. read_rex_savings(b) \in Nat /\ b.rex_balance \in Nat
    BY <1>2, <1>6, SavingsApart DEF HolderOK, Ordered, RexRow
  <2> QED
    BY <1>5, <1>6, <2>1
<1>8. /\ HolderOK(e) /\ SameTotals(b, e) /\ m.matured_rex >= b.matured_rex /\ e.matured_rex = c.matured_rex
      /\ c.matured_rex <= m.matured_rex /\ c.matured_rex \in Nat /\ m.matured_rex \in Nat
      /\ \A time \in Int : now <= time /\ time < get_rex_maturity => Young(e, time) >= Young(b, time)
  BY <1>2, <1>3, <1>6, <1>7, SavedRow
<1>9. n <= e.matured_rex
  BY <1>5, <1>6, <1>8
<1>10. SameTotals(t.bal[u], e) /\ HolderOK(e) /\ rex_in_sell_order(t, u) <= e.matured_rex
      /\ \A time \in Int : now <= time /\ time < get_rex_maturity => Young(e, time) >= Young(t.bal[u], time)
  BY <1>3, <1>8, <1>9
<1>11. Good(t1, x, NoDebt) /\ t1.pool = t.pool /\ t1.init = t.init /\ t1.fee = t.fee
  BY <1>2, <1>3, <1>4, <1>10, RowSetGood
<1>12. Ready(t1)
  BY <1>2, <1>11, ReadyMoved
<1> QED
  BY <1>5, <1>12, CommitKeeps

\* A row with another vote stake.
Restaked(b, n) == [b EXCEPT !.vote_stake = n]

LEMMA RevaluedGood ==
  ASSUME ClockOK, NEW t, NEW x \in Int, Good(t, x, NoDebt), NEW u \in DOMAIN t.bal, NEW t1, t1 = Revalue(t, u),
         NEW change, change = StakeOf(t1, u) - StakeOf(t, u)
  PROVE  /\ change \in Int /\ Good(t1, x, Debt(u, change)) /\ AllBut(t, t1, {"bal"}) /\ DOMAIN t1.bal = DOMAIN t.bal
         /\ t1.pool = t.pool /\ t1.init = t.init /\ t1.fee = t.fee
<1> DEFINE b == t.bal[u]
           n == IF t.pool.total_rex > 0 THEN Value(t, t.bal[u].rex_balance) ELSE 0
           c == Restaked(b, n)
<1>1. Sound(t, x) /\ DOMAIN t = Fields /\ HolderOK(b) /\ Covers(t.orders, t.bal) /\ t.pool \in PoolRow
  BY DEF Good, Sound, Shape, BalOK, PoolOK
<1>2. n \in Nat
  <2>1. CASE t.pool.total_rex > 0
    <3>1. b.rex_balance \in Nat /\ t.pool.total_lendable \in Nat /\ t.pool.total_rex \in Nat
      BY <1>1, PoolTypes DEF HolderOK, Ordered, RexRow
    <3>2. b.rex_balance * t.pool.total_lendable \in Nat
      BY <3>1, MulMono
    <3>3. Value(t, b.rex_balance) \in Nat
      BY <2>1, <3>1, <3>2, DivBounds DEF Value
    <3> QED
      BY <2>1, <3>3
  <2>2. CASE ~(t.pool.total_rex > 0)
    BY <2>2
  <2> QED
    BY <2>1, <2>2
<1>3. AllBut(t, t1, {"bal"}) /\ t1.bal = [t.bal EXCEPT ![u] = c]
  <2>1. t1 = [t EXCEPT !.bal[u].vote_stake = n]
    BY DEF Revalue
  <2> HIDE DEF n
  <2> QED
    BY <1>1, <2>1 DEF AllBut, Fields, Restaked
<1>4. b = t.bal[u]
  OBVIOUS
<1> HIDE DEF n
<1>5. /\ c \in RexRow /\ c.rex_balance = b.rex_balance /\ c.matured_rex = b.matured_rex /\ c.rex_maturities = b.rex_maturities
  BY <1>1, <1>2 DEF Restaked, HolderOK, Ordered, RexRow
<1> HIDE DEF c, b
<1>6. HolderOK(c) /\ \A time \in Int : Young(c, time) >= Young(b, time)
  <2>1. \A time \in Int : Young(c, time) = Young(b, time) /\ Young(b, time) \in Int
    BY <1>1, <1>5, RowTypes DEF Young, HolderOK
  <2>2. HolderOK(c)
    BY <1>1, <1>5 DEF HolderOK, Ordered, AllRex, Young
  <2> QED
    BY <2>1, <2>2
<1>7. DOMAIN t1.bal = DOMAIN t.bal /\ t1.bal[u] = c /\ \A v \in DOMAIN t.bal \ {u} : t1.bal[v] = t.bal[v]
  BY <1>3
<1>8. Sound(t1, x)
  <2>1. HolderOK(t1.bal[u]) /\ t1.bal[u].rex_balance = t.bal[u].rex_balance
        /\ \A time \in Int : now <= time /\ time < get_rex_maturity => Young(t1.bal[u], time) >= Young(t.bal[u], time)
    BY <1>4, <1>5, <1>6, <1>7
  <2> QED
    BY <1>1, <1>3, <1>7, <2>1, RowMoved
<1>9. change = t1.bal[u].vote_stake - t.bal[u].vote_stake
  BY <1>7 DEF StakeOf
<1>10. change \in Int /\ StakeOK(t1.staked, t1.delband, t1.bal, t1.orders, t1.strays, Debt(u, change))
  <2>1. AllBut(t, t1, {"pool", "bal"})
    BY <1>3 DEF AllBut
  <2> QED
    BY <1>7, <1>8, <1>9, <2>1, SoldStake
<1>11. t1.pool = t.pool /\ t1.init = t.init /\ t1.fee = t.fee /\ t1.orders = t.orders
  BY <1>3 DEF AllBut, Fields
<1>12. Covers(t1.orders, t1.bal)
  BY <1>1, <1>4, <1>5, <1>7, <1>11 DEF Covers
<1> QED
  BY <1>3, <1>7, <1>8, <1>10, <1>11, <1>12 DEF Good

LEMMA UpdaterexKeeps ==
  ASSUME RexInv, NEW u \in Users, updaterex(u)
  PROVE  RexInv' /\ NotCheaper(rexpool, rexpool')
<1> DEFINE t  == RunFirst(Tables)
           t1 == Revalue(t, u)
           change == StakeOf(t1, u) - StakeOf(t, u)
           t2 == update_rex_account(t1, u, 0, change)
           t3 == MatureOf(t2, u)
           x  == Returns
<1>1. u \in DOMAIN rexbal /\ Commit(t3)
  BY DEF updaterex, UpdateFrom, Recount
<1>2. Ready(t) /\ DOMAIN t.bal = DOMAIN rexbal /\ x \in Int /\ ClockOK /\ x = Returns
  BY RanFirst, DueIs
<1>3. /\ t1 = Revalue(t, u) /\ change = StakeOf(t1, u) - StakeOf(t, u) /\ t2 = update_rex_account(t1, u, 0, change)
      /\ t3 = MatureOf(t2, u)
  OBVIOUS
<1> HIDE DEF t, t1, change, t2, t3, x
<1>4. Good(t, x, NoDebt) /\ u \in DOMAIN t.bal
  BY <1>1, <1>2 DEF Ready
<1>5. /\ change \in Int /\ Good(t1, x, Debt(u, change)) /\ DOMAIN t1.bal = DOMAIN t.bal
      /\ t1.pool = t.pool /\ t1.init = t.init /\ t1.fee = t.fee
  BY <1>2, <1>3, <1>4, RevaluedGood
<1>6. Good(t2, x, NoDebt) /\ t2.pool = t1.pool /\ t2.init = t1.init /\ t2.fee = t1.fee /\ t2.bal = t1.bal
  <2>1. x \in Int /\ change \in Int /\ Good(t1, x, Debt(u, change)) /\ t2 = update_rex_account(t1, u, 0, change)
    BY <1>2, <1>3, <1>5
  <2>2. Good(t2, x, NoDebt)
    BY <2>1, GoodAccount
  <2>3. AllBut(t1, t2, {"funds", "orders", "staked"})
    BY <2>1, GoodAccount
  <2> QED
    BY <2>2, <2>3 DEF AllBut, Fields
<1>7. Good(t3, x, NoDebt) /\ t3.pool = t2.pool /\ t3.init = t2.init /\ t3.fee = t2.fee
  <2>1. u \in DOMAIN t2.bal
    BY <1>4, <1>5, <1>6
  <2> QED
    BY <1>2, <1>3, <1>6, <2>1, MatureGood
<1>8. Ready(t3)
  BY <1>2, <1>5, <1>6, <1>7, ReadyMoved
<1> QED
  BY <1>1, <1>8, CommitKeeps

\* A change of stake is counted at once.
LEMMA VotedGood ==
  ASSUME NEW t, NEW x \in Int, NEW u \in Users, NEW change \in Int, Good(t, x, Debt(u, change)),
         NEW t1, AllBut(t, t1, {"staked"}), t1.staked = [t.staked EXCEPT ![u] = @ + change]
  PROVE  Good(t1, x, NoDebt)
<1>1. Sound(t, x) /\ t.staked \in [Users -> Int] /\ StakeOK(t.staked, t.delband, t.bal, t.orders, t.strays, Debt(u, change))
  BY DEF Good, Sound, Shape
<1>2. t1.staked \in [Users -> Int] /\ \A v \in Users : t1.staked[v] = t.staked[v] + (IF v = u THEN change ELSE 0)
  BY <1>1
<1>3. Sound(t1, x)
  BY <1>1, <1>2, StakedMoved
<1>4. t1.delband = t.delband /\ t1.bal = t.bal /\ t1.orders = t.orders /\ t1.strays = t.strays
  BY DEF AllBut, Fields
<1>5. \A v \in Users : t1.staked[v] + NoDebt[v] = t.staked[v] + Debt(u, change)[v]
  <2> SUFFICES ASSUME NEW v \in Users PROVE t1.staked[v] + NoDebt[v] = t.staked[v] + Debt(u, change)[v]
    OBVIOUS
  <2>1. NoDebt[v] = 0 /\ Debt(u, change)[v] = (IF v = u THEN change ELSE 0)
    BY DEF NoDebt, Debt
  <2> QED
    BY <1>1, <1>2, <2>1
<1>6. StakeOK(t1.staked, t1.delband, t1.bal, t1.orders, t1.strays, NoDebt)
  BY <1>1, <1>4, <1>5 DEF StakeOK
<1> QED
  BY <1>3, <1>4, <1>6 DEF Good

LEMMA UpdateStakeKeeps ==
  ASSUME RexInv, NEW u \in Users, update_rex_stake(u)
  PROVE  RexInv' /\ NotCheaper(rexpool, rexpool')
<1> DEFINE t  == Tables
           t1 == Revalue(t, u)
           change == StakeOf(t1, u) - StakeOf(t, u)
           t2 == [t1 EXCEPT !.staked[u] = @ + StakeOf(t1, u) - StakeOf(t, u)]
           x  == pool.proceeds
<1>1. u \in DOMAIN rexbal /\ CommitAside(t2)
  BY DEF update_rex_stake, VoteValue
<1>2. x \in Int /\ ClockOK /\ x = pool.proceeds /\ Good(t, x, NoDebt) /\ u \in DOMAIN t.bal
      /\ t.pool = rexpool /\ t.init = initialized /\ t.fee = 0
  BY <1>1, DueIs, InvTables, TablesIs
<1>3. t1 = Revalue(t, u) /\ change = StakeOf(t1, u) - StakeOf(t, u) /\ t2 = [t1 EXCEPT !.staked[u] = @ + StakeOf(t1, u) - StakeOf(t, u)]
  OBVIOUS
<1> HIDE DEF t, t1, change, t2, x
<1>4. /\ change \in Int /\ Good(t1, x, Debt(u, change)) /\ AllBut(t, t1, {"bal"}) /\ DOMAIN t1.bal = DOMAIN t.bal
      /\ t1.pool = t.pool /\ t1.init = t.init /\ t1.fee = t.fee
  BY <1>2, <1>3, RevaluedGood
<1>5. DOMAIN t1 = Fields /\ t1.staked \in [Users -> Int] /\ Sound(t, x) /\ Sound(t1, x)
  BY <1>2, <1>4 DEF Good, Sound, Shape
<1>6. t1.staked[u] + StakeOf(t1, u) - StakeOf(t, u) = t1.staked[u] + change
  <2>1. StakeOf(t1, u) \in Int /\ StakeOf(t, u) \in Int
    <3>1. StakeIn(t1.bal, u) \in Nat /\ StakeIn(t.bal, u) \in Nat
      BY <1>5, StakeTypes
    <3> QED
      BY <3>1 DEF StakeIn, StakeOf
  <2> QED
    BY <1>3, <1>5, <2>1
<1>7. AllBut(t1, t2, {"staked"}) /\ t2.staked = [t1.staked EXCEPT ![u] = @ + change]
  BY <1>3, <1>5, <1>6 DEF AllBut, Fields
<1>8. Good(t2, x, NoDebt)
  BY <1>2, <1>4, <1>7, VotedGood
<1>9. t2.pool = rexpool /\ t2.init = initialized /\ t2.fee = 0
  BY <1>2, <1>4, <1>7 DEF AllBut, Fields
<1> QED
  BY <1>1, <1>2, <1>8, <1>9, AsideKeepsPool

\* The row of u, which has no REX, is removed; its vote stake stays behind.
LEMMA RowClosed ==
  ASSUME ClockOK, NEW t, NEW x \in Int, Good(t, x, NoDebt), NEW u \in Users, RexOf(t.bal, u) = 0,
         NEW t1, AllBut(t, t1, {"bal", "strays"}), DOMAIN t1.bal = DOMAIN t.bal \ {u}, \A v \in DOMAIN t1.bal : t1.bal[v] = t.bal[v],
         t1.strays = [t.strays EXCEPT ![u] = @ + StakeIn(t.bal, u)]
  PROVE  Good(t1, x, NoDebt)
<1>1. /\ t1.pool = t.pool /\ t1.init = t.init /\ t1.orders = t.orders /\ t1.funds = t.funds /\ t1.loans = t.loans
      /\ t1.delband = t.delband /\ t1.totals = t.totals /\ t1.staked = t.staked /\ t1.tokens = t.tokens
      /\ t1.off = t.off /\ t1.bought = t.bought /\ t1.fee = t.fee /\ DOMAIN t1 = Fields
  BY DEF AllBut, Fields
<1>0. Sound(t, x) /\ Covers(t.orders, t.bal) /\ StakeOK(t.staked, t.delband, t.bal, t.orders, t.strays, NoDebt) /\ t.strays \in [Users -> Int]
  BY DEF Good, Sound, Shape
<1>2. BalOK(t1.bal) /\ BalOK(t.bal)
  BY <1>0 DEF Sound, BalOK
<1>3. RexOfAll(t1.bal) = RexOfAll(t.bal)
  <2>1. \A v \in Users : RexOf(t1.bal, v) = RexOf(t.bal, v)
    BY DEF RexOf
  <2>2. [v \in Users |-> RexOf(t1.bal, v)] = [v \in Users |-> RexOf(t.bal, v)]
    BY <2>1
  <2> QED
    BY <2>2 DEF RexOfAll
<1>4. StakeIn(t.bal, u) \in Nat /\ StakeIn(t1.bal, u) = 0
  BY <1>0, StakeTypes DEF StakeIn
<1>5. t1.strays \in [Users -> Int] /\ \A v \in Users : t1.strays[v] = t.strays[v] + (IF v = u THEN StakeIn(t.bal, u) ELSE 0)
  BY <1>0, <1>4
<1>6. Shape(t1)
  BY <1>0, <1>1, <1>5 DEF Sound, Shape
<1>7. PoolOK(t1.pool, t1.init, t1.loans, t1.bal)
  BY <1>0, <1>1, <1>3 DEF Sound, PoolOK
\* The row holds nothing.
<1>8. u \in DOMAIN t.bal => t.bal[u].matured_rex = 0 /\ \A time \in Int : Young(t.bal[u], time) = 0
  <2> SUFFICES ASSUME u \in DOMAIN t.bal PROVE t.bal[u].matured_rex = 0 /\ \A time \in Int : Young(t.bal[u], time) = 0
    OBVIOUS
  <2> DEFINE b == t.bal[u]
  <2>1. Ordered(b) /\ AllRex(b) = 0 /\ 0 - 1 \in Int
    BY <1>2 DEF BalOK, HolderOK, RexOf
  <2> HIDE DEF b
  <2>2. \A time \in Int : Young(b, time) \in Nat /\ Young(b, time) <= AllRex(b)
    BY <2>1, RowTypes
  <2>3. b.matured_rex \in Nat
    BY <2>1 DEF Ordered, RexRow
  <2>4. b.matured_rex = 0
    BY <2>1, <2>2, <2>3 DEF AllRex
  <2>5. \A time \in Int : Young(b, time) = 0
    BY <2>1, <2>2
  <2> QED
    BY <2>4, <2>5 DEF b
<1>9. YoungOK(t1.bought, t1.bal)
  <2>1. \A v \in DOMAIN t.bal : \A time \in Int : Young(t.bal[v], time) \in Nat
    BY <1>2, RowTypes DEF BalOK, HolderOK
  <2>2. \A v \in Users : \A time \in Int : now <= time /\ time < get_rex_maturity => YoungOf(t1.bal, v, time) >= YoungOf(t.bal, v, time)
    BY <1>8, <2>1 DEF YoungOf
  <2>3. YoungOK(t.bought, t.bal)
    BY <1>0 DEF Sound
  <2> QED
    BY <1>1, <1>2, <2>2, <2>3, YoungKept
<1>10. Sound(t1, x)
  BY <1>0, <1>1, <1>2, <1>6, <1>7, <1>9 DEF Sound
<1>11. Covers(t1.orders, t1.bal)
  <2> SUFFICES ASSUME NEW v \in DOMAIN t.orders, t.orders[v].is_open
               PROVE  v \in DOMAIN t1.bal /\ t.orders[v].rex_requested <= t1.bal[v].matured_rex
    BY <1>1 DEF Covers
  <2>1. v \in DOMAIN t.bal /\ t.orders[v].rex_requested <= t.bal[v].matured_rex
    BY <1>0 DEF Covers
  <2>2. t.orders[v].rex_requested \in Nat \ {0}
    BY <1>0 DEF Sound, OrdersOK, Order
  <2>3. v # u
    BY <1>8, <2>1, <2>2
  <2> QED
    BY <2>1, <2>3
<1>12. StakeOK(t1.staked, t1.delband, t1.bal, t1.orders, t1.strays, NoDebt)
  <2> SUFFICES ASSUME NEW v \in Users
               PROVE  t.staked[v] + NoDebt[v]
                        = t.delband[v]["net"] + t.delband[v]["cpu"] + StakeIn(t1.bal, v) + t1.strays[v] - ChangeOf(t.orders, v)
    BY <1>1 DEF StakeOK
  <2>1. t.staked[v] + NoDebt[v] = t.delband[v]["net"] + t.delband[v]["cpu"] + StakeIn(t.bal, v) + t.strays[v] - ChangeOf(t.orders, v)
    BY <1>0 DEF StakeOK
  <2>2. /\ t.delband[v]["net"] \in Nat /\ t.delband[v]["cpu"] \in Nat /\ t.strays[v] \in Int
        /\ StakeIn(t.bal, v) \in Nat /\ ChangeOf(t.orders, v) \in Int
    BY <1>0, StakeTypes
  <2>3. StakeIn(t1.bal, v) + t1.strays[v] = StakeIn(t.bal, v) + t.strays[v] /\ StakeIn(t1.bal, v) \in Nat /\ t1.strays[v] \in Int
    <3>1. CASE v = u
      BY <1>4, <1>5, <2>2, <3>1
    <3>2. CASE v # u
      BY <1>5, <2>2, <3>2 DEF StakeIn
    <3> QED
      BY <3>1, <3>2
  <2> DEFINE e == t.staked[v] + NoDebt[v]
             a == t.delband[v]["net"]
             b == t.delband[v]["cpu"]
             s == StakeIn(t.bal, v)
             s1 == StakeIn(t1.bal, v)
             r == t.strays[v]
             r1 == t1.strays[v]
             g == ChangeOf(t.orders, v)
  <2>4. /\ a \in Nat /\ b \in Nat /\ r \in Int /\ s \in Nat /\ g \in Int /\ e = a + b + s + r - g
        /\ s1 \in Nat /\ r1 \in Int /\ s1 + r1 = s + r
    BY <2>1, <2>2, <2>3
  <2> HIDE DEF e, a, b, s, s1, r, r1, g
  <2>5. e = a + b + s1 + r1 - g
    BY <2>4
  <2> QED
    BY <2>5 DEF e, a, b, s1, r1, g
<1> QED
  BY <1>10, <1>11, <1>12 DEF Good

\* An empty fund is removed.
LEMMA FundClosed ==
  ASSUME NEW t, NEW x \in Int, NEW d, Good(t, x, d), NEW u \in Users, FundOf(t.funds, u) = 0,
         NEW t1, AllBut(t, t1, {"funds"}), DOMAIN t1.funds = DOMAIN t.funds \ {u}, \A v \in DOMAIN t1.funds : t1.funds[v] = t.funds[v]
  PROVE  Good(t1, x, d)
<1>1. Sound(t, x) /\ FundsOK(t.funds)
  BY DEF Good, Sound
<1>2. FundsOK(t1.funds) /\ \A v \in Users : FundOf(t1.funds, v) = FundOf(t.funds, v)
  BY <1>1 DEF FundsOK, FundOf
<1>3. x = x - (FundOf(t1.funds, u) - FundOf(t.funds, u))
  BY <1>2
<1>4. Sound(t1, x)
  BY <1>1, <1>2, <1>3, FundsMoved
<1>5. AllBut(t, t1, LoanFields \cup {"tokens"})
  BY DEF AllBut, LoanFields
<1> QED
  BY <1>4, <1>5, GoodMoved

ClosedFund(t, f) == [t EXCEPT !.funds = f]

LEMMA CloserexKeeps ==
  ASSUME RexInv, NEW u \in Users, closerex(u)
  PROVE  RexInv' /\ NotCheaper(rexpool, rexpool')
<1> DEFINE t  == Collected(u)
           ends == /\ \A k \in Kinds : \A l \in t.loans[k] : l.from # u
                   /\ u \in DOMAIN t.funds /\ t.funds[u] = 0
           f  == IF ends THEN Without(t.funds, u) ELSE t.funds
           ta == ClosedFund(t, f)
           t1 == [t EXCEPT !.funds = IF ends THEN Without(@, u) ELSE @, !.bal = Without(@, u), !.strays[u] = @ + StakeOf(t, u)]
           x  == Returns
<1>1. (u \in DOMAIN t.bal => t.bal[u].rex_balance = 0) /\ Commit(t1)
  BY DEF closerex, CloseFrom
<1>2. Ready(t) /\ x \in Int /\ ClockOK /\ x = Returns
  BY CollectedReady, DueIs
<1>3. Good(t, x, NoDebt) /\ DOMAIN t = Fields /\ t.strays \in [Users -> Int]
  BY <1>2 DEF Ready, Good, Sound, Shape
<1>4. ends => u \in DOMAIN t.funds /\ t.funds[u] = 0
  OBVIOUS
<1>5. t1 = [t EXCEPT !.funds = IF ends THEN Without(@, u) ELSE @, !.bal = Without(@, u), !.strays[u] = @ + StakeOf(t, u)]
  OBVIOUS
<1> HIDE DEF t, x, ends, t1
<1>6. Good(ta, x, NoDebt) /\ AllBut(t, ta, {"funds"}) /\ ta.funds = f
  <2>1. AllBut(t, ta, {"funds"}) /\ ta.funds = f
    BY <1>3 DEF ClosedFund, AllBut, Fields
  <2> HIDE DEF ta
  <2>2. CASE ends
    <3>1. FundOf(t.funds, u) = 0
      BY <1>4, <2>2 DEF FundOf
    <3>2. DOMAIN ta.funds = DOMAIN t.funds \ {u} /\ \A v \in DOMAIN ta.funds : ta.funds[v] = t.funds[v]
      BY <2>1, <2>2 DEF Without, RestrictDomain, Restrict
    <3> QED
      BY <1>2, <1>3, <2>1, <3>1, <3>2, FundClosed
  <2>3. CASE ~ends
    <3>1. ta.funds = t.funds /\ DOMAIN ta = Fields
      BY <2>1, <2>3 DEF AllBut
    <3>2. \A g \in Fields : ta[g] = t[g]
      BY <2>1, <3>1 DEF AllBut
    <3>3. ta.bal = t.bal /\ ta.staked = t.staked /\ ta.delband = t.delband /\ ta.orders = t.orders /\ ta.strays = t.strays
      BY <3>2 DEF Fields
    <3>4. Sound(t, x)
      BY <1>3 DEF Good
    <3>5. Shape(ta)
      BY <3>1, <3>2, <3>4 DEF Sound, Shape, Fields
    <3>6. Sound(ta, x)
      BY <3>2, <3>4, <3>5 DEF Sound, Fields
    <3> QED
      BY <1>3, <2>1, <3>3, <3>6 DEF Good
  <2> QED
    BY <2>2, <2>3
<1>7. /\ DOMAIN ta = Fields /\ ta.bal = t.bal /\ ta.strays = t.strays /\ ta.pool = t.pool /\ ta.init = t.init /\ ta.fee = t.fee
      /\ ta.delband = t.delband /\ ta.orders = t.orders
  BY <1>6 DEF AllBut, Fields
<1> HIDE DEF ta
<1>8. AllBut(ta, t1, {"bal", "strays"}) /\ t1.bal = Without(t.bal, u) /\ t1.strays = [t.strays EXCEPT ![u] = @ + StakeOf(t, u)]
  <2>1. t1.funds = f /\ DOMAIN t1 = Fields
    BY <1>3, <1>5 DEF Fields
  <2>2. AllBut(t, t1, {"funds", "bal", "strays"}) /\ t1.bal = Without(t.bal, u) /\ t1.strays = [t.strays EXCEPT ![u] = @ + StakeOf(t, u)]
    BY <1>3, <1>5 DEF AllBut, Fields
  <2> QED
    BY <1>6, <2>1, <2>2 DEF AllBut, Fields
<1>9. RexOf(ta.bal, u) = 0 /\ StakeOf(t, u) = StakeIn(ta.bal, u)
  BY <1>1, <1>7 DEF RexOf, StakeOf, StakeIn
<1>10. DOMAIN t1.bal = DOMAIN ta.bal \ {u} /\ (\A v \in DOMAIN t1.bal : t1.bal[v] = ta.bal[v])
       /\ t1.strays = [ta.strays EXCEPT ![u] = @ + StakeIn(ta.bal, u)]
  BY <1>7, <1>8, <1>9 DEF Without, RestrictDomain, Restrict
<1>11. Good(t1, x, NoDebt)
  BY <1>2, <1>6, <1>8, <1>9, <1>10, RowClosed
<1>12. t1.pool = t.pool /\ t1.init = t.init /\ t1.fee = t.fee
  BY <1>7, <1>8 DEF AllBut, Fields
<1>13. Ready(t1)
  BY <1>2, <1>11, <1>12, ReadyMoved
<1> QED
  BY <1>1, <1>13, CommitKeeps

-----------------------------------------------------------------------------
(* Time passes.                                                            *)

\* What is bought later does not mature earlier.
LEMMA MaturesLater ==
  ASSUME now \in Nat, now' = now + 1
  PROVE  get_rex_maturity \in Int /\ get_rex_maturity' \in Int /\ get_rex_maturity <= get_rex_maturity'
<1> DEFINE d == seconds_per_day
           k == num_of_maturity_buckets * d
           m == now + 1
           q == now \div d
           q1 == m \div d
<1>1. d \in Nat \ {0} /\ num_of_maturity_buckets \in Nat
  BY RexAssumption
<1>2. k \in Nat
  BY <1>1, MulMono
<1>3. get_rex_maturity = now - (now % d) + k /\ get_rex_maturity' = m - (m % d) + k
  BY DEF get_rex_maturity
<1>4. /\ q \in Nat /\ now % d \in Nat /\ now = q * d + (now % d)
  BY <1>1, DivMod
<1>5. m \in Nat
  OBVIOUS
<1>6. /\ q1 \in Nat /\ m % d \in Nat /\ m = q1 * d + (m % d)
  <2> HIDE DEF m
  <2> QED
    BY <1>1, <1>5, DivMod
<1>7. d * q <= m /\ d * q \in Nat /\ d * q1 \in Nat /\ q * d = d * q /\ q1 * d = d * q1
  <2>1. d * q \in Nat /\ d * q1 \in Nat /\ q * d = d * q /\ q1 * d = d * q1
    BY <1>1, <1>4, <1>6, MulMono, Distrib
  <2> DEFINE e == d * q
             r == now % d
  <2>2. now = e + r /\ r \in Nat /\ e \in Nat
    BY <1>4, <2>1
  <2> HIDE DEF e, r
  <2>3. e <= m
    BY <2>2
  <2> QED
    BY <2>1, <2>3 DEF e
<1>8. q <= q1
  <2> HIDE DEF m, q
  <2> QED
    BY <1>1, <1>4, <1>5, <1>7, DivGreatest
<1>9. d * q <= d * q1
  BY <1>1, <1>4, <1>6, <1>8, MulMono
<1> DEFINE e == d * q
           e1 == d * q1
           r == now % d
           r1 == m % d
<1>10. /\ get_rex_maturity = now - r + k /\ get_rex_maturity' = m - r1 + k /\ now = e + r /\ m = e1 + r1 /\ e <= e1
       /\ e \in Nat /\ e1 \in Nat /\ r \in Nat /\ r1 \in Nat
  BY <1>3, <1>4, <1>6, <1>7, <1>9
<1> HIDE DEF e, e1, r, r1, k, m
<1> QED
  BY <1>2, <1>10

\* What matures by now is forgotten.
LEMMA StillYoung ==
  ASSUME NEW h, NEW m \in Int, h \in [DOMAIN h -> Nat], IsFiniteSet(DOMAIN h), DOMAIN h \subseteq Int,
         NEW g, DOMAIN g = {at \in DOMAIN h : at > m}, \A at \in DOMAIN g : g[at] = h[at], NEW time \in Int, time >= m
  PROVE  After(g, time) = After(h, time)
<1> DEFINE D == DOMAIN h
           E == DOMAIN g
           F == [at \in D |-> IF at > time THEN h[at] ELSE 0]
           G == [at \in E |-> IF at > time THEN g[at] ELSE 0]
<1>1. E \in SUBSET D /\ IsFiniteSet(D)
  OBVIOUS
<1>2. (\A at \in D : F[at] \in Int) /\ \A at \in D \ E : F[at] = 0
  OBVIOUS
<1>3. \A at \in E : F[at] = G[at]
  OBVIOUS
<1>4. After(h, time) = SumOf(F, D) /\ After(g, time) = SumOf(G, E)
  BY DEF After
<1> HIDE DEF D, E, F, G
<1>5. SumOf(F, D) = SumOf(F, E)
  BY <1>1, <1>2, SumOfSupport
<1>6. SumOf(F, E) = SumOf(G, E)
  BY <1>3, SumOfSame
<1> QED
  BY <1>4, <1>5, <1>6

LEMMA RexTickKeeps ==
  ASSUME RexInv, RexTick
  PROVE  RexInv' /\ NotCheaper(rexpool, rexpool')
<1>1. /\ now' = now + 1 /\ now < MaxTime /\ pool' = pool /\ ClockOK /\ now \in Nat
      /\ bought' = [u \in Users |-> RestrictDomain(bought[u], LAMBDA at : at > now + 1)]
      /\ UNCHANGED <<rexpool, initialized, rexfunds, rexbal, rexorders, loans, delband, totals, staked, tokens, writtenOff, strays>>
  BY DueIs DEF RexTick, Tick, returnVars, ClockOK
<1>2. ReturnsInv'
  BY TickKeeps DEF RexInv, RexTick
<1>3. get_rex_maturity \in Int /\ get_rex_maturity' \in Int /\ get_rex_maturity <= get_rex_maturity'
  BY <1>1, MaturesLater
<1>4. Sound(Tables, pool.proceeds) /\ Good(Tables, pool.proceeds, NoDebt)
  BY InvTables
<1>5. BalOK(rexbal)'
  <2>1. BalOK(rexbal)
    BY <1>4, TablesIs DEF Sound
  <2>2. ASSUME NEW b, HolderOK(b) PROVE HolderOK(b)'
    <3>1. Maturities(b.rex_maturities) /\ b \in RexRow /\ b.rex_balance = AllRex(b)
      BY <2>2 DEF HolderOK, Ordered
    <3>2. \A i \in DOMAIN b.rex_maturities : b.rex_maturities[i].at \in Int
      BY <3>1, BucketTypes DEF Maturities
    <3>3. Maturities(b.rex_maturities)'
      BY <1>3, <3>1, <3>2 DEF Maturities
    <3> QED
      BY <3>1, <3>3 DEF HolderOK, Ordered
  <2> QED
    BY <1>1, <2>1, <2>2 DEF BalOK
<1>6. YoungOK(bought, rexbal)'
  <2>1. YoungOK(bought, rexbal)
    BY <1>4, TablesIs DEF Sound
  <2>2. DOMAIN bought' = Users
    BY <1>1
  <2>3. ASSUME NEW u \in Users
        PROVE  BoughtOK(bought[u])' /\ (\A time \in Int : time >= now => After(bought[u], time) <= YoungOf(rexbal, u, time))'
    <3> DEFINE h == bought[u]
               g == bought'[u]
               m == now + 1
    <3>1. h \in [DOMAIN h -> Nat] /\ DOMAIN h \subseteq m..get_rex_maturity
          /\ \A time \in Int : time >= now => After(h, time) <= YoungOf(rexbal, u, time)
      BY <2>1 DEF YoungOK, BoughtOK
    <3>2. DOMAIN g = {at \in DOMAIN h : at > m} /\ \A at \in DOMAIN g : g[at] = h[at]
      BY <1>1 DEF RestrictDomain, Restrict
    <3>3. g \in [DOMAIN g -> Nat]
      <4>1. g = [at \in DOMAIN g |-> g[at]]
        BY <1>1 DEF RestrictDomain, Restrict
      <4> HIDE DEF g, h
      <4>2. \A at \in DOMAIN g : g[at] \in Nat
        BY <3>1, <3>2
      <4> QED
        BY <4>1, <4>2
    <3>4. DOMAIN g \subseteq (now' + 1)..(get_rex_maturity')
      <4> DEFINE a == get_rex_maturity
                 b == get_rex_maturity'
      <4>1. DOMAIN h \subseteq m..a /\ a \in Int /\ b \in Int /\ a <= b /\ m \in Int /\ now' = m
        BY <1>1, <1>3, <3>1
      <4> HIDE DEF a, b, m, g, h
      <4>2. \A at \in DOMAIN g : at \in Int /\ m + 1 <= at /\ at <= b
        BY <3>2, <4>1
      <4>3. DOMAIN g \subseteq (m + 1)..b
        BY <4>1, <4>2
      <4> QED
        BY <4>1, <4>3 DEF b
    <3>5. m \in Int /\ IsFiniteSet(DOMAIN h) /\ DOMAIN h \subseteq Int /\ now' = m
      <4>1. m \in Int /\ now' = m /\ DOMAIN h \subseteq Int
        BY <1>1, <1>3, <3>1
      <4> HIDE DEF m
      <4>2. IsFiniteSet(m..get_rex_maturity)
        BY <1>3, <4>1, FS_Interval
      <4> QED
        BY <3>1, <4>1, <4>2, FS_Subset
    <3> HIDE DEF h, g, m
    <3>6. ASSUME NEW time \in Int, time >= m PROVE After(g, time) <= YoungOf(rexbal, u, time)
      <4>1. After(g, time) = After(h, time)
        BY <3>1, <3>2, <3>5, <3>6, StillYoung
      <4>2. time >= now
        BY <1>1, <3>6 DEF m
      <4> QED
        BY <3>1, <4>1, <4>2
    <3>7. BoughtOK(bought[u])'
      BY <3>3, <3>4 DEF BoughtOK, g
    <3>8. \A time \in Int : time >= now' => After(g, time) <= YoungOf(rexbal', u, time)
      BY <1>1, <3>5, <3>6
    <3> QED
      BY <3>7, <3>8 DEF g
  <2> QED
    BY <1>1, <2>2, <2>3 DEF YoungOK
<1>7. Sound(Tables, pool.proceeds)'
  <2>1. /\ Shape(Tables) /\ PoolOK(rexpool, initialized, loans, rexbal) /\ FundsOK(rexfunds) /\ OrdersOK(rexorders)
        /\ LoansOK(loans, rexpool.loan_num) /\ ResOK(totals, delband, loans)
        /\ Backing(tokens, rexfunds, loans, rexorders, rexpool, writtenOff, 0, pool.proceeds)
    BY <1>4, TablesIs DEF Sound
  <2>2. Shape(Tables)'
    <3>1. /\ writtenOff \in Nat /\ initialized \in BOOLEAN /\ tokens \in [Users \cup {rex_account} -> Int]
          /\ (\A u \in Users : tokens[u] >= 0) /\ strays \in [Users -> Int] /\ staked \in [Users -> Int]
      BY <2>1, TablesIs DEF Shape
    <3>2. (/\ DOMAIN Tables = Fields /\ Tables.init = initialized /\ Tables.staked = staked /\ Tables.tokens = tokens
           /\ Tables.off = writtenOff /\ Tables.strays = strays /\ Tables.fee = 0)'
      BY DEF Tables, Fields
    <3> QED
      BY <1>1, <3>1, <3>2 DEF Shape
  <2>3. /\ PoolOK(rexpool, initialized, loans, rexbal)' /\ FundsOK(rexfunds)' /\ OrdersOK(rexorders)'
        /\ LoansOK(loans, rexpool.loan_num)' /\ ResOK(totals, delband, loans)'
        /\ Backing(tokens, rexfunds, loans, rexorders, rexpool, writtenOff, 0, pool.proceeds)'
    BY <1>1, <2>1
  <2>4. (/\ Tables.pool = rexpool /\ Tables.init = initialized /\ Tables.funds = rexfunds
         /\ Tables.bal = rexbal /\ Tables.orders = rexorders /\ Tables.loans = loans /\ Tables.delband = delband
         /\ Tables.totals = totals /\ Tables.staked = staked /\ Tables.tokens = tokens /\ Tables.off = writtenOff
         /\ Tables.strays = strays /\ Tables.bought = bought /\ Tables.fee = 0)'
    BY DEF Tables
  <2> QED
    BY <1>5, <1>6, <2>2, <2>3, <2>4 DEF Sound
<1>8. Good(Tables, pool.proceeds, NoDebt)'
  <2>1. Covers(rexorders, rexbal) /\ StakeOK(staked, delband, rexbal, rexorders, strays, NoDebt)
    BY <1>4, TablesIs DEF Good
  <2>2. Covers(rexorders, rexbal)' /\ StakeOK(staked, delband, rexbal, rexorders, strays, NoDebt)'
    BY <1>1, <2>1 DEF NoDebt
  <2>3. (Tables.bal = rexbal /\ Tables.orders = rexorders /\ Tables.delband = delband /\ Tables.staked = staked /\ Tables.strays = strays)'
    BY DEF Tables
  <2> QED
    BY <1>7, <2>2, <2>3 DEF Good
<1>9. NotCheaper(rexpool, rexpool')
  BY <1>1, InvTables, SameValue
<1> QED
  BY <1>1, <1>2, <1>8, <1>9 DEF RexInv

-----------------------------------------------------------------------------
(* The first state.                                                        *)

LEMMA SumOfConst ==
  ASSUME NEW S, IsFiniteSet(S), NEW c \in Int, NEW f, \A a \in S : f[a] = c
  PROVE  SumOf(f, S) = c * Cardinality(S) /\ Cardinality(S) \in Nat
<1> DEFINE G == {B \in SUBSET S : SumOf(f, B) = c * Cardinality(B)}
<1>1. {} \in G
  <2>1. SumOf(f, {}) = 0 /\ Cardinality({}) = 0 /\ c * 0 = 0
    BY SumOfNone, FS_EmptySet
  <2> QED
    BY <2>1
<1>2. ASSUME NEW B \in SUBSET S, NEW a \in S \ B, B \in G
      PROVE  B \cup {a} \in G
  <2>1. IsFiniteSet(B) /\ Cardinality(B) \in Nat
    BY FS_Subset, FS_CardinalityType
  <2>2. Cardinality(B \cup {a}) = Cardinality(B) + 1
    BY <2>1, FS_AddElement
  <2>3. \A x \in B \cup {a} : f[x] \in Int
    OBVIOUS
  <2>4. SumOf(f, B \cup {a}) = SumOf(f, B) + f[a]
    BY <2>1, <2>3, SumOfOneMore
  <2>5. SumOf(f, B) = c * Cardinality(B) /\ f[a] = c
    BY <1>2
  <2>6. c * (Cardinality(B) + 1) = c * Cardinality(B) + c
    BY <2>1, Distrib
  <2>7. SumOf(f, B \cup {a}) = c * Cardinality(B \cup {a})
    BY <2>2, <2>4, <2>5, <2>6
  <2> QED
    BY <2>7
<1> HIDE DEF G
<1>3. S \in G
  BY <1>1, <1>2, SubsetInduction
<1> QED
  BY <1>3, FS_CardinalityType DEF G

\* A row whose REX has all matured.
FirstRow == [vote_stake |-> FirstPurchase, rex_balance |-> FirstPurchase * rex_ratio,
             matured_rex |-> FirstPurchase * rex_ratio, rex_maturities |-> <<>>]

LEMMA FirstRowOK == HolderOK(FirstRow)
<1> DEFINE n == FirstPurchase * rex_ratio
<1>1. FirstPurchase \in Nat /\ rex_ratio \in Nat /\ n \in Nat
  BY RexAssumption, MulMono
<1>2. Mass(<<>>, 0 - 1) = 0
  BY MassNone
<1>3. Maturities(<<>>)
  BY DEF Maturities
<1>4. FirstRow = [vote_stake |-> FirstPurchase, rex_balance |-> n, matured_rex |-> n, rex_maturities |-> <<>>]
  BY DEF FirstRow
<1> HIDE DEF n
<1>5. FirstRow \in RexRow /\ FirstRow.rex_balance = n /\ FirstRow.matured_rex = n /\ FirstRow.rex_maturities = <<>>
  BY <1>1, <1>4 DEF RexRow
<1>6. AllRex(FirstRow) = n
  BY <1>1, <1>2, <1>5 DEF AllRex, Young
<1> QED
  BY <1>3, <1>5, <1>6 DEF HolderOK, Ordered

LEMMA RexStart ==
  ASSUME RexInit
  PROVE  RexInv
<1>1. ReturnsInit /\ ReturnsInv /\ pool.proceeds = 0 /\ ~pool.created
  BY ReturnsStart DEF RexInit, ReturnsInit
<1>2. PICK owners \in FirstOwners :
        LET lendable == FirstPurchase * Cardinality(owners)
        IN  /\ initialized = (owners # {})
            /\ rexpool = [total_lent |-> 0, total_unlent |-> lendable, total_lendable |-> lendable,
                          total_rex |-> lendable * rex_ratio,
                          total_rent |-> IF initialized THEN init_total_rent ELSE 0,
                          namebid_proceeds |-> 0, loan_num |-> 0]
            /\ rexbal = [u \in owners |-> FirstRow]
            /\ staked = [u \in Users |-> 2 * Staked + IF u \in owners THEN FirstPurchase ELSE 0]
            /\ tokens = [a \in Users \cup {rex_account} |->
                            IF a = rex_account THEN Funds * Cardinality(Users) + lendable ELSE 0]
  BY DEF RexInit, FirstRow
<1> DEFINE lendable == FirstPurchase * Cardinality(owners)
           total == lendable * rex_ratio
           rent  == IF initialized THEN init_total_rent ELSE 0
           deposits == Funds * Cardinality(Users)
<1>3. owners \subseteq Users /\ IsFiniteSet(owners) /\ IsFiniteSet(Users) /\ Cardinality(owners) \in Nat /\ Cardinality(Users) \in Nat
  BY RexAssumption, FS_Subset, FS_CardinalityType
<1>4. /\ FirstPurchase \in Nat \ {0} /\ rex_ratio \in Nat \ {0} /\ init_total_rent \in Nat /\ Funds \in Nat /\ Staked \in Nat
      /\ rex_account \notin Users
  BY RexAssumption
<1>5. lendable \in Nat /\ total \in Nat /\ rent \in Nat /\ deposits \in Nat
  <2>1. lendable \in Nat /\ deposits \in Nat
    BY <1>3, <1>4, MulMono
  <2> HIDE DEF lendable
  <2>2. total \in Nat
    BY <1>4, <2>1, MulMono
  <2> QED
    BY <1>4, <2>1, <2>2
<1>6. /\ rexfunds = [u \in Users |-> Funds] /\ rexorders = NoRows /\ loans = [k \in Kinds |-> {}]
      /\ delband = [u \in Users |-> [k \in Kinds |-> Staked]] /\ totals = delband /\ writtenOff = 0
      /\ strays = [u \in Users |-> 0] /\ bought = [u \in Users |-> NoRows]
  BY DEF RexInit
<1>7. /\ initialized = (owners # {}) /\ rexbal = [u \in owners |-> FirstRow]
      /\ rexpool = [total_lent |-> 0, total_unlent |-> lendable, total_lendable |-> lendable, total_rex |-> total,
                    total_rent |-> rent, namebid_proceeds |-> 0, loan_num |-> 0]
      /\ staked = [u \in Users |-> 2 * Staked + IF u \in owners THEN FirstPurchase ELSE 0]
      /\ tokens = [a \in Users \cup {rex_account} |-> IF a = rex_account THEN deposits + lendable ELSE 0]
  BY <1>2
<1>8. RexOfAll(rexbal) = total
  <2> DEFINE n == FirstPurchase * rex_ratio
             F == [u \in Users |-> RexOf(rexbal, u)]
  <2>1. n \in Nat
    BY <1>4, MulMono
  <2>2. FirstRow.rex_balance = n
    BY DEF FirstRow
  <2> HIDE DEF n
  <2>3. (\A u \in owners : F[u] = n) /\ (\A u \in Users \ owners : F[u] = 0) /\ \A u \in Users : F[u] \in Int
    BY <1>3, <1>7, <2>1, <2>2 DEF RexOf
  <2> HIDE DEF F
  <2>4. SumOf(F, Users) = SumOf(F, owners)
    BY <1>3, <2>3, SumOfSupport
  <2>5. SumOf(F, owners) = n * Cardinality(owners)
    BY <1>3, <2>1, <2>3, SumOfConst
  <2>6. n * Cardinality(owners) = total
    BY <1>3, <1>4 DEF n
  <2> QED
    BY <2>4, <2>5, <2>6 DEF F, RexOfAll
<1>9. AllFunds(rexfunds) = deposits
  <2> DEFINE F == [u \in Users |-> FundOf(rexfunds, u)]
  <2>1. \A u \in Users : F[u] = Funds
    BY <1>6 DEF FundOf
  <2> HIDE DEF F
  <2>2. SumOf(F, Users) = Funds * Cardinality(Users)
    BY <1>3, <1>4, <2>1, SumOfConst
  <2> QED
    BY <2>2 DEF F, AllFunds
<1>10. AllProceeds(rexorders) = 0
  <2> DEFINE F == [u \in Users |-> ProceedsOf(rexorders, u)]
  <2>1. \A u \in Users : F[u] = 0
    BY <1>6 DEF ProceedsOf, NoRows, NoBuckets
  <2> HIDE DEF F
  <2>2. 0 \in Int /\ 0 * Cardinality(Users) = 0
    BY <1>3
  <2>3. SumOf(F, Users) = 0 * Cardinality(Users)
    <3>1. PICK c \in Int : c = 0
      OBVIOUS
    <3>2. SumOf(F, Users) = c * Cardinality(Users)
      BY <1>3, <2>1, <3>1, SumOfConst
    <3> QED
      BY <3>1, <3>2
  <2> QED
    BY <2>2, <2>3 DEF F, AllProceeds
<1>11. BothKinds(loans, "balance") = 0 /\ BothKinds(loans, "total_staked") = 0
  BY <1>6, ColNone DEF BothKinds, Kinds
<1> HIDE DEF lendable, total, rent, deposits
<1>12. Shape(Tables)
  <2>1. tokens \in [Users \cup {rex_account} -> Int] /\ \A u \in Users : tokens[u] >= 0
    BY <1>4, <1>5, <1>7
  <2>2. staked \in [Users -> Int] /\ strays \in [Users -> Int] /\ initialized \in BOOLEAN
    BY <1>4, <1>6, <1>7
  <2> QED
    BY <1>6, <2>1, <2>2, TablesIs DEF Shape
<1>13. PoolOK(rexpool, initialized, loans, rexbal)
  <2>1. rexpool \in PoolRow /\ rexpool.total_lendable = lendable /\ rexpool.total_lent = 0 /\ rexpool.total_unlent = lendable /\ rexpool.total_rex = total
    BY <1>5, <1>7 DEF PoolRow
  <2>2. owners = {} => total = 0
    <3>1. owners = {} => Cardinality(owners) = 0
      BY FS_EmptySet
    <3> QED
      BY <1>4, <3>1 DEF total, lendable
  <2> QED
    <3>1. ~initialized => owners = {}
      BY <1>7
    <3>2. lendable = 0 + lendable
      BY <1>5
    <3> HIDE DEF lendable, total
    <3> QED
      BY <1>8, <1>11, <2>1, <2>2, <3>1, <3>2 DEF PoolOK
<1>14. FundsOK(rexfunds) /\ OrdersOK(rexorders) /\ BalOK(rexbal)
  BY <1>3, <1>4, <1>6, <1>7, FirstRowOK DEF FundsOK, OrdersOK, BalOK, NoRows, NoBuckets
<1>15. LoansOK(loans, rexpool.loan_num)
  <2>1. \A k \in Kinds : KindOK({}, rexpool.loan_num)
    BY FS_EmptySet DEF KindOK
  <2> QED
    BY <1>6, <2>1 DEF LoansOK, Kinds
<1>16. ResOK(totals, delband, loans)
  <2>1. \A u \in Users, k \in Kinds : Received(loans[k], u) = 0
    <3>1. \A u \in Users, k \in Kinds : For(loans[k], u) = {}
      BY <1>6 DEF For
    <3> QED
      BY <3>1, ColNone DEF Received
  <2> QED
    BY <1>4, <1>6, <2>1 DEF ResOK
<1>17. Backing(tokens, rexfunds, loans, rexorders, rexpool, writtenOff, 0, pool.proceeds)
  <2>1. tokens[rex_account] = deposits + lendable
    BY <1>7
  <2>2. rexpool.total_lendable = lendable
    BY <1>7
  <2> QED
    BY <1>1, <1>5, <1>6, <1>9, <1>10, <1>11, <2>1, <2>2 DEF Backing
<1>18. YoungOK(bought, rexbal)
  <2>1. ASSUME NEW u \in Users
        PROVE  BoughtOK(bought[u]) /\ \A time \in Int : time >= now => After(bought[u], time) <= YoungOf(rexbal, u, time)
    <3>1. bought[u] = NoRows /\ DOMAIN NoRows = {} /\ NoRows \in [{} -> Nat]
      BY <1>6 DEF NoRows, NoBuckets
    <3>2. \A time : After(NoRows, time) = 0
      BY <3>1, SumOfNone DEF After
    <3>3. \A time \in Int : YoungOf(rexbal, u, time) \in Nat
      BY <1>14, RowTypes DEF YoungOf, BalOK, HolderOK
    <3>4. \A time \in Int : After(bought[u], time) <= YoungOf(rexbal, u, time)
      BY <3>1, <3>2, <3>3
    <3> QED
      BY <3>1, <3>4 DEF BoughtOK
  <2> QED
    BY <1>6, <2>1 DEF YoungOK
<1>19. Sound(Tables, pool.proceeds)
  BY <1>12, <1>13, <1>14, <1>15, <1>16, <1>17, <1>18, TablesIs DEF Sound
<1>20. Covers(rexorders, rexbal)
  BY <1>6 DEF Covers, NoRows, NoBuckets
<1>21. StakeOK(staked, delband, rexbal, rexorders, strays, NoDebt)
  <2> SUFFICES ASSUME NEW u \in Users
               PROVE  staked[u] + NoDebt[u]
                        = delband[u]["net"] + delband[u]["cpu"] + StakeIn(rexbal, u) + strays[u] - ChangeOf(rexorders, u)
    BY DEF StakeOK
  <2>1. StakeIn(rexbal, u) = IF u \in owners THEN FirstPurchase ELSE 0
    BY <1>7 DEF StakeIn, FirstRow
  <2>2. ChangeOf(rexorders, u) = 0 /\ strays[u] = 0 /\ NoDebt[u] = 0 /\ delband[u]["net"] = Staked /\ delband[u]["cpu"] = Staked
    BY <1>6 DEF ChangeOf, NoRows, NoBuckets, NoDebt, Kinds
  <2>3. staked[u] = 2 * Staked + IF u \in owners THEN FirstPurchase ELSE 0
    BY <1>7
  <2> QED
    BY <1>4, <2>1, <2>2, <2>3
<1>22. \A u \in Users : staked[u] >= 0
  BY <1>4, <1>7
<1> QED
  BY <1>1, <1>19, <1>20, <1>21, <1>22, TablesIs DEF RexInv, Good

-----------------------------------------------------------------------------
(* The steps.                                                              *)

LEMMA Bounds ==
  /\ Amounts \subseteq Nat \ {0} /\ RexAmounts \subseteq Nat \ {0} /\ Fees \subseteq Nat \ {0}
  /\ Rents \subseteq Nat \ {0} /\ LoanFunds \subseteq Nat /\ RexexecMax \subseteq Nat /\ Staked \in Nat
  /\ Keepers \subseteq Users /\ Renters \subseteq Users /\ Receivers \subseteq Users
BY RexAssumption

LEMMA RexNextKeeps ==
  ASSUME RexInv, RexNext
  PROVE  RexInv' /\ NotCheaper(rexpool, rexpool')
<1>1. CASE \E u \in Users, a \in Amounts : buyrex(u, a)
  BY <1>1, Bounds, BuyrexKeeps
<1>2. CASE \E u \in Keepers : unstaketorex(u, Staked, Staked)
  BY <1>2, Bounds, UnstaketorexKeeps
<1>3. CASE \E u \in Users, r \in RexAmounts : sellrex(u, r)
  BY <1>3, Bounds, SellrexKeeps
<1>4. CASE \E u \in Users : cnclrexorder(u)
  BY <1>4, CancelKeeps
<1>5. CASE \E u \in Keepers, a \in Amounts : deposit(u, a) \/ withdraw(u, a)
  BY <1>5, Bounds, DepositKeeps, WithdrawKeeps
<1>6. CASE \E u \in Keepers, r \in RexAmounts : mvtosavings(u, r) \/ mvfrsavings(u, r)
  BY <1>6, Bounds, SaveKeeps, UnsaveKeeps
<1>7. CASE \E u \in Keepers : updaterex(u) \/ update_rex_stake(u) \/ consolidate(u) \/ closerex(u)
  BY <1>7, Bounds, UpdaterexKeeps, UpdateStakeKeeps, ConsolidateKeeps, CloserexKeeps
<1>8. CASE \E u \in Renters, v \in Receivers, p \in Rents, f \in LoanFunds : rentcpu(u, v, p, f) \/ rentnet(u, v, p, f)
  <2>1. PICK u \in Renters, v \in Receivers, p \in Rents, f \in LoanFunds : rentcpu(u, v, p, f) \/ rentnet(u, v, p, f)
    BY <1>8
  <2>2. PICK k \in Kinds : rent_rex(k, u, v, p, f)
    BY <2>1 DEF rentcpu, rentnet, Kinds
  <2> QED
    BY <2>2, Bounds, RentKeeps
<1>9. CASE \E u \in Renters, k \in Kinds, a \in Rents : \E l \in loans[k] : fund_rex_loan(k, l, u, a)
  BY <1>9, Bounds, FundLoanKeeps
<1>10. CASE \E u \in Renters, k \in Kinds, a \in Rents : \E l \in loans[k] : defund_rex_loan(k, l, u, a)
  BY <1>10, Bounds, DefundLoanKeeps
<1>11. CASE \E fee \in Fees : ram_fee(fee) \/ channel_namebid_to_rex(fee) \/ setrex(fee)
  BY <1>11, Bounds, RamFeeKeeps, NamebidKeeps, SetrexKeeps
<1>12. CASE \E max \in RexexecMax : rexexec(max)
  BY <1>12, Bounds, RexexecKeeps
<1>13. CASE RexTick
  BY <1>13, RexTickKeeps
<1> QED
  BY <1>1, <1>2, <1>3, <1>4, <1>5, <1>6, <1>7, <1>8, <1>9, <1>10, <1>11, <1>12, <1>13 DEF RexNext

LEMMA RexStutter ==
  ASSUME RexInv, UNCHANGED rexVars
  PROVE  RexInv' /\ NotCheaper(rexpool, rexpool')
<1>1. UNCHANGED <<now, returnVars, tableVars>>
  BY DEF rexVars
<1>2. UNCHANGED <<now, pool, buckets, unlent, added, lastFee>>
  BY <1>1 DEF returnVars
<1>3. UNCHANGED <<rexpool, initialized, rexfunds, rexbal, rexorders, loans, delband, totals, staked, tokens, writtenOff, strays, bought>>
  BY <1>1 DEF tableVars
<1>4. ReturnsInv'
  BY <1>1, AsideKeeps DEF RexInv
<1>5. Tables' = Tables
  BY <1>3 DEF Tables
<1>6. PICK x : x = pool.proceeds
  OBVIOUS
<1>7. PICK t : t = Tables
  OBVIOUS
<1>8. Good(t, x, NoDebt)
  BY <1>6, <1>7, InvTables
<1>9. Good(t, x, NoDebt)'
  BY <1>2, <1>8, NextGood DEF NoDebt
<1>10. Good(Tables, pool.proceeds, NoDebt)'
  BY <1>2, <1>5, <1>6, <1>7, <1>9
<1>11. NotCheaper(rexpool, rexpool')
  BY <1>3, InvTables, SameValue
<1> QED
  BY <1>2, <1>3, <1>4, <1>10, <1>11 DEF RexInv

\* The inductive invariant of the exchange and its return pool.
THEOREM RexInvariant == RexSpec => []RexInv
<1>1. RexInit => RexInv
  BY RexStart
<1>2. RexInv /\ [RexNext]_rexVars => RexInv'
  BY RexNextKeeps, RexStutter
<1> QED
  BY <1>1, <1>2, PTL DEF RexSpec

-----------------------------------------------------------------------------
(* The properties.                                                         *)

\* A sum over the rows of a table is a sum over the users.
LEMMA RowsTotal ==
  ASSUME NEW f, DOMAIN f \subseteq Users, \A u \in DOMAIN f : f[u] \in Nat,
         NEW F, \A u \in Users : F[u] = IF u \in DOMAIN f THEN f[u] ELSE 0
  PROVE  Total(f) = SumOf(F, Users)
<1> DEFINE D == DOMAIN f
<1>1. D \in SUBSET Users /\ IsFiniteSet(Users)
  BY UsersFinite
<1>2. (\A u \in Users : F[u] \in Int) /\ (\A u \in Users \ D : F[u] = 0) /\ \A u \in D : F[u] = f[u]
  OBVIOUS
<1>3. Total(f) = SumOf(f, D)
  BY DEF Total
<1> HIDE DEF D
<1>4. SumOf(F, Users) = SumOf(F, D)
  BY <1>1, <1>2, SumOfSupport
<1>5. SumOf(F, D) = SumOf(f, D)
  BY <1>2, SumOfSame
<1> QED
  BY <1>3, <1>4, <1>5

\* A column of the loans of both kinds.
LEMMA LoansTotal ==
  ASSUME RexInv, NEW c \in {"balance", "total_staked"}
  PROVE  Total([l \in Loans |-> l[c]]) = BothKinds(loans, c)
<1> DEFINE A == loans["cpu"]
           B == loans["net"]
           F == [l \in Loans |-> l[c]]
           G == [l \in A |-> l[c]]
           H == [l \in B |-> l[c]]
<1>1. LoansOK(loans, rexpool.loan_num)
  BY InvTables, TablesIs DEF Sound
<1>2. IsFiniteSet(A) /\ IsFiniteSet(B) /\ A \subseteq Loan /\ B \subseteq Loan /\ \A l \in A, m \in B : l.loan_num # m.loan_num
  BY <1>1 DEF LoansOK, KindOK, Kinds
<1>3. A \cap B = {}
  BY <1>2
<1>4. \A l \in A \cup B : l[c] \in Int
  BY <1>2, LoanTypes
<1>5. Loans = A \cup B
  BY DEF Loans
<1>6. /\ \A l \in A \cup B : F[l] \in Int
      /\ \A l \in A : F[l] = G[l]
      /\ \A l \in B : F[l] = H[l]
  BY <1>4, <1>5
<1>7. Total(F) = SumOf(F, A \cup B)
  BY <1>5 DEF Total
<1>8. BothKinds(loans, c) = SumOf(G, A) + SumOf(H, B)
  BY DEF BothKinds, Col
<1> HIDE DEF A, B, F, G, H
<1>9. SumOf(F, A \cup B) = SumOf(F, A) + SumOf(F, B)
  BY <1>2, <1>3, <1>6, SumOfSplit
<1>10. SumOf(F, A) = SumOf(G, A)
  BY <1>6, SumOfSame
<1>11. SumOf(F, B) = SumOf(H, B)
  BY <1>6, SumOfSame
<1> QED
  BY <1>7, <1>8, <1>9, <1>10, <1>11 DEF F

LEMMA FundsTotal ==
  ASSUME NEW f, FundsOK(f)
  PROVE  Total(f) = AllFunds(f)
<1> DEFINE F == [u \in Users |-> FundOf(f, u)]
<1>1. \A u \in Users : F[u] = IF u \in DOMAIN f THEN f[u] ELSE 0
  BY DEF FundOf
<1> HIDE DEF F
<1>2. Total(f) = SumOf(F, Users)
  BY <1>1, RowsTotal DEF FundsOK
<1> QED
  BY <1>2 DEF F, AllFunds

LEMMA ProceedsTotal ==
  ASSUME NEW o, OrdersOK(o)
  PROVE  Total([u \in DOMAIN o |-> o[u].proceeds]) = AllProceeds(o)
<1> DEFINE F == [u \in Users |-> ProceedsOf(o, u)]
           f == [u \in DOMAIN o |-> o[u].proceeds]
<1>1. \A u \in Users : F[u] = IF u \in DOMAIN f THEN f[u] ELSE 0
  BY DEF ProceedsOf
<1>2. DOMAIN f \subseteq Users /\ \A u \in DOMAIN f : f[u] \in Nat
  BY DEF OrdersOK, Order
<1> HIDE DEF F, f
<1>3. Total(f) = SumOf(F, Users)
  BY <1>1, <1>2, RowsTotal
<1> QED
  BY <1>3 DEF F, f, AllProceeds

LEMMA RexTotal ==
  ASSUME NEW bal, BalOK(bal)
  PROVE  Total([u \in DOMAIN bal |-> bal[u].rex_balance]) = RexOfAll(bal)
<1> DEFINE F == [u \in Users |-> RexOf(bal, u)]
           f == [u \in DOMAIN bal |-> bal[u].rex_balance]
<1>1. \A u \in Users : F[u] = IF u \in DOMAIN f THEN f[u] ELSE 0
  BY DEF RexOf
<1>2. DOMAIN f \subseteq Users /\ \A u \in DOMAIN f : f[u] \in Nat
  BY DEF BalOK, HolderOK, Ordered, RexRow
<1> HIDE DEF F, f
<1>3. Total(f) = SumOf(F, Users)
  BY <1>1, <1>2, RowsTotal
<1> QED
  BY <1>3 DEF F, f, RexOfAll

\* The parts of the invariant, of the variables.
LEMMA InvParts ==
  ASSUME RexInv
  PROVE  /\ Shape(Tables) /\ PoolOK(rexpool, initialized, loans, rexbal) /\ FundsOK(rexfunds) /\ BalOK(rexbal) /\ OrdersOK(rexorders)
         /\ LoansOK(loans, rexpool.loan_num) /\ ResOK(totals, delband, loans)
         /\ Backing(tokens, rexfunds, loans, rexorders, rexpool, writtenOff, 0, pool.proceeds) /\ YoungOK(bought, rexbal)
         /\ Covers(rexorders, rexbal) /\ StakeOK(staked, delband, rexbal, rexorders, strays, NoDebt)
BY InvTables, TablesIs DEF Sound, Good

LEMMA InvBacked ==
  ASSUME RexInv
  PROVE  RexIsBacked
<1>1. /\ Total(rexfunds) = AllFunds(rexfunds)
      /\ Total([u \in DOMAIN rexorders |-> rexorders[u].proceeds]) = AllProceeds(rexorders)
  BY InvParts, FundsTotal, ProceedsTotal
<1>2. Total([l \in Loans |-> l.balance]) = BothKinds(loans, "balance")
  BY LoansTotal
<1>3. pool.proceeds \in Int /\ Sound(Tables, pool.proceeds)
  BY DueIs, InvTables
<1> DEFINE x == pool.proceeds
<1>4. x \in Int /\ Sound(Tables, x)
  BY <1>3
<1> HIDE DEF x
<1>5. /\ tokens[rex_account] \in Int /\ AllFunds(rexfunds) \in Nat /\ AllProceeds(rexorders) \in Nat
      /\ BothKinds(loans, "balance") \in Nat /\ writtenOff \in Nat /\ rexpool.total_lendable \in Nat
      /\ tokens[rex_account] = AllFunds(rexfunds) + BothKinds(loans, "balance") + AllProceeds(rexorders)
                               + rexpool.total_lendable + writtenOff + 0 + x
  BY <1>4, Accounts, TablesIs
<1>6. tokens[rex_account] = AllFunds(rexfunds) + BothKinds(loans, "balance") + AllProceeds(rexorders)
                            + rexpool.total_lendable + x + writtenOff
  BY <1>4, <1>5
<1> QED
  BY <1>1, <1>2, <1>6 DEF RexIsBacked, x

LEMMA InvAgrees ==
  ASSUME RexInv
  PROVE  PoolAgrees
<1>1. rexpool.total_rex = Total([u \in DOMAIN rexbal |-> rexbal[u].rex_balance])
  BY InvParts, RexTotal DEF PoolOK
<1>2. rexpool.total_lent = Total([l \in Loans |-> l.total_staked])
  <2>1. Total([l \in Loans |-> l.total_staked]) = BothKinds(loans, "total_staked")
    BY LoansTotal
  <2> QED
    BY <2>1, InvParts DEF PoolOK
<1>3. rexpool.total_lendable = rexpool.total_lent + rexpool.total_unlent
  BY InvParts DEF PoolOK
<1>4. rexpool.total_rex = 0 => Loans = {}
  <2> SUFFICES ASSUME rexpool.total_rex = 0, NEW l \in Loans PROVE FALSE
    OBVIOUS
  <2>1. PICK k \in Kinds : l \in loans[k]
    BY DEF Loans, Kinds
  <2>2. l \in Loan /\ l.total_staked <= rexpool.total_lent
    <3> DEFINE x == pool.proceeds
    <3>1. x \in Int /\ Sound(Tables, x) /\ l \in Tables.loans[k] /\ Tables.pool = rexpool
      BY <2>1, DueIs, InvTables, TablesIs
    <3> HIDE DEF x
    <3> QED
      BY <3>1, LoanOf
  <2>3. rexpool.total_lent = 0
    BY InvParts DEF PoolOK
  <2> QED
    BY <2>2, <2>3, LoanTypes
<1>5. \A u \in Users, k \in Kinds :
        totals[u][k] = delband[u][k] + Total([l \in {m \in loans[k] : m.receiver = u} |-> l.total_staked])
  <2> SUFFICES ASSUME NEW u \in Users, NEW k \in Kinds
               PROVE  totals[u][k] = delband[u][k] + Total([l \in {m \in loans[k] : m.receiver = u} |-> l.total_staked])
    OBVIOUS
  <2>1. Total([l \in For(loans[k], u) |-> l.total_staked]) = Received(loans[k], u)
    BY DEF Total, Received, Col
  <2>2. For(loans[k], u) = {m \in loans[k] : m.receiver = u}
    BY DEF For
  <2>3. totals[u][k] = delband[u][k] + Received(loans[k], u)
    BY InvParts DEF ResOK
  <2> QED
    BY <2>1, <2>2, <2>3
<1> QED
  BY <1>1, <1>2, <1>3, <1>4, <1>5 DEF PoolAgrees

LEMMA InvCovered ==
  ASSUME RexInv
  PROVE  OrdersAreCovered
<1>1. ASSUME NEW u \in DOMAIN rexbal
      PROVE  /\ rexbal[u].rex_balance = rexbal[u].matured_rex + SumSeq(rexbal[u].rex_maturities)
             /\ \A i, j \in DOMAIN rexbal[u].rex_maturities :
                 i < j => rexbal[u].rex_maturities[i].at < rexbal[u].rex_maturities[j].at
  <2> DEFINE b == rexbal[u]
  <2>1. HolderOK(b)
    BY InvParts DEF BalOK
  <2> HIDE DEF b
  <2>2. SumSeq(b.rex_maturities) = Young(b, 0 - 1)
    <3>1. 0 \in Int
      OBVIOUS
    <3> QED
      BY <2>1, <3>1, RowTypes DEF HolderOK
  <2>3. b.rex_balance = b.matured_rex + SumSeq(b.rex_maturities)
    BY <2>1, <2>2 DEF HolderOK, AllRex
  <2>4. \A i, j \in DOMAIN b.rex_maturities : i < j => b.rex_maturities[i].at < b.rex_maturities[j].at
    BY <2>1 DEF HolderOK, Ordered, Maturities
  <2> QED
    BY <2>3, <2>4 DEF b
<1>2. \A u \in Open(Tables) : u \in DOMAIN rexbal /\ rexorders[u].rex_requested <= rexbal[u].matured_rex
  BY InvParts, TablesIs DEF Open, Covers
<1> QED
  BY <1>1, <1>2 DEF OrdersAreCovered

LEMMA InvHeld ==
  ASSUME RexInv
  PROVE  YoungRexIsHeld
<1> SUFFICES ASSUME NEW u \in Users
             PROVE  (IF u \in DOMAIN rexbal THEN Held(rexbal[u], now) ELSE 0) >= Total(bought[u])
  BY DEF YoungRexIsHeld
<1>1. now \in Int
  BY DueIs DEF ClockOK
<1>2. (IF u \in DOMAIN rexbal THEN Held(rexbal[u], now) ELSE 0) = YoungOf(rexbal, u, now) /\ YoungOf(rexbal, u, now) \in Nat
  BY <1>1, InvParts, RowTypes DEF YoungOf, BalOK, HolderOK
<1>3. After(bought[u], now) <= YoungOf(rexbal, u, now) /\ BoughtOK(bought[u])
  BY <1>1, InvParts DEF YoungOK
<1>4. Total(bought[u]) = After(bought[u], now)
  <2> DEFINE h == bought[u]
             F == [at \in DOMAIN h |-> IF at > now THEN h[at] ELSE 0]
  <2>1. \A at \in DOMAIN h : F[at] = h[at]
    BY <1>1, <1>3 DEF BoughtOK
  <2>2. Total(h) = SumOf(h, DOMAIN h) /\ After(h, now) = SumOf(F, DOMAIN h)
    BY DEF Total, After
  <2> HIDE DEF h, F
  <2>3. SumOf(F, DOMAIN h) = SumOf(h, DOMAIN h)
    BY <2>1, SumOfSame
  <2> QED
    BY <2>2, <2>3 DEF h
<1>5. Total(bought[u]) \in Int
  <2> DEFINE h == bought[u]
  <2>1. get_rex_maturity \in Int
    BY DueIs, MaturityIs
  <2>2. IsFiniteSet(DOMAIN h) /\ \A at \in DOMAIN h : h[at] \in Int
    <3>1. IsFiniteSet((now + 1)..get_rex_maturity)
      <4>1. now + 1 \in Int
        BY <1>1
      <4> QED
        BY <2>1, <4>1, FS_Interval
    <3>2. DOMAIN h \subseteq (now + 1)..get_rex_maturity /\ h \in [DOMAIN h -> Nat]
      BY <1>3 DEF BoughtOK
    <3> HIDE DEF h
    <3>3. IsFiniteSet(DOMAIN h)
      BY <3>1, <3>2, FS_Subset
    <3>4. \A at \in DOMAIN h : h[at] \in Int
      BY <3>2
    <3> QED
      BY <3>3, <3>4
  <2> HIDE DEF h
  <2>3. Total(h) \in Int
    BY <2>2, SumOfType DEF Total
  <2> QED
    BY <2>3 DEF h
<1> QED
  BY <1>2, <1>3, <1>4, <1>5

LEMMA InvVoted ==
  ASSUME RexInv
  PROVE  RexStakeIsVoted
<1> SUFFICES ASSUME NEW u \in Users
             PROVE  staked[u] = delband[u]["net"] + delband[u]["cpu"] + StakeOf(Tables, u) + strays[u]
                                - IF u \in DOMAIN rexorders THEN rexorders[u].stake_change ELSE 0
  BY DEF RexStakeIsVoted
<1>1. staked[u] + NoDebt[u] = delband[u]["net"] + delband[u]["cpu"] + StakeIn(rexbal, u) + strays[u] - ChangeOf(rexorders, u)
  BY InvParts DEF StakeOK
<1>2. NoDebt[u] = 0 /\ StakeIn(rexbal, u) = StakeOf(Tables, u) /\ staked[u] \in Int
      /\ ChangeOf(rexorders, u) = IF u \in DOMAIN rexorders THEN rexorders[u].stake_change ELSE 0
  BY InvParts, TablesIs DEF NoDebt, StakeIn, StakeOf, ChangeOf, Shape
<1>3. staked[u] + NoDebt[u] = staked[u]
  BY <1>2
<1> QED
  BY <1>1, <1>2, <1>3

LEMMA InvTypes ==
  ASSUME RexInv
  PROVE  RexTypeOK
<1>1. ReturnsTypeOK
  BY DEF RexInv, ReturnsInv
<1>2. /\ rexpool \in [total_lent : Nat, total_unlent : Nat, total_rent : Nat, total_lendable : Nat,
                      total_rex : Nat, namebid_proceeds : Nat, loan_num : Nat]
  BY InvParts DEF PoolOK, PoolRow
<1>3. DOMAIN rexfunds \cup DOMAIN rexbal \cup DOMAIN rexorders \subseteq Users /\ Range(rexfunds) \subseteq Nat
  BY InvParts DEF FundsOK, BalOK, OrdersOK, Range
<1>4. \A u \in DOMAIN rexbal : rexbal[u].matured_rex >= 0 /\ rexbal[u].vote_stake >= 0
  BY InvParts DEF BalOK, HolderOK, Ordered, RexRow
<1>5. totals \in [Users -> [Kinds -> Nat]]
  <2>1. totals \in [Users -> [Kinds -> Int]] /\ delband \in [Users -> [Kinds -> Nat]]
        /\ \A u \in Users, k \in Kinds : totals[u][k] = delband[u][k] + Received(loans[k], u)
    BY InvParts DEF ResOK
  <2>2. ASSUME NEW u \in Users, NEW k \in Kinds PROVE totals[u][k] \in Nat
    <3>1. Received(loans[k], u) \in Nat
      <4> DEFINE S == For(loans[k], u)
      <4>1. IsFiniteSet(S) /\ S \subseteq Loan
        BY InvParts, FS_Subset DEF LoansOK, KindOK, For
      <4>2. \A l \in S : l["total_staked"] \in Nat
        BY <4>1, LoanTypes
      <4> HIDE DEF S
      <4>3. Col(S, "total_staked") \in Nat
        BY <4>1, <4>2, ColType
      <4> QED
        BY <4>3 DEF S, Received
    <3>2. delband[u][k] \in Nat /\ totals[u][k] = delband[u][k] + Received(loans[k], u)
      BY <2>1
    <3> QED
      BY <3>1, <3>2
  <2> QED
    BY <2>1, <2>2
<1>6. staked \in [Users -> Nat]
  BY InvParts, TablesIs DEF Shape, RexInv
<1>7. tokens \in [Users \cup {rex_account} -> Nat]
  <2>1. tokens \in [Users \cup {rex_account} -> Int] /\ \A u \in Users : tokens[u] >= 0
    BY InvParts, TablesIs DEF Shape
  <2>2. tokens[rex_account] \in Nat
    <3> DEFINE x == pool.proceeds
    <3>1. x \in Nat /\ x \in Int /\ Sound(Tables, x)
      BY DueIs, InvTables
    <3> HIDE DEF x
    <3>2. /\ tokens[rex_account] \in Int /\ AllFunds(rexfunds) \in Nat /\ AllProceeds(rexorders) \in Nat
          /\ BothKinds(loans, "balance") \in Nat /\ writtenOff \in Nat /\ rexpool.total_lendable \in Nat
          /\ tokens[rex_account] = AllFunds(rexfunds) + BothKinds(loans, "balance") + AllProceeds(rexorders)
                                   + rexpool.total_lendable + writtenOff + 0 + x
      BY <3>1, Accounts, TablesIs
    <3> QED
      BY <3>1, <3>2
  <2> QED
    BY <2>1, <2>2
<1> QED
  BY <1>1, <1>2, <1>3, <1>4, <1>5, <1>6, <1>7 DEF RexTypeOK

\* The tables have their types, and no balance, share or weight is negative (RexTypeOK).
THEOREM RexTypeCorrect == RexSpec => []RexTypeOK
<1>1. RexInv => RexTypeOK
  BY InvTypes
<1> QED
  BY <1>1, RexInvariant, PTL

\* Every token that eosio.rex holds belongs to exactly one account of the books, through every sale,
\* loan, renewal, filled order and late update (RexIsBacked).
THEOREM RexBacking == RexSpec => []RexIsBacked
<1>1. RexInv => RexIsBacked
  BY InvBacked
<1> QED
  BY <1>1, RexInvariant, PTL

\* The totals of the pool are those of the rows, and the resources of an account are its own and the
\* loans made for it (PoolAgrees).
THEOREM RexPoolAgrees == RexSpec => []PoolAgrees
<1>1. RexInv => PoolAgrees
  BY InvAgrees
<1> QED
  BY <1>1, RexInvariant, PTL

\* The order that runrex fills without looking is always covered by matured REX (OrdersAreCovered).
THEOREM RexOrdersCovered == RexSpec => []OrdersAreCovered
<1>1. RexInv => OrdersAreCovered
  BY InvCovered
<1> QED
  BY <1>1, RexInvariant, PTL

\* REX bought too recently to be sold is still in the buckets (YoungRexIsHeld).
THEOREM RexYoungHeld == RexSpec => []YoungRexIsHeld
<1>1. RexInv => YoungRexIsHeld
  BY InvHeld
<1> QED
  BY <1>1, RexInvariant, PTL

\* The votes of an account are what it has delegated and the counted value of its REX (RexStakeIsVoted).
THEOREM RexStakeVoted == RexSpec => []RexStakeIsVoted
<1>1. RexInv => RexStakeIsVoted
  BY InvVoted
<1> QED
  BY <1>1, RexInvariant, PTL

\* The books of the return pool are right after every action of the exchange (ReturnsAreOwed).
THEOREM ReturnsOwed == RexSpec => []ReturnsAreOwed
<1>1. RexInv => ReturnsAreOwed
  BY DEF RexInv, ReturnsInv
<1> QED
  BY <1>1, RexInvariant, PTL

\* A fee whose time is over has been added to the lendable tokens in full (PaidInFull).
THEOREM ReturnsPaidInFull == RexSpec => []PaidInFull
<1>1. RexInv => PaidInFull
  BY ReturnsPaid DEF RexInv
<1> QED
  BY <1>1, RexInvariant, PTL

\* No action makes REX worth less, rounding included (ValueNeverFalls).
THEOREM RexValue == RexSpec => ValueNeverFalls
<1> DEFINE NoFall == (rexpool.total_rex > 0 /\ rexpool'.total_rex > 0) =>
                      rexpool'.total_lendable * rexpool.total_rex >= rexpool.total_lendable * rexpool'.total_rex
<1>1. RexInv /\ [RexNext]_rexVars => [NoFall]_rexVars
  <2> SUFFICES ASSUME RexInv, RexNext PROVE NoFall
    OBVIOUS
  <2>1. NotCheaper(rexpool, rexpool')
    BY RexNextKeeps
  <2> QED
    BY <2>1 DEF NotCheaper, Dearer
<1> QED
  BY <1>1, RexInvariant, PTL DEF RexSpec, ValueNeverFalls
=============================================================================
