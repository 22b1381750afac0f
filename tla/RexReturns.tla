----------------------------- MODULE RexReturns -----------------------------
(***************************************************************************)
(* The REX return pool (rex.cpp): fees are collected in buckets of some    *)
(* hours, and each bucket is added to the lendable tokens of REX in equal  *)
(* parts over total_intervals intervals.  Nothing runs by itself: the      *)
(* parts due are worked out by whichever action comes next, which may be   *)
(* after many intervals or after whole buckets are over.                   *)
(*                                                                         *)
(* Of total_unlent only what the pool adds to it is kept here; module Rex  *)
(* has the rest, and the actions that bring the fees.                      *)
(***************************************************************************)
EXTENDS Integers, FiniteSets, Functions, Sums

CONSTANTS
    dist_interval,     \* seconds in an interval (600)
    total_intervals,   \* intervals over which a bucket is added (4320)
    bucket_interval,   \* seconds in a bucket (12 hours), whole intervals
    Maximum,           \* time_point_sec::maximum()
    MaxTime            \* bound: the clock

ASSUME ReturnsAssumption ==
    /\ dist_interval \in Nat \ {0} /\ total_intervals \in Nat \ {0}
    /\ bucket_interval \in Nat \ {0} /\ bucket_interval % dist_interval = 0
    /\ MaxTime \in Nat /\ MaxTime >= total_intervals * dist_interval + bucket_interval
    /\ Maximum \in Nat /\ Maximum > MaxTime + bucket_interval

VARIABLES
    now,            \* current_time_point
    pool,           \* rexretpool: its one row, created by the first fee
    buckets,        \* return_buckets: from the time of a bucket to its rate
    unlent,         \* what the pool has added to total_unlent
    added,          \* history: sum of the fees
    lastFee         \* history: time of the last fee

returnVars == <<pool, buckets, unlent, added, lastFee>>

Minimum == 0                     \* time_point_sec::min()
Span    == total_intervals * dist_interval
Times   == Minimum..Maximum
NoBuckets == [t \in {} |-> 0]

ReturnsTypeOK ==
    /\ now \in 1..MaxTime
    /\ pool \in [created : BOOLEAN, last_dist_time : Times, pending_bucket_time : Times,
                 oldest_bucket_time : Times, pending_bucket_proceeds : Nat,
                 current_rate_of_increase : Nat, proceeds : Nat]
    /\ DOMAIN buckets \subseteq Times /\ Range(buckets) \subseteq Nat
    /\ unlent \in Nat /\ added \in Nat /\ lastFee \in 0..MaxTime

ReturnsInit ==
    /\ now \in (Span + 1)..(Span + bucket_interval)   \* long after the epoch
    /\ pool = [created |-> FALSE, last_dist_time |-> Minimum, pending_bucket_time |-> Maximum,
               oldest_bucket_time |-> Minimum, pending_bucket_proceeds |-> 0,
               current_rate_of_increase |-> 0, proceeds |-> 0]
    /\ buckets = NoBuckets
    /\ unlent = 0
    /\ added = 0 /\ lastFee = 0
-----------------------------------------------------------------------------
Elapsed(t1, t0) == (t1 - t0) \div dist_interval

Total(b) == SumOf(b, DOMAIN b)

\* The part of a bucket that does not divide into the intervals is added at once.
Remainder(p) == p % total_intervals

\* mutant: what was added after the end of a bucket is not taken back
NoSurplus(over, t) == 0
\* What the current rate has added too much for the buckets that ended before t.
Surplus(over, t) == Total([s \in DOMAIN over |-> over[s] * Elapsed(t, s + Span)])

\* The rate that goes with the buckets that are over.
ExpiredRate(over, kept) == Total(over)

\* mutant: the bucket counts from the update that opens it
OpensNow(t, effective) == effective
\* The time the pending bucket counts from when it is opened.
NewBucketTime(t, effective) == t

Oldest(b) == IF DOMAIN b = {} THEN Minimum ELSE CHOOSE t \in DOMAIN b : \A s \in DOMAIN b : t <= s

\* The tables after update_rex_pool.
Updated ==
    LET effective == now - (now % dist_interval)
        opens     == pool.pending_bucket_time <= effective
        remainder == Remainder(pool.pending_bucket_proceeds)
        newRate   == IF opens THEN (pool.pending_bucket_proceeds - remainder) \div total_intervals ELSE 0
        newTime   == NewBucketTime(pool.pending_bucket_time, effective)
        estimate  == pool.current_rate_of_increase * Elapsed(effective, pool.last_dist_time)
                     + (IF opens THEN remainder + newRate * Elapsed(effective, newTime) ELSE 0)
        opened    == IF opens THEN [t \in DOMAIN buckets \cup {newTime} |-> IF t = newTime THEN newRate ELSE buckets[t]]
                              ELSE buckets
        oldest    == IF opens /\ newTime < pool.oldest_bucket_time THEN newTime ELSE pool.oldest_bucket_time
        threshold == effective - Span
        trims     == oldest <= threshold
        over      == IF trims THEN RestrictDomain(opened, LAMBDA t : t <= threshold) ELSE NoBuckets
        kept      == RestrictDomain(opened, LAMBDA t : t \notin DOMAIN over)
        change    == estimate - Surplus(over, effective)
        left      == pool.proceeds - change
        short     == change > 0 /\ left < 0
        due       == IF short THEN change + left ELSE change
    IN  IF ~pool.created \/ effective <= pool.last_dist_time
        THEN [pool |-> pool, buckets |-> buckets, unlent |-> unlent]
        ELSE [pool |-> [created                  |-> TRUE,
                        last_dist_time           |-> effective,
                        pending_bucket_time      |-> IF opens THEN Maximum ELSE pool.pending_bucket_time,
                        oldest_bucket_time       |-> IF trims THEN Oldest(kept) ELSE oldest,
                        pending_bucket_proceeds  |-> IF opens THEN 0 ELSE pool.pending_bucket_proceeds,
                        current_rate_of_increase |-> pool.current_rate_of_increase + newRate - ExpiredRate(over, kept),
                        proceeds                 |-> IF short THEN 0 ELSE left],
              buckets |-> kept,
              unlent  |-> IF due > 0 THEN unlent + due ELSE unlent]

\* The bucket that is filling ends at the next multiple of bucket_interval.
FillingUntil == now - (now % bucket_interval) + bucket_interval

\* The row of the pool when a fee is added to the row p.
WithFee(p, fee) ==
    [p EXCEPT !.created = TRUE,
              !.last_dist_time = IF p.created THEN @ ELSE FillingUntil,
              !.pending_bucket_proceeds = @ + fee,
              !.proceeds = @ + fee,
              !.pending_bucket_time = IF @ = Maximum THEN FillingUntil ELSE @]

\* The updated tables u and a fee.
Store(u, fee) == /\ pool' = IF fee > 0 THEN WithFee(u.pool, fee) ELSE u.pool
                 /\ buckets' = u.buckets
                 /\ unlent' = u.unlent
\* Without a fee, update_rex_pool alone: what runrex does to the pool.
add_to_rex_return_pool(fee) ==
    /\ Store(Updated, fee)
    /\ added' = added + fee
    /\ lastFee' = IF fee > 0 THEN now ELSE lastFee
    /\ UNCHANGED now

\* External: time passes.
Tick == now < MaxTime /\ now' = now + 1 /\ UNCHANGED returnVars
-----------------------------------------------------------------------------
\* Every fee is either still in the pool or has been added to the lendable tokens, once; and the
\* pool owes exactly the pending bucket and, for every open bucket, the parts of the intervals
\* still to come, whenever the updates came: no bucket is written over by a later one, no part is
\* added twice or forgotten, and the correction of a negative proceeds is never needed.  The
\* rate cached in the pool is the sum of the rates of its buckets, and the oldest time, which
\* decides whether ended buckets are looked for, is their first.
ReturnsAreOwed ==
    /\ unlent + pool.proceeds = added
    /\ pool.proceeds = pool.pending_bucket_proceeds
                       + Total([t \in DOMAIN buckets |-> buckets[t] * (total_intervals - Elapsed(pool.last_dist_time, t))])
    /\ pool.current_rate_of_increase = Total(buckets)
    /\ pool.oldest_bucket_time = Oldest(buckets)

\* A bucket and its span after the last fee, an up-to-date pool has added all of it, and no rate is left
\* running: lateness of the updates never makes the owners of REX wait longer.
PaidInFull ==
    (pool.created /\ pool.last_dist_time >= lastFee + bucket_interval + Span)
        => unlent = added /\ pool.current_rate_of_increase = 0
=============================================================================
