---------------------------- MODULE ProducerPay ----------------------------
(***************************************************************************)
(* The pay of the block producers (producer_pay.cpp): onblock counts the   *)
(* blocks, and from time to time fills the bucket with new tokens and      *)
(* splits it among the best ranked producers (claimrewards_snapshot);      *)
(* claimrewards pays out what was set aside.                               *)
(*                                                                         *)
(* Multipliers are in hundredths, and the arithmetic on doubles is exact   *)
(* division.  The network is activated.  Registration and votes are kept   *)
(* to what the order of the producers depends on; the amounts of a fill,   *)
(* which depend on the price oracle and on the time, are arbitrary.        *)
(***************************************************************************)
EXTENDS BlockInfo, Sequences, Functions, Sums

CONSTANTS
    Producers,       \* producers with a row, in the order of their names
    MAX_PRODUCERS,   \* producers paid (35)
    Votes,           \* the values of total_votes
    Fills,           \* the values of to_producers and of to_workers in a fill
    ClaimPeriod,     \* slots between two snapshots (3600)
    Gaps,            \* bound: slots from one block to the next
    Endowment,       \* tokens of eosio.tedp at the start
    MaxBlocks,       \* bound: number of blocks
    MaxChanges       \* bound: number of registrations and votes

ASSUME PayAssumption ==
    /\ Producers \in Seq(STRING) /\ IsInjective(Producers)
    /\ MAX_PRODUCERS \in 1..35
    /\ Votes \subseteq Nat /\ Fills \subseteq Nat \X Nat
    /\ ClaimPeriod \in Nat /\ Gaps \subseteq Nat \ {0} /\ Endowment \in Nat /\ MaxBlocks \in Nat /\ MaxChanges \in Nat

VARIABLES
    active, votes, unpaid,   \* producers: is_active, total_votes, unpaid_blocks
    total_unpaid_blocks,
    perblock_bucket,
    rows, payments,          \* payments: the producers with a row, and their pay
    sinceClaim,              \* slots since last_claimrewards
    bpay, tedp, works, self, \* tokens of eosio.bpay, eosio.tedp, works.decide and eosio
    changes                  \* the bounded events used up

vars == <<active, votes, unpaid, total_unpaid_blocks, perblock_bucket, rows, payments, sinceClaim,
          bpay, tedp, works, self, changes, blockInfoVars>>

Names == Range(Producers)
None  == "none"   \* a block of a producer without a row

TypeOK ==
    /\ active \subseteq Names /\ votes \in [Names -> Votes] /\ unpaid \in [Names -> 0..MaxBlocks]
    /\ total_unpaid_blocks \in 0..MaxBlocks
    /\ perblock_bucket \in Int /\ rows \subseteq Names /\ payments \in [Names -> Int]
    /\ sinceClaim \in 0..ClaimPeriod
    /\ bpay \in Nat /\ tedp \in 0..Endowment /\ works \in Nat /\ self \in Int
    /\ height \in 0..MaxBlocks /\ changes \in 0..MaxChanges

Init ==
    /\ active \in SUBSET Names /\ votes \in [Names -> Votes]
    /\ unpaid = [p \in Names |-> 0] /\ total_unpaid_blocks = 0
    /\ perblock_bucket = 0 /\ rows = {} /\ payments = [p \in Names |-> 0]
    /\ sinceClaim = 0
    /\ bpay = 0 /\ tedp = Endowment /\ works = 0 /\ self = 0
    /\ BlockInfoInit /\ changes = 0
-----------------------------------------------------------------------------
\* static_cast<int64_t>: towards zero.
Truncated(a, b) == IF a >= 0 THEN a \div b ELSE 0 - ((0 - a) \div b)

\* The multiplier of a rank, in hundredths.
Multiplier(i) == IF i <= 21 THEN 2 * (122 - 2 * i) ELSE 164 - 2 * i

\* mutant: the count is halved as an integer
HalvedCount(n) ==
    IF n <= 21 THEN (n \div 2) * (240 - (n - 1) * 2) * 2
               ELSE 4200 + ((n - 21) \div 2) * (240 - (n - 22) * 2)
\* sum_of_multipliers, in hundredths.
SumOfMultipliers(n) ==
    IF n <= 21 THEN n * (240 - (n - 1) * 2)
               ELSE 4200 + ((n - 21) * (240 - (n - 22) * 2)) \div 2

\* The producers in the order of the index prototalvote: the key, then the name.
Key(p) == IF p \in active THEN 0 - votes[p] ELSE votes[p]
NameOf(p) == CHOOSE i \in DOMAIN Producers : Producers[i] = p
Before(p, q) == Key(p) < Key(q) \/ (Key(p) = Key(q) /\ NameOf(p) < NameOf(q))

Least(a, b) == IF a < b THEN a ELSE b

\* activecount: producers in front of the first that is not active, up to MAX_PRODUCERS.
ActiveCount ==
    Least(MAX_PRODUCERS, Cardinality({p \in active : \A q \in Names \ active : Before(p, q)}))

\* index: the place of a producer in the order when the inactive are skipped.
Rank(p) == Cardinality({q \in active : q = p \/ Before(q, p)})

\* The producers paid.
Paid == {p \in active : Rank(p) <= MAX_PRODUCERS}

\* mutant: every share is rounded up
RoundedUp(bucket, i, n) == Truncated(bucket * Multiplier(i), SumOfMultipliers(n)) + 1
\* The pay of rank i when n producers were counted.
Share(bucket, i, n) == Truncated(bucket * Multiplier(i), SumOfMultipliers(n))

\* A conversion of an infinite value traps: the block then has no effect on the contract.
Traps == ActiveCount = 0 /\ Paid # {}

\* mutant: the bucket counts the share of the workers too
FillsBoth(toProducers, toWorkers) == toProducers + toWorkers
\* What a fill adds to the bucket.
FillOf(toProducers, toWorkers) == toProducers

\* What eosio.tedp contributes to the new tokens.
Offset(tokens) == Least(tedp, tokens)

\* What has to be issued beyond the tokens of eosio.tedp.
Issued(tokens) == IF tedp >= tokens THEN 0 ELSE tokens - tedp

\* The snapshot proper, when the bucket is filled: every producer paid gets its share, and its
\* blocks are settled.
Split(blocksOf, total, bucket) ==
    LET share == [p \in Paid |-> Share(bucket, Rank(p), ActiveCount)]
    IN  /\ perblock_bucket' = bucket - SumOf(share, Paid)
        /\ rows' = rows \cup Paid
        /\ payments' = [p \in Names |-> IF p \in Paid THEN payments[p] + share[p] ELSE payments[p]]
        /\ unpaid' = [p \in Names |-> IF p \in Paid THEN 0 ELSE blocksOf[p]]
        /\ total_unpaid_blocks' = total - SumOf(blocksOf, Paid)
Fill(tokens, toProducers, toWorkers) ==
    /\ tedp' = tedp - Offset(tokens)
    /\ self' = self + Offset(tokens) + Issued(tokens) - tokens
    /\ works' = works + toWorkers
    /\ bpay' = bpay + toProducers
Snapshot(blocksOf, total, toProducers, toWorkers) ==
    /\ Fill(toProducers + toWorkers, toProducers, toWorkers)
    /\ Split(blocksOf, total, perblock_bucket + FillOf(toProducers, toWorkers))

Unpaid(p) == [q \in Names |-> IF q = p THEN unpaid[q] + 1 ELSE unpaid[q]]
Total(p)  == IF p \in Names THEN total_unpaid_blocks + 1 ELSE total_unpaid_blocks

\* A block gap slots after the one before.  When the snapshot traps, onblock is undone as a whole,
\* and tried again with the next block.
onblock(p, gap, due) ==
    /\ height < MaxBlocks /\ NextBlock(gap)
    /\ \/ /\ ~due \/ Total(p) <= 0
          /\ add_to_blockinfo_table(slot + gap)
          /\ unpaid' = Unpaid(p) /\ total_unpaid_blocks' = Total(p)
          /\ sinceClaim' = IF due THEN 0 ELSE sinceClaim + gap
          /\ UNCHANGED <<perblock_bucket, rows, payments, bpay, tedp, works, self>>
       \/ /\ due /\ Total(p) > 0 /\ ~Traps
          /\ add_to_blockinfo_table(slot + gap)
          /\ \E fill \in Fills : Snapshot(Unpaid(p), Total(p), fill[1], fill[2])
          /\ sinceClaim' = 0
       \/ /\ due /\ Total(p) > 0 /\ Traps
          /\ sinceClaim' = ClaimPeriod
          /\ UNCHANGED <<unpaid, total_unpaid_blocks, perblock_bucket, rows, payments, bpay, tedp, works, self, blockinfo, recorded>>
    /\ UNCHANGED <<active, votes, changes>>

claimrewards(owner) ==
    /\ owner \in active
    /\ owner \in rows
    /\ payments[owner] > 0 /\ bpay >= payments[owner]   \* else the transfer fails
    /\ bpay' = bpay - payments[owner]
    /\ rows' = rows \ {owner} /\ payments' = [payments EXCEPT ![owner] = 0]
    /\ UNCHANGED <<active, votes, unpaid, total_unpaid_blocks, perblock_bucket, sinceClaim, tedp, works, self, changes, blockInfoVars>>

\* Registration and votes, as far as the order depends on them.
Changes == changes < MaxChanges /\ changes' = changes + 1
           /\ UNCHANGED <<unpaid, total_unpaid_blocks, perblock_bucket, rows, payments, sinceClaim, bpay, tedp, works, self, blockInfoVars>>
register_producer(p) == p \notin active /\ active' = active \cup {p} /\ Changes /\ UNCHANGED votes
unregprod(p)         == p \in active /\ active' = active \ {p} /\ Changes /\ UNCHANGED votes
update_votes(p, v)   == votes[p] # v /\ votes' = [votes EXCEPT ![p] = v] /\ Changes /\ UNCHANGED active

Next == \/ \E p \in Names \cup {None}, gap \in Gaps : onblock(p, gap, sinceClaim + gap >= ClaimPeriod)
        \/ \E p \in Names : claimrewards(p) \/ register_producer(p) \/ unregprod(p)
        \/ \E p \in Names, v \in Votes : update_votes(p, v)

Spec == Init /\ [][Next]_vars
-----------------------------------------------------------------------------
\* The closed formula for sum_of_multipliers gives, for the number of producers counted and every
\* larger one up to 35, on both sides of rank 21, the sum of the multipliers the pay loop then
\* uses: it grows by the multiplier of the rank that is added.
SharesAddUp ==
    \A n \in ActiveCount..35 :
        SumOfMultipliers(n) = IF n = 0 THEN 0 ELSE SumOfMultipliers(n - 1) + Multiplier(n)

\* The tokens of eosio.bpay are the bucket and the payments set aside, through fills, snapshots
\* and claims in any order, and the system account hands on exactly what it takes from eosio.tedp
\* and issues.  total_unpaid_blocks, which decides whether there is anything to pay, is the sum over
\* the producers, also when some are inactive or beyond the last paid rank.
BpayIsAccounted == /\ bpay = perblock_bucket + SumOf(payments, rows) /\ self = 0
                   /\ total_unpaid_blocks = SumOf(unpaid, Names)

\* While everybody who has left still has votes, and so ranks behind the active ones, a snapshot
\* sets aside no more than the bucket holds, whatever was claimed, filled and changed before.
SplitWithinBucket ==
    [][perblock_bucket >= 0 /\ (\A p \in Names \ active : votes[p] > 0) => perblock_bucket' >= 0]_vars

\* The snapshot never sets aside more than the bucket holds, so every payment can be claimed.
\* The code comment: the share value is the bucket divided by the sum of the multipliers of the
\* producers that are paid.
BucketNotOverdrawn == perblock_bucket >= 0
=============================================================================
