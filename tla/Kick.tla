-------------------------------- MODULE Kick --------------------------------
(***************************************************************************)
(* Missed blocks: onblock counts, per cycle of the schedule, the blocks    *)
(* each scheduled producer still owes (system_kick.cpp), charges what is   *)
(* left when a producer is seen a second time, and deactivates, kicks,     *)
(* those who missed too much of the rotation period (system_rotation.cpp). *)
(* The election of module Rotation runs in the same onblock.               *)
(*                                                                         *)
(* The chain side is external: slot by slot the scheduled producer makes   *)
(* its block or misses it.  Statistics nothing reads (times_kicked, its    *)
(* penalty, the lifetime counters) are left out.                           *)
(***************************************************************************)
EXTENDS Rotation, FiniteSetsExt

CONSTANTS
    FirstRanking,         \* the ranking when the network is activated
    System,               \* the account eosio, which produces until a schedule is active
    MAX_BLOCK_PER_CYCLE,  \* blocks in a producer's turn (12)
    KickShare,            \* one producer in KickShare may be kicked at a time (7)
    UINT32,               \* 2^32, where uint32_t wraps
    Slack,                \* blocks of a turn the count may lose at a change of the schedule
    MaxCorrection,        \* bound: block_counter_correction stops here, above a turn
    MaxMisses,            \* bound: slots missed
    MaxChanges            \* bound: registrations, votes and removals

ASSUME KickAssumption ==
    /\ FirstRanking \in Rankings
    /\ System \notin Producers \cup {NoName}
    /\ MAX_BLOCK_PER_CYCLE \in Nat \ {0} /\ KickShare \in Nat \ {0} /\ Slack \in Nat
    /\ MaxCorrection \in Nat /\ MaxMisses \in Nat /\ MaxChanges \in Nat
    /\ UINT32 \in Nat /\ UINT32 > MAX_BLOCK_PER_CYCLE + MaxCorrection /\ MaxCorrection > MAX_BLOCK_PER_CYCLE

VARIABLES
    active,       \* producers with is_active
    metric,       \* producers_metric: [bp_name, missed_blocks_per_cycle]
    correction,   \* block_counter_correction
    lastCaller,   \* last_onblock_caller
    missed,       \* missed_blocks_per_rotation of each producer
    turn, inTurn, \* external: whose turn it is in the active schedule, and which of its slots
    debt,         \* history: slots with no onblock less blocks charged, not below 0 after a change of schedule
    misses, changes   \* the bounded events used up

missVars == <<metric, correction, lastCaller, missed, debt>>
kickVars == <<vars, active, missVars, turn, inTurn, misses, changes>>

Names(m) == {m[i].bp_name : i \in DOMAIN m}
Fresh(s) == [i \in DOMAIN s |-> [bp_name |-> s[i], missed_blocks_per_cycle |-> MAX_BLOCK_PER_CYCLE]]

KickTypeOK ==
    /\ TypeOK
    /\ active \subseteq Producers /\ Range(ranking) \subseteq active
    /\ metric \in Seq([bp_name : Producers, missed_blocks_per_cycle : 0..(UINT32 - 1)])
    /\ correction \in -3..MaxCorrection
    /\ lastCaller \in Producers \cup {NoName, System}
    /\ missed \in [Producers -> Nat] /\ debt \in [Producers -> Int]
    /\ turn \in 0..(TOP_PRODUCERS - 1) /\ inTurn \in 0..(MAX_BLOCK_PER_CYCLE - 1)
    /\ misses \in 0..MaxMisses /\ changes \in 0..MaxChanges

\* Everybody is registered.
KickInit ==
    /\ Init
    /\ active = Producers /\ ranking = FirstRanking
    /\ metric = <<>> /\ correction = 0 /\ lastCaller = NoName
    /\ missed = [p \in Producers |-> 0] /\ debt = [p \in Producers |-> 0]
    /\ turn = 0 /\ inTurn = 0 /\ misses = 0 /\ changes = 0
\* A slot of p with no block, or with a block whose onblock failed (a turn at most is remembered).
Owe(p) == IF p = System THEN debt ELSE [debt EXCEPT ![p] = Min({@ + 1, MAX_BLOCK_PER_CYCLE})]
\* A schedule is proposed or activated, or the count starts over, in the middle of a turn:
\* what was charged too much before is settled.
Settle(d) == [p \in Producers |-> Max({d[p], 0})]
-----------------------------------------------------------------------------
crossed_missed_blocks_threshold(n, size) == size > 1 /\ 100 * n > 15 * (RotationPeriod \div (size - 1))

\* mutant: the producer of the block is given a full turn
ResetAll(m, p) == Fresh([i \in DOMAIN m |-> m[i].bp_name])
\* p is the producer whose block starts the new cycle, NoName when there is none.
reset_schedule_metrics(m, p) ==
    [i \in DOMAIN m |-> [m[i] EXCEPT !.missed_blocks_per_cycle =
        IF m[i].bp_name = p THEN MAX_BLOCK_PER_CYCLE - 1 ELSE MAX_BLOCK_PER_CYCLE]]

update_producer_missed_blocks(m, p) ==
    [i \in DOMAIN m |-> IF m[i].bp_name = p /\ m[i].missed_blocks_per_cycle > 0
                        THEN [m[i] EXCEPT !.missed_blocks_per_cycle = @ - 1] ELSE m[i]]

\* The comparison of the two sorted lists of names, made when they have the same length.
is_new_schedule_activated == /\ lastSize = Len(Head(schedules))
                             /\ Names(metric) = Range(Head(schedules))

\* The first block under an activated schedule: blocks of eosio are taken off the
\* producer's count (in uint32_t), anything else starts over and skips three turns.
LeaveCorrection(p) ==
    IF lastCaller = System
    THEN [caller |-> p, corr |-> correction,
          metric |-> [i \in DOMAIN metric |-> IF metric[i].bp_name = p
                        THEN [metric[i] EXCEPT !.missed_blocks_per_cycle = (@ - correction) % UINT32]
                        ELSE metric[i]]]
    ELSE [caller |-> p, corr |-> -3, metric |-> reset_schedule_metrics(metric, NoName)]

AfterCorrection(p) ==
    IF correction > 0 THEN LeaveCorrection(p)
    ELSE [caller |-> lastCaller, corr |-> correction, metric |-> metric]
\* While the correction is negative every change of producer brings it nearer to 0.
AfterSkipping(p) ==
    LET s == AfterCorrection(p)
    IN  IF s.corr < 0 THEN [s EXCEPT !.corr = IF s.caller # p THEN @ + 1 ELSE @, !.caller = p] ELSE s

SeenBefore(m, p) == \E i \in DOMAIN m : m[i].bp_name = p /\ m[i].missed_blocks_per_cycle # MAX_BLOCK_PER_CYCLE

\* check_missed_blocks: the new metrics, whether they are to be charged (its result) and
\* whether it held an election because the producer is no longer active.
CountUp(c) == Min({c + 1, MaxCorrection})
Result(caller, corr, m, charge, elect) ==
    [caller |-> caller, corr |-> corr, metric |-> m, charge |-> charge, elect |-> elect]
check_missed_blocks(p) ==
    LET s == AfterSkipping(p)
    IN  CASE p = System -> Result(p, CountUp(correction), metric, FALSE, FALSE)
          [] p # System /\ ~is_new_schedule_activated ->
                Result(p, IF lastCaller # p THEN 1 ELSE CountUp(correction), metric, FALSE, FALSE)
          [] OTHER ->
                IF s.corr < 0 THEN Result(s.caller, s.corr, s.metric, FALSE, FALSE)
                ELSE IF p \notin active
                THEN Result(s.caller, s.corr, reset_schedule_metrics(s.metric, NoName), FALSE, TRUE)
                ELSE IF s.caller # p /\ SeenBefore(s.metric, p)
                THEN Result(p, s.corr, s.metric, TRUE, FALSE)
                ELSE Result(p, s.corr, update_producer_missed_blocks(s.metric, p), FALSE, FALSE)

\* update_missed_blocks_per_rotation: what is left of the cycle is charged ...
Charge(m, p) == IF p \in active /\ p \in Names(m)
                THEN (CHOOSE i \in DOMAIN m : m[i].bp_name = p) ELSE 0
Charged(m) == [p \in Producers |->
    IF Charge(m, p) = 0 THEN 0 ELSE m[Charge(m, p)].missed_blocks_per_cycle]
\* ... and the worst offenders are kicked, on a tie those with fewer votes.
Worse(n, p, q) == n[p] > n[q] \/ (n[p] = n[q] /\ IndexOf(ranking, p) >= IndexOf(ranking, q))
\* mutant: the number of kicks is not limited
KickAll(m, n) == {{p \in Names(m) \cap active : crossed_missed_blocks_threshold(n[p], Len(m))}}
Kicked(m, n) ==
    LET over == {p \in Names(m) \cap active : n[p] > 0 /\ crossed_missed_blocks_threshold(n[p], Len(m))}
        max  == Len(m) \div KickShare
    IN  {K \in SUBSET over : /\ Cardinality(K) = Min({max, Cardinality(over)})
                             /\ \A p \in K, q \in over \ K : Worse(n, p, q)}

-----------------------------------------------------------------------------
\* External: the producer whose slot it is; eosio until the first schedule is active.
Scheduled == IF Head(schedules) = <<>> THEN System ELSE Head(schedules)[turn + 1]
NextSlot == /\ inTurn' = (inTurn + 1) % MAX_BLOCK_PER_CYCLE
            /\ turn' = IF inTurn + 1 < MAX_BLOCK_PER_CYCLE \/ Head(schedules) = <<>> THEN turn
                       ELSE (turn + 1) % Len(Head(schedules))

\* mutant: the metrics are replaced although the chain ignored the schedule
MetricsOfElected(r, m) == IF CanElect(Candidates(r)) THEN Fresh(Elected(r)) ELSE m
\* The metrics after an election with the ranking r.
MetricsAfter(r, m) == IF Proposes(r) THEN Fresh(Elected(r)) ELSE m
\* The charges restart_missed_blocks_per_rotation leaves.
MissedAfter(r, m) == IF Rotates(r) THEN [q \in Producers |-> IF q \in Range(Candidates(r)) THEN 0 ELSE m[q]] ELSE m

\* onblock for the block of p, with the kicks K chosen among the possible ones.
OnBlock(p, o, n, K) ==
    LET r      == Without(ranking, K)
        elects == o.elect \/ UpdateDue
        left   == [q \in Producers |-> IF q \in K THEN 0 ELSE n[q]]
        m      == IF o.charge THEN reset_schedule_metrics(o.metric, p) ELSE o.metric
    IN  /\ ~(elects /\ Aborts(r))
        /\ active' = active \ K
        /\ ranking' = r
        /\ correction' = o.corr
        /\ lastCaller' = o.caller
        /\ IF elects THEN UpdateElectedProducers(r) ELSE PassSlot
        /\ metric' = IF elects THEN MetricsAfter(r, m) ELSE m
        /\ missed' = IF elects THEN MissedAfter(r, left) ELSE left
        /\ LET d == [q \in Producers |-> debt[q] - (n[q] - missed[q])]
           IN  debt' = IF o.elect \/ metric' # m THEN Settle(d) ELSE d

\* The block's producer and, when a cycle is complete, the new charges and the possible kicks.
ChargesOf(o) == [q \in Producers |-> missed[q] + IF o.charge THEN Charged(o.metric)[q] ELSE 0]
KicksOf(o)   == IF o.charge THEN Kicked(o.metric, ChargesOf(o)) ELSE {{}}

Produce ==
    LET o == check_missed_blocks(Scheduled)
    IN  /\ \E K \in KicksOf(o) : OnBlock(Scheduled, o, ChargesOf(o), K)
        /\ NextSlot
        /\ UNCHANGED <<misses, changes>>

\* The chain refuses the schedule: onblock is undone as a whole, the block stands.
ProduceAborted ==
    LET o == check_missed_blocks(Scheduled)
    IN  /\ o.elect \/ UpdateDue
        /\ \E K \in KicksOf(o) : Aborts(Without(ranking, K))
        /\ debt' = Owe(Scheduled)
        /\ PassSlot /\ NextSlot
        /\ UNCHANGED <<ranking, active, metric, correction, lastCaller, missed, misses, changes>>

Miss == /\ Scheduled # System /\ misses < MaxMisses
        /\ misses' = misses + 1
        /\ debt' = Owe(Scheduled)
        /\ PassSlot /\ NextSlot
        /\ UNCHANGED <<ranking, active, metric, correction, lastCaller, missed, changes>>

KickActivate == /\ Activate
                /\ turn' \in 0..(Len(schedules[2]) - 1)
                /\ debt' = Settle(debt)
                /\ UNCHANGED <<active, metric, correction, lastCaller, missed, inTurn, misses, changes>>
-----------------------------------------------------------------------------
Change == changes < MaxChanges /\ changes' = changes + 1
          /\ UNCHANGED <<metric, correction, lastCaller, debt, turn, inTurn, misses>>

\* A deactivated producer leaves the index of the active ones; it comes back with its votes.
unregprod(p)   == /\ Change /\ p \in active /\ active' = active \ {p}
                  /\ ranking' = Without(ranking, {p})
                  /\ UNCHANGED <<rotationVars, missed>>
regproducer(p) == /\ Change /\ p \notin active /\ active' = active \cup {p}
                  /\ \E i \in 1..(Len(ranking) + 1) : ranking' = InsertAt(ranking, i, p)
                  /\ UNCHANGED <<rotationVars, missed>>
votebpout(p)   == /\ Change /\ active' = active \ {p}
                  /\ ranking' = Without(ranking, {p})
                  /\ missed' = [missed EXCEPT ![p] = 0]
                  /\ UNCHANGED rotationVars
KickNewKey     == Change /\ NewKey /\ UNCHANGED <<active, missed>>

KickNext ==
    \/ Produce \/ ProduceAborted \/ Miss \/ KickActivate \/ KickNewKey
    \/ \E p \in Producers : unregprod(p) \/ regproducer(p) \/ votebpout(p)

KickSpec == KickInit /\ [][KickNext]_kickVars
-----------------------------------------------------------------------------
\* is_new_schedule_activated indexes the metrics by the size of the active schedule once
\* last_producer_schedule_size has that value: the metrics always have an entry for every
\* producer of the last accepted schedule, in its order, and no other.
MetricsFollowSchedule == /\ Len(metric) = lastSize
                         /\ [i \in DOMAIN metric |-> metric[i].bp_name] = Last(schedules)

\* However many producers miss their blocks, one onblock takes at most the KickShare-th
\* part of the schedule out of the index, and only producers with charged misses.
KicksAreBounded ==
    [][Produce => /\ Cardinality(active \ active') <= Len(metric) \div KickShare
                  /\ \A p \in active \ active' :
                        \/ missed[p] > 0
                        \/ \E i \in DOMAIN metric : /\ metric[i].bp_name = p
                                                    /\ metric[i].missed_blocks_per_cycle > 0]_kickVars

\* One cycle charges a producer one turn at most, although the count of the cycle wraps below
\* zero when the blocks of eosio are taken off it.
ChargesFitTurn ==
    \A p \in Producers : ChargesOf(check_missed_blocks(Scheduled))[p] - missed[p] <= MAX_BLOCK_PER_CYCLE

\* A producer is charged only for blocks it missed: what system_rotation.cpp adds to
\* missed_blocks_per_rotation never exceeds the slots it left empty by more than Slack
\* blocks per change of the schedule, which may cut the turn it is counted in; and never
\* more than one turn at a time.
OnlyMissedAreCharged == (\A p \in Producers : debt[p] >= -Slack) /\ ChargesFitTurn
=============================================================================
