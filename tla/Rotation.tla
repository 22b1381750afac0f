------------------------------ MODULE Rotation ------------------------------
(***************************************************************************)
(* The election of the block producers and their rotation: the once a      *)
(* minute update of the proposed schedule made by onblock                  *)
(* (update_elected_producers, voting.cpp) and the replacement of one of    *)
(* the TOP_PRODUCERS by a standby for twelve hours (check_rotation_state,  *)
(* system_rotation.cpp).                                                   *)
(*                                                                         *)
(* The votes index is the sequence of the active producers with votes,     *)
(* best first; votes, registrations and deactivations change it between    *)
(* two blocks.  The two deadlines are kept relative to the slot of the     *)
(* next block, so that the state space is finite with time unbounded.      *)
(***************************************************************************)
EXTENDS Integers, Sequences, SequencesExt, FiniteSets

CONSTANTS
    Producers,       \* the accounts registered as producers
    NoName,          \* name(0)
    Location,        \* the location each producer registered with
    TOP_PRODUCERS,   \* size of a full schedule (21)
    MAX_PRODUCERS,   \* candidates considered in an update (35)
    RotationPeriod,  \* slots between two rotations (12 hours)
    UpdatePeriod,    \* slots between two updates of the schedule (120)
    MaxQueued        \* schedules the chain keeps on their way to activation

ASSUME RotationAssumption ==
    /\ IsFiniteSet(Producers) /\ NoName \notin Producers
    /\ Location \in [Producers -> Nat]
    /\ TOP_PRODUCERS \in Nat \ {0} /\ MAX_PRODUCERS \in Nat
    /\ TOP_PRODUCERS < MAX_PRODUCERS
    /\ RotationPeriod \in Nat \ {0} /\ UpdatePeriod \in Nat /\ MaxQueued \in Nat \ {0}

VARIABLES
    ranking,          \* index prototalvote: active producers with votes, best first
    rotation,         \* rotation_state without its times
    rotationDue,      \* slots until next_rotation_time
    sinceUpdate,      \* slots since last_producer_schedule_update
    lastSize,         \* last_producer_schedule_size
    schedules,        \* external: the chain's active schedule, then the accepted proposals
    rekeyed           \* a scheduled producer has a new signing key since the last proposal

rotationVars == <<rotation, rotationDue, sinceUpdate, lastSize, schedules, rekeyed>>
vars == <<ranking, rotationVars>>

Rankings == {r \in UNION {[1..n -> Producers] : n \in 0..Cardinality(Producers)} : IsInjective(r)}
\* The producers update_elected_producers looks at.
Candidates(r) == SubSeq(r, 1, IF Len(r) > MAX_PRODUCERS THEN MAX_PRODUCERS ELSE Len(r))
\* The position of a producer counted from 0; Len(prods), prods.end(), when it is not there.
IndexOf(prods, p) == IF p \in Range(prods) THEN (CHOOSE i \in 1..Len(prods) : prods[i] = p) - 1
                                           ELSE Len(prods)
is_in_range(i, low, up) == i >= low /\ i < up
\* The members of I as a sequence, in the order R.
Listed(I, R) == [k \in 1..Cardinality(I) |-> CHOOSE i \in I : Cardinality({j \in I : <<j, i>> \in R}) = k - 1]
\* The index r without the producers K.
Kept(r, K) == {i \in DOMAIN r : r[i] \notin K}
Without(r, K) == LET order == {e \in Kept(r, K) \X Kept(r, K) : e[1] < e[2]}
                 IN  [k \in 1..Cardinality(Kept(r, K)) |-> r[Listed(Kept(r, K), order)[k]]]

TypeOK ==
    /\ ranking \in Rankings
    /\ rotation \in [bp_currently_out : Producers \cup {NoName}, sbp_currently_in : Producers \cup {NoName},
                     bp_out_index : 0..TOP_PRODUCERS, sbp_in_index : TOP_PRODUCERS..(2 * MAX_PRODUCERS + 5)]
    /\ rotationDue \in 0..RotationPeriod
    /\ sinceUpdate \in 0..(UpdatePeriod + 1)
    /\ lastSize \in 0..TOP_PRODUCERS
    /\ schedules \in Seq(Seq(Producers)) /\ Len(schedules) \in 1..(MaxQueued + 1)
    /\ rekeyed \in BOOLEAN

\* The rotation record the constructor creates; 75 stands for any index above the last one.
Init ==
    /\ ranking \in Rankings
    /\ rotation = [bp_currently_out |-> NoName, sbp_currently_in |-> NoName,
                   bp_out_index |-> TOP_PRODUCERS, sbp_in_index |-> 2 * MAX_PRODUCERS + 5]
    /\ rotationDue = 0
    /\ sinceUpdate = UpdatePeriod + 1
    /\ lastSize = 0
    /\ schedules = << <<>> >>
    /\ rekeyed = FALSE
-----------------------------------------------------------------------------
set_bps_rotation(rot, out, in) == [rot EXCEPT !.bp_currently_out = out, !.sbp_currently_in = in]

NextOut(rot) == IF rot.bp_out_index >= TOP_PRODUCERS - 1 THEN 0 ELSE rot.bp_out_index + 1

\* mutant: the last candidate is never called in
NextInShort(rot, n) == IF rot.sbp_in_index >= n - 2 THEN TOP_PRODUCERS ELSE rot.sbp_in_index + 1
NextIn(rot, n) == IF rot.sbp_in_index >= n - 1 THEN TOP_PRODUCERS ELSE rot.sbp_in_index + 1

\* A new pair is chosen: the next of the top producers leaves, the next standby comes in.
Rotate(rot, prods) ==
    LET out == NextOut(rot)
        in  == NextIn(rot, Len(prods))
    IN  set_bps_rotation([rot EXCEPT !.bp_out_index = out, !.sbp_in_index = in],
                         prods[out + 1], prods[in + 1])

\* mutant: a pair is kept although one of the two is no longer a candidate
KeepAlways(rot, prods) == rot
\* Between two rotations the pair is kept while both are candidates and, above
\* TOP_PRODUCERS candidates, stand on their own side of the boundary.
Keep(rot, prods) ==
    LET bp      == IndexOf(prods, rot.bp_currently_out)
        sbp     == IndexOf(prods, rot.sbp_currently_in)
        cleared == set_bps_rotation(rot, NoName, NoName)
    IN  CASE rot.bp_currently_out = NoName \/ rot.sbp_currently_in = NoName -> rot
          [] bp = Len(prods) \/ sbp = Len(prods) ->
                IF Len(prods) < TOP_PRODUCERS
                THEN [cleared EXCEPT !.bp_out_index = TOP_PRODUCERS, !.sbp_in_index = MAX_PRODUCERS + 1]
                ELSE cleared
          [] Len(prods) > TOP_PRODUCERS
             /\ (~is_in_range(bp, 0, TOP_PRODUCERS) \/ ~is_in_range(sbp, TOP_PRODUCERS, MAX_PRODUCERS)) -> cleared
          [] OTHER -> rot

Due == rotationDue = 0
CheckedRotation(prods) ==
    CASE Due /\ Len(prods) > TOP_PRODUCERS -> Rotate(rotation, prods)
      [] Due /\ Len(prods) <= TOP_PRODUCERS -> rotation
      [] OTHER -> Keep(rotation, prods)
\* Is the pair of the rotation record applied to the schedule being built?
Applied(prods) == IF Due THEN Len(prods) > TOP_PRODUCERS
                         ELSE /\ CheckedRotation(prods).bp_currently_out # NoName
                              /\ CheckedRotation(prods).sbp_currently_in # NoName
\* mutant: the place that was exchanged is found by its old index
StepsDownAt(rot, prods, i) == i - 1 = rot.bp_out_index
StepsDown(rot, prods, i) == prods[i] = rot.bp_currently_out
Places(n) == IF n > TOP_PRODUCERS THEN TOP_PRODUCERS ELSE n
\* The schedule check_rotation_state builds, in the order of the votes.
TopProducers(prods) ==
    LET rot == CheckedRotation(prods)
        all == [i \in DOMAIN prods |->
                   IF Applied(prods) /\ StepsDown(rot, prods, i) THEN rot.sbp_currently_in ELSE prods[i]]
    IN  SubSeq(all, 1, Places(Len(prods)))
\* What std::sort by location makes of s; producers of one location come in any order.
IsSorting(s, t) ==
    /\ \A i, j \in DOMAIN s : i < j => Location[t[i]] <= Location[t[j]]
    /\ \E at \in [DOMAIN s -> DOMAIN s] : IsInjective(at) /\ \A i \in DOMAIN s : t[i] = s[at[i]]
ByLocation[s \in Seq(Producers)] == CHOOSE t \in [DOMAIN s -> Range(s)] : IsSorting(s, t)

\* External: set_proposed_producers refuses a schedule that repeats a producer and
\* with it the whole onblock; it ignores one it already has or cannot take yet.
Refused(s)  == ~IsInjective(s)
Accepted(s) == (s # Last(schedules) \/ rekeyed) /\ Len(schedules) <= MaxQueued

CanElect(prods) == Len(prods) # 0 /\ Len(prods) >= lastSize

\* The outcome of update_elected_producers for the ranking r.
Elected(r)  == ByLocation[TopProducers(Candidates(r))]
Aborts(r)   == CanElect(Candidates(r)) /\ Refused(Elected(r))

\* The clocks as the next block sees them, one slot later.
Later(due)   == IF due = 0 THEN 0 ELSE due - 1
Older(since) == IF since > UpdatePeriod THEN since ELSE since + 1

Proposes(r) == CanElect(Candidates(r)) /\ Accepted(Elected(r))
Rotates(r)  == CanElect(Candidates(r)) /\ Due

UpdateElectedProducers(r) ==
    /\ sinceUpdate' = Older(0)
    /\ IF CanElect(Candidates(r))
       THEN /\ rotation' = CheckedRotation(Candidates(r))
            /\ rotationDue' = Later(IF Due THEN RotationPeriod ELSE rotationDue)
            /\ schedules' = IF Accepted(Elected(r)) THEN Append(schedules, Elected(r)) ELSE schedules
            /\ lastSize' = IF Accepted(Elected(r)) THEN Len(Elected(r)) ELSE lastSize
            /\ rekeyed' = (rekeyed /\ ~Accepted(Elected(r)))
       ELSE rotationDue' = Later(rotationDue) /\ UNCHANGED <<rotation, schedules, lastSize, rekeyed>>

\* A slot passes without an election.
PassSlot ==
    /\ rotationDue' = Later(rotationDue)
    /\ sinceUpdate' = Older(sinceUpdate)
    /\ UNCHANGED <<rotation, lastSize, schedules, rekeyed>>

UpdateDue == sinceUpdate > UpdatePeriod

\* The part of onblock that elects.  When the chain refuses the schedule the whole
\* onblock is undone, the time of the update included, and the next block tries again.
OnBlockElects   == /\ UpdateDue /\ ~Aborts(ranking)
                   /\ UpdateElectedProducers(ranking) /\ UNCHANGED ranking
OnBlockWaits    == (~UpdateDue \/ Aborts(ranking)) /\ PassSlot /\ UNCHANGED ranking
\* A slot whose producer is offline.
MissedSlot      == PassSlot /\ UNCHANGED ranking
\* External to this module: votes, regproducer, unregprod and kicks change the index, one
\* producer at a time: it comes in last, leaves, or passes its predecessor.
ComesIn(p) == p \notin Range(ranking) /\ ranking' = Append(ranking, p)
Leaves(i)  == ranking' = Without(ranking, {ranking[i]})
Passes(i)  == i > 1 /\ ranking' = [ranking EXCEPT ![i] = ranking[i - 1], ![i - 1] = ranking[i]]
RankingChanges == /\ (\E p \in Producers : ComesIn(p)) \/ (\E i \in DOMAIN ranking : Leaves(i) \/ Passes(i))
                  /\ UNCHANGED rotationVars
\* External: the chain makes the oldest accepted schedule the active one.
Activate        == Len(schedules) > 1 /\ schedules' = Tail(schedules)
                   /\ UNCHANGED <<ranking, rotation, rotationDue, sinceUpdate, lastSize, rekeyed>>

\* regproducer by a scheduled producer with another signing key.
NewKey          == Last(schedules) # <<>> /\ ~rekeyed /\ rekeyed' = TRUE
                   /\ UNCHANGED <<ranking, rotation, rotationDue, sinceUpdate, lastSize, schedules>>

Next == OnBlockElects \/ OnBlockWaits \/ MissedSlot \/ RankingChanges \/ NewKey \/ Activate
\* The chain keeps producing blocks and activates the schedules it accepted.
Spec == Init /\ [][Next]_vars /\ WF_vars(OnBlockElects \/ OnBlockWaits) /\ WF_vars(Activate)
-----------------------------------------------------------------------------
\* Everybody on a schedule is, when it is proposed, an active producer with votes among
\* the MAX_PRODUCERS first: the standby remembered for hours in the rotation record is
\* put in only while it still is a candidate.  With more than TOP_PRODUCERS candidates at
\* most one of the top producers is missing, and it is replaced by exactly one standby.
OneSwapAtMost ==
    [][Len(schedules') > Len(schedules) =>
        LET top == {ranking[i] : i \in 1..TOP_PRODUCERS}
            new == Range(Last(schedules'))
        IN  /\ new \subseteq Range(Candidates(ranking))
            /\ Len(Candidates(ranking)) > TOP_PRODUCERS =>
                /\ Cardinality(new) = TOP_PRODUCERS
                /\ \/ new = top
                   \/ \E out \in top, in \in Range(Candidates(ranking)) \ top :
                         /\ new = (top \ {out}) \cup {in}
                         /\ rotation'.bp_currently_out = out /\ rotation'.sbp_currently_in = in]_vars

\* The burden is shared: once the ranking is stable with standbys available, the producer of every
\* top place steps down again and again and every standby is called in again and again.
Stable     == <>[][FALSE]_ranking /\ <>[](Len(ranking) > TOP_PRODUCERS)
Holds(i, p) == i \in DOMAIN ranking /\ ranking[i] = p
EveryoneTakesTurns ==
    /\ \A i \in 1..TOP_PRODUCERS : Stable => []<>Holds(i, rotation.bp_currently_out)
    /\ \A i \in (TOP_PRODUCERS + 1)..MAX_PRODUCERS :
          Stable /\ <>[](i \in DOMAIN ranking) => []<>Holds(i, rotation.sbp_currently_in)

\* The chain refuses a schedule, and with it the whole onblock, in one case only: between two
\* rotations, when the candidates have dropped to TOP_PRODUCERS or fewer (never below the size of
\* the last schedule) while both of the pair in force are still among them, so that the standby
\* would be scheduled twice.
OnlyFewAbort ==
    Aborts(ranking) => /\ ~Due
                       /\ Len(Candidates(ranking)) \in lastSize..TOP_PRODUCERS
                       /\ {rotation.bp_currently_out, rotation.sbp_currently_in} \subseteq Range(Candidates(ranking))
=============================================================================
