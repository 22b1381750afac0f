------------------------------- MODULE Voting -------------------------------
(***************************************************************************)
(* Votes for producers (voting.cpp): voteproducer, voteupdate, regproxy,   *)
(* the votes that follow a change of stake (update_voting_power of         *)
(* delegate_bandwidth.cpp, updaterex of rex.cpp) and the votes cast on the *)
(* EVM (getevmvote of eosio.system.cpp).                                   *)
(*                                                                         *)
(* The weight of a vote is stake times a factor for the number of          *)
(* producers times the decay; the arithmetic on doubles is exact, and the  *)
(* boost is a whole multiple.  No new proxy can be registered: the proxies *)
(* are those an older version of the contract left behind.  What a         *)
(* voter's REX is worth, the decay and the votes on the EVM change from    *)
(* outside.  Statistics nothing reads (total_activated_stake) and the      *)
(* votepay shares, which are no longer paid, are left out.  The module     *)
(* ends where total_producer_vote_weight is negative: the next onblock     *)
(* then counts all votes anew (recalculate_votes).                         *)
(***************************************************************************)
EXTENDS Integers, FiniteSets, Sums

CONSTANTS
    Voters,       \* accounts that vote
    Producers,    \* producers with a row in producers; some of them vote too
    NoName,       \* name(0)
    Proxies,      \* voters registered as proxies by an older version
    RexOwners,    \* voters with a row in rexbal
    Factor,       \* vote weight per token, by the number of producers voted for
    MaxVotes,     \* producers a voter may vote for (30)
    Decays,       \* the multipliers the decay goes through
    Boosts,       \* the values of self_stake_boost_multiplier, in hundreds
    EvmVotes,     \* the votes a producer may have on the EVM
    UINT64,       \* 2^64, where uint64_t wraps
    MaxStake,     \* bound: tokens delegated, and worth of REX, of a voter
    MaxChanges    \* bound: changes made from outside and registrations

ASSUME VotingAssumption ==
    /\ IsFiniteSet(Voters) /\ IsFiniteSet(Producers)
    /\ NoName \notin Voters \cup Producers /\ NoName \notin EvmVotes
    /\ Proxies \subseteq Voters /\ RexOwners \subseteq Voters
    /\ MaxVotes \in Nat /\ Factor \in [0..MaxVotes -> Nat] /\ \A n \in 0..MaxVotes : Factor[n] = 0 <=> n = 0
    /\ Decays \subseteq Nat \ {0} /\ Boosts \subseteq Nat /\ 0 \in Boosts
    /\ UINT64 \in Nat \ {0} /\ EvmVotes \subseteq 0..(UINT64 - 1) /\ 0 \in EvmVotes
    /\ MaxStake \in Nat /\ MaxChanges \in Nat

VARIABLES
    voters,         \* voters: one record for each row
    rows,           \* the voters with a row
    total_votes,    \* producers: total_votes
    total_weight,   \* total_producer_vote_weight
    amiss,          \* history: the producers that were given votes nobody cast, or lost some
    active,         \* the producers that are active
    delegated,      \* delband: tokens the voter has delegated
    rex_stake,      \* rexbal: vote_stake
    rex_worth,      \* external: what the REX of the voter is worth
    decay,          \* external: the multiplier the decay has reached
    multiplier,     \* votingconfig: self_stake_boost_multiplier
    evm_votes,      \* evmvotes: the votes taken from the EVM, NoName without a row
    evm_now,        \* external: the votes in the state of the EVM contract
    changes         \* number of changes made from outside

outside == <<rex_worth, decay, multiplier, evm_now, active, changes>>
tally   == <<voters, total_votes, total_weight, amiss>>
vars    == <<tally, outside, rows, delegated, rex_stake, evm_votes>>

Voter == [staked : Nat, last_stake : Nat, last_vote_weight : Nat, proxied : Nat, is_proxy : BOOLEAN,
          producers : SUBSET Producers, proxy : Voters \cup {NoName}, boost : Boosts]

TypeOK ==
    /\ voters \in [Voters -> Voter] /\ rows \subseteq Voters
    /\ total_votes \in [Producers -> Int] /\ total_weight \in Int /\ amiss \subseteq Producers
    /\ active \subseteq Producers
    /\ delegated \in [Voters -> Nat] /\ rex_stake \in [Voters -> Nat] /\ rex_worth \in [Voters -> Nat]
    /\ decay \in Decays /\ multiplier \in Boosts
    /\ evm_votes \in [Producers -> EvmVotes \cup {NoName}] /\ evm_now \in [Producers -> EvmVotes]
    /\ changes \in 0..MaxChanges

Init ==
    /\ voters = [v \in Voters |-> [staked |-> 0, last_stake |-> 0, last_vote_weight |-> 0, proxied |-> 0,
                                   is_proxy |-> v \in Proxies, producers |-> {}, proxy |-> NoName, boost |-> 0]]
    /\ rows = Proxies \cup RexOwners
    /\ total_votes = [p \in Producers |-> 0] /\ total_weight = 0 /\ amiss = {}
    /\ active = Producers
    /\ delegated = [v \in Voters |-> 0]
    /\ rex_stake = [v \in Voters |-> 0] /\ rex_worth = [v \in Voters |-> 0]
    /\ decay \in Decays /\ multiplier = 0
    /\ evm_votes = [p \in Producers |-> NoName] /\ evm_now = [p \in Producers |-> 0]
    /\ changes = 0
-----------------------------------------------------------------------------
(* The tables update_votes works on, as one record: they are changed in    *)
(* several places, of several voters, in one action.                       *)

Tables == [voters |-> voters, votes |-> total_votes, weight |-> total_weight, amiss |-> amiss]
Become(t) == voters' = t.voters /\ total_votes' = t.votes /\ total_weight' = t.weight /\ amiss' = t.amiss

inverse_vote_weight(stake, n) == stake * Factor[n]

\* The stake a row stands for: a proxy's includes what others gave to it.
StakeOf(row) == row.staked + (IF row.is_proxy THEN row.proxied ELSE 0)

\* The sum of a table that may hold negative amounts.
Sum(f) == SumOf(f, DOMAIN f)

\* Add delta[p] to the votes of each producer; votes stop at 0, the weight does not.
AddVotes(t, delta) ==
    [t EXCEPT !.votes  = [p \in Producers |-> IF @[p] + delta[p] < 0 THEN 0 ELSE @[p] + delta[p]],
              !.weight = @ + Sum(delta)]

\* History: x votes for itself, and its boost is not applied to the change of its weight to w.
Misses(row, x, w) == IF x \in row.producers /\ row.boost # 0 /\ w # row.last_vote_weight THEN {x} ELSE {}

\* The votes of a proxy after its stake changed: without decay, and without the boost of a
\* proxy that votes for itself, which the next vote takes back all the same.  A former proxy
\* that uses a proxy itself has no producers, and its stake is up to date (VotesFollowStake), so
\* that the weight does not go further.
propagate_weight_change(t, x) ==
    LET row == t.voters[x]
        w   == inverse_vote_weight(StakeOf(row), Cardinality(row.producers))
        d   == [p \in Producers |-> IF p \in row.producers THEN w - row.last_vote_weight ELSE 0]
    IN  [t EXCEPT !.voters[x].last_vote_weight = w, !.voters[x].last_stake = StakeOf(row),
                  !.votes = [p \in Producers |-> @[p] + d[p]], !.weight = @ + Sum(d),
                  !.amiss = @ \cup Misses(row, x, w)]

\* The votes of v that count before the change, and those it casts.
Removed(row) == IF row.last_stake > 0 /\ row.proxy = NoName THEN row.producers ELSE {}

\* mutant: the boost of the last vote is not taken back
KeepsBoost(row, v, p) == row.last_vote_weight
\* What v gave to a producer, and to itself.
OldVote(row, v, p) == row.last_vote_weight * (IF p = v THEN 1 + row.boost ELSE 1)
NewVote(w, v, p)   == w * (IF p = v THEN 1 + multiplier ELSE 1)

\* The boost stored with the vote.
BoostAfter(row, v, prods) ==
    IF v \in prods THEN multiplier ELSE IF v \in Removed(row) THEN 0 ELSE row.boost

\* Take the stake back from the proxy v has used; its votes follow when v leaves it.
LeaveProxy(t, v, px) ==
    LET row == t.voters[v]
        t1  == [t EXCEPT !.voters[row.proxy].proxied = @ - row.last_stake]
    IN  IF row.last_stake = 0 \/ row.proxy = NoName THEN t
        ELSE IF px = row.proxy THEN t1 ELSE propagate_weight_change(t1, row.proxy)

\* Give the stake to a proxy; its votes follow when it has any.
JoinProxy(t, v, px) ==
    LET t1 == [t EXCEPT !.voters[px].proxied = @ + t.voters[v].staked]
    IN  IF px = NoName THEN t
        ELSE IF t1.voters[px].last_vote_weight > 0 THEN propagate_weight_change(t1, px) ELSE t1

\* The checks of update_votes; voting is FALSE when only the stake changed.
MayVote(t, v, px, prods, voting) ==
    /\ px # NoName => /\ prods = {} /\ v # px /\ px \in rows
                     /\ ~t.voters[v].is_proxy /\ (voting => t.voters[px].is_proxy)
    /\ Cardinality(prods) <= MaxVotes
    /\ v \in rows
    /\ voting => prods \subseteq active

update_votes(t, v, px, prods, voting) ==
    LET row   == t.voters[v]
        stake == IF voting /\ px = NoName /\ prods = {} THEN 0 ELSE StakeOf(row)
        w     == inverse_vote_weight(stake, Cardinality(prods)) * decay
        old   == Removed(row)
        delta == [p \in Producers |-> (IF p \in prods THEN NewVote(w, v, p) ELSE 0)
                                      - (IF p \in old THEN OldVote(row, v, p) ELSE 0)]
        t1    == AddVotes(JoinProxy(LeaveProxy(t, v, px), v, px), delta)
    IN  [t1 EXCEPT !.voters[v] = [@ EXCEPT !.last_vote_weight = w, !.last_stake = stake,
                                           !.producers = prods, !.proxy = px,
                                           !.boost = BoostAfter(row, v, prods)]]
-----------------------------------------------------------------------------
(* Changes of the stake.                                                   *)

\* The stake of REX is brought up to its worth (update_rex_stake).
RexGain(v) == IF v \in RexOwners THEN rex_worth[v] - rex_stake[v] ELSE 0
RexAfter(v) == IF v \in RexOwners THEN [rex_stake EXCEPT ![v] = rex_worth[v]] ELSE rex_stake

AddStake(t, v, d) == [t EXCEPT !.voters[v].staked = @ + d]

\* mutant: a voter that loses stake keeps its votes
FollowsGain(t, v, d) == d > 0 /\ (t.voters[v].producers # {} \/ t.voters[v].proxy # NoName)
\* Do the votes of v follow a change of its stake?
HasVote(t, v, d) == t.voters[v].producers # {} \/ t.voters[v].proxy # NoName

\* The stake of v changes by d, and its votes with it.
update_voting_power(t, v, d) ==
    LET t1  == AddStake(t, v, d)
        row == t1.voters[v]
    IN  IF HasVote(t1, v, d) THEN update_votes(t1, v, row.proxy, row.producers, FALSE) ELSE t1

\* delegatebw and undelegatebw: the end of changebw.
RestakeVotes(v, d) ==
    LET before == IF v \in rows THEN AddStake(Tables, v, RexGain(v)) ELSE Tables
        after  == update_voting_power(before, v, d)
    IN  /\ delegated[v] + d \in 0..MaxStake
        /\ after.voters[v].staked >= 0
        /\ delegated' = [delegated EXCEPT ![v] = @ + d]
        /\ rex_stake' = RexAfter(v)
        /\ rows' = rows \cup {v}
        /\ Become(after)
        /\ UNCHANGED <<outside, evm_votes>>

\* updaterex, with the stake REX was counted with before.
updaterex(v) ==
    /\ v \in RexOwners
    /\ voters[v].staked + RexGain(v) >= 0
    /\ Become(update_voting_power(Tables, v, RexGain(v)))
    /\ rows' = rows \cup {v} /\ rex_stake' = RexAfter(v)
    /\ UNCHANGED <<outside, delegated, evm_votes>>
-----------------------------------------------------------------------------
(* Votes.                                                                  *)

voteproducer(v, px, prods) ==
    LET t == AddStake(Tables, v, RexGain(v))
    IN  /\ MayVote(t, v, px, prods, TRUE)
        /\ Become(update_votes(t, v, px, prods, TRUE))
        /\ rex_stake' = RexAfter(v)
        /\ UNCHANGED <<outside, rows, delegated, evm_votes>>

\* updaterex, the stake counted anew, and the same vote once more.
voteupdate(v) ==
    LET t   == update_voting_power(Tables, v, RexGain(v))
        t1  == [t EXCEPT !.voters[v].staked = RexAfter(v)[v] + delegated[v]]
        row == t1.voters[v]
    IN  /\ v \in rows /\ v \in RexOwners
        /\ MayVote(t1, v, row.proxy, row.producers, TRUE)
        /\ Become(update_votes(t1, v, row.proxy, row.producers, TRUE))
        /\ rex_stake' = RexAfter(v)
        /\ UNCHANGED <<outside, rows, delegated, evm_votes>>

\* A proxy can only be removed; anybody may do it.
regproxy(x) ==
    /\ IF x \in rows
       THEN LET t   == [Tables EXCEPT !.voters[x].is_proxy = FALSE]
                row == t.voters[x]
            IN  /\ voters[x].is_proxy
                /\ MayVote(t, x, row.proxy, row.producers, TRUE)
                /\ Become(update_votes(t, x, row.proxy, row.producers, TRUE))
       ELSE UNCHANGED tally
    /\ rows' = rows \cup {x}
    /\ UNCHANGED <<outside, delegated, rex_stake, evm_votes>>

\* What the votes from the EVM add to total_producer_vote_weight.
EvmWeight(bps, gain) == Sum([p \in bps |-> gain[p]])

\* The votes the EVM adds to p: the difference is taken in 64 bits without a sign.
EvmGain(p) == IF evm_votes[p] = NoName THEN evm_now[p] ELSE (evm_now[p] - evm_votes[p]) % UINT64

\* The total of p with the votes of the EVM; it stops at 0 unless p is new in evmvotes.
EvmTotal(p) == IF evm_votes[p] # NoName /\ total_votes[p] + EvmGain(p) < 0 THEN 0
                                                                           ELSE total_votes[p] + EvmGain(p)

\* The producers that have lost votes on the EVM.
EvmLosers(bps) == {p \in bps : evm_votes[p] # NoName /\ evm_now[p] < evm_votes[p]}

\* The weight stops at 0 as well, which gains without a sign never need.
getevmvote(bps) ==
    /\ Cardinality(bps) <= MaxVotes
    /\ \E p \in bps : evm_votes[p] # evm_now[p]
    /\ total_votes' = [p \in Producers |-> IF p \in bps THEN EvmTotal(p) ELSE total_votes[p]]
    /\ total_weight' = total_weight + EvmWeight(bps, [p \in bps |-> EvmGain(p)])
    /\ evm_votes' = [p \in Producers |-> IF p \in bps THEN evm_now[p] ELSE evm_votes[p]]
    /\ amiss' = amiss \cup EvmLosers(bps)
    /\ UNCHANGED <<voters, outside, rows, delegated, rex_stake>>
-----------------------------------------------------------------------------
(* Changes from outside, registrations and settings; MaxChanges of them.   *)

Changed == changes < MaxChanges /\ changes' = changes + 1
Kept    == UNCHANGED <<tally, rows, delegated, rex_stake, evm_votes>>

register_producer(p) == Changed /\ Kept /\ p \notin active
                        /\ active' = active \cup {p}
                        /\ UNCHANGED <<rex_worth, decay, multiplier, evm_now>>
unregprod(p)    == Changed /\ Kept /\ p \in active /\ active' = active \ {p}
                   /\ UNCHANGED <<rex_worth, decay, multiplier, evm_now>>
setselfstake(m) == Changed /\ Kept /\ multiplier' = m
                   /\ UNCHANGED <<rex_worth, decay, evm_now, active>>
\* The decay moves with time, and with setvotedecay.
Decay(d)        == Changed /\ Kept /\ decay' = d
                   /\ UNCHANGED <<rex_worth, multiplier, evm_now, active>>
\* External: the worth of REX, and the votes on the EVM.
RexMoves(v, n)  == Changed /\ Kept /\ rex_worth' = [rex_worth EXCEPT ![v] = n]
                   /\ UNCHANGED <<decay, multiplier, evm_now, active>>
EvmVote(p, n)   == Changed /\ Kept /\ evm_now' = [evm_now EXCEPT ![p] = n]
                   /\ UNCHANGED <<rex_worth, decay, multiplier, active>>

\* Bound: until recalculate_votes is due.
Counted == total_weight >= 0

Stake    == Counted /\ \E v \in Voters, d \in (-MaxStake)..MaxStake \ {0} : RestakeVotes(v, d)
UpdateRex == Counted /\ \E v \in Voters : updaterex(v)
Vote     == Counted /\ \E v \in Voters, px \in Voters \cup {NoName}, prods \in SUBSET Producers :
                          voteproducer(v, px, prods)
Update   == Counted /\ \E v \in Voters : voteupdate(v)
RegProxy == Counted /\ \E x \in Voters : regproxy(x)
EvmVoted == Counted /\ \E bps \in SUBSET Producers : getevmvote(bps)
Change   == Counted /\ \/ \E p \in Producers : register_producer(p) \/ unregprod(p)
                       \/ \E m \in Boosts : setselfstake(m)
                       \/ \E d \in Decays : Decay(d)
                       \/ \E v \in RexOwners, n \in 0..MaxStake : RexMoves(v, n)
                       \/ \E p \in Producers, n \in EvmVotes : EvmVote(p, n)

Next == Stake \/ UpdateRex \/ Vote \/ Update \/ RegProxy \/ EvmVoted \/ Change

Spec == Init /\ [][Next]_vars
-----------------------------------------------------------------------------
\* The votes p has from the voters, by what is recorded with each of them, and from the EVM.
Cast(p)  == SumOver([v \in Voters |-> IF p \notin voters[v].producers THEN 0
                                      ELSE IF p # v THEN voters[v].last_vote_weight
                                      ELSE (1 + voters[v].boost) * voters[v].last_vote_weight])
OnEvm(p) == IF evm_votes[p] = NoName THEN 0 ELSE evm_votes[p]

\* total_votes, which every vote, change of stake, of decay, of boost or of a proxy changes by a
\* difference, is what the voters' rows and the votes taken from the EVM add up to, and
\* total_producer_vote_weight is the sum of them all.  There are two exceptions, and no others: a
\* producer that has lost votes on the EVM (EvmVotesApplied), and a proxy of an older version that
\* votes for itself with a boost, once its weight has changed by that of its users.  Without them
\* no total is ever clamped and recalculate_votes never runs.
VotesAreTallied ==
    /\ \A p \in Producers \ amiss : total_votes[p] = Cast(p) + OnEvm(p)
    /\ amiss = {} => total_weight = SumOver(total_votes)

\* getevmvote applies the votes of a producer on the EVM: its total changes by as much as the votes
\* taken from the EVM, up or down.
EvmVotesApplied ==
    [][\A p \in Producers : evm_votes'[p] # evm_votes[p] =>
            total_votes'[p] - total_votes[p] = OnEvm(p)' - OnEvm(p)]_vars

\* A vote counts with the stake its voter has now, however the stake changed since the vote was
\* cast: nobody votes with tokens that were unstaked.  Only a proxy may count with less: one that
\* voted without any stake is not told of stake it is given later.  The stake itself is what the
\* voter has delegated and what its REX was last counted as.
VotesFollowStake ==
    \A v \in Voters :
        /\ voters[v].staked = delegated[v] + rex_stake[v]
        /\ (voters[v].producers # {} \/ voters[v].proxy # NoName) =>
            /\ voters[v].last_stake <= StakeOf(voters[v])
            /\ v \notin Proxies \/ voters[v].proxy # NoName => voters[v].last_stake = voters[v].staked
=============================================================================
