------------------------------ MODULE Staking ------------------------------
(***************************************************************************)
(* Staking for bandwidth (delegate_bandwidth.cpp): delegatebw,             *)
(* undelegatebw and refund of the system contract, with the delegation     *)
(* table, the totals of the receivers, the refund requests, the stake that *)
(* counts for votes, and the tokens held by eosio.stake.                   *)
(*                                                                         *)
(* Times are kept as ages, which stop at REFUND_DELAY.  The deferred       *)
(* transaction that claims a refund is the chain's, and external.  Staking *)
(* by eosio.stake itself, the vote weight derived from the stake and the   *)
(* resource limits derived from the totals are left out.                   *)
(***************************************************************************)
EXTENDS Integers, FiniteSets, Sums

CONSTANTS
    Accounts,        \* users, other than eosio.stake
    REFUND_DELAY,    \* refund_delay_sec
    Never,           \* no deferred transaction
    Supply           \* tokens in the model, each user starting with the same share

ASSUME StakingAssumption ==
    /\ IsFiniteSet(Accounts)
    /\ REFUND_DELAY \in Nat
    /\ Never \notin Nat
    /\ Supply \in Nat

VARIABLES
    balance,         \* liquid tokens of the users
    stakeBalance,    \* tokens of eosio.stake
    net, cpu,        \* delband: tokens staked by the first for the second
    totNet, totCpu,  \* userres: tokens staked for the account
    refNet, refCpu,  \* refunds: tokens on their way back
    requested,       \* accounts with a row in refunds
    age,             \* time since request_time
    deferred,        \* external: time left until the deferred refund runs
    staked,          \* voters: staked
    activated,       \* the network is activated
    unstaked         \* history: time since the account last unstaked

stakingVars == <<balance, stakeBalance, net, cpu, totNet, totCpu, refNet, refCpu,
                 requested, age, deferred, staked, activated, unstaked>>

Pairs == Accounts \X Accounts
Ages  == 0..REFUND_DELAY

StakingTypeOK ==
    /\ balance \in [Accounts -> Nat] /\ stakeBalance \in Nat
    /\ net \in [Pairs -> Nat] /\ cpu \in [Pairs -> Nat]
    /\ totNet \in [Accounts -> Nat] /\ totCpu \in [Accounts -> Nat]
    /\ refNet \in [Accounts -> Nat] /\ refCpu \in [Accounts -> Nat]
    /\ requested \in SUBSET Accounts
    /\ age \in [Accounts -> Ages]
    /\ deferred \in [Accounts -> Ages \cup {Never}]
    /\ staked \in [Accounts -> Nat]
    /\ activated \in BOOLEAN
    /\ unstaked \in [Accounts -> Ages]

StakingInit ==
    /\ balance = [a \in Accounts |-> Supply] /\ stakeBalance = 0
    /\ net = [p \in Pairs |-> 0] /\ cpu = [p \in Pairs |-> 0]
    /\ totNet = [a \in Accounts |-> 0] /\ totCpu = [a \in Accounts |-> 0]
    /\ refNet = [a \in Accounts |-> 0] /\ refCpu = [a \in Accounts |-> 0]
    /\ requested = {}
    /\ age = [a \in Accounts |-> 0]
    /\ deferred = [a \in Accounts |-> Never]
    /\ staked = [a \in Accounts |-> 0]
    /\ activated = FALSE
    /\ unstaked = [a \in Accounts |-> REFUND_DELAY]
-----------------------------------------------------------------------------
\* mutant: what the refund did not cover is not paid
LeftUnpaid(d, r) == 0
\* A delta d against a refund request of r: what stays requested, and what is to be paid.
Requested(d, r) == IF r - d < 0 THEN 0 ELSE r - d
Left(d, r)      == IF r - d < 0 THEN d - r ELSE 0

\* mutant: stake received from somebody else is taken out of the receiver's refund too
TouchesOnTransfer(from, receiver, dn, dc, transfer) == from = receiver \/ dn + dc < 0
\* Does the change touch the refund request of the owner?
TouchesRefund(from, receiver, dn, dc, transfer) == (~transfer /\ from = receiver) \/ dn + dc < 0

\* mutant: only the first request sets the time
RestartsFirst(from, dn, dc) == from \notin requested /\ (dn < 0 \/ dc < 0)
\* An unstaking sets the time of the request again.
Restarts(from, dn, dc) == dn < 0 \/ dc < 0

\* mutant: the totals of the payer change, not those of the receiver
SourceTotals(from, receiver) == from
\* The account whose totals change.
TotalsOf(from, receiver) == receiver

\* mutant: the stake is credited to whoever pays
VoterIsSource(source, from) == source
\* The account whose stake for votes changes.
VoterOf(source, from) == from

Enough(amount, delta) == amount + delta >= 0

\* The rows of refunds: an empty one is erased.
RowsAfter(from, rn, rc) == IF rn = 0 /\ rc = 0 THEN requested \ {from} ELSE requested \cup {from}

changebw(source, receiver, dn, dc, transfer) ==
    LET from    == IF transfer THEN receiver ELSE source
        edge    == <<from, receiver>>
        tot     == TotalsOf(from, receiver)
        voter   == VoterOf(source, from)
        touches == TouchesRefund(from, receiver, dn, dc, transfer)
        rn      == IF touches THEN Requested(dn, refNet[from]) ELSE refNet[from]
        rc      == IF touches THEN Requested(dc, refCpu[from]) ELSE refCpu[from]
        pay     == IF touches THEN Left(dn, refNet[from]) + Left(dc, refCpu[from]) ELSE dn + dc
    IN  /\ Enough(net[edge], dn) /\ Enough(cpu[edge], dc)
        /\ Enough(totNet[tot], dn) /\ Enough(totCpu[tot], dc)
        /\ balance[source] >= pay
        /\ Enough(staked[voter], dn + dc)
        /\ net' = [net EXCEPT ![edge] = net[edge] + dn]
        /\ cpu' = [cpu EXCEPT ![edge] = cpu[edge] + dc]
        /\ totNet' = [totNet EXCEPT ![tot] = totNet[tot] + dn]
        /\ totCpu' = [totCpu EXCEPT ![tot] = totCpu[tot] + dc]
        /\ refNet' = [refNet EXCEPT ![from] = rn]
        /\ refCpu' = [refCpu EXCEPT ![from] = rc]
        /\ requested' = IF touches THEN RowsAfter(from, rn, rc) ELSE requested
        /\ age' = IF touches /\ Restarts(from, dn, dc) THEN [age EXCEPT ![from] = 0] ELSE age
        \* A scheduled refund is replaced, or cancelled when none is needed by this change.
        /\ deferred' = [deferred EXCEPT ![from] =
                           IF touches /\ (rn # 0 \/ rc # 0) THEN REFUND_DELAY ELSE Never]
        /\ balance' = [balance EXCEPT ![source] = balance[source] - pay]
        /\ stakeBalance' = stakeBalance + pay
        /\ staked' = [staked EXCEPT ![voter] = staked[voter] + dn + dc]
        /\ unstaked' = IF dn + dc < 0 THEN [unstaked EXCEPT ![from] = 0] ELSE unstaked
        /\ UNCHANGED activated

delegatebw(from, receiver, n, c, transfer) ==
    /\ n >= 0 /\ c >= 0 /\ n + c > 0
    /\ ~transfer \/ from # receiver
    /\ changebw(from, receiver, n, c, transfer)

undelegatebw(from, receiver, n, c) ==
    /\ n >= 0 /\ c >= 0 /\ n + c > 0
    /\ activated
    /\ changebw(from, receiver, 0 - n, 0 - c, FALSE)

Available(a) == age[a] >= REFUND_DELAY
CanRefund(owner) == /\ owner \in requested
                    /\ Available(owner)
                    /\ stakeBalance >= refNet[owner] + refCpu[owner]
PayRefund(owner) ==
    /\ stakeBalance' = stakeBalance - (refNet[owner] + refCpu[owner])
    /\ balance' = [balance EXCEPT ![owner] = balance[owner] + (refNet[owner] + refCpu[owner])]
    /\ refNet' = [refNet EXCEPT ![owner] = 0]
    /\ refCpu' = [refCpu EXCEPT ![owner] = 0]
    /\ requested' = requested \ {owner}
    /\ UNCHANGED <<net, cpu, totNet, totCpu, age, staked, activated, unstaked>>

refund(owner) == CanRefund(owner) /\ PayRefund(owner) /\ UNCHANGED deferred

\* External: the deferred transaction runs when its delay is over; if refund fails it is dropped.
RunDeferred(owner) ==
    /\ deferred[owner] = 0
    /\ deferred' = [deferred EXCEPT ![owner] = Never]
    /\ \/ CanRefund(owner) /\ PayRefund(owner)
       \/ ~CanRefund(owner) /\ UNCHANGED <<balance, stakeBalance, net, cpu, totNet, totCpu, refNet, refCpu,
                                           requested, age, staked, activated, unstaked>>

\* External: time passes.
Older(t) == IF t < REFUND_DELAY THEN t + 1 ELSE t
Tick ==
    /\ age' = [a \in Accounts |-> Older(age[a])]
    /\ unstaked' = [a \in Accounts |-> Older(unstaked[a])]
    /\ deferred' = [a \in Accounts |-> IF deferred[a] \in Nat /\ deferred[a] > 0 THEN deferred[a] - 1 ELSE deferred[a]]
    /\ UNCHANGED <<balance, stakeBalance, net, cpu, totNet, totCpu, refNet, refCpu, requested, staked, activated>>

\* onblock activates the network.
Activate == /\ ~activated /\ activated' = TRUE
            /\ UNCHANGED <<balance, stakeBalance, net, cpu, totNet, totCpu, refNet, refCpu, requested,
                           age, deferred, staked, unstaked>>

Delegate   == \E from, receiver \in Accounts, n, c \in 0..Supply, transfer \in BOOLEAN :
                 delegatebw(from, receiver, n, c, transfer)
Undelegate == \E from, receiver \in Accounts, n, c \in 0..(Supply * Cardinality(Accounts)) :
                 undelegatebw(from, receiver, n, c)
Refund     == \E owner \in Accounts : refund(owner)
Deferred   == \E owner \in Accounts : RunDeferred(owner)

StakingNext == Delegate \/ Undelegate \/ Refund \/ Deferred \/ Tick \/ Activate

StakingSpec == StakingInit /\ [][StakingNext]_stakingVars
-----------------------------------------------------------------------------
Row(f, a) == [r \in Accounts |-> f[<<a, r>>]]
Col(f, r) == [a \in Accounts |-> f[<<a, r>>]]

\* eosio.stake holds exactly the tokens staked and those on their way back, whatever mix of
\* delegations, stake given away and refunds used up by new delegations came before: every
\* refund can be paid.
StakeIsBacked == stakeBalance = SumOver(net) + SumOver(cpu) + SumOver(refNet) + SumOver(refCpu)

\* The stake that counts for the votes of an account is what the account has delegated,
\* stake received with transfer included and stake given away not.
VotingStakeIsDelegated ==
    \A a \in Accounts : staked[a] = SumOver(Row(net, a)) + SumOver(Row(cpu, a))

\* The totals resource limits are set from are the sums of the delegations to the account.
TotalsAreDelegations ==
    \A r \in Accounts : totNet[r] = SumOver(Col(net, r)) /\ totCpu[r] = SumOver(Col(cpu, r))

\* A refund row is never empty, and an account without a row has nothing on its way back.
RequestsAreReal == \A a \in Accounts : a \in requested <=> refNet[a] + refCpu[a] > 0

\* Tokens leave eosio.stake for an account only when its last unstaking is REFUND_DELAY old,
\* however many requests were merged into the row and whoever triggers the refund.
RefundsWait ==
    [][\A a \in Accounts : (stakeBalance' < stakeBalance /\ balance'[a] > balance[a]) => unstaked[a] = REFUND_DELAY]_stakingVars

\* delegatebw, undelegatebw, refund and the deferred transaction implement the time lock of module
\* TimeLock: no sequence of them takes tokens from an account other than by its own staking, uses up
\* a pending refund for somebody else's stake, or makes one liquid early.  An account's tokens are
\* locked where it has delegated them, whoever for, and unlocking while in its refund row.
Promise == INSTANCE TimeLock WITH
    Delay     <- REFUND_DELAY,
    Initial   <- Supply,
    liquid    <- balance,
    locked    <- [a \in Accounts |-> SumOver(Row(net, a)) + SumOver(Row(cpu, a))],
    unlocking <- [a \in Accounts |-> refNet[a] + refCpu[a]],
    waited    <- unstaked
ImplementsTimeLock == Promise!LockSpec
=============================================================================
