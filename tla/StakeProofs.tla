----------------------------- MODULE StakeProofs -----------------------------
(***************************************************************************)
(* Proofs about staked tokens (module Staking) and what is voted with them *)
(* (module Voting), for any accounts, delay, supply, voters, producers and *)
(* proxies.                                                                *)
(*                                                                         *)
(* Staking: the tables and the tokens of eosio.stake agree, refunds are    *)
(* never early, and the whole implements TimeLock.  Voting: the total of   *)
(* every producer is what its voters and the EVM give it, and the weight   *)
(* of every voter follows its stake and that of those it is a proxy for.   *)
(***************************************************************************)
EXTENDS Staking, Voting, SumTheorems

\* The request of an account is no older than its last unstaking: what makes RefundsWait
\* follow from the check on request_time.
AgesAgree == \A a \in requested : age[a] <= unstaked[a]

\* The inductive invariant.
StakingInv == /\ StakingTypeOK /\ StakeIsBacked /\ VotingStakeIsDelegated
        /\ TotalsAreDelegations /\ RequestsAreReal /\ AgesAgree

-----------------------------------------------------------------------------
(* Sums over the delegation table.                                         *)

\* The delegation table has finitely many keys.
LEMMA PairsFinite == IsFiniteSet(Pairs)
BY StakingAssumption, FS_Product DEF Pairs

\* Rows and columns of a table of naturals are tables of naturals.
LEMMA RowColType ==
  ASSUME NEW f \in [Pairs -> Nat], NEW a \in Accounts
  PROVE  Row(f, a) \in [Accounts -> Nat] /\ Col(f, a) \in [Accounts -> Nat]
BY DEF Row, Col, Pairs

\* A change of one delegation changes the sum of its row by as much.
LEMMA RowUpdate ==
  ASSUME NEW f \in [Pairs -> Nat], NEW x \in Accounts, NEW y \in Accounts, NEW v \in Nat
  PROVE  SumOver(Row([f EXCEPT ![<<x, y>>] = v], x)) = SumOver(Row(f, x)) - f[<<x, y>>] + v
<1>1. IsFiniteSet(Accounts) /\ Row(f, x) \in [Accounts -> Nat]
  BY StakingAssumption, RowColType
<1>2. Row([f EXCEPT ![<<x, y>>] = v], x) = [Row(f, x) EXCEPT ![y] = v]
  BY DEF Row, Pairs
<1>3. Row(f, x)[y] = f[<<x, y>>]
  BY DEF Row
<1>4. SumOver([Row(f, x) EXCEPT ![y] = v]) = SumOver(Row(f, x)) - Row(f, x)[y] + v
  BY <1>1, SumUpdate
<1> QED
  BY <1>2, <1>3, <1>4

\* The same for its column.
LEMMA ColUpdate ==
  ASSUME NEW f \in [Pairs -> Nat], NEW x \in Accounts, NEW y \in Accounts, NEW v \in Nat
  PROVE  SumOver(Col([f EXCEPT ![<<x, y>>] = v], y)) = SumOver(Col(f, y)) - f[<<x, y>>] + v
<1>1. IsFiniteSet(Accounts) /\ Col(f, y) \in [Accounts -> Nat]
  BY StakingAssumption, RowColType
<1>2. Col([f EXCEPT ![<<x, y>>] = v], y) = [Col(f, y) EXCEPT ![x] = v]
  BY DEF Col, Pairs
<1>3. Col(f, y)[x] = f[<<x, y>>]
  BY DEF Col
<1>4. SumOver([Col(f, y) EXCEPT ![x] = v]) = SumOver(Col(f, y)) - Col(f, y)[x] + v
  BY <1>1, SumUpdate
<1> QED
  BY <1>2, <1>3, <1>4

\* What is paid and what stays requested together make up the delta.
LEMMA Netting ==
  ASSUME NEW d \in Int, NEW r \in Nat
  PROVE  /\ Requested(d, r) \in Nat /\ Left(d, r) \in Nat
         /\ Left(d, r) = d + Requested(d, r) - r
         /\ d >= 0 => Requested(d, r) <= r
BY DEF Requested, Left

-----------------------------------------------------------------------------
(* The steps.                                                              *)

\* The tables start empty.
LEMMA InitStakingInv == StakingInit => StakingInv
<1> SUFFICES ASSUME StakingInit PROVE StakingInv
  OBVIOUS
<1>0. 0 \in Ages /\ REFUND_DELAY \in Ages /\ Supply \in Nat
  BY StakingAssumption DEF Ages
<1>1. StakingTypeOK
  BY <1>0 DEF StakingInit, StakingTypeOK
<1>2. SumOver(net) = 0 /\ SumOver(cpu) = 0 /\ SumOver(refNet) = 0 /\ SumOver(refCpu) = 0
  BY SumOfZeros DEF StakingInit
<1>3. \A a \in Accounts : /\ SumOver(Row(net, a)) = 0 /\ SumOver(Row(cpu, a)) = 0
                          /\ SumOver(Col(net, a)) = 0 /\ SumOver(Col(cpu, a)) = 0
  <2> SUFFICES ASSUME NEW a \in Accounts
               PROVE  /\ SumOver(Row(net, a)) = 0 /\ SumOver(Row(cpu, a)) = 0
                      /\ SumOver(Col(net, a)) = 0 /\ SumOver(Col(cpu, a)) = 0
    OBVIOUS
  <2>1. Row(net, a) = [r \in Accounts |-> 0] /\ Row(cpu, a) = [r \in Accounts |-> 0]
        /\ Col(net, a) = [r \in Accounts |-> 0] /\ Col(cpu, a) = [r \in Accounts |-> 0]
    BY DEF StakingInit, Row, Col, Pairs
  <2> QED
    BY <2>1, SumOfZeros
<1>4. StakeIsBacked /\ VotingStakeIsDelegated /\ TotalsAreDelegations
  BY <1>2, <1>3 DEF StakingInit, StakeIsBacked, VotingStakeIsDelegated, TotalsAreDelegations
<1>5. RequestsAreReal /\ AgesAgree
  BY DEF StakingInit, RequestsAreReal, AgesAgree
<1> QED
  BY <1>1, <1>4, <1>5 DEF StakingInv

\* Every delegation and undelegation keeps the invariant, and pays into eosio.stake.
LEMMA ChangeBwIInv ==
  ASSUME StakingInv, NEW source \in Accounts, NEW receiver \in Accounts,
         NEW dn \in Int, NEW dc \in Int, NEW transfer \in BOOLEAN,
         changebw(source, receiver, dn, dc, transfer)
  PROVE  StakingInv' /\ stakeBalance' >= stakeBalance
<1> DEFINE from    == IF transfer THEN receiver ELSE source
           touches == TouchesRefund(from, receiver, dn, dc, transfer)
           rn      == IF touches THEN Requested(dn, refNet[from]) ELSE refNet[from]
           rc      == IF touches THEN Requested(dc, refCpu[from]) ELSE refCpu[from]
           pay     == IF touches THEN Left(dn, refNet[from]) + Left(dc, refCpu[from]) ELSE dn + dc
           vn      == net[<<from, receiver>>] + dn
           vc      == cpu[<<from, receiver>>] + dc
<1>1. from \in Accounts /\ <<from, receiver>> \in Pairs
  BY DEF Pairs
<1>2. StakingTypeOK
  BY DEF StakingInv
<1>3. refNet[from] \in Nat /\ refCpu[from] \in Nat /\ net[<<from, receiver>>] \in Nat
      /\ cpu[<<from, receiver>>] \in Nat /\ balance[source] \in Nat
      /\ totNet[receiver] \in Nat /\ totCpu[receiver] \in Nat /\ staked[from] \in Nat
  BY <1>1, <1>2 DEF StakingTypeOK
<1>4. /\ vn \in Nat /\ vc \in Nat
      /\ totNet[receiver] + dn \in Nat /\ totCpu[receiver] + dc \in Nat
      /\ balance[source] >= pay
      /\ staked[from] + dn + dc \in Nat
  BY <1>3 DEF changebw, Enough, TotalsOf, VoterOf
<1>5. /\ net' = [net EXCEPT ![<<from, receiver>>] = vn]
      /\ cpu' = [cpu EXCEPT ![<<from, receiver>>] = vc]
      /\ totNet' = [totNet EXCEPT ![receiver] = totNet[receiver] + dn]
      /\ totCpu' = [totCpu EXCEPT ![receiver] = totCpu[receiver] + dc]
      /\ refNet' = [refNet EXCEPT ![from] = rn]
      /\ refCpu' = [refCpu EXCEPT ![from] = rc]
      /\ requested' = IF touches THEN RowsAfter(from, rn, rc) ELSE requested
      /\ balance' = [balance EXCEPT ![source] = balance[source] - pay]
      /\ stakeBalance' = stakeBalance + pay
      /\ staked' = [staked EXCEPT ![from] = staked[from] + dn + dc]
  BY DEF changebw, TotalsOf, VoterOf
<1>6. /\ age' = IF touches /\ Restarts(from, dn, dc) THEN [age EXCEPT ![from] = 0] ELSE age
      /\ deferred' = [deferred EXCEPT ![from] =
                        IF touches /\ (rn # 0 \/ rc # 0) THEN REFUND_DELAY ELSE Never]
      /\ unstaked' = IF dn + dc < 0 THEN [unstaked EXCEPT ![from] = 0] ELSE unstaked
      /\ activated' = activated
  BY DEF changebw
<1>7. /\ rn \in Nat /\ rc \in Nat /\ pay \in Nat
      /\ pay = dn + dc + (rn - refNet[from]) + (rc - refCpu[from])
  <2>1. CASE touches
    <3>1. /\ Requested(dn, refNet[from]) \in Nat /\ Left(dn, refNet[from]) \in Nat
          /\ Left(dn, refNet[from]) = dn + Requested(dn, refNet[from]) - refNet[from]
      BY <1>3, Netting
    <3>2. /\ Requested(dc, refCpu[from]) \in Nat /\ Left(dc, refCpu[from]) \in Nat
          /\ Left(dc, refCpu[from]) = dc + Requested(dc, refCpu[from]) - refCpu[from]
      BY <1>3, Netting
    <3>3. /\ rn = Requested(dn, refNet[from]) /\ rc = Requested(dc, refCpu[from])
          /\ pay = Left(dn, refNet[from]) + Left(dc, refCpu[from])
      BY <2>1
    <3> HIDE DEF rn, rc, pay, from
    <3> QED
      BY <1>3, <3>1, <3>2, <3>3
  <2>2. CASE ~touches
    <3>1. dn + dc >= 0
      BY <2>2 DEF TouchesRefund
    <3> QED
      BY <1>3, <2>2, <3>1
  <2> QED
    BY <2>1, <2>2
<1>8. touches \in BOOLEAN
  BY DEF TouchesRefund
<1>9. dn + dc < 0 => touches /\ Restarts(from, dn, dc)
  BY DEF TouchesRefund, Restarts
<1>10. ASSUME touches, ~Restarts(from, dn, dc)
       PROVE  rn <= refNet[from] /\ rc <= refCpu[from]
  <2>1. dn >= 0 /\ dc >= 0
    BY <1>10 DEF Restarts
  <2> QED
    BY <1>3, <1>10, <2>1, Netting
<1> HIDE DEF from, touches, rn, rc, pay, vn, vc
<1>11. StakingTypeOK'
  <2>1. /\ net' \in [Pairs -> Nat] /\ cpu' \in [Pairs -> Nat]
        /\ totNet' \in [Accounts -> Nat] /\ totCpu' \in [Accounts -> Nat]
        /\ refNet' \in [Accounts -> Nat] /\ refCpu' \in [Accounts -> Nat]
        /\ staked' \in [Accounts -> Nat]
    BY <1>1, <1>2, <1>4, <1>5, <1>7 DEF StakingTypeOK
  <2>2. balance' \in [Accounts -> Nat] /\ stakeBalance' \in Nat
    BY <1>2, <1>3, <1>4, <1>5, <1>7 DEF StakingTypeOK
  <2>3. requested' \in SUBSET Accounts
    BY <1>1, <1>2, <1>5, <1>8 DEF StakingTypeOK, RowsAfter
  <2>4. 0 \in Ages /\ REFUND_DELAY \in Ages
    BY StakingAssumption DEF Ages
  <2>5. age' \in [Accounts -> Ages] /\ unstaked' \in [Accounts -> Ages]
        /\ deferred' \in [Accounts -> Ages \cup {Never}] /\ activated' \in BOOLEAN
    BY <1>1, <1>2, <1>6, <2>4 DEF StakingTypeOK
  <2> QED
    BY <2>1, <2>2, <2>3, <2>5 DEF StakingTypeOK
<1>12. StakeIsBacked'
  <2>1. /\ IsFiniteSet(Pairs) /\ IsFiniteSet(Accounts)
        /\ net \in [Pairs -> Nat] /\ cpu \in [Pairs -> Nat]
        /\ refNet \in [Accounts -> Nat] /\ refCpu \in [Accounts -> Nat]
    BY <1>2, PairsFinite, StakingAssumption DEF StakingTypeOK
  <2>2. SumOver(net') = SumOver(net) - net[<<from, receiver>>] + vn
    BY <1>1, <1>4, <1>5, <2>1, SumUpdate
  <2>3. SumOver(cpu') = SumOver(cpu) - cpu[<<from, receiver>>] + vc
    BY <1>1, <1>4, <1>5, <2>1, SumUpdate
  <2>4. SumOver(refNet') = SumOver(refNet) - refNet[from] + rn
    BY <1>1, <1>5, <1>7, <2>1, SumUpdate
  <2>5. SumOver(refCpu') = SumOver(refCpu) - refCpu[from] + rc
    BY <1>1, <1>5, <1>7, <2>1, SumUpdate
  <2>6. SumOver(net) \in Nat /\ SumOver(cpu) \in Nat /\ SumOver(refNet) \in Nat /\ SumOver(refCpu) \in Nat
    BY <2>1, SumType
  <2>7. stakeBalance = SumOver(net) + SumOver(cpu) + SumOver(refNet) + SumOver(refCpu)
    BY DEF StakingInv, StakeIsBacked
  <2>8. vn - net[<<from, receiver>>] = dn /\ vc - cpu[<<from, receiver>>] = dc
    BY <1>3 DEF vn, vc
  <2>9. stakeBalance' = SumOver(net') + SumOver(cpu') + SumOver(refNet') + SumOver(refCpu')
    BY <1>3, <1>4, <1>5, <1>7, <2>2, <2>3, <2>4, <2>5, <2>6, <2>7, <2>8
  <2> QED
    BY <2>9 DEF StakeIsBacked
<1>13. VotingStakeIsDelegated'
  <2> SUFFICES ASSUME NEW a \in Accounts
               PROVE  staked'[a] = SumOver(Row(net', a)) + SumOver(Row(cpu', a))
    BY DEF VotingStakeIsDelegated
  <2>1. net \in [Pairs -> Nat] /\ cpu \in [Pairs -> Nat] /\ staked \in [Accounts -> Nat]
    BY <1>2 DEF StakingTypeOK
  <2>2. SumOver(Row(net', a)) = IF a = from THEN SumOver(Row(net, a)) - net[<<from, receiver>>] + vn
                                            ELSE SumOver(Row(net, a))
    <3>1. net \in [Pairs -> Nat] /\ vn \in Nat /\ from \in Accounts
      BY <1>1, <1>4, <2>1
    <3>2. SumOver(Row([net EXCEPT ![<<from, receiver>>] = vn], from)) = SumOver(Row(net, from)) - net[<<from, receiver>>] + vn
      BY <3>1, RowUpdate, Zenon
    <3>3. a # from => Row([net EXCEPT ![<<from, receiver>>] = vn], a) = Row(net, a)
      BY <3>1 DEF Row, Pairs
    <3> QED
      BY <1>5, <3>2, <3>3
  <2>3. SumOver(Row(cpu', a)) = IF a = from THEN SumOver(Row(cpu, a)) - cpu[<<from, receiver>>] + vc
                                            ELSE SumOver(Row(cpu, a))
    <3>1. cpu \in [Pairs -> Nat] /\ vc \in Nat /\ from \in Accounts
      BY <1>1, <1>4, <2>1
    <3>2. SumOver(Row([cpu EXCEPT ![<<from, receiver>>] = vc], from)) = SumOver(Row(cpu, from)) - cpu[<<from, receiver>>] + vc
      BY <3>1, RowUpdate, Zenon
    <3>3. a # from => Row([cpu EXCEPT ![<<from, receiver>>] = vc], a) = Row(cpu, a)
      BY <3>1 DEF Row, Pairs
    <3> QED
      BY <1>5, <3>2, <3>3
  <2>4. SumOver(Row(net, a)) \in Nat /\ SumOver(Row(cpu, a)) \in Nat
    BY <2>1, RowColType, SumType, StakingAssumption
  <2>5. staked[a] = SumOver(Row(net, a)) + SumOver(Row(cpu, a))
    BY DEF StakingInv, VotingStakeIsDelegated
  <2>6. staked'[a] = IF a = from THEN staked[a] + dn + dc ELSE staked[a]
    BY <1>1, <1>5, <2>1
  <2>7. vn - net[<<from, receiver>>] = dn /\ vc - cpu[<<from, receiver>>] = dc
    BY <1>3 DEF vn, vc
  <2> QED
    BY <1>3, <1>4, <2>2, <2>3, <2>4, <2>5, <2>6, <2>7
<1>14. TotalsAreDelegations'
  <2> SUFFICES ASSUME NEW r \in Accounts
               PROVE  totNet'[r] = SumOver(Col(net', r)) /\ totCpu'[r] = SumOver(Col(cpu', r))
    BY DEF TotalsAreDelegations
  <2>1. net \in [Pairs -> Nat] /\ cpu \in [Pairs -> Nat]
        /\ totNet \in [Accounts -> Nat] /\ totCpu \in [Accounts -> Nat]
    BY <1>2 DEF StakingTypeOK
  <2>2. SumOver(Col(net', r)) = IF r = receiver THEN SumOver(Col(net, r)) - net[<<from, receiver>>] + vn
                                                ELSE SumOver(Col(net, r))
    <3>1. net \in [Pairs -> Nat] /\ vn \in Nat /\ from \in Accounts
      BY <1>1, <1>4, <2>1
    <3>2. SumOver(Col([net EXCEPT ![<<from, receiver>>] = vn], receiver)) = SumOver(Col(net, receiver)) - net[<<from, receiver>>] + vn
      BY <3>1, ColUpdate, Zenon
    <3>3. r # receiver => Col([net EXCEPT ![<<from, receiver>>] = vn], r) = Col(net, r)
      BY <3>1 DEF Col, Pairs
    <3> QED
      BY <1>5, <3>2, <3>3
  <2>3. SumOver(Col(cpu', r)) = IF r = receiver THEN SumOver(Col(cpu, r)) - cpu[<<from, receiver>>] + vc
                                                ELSE SumOver(Col(cpu, r))
    <3>1. cpu \in [Pairs -> Nat] /\ vc \in Nat /\ from \in Accounts
      BY <1>1, <1>4, <2>1
    <3>2. SumOver(Col([cpu EXCEPT ![<<from, receiver>>] = vc], receiver)) = SumOver(Col(cpu, receiver)) - cpu[<<from, receiver>>] + vc
      BY <3>1, ColUpdate, Zenon
    <3>3. r # receiver => Col([cpu EXCEPT ![<<from, receiver>>] = vc], r) = Col(cpu, r)
      BY <3>1 DEF Col, Pairs
    <3> QED
      BY <1>5, <3>2, <3>3
  <2>4. SumOver(Col(net, r)) \in Nat /\ SumOver(Col(cpu, r)) \in Nat
    BY <2>1, RowColType, SumType, StakingAssumption
  <2>5. totNet[r] = SumOver(Col(net, r)) /\ totCpu[r] = SumOver(Col(cpu, r))
    BY DEF StakingInv, TotalsAreDelegations
  <2>6. /\ totNet'[r] = IF r = receiver THEN totNet[r] + dn ELSE totNet[r]
        /\ totCpu'[r] = IF r = receiver THEN totCpu[r] + dc ELSE totCpu[r]
    BY <1>5, <2>1
  <2>7. vn - net[<<from, receiver>>] = dn /\ vc - cpu[<<from, receiver>>] = dc
    BY <1>3 DEF vn, vc
  <2> QED
    BY <1>3, <1>4, <2>2, <2>3, <2>4, <2>5, <2>6, <2>7
<1>15. RequestsAreReal'
  <2> SUFFICES ASSUME NEW a \in Accounts
               PROVE  a \in requested' <=> refNet'[a] + refCpu'[a] > 0
    BY DEF RequestsAreReal
  <2>1. a \in requested <=> refNet[a] + refCpu[a] > 0
    BY DEF StakingInv, RequestsAreReal
  <2>2. refNet \in [Accounts -> Nat] /\ refCpu \in [Accounts -> Nat]
    BY <1>2 DEF StakingTypeOK
  <2>3. CASE ~touches
    <3>1. requested' = requested /\ rn = refNet[from] /\ rc = refCpu[from]
      BY <1>5, <2>3 DEF rn, rc
    <3> QED
      BY <1>1, <1>5, <2>1, <2>2, <3>1
  <2>4. CASE touches /\ a = from
    <3>1. refNet'[a] = rn /\ refCpu'[a] = rc
      BY <1>1, <1>5, <2>2, <2>4
    <3>2. a \in requested' <=> ~(rn = 0 /\ rc = 0)
      BY <1>5, <2>4 DEF RowsAfter
    <3> QED
      BY <1>7, <3>1, <3>2
  <2>5. CASE touches /\ a # from
    <3>1. refNet'[a] = refNet[a] /\ refCpu'[a] = refCpu[a]
      BY <1>5, <2>2, <2>5
    <3>2. a \in requested' <=> a \in requested
      BY <1>5, <2>5 DEF RowsAfter
    <3> QED
      BY <2>1, <3>1, <3>2
  <2> QED
    BY <2>3, <2>4, <2>5, <1>8
<1>16. AgesAgree'
  <2> SUFFICES ASSUME NEW a \in requested'
               PROVE  age'[a] <= unstaked'[a]
    BY DEF AgesAgree
  <2>1. a \in Accounts /\ age \in [Accounts -> Ages] /\ unstaked \in [Accounts -> Ages]
        /\ refNet \in [Accounts -> Nat] /\ refCpu \in [Accounts -> Nat]
    BY <1>2, <1>11 DEF StakingTypeOK
  <2>2. \A x \in Ages : x \in Nat
    BY StakingAssumption DEF Ages
  <2>3. CASE touches /\ Restarts(from, dn, dc) /\ a = from
    <3>1. age'[a] = 0
      BY <1>6, <2>1, <2>3
    <3>2. unstaked'[a] \in Nat
      BY <1>11, <2>1, <2>2 DEF StakingTypeOK
    <3> QED
      BY <3>1, <3>2
  <2>4. CASE a # from \/ ~(touches /\ Restarts(from, dn, dc))
    <3>1. age'[a] = age[a] /\ unstaked'[a] = unstaked[a]
      BY <1>6, <1>9, <2>1, <2>4
    <3>2. a \in requested
      <4>1. CASE ~touches
        BY <1>5, <4>1
      <4>2. CASE touches /\ a # from
        BY <1>5, <4>2 DEF RowsAfter
      <4>3. CASE touches /\ a = from
        <5>1. ~(rn = 0 /\ rc = 0)
          BY <1>5, <4>3 DEF RowsAfter
        <5>2. rn <= refNet[from] /\ rc <= refCpu[from]
          BY <1>10, <2>4, <4>3
        <5>3. refNet[from] + refCpu[from] > 0
          BY <1>3, <1>7, <5>1, <5>2
        <5> QED
          BY <1>1, <4>3, <5>3 DEF StakingInv, RequestsAreReal
      <4> QED
        BY <4>1, <4>2, <4>3, <1>8
    <3> QED
      BY <3>1, <3>2 DEF StakingInv, AgesAgree
  <2> QED
    BY <2>3, <2>4
<1>17. stakeBalance' >= stakeBalance
  BY <1>2, <1>5, <1>7 DEF StakingTypeOK
<1> QED
  BY <1>11, <1>12, <1>13, <1>14, <1>15, <1>16, <1>17 DEF StakingInv

\* Paying a request out of eosio.stake keeps the invariant, with or without a deferred
\* transaction being used up.
LEMMA PayRefundIInv ==
  ASSUME StakingInv, NEW owner \in Accounts, CanRefund(owner), PayRefund(owner),
         deferred' \in [Accounts -> Ages \cup {Never}]
  PROVE  StakingInv'
<1>1. StakingTypeOK /\ owner \in requested
  BY DEF StakingInv, CanRefund
<1> DEFINE n == refNet[owner]
           c == refCpu[owner]
<1>2. /\ refNet \in [Accounts -> Nat] /\ refCpu \in [Accounts -> Nat]
      /\ n \in Nat /\ c \in Nat /\ balance[owner] \in Nat /\ stakeBalance \in Nat
  BY <1>1 DEF StakingTypeOK
<1>3. /\ stakeBalance >= n + c /\ stakeBalance' = stakeBalance - (n + c)
      /\ balance' = [balance EXCEPT ![owner] = balance[owner] + (n + c)]
      /\ refNet' = [refNet EXCEPT ![owner] = 0] /\ refCpu' = [refCpu EXCEPT ![owner] = 0]
      /\ requested' = requested \ {owner}
      /\ net' = net /\ cpu' = cpu /\ totNet' = totNet /\ totCpu' = totCpu /\ age' = age
      /\ staked' = staked /\ activated' = activated /\ unstaked' = unstaked
  BY DEF CanRefund, PayRefund
<1> HIDE DEF n, c
<1>4. StakingTypeOK'
  <2>1. balance' \in [Accounts -> Nat] /\ stakeBalance' \in Nat
    BY <1>1, <1>2, <1>3 DEF StakingTypeOK
  <2>2. refNet' \in [Accounts -> Nat] /\ refCpu' \in [Accounts -> Nat] /\ requested' \in SUBSET Accounts
    BY <1>1, <1>2, <1>3 DEF StakingTypeOK
  <2> QED
    BY <1>1, <1>3, <2>1, <2>2 DEF StakingTypeOK
<1>5. StakeIsBacked'
  <2>1. IsFiniteSet(Accounts) /\ 0 \in Nat
    BY StakingAssumption
  <2>2. SumOver(refNet') = SumOver(refNet) - refNet[owner] + 0
    BY <1>2, <1>3, <2>1, SumUpdate
  <2>3. SumOver(refCpu') = SumOver(refCpu) - refCpu[owner] + 0
    BY <1>2, <1>3, <2>1, SumUpdate
  <2>4. SumOver(refNet) \in Nat /\ SumOver(refCpu) \in Nat
    BY <1>2, <2>1, SumType
  <2>5. net \in [Pairs -> Nat] /\ cpu \in [Pairs -> Nat]
    BY <1>1 DEF StakingTypeOK
  <2>6. SumOver(net) \in Nat /\ SumOver(cpu) \in Nat
    BY <2>5, PairsFinite, SumType
  <2>7. stakeBalance = SumOver(net) + SumOver(cpu) + SumOver(refNet) + SumOver(refCpu)
    BY DEF StakingInv, StakeIsBacked
  <2>8. net' = net /\ cpu' = cpu /\ refNet[owner] = n /\ refCpu[owner] = c
    BY <1>3 DEF n, c
  <2>9. stakeBalance' = SumOver(net') + SumOver(cpu') + SumOver(refNet') + SumOver(refCpu')
    BY <1>2, <1>3, <2>2, <2>3, <2>4, <2>6, <2>7, <2>8
  <2> QED
    BY <2>9 DEF StakeIsBacked
<1>6. VotingStakeIsDelegated' /\ TotalsAreDelegations'
  BY <1>3 DEF StakingInv, VotingStakeIsDelegated, TotalsAreDelegations
<1>7. RequestsAreReal'
  BY <1>1, <1>2, <1>3 DEF StakingInv, RequestsAreReal
<1>8. AgesAgree'
  BY <1>3 DEF StakingInv, AgesAgree
<1> QED
  BY <1>4, <1>5, <1>6, <1>7, <1>8 DEF StakingInv

\* Time passing keeps the invariant: ages grow together and stop together.
LEMMA TickIInv ==
  ASSUME StakingInv, Tick
  PROVE  StakingInv'
<1>1. StakingTypeOK
  BY DEF StakingInv
<1>2. \A t \in Ages : Older(t) \in Ages
  BY StakingAssumption DEF Ages, Older
<1>3. \A t, u \in Ages : t <= u => Older(t) <= Older(u)
  BY StakingAssumption DEF Ages, Older
<1>4. /\ age' = [a \in Accounts |-> Older(age[a])]
      /\ unstaked' = [a \in Accounts |-> Older(unstaked[a])]
      /\ UNCHANGED <<balance, stakeBalance, net, cpu, totNet, totCpu, refNet, refCpu, requested, staked, activated>>
  BY DEF Tick
<1>5. deferred' \in [Accounts -> Ages \cup {Never}]
  BY <1>1, StakingAssumption DEF Tick, StakingTypeOK, Ages
<1>6. StakingTypeOK'
  BY <1>1, <1>2, <1>4, <1>5 DEF StakingTypeOK
<1>7. AgesAgree'
  <2> SUFFICES ASSUME NEW a \in requested'
               PROVE  age'[a] <= unstaked'[a]
    BY DEF AgesAgree
  <2>1. a \in requested /\ a \in Accounts /\ age[a] \in Ages /\ unstaked[a] \in Ages
    BY <1>1, <1>4 DEF StakingTypeOK
  <2>2. age[a] <= unstaked[a]
    BY <2>1 DEF StakingInv, AgesAgree
  <2>3. Older(age[a]) <= Older(unstaked[a])
    BY <1>3, <2>1, <2>2
  <2> QED
    BY <1>4, <2>1, <2>3
<1>8. StakeIsBacked' /\ VotingStakeIsDelegated' /\ TotalsAreDelegations' /\ RequestsAreReal'
  BY <1>4 DEF StakingInv, StakeIsBacked, VotingStakeIsDelegated, TotalsAreDelegations, RequestsAreReal
<1> QED
  BY <1>6, <1>7, <1>8 DEF StakingInv

\* Steps that leave every variable but deferred and activated alone keep the invariant.
LEMMA QuietIInv ==
  ASSUME StakingInv,
         UNCHANGED <<balance, stakeBalance, net, cpu, totNet, totCpu, refNet, refCpu, requested, age, staked, unstaked>>,
         deferred' \in [Accounts -> Ages \cup {Never}], activated' \in BOOLEAN
  PROVE  StakingInv'
<1>1. StakingTypeOK'
  BY DEF StakingInv, StakingTypeOK
<1>2. StakeIsBacked' /\ VotingStakeIsDelegated' /\ TotalsAreDelegations' /\ RequestsAreReal' /\ AgesAgree'
  BY DEF StakingInv, StakeIsBacked, VotingStakeIsDelegated, TotalsAreDelegations, RequestsAreReal, AgesAgree
<1> QED
  BY <1>1, <1>2 DEF StakingInv

\* What a step does to the stake and to the balances: only a due refund takes tokens out.
PaysWhenDue == \A a \in Accounts :
                  (stakeBalance' < stakeBalance /\ balance'[a] > balance[a]) => unstaked[a] = REFUND_DELAY

\* A refund that may be paid is REFUND_DELAY old for its owner, and pays no one else.
LEMMA PaidWhenDue ==
  ASSUME StakingInv, NEW owner \in Accounts, CanRefund(owner), PayRefund(owner)
  PROVE  PaysWhenDue
<1>1. /\ StakingTypeOK /\ owner \in requested /\ age[owner] >= REFUND_DELAY
  BY DEF StakingInv, CanRefund, Available
<1>2. age[owner] <= unstaked[owner]
  BY <1>1 DEF StakingInv, AgesAgree
<1>3. age[owner] \in 0..REFUND_DELAY /\ unstaked[owner] \in 0..REFUND_DELAY
  BY <1>1 DEF StakingTypeOK, Ages
<1>4. unstaked[owner] = REFUND_DELAY
  BY <1>1, <1>2, <1>3, StakingAssumption
<1>5. \A a \in Accounts : a # owner => balance'[a] = balance[a]
  BY <1>1 DEF PayRefund, StakingTypeOK
<1>6. \A a \in Accounts : balance[a] \in Nat
  BY <1>1 DEF StakingTypeOK
<1> QED
  BY <1>4, <1>5, <1>6 DEF PaysWhenDue

\* Every step keeps the invariant and pays refunds only when due.
LEMMA NextStakingInv ==
  ASSUME StakingInv, [StakingNext]_stakingVars
  PROVE  StakingInv' /\ PaysWhenDue
<1>1. StakingTypeOK /\ stakeBalance \in Nat
  BY DEF StakingInv, StakingTypeOK
<1>2. CASE Delegate
  <2>1. PICK from, receiver \in Accounts, n, c \in 0..Supply, transfer \in BOOLEAN :
             delegatebw(from, receiver, n, c, transfer)
    BY <1>2 DEF Delegate
  <2>2. n \in Int /\ c \in Int /\ changebw(from, receiver, n, c, transfer)
    BY <2>1 DEF delegatebw
  <2>3. StakingInv' /\ stakeBalance' >= stakeBalance
    BY <2>2, ChangeBwIInv
  <2> QED
    BY <1>1, <2>3 DEF PaysWhenDue, StakingInv, StakingTypeOK
<1>3. CASE Undelegate
  <2>1. PICK from, receiver \in Accounts, n, c \in 0..(Supply * Cardinality(Accounts)) :
             undelegatebw(from, receiver, n, c)
    BY <1>3 DEF Undelegate
  <2>2. Supply * Cardinality(Accounts) \in Nat
    <3>1. Cardinality(Accounts) \in Nat /\ Supply \in Nat
      BY StakingAssumption, FS_CardinalityType
    <3> QED
      BY <3>1
  <2>3. 0 - n \in Int /\ 0 - c \in Int /\ FALSE \in BOOLEAN
    BY <2>2
  <2>4. changebw(from, receiver, 0 - n, 0 - c, FALSE)
    BY <2>1 DEF undelegatebw
  <2>5. StakingInv' /\ stakeBalance' >= stakeBalance
    BY <2>3, <2>4, ChangeBwIInv
  <2> QED
    BY <1>1, <2>5 DEF PaysWhenDue, StakingInv, StakingTypeOK
<1>4. CASE Refund
  <2>1. PICK owner \in Accounts : refund(owner)
    BY <1>4 DEF Refund
  <2>2. CanRefund(owner) /\ PayRefund(owner) /\ deferred' \in [Accounts -> Ages \cup {Never}]
    BY <1>1, <2>1 DEF refund, StakingTypeOK
  <2> QED
    BY <2>2, PayRefundIInv, PaidWhenDue
<1>5. CASE Deferred
  <2>1. PICK owner \in Accounts : RunDeferred(owner)
    BY <1>5 DEF Deferred
  <2>2. deferred' \in [Accounts -> Ages \cup {Never}]
    BY <1>1, <2>1 DEF RunDeferred, StakingTypeOK
  <2>3. CASE CanRefund(owner) /\ PayRefund(owner)
    BY <2>2, <2>3, PayRefundIInv, PaidWhenDue
  <2>4. CASE UNCHANGED <<balance, stakeBalance, net, cpu, totNet, totCpu, refNet, refCpu,
                         requested, age, staked, activated, unstaked>>
    <3>1. activated' \in BOOLEAN
      BY <1>1, <2>4 DEF StakingTypeOK
    <3>2. StakingInv'
      BY <2>2, <2>4, <3>1, QuietIInv
    <3> QED
      BY <1>1, <2>4, <3>2 DEF PaysWhenDue
  <2> QED
    BY <2>1, <2>3, <2>4 DEF RunDeferred
<1>6. CASE Tick
  <2>1. stakeBalance' = stakeBalance
    BY <1>6 DEF Tick
  <2> QED
    BY <1>1, <1>6, <2>1, TickIInv DEF PaysWhenDue
<1>7. CASE Activate
  <2>1. StakingInv'
    BY <1>1, <1>7, QuietIInv DEF Activate, StakingTypeOK
  <2>2. stakeBalance' = stakeBalance
    BY <1>7 DEF Activate
  <2> QED
    BY <1>1, <2>1, <2>2 DEF PaysWhenDue
<1>8. CASE UNCHANGED stakingVars
  <2>1. StakingInv'
    BY <1>1, <1>8, QuietIInv DEF stakingVars, StakingTypeOK
  <2>2. stakeBalance' = stakeBalance
    BY <1>8 DEF stakingVars
  <2> QED
    BY <1>1, <2>1, <2>2 DEF PaysWhenDue
<1> QED
  BY <1>2, <1>3, <1>4, <1>5, <1>6, <1>7, <1>8 DEF StakingNext

\* The invariant holds in every reachable state.
LEMMA StakingInvariance == StakingSpec => []StakingInv
<1>1. StakingInit => StakingInv
  BY InitStakingInv
<1>2. StakingInv /\ [StakingNext]_stakingVars => StakingInv'
  BY NextStakingInv
<1> QED
  BY <1>1, <1>2, PTL DEF StakingSpec

-----------------------------------------------------------------------------
(* The refinement of TimeLock.  Under the invariant the tokens locked for  *)
(* an account are the stake changebw keeps for its votes.                  *)

\* The mapped state: what is locked and what is unlocking, account by account.
LockedNow    == [a \in Accounts |-> SumOver(Row(net, a)) + SumOver(Row(cpu, a))]
UnlockingNow == [a \in Accounts |-> refNet[a] + refCpu[a]]

\* The stake for votes is what is locked, before and after a step.
LEMMA LockedIsStaked == /\ StakingInv => LockedNow = staked
                        /\ StakingInv' => LockedNow' = staked'
BY DEF StakingInv, StakingTypeOK, VotingStakeIsDelegated, LockedNow

\* The owner of a request that may be paid has waited since its last unstaking.
LEMMA DueForRelease ==
  ASSUME StakingInv, NEW owner \in Accounts, CanRefund(owner)
  PROVE  unstaked[owner] = REFUND_DELAY
<1>1. StakingTypeOK /\ owner \in requested /\ age[owner] >= REFUND_DELAY
  BY DEF StakingInv, CanRefund, Available
<1>2. age[owner] <= unstaked[owner]
  BY <1>1 DEF StakingInv, AgesAgree
<1>3. age[owner] \in 0..REFUND_DELAY /\ unstaked[owner] \in 0..REFUND_DELAY
  BY <1>1 DEF StakingTypeOK, Ages
<1> QED
  BY <1>1, <1>2, <1>3, StakingAssumption

\* changebw in terms of the mapped state: m tokens come out of the refund of the owner.
LEMMA ChangeBwMapped ==
  ASSUME StakingInv, StakingInv', NEW source \in Accounts, NEW receiver \in Accounts,
         NEW dn \in Int, NEW dc \in Int, NEW transfer \in BOOLEAN,
         changebw(source, receiver, dn, dc, transfer),
         NEW from \in Accounts, from = (IF transfer THEN receiver ELSE source)
  PROVE  \E pay \in Nat, m \in Int :
           /\ pay = dn + dc - m /\ pay <= balance[source]
           /\ m <= UnlockingNow[from]
           /\ balance' = [balance EXCEPT ![source] = balance[source] - pay]
           /\ LockedNow' = [LockedNow EXCEPT ![from] = LockedNow[from] + dn + dc]
           /\ LockedNow[from] + dn + dc >= 0
           /\ UnlockingNow' = [UnlockingNow EXCEPT ![from] = UnlockingNow[from] - m]
           /\ unstaked' = IF dn + dc < 0 THEN [unstaked EXCEPT ![from] = 0] ELSE unstaked
           /\ m > 0 => ~transfer
           /\ dn >= 0 /\ dc >= 0 => m >= 0
           /\ dn <= 0 /\ dc <= 0 /\ dn + dc < 0 => pay = 0
<1> DEFINE touches == TouchesRefund(from, receiver, dn, dc, transfer)
           rn      == IF touches THEN Requested(dn, refNet[from]) ELSE refNet[from]
           rc      == IF touches THEN Requested(dc, refCpu[from]) ELSE refCpu[from]
           pay     == IF touches THEN Left(dn, refNet[from]) + Left(dc, refCpu[from]) ELSE dn + dc
           m       == (refNet[from] - rn) + (refCpu[from] - rc)
<1>1. StakingTypeOK /\ StakingTypeOK'
  BY DEF StakingInv
<1>2. /\ refNet \in [Accounts -> Nat] /\ refCpu \in [Accounts -> Nat]
      /\ refNet[from] \in Nat /\ refCpu[from] \in Nat /\ balance[source] \in Nat /\ staked[from] \in Nat
  BY <1>1 DEF StakingTypeOK
<1>3. /\ refNet' = [refNet EXCEPT ![from] = rn]
      /\ refCpu' = [refCpu EXCEPT ![from] = rc]
      /\ balance[source] >= pay
      /\ balance' = [balance EXCEPT ![source] = balance[source] - pay]
      /\ staked' = [staked EXCEPT ![from] = staked[from] + dn + dc]
      /\ staked[from] + (dn + dc) >= 0
      /\ unstaked' = IF dn + dc < 0 THEN [unstaked EXCEPT ![from] = 0] ELSE unstaked
  BY DEF changebw, TotalsOf, VoterOf, Enough
<1>4. /\ rn \in Nat /\ rc \in Nat /\ pay \in Nat /\ m \in Int
      /\ pay = dn + dc - m
      /\ dn >= 0 /\ dc >= 0 => m >= 0
      /\ dn <= 0 /\ dc <= 0 /\ dn + dc < 0 => pay = 0
  <2>1. CASE touches
    <3>1. /\ rn = Requested(dn, refNet[from]) /\ rc = Requested(dc, refCpu[from])
          /\ pay = Left(dn, refNet[from]) + Left(dc, refCpu[from])
      BY <2>1
    <3>2. /\ Requested(dn, refNet[from]) \in Nat /\ Left(dn, refNet[from]) \in Nat
          /\ Left(dn, refNet[from]) = dn + Requested(dn, refNet[from]) - refNet[from]
          /\ dn >= 0 => Requested(dn, refNet[from]) <= refNet[from]
          /\ dn <= 0 => Left(dn, refNet[from]) = 0
      BY <1>2 DEF Requested, Left
    <3>3. /\ Requested(dc, refCpu[from]) \in Nat /\ Left(dc, refCpu[from]) \in Nat
          /\ Left(dc, refCpu[from]) = dc + Requested(dc, refCpu[from]) - refCpu[from]
          /\ dc >= 0 => Requested(dc, refCpu[from]) <= refCpu[from]
          /\ dc <= 0 => Left(dc, refCpu[from]) = 0
      BY <1>2 DEF Requested, Left
    <3>4. rn \in Nat /\ rc \in Nat /\ pay \in Nat
      BY <3>1, <3>2, <3>3
    <3> HIDE DEF rn, rc, pay
    <3>5. m \in Int /\ pay = dn + dc - m
      BY <1>2, <3>1, <3>2, <3>3, <3>4
    <3>6. dn >= 0 /\ dc >= 0 => m >= 0
      BY <1>2, <3>1, <3>2, <3>3, <3>4
    <3>7. dn <= 0 /\ dc <= 0 => pay = 0
      BY <3>1, <3>2, <3>3
    <3> QED
      BY <3>4, <3>5, <3>6, <3>7
  <2>2. CASE ~touches
    BY <1>2, <2>2 DEF TouchesRefund
  <2> QED
    BY <2>1, <2>2
<1>5. m > 0 => ~transfer
  <2> SUFFICES ASSUME m > 0, transfer PROVE FALSE
    OBVIOUS
  <2>1. CASE touches
    <3>1. dn + dc < 0
      BY <2>1 DEF TouchesRefund
    <3> HIDE DEF m, pay
    <3> QED
      BY <1>4, <3>1
  <2>2. CASE ~touches
    BY <1>2, <2>2
  <2> QED
    BY <2>1, <2>2
<1> HIDE DEF touches, rn, rc, pay
<1>6. UnlockingNow' = [UnlockingNow EXCEPT ![from] = UnlockingNow[from] - m] /\ m <= UnlockingNow[from]
  <2>1. \A a \in Accounts : refNet'[a] + refCpu'[a] = IF a = from THEN rn + rc ELSE refNet[a] + refCpu[a]
    BY <1>2, <1>3
  <2>2. rn + rc = (refNet[from] + refCpu[from]) - m /\ m <= refNet[from] + refCpu[from]
    BY <1>2, <1>4
  <2> HIDE DEF m
  <2> QED
    BY <2>1, <2>2 DEF UnlockingNow
<1>7. /\ LockedNow' = [LockedNow EXCEPT ![from] = LockedNow[from] + dn + dc]
      /\ LockedNow[from] + dn + dc >= 0
  <2>1. LockedNow = staked /\ LockedNow' = staked'
    BY LockedIsStaked
  <2> QED
    BY <1>2, <1>3, <2>1
<1> QED
  BY <1>3, <1>4, <1>5, <1>6, <1>7

\* Every step of staking is a step of the time lock, or changes nothing the lock sees.
LEMMA StepLock ==
  ASSUME StakingInv, StakingInv', [StakingNext]_stakingVars
  PROVE  [Promise!LockNext]_(Promise!lockVars)
<1> DEFINE Idle == UNCHANGED <<balance, LockedNow, UnlockingNow, unstaked>>
<1>0. StakingTypeOK /\ StakingTypeOK'
  BY DEF StakingInv
<1>1. /\ balance \in [Accounts -> Nat] /\ LockedNow \in [Accounts -> Nat]
      /\ UnlockingNow \in [Accounts -> Nat] /\ unstaked \in [Accounts -> Ages]
  BY <1>0, LockedIsStaked DEF StakingTypeOK, UnlockingNow
<1>2. ASSUME Idle PROVE UNCHANGED Promise!lockVars
  BY <1>2 DEF Promise!lockVars, LockedNow, UnlockingNow
<1>3. ASSUME NEW owner \in Accounts, CanRefund(owner), PayRefund(owner)
      PROVE  Promise!LockNext
  <2>1. unstaked[owner] = REFUND_DELAY
    BY <1>3, DueForRelease
  <2>2. /\ balance' = [balance EXCEPT ![owner] = balance[owner] + UnlockingNow[owner]]
        /\ LockedNow' = LockedNow /\ unstaked' = unstaked
    BY <1>0, <1>3 DEF PayRefund, LockedNow, UnlockingNow
  <2>3. UnlockingNow' = [UnlockingNow EXCEPT ![owner] = 0]
    <3>1. \A a \in Accounts : refNet'[a] + refCpu'[a] = IF a = owner THEN 0 ELSE refNet[a] + refCpu[a]
      BY <1>0, <1>3 DEF PayRefund, StakingTypeOK
    <3> QED
      BY <3>1 DEF UnlockingNow
  <2>4. Promise!Release(owner)
    BY <2>1, <2>2, <2>3 DEF Promise!Release, LockedNow, UnlockingNow
  <2> QED
    BY <2>4 DEF Promise!LockNext
<1>4. CASE Delegate
  <2>1. PICK source, receiver \in Accounts, n, c \in 0..Supply, transfer \in BOOLEAN :
             delegatebw(source, receiver, n, c, transfer)
    BY <1>4 DEF Delegate
  <2> DEFINE from == IF transfer THEN receiver ELSE source
  <2>2. /\ n \in Nat /\ c \in Nat /\ n + c > 0 /\ from \in Accounts
        /\ changebw(source, receiver, n, c, transfer)
    BY <2>1, StakingAssumption DEF delegatebw
  <2>3. PICK pay \in Nat, m \in Int :
           /\ pay = n + c - m /\ pay <= balance[source]
           /\ m <= UnlockingNow[from]
           /\ balance' = [balance EXCEPT ![source] = balance[source] - pay]
           /\ LockedNow' = [LockedNow EXCEPT ![from] = LockedNow[from] + n + c]
           /\ UnlockingNow' = [UnlockingNow EXCEPT ![from] = UnlockingNow[from] - m]
           /\ unstaked' = IF n + c < 0 THEN [unstaked EXCEPT ![from] = 0] ELSE unstaked
           /\ m > 0 => ~transfer
           /\ m >= 0
    BY <2>2, ChangeBwMapped
  <2>4. unstaked' = unstaked /\ m \in Nat
    BY <2>2, <2>3
  <2>5. CASE m = 0
    <3>1. UnlockingNow' = UnlockingNow /\ pay \in 1..balance[source] /\ pay = n + c
      BY <1>1, <2>2, <2>3, <2>5
    <3>2. LockedNow' = [LockedNow EXCEPT ![from] = LockedNow[from] + pay]
      <4>1. LockedNow[from] + n + c = LockedNow[from] + pay
        BY <1>1, <2>2, <3>1
      <4> QED
        BY <2>3, <4>1
    <3>3. Promise!Lock(source, from, pay)
      BY <2>3, <2>4, <3>1, <3>2 DEF Promise!Lock, LockedNow, UnlockingNow
    <3> QED
      BY <2>2, <3>1, <3>3 DEF Promise!LockNext
  <2>6. CASE m > 0
    <3>1. from = source /\ m \in 1..UnlockingNow[from] /\ pay \in 0..balance[from]
      BY <1>1, <2>2, <2>3, <2>4, <2>6
    <3>2. LockedNow' = [LockedNow EXCEPT ![from] = LockedNow[from] + pay + m]
      <4>1. LockedNow[from] + n + c = LockedNow[from] + pay + m
        BY <1>1, <2>2, <2>3
      <4> QED
        BY <2>3, <4>1
    <3>3. Promise!Relock(from, pay, m)
      BY <2>3, <2>4, <3>1, <3>2 DEF Promise!Relock, LockedNow, UnlockingNow
    <3> QED
      BY <2>2, <3>1, <3>3 DEF Promise!LockNext, UnlockingNow
  <2> QED
    BY <2>4, <2>5, <2>6
<1>5. CASE Undelegate
  <2>1. PICK source, receiver \in Accounts, n, c \in 0..(Supply * Cardinality(Accounts)) :
             undelegatebw(source, receiver, n, c)
    BY <1>5 DEF Undelegate
  <2>2. Supply * Cardinality(Accounts) \in Nat
    <3>1. Cardinality(Accounts) \in Nat /\ Supply \in Nat
      BY StakingAssumption, FS_CardinalityType
    <3> QED
      BY <3>1
  <2> DEFINE dn == 0 - n
             dc == 0 - c
  <2>3. /\ n \in Nat /\ c \in Nat /\ n + c > 0
        /\ changebw(source, receiver, dn, dc, FALSE)
    <3>1. n \in Nat /\ c \in Nat
      BY <2>2
    <3> QED
      BY <2>1, <3>1 DEF undelegatebw
  <2>4. dn \in Int /\ dc \in Int /\ dn <= 0 /\ dc <= 0 /\ dn + dc = 0 - (n + c)
    BY <2>3
  <2> HIDE DEF dn, dc
  <2>5. PICK pay \in Nat, m \in Int :
           /\ pay = dn + dc - m
           /\ balance' = [balance EXCEPT ![source] = balance[source] - pay]
           /\ LockedNow' = [LockedNow EXCEPT ![source] = LockedNow[source] + dn + dc]
           /\ LockedNow[source] + dn + dc >= 0
           /\ UnlockingNow' = [UnlockingNow EXCEPT ![source] = UnlockingNow[source] - m]
           /\ unstaked' = IF dn + dc < 0 THEN [unstaked EXCEPT ![source] = 0] ELSE unstaked
           /\ dn <= 0 /\ dc <= 0 /\ dn + dc < 0 => pay = 0
    <3> DEFINE transfer == FALSE
    <3>1. /\ source = (IF transfer THEN receiver ELSE source) /\ transfer \in BOOLEAN
          /\ changebw(source, receiver, dn, dc, transfer)
      BY <2>3
    <3> HIDE DEF transfer
    <3> QED
      BY <2>4, <3>1, ChangeBwMapped
  <2>6. pay = 0 /\ m = 0 - (n + c) /\ unstaked' = [unstaked EXCEPT ![source] = 0]
    BY <2>3, <2>4, <2>5
  <2>7. /\ balance' = balance
        /\ LockedNow' = [LockedNow EXCEPT ![source] = LockedNow[source] - (n + c)]
        /\ UnlockingNow' = [UnlockingNow EXCEPT ![source] = UnlockingNow[source] + (n + c)]
        /\ n + c \in 1..LockedNow[source]
    <3>1. /\ balance[source] - pay = balance[source]
          /\ LockedNow[source] + dn + dc = LockedNow[source] - (n + c)
          /\ UnlockingNow[source] - m = UnlockingNow[source] + (n + c)
          /\ n + c \in 1..LockedNow[source]
      BY <1>1, <2>3, <2>4, <2>5, <2>6
    <3> QED
      BY <1>1, <2>5, <3>1
  <2>8. Promise!Unlock(source, n + c)
    BY <2>6, <2>7 DEF Promise!Unlock, LockedNow, UnlockingNow
  <2> QED
    BY <2>7, <2>8 DEF Promise!LockNext, LockedNow
<1>6. CASE Refund
  BY <1>3, <1>6 DEF Refund, refund
<1>7. CASE Deferred
  <2>1. PICK owner \in Accounts : RunDeferred(owner)
    BY <1>7 DEF Deferred
  <2>2. CASE CanRefund(owner) /\ PayRefund(owner)
    BY <1>3, <2>2
  <2>3. CASE ~CanRefund(owner) /\ UNCHANGED <<balance, net, cpu, refNet, refCpu, unstaked>>
    BY <1>2, <2>3 DEF LockedNow, UnlockingNow
  <2> QED
    BY <2>1, <2>2, <2>3 DEF RunDeferred
<1>8. CASE Tick
  <2>1. Promise!Wait
    BY <1>8 DEF Tick, Older, Promise!Wait, LockedNow, UnlockingNow
  <2> QED
    BY <2>1 DEF Promise!LockNext
<1>9. CASE Activate \/ UNCHANGED stakingVars
  BY <1>2, <1>9 DEF Activate, stakingVars, LockedNow, UnlockingNow
<1> QED
  BY <1>4, <1>5, <1>6, <1>7, <1>8, <1>9 DEF StakingNext

\* The first state is the time lock's.
LEMMA InitLock == StakingInit => Promise!LockInit
<1> SUFFICES ASSUME StakingInit PROVE Promise!LockInit
  OBVIOUS
<1>1. StakingInv
  BY InitStakingInv
<1>2. LockedNow = [a \in Accounts |-> 0] /\ UnlockingNow = [a \in Accounts |-> 0]
  BY <1>1, LockedIsStaked DEF StakingInit, UnlockingNow
<1> QED
  BY <1>2 DEF StakingInit, Promise!LockInit, LockedNow, UnlockingNow

-----------------------------------------------------------------------------
(* The results.                                                            *)

\* Every table keeps its type: no delegation, total, request, balance or stake of
\* delegate_bandwidth.cpp ever goes below zero.
THEOREM StakingTypeCorrect == StakingSpec => []StakingTypeOK
<1>1. StakingInv => StakingTypeOK
  BY DEF StakingInv
<1> QED
  BY <1>1, StakingInvariance, PTL

\* eosio.stake holds exactly what changebw and refund account for, so every refund can be paid.
THEOREM StakeBacked == StakingSpec => []StakeIsBacked
<1>1. StakingInv => StakeIsBacked
  BY DEF StakingInv
<1> QED
  BY <1>1, StakingInvariance, PTL

\* The stake changebw gives to voters is what they have delegated: the row sums of the table.
THEOREM VotingStake == StakingSpec => []VotingStakeIsDelegated
<1>1. StakingInv => VotingStakeIsDelegated
  BY DEF StakingInv
<1> QED
  BY <1>1, StakingInvariance, PTL

\* The totals changebw keeps for the receivers are the column sums of the table.
THEOREM TotalsAgree == StakingSpec => []TotalsAreDelegations
<1>1. StakingInv => TotalsAreDelegations
  BY DEF StakingInv
<1> QED
  BY <1>1, StakingInvariance, PTL

\* delegatebw, undelegatebw, refund and the deferred transaction implement the time lock.
THEOREM StakingIsTimeLock == StakingSpec => ImplementsTimeLock
<1>1. StakingInit => Promise!LockInit
  BY InitLock
<1>2. StakingInv /\ StakingInv' /\ [StakingNext]_stakingVars => [Promise!LockNext]_(Promise!lockVars)
  BY StepLock
<1> QED
  BY <1>1, <1>2, StakingInvariance, PTL DEF StakingSpec, ImplementsTimeLock, Promise!LockSpec

\* refund never pays an account before REFUND_DELAY has passed since its last unstaking.
THEOREM NoEarlyRefund == StakingSpec => RefundsWait
<1>1. StakingInv /\ [StakingNext]_stakingVars => PaysWhenDue
  BY NextStakingInv
<1>3. StakingSpec => [][PaysWhenDue]_stakingVars
  BY <1>1, StakingInvariance, PTL DEF StakingSpec
<1> QED
  BY <1>3 DEF RefundsWait, PaysWhenDue
-----------------------------------------------------------------------------
(* The votes.  An action works on a copy of the tables, in which it        *)
(* changes the rows of up to three voters, one after the other: the        *)
(* voter's, and those of the proxies it leaves and joins.  The parts of    *)
(* the invariant are therefore stated of tables.                           *)

\* The votes a row stands for.
Worth(row, v, p) == IF p \notin row.producers THEN 0
                    ELSE IF p # v THEN row.last_vote_weight
                    ELSE (1 + row.boost) * row.last_vote_weight
CastIn(vs, p) == SumOver([v \in Voters |-> Worth(vs[v], v, p)])

\* What holds of every row: a proxy uses no proxy, who uses one has no producers, and a vote
\* without stake has no weight.
RowOK(row, v) ==
    /\ row.is_proxy => v \in Proxies /\ row.proxy = NoName
    /\ row.proxy # NoName => row.proxy \in Proxies \ {v} /\ row.producers = {}
    /\ Cardinality(row.producers) <= MaxVotes
    /\ row.last_stake = 0 => row.last_vote_weight = 0
    /\ row.last_vote_weight = 0 => row.last_stake = 0 \/ row.producers = {}

\* A voter that uses a proxy, or is none, is counted with its stake; a proxy with no more.
UpToDate(row, v) == (row.proxy # NoName \/ (row.producers # {} /\ v \notin Proxies)) => row.last_stake = row.staked
NotAhead(row, v) == (row.producers # {} /\ v \in Proxies) => row.last_stake <= StakeOf(row)

\* The stake x was given by the voters other than v.
GivenBut(vs, v, x) == SumOver([u \in Voters |-> IF u # v /\ vs[u].proxy = x THEN vs[u].last_stake ELSE 0])

\* The stake x has is what the others gave it and what v gives it: n to the proxy px.
ProxiedIs(vs, v, px, n) == \A x \in Voters : vs[x].proxied = GivenBut(vs, v, x) + IF x = px THEN n ELSE 0

\* The stake of every proxy is what its voters were counted with.
AllProxied(vs) == \A x \in Voters :
    vs[x].proxied = SumOver([u \in Voters |-> IF vs[u].proxy = x THEN vs[u].last_stake ELSE 0])

\* The rows, when that of v may not be up to date and x may be ahead of its stake.
RowsAre(vs, v, x) ==
    /\ vs \in [Voters -> Voter]
    /\ \A u \in Voters : RowOK(vs[u], u)
    /\ \A u \in Voters \ {v} : UpToDate(vs[u], u)
    /\ \A u \in Voters \ {v, x} : NotAhead(vs[u], u)

\* The tables, and the votes in them.
IsTables(t) == t = [voters |-> t.voters, votes |-> t.votes, weight |-> t.weight, amiss |-> t.amiss]
Tallied(t) ==
    /\ IsTables(t)
    /\ t.votes \in [Producers -> Int] /\ t.weight \in Int /\ t.amiss \subseteq Producers
    /\ \A p \in Producers : OnEvm(p) \in Nat
    /\ \A p \in Producers \ t.amiss : t.votes[p] = CastIn(t.voters, p) + OnEvm(p)
    /\ t.amiss = {} => t.weight = SumOver(t.votes)

\* Tables in which the row of v may not be up to date; NoName is nobody.
Good(t, v) == Tallied(t) /\ RowsAre(t.voters, v, v) /\ AllProxied(t.voters)

\* The inductive invariant.
IInv ==
    /\ TypeOK
    /\ RexOwners \subseteq rows
    /\ \A v \in Voters : /\ voters[v].staked = delegated[v] + rex_stake[v]
                         /\ v \notin RexOwners => rex_stake[v] = 0
    /\ Good(Tables, NoName)
-----------------------------------------------------------------------------
\* One row.

LEMMA WorthType ==
  ASSUME NEW row \in Voter, NEW v, NEW p
  PROVE  Worth(row, v, p) \in Nat
<1>1. row.boost \in Nat /\ row.last_vote_weight \in Nat
  BY VotingAssumption DEF Voter
<1> QED
  BY <1>1 DEF Worth

LEMMA StakeOfType ==
  ASSUME NEW row \in Voter
  PROVE  StakeOf(row) \in Nat /\ row.staked <= StakeOf(row)
BY DEF Voter, StakeOf

\* The weight of a stake, and when it is 0.
LEMMA WeightType ==
  ASSUME NEW s \in Nat, NEW n \in 0..MaxVotes
  PROVE  /\ inverse_vote_weight(s, n) \in Nat
         /\ s = 0 => inverse_vote_weight(s, n) = 0
         /\ inverse_vote_weight(s, n) = 0 => s = 0 \/ n = 0
<1> DEFINE f == Factor[n]
<1>1. f \in Nat /\ (f = 0 <=> n = 0)
  BY VotingAssumption
<1>2. inverse_vote_weight(s, n) = s * f
  BY DEF inverse_vote_weight
<1> HIDE DEF f
<1>3. s * f \in Nat /\ (s = 0 => s * f = 0) /\ (s * f = 0 => s = 0 \/ f = 0)
  BY <1>1
<1> QED
  BY <1>1, <1>2, <1>3

\* Writing one row changes the votes cast by what the row is worth.
LEMMA CastUpdate ==
  ASSUME NEW vs \in [Voters -> Voter], NEW v \in Voters, NEW row \in Voter, NEW p
  PROVE  /\ CastIn(vs, p) \in Nat /\ Worth(vs[v], v, p) <= CastIn(vs, p)
         /\ CastIn([vs EXCEPT ![v] = row], p) = CastIn(vs, p) - Worth(vs[v], v, p) + Worth(row, v, p)
<1> DEFINE f == [u \in Voters |-> Worth(vs[u], u, p)]
           g == [u \in Voters |-> Worth([vs EXCEPT ![v] = row][u], u, p)]
<1>1. f \in [Voters -> Nat] /\ Worth(row, v, p) \in Nat
  BY WorthType
<1>2. g = [f EXCEPT ![v] = Worth(row, v, p)] /\ f[v] = Worth(vs[v], v, p)
  OBVIOUS
<1>3. CastIn(vs, p) = SumOver(f) /\ CastIn([vs EXCEPT ![v] = row], p) = SumOver(g)
  BY DEF CastIn
<1>4. IsFiniteSet(Voters)
  BY VotingAssumption
<1> HIDE DEF f, g
<1>5. SumOver(f) \in Nat /\ f[v] <= SumOver(f)
  BY <1>1, <1>4, SumType, SumBoundsEntry
<1>6. SumOver(g) = SumOver(f) - f[v] + Worth(row, v, p)
  BY <1>1, <1>2, <1>4, SumUpdate
<1> QED
  BY <1>2, <1>3, <1>5, <1>6
-----------------------------------------------------------------------------
\* The tally.

\* What a new row of v adds to the votes of each producer.
Gain(t, v, row) == [p \in Producers |-> Worth(row, v, p) - Worth(t.voters[v], v, p)]

\* The row of v is written and the votes follow, except those of producers that are amiss.
IsMoved(t, t1, v, row) ==
    /\ IsTables(t1) /\ t1.voters = [t.voters EXCEPT ![v] = row]
    /\ t1.votes \in [Producers -> Int] /\ t1.weight \in Int
    /\ t.amiss \subseteq t1.amiss /\ t1.amiss \subseteq Producers
    /\ \A p \in Producers \ t1.amiss : t1.votes[p] = t.votes[p] + Gain(t, v, row)[p]
    /\ t1.amiss = {} => t1.weight = t.weight + SumOf(Gain(t, v, row), Producers)

\* The votes of a producer that is not amiss are never negative.
LEMMA GainFits ==
  ASSUME NEW t, Tallied(t), t.voters \in [Voters -> Voter], NEW v \in Voters, NEW row \in Voter,
         NEW p \in Producers
  PROVE  /\ Gain(t, v, row)[p] \in Int
         /\ p \notin t.amiss =>
               /\ t.votes[p] \in Nat /\ t.votes[p] + Gain(t, v, row)[p] \in Nat
               /\ t.votes[p] + Gain(t, v, row)[p] = CastIn([t.voters EXCEPT ![v] = row], p) + OnEvm(p)
<1> DEFINE c == CastIn(t.voters, p)
           o == Worth(t.voters[v], v, p)
           n == Worth(row, v, p)
           e == OnEvm(p)
           c1 == CastIn([t.voters EXCEPT ![v] = row], p)
           d == Gain(t, v, row)[p]
<1>1. c \in Nat /\ o <= c /\ c1 = c - o + n
  BY CastUpdate
<1>2. o \in Nat /\ n \in Nat
  BY WorthType
<1>3. e \in Nat /\ (p \notin t.amiss => t.votes[p] = c + e)
  BY DEF Tallied
<1>4. d = n - o
  BY DEF Gain
<1> HIDE DEF c, o, n, e, c1, d
<1>5. d \in Int /\ (p \notin t.amiss => /\ t.votes[p] \in Nat /\ t.votes[p] + d \in Nat
                                       /\ t.votes[p] + d = c1 + e)
  BY <1>1, <1>2, <1>3, <1>4
<1> QED
  BY <1>5 DEF c1, d, e

LEMMA MovedTallied ==
  ASSUME NEW t, Tallied(t), t.voters \in [Voters -> Voter], NEW v \in Voters, NEW row \in Voter,
         NEW t1, IsMoved(t, t1, v, row)
  PROVE  Tallied(t1)
<1> DEFINE d == Gain(t, v, row)
<1>0. IsFiniteSet(Producers)
  BY VotingAssumption
<1>1. \A p \in Producers : /\ d[p] \in Int
                           /\ p \notin t.amiss => /\ t.votes[p] \in Nat /\ t.votes[p] + d[p] \in Nat
                                                 /\ t.votes[p] + d[p] = CastIn(t1.voters, p) + OnEvm(p)
  <2>1. t1.voters = [t.voters EXCEPT ![v] = row]
    BY DEF IsMoved
  <2> QED
    BY <2>1, GainFits
<1>2. /\ IsTables(t1) /\ t1.votes \in [Producers -> Int] /\ t1.weight \in Int
      /\ t.amiss \subseteq t1.amiss /\ t1.amiss \subseteq Producers
      /\ \A p \in Producers \ t1.amiss : t1.votes[p] = t.votes[p] + d[p]
      /\ t1.amiss = {} => t1.weight = t.weight + SumOf(d, Producers)
  BY DEF IsMoved
<1>3. /\ t.votes \in [Producers -> Int] /\ (t.amiss = {} => t.weight = SumOver(t.votes))
      /\ \A p \in Producers : OnEvm(p) \in Nat
  BY DEF Tallied
<1> HIDE DEF d
<1>4. ASSUME t1.amiss = {} PROVE t1.weight = SumOver(t1.votes)
  <2>1. t.amiss = {} /\ \A p \in Producers : t1.votes[p] = t.votes[p] + d[p]
    BY <1>2, <1>4
  <2>2. /\ \A p \in Producers : t.votes[p] \in Int /\ d[p] \in Int /\ t1.votes[p] = t.votes[p] + d[p]
        /\ \A p \in Producers : t.votes[p] \in Nat /\ t1.votes[p] \in Nat
    BY <1>1, <1>3, <2>1
  <2>3. t.votes \in [Producers -> Nat] /\ t1.votes \in [Producers -> Nat]
    BY <1>2, <1>3, <2>2
  <2>4. SumOf(t1.votes, Producers) = SumOf(t.votes, Producers) + SumOf(d, Producers)
    BY <1>0, <2>2, SumOfAdd
  <2>5. SumOf(t1.votes, Producers) = SumOver(t1.votes) /\ SumOf(t.votes, Producers) = SumOver(t.votes)
    BY <1>0, <2>3, SumOfIsSumOver
  <2> QED
    BY <1>2, <1>3, <1>4, <2>1, <2>4, <2>5
<1>5. \A p \in Producers \ t1.amiss : t1.votes[p] = CastIn(t1.voters, p) + OnEvm(p)
  BY <1>1, <1>2
<1> QED
  BY <1>2, <1>3, <1>4, <1>5 DEF Tallied

\* A row that is written without its vote leaves the tally.
LEMMA SameTallied ==
  ASSUME NEW t, Tallied(t), NEW t1, IsTables(t1), t1.votes = t.votes, t1.weight = t.weight, t1.amiss = t.amiss,
         \A u \in Voters : \A p \in Producers : Worth(t1.voters[u], u, p) = Worth(t.voters[u], u, p)
  PROVE  Tallied(t1)
<1>1. \A p \in Producers : CastIn(t1.voters, p) = CastIn(t.voters, p)
  BY DEF CastIn
<1> QED
  BY <1>1 DEF Tallied
-----------------------------------------------------------------------------
\* The stake given to proxies.

LEMMA GivenType ==
  ASSUME NEW vs \in [Voters -> Voter], NEW v, NEW x
  PROVE  GivenBut(vs, v, x) \in Nat
<1> DEFINE f == [u \in Voters |-> IF u # v /\ vs[u].proxy = x THEN vs[u].last_stake ELSE 0]
<1>1. f \in [Voters -> Nat]
  BY DEF Voter
<1>2. IsFiniteSet(Voters)
  BY VotingAssumption
<1> HIDE DEF f
<1>3. SumOver(f) \in Nat
  BY <1>1, <1>2, SumType
<1> QED
  BY <1>3 DEF GivenBut, f

\* What all give is what v gives and what the others give.
LEMMA GivenSplit ==
  ASSUME NEW vs \in [Voters -> Voter], NEW v \in Voters, NEW x
  PROVE  SumOver([u \in Voters |-> IF vs[u].proxy = x THEN vs[u].last_stake ELSE 0])
            = GivenBut(vs, v, x) + IF x = vs[v].proxy THEN vs[v].last_stake ELSE 0
<1> DEFINE f == [u \in Voters |-> IF vs[u].proxy = x THEN vs[u].last_stake ELSE 0]
           g == [u \in Voters |-> IF u # v /\ vs[u].proxy = x THEN vs[u].last_stake ELSE 0]
           n == IF x = vs[v].proxy THEN vs[v].last_stake ELSE 0
<1>1. f \in [Voters -> Nat] /\ f[v] = n /\ n \in Nat
  BY DEF Voter
<1>2. g = [f EXCEPT ![v] = 0]
  OBVIOUS
<1>3. IsFiniteSet(Voters)
  BY VotingAssumption
<1> HIDE DEF f, g, n
<1>4. SumOver(g) = SumOver(f) - f[v] + 0 /\ SumOver(f) \in Nat
  <2>1. 0 \in Nat
    OBVIOUS
  <2>2. SumOver([f EXCEPT ![v] = 0]) = SumOver(f) - f[v] + 0
    BY <1>1, <1>3, <2>1, SumUpdate
  <2>3. SumOver(f) \in Nat
    BY <1>1, <1>3, SumType
  <2> QED
    BY <1>2, <2>2, <2>3
<1>5. SumOver(f) = SumOver(g) + n
  BY <1>1, <1>4
<1> QED
  BY <1>5 DEF f, g, n, GivenBut

LEMMA ProxiedSplit ==
  ASSUME NEW vs \in [Voters -> Voter], NEW v \in Voters
  PROVE  AllProxied(vs) <=> ProxiedIs(vs, v, vs[v].proxy, vs[v].last_stake)
<1> DEFINE all(x) == SumOver([u \in Voters |-> IF vs[u].proxy = x THEN vs[u].last_stake ELSE 0])
           some(x) == GivenBut(vs, v, x) + IF x = vs[v].proxy THEN vs[v].last_stake ELSE 0
<1>1. \A x : all(x) = some(x)
  BY GivenSplit
<1>2. AllProxied(vs) <=> \A x \in Voters : vs[x].proxied = all(x)
  BY DEF AllProxied
<1>3. ProxiedIs(vs, v, vs[v].proxy, vs[v].last_stake) <=> \A x \in Voters : vs[x].proxied = some(x)
  BY DEF ProxiedIs
<1> HIDE DEF all, some
<1> QED
  BY <1>1, <1>2, <1>3

\* The others give the same when their rows have the same proxy and, if they use one, stake.
LEMMA GivenSame ==
  ASSUME NEW vs, NEW ws, NEW v, NEW x \in Voters,
         \A u \in Voters \ {v} : /\ ws[u].proxy = vs[u].proxy
                                 /\ vs[u].proxy # NoName => ws[u].last_stake = vs[u].last_stake
  PROVE  GivenBut(ws, v, x) = GivenBut(vs, v, x)
<1>1. x # NoName
  BY VotingAssumption
<1>2. [u \in Voters |-> IF u # v /\ ws[u].proxy = x THEN ws[u].last_stake ELSE 0]
      = [u \in Voters |-> IF u # v /\ vs[u].proxy = x THEN vs[u].last_stake ELSE 0]
  BY <1>1
<1> QED
  BY <1>2 DEF GivenBut
-----------------------------------------------------------------------------
\* The parts of update_votes.

\* What the parts leave alone.
Keeps(t, t1, v) == /\ t1.voters[v] = t.voters[v]
                   /\ \A u \in Voters : t1.voters[u].staked = t.voters[u].staked

SetProxied(t, x, n) == [t EXCEPT !.voters[x].proxied = n]

\* t1 is t with the stake of x set to n, as far as it matters.
IsSet(t, t1, v, x, n) ==
    /\ Tallied(t1) /\ RowsAre(t1.voters, v, x) /\ Keeps(t, t1, v)
    /\ \A y \in Voters : /\ GivenBut(t1.voters, v, y) = GivenBut(t.voters, v, y)
                         /\ t1.voters[y].proxied = IF y = x THEN n ELSE t.voters[y].proxied

LEMMA ProxiedSet ==
  ASSUME NEW t, Tallied(t), NEW v, NEW x \in Proxies \ {v}, RowsAre(t.voters, v, x), NEW n \in Nat
  PROVE  IsSet(t, SetProxied(t, x, n), v, x, n)
<1> DEFINE t1 == SetProxied(t, x, n)
           row == t.voters[x]
           new == [row EXCEPT !.proxied = n]
<1>1. x \in Voters
  BY VotingAssumption
<1>2. t.voters \in [Voters -> Voter] /\ row \in Voter
  BY <1>1 DEF RowsAre
<1>3. /\ new \in Voter /\ new.proxied = n
      /\ new.staked = row.staked /\ new.last_stake = row.last_stake
      /\ new.last_vote_weight = row.last_vote_weight /\ new.is_proxy = row.is_proxy
      /\ new.producers = row.producers /\ new.proxy = row.proxy /\ new.boost = row.boost
  BY <1>2 DEF Voter
<1>4. /\ t1.voters = [t.voters EXCEPT ![x] = new] /\ t1.votes = t.votes /\ t1.weight = t.weight
      /\ t1.amiss = t.amiss /\ IsTables(t1)
  BY DEF SetProxied, Tallied, IsTables
<1> HIDE DEF t1, new
<1>5. /\ t1.voters[x] = new /\ \A u \in Voters \ {x} : t1.voters[u] = t.voters[u]
      /\ t1.voters \in [Voters -> Voter]
  BY <1>1, <1>2, <1>3, <1>4
<1>6. Tallied(t1)
  <2>1. \A u \in Voters : \A p \in Producers : Worth(t1.voters[u], u, p) = Worth(t.voters[u], u, p)
    BY <1>3, <1>5 DEF Worth
  <2> QED
    BY <1>4, <2>1, SameTallied
<1>7. RowsAre(t1.voters, v, x)
  <2>1. RowOK(new, x) /\ UpToDate(new, x)
    BY <1>1, <1>3 DEF RowsAre, RowOK, UpToDate
  <2> QED
    BY <1>5, <2>1 DEF RowsAre
<1>8. Keeps(t, t1, v)
  <2>1. t1.voters[v] = t.voters[v]
    BY <1>1, <1>2, <1>4
  <2> QED
    BY <1>3, <1>5, <2>1 DEF Keeps
<1>9. \A y \in Voters : GivenBut(t1.voters, v, y) = GivenBut(t.voters, v, y)
  <2>1. \A u \in Voters : t1.voters[u].proxy = t.voters[u].proxy /\ t1.voters[u].last_stake = t.voters[u].last_stake
    BY <1>3, <1>5
  <2> QED
    BY <2>1, GivenSame
<1>10. \A y \in Voters : t1.voters[y].proxied = IF y = x THEN n ELSE t.voters[y].proxied
  BY <1>3, <1>5
<1> QED
  BY <1>6, <1>7, <1>8, <1>9, <1>10 DEF t1, IsSet

\* propagate_weight_change of a proxy.
LEMMA Propagate ==
  ASSUME NEW t, Tallied(t), NEW v, NEW x \in Proxies \ {v}, RowsAre(t.voters, v, x)
  PROVE  LET t1 == propagate_weight_change(t, x)
         IN  /\ Tallied(t1) /\ RowsAre(t1.voters, v, v) /\ Keeps(t, t1, v)
             /\ \A y \in Voters : /\ GivenBut(t1.voters, v, y) = GivenBut(t.voters, v, y)
                                  /\ t1.voters[y].proxied = t.voters[y].proxied
<1> DEFINE t1 == propagate_weight_change(t, x)
           row == t.voters[x]
           k == Cardinality(row.producers)
           s == StakeOf(row)
           w == inverse_vote_weight(s, k)
           new == [row EXCEPT !.last_vote_weight = w, !.last_stake = s]
<1>1. x \in Voters /\ IsFiniteSet(Producers)
  BY VotingAssumption
<1>2. t.voters \in [Voters -> Voter] /\ row \in Voter /\ RowOK(row, x) /\ UpToDate(row, x)
  BY <1>1 DEF RowsAre
<1>3. row.producers \subseteq Producers /\ IsFiniteSet(row.producers) /\ k \in 0..MaxVotes
  <2>1. row.producers \subseteq Producers
    BY <1>2 DEF Voter
  <2>2. IsFiniteSet(row.producers)
    BY <2>1, VotingAssumption, FS_Subset
  <2>3. k \in Nat /\ k <= MaxVotes /\ MaxVotes \in Nat
    BY <1>2, <2>2, VotingAssumption, FS_CardinalityType DEF RowOK
  <2> QED
    BY <2>1, <2>2, <2>3
<1>4. s \in Nat /\ row.staked <= s /\ (~row.is_proxy => s = row.staked)
  <2>1. s \in Nat /\ row.staked <= s
    BY <1>2, StakeOfType
  <2>2. row.staked \in Nat
    BY <1>2 DEF Voter
  <2> QED
    BY <2>1, <2>2 DEF StakeOf
<1>5. w \in Nat /\ (s = 0 => w = 0) /\ (w = 0 => s = 0 \/ row.producers = {})
  <2> HIDE DEF s, k
  <2>1. w \in Nat /\ (s = 0 => w = 0) /\ (w = 0 => s = 0 \/ k = 0)
    BY <1>3, <1>4, WeightType
  <2>2. k = 0 => row.producers = {}
    BY <1>3, FS_EmptySet DEF k
  <2> QED
    BY <2>1, <2>2
<1> HIDE DEF s, k, w
<1>6. /\ new \in Voter /\ new.last_stake = s /\ new.last_vote_weight = w
      /\ new.staked = row.staked /\ new.proxied = row.proxied /\ new.is_proxy = row.is_proxy
      /\ new.producers = row.producers /\ new.proxy = row.proxy /\ new.boost = row.boost
  BY <1>2, <1>4, <1>5 DEF Voter
<1>7. IsMoved(t, t1, x, new)
  <2> DEFINE d == [p \in Producers |-> IF p \in row.producers THEN w - row.last_vote_weight ELSE 0]
             e == Gain(t, x, new)
             m == Misses(row, x, w)
  <2>1. /\ row.last_vote_weight \in Nat /\ row.boost \in Nat /\ row.producers \subseteq Producers
        /\ \A p \in Producers : d[p] \in Int
    <3>1. row.last_vote_weight \in Nat /\ row.boost \in Nat /\ row.producers \subseteq Producers
      BY <1>2, VotingAssumption DEF Voter
    <3>2. w - row.last_vote_weight \in Int
      BY <1>5, <3>1
    <3> QED
      BY <3>1, <3>2
  <2>2. m \subseteq Producers
    BY <2>1 DEF Misses
  <2>3. ASSUME NEW p \in Producers \ m PROVE d[p] = e[p]
    <3> DEFINE lw == row.last_vote_weight
               b == row.boost
    <3>1. e[p] = Worth(new, x, p) - Worth(row, x, p)
      BY DEF Gain
    <3>2. Worth(row, x, p) = IF p \notin row.producers THEN 0 ELSE IF p # x THEN lw ELSE (1 + b) * lw
      BY DEF Worth
    <3>3. Worth(new, x, p) = IF p \notin row.producers THEN 0 ELSE IF p # x THEN w ELSE (1 + b) * w
      BY <1>6 DEF Worth
    <3>4. p \in row.producers /\ p = x => b = 0 \/ w = lw
      BY <2>3 DEF Misses
    <3>5. d[p] = IF p \in row.producers THEN w - lw ELSE 0
      OBVIOUS
    <3>6. lw \in Nat /\ b \in Nat /\ w \in Nat
      BY <1>5, <2>1
    <3> HIDE DEF lw, b, d, e
    <3>7. b = 0 => (1 + b) * lw = lw /\ (1 + b) * w = w
      BY <3>6
    <3>8. (1 + b) * lw \in Int
      BY <3>6
    <3>9. CASE p \in row.producers /\ p = x /\ b = 0
      BY <3>1, <3>2, <3>3, <3>5, <3>7, <3>9
    <3>10. CASE p \in row.producers /\ p = x /\ w = lw
      BY <3>1, <3>2, <3>3, <3>5, <3>6, <3>8, <3>10
    <3>11. CASE p \notin row.producers \/ p # x
      BY <3>1, <3>2, <3>3, <3>5, <3>6, <3>11
    <3> QED
      BY <3>4, <3>9, <3>10, <3>11
  <2>4. Sum(d) = SumOf(d, Producers)
    BY DEF Sum
  <2>5. t1 = [voters |-> [t.voters EXCEPT ![x] = new],
              votes  |-> [p \in Producers |-> t.votes[p] + d[p]],
              weight |-> t.weight + Sum(d), amiss |-> t.amiss \cup m]
    <3>1. IsTables(t)
      BY DEF Tallied
    <3>2. t1 = [t EXCEPT !.voters[x].last_vote_weight = w, !.voters[x].last_stake = s,
                         !.votes = [p \in Producers |-> @[p] + d[p]], !.weight = @ + Sum(d),
                         !.amiss = @ \cup m]
      BY DEF propagate_weight_change, w, s, k
    <3> HIDE DEF d, t1, m
    <3> QED
      BY <3>1, <3>2, <1>1, <1>2 DEF IsTables
  <2>6. /\ t.votes \in [Producers -> Int] /\ t.weight \in Int /\ t.amiss \subseteq Producers
    BY DEF Tallied
  <2> HIDE DEF d, e, m, new, t1
  <2>7. SumOf(d, Producers) \in Int
    BY <1>1, <2>1, SumOfType
  <2>8. m = {} => SumOf(d, Producers) = SumOf(e, Producers)
    <3>1. ASSUME m = {} PROVE SumOf(d, Producers) = SumOf(e, Producers)
      <4>1. \A p \in Producers : d[p] = e[p]
        BY <2>3, <3>1
      <4> QED
        BY <4>1, SumOfSame
    <3> QED
      BY <3>1
  <2>9. /\ IsTables(t1) /\ t1.voters = [t.voters EXCEPT ![x] = new]
        /\ t1.votes = [p \in Producers |-> t.votes[p] + d[p]]
        /\ t1.weight = t.weight + SumOf(d, Producers) /\ t1.amiss = t.amiss \cup m
    BY <2>4, <2>5 DEF IsTables
  <2>10. t1.votes \in [Producers -> Int] /\ t1.weight \in Int
    BY <2>1, <2>6, <2>7, <2>9
  <2>11. \A p \in Producers \ t1.amiss : t1.votes[p] = t.votes[p] + e[p]
    BY <2>3, <2>9
  <2>12. t1.amiss = {} => t1.weight = t.weight + SumOf(e, Producers)
    BY <2>8, <2>9
  <2> QED
    BY <2>2, <2>6, <2>9, <2>10, <2>11, <2>12 DEF IsMoved, e
<1> HIDE DEF t1, new
<1>8. Tallied(t1)
  BY <1>1, <1>2, <1>6, <1>7, MovedTallied
<1>9. /\ t1.voters = [t.voters EXCEPT ![x] = new]
      /\ t1.voters[x] = new /\ \A u \in Voters \ {x} : t1.voters[u] = t.voters[u]
      /\ t1.voters \in [Voters -> Voter]
  <2>1. t1.voters = [t.voters EXCEPT ![x] = new]
    BY <1>7 DEF IsMoved
  <2> QED
    BY <1>1, <1>2, <1>6, <2>1
<1>10. RowsAre(t1.voters, v, v)
  <2>1. RowOK(new, x)
    BY <1>2, <1>4, <1>5, <1>6 DEF RowOK
  <2>2. UpToDate(new, x)
    <3>1. row.proxy # NoName => ~row.is_proxy
      BY <1>2 DEF RowOK
    <3> QED
      BY <1>4, <1>6, <3>1 DEF UpToDate
  <2>3. NotAhead(new, x)
    <3>1. StakeOf(new) = s
      BY <1>6 DEF StakeOf, s
    <3> QED
      BY <1>4, <1>6, <3>1 DEF NotAhead
  <2> QED
    BY <1>9, <2>1, <2>2, <2>3 DEF RowsAre
<1>11. Keeps(t, t1, v)
  <2>1. t1.voters[v] = t.voters[v]
    BY <1>1, <1>2, <1>9
  <2> QED
    BY <1>6, <1>9, <2>1 DEF Keeps
<1>12. \A y \in Voters : GivenBut(t1.voters, v, y) = GivenBut(t.voters, v, y)
  <2>1. row.proxy # NoName => new.last_stake = row.last_stake
    BY <1>2, <1>4, <1>6 DEF RowOK, UpToDate
  <2>2. \A u \in Voters : /\ t1.voters[u].proxy = t.voters[u].proxy
                          /\ t.voters[u].proxy # NoName => t1.voters[u].last_stake = t.voters[u].last_stake
    BY <1>6, <1>9, <2>1
  <2> SUFFICES ASSUME NEW y \in Voters PROVE GivenBut(t1.voters, v, y) = GivenBut(t.voters, v, y)
    OBVIOUS
  <2>4. y # NoName
    BY VotingAssumption
  <2>5. [u \in Voters |-> IF u # v /\ t1.voters[u].proxy = y THEN t1.voters[u].last_stake ELSE 0]
        = [u \in Voters |-> IF u # v /\ t.voters[u].proxy = y THEN t.voters[u].last_stake ELSE 0]
    BY <2>2, <2>4
  <2> QED
    BY <2>5 DEF GivenBut
<1>13. \A y \in Voters : t1.voters[y].proxied = t.voters[y].proxied
  BY <1>6, <1>9
<1> QED
  BY <1>8, <1>10, <1>11, <1>12, <1>13 DEF t1

\* Leaving the proxy v has used: afterwards nothing that v gives is counted.
LEMMA Leave ==
  ASSUME NEW t, NEW v \in Voters, Good(t, v), NEW px
  PROVE  LET t1 == LeaveProxy(t, v, px)
         IN  /\ Tallied(t1) /\ RowsAre(t1.voters, v, px) /\ Keeps(t, t1, v)
             /\ ProxiedIs(t1.voters, v, NoName, 0)
<1> DEFINE row == t.voters[v]
           x == row.proxy
           n == row.last_stake
<1>1. /\ t.voters \in [Voters -> Voter] /\ row \in Voter /\ RowOK(row, v)
      /\ Tallied(t) /\ RowsAre(t.voters, v, v)
  BY DEF Good, RowsAre
<1>2. NoName \notin Voters /\ Proxies \subseteq Voters
  BY VotingAssumption
<1>3. ProxiedIs(t.voters, v, x, n)
  BY <1>1, ProxiedSplit DEF Good
<1>4. n \in Nat
  BY <1>1 DEF Voter
<1>5. RowsAre(t.voters, v, px)
  BY <1>1 DEF RowsAre
<1>6. \A y \in Voters : GivenBut(t.voters, v, y) \in Nat
  BY <1>1, GivenType
<1>7. CASE n = 0 \/ x = NoName
  <2>1. LeaveProxy(t, v, px) = t
    BY <1>7 DEF LeaveProxy
  <2>2. ProxiedIs(t.voters, v, NoName, 0)
    BY <1>2, <1>3, <1>7 DEF ProxiedIs
  <2> QED
    BY <1>1, <1>5, <2>1, <2>2 DEF Keeps
<1>8. CASE ~(n = 0 \/ x = NoName)
  <2> DEFINE g == GivenBut(t.voters, v, x)
             t2 == SetProxied(t, x, g)
  <2>1. x \in Proxies \ {v} /\ x \in Voters
    BY <1>1, <1>2, <1>8 DEF RowOK
  <2>2. t.voters[x].proxied = g + n /\ g \in Nat
    BY <1>3, <1>6, <2>1 DEF ProxiedIs
  <2>3. [t EXCEPT !.voters[x].proxied = @ - n] = t2
    <3>1. t.voters[x].proxied - n = g
      BY <1>4, <2>2
    <3> HIDE DEF g
    <3> QED
      BY <3>1 DEF SetProxied
  <2>4. LeaveProxy(t, v, px) = IF px = x THEN t2 ELSE propagate_weight_change(t2, x)
    BY <1>8, <2>3 DEF LeaveProxy
  <2>5. RowsAre(t.voters, v, x)
    BY <1>1 DEF RowsAre
  <2>6. /\ Tallied(t2) /\ RowsAre(t2.voters, v, x) /\ Keeps(t, t2, v)
        /\ \A y \in Voters : /\ GivenBut(t2.voters, v, y) = GivenBut(t.voters, v, y)
                             /\ t2.voters[y].proxied = IF y = x THEN g ELSE t.voters[y].proxied
    <3>1. Tallied(t) /\ x \in Proxies \ {v} /\ RowsAre(t.voters, v, x) /\ g \in Nat
      BY <1>1, <2>1, <2>2, <2>5
    <3> HIDE DEF g, x
    <3>2. IsSet(t, SetProxied(t, x, g), v, x, g)
      BY <3>1, ProxiedSet
    <3> QED
      BY <3>2 DEF IsSet
  <2> HIDE DEF t2
  <2>7. ProxiedIs(t2.voters, v, NoName, 0)
    <3> SUFFICES ASSUME NEW y \in Voters
                 PROVE  t2.voters[y].proxied = GivenBut(t2.voters, v, y) + 0
      BY <1>2 DEF ProxiedIs
    <3>1. CASE y = x
      BY <3>1, <2>2, <2>6
    <3>2. CASE y # x
      <4>1. t.voters[y].proxied = GivenBut(t.voters, v, y) + 0
        BY <1>3, <3>2 DEF ProxiedIs
      <4> QED
        BY <3>2, <4>1, <2>6
    <3> QED
      BY <3>1, <3>2
  <2>8. CASE px = x
    BY <2>4, <2>6, <2>7, <2>8
  <2>9. CASE px # x
    <3> DEFINE t3 == propagate_weight_change(t2, x)
    <3>1. /\ Tallied(t3) /\ RowsAre(t3.voters, v, v) /\ Keeps(t2, t3, v)
          /\ \A y \in Voters : /\ GivenBut(t3.voters, v, y) = GivenBut(t2.voters, v, y)
                               /\ t3.voters[y].proxied = t2.voters[y].proxied
      BY <2>1, <2>6, Propagate
    <3>2. LeaveProxy(t, v, px) = t3
      BY <2>4, <2>9
    <3> HIDE DEF t3
    <3>3. ProxiedIs(t3.voters, v, NoName, 0)
      BY <2>7, <3>1 DEF ProxiedIs
    <3>4. Keeps(t, t3, v)
      BY <2>6, <3>1 DEF Keeps
    <3>5. RowsAre(t3.voters, v, px)
      BY <3>1 DEF RowsAre
    <3> QED
      BY <3>1, <3>2, <3>3, <3>4, <3>5
  <2> QED
    BY <2>8, <2>9
<1> QED
  BY <1>7, <1>8

\* Joining a proxy: afterwards the stake of v is counted there.
LEMMA Join ==
  ASSUME NEW t, NEW v \in Voters, NEW px \in (Proxies \ {v}) \cup {NoName},
         Tallied(t), RowsAre(t.voters, v, px), ProxiedIs(t.voters, v, NoName, 0)
  PROVE  LET t1 == JoinProxy(t, v, px)
         IN  /\ Tallied(t1) /\ RowsAre(t1.voters, v, v) /\ Keeps(t, t1, v)
             /\ ProxiedIs(t1.voters, v, px, t.voters[v].staked)
<1> DEFINE n == t.voters[v].staked
<1>1. t.voters \in [Voters -> Voter] /\ n \in Nat
  BY DEF RowsAre, Voter
<1>2. NoName \notin Voters /\ Proxies \subseteq Voters
  BY VotingAssumption
<1>3. \A y \in Voters : GivenBut(t.voters, v, y) \in Nat
  BY <1>1, GivenType
<1>4. CASE px = NoName
  <2>1. JoinProxy(t, v, px) = t
    BY <1>4 DEF JoinProxy
  <2>2. RowsAre(t.voters, v, v)
    BY <1>2, <1>4 DEF RowsAre
  <2>3. ProxiedIs(t.voters, v, px, n)
    BY <1>2, <1>4 DEF ProxiedIs
  <2> QED
    BY <2>1, <2>2, <2>3 DEF Keeps
<1>5. CASE px # NoName
  <2> DEFINE g == t.voters[px].proxied + n
             t2 == SetProxied(t, px, g)
  <2>1. px \in Proxies \ {v} /\ px \in Voters
    BY <1>2, <1>5
  <2>2. g = GivenBut(t.voters, v, px) + n /\ g \in Nat
    <3>1. t.voters[px].proxied = GivenBut(t.voters, v, px) + 0
      BY <1>2, <2>1 DEF ProxiedIs
    <3> QED
      BY <1>1, <1>3, <2>1, <3>1
  <2>3. JoinProxy(t, v, px) = IF t2.voters[px].last_vote_weight > 0 THEN propagate_weight_change(t2, px) ELSE t2
    BY <1>5 DEF JoinProxy, SetProxied
  <2> HIDE DEF g
  <2>4. /\ Tallied(t2) /\ RowsAre(t2.voters, v, px) /\ Keeps(t, t2, v)
        /\ \A y \in Voters : /\ GivenBut(t2.voters, v, y) = GivenBut(t.voters, v, y)
                             /\ t2.voters[y].proxied = IF y = px THEN g ELSE t.voters[y].proxied
    <3>1. IsSet(t, SetProxied(t, px, g), v, px, g)
      BY <2>1, <2>2, ProxiedSet
    <3> QED
      BY <3>1 DEF IsSet
  <2> HIDE DEF t2
  <2>5. ProxiedIs(t2.voters, v, px, n)
    <3> SUFFICES ASSUME NEW y \in Voters
                 PROVE  t2.voters[y].proxied = GivenBut(t2.voters, v, y) + IF y = px THEN n ELSE 0
      BY DEF ProxiedIs
    <3>1. CASE y = px
      BY <3>1, <2>2, <2>4
    <3>2. CASE y # px
      <4>1. t.voters[y].proxied = GivenBut(t.voters, v, y) + 0
        BY <1>2 DEF ProxiedIs
      <4> QED
        BY <3>2, <4>1, <2>4
    <3> QED
      BY <3>1, <3>2
  <2>6. CASE ~(t2.voters[px].last_vote_weight > 0)
    <3>1. t2.voters[px] \in Voter /\ RowOK(t2.voters[px], px)
      BY <2>1, <2>4 DEF RowsAre
    <3>2. t2.voters[px].last_vote_weight = 0
      BY <2>6, <3>1 DEF Voter
    <3>3. NotAhead(t2.voters[px], px)
      <4>1. t2.voters[px].last_stake = 0 \/ t2.voters[px].producers = {}
        BY <3>1, <3>2 DEF RowOK
      <4>2. StakeOf(t2.voters[px]) \in Nat
        BY <3>1, StakeOfType
      <4> QED
        BY <4>1, <4>2 DEF NotAhead
    <3>4. RowsAre(t2.voters, v, v)
      BY <2>4, <3>3 DEF RowsAre
    <3>5. JoinProxy(t, v, px) = t2
      BY <2>3, <2>6
    <3> QED
      BY <2>4, <2>5, <3>4, <3>5
  <2>7. CASE t2.voters[px].last_vote_weight > 0
    <3> DEFINE t3 == propagate_weight_change(t2, px)
    <3>1. /\ Tallied(t3) /\ RowsAre(t3.voters, v, v) /\ Keeps(t2, t3, v)
          /\ \A y \in Voters : /\ GivenBut(t3.voters, v, y) = GivenBut(t2.voters, v, y)
                               /\ t3.voters[y].proxied = t2.voters[y].proxied
      BY <2>1, <2>4, Propagate
    <3>2. JoinProxy(t, v, px) = t3
      BY <2>3, <2>7
    <3> HIDE DEF t3
    <3>3. ProxiedIs(t3.voters, v, px, n)
      BY <2>5, <3>1 DEF ProxiedIs
    <3>4. Keeps(t, t3, v)
      BY <2>4, <3>1 DEF Keeps
    <3> QED
      BY <3>1, <3>2, <3>3, <3>4
  <2> QED
    BY <2>6, <2>7
<1> QED
  BY <1>4, <1>5
-----------------------------------------------------------------------------
\* The vote v may cast with the tables t.
CanVote(t, v, px, prods) ==
    /\ prods \subseteq Producers /\ Cardinality(prods) <= MaxVotes
    /\ px \in Voters \cup {NoName}
    /\ px # NoName => px \in Proxies \ {v} /\ prods = {} /\ ~t.voters[v].is_proxy

\* The row update_votes writes for v.
Rewritten(row, v, px, prods, stake, w) ==
    [row EXCEPT !.last_vote_weight = w, !.last_stake = stake, !.producers = prods, !.proxy = px,
                !.boost = BoostAfter(row, v, prods)]

\* What update_votes adds to each producer is what the new row is worth more than the old one.
LEMMA Difference ==
  ASSUME NEW row \in Voter, NEW v, RowOK(row, v), NEW new \in Voter, NEW w \in Nat, NEW prods,
         new.last_vote_weight = w, new.producers = prods, new.boost = BoostAfter(row, v, prods),
         multiplier \in Boosts, NEW p
  PROVE  (IF p \in prods THEN NewVote(w, v, p) ELSE 0)
            - (IF p \in Removed(row) THEN OldVote(row, v, p) ELSE 0)
         = Worth(new, v, p) - Worth(row, v, p)
<1>1. /\ row.last_vote_weight \in Nat /\ row.boost \in Nat /\ row.last_stake \in Nat /\ multiplier \in Nat
  BY VotingAssumption DEF Voter
<1>2. (IF p \in prods THEN NewVote(w, v, p) ELSE 0) = Worth(new, v, p)
  <2> DEFINE b == 1 + multiplier
  <2>1. b \in Nat /\ w * b = b * w /\ w * 1 = w
    BY <1>1
  <2>2. p \in prods /\ p = v => new.boost = multiplier
    BY DEF BoostAfter
  <2>3. NewVote(w, v, p) = w * (IF p = v THEN b ELSE 1)
    BY DEF NewVote
  <2> QED
    BY <2>1, <2>2, <2>3 DEF Worth
<1>3. (IF p \in Removed(row) THEN OldVote(row, v, p) ELSE 0) = Worth(row, v, p)
  <2> DEFINE lw == row.last_vote_weight
             b == 1 + row.boost
  <2>1. lw \in Nat /\ b \in Nat
    BY <1>1
  <2>2. OldVote(row, v, p) = lw * (IF p = v THEN b ELSE 1)
    BY DEF OldVote
  <2>3. Worth(row, v, p) = IF p \notin row.producers THEN 0 ELSE IF p # v THEN lw ELSE b * lw
    BY DEF Worth
  <2>4. p \in Removed(row) => p \in row.producers
    BY DEF Removed
  <2>5. p \in row.producers /\ p \notin Removed(row) => lw = 0
    BY <1>1 DEF Removed, RowOK
  <2> HIDE DEF lw, b
  <2>6. lw * b = b * lw /\ lw * 1 = lw /\ (lw = 0 => b * lw = 0)
    BY <2>1
  <2> QED
    BY <2>2, <2>3, <2>4, <2>5, <2>6
<1>4. Worth(new, v, p) \in Nat /\ Worth(row, v, p) \in Nat
  BY WorthType
<1> QED
  BY <1>2, <1>3

\* update_votes brings the row of v up to date.
LEMMA UpdateVotes ==
  ASSUME NEW t, NEW v \in Voters, Good(t, v), NEW px, NEW prods, CanVote(t, v, px, prods),
         NEW voting \in BOOLEAN, multiplier \in Boosts, decay \in Decays
  PROVE  LET t1 == update_votes(t, v, px, prods, voting)
         IN  Good(t1, NoName) /\ \A u \in Voters : t1.voters[u].staked = t.voters[u].staked
<1> DEFINE row   == t.voters[v]
           stake == IF voting /\ px = NoName /\ prods = {} THEN 0 ELSE StakeOf(row)
           k     == Cardinality(prods)
           w     == inverse_vote_weight(stake, k) * decay
           new   == Rewritten(row, v, px, prods, stake, w)
           delta == [p \in Producers |-> (IF p \in prods THEN NewVote(w, v, p) ELSE 0)
                                         - (IF p \in Removed(row) THEN OldVote(row, v, p) ELSE 0)]
           ta    == LeaveProxy(t, v, px)
           t2    == JoinProxy(ta, v, px)
           r     == update_votes(t, v, px, prods, voting)
<1>1. NoName \notin Voters /\ Proxies \subseteq Voters /\ IsFiniteSet(Producers)
  BY VotingAssumption
<1>2. t.voters \in [Voters -> Voter] /\ row \in Voter /\ RowOK(row, v)
  BY DEF Good, RowsAre
<1>3. k \in 0..MaxVotes /\ (k = 0 => prods = {})
  <2>1. IsFiniteSet(prods)
    BY <1>1, FS_Subset DEF CanVote
  <2>2. k \in Nat /\ k <= MaxVotes /\ MaxVotes \in Nat
    BY <2>1, VotingAssumption, FS_CardinalityType DEF CanVote
  <2> QED
    BY <2>1, <2>2, FS_EmptySet
<1>4. stake \in Nat
  BY <1>2, StakeOfType
<1>5. w \in Nat /\ (stake = 0 => w = 0) /\ (w = 0 => stake = 0 \/ prods = {})
  <2> DEFINE i == inverse_vote_weight(stake, k)
  <2> HIDE DEF stake, k
  <2>1. i \in Nat /\ (stake = 0 => i = 0) /\ (i = 0 => stake = 0 \/ k = 0)
    BY <1>3, <1>4, WeightType
  <2>2. decay \in Nat \ {0}
    BY VotingAssumption
  <2>3. w = i * decay
    OBVIOUS
  <2> HIDE DEF i, w
  <2>4. w \in Nat /\ (i = 0 => w = 0) /\ (w = 0 => i = 0)
    BY <2>1, <2>2, <2>3
  <2> QED
    BY <1>3, <2>1, <2>4
<1>6. ~(px = NoName /\ prods = {}) => stake = StakeOf(row)
  OBVIOUS
<1>7. (px # NoName \/ (prods # {} /\ v \notin Proxies)) => stake = row.staked
  <2>1. row.is_proxy => v \in Proxies
    BY <1>2 DEF RowOK
  <2>2. px # NoName => ~row.is_proxy
    BY DEF CanVote
  <2>3. ~row.is_proxy => StakeOf(row) = row.staked
    BY <1>2 DEF StakeOf, Voter
  <2> HIDE DEF stake
  <2> QED
    BY <1>6, <2>1, <2>2, <2>3
<1> HIDE DEF stake, w, k
<1>8. BoostAfter(row, v, prods) \in Boosts
  <2>1. row.boost \in Boosts /\ 0 \in Boosts
    BY <1>2, VotingAssumption DEF Voter
  <2> QED
    BY <2>1 DEF BoostAfter
<1>9. /\ new \in Voter /\ new.last_stake = stake /\ new.last_vote_weight = w
      /\ new.producers = prods /\ new.proxy = px /\ new.boost = BoostAfter(row, v, prods)
      /\ new.staked = row.staked /\ new.proxied = row.proxied /\ new.is_proxy = row.is_proxy
  BY <1>2, <1>4, <1>5, <1>8 DEF Voter, Rewritten, CanVote
<1>10. px \in (Proxies \ {v}) \cup {NoName}
  BY DEF CanVote
<1>11. /\ Tallied(ta) /\ RowsAre(ta.voters, v, px) /\ Keeps(t, ta, v)
       /\ ProxiedIs(ta.voters, v, NoName, 0)
  BY Leave
<1> HIDE DEF ta
<1>12. /\ Tallied(t2) /\ RowsAre(t2.voters, v, v) /\ Keeps(ta, t2, v)
       /\ ProxiedIs(t2.voters, v, px, ta.voters[v].staked)
  BY <1>10, <1>11, Join
<1> HIDE DEF t2
<1>13. /\ t2.voters[v] = row /\ ta.voters[v].staked = row.staked
       /\ \A u \in Voters : t2.voters[u].staked = t.voters[u].staked
       /\ t2.voters \in [Voters -> Voter]
  BY <1>11, <1>12 DEF Keeps, RowsAre
<1>14. delta = Gain(t2, v, new)
  <2> HIDE DEF new, row
  <2>1. ASSUME NEW p \in Producers
        PROVE  (IF p \in prods THEN NewVote(w, v, p) ELSE 0)
                   - (IF p \in Removed(row) THEN OldVote(row, v, p) ELSE 0)
               = Worth(new, v, p) - Worth(row, v, p)
    BY <1>2, <1>5, <1>9, Difference
  <2> QED
    BY <1>13, <2>1 DEF Gain
<1>15. \A p \in Producers : /\ delta[p] \in Int
                            /\ p \notin t2.amiss => t2.votes[p] + delta[p] \in Nat
  <2>1. \A p \in Producers : /\ Gain(t2, v, new)[p] \in Int
                             /\ p \notin t2.amiss => t2.votes[p] + Gain(t2, v, new)[p] \in Nat
    <3> HIDE DEF new
    <3> QED
      BY <1>9, <1>12, <1>13, GainFits
  <2> HIDE DEF delta, new
  <2> QED
    BY <1>14, <2>1
<1>16. r = [AddVotes(t2, delta) EXCEPT !.voters[v] = Rewritten(@, v, px, prods, stake, w)]
  <2>1. r = [AddVotes(t2, delta) EXCEPT
               !.voters[v] = [@ EXCEPT !.last_vote_weight = w, !.last_stake = stake,
                                       !.producers = prods, !.proxy = px,
                                       !.boost = BoostAfter(row, v, prods)]]
    BY DEF update_votes, t2, ta, w, k, stake
  <2>2. AddVotes(t2, delta).voters = t2.voters
    BY <1>12 DEF AddVotes, Tallied, IsTables
  <2> HIDE DEF delta
  <2> QED
    BY <1>13, <2>1, <2>2 DEF Rewritten
<1>17. IsMoved(t2, r, v, new)
  <2> DEFINE h == [p \in Producers |-> IF t2.votes[p] + delta[p] < 0 THEN 0 ELSE t2.votes[p] + delta[p]]
  <2>1. Sum(delta) = SumOf(delta, Producers)
    BY DEF Sum
  <2>0. t2.votes \in [Producers -> Int] /\ t2.weight \in Int /\ t2.amiss \subseteq Producers
    BY <1>12 DEF Tallied
  <2> HIDE DEF delta
  <2>2. AddVotes(t2, delta) = [voters |-> t2.voters, votes |-> h,
                               weight |-> t2.weight + SumOf(delta, Producers), amiss |-> t2.amiss]
    <3>2. t2 = [voters |-> t2.voters, votes |-> t2.votes, weight |-> t2.weight, amiss |-> t2.amiss]
      BY <1>12 DEF Tallied, IsTables
    <3>3. AddVotes(t2, delta) = [t2 EXCEPT !.votes = h, !.weight = @ + Sum(delta)]
      BY <3>2 DEF AddVotes
    <3> HIDE DEF h
    <3> QED
      BY <2>1, <3>2, <3>3
  <2>3. /\ h \in [Producers -> Int]
        /\ \A p \in Producers \ t2.amiss : h[p] = t2.votes[p] + delta[p]
    BY <1>15, <2>0
  <2> HIDE DEF h
  <2>4. r = [voters |-> [t2.voters EXCEPT ![v] = new], votes |-> h,
             weight |-> t2.weight + SumOf(delta, Producers), amiss |-> t2.amiss]
    <3> HIDE DEF r
    <3> QED
      BY <1>13, <1>16, <2>2
  <2>5. SumOf(delta, Producers) \in Int
    BY <1>1, <1>15, SumOfType
  <2> HIDE DEF r, new
  <2>6. /\ IsTables(r) /\ r.voters = [t2.voters EXCEPT ![v] = new] /\ r.votes = h
        /\ r.weight = t2.weight + SumOf(delta, Producers) /\ r.amiss = t2.amiss
    BY <2>4 DEF IsTables
  <2>7. r.weight \in Int
    BY <2>0, <2>5, <2>6
  <2> QED
    BY <1>14, <2>0, <2>3, <2>6, <2>7 DEF IsMoved
<1> HIDE DEF r, new, delta
<1>18. Tallied(r)
  BY <1>9, <1>12, <1>13, <1>17, MovedTallied
<1>19. /\ r.voters[v] = new /\ \A u \in Voters \ {v} : r.voters[u] = t2.voters[u]
       /\ r.voters \in [Voters -> Voter]
  <2>1. r.voters = [t2.voters EXCEPT ![v] = new]
    BY <1>17 DEF IsMoved
  <2> QED
    BY <1>9, <1>13, <2>1
<1>20. RowsAre(r.voters, NoName, NoName)
  <2>1. RowOK(new, v)
    <3>1. px # NoName => px \in Proxies \ {v} /\ prods = {} /\ ~row.is_proxy
      BY DEF CanVote
    <3>2. Cardinality(prods) <= MaxVotes
      BY DEF CanVote
    <3> QED
      BY <1>2, <1>5, <1>9, <3>1, <3>2 DEF RowOK
  <2>2. UpToDate(new, v)
    BY <1>7, <1>9 DEF UpToDate
  <2>3. NotAhead(new, v)
    <3>1. StakeOf(new) = StakeOf(row) /\ StakeOf(row) \in Nat
      BY <1>2, <1>9, StakeOfType DEF StakeOf
    <3> QED
      BY <1>6, <1>9, <3>1 DEF NotAhead
  <2> QED
    BY <1>12, <1>19, <2>1, <2>2, <2>3 DEF RowsAre
<1>21. AllProxied(r.voters)
  <2>1. \A x \in Voters : r.voters[x].proxied = t2.voters[x].proxied
    BY <1>9, <1>13, <1>19
  <2>2. \A x \in Voters : GivenBut(r.voters, v, x) = GivenBut(t2.voters, v, x)
    BY <1>19, GivenSame
  <2>3. px # NoName => row.staked = stake
    BY <1>7
  <2>4. ProxiedIs(r.voters, v, px, stake)
    BY <1>1, <1>12, <1>13, <2>1, <2>2, <2>3 DEF ProxiedIs
  <2>5. ProxiedIs(r.voters, v, r.voters[v].proxy, r.voters[v].last_stake)
    BY <1>9, <1>19, <2>4
  <2> QED
    BY <1>19, <2>5, ProxiedSplit
<1>22. \A u \in Voters : r.voters[u].staked = t.voters[u].staked
  BY <1>9, <1>13, <1>19
<1> QED
  BY <1>18, <1>20, <1>21, <1>22 DEF r, Good
-----------------------------------------------------------------------------
\* Changes of the stake.

LEMMA Relaxed ==
  ASSUME NEW t, NEW v, Good(t, NoName)
  PROVE  Good(t, v)
<1>1. NoName \notin Voters
  BY VotingAssumption
<1> QED
  BY <1>1 DEF Good, RowsAre

LEMMA Staked ==
  ASSUME NEW t, NEW v \in Voters, Good(t, v), NEW d \in Int, t.voters[v].staked + d \in Nat
  PROVE  LET t1 == AddStake(t, v, d)
         IN  /\ Good(t1, v)
             /\ \A u \in Voters : t1.voters[u].staked = t.voters[u].staked + IF u = v THEN d ELSE 0
<1> DEFINE t1  == AddStake(t, v, d)
           row == t.voters[v]
           new == [row EXCEPT !.staked = row.staked + d]
<1>1. t.voters \in [Voters -> Voter] /\ row \in Voter /\ RowOK(row, v) /\ Tallied(t)
  BY DEF Good, RowsAre
<1>2. /\ new \in Voter /\ new.staked = row.staked + d
      /\ new.last_stake = row.last_stake /\ new.last_vote_weight = row.last_vote_weight
      /\ new.producers = row.producers /\ new.proxy = row.proxy /\ new.boost = row.boost
      /\ new.proxied = row.proxied /\ new.is_proxy = row.is_proxy
  BY <1>1 DEF Voter
<1>3. /\ t1.voters = [t.voters EXCEPT ![v] = new] /\ t1.votes = t.votes /\ t1.weight = t.weight
      /\ t1.amiss = t.amiss /\ IsTables(t1)
  BY <1>1 DEF AddStake, Tallied, IsTables
<1> HIDE DEF t1, new
<1>4. /\ t1.voters[v] = new /\ \A u \in Voters \ {v} : t1.voters[u] = t.voters[u]
      /\ t1.voters \in [Voters -> Voter]
  BY <1>1, <1>2, <1>3
<1>5. Tallied(t1)
  <2>1. \A u \in Voters : \A p \in Producers : Worth(t1.voters[u], u, p) = Worth(t.voters[u], u, p)
    BY <1>2, <1>4 DEF Worth
  <2> QED
    BY <1>1, <1>3, <2>1, SameTallied
<1>6. RowsAre(t1.voters, v, v)
  <2>1. RowOK(new, v)
    BY <1>1, <1>2 DEF RowOK
  <2> QED
    BY <1>4, <2>1 DEF Good, RowsAre
<1>7. AllProxied(t1.voters)
  <2>1. ASSUME NEW x \in Voters
        PROVE  t1.voters[x].proxied
                  = SumOver([u \in Voters |-> IF t1.voters[u].proxy = x THEN t1.voters[u].last_stake ELSE 0])
    <3>1. [u \in Voters |-> IF t1.voters[u].proxy = x THEN t1.voters[u].last_stake ELSE 0]
          = [u \in Voters |-> IF t.voters[u].proxy = x THEN t.voters[u].last_stake ELSE 0]
      BY <1>2, <1>4
    <3>2. t1.voters[x].proxied = t.voters[x].proxied
      BY <1>2, <1>4
    <3> QED
      BY <3>1, <3>2 DEF Good, AllProxied
  <2> QED
    BY <2>1 DEF AllProxied
<1>8. \A u \in Voters : t1.voters[u].staked = t.voters[u].staked + IF u = v THEN d ELSE 0
  <2>1. \A u \in Voters : t.voters[u].staked \in Nat
    BY <1>1 DEF Voter
  <2> QED
    BY <1>2, <1>4, <2>1
<1> QED
  BY <1>5, <1>6, <1>7, <1>8 DEF t1, Good

\* A voter may cast the vote its row holds once more.
LEMMA OwnVote ==
  ASSUME NEW t, NEW v \in Voters, t.voters \in [Voters -> Voter], RowOK(t.voters[v], v)
  PROVE  CanVote(t, v, t.voters[v].proxy, t.voters[v].producers)
<1>1. t.voters[v].producers \subseteq Producers /\ t.voters[v].proxy \in Voters \cup {NoName}
  BY DEF Voter
<1> QED
  BY <1>1 DEF CanVote, RowOK

\* update_voting_power: the votes follow the stake.
LEMMA VotingPower ==
  ASSUME NEW t, NEW v \in Voters, Good(t, v), NEW d \in Int, t.voters[v].staked + d \in Nat,
         multiplier \in Boosts, decay \in Decays
  PROVE  LET t1 == update_voting_power(t, v, d)
         IN  /\ Good(t1, NoName)
             /\ \A u \in Voters : t1.voters[u].staked = t.voters[u].staked + IF u = v THEN d ELSE 0
<1> DEFINE t1 == AddStake(t, v, d)
           row == t1.voters[v]
           r == update_voting_power(t, v, d)
<1>1. /\ Good(t1, v)
      /\ \A u \in Voters : t1.voters[u].staked = t.voters[u].staked + IF u = v THEN d ELSE 0
  BY Staked
<1>2. r = IF HasVote(t1, v, d) THEN update_votes(t1, v, row.proxy, row.producers, FALSE) ELSE t1
  BY DEF update_voting_power
<1> HIDE DEF t1, r
<1>3. CASE HasVote(t1, v, d)
  <2>1. CanVote(t1, v, row.proxy, row.producers)
    BY <1>1, OwnVote DEF Good, RowsAre
  <2> DEFINE voting == FALSE
             s == update_votes(t1, v, row.proxy, row.producers, voting)
  <2>2. r = s
    BY <1>2, <1>3
  <2>3. voting \in BOOLEAN
    OBVIOUS
  <2> HIDE DEF voting
  <2>4. Good(s, NoName) /\ \A u \in Voters : s.voters[u].staked = t1.voters[u].staked
    BY <1>1, <2>1, <2>3, UpdateVotes
  <2> HIDE DEF s
  <2> QED
    BY <1>1, <2>2, <2>4 DEF r
<1>4. CASE ~HasVote(t1, v, d)
  <2>1. UpToDate(row, v) /\ NotAhead(row, v)
    BY <1>4 DEF HasVote, UpToDate, NotAhead
  <2>2. Good(t1, NoName)
    BY <1>1, <2>1 DEF Good, RowsAre
  <2> QED
    BY <1>1, <1>2, <1>4, <2>2 DEF r
<1> QED
  BY <1>3, <1>4
-----------------------------------------------------------------------------
\* The actions.

\* The tables an action has worked out become the tables.
LEMMA Stored ==
  ASSUME NEW t, Good(t, NoName), Become(t), UNCHANGED evm_votes
  PROVE  Good(Tables, NoName)'
<1>1. Tables' = t
  <2>1. Tables' = [voters |-> t.voters, votes |-> t.votes, weight |-> t.weight, amiss |-> t.amiss]
    BY DEF Tables, Become
  <2> QED
    BY <2>1 DEF Good, Tallied, IsTables
<1>2. \A p \in Producers : OnEvm(p)' = OnEvm(p)
  BY DEF OnEvm
<1> QED
  BY <1>1, <1>2 DEF Good, Tallied, IsTables

\* update_votes of a vote that is cast: the proxy is one, as it was registered.
LEMMA Voted ==
  ASSUME NEW t, NEW v \in Voters, Good(t, v), NEW px \in Voters \cup {NoName},
         NEW prods \in SUBSET Producers, MayVote(t, v, px, prods, TRUE),
         multiplier \in Boosts, decay \in Decays
  PROVE  LET t1 == update_votes(t, v, px, prods, TRUE)
         IN  Good(t1, NoName) /\ \A u \in Voters : t1.voters[u].staked = t.voters[u].staked
<1> DEFINE voting == TRUE
<1>1. voting \in BOOLEAN
  OBVIOUS
<1>2. CanVote(t, v, px, prods)
  <2>1. px # NoName => prods = {} /\ v # px /\ ~t.voters[v].is_proxy /\ t.voters[px].is_proxy
    BY DEF MayVote
  <2>2. px # NoName => px \in Proxies
    BY <2>1 DEF Good, RowsAre, RowOK
  <2>3. Cardinality(prods) <= MaxVotes
    BY DEF MayVote
  <2> QED
    BY <2>1, <2>2, <2>3 DEF CanVote
<1> DEFINE s == update_votes(t, v, px, prods, voting)
<1>3. s = update_votes(t, v, px, prods, TRUE)
  OBVIOUS
<1> HIDE DEF voting
<1>4. Good(s, NoName) /\ \A u \in Voters : s.voters[u].staked = t.voters[u].staked
  BY <1>1, <1>2, UpdateVotes
<1> HIDE DEF s
<1> QED
  BY <1>3, <1>4

\* What update_rex_stake adds to the stake.
LEMMA RexCounted ==
  ASSUME IInv, NEW v \in Voters
  PROVE  /\ RexGain(v) \in Int /\ RexAfter(v) \in [Voters -> Nat]
         /\ \A u \in Voters : /\ RexAfter(v)[u] = rex_stake[u] + IF u = v THEN RexGain(v) ELSE 0
                              /\ u \notin RexOwners => RexAfter(v)[u] = 0
         /\ voters[v].staked + RexGain(v) = delegated[v] + RexAfter(v)[v]
         /\ voters[v].staked + RexGain(v) \in Nat
         /\ v \notin rows => RexGain(v) = 0
<1>1. rex_stake \in [Voters -> Nat] /\ rex_worth \in [Voters -> Nat] /\ delegated \in [Voters -> Nat]
  BY DEF IInv, TypeOK
<1>2. \A u \in Voters : voters[u].staked = delegated[u] + rex_stake[u] /\ (u \notin RexOwners => rex_stake[u] = 0)
  BY DEF IInv
<1>3. RexOwners \subseteq rows
  BY DEF IInv
<1>4. RexGain(v) \in Int /\ RexAfter(v) \in [Voters -> Nat] /\ (v \notin rows => RexGain(v) = 0)
  BY <1>1, <1>3 DEF RexGain, RexAfter
<1>5. \A u \in Voters : /\ RexAfter(v)[u] = rex_stake[u] + IF u = v THEN RexGain(v) ELSE 0
                        /\ u \notin RexOwners => RexAfter(v)[u] = 0
  BY <1>1, <1>2 DEF RexGain, RexAfter
<1>6. delegated[v] \in Nat /\ rex_stake[v] \in Nat /\ RexAfter(v)[v] \in Nat
  BY <1>1, <1>4
<1>7. RexAfter(v)[v] = rex_stake[v] + RexGain(v)
  BY <1>5
<1>8. voters[v].staked = delegated[v] + rex_stake[v]
  BY <1>2
<1>9. /\ voters[v].staked + RexGain(v) = delegated[v] + RexAfter(v)[v]
      /\ voters[v].staked + RexGain(v) \in Nat
  BY <1>4, <1>6, <1>7, <1>8
<1> QED
  BY <1>4, <1>5, <1>9

\* The parts of the invariant an action on the tables has to bring back.
Settings == UNCHANGED outside /\ UNCHANGED evm_votes
Stakes(t, del, rex) ==
    \A v \in Voters : t.voters[v].staked = del[v] + rex[v] /\ (v \notin RexOwners => rex[v] = 0)

LEMMA ActionInv ==
  ASSUME IInv, NEW t, Good(t, NoName), Become(t), Settings,
         delegated' \in [Voters -> Nat], rex_stake' \in [Voters -> Nat], Stakes(t, delegated', rex_stake'),
         rows' \subseteq Voters, rows \subseteq rows'
  PROVE  IInv'
<1>1. Good(Tables, NoName)'
  BY Stored DEF Settings
<1>2. /\ t.voters \in [Voters -> Voter] /\ t.votes \in [Producers -> Int] /\ t.weight \in Int
      /\ t.amiss \subseteq Producers
  BY DEF Good, Tallied, RowsAre
<1>4. TypeOK'
  BY <1>2 DEF IInv, TypeOK, Become, Settings, outside
<1>5. (RexOwners \subseteq rows)'
  BY DEF IInv
<1>6. \A v \in Voters : /\ voters'[v].staked = delegated'[v] + rex_stake'[v]
                        /\ v \notin RexOwners => rex_stake'[v] = 0
  BY DEF Stakes, Become
<1> QED
  BY <1>1, <1>4, <1>5, <1>6 DEF IInv

LEMMA ChangebwInv ==
  ASSUME IInv, NEW v \in Voters, NEW d \in Int, RestakeVotes(v, d)
  PROVE  IInv'
<1> DEFINE before == IF v \in rows THEN AddStake(Tables, v, RexGain(v)) ELSE Tables
           after  == update_voting_power(before, v, d)
           g == RexGain(v)
<1>1. /\ delegated[v] + d \in 0..MaxStake
      /\ delegated' = [delegated EXCEPT ![v] = @ + d]
      /\ rex_stake' = RexAfter(v)
      /\ rows' = rows \cup {v}
      /\ Become(after)
      /\ Settings
  BY DEF RestakeVotes, Settings
<1>2. /\ g \in Int /\ RexAfter(v) \in [Voters -> Nat]
      /\ \A u \in Voters : /\ RexAfter(v)[u] = rex_stake[u] + IF u = v THEN g ELSE 0
                           /\ u \notin RexOwners => RexAfter(v)[u] = 0
      /\ Tables.voters[v].staked + g = delegated[v] + RexAfter(v)[v]
      /\ Tables.voters[v].staked + g \in Nat
      /\ v \notin rows => g = 0
  BY RexCounted DEF Tables
<1>3. Good(Tables, v) /\ multiplier \in Boosts /\ decay \in Decays
  BY Relaxed DEF IInv, TypeOK
<1>4. \A u \in Voters : Tables.voters[u].staked = delegated[u] + rex_stake[u] /\ Tables.voters[u].staked \in Nat
  BY DEF Tables, IInv, TypeOK, Voter
<1> HIDE DEF g
<1>5. /\ Good(before, v)
      /\ \A u \in Voters : before.voters[u].staked = Tables.voters[u].staked + IF u = v THEN g ELSE 0
  <2>1. CASE v \in rows
    <3> DEFINE b == AddStake(Tables, v, g)
    <3>1. /\ Good(b, v)
          /\ \A u \in Voters : b.voters[u].staked = Tables.voters[u].staked + IF u = v THEN g ELSE 0
      BY <1>2, <1>3, Staked
    <3>2. before = b
      BY <2>1 DEF g
    <3> HIDE DEF b, before
    <3> QED
      BY <3>1, <3>2
  <2>2. CASE v \notin rows
    <3>1. before = Tables /\ g = 0
      BY <1>2, <2>2
    <3> HIDE DEF before
    <3> QED
      BY <1>3, <1>4, <3>1
  <2> QED
    BY <2>1, <2>2
<1> HIDE DEF before
<1>6. delegated \in [Voters -> Nat] /\ delegated[v] + d \in Nat
  BY <1>1, VotingAssumption DEF IInv, TypeOK
<1>7. before.voters[v].staked + d = (delegated[v] + d) + RexAfter(v)[v] /\ before.voters[v].staked + d \in Nat
  <2>1. before.voters[v].staked = delegated[v] + RexAfter(v)[v]
    BY <1>2, <1>5
  <2>2. delegated[v] \in Nat /\ RexAfter(v)[v] \in Nat
    BY <1>2, <1>6
  <2> QED
    BY <1>6, <2>1, <2>2
<1>8. /\ Good(after, NoName)
      /\ \A u \in Voters : after.voters[u].staked = before.voters[u].staked + IF u = v THEN d ELSE 0
  BY <1>3, <1>5, <1>7, VotingPower
<1> HIDE DEF after
<1>9. delegated' \in [Voters -> Nat] /\ \A u \in Voters : delegated'[u] = delegated[u] + IF u = v THEN d ELSE 0
  BY <1>1, <1>6
<1>10. Stakes(after, delegated', rex_stake')
  <2> SUFFICES ASSUME NEW u \in Voters
               PROVE  /\ after.voters[u].staked = delegated'[u] + rex_stake'[u]
                      /\ u \notin RexOwners => rex_stake'[u] = 0
    BY DEF Stakes
  <2>1. delegated[u] \in Nat /\ rex_stake[u] \in Nat
    BY <1>6 DEF IInv, TypeOK
  <2>2. CASE u = v
    BY <1>1, <1>2, <1>7, <1>8, <1>9, <2>1, <2>2
  <2>3. CASE u # v
    BY <1>1, <1>2, <1>4, <1>5, <1>8, <1>9, <2>1, <2>3
  <2> QED
    BY <2>2, <2>3
<1>11. rows' \subseteq Voters /\ rows \subseteq rows' /\ rex_stake' \in [Voters -> Nat]
  BY <1>1, <1>2 DEF IInv, TypeOK
<1> QED
  BY <1>1, <1>8, <1>9, <1>10, <1>11, ActionInv

\* What REX adds to the stake, in the tables.
LEMMA RexStaked ==
  ASSUME IInv, NEW v \in Voters
  PROVE  /\ Good(Tables, v) /\ multiplier \in Boosts /\ decay \in Decays
         /\ RexGain(v) \in Int /\ Tables.voters[v].staked + RexGain(v) \in Nat
         /\ RexAfter(v) \in [Voters -> Nat] /\ delegated \in [Voters -> Nat]
         /\ \A t : (\A u \in Voters : t.voters[u].staked = Tables.voters[u].staked + IF u = v THEN RexGain(v) ELSE 0)
                   => Stakes(t, delegated, RexAfter(v))
<1>1. Good(Tables, v) /\ multiplier \in Boosts /\ decay \in Decays /\ delegated \in [Voters -> Nat]
  BY Relaxed DEF IInv, TypeOK
<1>2. /\ RexGain(v) \in Int /\ RexAfter(v) \in [Voters -> Nat]
      /\ \A u \in Voters : /\ RexAfter(v)[u] = rex_stake[u] + IF u = v THEN RexGain(v) ELSE 0
                           /\ u \notin RexOwners => RexAfter(v)[u] = 0
      /\ Tables.voters[v].staked + RexGain(v) \in Nat
  BY RexCounted DEF Tables
<1>3. ASSUME NEW t, NEW u \in Voters,
             \A y \in Voters : t.voters[y].staked = Tables.voters[y].staked + IF y = v THEN RexGain(v) ELSE 0
      PROVE  t.voters[u].staked = delegated[u] + RexAfter(v)[u]
  <2> DEFINE g == RexGain(v)
             s == RexAfter(v)
  <2>1. delegated[u] \in Nat /\ rex_stake[u] \in Nat /\ Tables.voters[u].staked = delegated[u] + rex_stake[u]
    BY DEF IInv, TypeOK, Tables
  <2>2. /\ t.voters[u].staked = Tables.voters[u].staked + IF u = v THEN g ELSE 0
        /\ s[u] = rex_stake[u] + IF u = v THEN g ELSE 0
        /\ g \in Int
    BY <1>2, <1>3
  <2> HIDE DEF g, s
  <2>3. t.voters[u].staked = delegated[u] + s[u]
    BY <2>1, <2>2
  <2> QED
    BY <2>3 DEF s
<1> QED
  BY <1>1, <1>2, <1>3 DEF Stakes

LEMMA UpdaterexInv ==
  ASSUME IInv, NEW v \in Voters, updaterex(v)
  PROVE  IInv'
<1> DEFINE g == RexGain(v)
           t == update_voting_power(Tables, v, g)
<1>1. Become(t) /\ rows' = rows \cup {v} /\ rex_stake' = RexAfter(v) /\ delegated' = delegated /\ Settings
  BY DEF updaterex, Settings
<1>2. /\ Good(Tables, v) /\ multiplier \in Boosts /\ decay \in Decays
      /\ g \in Int /\ Tables.voters[v].staked + g \in Nat
      /\ RexAfter(v) \in [Voters -> Nat] /\ delegated \in [Voters -> Nat]
  BY RexStaked
<1> HIDE DEF g
<1>3. /\ Good(t, NoName)
      /\ \A u \in Voters : t.voters[u].staked = Tables.voters[u].staked + IF u = v THEN g ELSE 0
  BY <1>2, VotingPower
<1> HIDE DEF t
<1>4. Stakes(t, delegated, RexAfter(v))
  BY <1>3, RexStaked DEF g
<1>5. rows' \subseteq Voters /\ rows \subseteq rows'
  BY <1>1 DEF IInv, TypeOK
<1> QED
  BY <1>1, <1>2, <1>3, <1>4, <1>5, ActionInv

LEMMA VoteproducerInv ==
  ASSUME IInv, NEW v \in Voters, NEW px \in Voters \cup {NoName}, NEW prods \in SUBSET Producers,
         voteproducer(v, px, prods)
  PROVE  IInv'
<1> DEFINE g == RexGain(v)
           t == AddStake(Tables, v, g)
           r == update_votes(t, v, px, prods, TRUE)
<1>1. /\ MayVote(t, v, px, prods, TRUE) /\ Become(r) /\ rows' = rows
      /\ rex_stake' = RexAfter(v) /\ delegated' = delegated /\ Settings
  BY DEF voteproducer, Settings
<1>2. /\ Good(Tables, v) /\ multiplier \in Boosts /\ decay \in Decays
      /\ g \in Int /\ Tables.voters[v].staked + g \in Nat
      /\ RexAfter(v) \in [Voters -> Nat] /\ delegated \in [Voters -> Nat]
  BY RexStaked
<1> HIDE DEF g
<1>3. /\ Good(t, v)
      /\ \A u \in Voters : t.voters[u].staked = Tables.voters[u].staked + IF u = v THEN g ELSE 0
  BY <1>2, Staked
<1> HIDE DEF t
<1>4. Good(r, NoName) /\ \A u \in Voters : r.voters[u].staked = t.voters[u].staked
  BY <1>1, <1>2, <1>3, Voted
<1> HIDE DEF r
<1>5. Stakes(r, delegated, RexAfter(v))
  <2>1. \A u \in Voters : r.voters[u].staked = Tables.voters[u].staked + IF u = v THEN g ELSE 0
    BY <1>3, <1>4
  <2> QED
    BY <2>1, RexStaked DEF g
<1>6. rows' \subseteq Voters /\ rows \subseteq rows'
  BY <1>1 DEF IInv, TypeOK
<1> QED
  BY <1>1, <1>2, <1>4, <1>5, <1>6, ActionInv

\* The stake voteupdate counts anew is the one updaterex has left.
LEMMA VoteupdateInv ==
  ASSUME IInv, NEW v \in Voters, voteupdate(v)
  PROVE  IInv'
<1> DEFINE g == RexGain(v)
           t == update_voting_power(Tables, v, g)
           t1 == [t EXCEPT !.voters[v].staked = RexAfter(v)[v] + delegated[v]]
           t2 == AddStake(t, v, 0)
           r == update_votes(t1, v, t1.voters[v].proxy, t1.voters[v].producers, TRUE)
<1>1. /\ MayVote(t1, v, t1.voters[v].proxy, t1.voters[v].producers, TRUE) /\ Become(r) /\ rows' = rows
      /\ rex_stake' = RexAfter(v) /\ delegated' = delegated /\ Settings
  BY DEF voteupdate, Settings
<1>2. /\ Good(Tables, v) /\ multiplier \in Boosts /\ decay \in Decays
      /\ g \in Int /\ Tables.voters[v].staked + g \in Nat
      /\ RexAfter(v) \in [Voters -> Nat] /\ delegated \in [Voters -> Nat]
  BY RexStaked
<1> HIDE DEF g
<1>3. /\ Good(t, NoName)
      /\ \A u \in Voters : t.voters[u].staked = Tables.voters[u].staked + IF u = v THEN g ELSE 0
  BY <1>2, VotingPower
<1> HIDE DEF t
<1>4. Stakes(t, delegated, RexAfter(v))
  BY <1>3, RexStaked DEF g
<1>5. t.voters[v].staked + 0 = RexAfter(v)[v] + delegated[v] /\ t.voters[v].staked + 0 \in Nat
  BY <1>2, <1>4 DEF Stakes
<1>6. t1 = t2
  BY <1>5 DEF AddStake
<1>7. Good(t2, v) /\ \A u \in Voters : t2.voters[u].staked = t.voters[u].staked
  <2>1. Good(t, v)
    BY <1>3, Relaxed
  <2> DEFINE z == 0
  <2>2. z \in Int /\ t.voters[v].staked + z \in Nat
    BY <1>5
  <2>3. /\ Good(AddStake(t, v, z), v)
        /\ \A u \in Voters : AddStake(t, v, z).voters[u].staked = t.voters[u].staked + IF u = v THEN z ELSE 0
    <3> HIDE DEF z
    <3> QED
      BY <2>1, <2>2, Staked
  <2>4. \A u \in Voters : t.voters[u].staked \in Nat
    BY <1>3 DEF Good, RowsAre, Voter
  <2> HIDE DEF t2
  <2>5. t2 = AddStake(t, v, z)
    BY DEF t2
  <2> QED
    BY <2>3, <2>4, <2>5
<1> HIDE DEF t1, t2
<1>8. /\ t1.voters[v].proxy \in Voters \cup {NoName} /\ t1.voters[v].producers \in SUBSET Producers
      /\ Good(t1, v)
  BY <1>6, <1>7 DEF Good, RowsAre, Voter
<1>9. Good(r, NoName) /\ \A u \in Voters : r.voters[u].staked = t1.voters[u].staked
  <2> DEFINE px == t1.voters[v].proxy
             prods == t1.voters[v].producers
  <2>1. MayVote(t1, v, px, prods, TRUE) /\ px \in Voters \cup {NoName} /\ prods \in SUBSET Producers
    BY <1>1, <1>8
  <2> HIDE DEF px, prods
  <2>2. /\ Good(update_votes(t1, v, px, prods, TRUE), NoName)
        /\ \A u \in Voters : update_votes(t1, v, px, prods, TRUE).voters[u].staked = t1.voters[u].staked
    BY <1>2, <1>8, <2>1, Voted
  <2> QED
    BY <2>2 DEF px, prods
<1> HIDE DEF r
<1>10. Stakes(r, delegated, RexAfter(v))
  BY <1>4, <1>6, <1>7, <1>9 DEF Stakes
<1>11. rows' \subseteq Voters /\ rows \subseteq rows'
  BY <1>1 DEF IInv, TypeOK
<1> QED
  BY <1>1, <1>2, <1>9, <1>10, <1>11, ActionInv

\* A step that leaves the tables and their settings alone.
LEMMA UntouchedInv ==
  ASSUME IInv, UNCHANGED <<tally, delegated, rex_stake, evm_votes>>, TypeOK', rows \subseteq rows'
  PROVE  IInv'
<1>1. Good(Tables, NoName) /\ Become(Tables)
  BY DEF IInv, Become, Tables, tally
<1>2. Good(Tables, NoName)'
  BY <1>1, Stored
<1>3. (RexOwners \subseteq rows)'
  BY DEF IInv
<1>4. \A v \in Voters : /\ voters'[v].staked = delegated'[v] + rex_stake'[v]
                        /\ v \notin RexOwners => rex_stake'[v] = 0
  BY DEF IInv, tally
<1> QED
  BY <1>2, <1>3, <1>4 DEF IInv

\* A proxy that is one no longer, before its vote is counted anew.
LEMMA Retired ==
  ASSUME NEW t, NEW x \in Voters, Good(t, x)
  PROVE  LET t1 == [t EXCEPT !.voters[x].is_proxy = FALSE]
         IN  Good(t1, x) /\ \A u \in Voters : t1.voters[u].staked = t.voters[u].staked
<1> DEFINE no  == FALSE
           t1  == [t EXCEPT !.voters[x].is_proxy = no]
           row == t.voters[x]
           new == [row EXCEPT !.is_proxy = no]
<1>1. t.voters \in [Voters -> Voter] /\ row \in Voter /\ RowOK(row, x) /\ Tallied(t)
  BY DEF Good, RowsAre
<1>2. /\ new \in Voter /\ new.staked = row.staked /\ ~new.is_proxy
      /\ new.last_stake = row.last_stake /\ new.last_vote_weight = row.last_vote_weight
      /\ new.producers = row.producers /\ new.proxy = row.proxy /\ new.boost = row.boost
      /\ new.proxied = row.proxied
  BY <1>1 DEF Voter
<1>3. /\ t1.voters = [t.voters EXCEPT ![x] = new] /\ t1.votes = t.votes /\ t1.weight = t.weight
      /\ t1.amiss = t.amiss /\ IsTables(t1)
  <2> HIDE DEF no
  <2> QED
    BY <1>1 DEF Tallied, IsTables
<1> HIDE DEF t1, new
<1>4. /\ t1.voters[x] = new /\ \A u \in Voters \ {x} : t1.voters[u] = t.voters[u]
      /\ t1.voters \in [Voters -> Voter]
  BY <1>1, <1>2, <1>3
<1>5. Tallied(t1)
  <2>1. \A u \in Voters : \A p \in Producers : Worth(t1.voters[u], u, p) = Worth(t.voters[u], u, p)
    BY <1>2, <1>4 DEF Worth
  <2> QED
    BY <1>1, <1>3, <2>1, SameTallied
<1>6. RowsAre(t1.voters, x, x)
  <2>1. RowOK(new, x)
    BY <1>1, <1>2 DEF RowOK
  <2> QED
    BY <1>4, <2>1 DEF Good, RowsAre
<1>7. AllProxied(t1.voters)
  <2>1. ASSUME NEW y \in Voters
        PROVE  t1.voters[y].proxied
                  = SumOver([u \in Voters |-> IF t1.voters[u].proxy = y THEN t1.voters[u].last_stake ELSE 0])
    <3>1. [u \in Voters |-> IF t1.voters[u].proxy = y THEN t1.voters[u].last_stake ELSE 0]
          = [u \in Voters |-> IF t.voters[u].proxy = y THEN t.voters[u].last_stake ELSE 0]
      BY <1>2, <1>4
    <3>2. t1.voters[y].proxied = t.voters[y].proxied
      BY <1>2, <1>4
    <3> QED
      BY <3>1, <3>2 DEF Good, AllProxied
  <2> QED
    BY <2>1 DEF AllProxied
<1>8. \A u \in Voters : t1.voters[u].staked = t.voters[u].staked
  BY <1>2, <1>4
<1> QED
  BY <1>5, <1>6, <1>7, <1>8 DEF t1, Good

LEMMA RegproxyInv ==
  ASSUME IInv, NEW x \in Voters, regproxy(x)
  PROVE  IInv'
<1>1. /\ rows' = rows \cup {x} /\ delegated' = delegated /\ rex_stake' = rex_stake
      /\ Settings
  BY DEF regproxy, Settings
<1>2. rows' \subseteq Voters /\ rows \subseteq rows'
  BY <1>1 DEF IInv, TypeOK
<1>3. CASE x \in rows
  <2> DEFINE t == [Tables EXCEPT !.voters[x].is_proxy = FALSE]
             px == t.voters[x].proxy
             prods == t.voters[x].producers
             r == update_votes(t, x, px, prods, TRUE)
  <2>1. MayVote(t, x, px, prods, TRUE) /\ Become(r)
    BY <1>3 DEF regproxy
  <2>2. Good(Tables, x) /\ multiplier \in Boosts /\ decay \in Decays
    BY Relaxed DEF IInv, TypeOK
  <2>3. Good(t, x) /\ \A u \in Voters : t.voters[u].staked = Tables.voters[u].staked
    BY <2>2, Retired
  <2> HIDE DEF t
  <2>4. px \in Voters \cup {NoName} /\ prods \in SUBSET Producers
    BY <2>3 DEF Good, RowsAre, Voter
  <2> HIDE DEF px, prods
  <2>5. Good(r, NoName) /\ \A u \in Voters : r.voters[u].staked = t.voters[u].staked
    BY <2>1, <2>2, <2>3, <2>4, Voted
  <2> HIDE DEF r
  <2>6. Stakes(r, delegated, rex_stake)
    BY <2>3, <2>5 DEF Stakes, IInv, Tables
  <2>7. delegated \in [Voters -> Nat] /\ rex_stake \in [Voters -> Nat]
    BY DEF IInv, TypeOK
  <2> QED
    BY <1>1, <1>2, <2>1, <2>5, <2>6, <2>7, ActionInv
<1>4. CASE x \notin rows
  <2>1. UNCHANGED tally
    BY <1>4 DEF regproxy
  <2>2. TypeOK'
    BY <1>1, <1>2, <2>1 DEF IInv, TypeOK, tally, outside, Settings
  <2> QED
    BY <1>1, <1>2, <2>1, <2>2, UntouchedInv DEF Settings
<1> QED
  BY <1>3, <1>4

\* The difference in 64 bits without a sign.
LEMMA Wraps ==
  ASSUME NEW a \in 0..(UINT64 - 1), NEW b \in 0..(UINT64 - 1)
  PROVE  (a - b) % UINT64 \in Nat /\ (a >= b => (a - b) % UINT64 = a - b)
<1>1. UINT64 \in Nat \ {0}
  BY VotingAssumption
<1> QED
  BY <1>1

\* The votes from the EVM that p has and those it gains, unless it has lost some.
LEMMA EvmCounted ==
  ASSUME IInv, NEW bps \in SUBSET Producers, getevmvote(bps), NEW p \in Producers
  PROVE  /\ p \in bps => EvmGain(p) \in Nat
         /\ OnEvm(p) \in Nat /\ OnEvm(p)' \in Nat
         /\ p \notin amiss' => OnEvm(p)' = OnEvm(p) + IF p \in bps THEN EvmGain(p) ELSE 0
<1> DEFINE now == evm_now[p]
           old == evm_votes[p]
<1>1. /\ UINT64 \in Nat \ {0} /\ NoName \notin EvmVotes /\ EvmVotes \subseteq 0..(UINT64 - 1)
      /\ now \in EvmVotes /\ old \in EvmVotes \cup {NoName}
  BY VotingAssumption DEF IInv, TypeOK
<1>3. /\ evm_votes'[p] = IF p \in bps THEN now ELSE old
      /\ p \in bps /\ old # NoName /\ now < old => p \in amiss'
  BY DEF getevmvote, EvmLosers
<1>4. OnEvm(p) = (IF old = NoName THEN 0 ELSE old)
  BY DEF OnEvm
<1>5. OnEvm(p)' = (IF evm_votes'[p] = NoName THEN 0 ELSE evm_votes'[p])
  BY DEF OnEvm
<1>6. EvmGain(p) = IF old = NoName THEN now ELSE (now - old) % UINT64
  BY DEF EvmGain
<1>7. \A n \in EvmVotes : n \in 0..(UINT64 - 1) /\ n \in Nat /\ n # NoName
  BY <1>1
<1>8. CASE p \notin bps
  <2>1. evm_votes'[p] = old
    BY <1>3, <1>8
  <2>2. OnEvm(p)' = OnEvm(p)
    BY <1>4, <1>5, <2>1
  <2>3. OnEvm(p) \in Nat
    <3> HIDE DEF old
    <3> QED
      BY <1>1, <1>4, <1>7
  <2> QED
    BY <1>8, <2>2, <2>3
<1>9. CASE p \in bps /\ old = NoName
  <2>1. EvmGain(p) = now /\ now \in Nat /\ now # NoName
    BY <1>1, <1>6, <1>9, <1>7
  <2>2. OnEvm(p)' = now /\ OnEvm(p) = 0
    BY <1>3, <1>4, <1>5, <1>9, <2>1
  <2> QED
    BY <1>9, <2>1, <2>2
<1>10. CASE p \in bps /\ old # NoName
  <2>1. /\ now \in 0..(UINT64 - 1) /\ old \in 0..(UINT64 - 1) /\ now # NoName /\ now \in Nat /\ old \in Nat
    BY <1>1, <1>10, <1>7
  <2>2. OnEvm(p) = old /\ OnEvm(p)' = now /\ EvmGain(p) = (now - old) % UINT64
    BY <1>3, <1>4, <1>5, <1>6, <1>10, <2>1
  <2>3. EvmGain(p) \in Nat /\ (now >= old => EvmGain(p) = now - old)
    BY <2>1, <2>2, Wraps
  <2>4. p \notin amiss' => now >= old
    BY <1>3, <1>10, <2>1
  <2> QED
    BY <1>10, <2>1, <2>2, <2>3, <2>4
<1> QED
  BY <1>8, <1>9, <1>10

LEMMA GetevmvoteInv ==
  ASSUME IInv, NEW bps \in SUBSET Producers, getevmvote(bps)
  PROVE  IInv'
<1> DEFINE gain == [p \in bps |-> EvmGain(p)]
           more == [p \in Producers |-> IF p \in bps THEN EvmGain(p) ELSE 0]
<1>1. /\ total_votes' = [p \in Producers |-> IF p \in bps THEN EvmTotal(p) ELSE total_votes[p]]
      /\ total_weight' = total_weight + EvmWeight(bps, gain)
      /\ evm_votes' = [p \in Producers |-> IF p \in bps THEN evm_now[p] ELSE evm_votes[p]]
      /\ amiss' = amiss \cup EvmLosers(bps)
      /\ UNCHANGED <<voters, outside, rows, delegated, rex_stake>>
  BY DEF getevmvote
<1>2. /\ TypeOK /\ Tallied(Tables) /\ RowsAre(voters, NoName, NoName) /\ AllProxied(voters)
  BY DEF IInv, Good, Tables
<1>3. IsFiniteSet(Producers) /\ IsFiniteSet(bps)
  BY VotingAssumption, FS_Subset
<1>4. \A p \in Producers : /\ more[p] \in Nat /\ OnEvm(p) \in Nat /\ OnEvm(p)' \in Nat
                           /\ p \notin amiss' => OnEvm(p)' = OnEvm(p) + more[p]
                           /\ p \notin amiss => total_votes[p] = CastIn(voters, p) + OnEvm(p)
  BY <1>2, EvmCounted DEF Tallied, Tables
<1>5. /\ total_votes \in [Producers -> Int] /\ total_weight \in Int /\ amiss \subseteq Producers
      /\ (amiss = {} => total_weight = SumOver(total_votes))
  BY <1>2 DEF TypeOK, Tallied, Tables
<1>6. amiss \subseteq amiss' /\ amiss' \subseteq Producers
  BY <1>1, <1>5 DEF EvmLosers
<1>7. \A p \in Producers : CastIn(voters, p) \in Nat
  <2> SUFFICES ASSUME NEW p \in Producers PROVE CastIn(voters, p) \in Nat
    OBVIOUS
  <2> DEFINE f == [v \in Voters |-> Worth(voters[v], v, p)]
  <2>1. f \in [Voters -> Nat]
    BY <1>2, WorthType DEF TypeOK
  <2>2. IsFiniteSet(Voters)
    BY VotingAssumption
  <2> HIDE DEF f
  <2>3. SumOver(f) \in Nat
    BY <2>1, <2>2, SumType
  <2> QED
    BY <2>3 DEF CastIn, f
<1>8. EvmWeight(bps, gain) = SumOf(more, Producers) /\ SumOf(more, Producers) \in Int
  <2>1. EvmWeight(bps, gain) = SumOf(gain, bps)
    <3>1. [p \in bps |-> gain[p]] = gain /\ DOMAIN gain = bps
      OBVIOUS
    <3> HIDE DEF gain
    <3> QED
      BY <3>1 DEF EvmWeight, Sum
  <2>2. \A p \in bps : gain[p] = more[p]
    OBVIOUS
  <2>3. \A p \in Producers \ bps : more[p] = 0
    OBVIOUS
  <2> HIDE DEF gain, more
  <2>4. SumOf(gain, bps) = SumOf(more, bps)
    BY <2>2, SumOfSame
  <2>5. \A p \in Producers : more[p] \in Int
    BY <1>4
  <2>6. SumOf(more, Producers) = SumOf(more, bps)
    BY <1>3, <2>3, <2>5, SumOfSupport
  <2>7. SumOf(more, Producers) \in Int
    BY <1>3, <2>5, SumOfType
  <2> QED
    BY <2>1, <2>4, <2>6, <2>7
<1>9. \A p \in Producers : /\ total_votes'[p] \in Int
                           /\ p \notin amiss => total_votes'[p] = total_votes[p] + more[p]
  <2> SUFFICES ASSUME NEW p \in Producers
               PROVE  /\ total_votes'[p] \in Int
                      /\ p \notin amiss => total_votes'[p] = total_votes[p] + more[p]
    OBVIOUS
  <2>1. more[p] \in Nat /\ total_votes[p] \in Int
    BY <1>4, <1>5
  <2>2. p \notin amiss => total_votes[p] \in Nat
    BY <1>4, <1>7
  <2>3. CASE p \in bps
    <3>1. total_votes'[p] = EvmTotal(p) /\ more[p] = EvmGain(p)
      BY <1>1, <2>3
    <3>2. EvmTotal(p) = IF evm_votes[p] # NoName /\ total_votes[p] + EvmGain(p) < 0 THEN 0
                        ELSE total_votes[p] + EvmGain(p)
      BY DEF EvmTotal
    <3> HIDE DEF more
    <3> QED
      BY <2>1, <2>2, <3>1, <3>2
  <2>4. CASE p \notin bps
    <3>1. total_votes'[p] = total_votes[p] /\ more[p] = 0
      BY <1>1, <2>4
    <3> QED
      BY <2>1, <3>1
  <2> QED
    BY <2>3, <2>4
<1> HIDE DEF gain, more
<1>10. total_votes' \in [Producers -> Int] /\ total_weight' \in Int
  <2>1. total_weight' \in Int
    BY <1>1, <1>5, <1>8
  <2> QED
    BY <1>1, <1>9, <2>1
<1>11. ASSUME amiss' = {} PROVE total_weight' = SumOver(total_votes')
  <2> DEFINE old == total_votes
             new == total_votes'
  <2>0. amiss = {}
    BY <1>6, <1>11
  <2>1. \A p \in Producers : /\ old[p] \in Int /\ more[p] \in Int /\ new[p] = old[p] + more[p]
                             /\ old[p] \in Nat /\ new[p] \in Nat
    BY <1>4, <1>7, <1>9, <2>0
  <2>2. old \in [Producers -> Nat] /\ new \in [Producers -> Nat]
    BY <1>5, <1>10, <2>1
  <2> HIDE DEF old, new
  <2>3. SumOf(new, Producers) = SumOf(old, Producers) + SumOf(more, Producers)
    BY <1>3, <2>1, SumOfAdd
  <2>4. SumOf(new, Producers) = SumOver(new) /\ SumOf(old, Producers) = SumOver(old)
    BY <1>3, <2>2, SumOfIsSumOver
  <2> QED
    BY <1>1, <1>5, <1>8, <2>0, <2>3, <2>4 DEF old, new
<1>12. Tallied(Tables)'
  <2>1. \A p \in Producers : OnEvm(p)' \in Nat
    BY <1>4
  <2>2. \A p \in Producers \ amiss' : total_votes'[p] = CastIn(voters, p) + OnEvm(p)'
    BY <1>4, <1>6, <1>7, <1>9
  <2>3. voters' = voters
    BY <1>1
  <2> QED
    BY <1>6, <1>10, <1>11, <2>1, <2>2, <2>3 DEF Tallied, IsTables, Tables
<1>13. Good(Tables, NoName)'
  BY <1>1, <1>2, <1>12 DEF Good, Tables
<1>14. TypeOK'
  <2>1. evm_votes' \in [Producers -> EvmVotes \cup {NoName}]
    BY <1>1, <1>2 DEF TypeOK
  <2> QED
    BY <1>1, <1>2, <1>6, <1>10, <2>1 DEF TypeOK, outside
<1>15. (RexOwners \subseteq rows)'
  BY <1>1 DEF IInv
<1>16. \A v \in Voters : /\ voters'[v].staked = delegated'[v] + rex_stake'[v]
                         /\ v \notin RexOwners => rex_stake'[v] = 0
  BY <1>1 DEF IInv
<1> QED
  BY <1>13, <1>14, <1>15, <1>16 DEF IInv

\* The settings that move from outside.
OutsideOK ==
    /\ active \subseteq Producers /\ multiplier \in Boosts /\ decay \in Decays
    /\ rex_worth \in [Voters -> Nat] /\ evm_now \in [Producers -> EvmVotes]

LEMMA ChangeInv ==
  ASSUME IInv, Change
  PROVE  IInv'
<1>1. UNCHANGED <<tally, rows, delegated, rex_stake, evm_votes>> /\ Changed
  BY DEF Change, register_producer, unregprod, setselfstake, Decay, RexMoves, EvmVote, Kept
<1>2. OutsideOK /\ MaxStake \in Nat /\ TypeOK
  BY VotingAssumption DEF IInv, TypeOK, OutsideOK
<1>3. OutsideOK'
  <2>1. ASSUME NEW p \in Producers, register_producer(p) \/ unregprod(p) PROVE OutsideOK'
    BY <1>2, <2>1 DEF register_producer, unregprod, OutsideOK
  <2>2. ASSUME NEW m \in Boosts, setselfstake(m) PROVE OutsideOK'
    BY <1>2, <2>2 DEF setselfstake, OutsideOK
  <2>3. ASSUME NEW d \in Decays, Decay(d) PROVE OutsideOK'
    BY <1>2, <2>3 DEF Decay, OutsideOK
  <2>4. ASSUME NEW v \in RexOwners, NEW n \in 0..MaxStake, RexMoves(v, n) PROVE OutsideOK'
    <3>1. n \in Nat
      BY <1>2
    <3>2. [rex_worth EXCEPT ![v] = n] \in [Voters -> Nat]
      BY <1>2, <3>1 DEF OutsideOK
    <3> QED
      BY <1>2, <2>4, <3>2 DEF RexMoves, OutsideOK
  <2>5. ASSUME NEW p \in Producers, NEW n \in EvmVotes, EvmVote(p, n) PROVE OutsideOK'
    BY <1>2, <2>5 DEF EvmVote, OutsideOK
  <2> QED
    BY <2>1, <2>2, <2>3, <2>4, <2>5 DEF Change
<1>4. changes' \in 0..MaxChanges
  BY <1>1, <1>2, VotingAssumption DEF Changed, TypeOK
<1>5. TypeOK'
  BY <1>1, <1>2, <1>3, <1>4 DEF TypeOK, OutsideOK, tally
<1> QED
  BY <1>1, <1>5, UntouchedInv
-----------------------------------------------------------------------------
\* The theorems.

LEMMA InitInv ==
  ASSUME Init
  PROVE  IInv
<1> DEFINE row(v) == [staked |-> 0, last_stake |-> 0, last_vote_weight |-> 0, proxied |-> 0,
                      is_proxy |-> v \in Proxies, producers |-> {}, proxy |-> NoName, boost |-> 0]
<1>1. /\ NoName \notin Voters \cup Producers /\ Proxies \subseteq Voters /\ RexOwners \subseteq Voters
      /\ 0 \in Boosts /\ 0 \in EvmVotes /\ MaxVotes \in Nat /\ MaxChanges \in Nat /\ UINT64 \in Nat
  BY VotingAssumption
<1>2. voters = [v \in Voters |-> row(v)]
  BY DEF Init
<1>3. \A v \in Voters : (v \in Proxies) \in BOOLEAN
  OBVIOUS
<1>4. \A v \in Voters : row(v) \in Voter
  BY <1>1, <1>3 DEF Voter
<1>5. /\ voters \in [Voters -> Voter]
      /\ \A v \in Voters : /\ voters[v].staked = 0 /\ voters[v].last_stake = 0 /\ voters[v].last_vote_weight = 0
                           /\ voters[v].proxied = 0 /\ (voters[v].is_proxy => v \in Proxies)
                           /\ voters[v].producers = {} /\ voters[v].proxy = NoName
  BY <1>2, <1>4
<1>6. TypeOK
  BY <1>1, <1>5 DEF Init, TypeOK
<1>7. RowsAre(voters, NoName, NoName)
  <2>1. Cardinality({}) = 0
    BY FS_EmptySet
  <2>2. ASSUME NEW v \in Voters
        PROVE  RowOK(voters[v], v) /\ UpToDate(voters[v], v) /\ NotAhead(voters[v], v)
    <3> DEFINE r == voters[v]
    <3>1. /\ r.staked = 0 /\ r.last_stake = 0 /\ r.producers = {} /\ r.proxy = NoName
          /\ (r.is_proxy => v \in Proxies) /\ r.last_vote_weight = 0
      BY <1>5
    <3> HIDE DEF r
    <3>2. RowOK(r, v)
      BY <1>1, <2>1, <3>1 DEF RowOK
    <3>3. UpToDate(r, v) /\ NotAhead(r, v)
      BY <3>1 DEF UpToDate, NotAhead
    <3> QED
      BY <3>2, <3>3 DEF r
  <2> QED
    BY <1>5, <2>2 DEF RowsAre
<1>8. AllProxied(voters)
  <2> SUFFICES ASSUME NEW x \in Voters
               PROVE  voters[x].proxied
                        = SumOver([u \in Voters |-> IF voters[u].proxy = x THEN voters[u].last_stake ELSE 0])
    BY DEF AllProxied
  <2>1. [u \in Voters |-> IF voters[u].proxy = x THEN voters[u].last_stake ELSE 0] = [u \in Voters |-> 0]
    BY <1>5
  <2>2. SumOver([u \in Voters |-> 0]) = 0
    BY SumOfZeros
  <2> QED
    BY <1>5, <2>1, <2>2
<1>9. Tallied(Tables)
  <2>1. \A p \in Producers : OnEvm(p) = 0 /\ total_votes[p] = 0
    BY <1>1 DEF Init, OnEvm
  <2>2. ASSUME NEW p \in Producers PROVE CastIn(voters, p) = 0
    <3>1. [v \in Voters |-> Worth(voters[v], v, p)] = [v \in Voters |-> 0]
      BY <1>5 DEF Worth
    <3>2. SumOver([v \in Voters |-> 0]) = 0
      BY SumOfZeros
    <3> QED
      BY <3>1, <3>2 DEF CastIn
  <2>3. total_weight = SumOver(total_votes)
    BY SumOfZeros DEF Init
  <2>4. total_votes \in [Producers -> Int] /\ total_weight \in Int /\ amiss \subseteq Producers
    BY <1>6 DEF TypeOK
  <2> QED
    BY <2>1, <2>2, <2>3, <2>4 DEF Tallied, IsTables, Tables
<1>10. RexOwners \subseteq rows
  BY DEF Init
<1>11. \A v \in Voters : voters[v].staked = delegated[v] + rex_stake[v] /\ (v \notin RexOwners => rex_stake[v] = 0)
  BY <1>5 DEF Init
<1> QED
  BY <1>6, <1>7, <1>8, <1>9, <1>10, <1>11 DEF IInv, Good, Tables

LEMMA StepInv ==
  ASSUME IInv, [Next]_vars
  PROVE  IInv'
<1>1. CASE Stake
  <2>1. MaxStake \in Nat
    BY VotingAssumption
  <2> QED
    BY <1>1, <2>1, ChangebwInv DEF Stake
<1>2. CASE UpdateRex
  BY <1>2, UpdaterexInv DEF UpdateRex
<1>3. CASE Vote
  BY <1>3, VoteproducerInv DEF Vote
<1>4. CASE Update
  BY <1>4, VoteupdateInv DEF Update
<1>5. CASE RegProxy
  BY <1>5, RegproxyInv DEF RegProxy
<1>6. CASE EvmVoted
  BY <1>6, GetevmvoteInv DEF EvmVoted
<1>7. CASE Change
  BY <1>7, ChangeInv
<1>8. CASE UNCHANGED vars
  <2>1. TypeOK'
    BY <1>8 DEF IInv, TypeOK, vars, tally, outside
  <2> QED
    BY <1>8, <2>1, UntouchedInv DEF vars
<1> QED
  BY <1>1, <1>2, <1>3, <1>4, <1>5, <1>6, <1>7, <1>8 DEF Next

LEMMA Invariance == Spec => []IInv
<1>1. Init => IInv
  BY InitInv
<1>2. IInv /\ [Next]_vars => IInv'
  BY StepInv
<1> QED
  BY <1>1, <1>2, PTL DEF Spec

\* Every row, table and total of the votes keeps its type: no stake and no weight recorded with a
\* voter, proxies that vote for themselves included, becomes negative (voting.cpp,
\* delegate_bandwidth.cpp), as long as recalculate_votes is not due.
THEOREM TypeCorrect == Spec => []TypeOK
<1>1. IInv => TypeOK
  BY DEF IInv
<1> QED
  BY <1>1, Invariance, PTL

\* The totals of the votes, which every action changes by differences, are what the rows of the
\* voters and the votes from the EVM add up to (update_votes, propagate_weight_change, getevmvote),
\* for every producer that has not lost votes on the EVM and is no proxy whose own boosted vote was
\* changed by its users.
THEOREM VotesTallied == Spec => []VotesAreTallied
<1>1. IInv => VotesAreTallied
  <2> SUFFICES ASSUME IInv PROVE VotesAreTallied
    OBVIOUS
  <2>1. /\ \A p \in Producers \ amiss : total_votes[p] = CastIn(voters, p) + OnEvm(p)
        /\ amiss = {} => total_weight = SumOver(total_votes)
    BY DEF IInv, Good, Tallied, Tables
  <2>2. \A p \in Producers : Cast(p) = CastIn(voters, p)
    BY DEF Cast, CastIn, Worth
  <2> QED
    BY <2>1, <2>2 DEF VotesAreTallied
<1> QED
  BY <1>1, Invariance, PTL

\* A vote counts with the stake its voter has now, a proxy's with no more than it has, and the
\* stake is what was delegated and what REX was last counted as (update_voting_power, updaterex,
\* voteupdate, update_votes).
THEOREM VotesFollow == Spec => []VotesFollowStake
<1>1. IInv => VotesFollowStake
  <2> SUFFICES ASSUME IInv, NEW v \in Voters, voters[v].producers # {} \/ voters[v].proxy # NoName
               PROVE  /\ voters[v].last_stake <= StakeOf(voters[v])
                      /\ v \notin Proxies \/ voters[v].proxy # NoName => voters[v].last_stake = voters[v].staked
    BY DEF IInv, VotesFollowStake
  <2> DEFINE row == voters[v]
  <2>1. row \in Voter /\ RowOK(row, v) /\ UpToDate(row, v) /\ NotAhead(row, v)
    BY VotingAssumption DEF IInv, Good, RowsAre, Tables
  <2>2. StakeOf(row) \in Nat /\ row.staked <= StakeOf(row) /\ row.staked \in Nat /\ row.last_stake \in Nat
    BY <2>1, StakeOfType DEF Voter
  <2> HIDE DEF row
  <2>3. row.producers # {} \/ row.proxy # NoName
    BY DEF row
  <2>4. /\ row.last_stake <= StakeOf(row)
        /\ v \notin Proxies \/ row.proxy # NoName => row.last_stake = row.staked
    BY <2>1, <2>2, <2>3 DEF UpToDate, NotAhead
  <2> QED
    BY <2>4 DEF row
<1> QED
  BY <1>1, Invariance, PTL
=============================================================================
