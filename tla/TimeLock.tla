------------------------------ MODULE TimeLock ------------------------------
(***************************************************************************)
(* What staking promises its users, without delegations, kinds of          *)
(* bandwidth, refund rows or deferred transactions: the tokens of an       *)
(* account are liquid, locked, or unlocking.  Only the owner unlocks, and  *)
(* unlocking tokens become liquid all together, Delay after the last       *)
(* unlocking.  Liquid tokens may be locked in the name of another account, *)
(* unlocking ones only in that of their owner.                             *)
(***************************************************************************)
EXTENDS Integers

CONSTANTS Accounts, Delay, Initial

VARIABLES liquid, locked, unlocking, waited

lockVars == <<liquid, locked, unlocking, waited>>

LockInit ==
    /\ liquid = [a \in Accounts |-> Initial]
    /\ locked = [a \in Accounts |-> 0] /\ unlocking = locked
    /\ waited = [a \in Accounts |-> Delay]

\* payer locks n liquid tokens in the name of owner ...
Lock(payer, owner, n) ==
    /\ liquid' = [liquid EXCEPT ![payer] = @ - n]
    /\ locked' = [locked EXCEPT ![owner] = @ + n]
    /\ UNCHANGED <<unlocking, waited>>

\* ... or locks m of its unlocking ones again, and n liquid ones with them.
Relock(owner, n, m) ==
    /\ liquid' = [liquid EXCEPT ![owner] = @ - n]
    /\ unlocking' = [unlocking EXCEPT ![owner] = @ - m]
    /\ locked' = [locked EXCEPT ![owner] = @ + n + m]
    /\ UNCHANGED waited

Unlock(owner, n) ==
    /\ locked' = [locked EXCEPT ![owner] = @ - n]
    /\ unlocking' = [unlocking EXCEPT ![owner] = @ + n]
    /\ waited' = [waited EXCEPT ![owner] = 0]
    /\ UNCHANGED liquid

Release(owner) ==
    /\ waited[owner] = Delay
    /\ liquid' = [liquid EXCEPT ![owner] = @ + unlocking[owner]]
    /\ unlocking' = [unlocking EXCEPT ![owner] = 0]
    /\ UNCHANGED <<locked, waited>>

Wait ==
    /\ waited' = [a \in Accounts |-> IF waited[a] < Delay THEN waited[a] + 1 ELSE waited[a]]
    /\ UNCHANGED <<liquid, locked, unlocking>>

LockNext ==
    \/ \E payer, owner \in Accounts : \E n \in 1..liquid[payer] : Lock(payer, owner, n)
    \/ \E owner \in Accounts : \E n \in 0..liquid[owner], m \in 1..unlocking[owner] : Relock(owner, n, m)
    \/ \E owner \in Accounts : \E n \in 1..locked[owner] : Unlock(owner, n)
    \/ \E owner \in Accounts : Release(owner)
    \/ Wait

LockSpec == LockInit /\ [][LockNext]_lockVars
=============================================================================
