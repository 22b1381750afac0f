-------------------------------- MODULE Rex ---------------------------------
(***************************************************************************)
(* The resource exchange (rex.cpp).  Owners buy REX, shares of a pool of   *)
(* lendable tokens, with tokens of their REX fund; others pay a fee to     *)
(* have tokens of the pool staked for them for 30 days.  Selling REX       *)
(* gives tokens back at once or, while they are lent, queues an order.     *)
(* Nothing runs by itself: almost every action first processes a few of    *)
(* the expired loans and open orders of everybody (runrex).                *)
(*                                                                         *)
(* An action works on a copy t of the tables, as the handler does, and     *)
(* writes the result back in one step (Commit); an action one of whose     *)
(* checks fails changes nothing.  The return pool is module RexReturns.    *)
(***************************************************************************)
EXTENDS RexReturns, Sequences, SequencesExt

CONSTANTS
    Users,                    \* the accounts; a name is a number
    rex_account, b1,          \* eosio.rex, and the account whose orders are never queued
    rex_ratio,                \* REX per token in a new pool (10000)
    init_total_rent,          \* the fees a new pool starts with (20000 tokens)
    UnlentShare,              \* one part in UnlentShare of the lent tokens stays unlent (10)
    seconds_per_day,
    num_of_maturity_buckets,  \* days until REX may be sold (5)
    RunMax,                   \* loans of a kind and orders an action processes (2)
    FirstOwners, FirstPurchase,   \* who may have bought REX at first, for how much each
    Funds, Staked,            \* the tokens every user has in its REX fund at first, and delegated of each kind
    Amounts, RexAmounts,      \* bound: the tokens and the REX of an action
    Fees, Rents, LoanFunds,   \* bound: other fees, what a loan costs and what it starts with for its renewal
    Keepers, Renters, Receivers,  \* bound: whose funds and savings move, who rents, for whom
    RexexecMax,               \* bound: the max of rexexec
    MaxOps                    \* bound: actions

ASSUME RexAssumption ==
    /\ Users \subseteq Nat /\ IsFiniteSet(Users) /\ b1 \in Nat /\ rex_account \in Nat \ Users
    /\ rex_ratio \in Nat \ {0} /\ init_total_rent \in Nat \ {0} /\ UnlentShare \in Nat \ {0}
    /\ seconds_per_day \in Nat \ {0} /\ num_of_maturity_buckets \in Nat \ {0} /\ RunMax \in Nat
    /\ FirstOwners \subseteq SUBSET Users /\ FirstPurchase \in Nat \ {0} /\ Funds \in Nat /\ Staked \in Nat /\ MaxOps \in Nat
    /\ Amounts \subseteq Nat \ {0} /\ RexAmounts \subseteq Nat \ {0} /\ Fees \subseteq Nat \ {0}
    /\ Rents \subseteq Nat \ {0} /\ LoanFunds \subseteq Nat /\ RexexecMax \subseteq Nat
    /\ Maximum > MaxTime + num_of_maturity_buckets * seconds_per_day
    /\ Keepers \subseteq Users /\ Renters \subseteq Users /\ Receivers \subseteq Users

VARIABLES
    rexpool,     \* rexpool: its one row
    initialized, \* the row exists
    rexfunds,    \* rexfund: from owner to balance
    rexbal,      \* rexbal: from owner to its row
    rexorders,   \* rexqueue: from owner to its order
    loans,       \* cpuloan and netloan: a set of rows for each kind
    delband,     \* what every user has delegated to itself, of each kind
    totals,      \* userres: net_weight and cpu_weight of every account
    staked,      \* voters: staked of every account
    tokens,      \* external: the token balances of eosio.rex and the users
    writtenOff,  \* history: lendable tokens a purchase into an empty pool has written over
    strays,      \* history: the vote stake each user had in rows without REX when they were closed
    bought,      \* history: the REX bought by each user that has not matured yet, by the time it does
    ops          \* the actions used up

tableVars == <<rexpool, initialized, rexfunds, rexbal, rexorders, loans, delband, totals, staked, tokens, writtenOff, strays, bought>>
rexVars   == <<now, returnVars, tableVars, ops>>

Kinds       == {"cpu", "net"}
loan_length == Span              \* 30 days, by the static_assert of rex_return_pool
end_of_days == Maximum
Without(f, a) == RestrictDomain(f, LAMBDA b : b # a)
Row(f, a, r)  == [b \in DOMAIN f \cup {a} |-> IF b = a THEN r ELSE f[b]]
SumSeq(s)     == Total([i \in DOMAIN s |-> s[i].rex])
Loans         == loans["cpu"] \cup loans["net"]
Open(t)       == {u \in DOMAIN t.orders : t.orders[u].is_open}

RexTypeOK ==
    /\ ReturnsTypeOK
    /\ rexpool \in [total_lent : Nat, total_unlent : Nat, total_rent : Nat, total_lendable : Nat,
                    total_rex : Nat, namebid_proceeds : Nat, loan_num : Nat]
    /\ DOMAIN rexfunds \cup DOMAIN rexbal \cup DOMAIN rexorders \subseteq Users
    /\ Range(rexfunds) \subseteq Nat
    /\ \A u \in DOMAIN rexbal : rexbal[u].matured_rex >= 0 /\ rexbal[u].vote_stake >= 0
    /\ totals \in [Users -> [Kinds -> Nat]] /\ staked \in [Users -> Nat]
    /\ tokens \in [Users \cup {rex_account} -> Nat]

\* The users have deposits, and some of them have REX, which has matured; when nobody has bought
\* any yet, the row of the pool does not exist.
NoRows == NoBuckets
RexInit ==
    /\ ReturnsInit
    /\ \E owners \in FirstOwners :
        LET lendable == FirstPurchase * Cardinality(owners)
        IN  /\ initialized = (owners # {})
            /\ rexpool = [total_lent |-> 0, total_unlent |-> lendable, total_lendable |-> lendable,
                          total_rex |-> lendable * rex_ratio,
                          total_rent |-> IF initialized THEN init_total_rent ELSE 0,
                          namebid_proceeds |-> 0, loan_num |-> 0]
            /\ rexbal = [u \in owners |-> [vote_stake |-> FirstPurchase, rex_balance |-> FirstPurchase * rex_ratio,
                                           matured_rex |-> FirstPurchase * rex_ratio, rex_maturities |-> <<>>]]
            /\ staked = [u \in Users |-> 2 * Staked + IF u \in owners THEN FirstPurchase ELSE 0]
            /\ tokens = [a \in Users \cup {rex_account} |->
                            IF a = rex_account THEN Funds * Cardinality(Users) + lendable ELSE 0]
    /\ rexfunds = [u \in Users |-> Funds]
    /\ rexorders = NoRows
    /\ loans = [k \in Kinds |-> {}]
    /\ delband = [u \in Users |-> [k \in Kinds |-> Staked]]
    /\ totals = delband
    /\ writtenOff = 0
    /\ strays = [u \in Users |-> 0]
    /\ bought = [u \in Users |-> NoRows]
    /\ ops = 0

\* The tables as an action finds them; fee is what it adds to the return pool.
Tables == [pool |-> rexpool, init |-> initialized, funds |-> rexfunds, bal |-> rexbal, orders |-> rexorders,
           loans |-> loans, delband |-> delband, totals |-> totals, staked |-> staked, tokens |-> tokens,
           off |-> writtenOff, strays |-> strays, bought |-> bought, fee |-> 0]

Write(t) ==
    /\ rexpool' = t.pool /\ initialized' = t.init /\ rexfunds' = t.funds /\ rexbal' = t.bal
    /\ rexorders' = t.orders /\ loans' = t.loans /\ delband' = t.delband /\ totals' = t.totals
    /\ staked' = t.staked /\ tokens' = t.tokens /\ writtenOff' = t.off /\ strays' = t.strays /\ bought' = t.bought
    /\ ops' = ops + 1

\* The checks on voters and userres, which abort the action.
Checks(t) == \A u \in Users : t.staked[u] >= 0 /\ \A k \in Kinds : t.totals[u][k] >= 0

Budget == ops < MaxOps
\* An action that has run update_rex_pool, and one that has not.
Commit(t)      == Checks(t) /\ Write(t) /\ add_to_rex_return_pool(t.fee)
CommitAside(t) == Checks(t) /\ Write(t) /\ UNCHANGED <<now, returnVars>>
-----------------------------------------------------------------------------
rex_available(t) == t.init /\ t.pool.total_rex > 0

\* mutant: the queue is not looked at
LoansWhenPool(t) == rex_available(t)
\* An open order comes before every closed one in the index bytime.
rex_loans_available(t) == rex_available(t) /\ Open(t) = {}

\* The value of REX at the rate of the pool.
Value(t, rex) == (rex * t.pool.total_lendable) \div t.pool.total_rex

get_bancor_output(inp_reserve, out_reserve, inp) == (inp * out_reserve) \div (inp_reserve + inp)

transfer_to_fund(t, u, amount) ==
    [t EXCEPT !.funds = Row(@, u, amount + IF u \in DOMAIN @ THEN @[u] ELSE 0)]
HasFund(t, u, amount) == amount > 0 /\ u \in DOMAIN t.funds /\ amount <= t.funds[u]
transfer_from_fund(t, u, amount) == [t EXCEPT !.funds[u] = @ - amount]

update_resource_limits(t, u, k, delta) == [t EXCEPT !.totals[u][k] = @ + delta]

rex_in_sell_order(t, u) == IF u \in Open(t) THEN t.orders[u].rex_requested ELSE 0

Closed(t, u)     == u \in DOMAIN t.orders /\ ~t.orders[u].is_open
Uncollected(t, u) == IF Closed(t, u) THEN t.orders[u].proceeds ELSE 0
\* mutant: the proceeds of a filled order are paid without its change of stake
StakeForgotten(t, u) == 0
StakeChange(t, u) == IF Closed(t, u) THEN t.orders[u].stake_change ELSE 0
PayFund(t, u, amount) == IF amount > 0 THEN transfer_to_fund(t, u, amount) ELSE t
\* Pays out the filled order of u, if any, with the proceeds of this action.
update_rex_account(t, u, proceeds, delta_stake) ==
    [PayFund(t, u, proceeds + Uncollected(t, u))
        EXCEPT !.orders = IF Closed(t, u) THEN Without(@, u) ELSE @,
               !.staked[u] = @ + delta_stake + StakeChange(t, u)]
-----------------------------------------------------------------------------
(* The rows of rexbal                                                      *)

get_rex_maturity == now - (now % seconds_per_day) + num_of_maturity_buckets * seconds_per_day

\* How many buckets at the front have matured at a time.
EndsAt(s, time, n) == (\A i \in 1..n : s[i].at <= time) /\ (n < Len(s) => s[n + 1].at > time)
Ripe(s, time)      == CHOOSE n \in 0..Len(s) : EndsAt(s, time, n)
TakeFirst(b, n) ==
    [b EXCEPT !.matured_rex = @ + SumSeq(SubSeq(b.rex_maturities, 1, n)),
              !.rex_maturities = SubSeq(@, n + 1, Len(@))]
\* mutant: the last bucket is counted as well
MaturesSoon(b) == TakeFirst(b, Ripe(b.rex_maturities, now + seconds_per_day))
process_rex_maturities(b) == TakeFirst(b, Ripe(b.rex_maturities, now))

HasSavings(b)       == b.rex_maturities # <<>> /\ Last(b.rex_maturities).at = end_of_days
read_rex_savings(b) == IF HasSavings(b) THEN Last(b.rex_maturities).rex ELSE 0
TakeSavings(b)      == IF HasSavings(b) THEN [b EXCEPT !.rex_maturities = Front(@)] ELSE b

\* REX is added to the bucket of the time at, which is the last one or a new one.
AddBucket(b, at, rex) ==
    [b EXCEPT !.rex_maturities = IF @ # <<>> /\ Last(@).at = at
                                 THEN Append(Front(@), [at |-> at, rex |-> Last(@).rex + rex])
                                 ELSE Append(@, [at |-> at, rex |-> rex])]
put_rex_savings(b, rex) == IF rex = 0 THEN b ELSE AddBucket(b, end_of_days, rex)

\* REX joins the bucket that matures last, before the savings.
AddMaturing(b, rex, savings) ==
    put_rex_savings(AddBucket(process_rex_maturities(TakeSavings(b)), get_rex_maturity, rex), savings)

\* What is not in a sell order matures anew, total in one bucket.
OneBucket(b, total, inOrder) ==
    LET none == [b EXCEPT !.matured_rex = inOrder, !.rex_maturities = <<>>]
    IN  IF total > 0 THEN AddBucket(none, get_rex_maturity, total) ELSE none
consolidate_rex_balance(b, inOrder) ==
    put_rex_savings(OneBucket(b, b.matured_rex - inOrder + SumSeq(TakeSavings(b).rex_maturities), inOrder),
                    read_rex_savings(b))

\* REX leaves the buckets, the last one first, then what has matured.
AfterPlace(s, i)     == SumSeq(SubSeq(s, i + 1, Len(s)))
TakenFrom(s, rex, i) == AfterPlace(s, i) >= rex /\ (i < Len(s) => AfterPlace(s, i + 1) < rex)
TakeMaturing(b, rex) ==
    LET s     == b.rex_maturities
        n     == CHOOSE i \in 0..Len(s) : TakenFrom(s, rex, i)
        whole == SubSeq(s, 1, n)
    IN  IF AfterPlace(s, 0) < rex
        THEN [b EXCEPT !.rex_maturities = <<>>, !.matured_rex = @ - (rex - AfterPlace(s, 0))]
        ELSE [b EXCEPT !.rex_maturities = IF AfterPlace(s, n) = rex THEN whole
                                          ELSE Append(whole, [at |-> s[n + 1].at, rex |-> AfterPlace(s, n) - rex])]
-----------------------------------------------------------------------------
(* The pool, the loans and the orders                                      *)

EmptyPool(p, payment) ==
    [p EXCEPT !.total_lendable = payment, !.total_lent = 0, !.total_unlent = payment,
              !.total_rent = init_total_rent, !.total_rex = payment * rex_ratio]
\* mutant: the REX of a purchase is rounded up
GrownRoundedUp(p, payment) ==
    [p EXCEPT !.total_lendable = @ + payment, !.total_unlent = p.total_lendable + payment - p.total_lent,
              !.total_rex = ((p.total_lendable + payment) * p.total_rex + p.total_lendable - 1) \div p.total_lendable]
GrownPool(p, payment) ==
    [p EXCEPT !.total_lendable = @ + payment, !.total_unlent = p.total_lendable + payment - p.total_lent,
              !.total_rex = ((p.total_lendable + payment) * p.total_rex) \div p.total_lendable]
CanBuy(t) == rex_available(t) => t.pool.total_lendable > 0
\* The pool after a purchase; total_rex grows by rex_received.
add_to_rex_pool(t, payment) ==
    IF rex_available(t) THEN [t EXCEPT !.pool = GrownPool(@, payment)]
    ELSE [t EXCEPT !.init = TRUE, !.pool = EmptyPool(@, payment), !.off = @ + t.pool.total_lendable]

\* u, which had the row old, receives REX for its payment.
WithRex(t, u, old, received, payment) ==
    LET first == u \notin DOMAIN t.bal
        new   == [old EXCEPT !.rex_balance = @ + received,
                             !.vote_stake = IF first THEN payment ELSE Value(t, old.rex_balance + received)]
    IN  [t EXCEPT !.bal = Row(@, u, AddMaturing(new, received, read_rex_savings(old))),
                  !.bought[u] = Row(@, get_rex_maturity, received + IF get_rex_maturity \in DOMAIN @ THEN @[get_rex_maturity] ELSE 0)]
NoRex == [vote_stake |-> 0, rex_balance |-> 0, matured_rex |-> 0, rex_maturities |-> <<>>]
\* There was oldRex in the pool before the purchase that u has paid.
add_to_rex_balance(t, u, payment, oldRex) ==
    WithRex(t, u, IF u \in DOMAIN t.bal THEN t.bal[u] ELSE NoRex, t.pool.total_rex - oldRex, payment)

StakeOf(t, u) == IF u \in DOMAIN t.bal THEN t.bal[u].vote_stake ELSE 0

add_loan_to_rex_pool(t, payment, rented, new) ==
    [t EXCEPT !.fee = @ + payment,
              !.pool.total_rent = @ + payment, !.pool.total_unlent = @ - rented, !.pool.total_lent = @ + rented,
              !.pool.loan_num = IF new THEN @ + 1 ELSE @]

remove_loan_from_rex_pool(t, loan) ==
    LET p == t.pool
    IN  [t EXCEPT !.pool.total_rent = @ - get_bancor_output(p.total_unlent, p.total_rent, loan.total_staked),
                  !.pool.total_unlent = @ + loan.total_staked, !.pool.total_lent = @ - loan.total_staked,
                  !.pool.total_lendable = p.total_unlent + p.total_lent]

\* mutant: the renewed loan keeps what was rented before
RenewedAtOldPrice(loan, rented) ==
    [loan EXCEPT !.expiration = @ + loan_length, !.balance = @ - loan.payment]
update_renewed_loan(loan, rented) ==
    [loan EXCEPT !.total_staked = rented, !.expiration = @ + loan_length, !.balance = @ - loan.payment]

\* mutant: the balance of a closed loan is not given back
CloseWithoutRefund(t, loan) == t
RefundLoan(t, loan) == IF loan.balance > 0 THEN transfer_to_fund(t, loan.from, loan.balance) ELSE t

\* The loan is renewed when its balance pays for it, the price is still good and no order is open.
Renews(t, loan, rented) == loan.payment <= loan.balance /\ loan.payment < rented /\ rex_loans_available(t)
Renew(t, k, loan, rented) ==
    update_resource_limits([add_loan_to_rex_pool(t, loan.payment, rented, FALSE)
                                EXCEPT !.loans[k] = (@ \ {loan}) \cup {update_renewed_loan(loan, rented)}],
                           loan.receiver, k, rented - loan.total_staked)
Close(t, k, loan) ==
    update_resource_limits([RefundLoan(t, loan) EXCEPT !.loans[k] = @ \ {loan}],
                           loan.receiver, k, -loan.total_staked)
RenewOrClose(t, k, loan, rented) == IF Renews(t, loan, rented) THEN Renew(t, k, loan, rented) ELSE Close(t, k, loan)
\* The tokens a payment rents.
Rented(t, payment) == get_bancor_output(t.pool.total_rent, t.pool.total_unlent, payment)
Requote(t, k, loan) == RenewOrClose(t, k, loan, Rented(t, loan.payment))
process_expired_loan(t, k, loan) == Requote(remove_loan_from_rex_pool(t, loan), k, loan)

\* The loans of kind k in the order of the index byexpr.
Sooner(x, y) == x.expiration < y.expiration \/ (x.expiration = y.expiration /\ x.loan_num <= y.loan_num)
process_loan(t, k) ==
    LET expired == {l \in t.loans[k] : l.expiration <= now}
    IN  IF expired = {} THEN t
        ELSE process_expired_loan(t, k, CHOOSE l \in expired : \A m \in expired : Sooner(l, m))
process_loans(t, k, max) ==
    LET upTo[i \in 0..max] == IF i = 0 THEN t ELSE process_loan(upTo[i - 1], k)
    IN  upTo[max]

Filled(t, rex) == Value(t, rex) <= t.pool.total_unlent - t.pool.total_lent \div UnlentShare
\* The sale of rex by u, when it can be filled.
fill_rex_order(t, u, rex) ==
    LET p == Value(t, rex)
    IN  [t EXCEPT !.pool.total_rex = @ - rex,
                  !.pool.total_lendable = @ - p,
                  !.pool.total_unlent = t.pool.total_lendable - p - t.pool.total_lent,
                  !.bal[u].vote_stake = Value(t, t.bal[u].rex_balance) - p,
                  !.bal[u].rex_balance = @ - rex,
                  !.bal[u].matured_rex = @ - rex]

\* The order of u is filled in the step t -> t1.
CloseOrder(t, t1, u) ==
    [t1 EXCEPT !.orders[u].proceeds = Value(t, t.orders[u].rex_requested),
               !.orders[u].stake_change = t1.bal[u].vote_stake - t.bal[u].vote_stake,
               !.orders[u].is_open = FALSE]
process_order(t, u) ==
    IF u \in Open(t) /\ u \in DOMAIN t.bal /\ Filled(t, t.orders[u].rex_requested)
    THEN CloseOrder(t, fill_rex_order(t, u, t.orders[u].rex_requested), u) ELSE t
\* The open orders in the order of the index bytime, each tried once.
Earlier(t, u, v) == \/ t.orders[u].order_time < t.orders[v].order_time
                    \/ t.orders[u].order_time = t.orders[v].order_time /\ u <= v
TryNext(t, untried) ==
    LET u == CHOOSE u \in untried : \A v \in untried : Earlier(t, u, v)
    IN  [tables |-> process_order(t, u), untried |-> untried \ {u}]
process_orders(t, max) ==
    LET upTo[i \in 0..max] == IF i = 0 THEN [tables |-> t, untried |-> Open(t)]
                              ELSE IF upTo[i - 1].untried = {} THEN upTo[i - 1]
                              ELSE TryNext(upTo[i - 1].tables, upTo[i - 1].untried)
    IN  upTo[max].tables

\* What the return pool has to add is added before the action uses the pool.
AddReturns(t, gain) ==
    IF gain > 0 THEN [t EXCEPT !.pool.total_unlent = @ + gain,
                               !.pool.total_lendable = t.pool.total_unlent + gain + t.pool.total_lent]
                ELSE t
update_rex_pool(t) == AddReturns(t, Updated.unlent - unlent)

\* A fee from another account becomes a return, while there is REX.
channel_to_rex(t, amount) ==
    IF rex_available(t) THEN [t EXCEPT !.fee = @ + amount, !.tokens[rex_account] = @ + amount] ELSE t

channel_namebids(t) ==
    IF t.pool.namebid_proceeds > 0
    THEN [channel_to_rex(t, t.pool.namebid_proceeds) EXCEPT !.pool.namebid_proceeds = 0] ELSE t

runrex(t, max) ==
    process_orders(process_loans(process_loans(channel_namebids(update_rex_pool(t)), "cpu", max), "net", max), max)
\* The tables of an action that starts with runrex, and may only run once there is a pool.
RunFirst(t) == IF t.init THEN runrex(t, RunMax) ELSE t
-----------------------------------------------------------------------------
(* The actions                                                             *)

deposit(u, amount) ==
    /\ Budget
    /\ amount <= tokens[u]
    /\ CommitAside([transfer_to_fund(Tables, u, amount)
                        EXCEPT !.tokens[u] = @ - amount, !.tokens[rex_account] = @ + amount])

WithdrawFrom(t, u, amount) ==
    /\ HasFund(t, u, amount)
    /\ CommitAside([transfer_from_fund(t, u, amount)
                        EXCEPT !.tokens[u] = @ + amount, !.tokens[rex_account] = @ - amount])
withdraw(u, amount) == Budget /\ WithdrawFrom(update_rex_account(Tables, u, 0, 0), u, amount)

\* The end of a purchase, when u has its REX in t: its order may be filled in between.
FinishPurchase(t, u, delta_stake) == Commit(update_rex_account(runrex(t, RunMax), u, 0, delta_stake))
Receive(t, u, oldStake, paid) == FinishPurchase(t, u, StakeOf(t, u) - oldStake - paid)
\* A purchase from the tables t, the payment taken; paid is what it took from the stake.
Buy(t, u, payment, paid) ==
    /\ CanBuy(t)
    /\ Receive(add_to_rex_balance(add_to_rex_pool(t, payment), u, payment, t.pool.total_rex), u, StakeOf(t, u), paid)

buyrex(u, amount) == /\ Budget /\ HasFund(Tables, u, amount)
                     /\ Buy(transfer_from_fund(Tables, u, amount), u, amount, 0)

Unstaked(t, u, from_net, from_cpu) ==
    [t EXCEPT !.delband[u]["net"] = @ - from_net, !.delband[u]["cpu"] = @ - from_cpu,
              !.totals[u]["net"] = @ - from_net, !.totals[u]["cpu"] = @ - from_cpu,
              !.tokens[rex_account] = @ + from_net + from_cpu]
unstaketorex(u, from_net, from_cpu) ==
    /\ Budget
    /\ from_net + from_cpu > 0 /\ from_net <= delband[u]["net"] /\ from_cpu <= delband[u]["cpu"]
    /\ Buy(Unstaked(Tables, u, from_net, from_cpu), u, from_net + from_cpu, from_net + from_cpu)

\* An order that cannot be filled joins the queue, or the order u already has there.
Enqueue(t, u, rex) ==
    IF u \in DOMAIN t.orders THEN [t EXCEPT !.orders[u].rex_requested = @ + rex]
    ELSE [t EXCEPT !.orders = Row(@, u, [rex_requested |-> rex, proceeds |-> 0, stake_change |-> 0,
                                         order_time |-> now, is_open |-> TRUE])]

\* mutant: the open order is not counted
CoveredAlone(t, u, rex) == rex <= t.bal[u].matured_rex
Covered(t, u, rex) == rex_in_sell_order(t, u) <= t.bal[u].matured_rex

MatureOf(t, u) == [t EXCEPT !.bal[u] = process_rex_maturities(@)]
EndSale(t, u, rex) == Covered(t, u, rex) /\ Commit(t)
SellFilled(t, u, rex) ==
    LET change == fill_rex_order(t, u, rex).bal[u].vote_stake - t.bal[u].vote_stake
    IN  /\ Filled(t, rex) /\ Value(t, rex) > 0
        /\ EndSale(update_rex_account(fill_rex_order(t, u, rex), u, Value(t, rex), change), u, rex)
SellQueued(t, u, rex) ==
    /\ ~Filled(t, rex) /\ u # b1
    /\ EndSale(Enqueue(update_rex_account(t, u, 0, 0), u, rex), u, rex)
SellFrom(t, u, rex) == rex <= t.bal[u].matured_rex /\ (SellFilled(t, u, rex) \/ SellQueued(t, u, rex))
sellrex(u, rex) == /\ Budget /\ initialized /\ u \in DOMAIN rexbal
                   /\ SellFrom(MatureOf(RunFirst(Tables), u), u, rex)

cnclrexorder(u) == Budget /\ u \in Open(Tables) /\ CommitAside([Tables EXCEPT !.orders = Without(@, u)])

Lend(t, k, from, receiver, payment, fund, rented) ==
    update_resource_limits(
        [add_loan_to_rex_pool(transfer_from_fund(t, from, payment + fund), payment, rented, TRUE)
            EXCEPT !.loans[k] = @ \cup {[from |-> from, receiver |-> receiver, payment |-> payment, balance |-> fund,
                                         total_staked |-> rented, loan_num |-> t.pool.loan_num + 1,
                                         expiration |-> now + loan_length]}],
        receiver, k, rented)
RentFrom(t, k, from, receiver, payment, fund) ==
    /\ rex_loans_available(t)
    /\ HasFund(t, from, payment + fund)
    /\ payment < Rented(t, payment)
    /\ Commit(Lend(t, k, from, receiver, payment, fund, Rented(t, payment)))
rent_rex(k, from, receiver, payment, fund) == Budget /\ initialized /\ RentFrom(RunFirst(Tables), k, from, receiver, payment, fund)
rentcpu(from, receiver, payment, fund) == rent_rex("cpu", from, receiver, payment, fund)
rentnet(from, receiver, payment, fund) == rent_rex("net", from, receiver, payment, fund)

\* The loan of from that has not expired.
Running(loan, from) == loan.from = from /\ loan.expiration > now
fund_rex_loan(k, loan, from, payment) ==
    /\ Budget
    /\ Running(loan, from) /\ HasFund(Tables, from, payment)
    /\ CommitAside([transfer_from_fund(Tables, from, payment)
                        EXCEPT !.loans[k] = (@ \ {loan}) \cup {[loan EXCEPT !.balance = @ + payment]}])
defund_rex_loan(k, loan, from, amount) ==
    /\ Budget
    /\ Running(loan, from) /\ amount <= loan.balance
    /\ CommitAside([transfer_to_fund(Tables, from, amount)
                        EXCEPT !.loans[k] = (@ \ {loan}) \cup {[loan EXCEPT !.balance = @ - amount]}])

\* u's row gets the vote stake that its REX is worth.
Revalue(t, u) == [t EXCEPT !.bal[u].vote_stake = IF t.pool.total_rex > 0 THEN Value(t, t.bal[u].rex_balance) ELSE 0]

\* The change of stake from t to t1 is voted with.
Recount(t, t1, u) == update_rex_account(t1, u, 0, StakeOf(t1, u) - StakeOf(t, u))
UpdateFrom(t, u) == Commit(MatureOf(Recount(t, Revalue(t, u), u), u))
updaterex(u) == Budget /\ initialized /\ u \in DOMAIN rexbal /\ UpdateFrom(RunFirst(Tables), u)

\* What voteproducer and changebw do to the REX stake of a voter first.
VoteValue(t, u) == CommitAside([t EXCEPT !.staked[u] = @ + StakeOf(t, u) - StakeOf(Tables, u)])
update_rex_stake(u) == Budget /\ rex_available(Tables) /\ u \in DOMAIN rexbal /\ VoteValue(Revalue(Tables, u), u)

setrex(balance) == Budget /\ initialized /\ CommitAside([Tables EXCEPT !.pool.total_rent = balance])

rexexec(max) == Budget /\ initialized /\ Commit(runrex(Tables, max))

\* runrex, then a filled order of u is collected.
Collected(u) == update_rex_account(RunFirst(Tables), u, 0, 0)

ConsolidateFrom(t, u) == Commit([t EXCEPT !.bal[u] = consolidate_rex_balance(@, rex_in_sell_order(t, u))])
consolidate(u) == Budget /\ initialized /\ u \in DOMAIN rexbal /\ ConsolidateFrom(Collected(u), u)

\* b is the row of u without its savings; an order is looked at only when matured REX is moved.
SaveRex(t, u, b, rex) ==
    /\ TakeMaturing(b, rex).matured_rex < b.matured_rex => rex_in_sell_order(t, u) <= TakeMaturing(b, rex).matured_rex
    /\ Commit([t EXCEPT !.bal[u] = put_rex_savings(TakeMaturing(b, rex), read_rex_savings(t.bal[u]) + rex)])
SaveFrom(t, u, rex) ==
    /\ rex + rex_in_sell_order(t, u) + read_rex_savings(t.bal[u]) <= t.bal[u].rex_balance
    /\ SaveRex(t, u, process_rex_maturities(TakeSavings(t.bal[u])), rex)
mvtosavings(u, rex) == Budget /\ initialized /\ u \in DOMAIN rexbal /\ SaveFrom(Collected(u), u, rex)

UnsaveFrom(t, u, rex) ==
    /\ rex <= read_rex_savings(t.bal[u])
    /\ Commit(update_rex_account([t EXCEPT !.bal[u] = AddMaturing(@, rex, read_rex_savings(t.bal[u]) - rex)], u, 0, 0))
mvfrsavings(u, rex) == Budget /\ initialized /\ u \in DOMAIN rexbal /\ UnsaveFrom(RunFirst(Tables), u, rex)

CloseFrom(t, u) ==
    LET ends == /\ \A k \in Kinds : \A l \in t.loans[k] : l.from # u
                /\ u \in DOMAIN t.funds /\ t.funds[u] = 0
    IN  /\ u \in DOMAIN t.bal => t.bal[u].rex_balance = 0
        /\ Commit([t EXCEPT !.funds = IF ends THEN Without(@, u) ELSE @, !.bal = Without(@, u),
                            !.strays[u] = @ + StakeOf(t, u)])
closerex(u) == Budget /\ CloseFrom(Collected(u), u)

\* Fees of the RAM market and of distviarex; the winning bid of an auction, kept for runrex.
ram_fee(fee) == Budget /\ rex_available(Tables) /\ Commit(channel_to_rex(update_rex_pool(Tables), fee))
channel_namebid_to_rex(bid) ==
    Budget /\ rex_available(Tables) /\ CommitAside([Tables EXCEPT !.pool.namebid_proceeds = @ + bid])

RexTick == /\ Budget /\ Tick
           /\ bought' = [u \in Users |-> RestrictDomain(bought[u], LAMBDA at : at > now + 1)]
           /\ UNCHANGED <<rexpool, initialized, rexfunds, rexbal, rexorders, loans, delband, totals, staked, tokens, writtenOff, strays, ops>>

RexNext ==
    \/ \E u \in Users, a \in Amounts : buyrex(u, a)
    \/ \E u \in Keepers : unstaketorex(u, Staked, Staked)
    \/ \E u \in Users, r \in RexAmounts : sellrex(u, r)
    \/ \E u \in Users : cnclrexorder(u)
    \/ \E u \in Keepers, a \in Amounts : deposit(u, a) \/ withdraw(u, a)
    \/ \E u \in Keepers, r \in RexAmounts : mvtosavings(u, r) \/ mvfrsavings(u, r)
    \/ \E u \in Keepers : updaterex(u) \/ update_rex_stake(u) \/ consolidate(u) \/ closerex(u)
    \/ \E u \in Renters, v \in Receivers, p \in Rents, f \in LoanFunds : rentcpu(u, v, p, f) \/ rentnet(u, v, p, f)
    \/ \E u \in Renters, k \in Kinds, a \in Rents : \E l \in loans[k] : fund_rex_loan(k, l, u, a)
    \/ \E u \in Renters, k \in Kinds, a \in Rents : \E l \in loans[k] : defund_rex_loan(k, l, u, a)
    \/ \E fee \in Fees : ram_fee(fee) \/ channel_namebid_to_rex(fee) \/ setrex(fee)
    \/ \E max \in RexexecMax : rexexec(max)
    \/ RexTick

RexSpec == RexInit /\ [][RexNext]_rexVars
-----------------------------------------------------------------------------
\* Every token eosio.rex holds belongs to exactly one of: a fund, the balance of a loan, the
\* proceeds of a filled order its owner has not collected, the lendable pool, the return pool, or the
\* lendable tokens that the first purchase into an emptied pool has written over: whatever the order
\* of loans, renewals, sales and late updates, nothing is paid twice and nobody is owed more than
\* there is.
RexIsBacked ==
    tokens[rex_account] = Total(rexfunds)
                          + Total([l \in Loans |-> l.balance])
                          + Total([u \in DOMAIN rexorders |-> rexorders[u].proceeds])
                          + rexpool.total_lendable + pool.proceeds + writtenOff

\* The totals of the pool, changed one by one in nine functions, agree with the rows they stand for,
\* and the resources of an account are what is delegated to it and every loan made for it, of its
\* kind; when the last REX is sold no loan is left, so that a new pool may start with total_lent = 0.
PoolAgrees ==
    /\ rexpool.total_rex = Total([u \in DOMAIN rexbal |-> rexbal[u].rex_balance])
    /\ rexpool.total_lent = Total([l \in Loans |-> l.total_staked])
    /\ rexpool.total_lendable = rexpool.total_lent + rexpool.total_unlent
    /\ rexpool.total_rex = 0 => Loans = {}
    /\ \A u \in Users, k \in Kinds :
        totals[u][k] = delband[u][k] + Total([l \in {m \in loans[k] : m.receiver = u} |-> l.total_staked])

\* The REX of an owner is what has matured and what is in its buckets, in the order of the times they
\* mature, the savings last; its open order is covered by matured REX, which
\* no other action may take away: runrex fills it without looking, in the action of anybody.
OrdersAreCovered ==
    /\ \A u \in DOMAIN rexbal :
        /\ rexbal[u].rex_balance = rexbal[u].matured_rex + SumSeq(rexbal[u].rex_maturities)
        /\ \A i, j \in DOMAIN rexbal[u].rex_maturities :
            i < j => rexbal[u].rex_maturities[i].at < rexbal[u].rex_maturities[j].at
    /\ \A u \in Open(Tables) : u \in DOMAIN rexbal /\ rexorders[u].rex_requested <= rexbal[u].matured_rex

\* REX cannot be sold before it has matured, whatever is moved to and from the savings or
\* consolidated in between: what was bought too recently is still in the buckets.
Held(b, time) == Total([i \in {j \in DOMAIN b.rex_maturities : b.rex_maturities[j].at > time} |-> b.rex_maturities[i].rex])
YoungRexIsHeld ==
    \A u \in Users : (IF u \in DOMAIN rexbal THEN Held(rexbal[u], now) ELSE 0) >= Total(bought[u])

\* An account votes with what it has delegated and the value its REX had when it was last
\* counted; the change of a sale that runrex made for it waits in its order and is not lost.  The one
\* stake that stays behind is that of a closed row without REX: a first payment that bought none of it,
\* being worth less than the smallest amount of REX.
RexStakeIsVoted ==
    \A u \in Users : staked[u] = delband[u]["net"] + delband[u]["cpu"] + StakeOf(Tables, u) + strays[u]
                                 - IF u \in DOMAIN rexorders THEN rexorders[u].stake_change ELSE 0

\* Whoever calls rexexec with a max that reaches every loan and order, no order is
\* left open that is older than a loan: no new loan and no renewal goes before it.
NoOldOrder(t) == \A u \in Open(t) : now < t.orders[u].order_time + loan_length
OrdersWaitOneLoan == initialized => NoOldOrder(runrex(Tables, 1 + Cardinality(Loans) + Cardinality(Users)))

\* A token of REX never loses value: the lendable tokens for each REX do not fall, rounding
\* included, except that an emptied pool starts anew.
ValueNeverFalls ==
    [][(rexpool.total_rex > 0 /\ rexpool'.total_rex > 0) =>
        rexpool'.total_lendable * rexpool.total_rex >= rexpool.total_lendable * rexpool'.total_rex]_rexVars
=============================================================================
