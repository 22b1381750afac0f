------------------------------- MODULE PowerUp ------------------------------
(***************************************************************************)
(* The PowerUp market (powerup.cpp).  The reserve account holds the NET    *)
(* and CPU weight that is for sale; an order moves part of it to an        *)
(* account for powerup_days.  The weight for sale grows over time, as the  *)
(* ratio of staked to total weight shrinks linearly to its target.  The    *)
(* price follows the utilization, which counts expired orders for a while  *)
(* (adjusted_utilization).  Nothing runs by itself: a few expired orders   *)
(* are returned by every purchase and by powerupexec.                      *)
(*                                                                         *)
(* The price curve has its default exponent 2, or the exponent 1 with      *)
(* min_price = max_price; fees are exact fractions rounded up.  The decay  *)
(* of adjusted_utilization, an exponential, is any value its clamp allows. *)
(***************************************************************************)
EXTENDS Resources, Sums

CONSTANTS
    powerup_frac,     \* 100% (10^15)
    default_target,   \* the default of target_weight_ratio (powerup_frac / 100)
    default_days,     \* the default of powerup_days (30)
    QueueMax,         \* expired orders a purchase returns (2)
    int64_max,
    Unset,            \* an optional argument that is not given
    Configs,          \* bound: the arguments of cfgpowerup
    Fracs,            \* bound: the fractions of the market in a purchase
    ExecMax,          \* bound: the max of powerupexec
    MaxTime, MaxOps   \* bound: days; actions

Opt(S)     == S \cup {Unset}
KindConfig == [current_weight_ratio : Opt(Int), target_weight_ratio : Opt(Int), assumed_stake_weight : Opt(Int),
               target_timestamp : Opt(Nat), max_price : Opt(Int), min_price : Opt(Int)]

ASSUME PowerUpAssumption ==
    /\ Unset \notin Int
    /\ Configs \subseteq [net : KindConfig, cpu : KindConfig, powerup_days : Opt(Nat), min_powerup_fee : Opt(Int)]
    /\ powerup_frac \in Nat \ {0} /\ default_target \in 1..powerup_frac /\ default_days \in Nat \ {0}
    /\ QueueMax \in Nat /\ int64_max \in Nat /\ ExecMax \subseteq Nat /\ Fracs \subseteq 0..powerup_frac
    /\ MaxTime \in Nat /\ MaxOps \in Nat

VARIABLES
    now,        \* time_point_sec(current_time_point())
    exists,     \* the singleton powup.state exists
    market,     \* powup.state: its net and cpu
    terms,      \* powup.state: powerup_days and min_powerup_fee
    orders,     \* powup.order: from the id to the order
    ops         \* the actions used up

powerupVars == <<now, exists, market, terms, orders, ops>>
vars        == <<resourceVars, powerupVars>>

powerup_state_resource ==
    [weight : Nat, weight_ratio : 0..powerup_frac, assumed_stake_weight : Nat,
     initial_weight_ratio : 1..powerup_frac, target_weight_ratio : 1..powerup_frac,
     initial_timestamp : Nat, target_timestamp : Nat, min_price : Opt(Nat), max_price : Opt(Nat),
     utilization : Nat, adjusted_utilization : Nat, utilization_timestamp : Nat]
powerup_order ==
    [owner : Accounts, weight : [Kinds -> Nat], expires : Nat, paid : [Kinds -> Nat], current : BOOLEAN]

TypeOK ==
    /\ ResourcesTypeOK
    /\ now \in Nat /\ exists \in BOOLEAN /\ ops \in Nat
    /\ market \in [Kinds -> powerup_state_resource]
    /\ terms \in [powerup_days : Nat, min_powerup_fee : Opt(Nat)]
    /\ DOMAIN orders \subseteq Nat /\ IsFiniteSet(DOMAIN orders)
    /\ orders \in [DOMAIN orders -> powerup_order]

DefaultResource ==
    [weight |-> 0, weight_ratio |-> 0, assumed_stake_weight |-> 0,
     initial_weight_ratio |-> powerup_frac, target_weight_ratio |-> default_target,
     initial_timestamp |-> 0, target_timestamp |-> 0, min_price |-> Unset, max_price |-> Unset,
     utilization |-> 0, adjusted_utilization |-> 0, utilization_timestamp |-> 0]

Init ==
    /\ ResourcesInit
    /\ now = 1 /\ exists = FALSE /\ ops = 0
    /\ market = [k \in Kinds |-> DefaultResource]
    /\ terms = [powerup_days |-> default_days, min_powerup_fee |-> Unset]
    /\ orders = [i \in {} |-> Unset]

\* Time passes; a later utilization is only known once the next action asks for it.
Tick ==
    /\ now < MaxTime /\ now' = now + 1
    /\ UNCHANGED <<resourceVars, exists, market, terms, orders, ops>>

Budget == ops < MaxOps /\ ops' = ops + 1
-----------------------------------------------------------------------------
\* How far the adjusted utilization may stay above the utilization after the decay.
Decays == [k \in Kinds |->
    IF now > market[k].utilization_timestamp /\ market[k].utilization < market[k].adjusted_utilization
    THEN 0..(market[k].adjusted_utilization - market[k].utilization) ELSE {0}]
Kept == {kept \in [Kinds -> UNION {Decays[k] : k \in Kinds}] : \A k \in Kinds : kept[k] \in Decays[k]}

update_utilization(r, kept) ==
    IF now <= r.utilization_timestamp THEN r
    ELSE [r EXCEPT !.adjusted_utilization = IF r.utilization >= @ THEN r.utilization ELSE r.utilization + kept,
                   !.utilization_timestamp = now]

\* The weight for sale makes up the part of the total that is not the assumed stake.
WeightAt(assumed, ratio) == (assumed * powerup_frac) \div ratio - assumed
RatioNow(r) ==
    IF now >= r.target_timestamp THEN r.target_weight_ratio
    ELSE r.initial_weight_ratio - ((r.initial_weight_ratio - r.target_weight_ratio) * (now - r.initial_timestamp))
                                    \div (r.target_timestamp - r.initial_timestamp)
update_weight(r) ==
    [r EXCEPT !.weight_ratio = RatioNow(r), !.weight = WeightAt(r.assumed_stake_weight, RatioNow(r))]

Weights(m) == [k \in Kinds |-> m[k].weight]

\* The index byexpires: orders of the same time come in the order of their ids.
Precedes(j, i) == orders[j].expires < orders[i].expires \/ (orders[j].expires = orders[i].expires /\ j < i)
\* The orders the queue processes: the first ones that have expired, at most max.
Due(max) == {i \in DOMAIN orders : /\ orders[i].expires <= now
                                  /\ Cardinality({j \in DOMAIN orders : Precedes(j, i)}) < max}
Weight(S) == [k \in Kinds |-> SumOf([i \in DOMAIN orders |-> orders[i].weight[k]], S)]
OwnedBy(a) == {i \in DOMAIN orders : orders[i].owner = a}
\* The adjustments of an account, all of one sign, add up; those of several do not meet.
Returned(t, S) ==
    LET one(a) == adjust_resources(t, a, Zero -- Weight(S \cap OwnedBy(a)))
    IN  [totals |-> [a \in Accounts |-> one(a).totals[a]], limits |-> [a \in Accounts |-> one(a).limits[a]],
         rows   |-> {a \in Accounts : a \in one(a).rows}, bare |-> {a \in Accounts : a \in one(a).bare}]

\* mutant: the utilization is reduced by the whole change of the available weight
MarketLate(kept, max) ==
    LET m == [k \in Kinds |-> update_weight(update_utilization(market[k], kept[k]))]
    IN  [k \in Kinds |-> [m[k] EXCEPT !.utilization = @ - (Weight(Due(max))[k] + m[k].weight - market[k].weight)]]
\* The markets after the queue; each gains what has expired and what the ratio has released.
MarketAfter(kept, max) ==
    [k \in Kinds |-> update_weight([update_utilization(market[k], kept[k]) EXCEPT !.utilization = @ - Weight(Due(max))[k]])]
Available(kept, max) == Weight(Due(max)) ++ (Weights(MarketAfter(kept, max)) -- Weights(market))
Remaining(max)       == [i \in DOMAIN orders \ Due(max) |-> orders[i]]
-----------------------------------------------------------------------------
CeilDiv(a, b) == -((-a) \div b)

\* The price of the utilization from s to e on the curve, times 2 * weight^2.
CurveTimes(r, s, e) == 2 * r.min_price * r.weight * (e - s) + (r.max_price - r.min_price) * (e * e - s * s)
\* The price at the adjusted utilization, times weight.
PriceTimes(r) == r.min_price * r.weight + (r.max_price - r.min_price) * r.adjusted_utilization

\* mutant: what lies below the adjusted utilization costs nothing
FeeAboveAdjusted(r, increase) ==
    LET start == r.utilization
        end   == start + increase
        from  == IF start < r.adjusted_utilization THEN r.adjusted_utilization ELSE start
    IN  CeilDiv(IF from < end THEN CurveTimes(r, from, end) ELSE 1, 2 * r.weight * r.weight)
\* Below the adjusted utilization every unit costs the price at it.
calc_powerup_fee(r, increase) ==
    LET start == r.utilization
        end   == start + increase
        gap   == IF start < r.adjusted_utilization THEN r.adjusted_utilization - start ELSE 0
        flat  == IF increase < gap THEN increase ELSE gap
    IN  IF increase <= 0 THEN 0
        ELSE CeilDiv(2 * PriceTimes(r) * flat + IF start + gap < end THEN CurveTimes(r, start + gap, end) ELSE 0,
                     2 * r.weight * r.weight)

\* history: paid is the fee of each kind; current is TRUE until the market is configured anew.
NewOrder(receiver, amount, fee) ==
    [owner |-> receiver, weight |-> amount, expires |-> now + terms.powerup_days, paid |-> fee, current |-> TRUE]
available_primary_key(table) ==
    IF DOMAIN table = {} THEN 0 ELSE (CHOOSE i \in DOMAIN table : \A j \in DOMAIN table : j <= i) + 1
Emplace(table, o) ==
    LET id == available_primary_key(table)
    IN  [i \in DOMAIN table \cup {id} |-> IF i = id THEN o ELSE table[i]]
-----------------------------------------------------------------------------
Given(arg, default) == IF arg = Unset THEN default ELSE arg

\* The arguments of cfgpowerup for a kind, the defaults filled in.
Filled(r, c) ==
    LET ratio  == Given(c.current_weight_ratio, IF r.weight_ratio # 0 THEN r.weight_ratio ELSE r.initial_weight_ratio)
        target == Given(c.target_weight_ratio, r.target_weight_ratio)
        max    == Given(c.max_price, r.max_price)
    IN  [current_weight_ratio |-> ratio, target_weight_ratio |-> target,
         assumed_stake_weight |-> Given(c.assumed_stake_weight, r.assumed_stake_weight),
         target_timestamp     |-> IF ratio = target THEN now ELSE Given(c.target_timestamp, r.target_timestamp),
         max_price            |-> max,
         min_price            |-> Given(c.min_price, Given(r.min_price, 0))]

ConfigOK(f) ==
    /\ f.current_weight_ratio \in 1..powerup_frac
    /\ f.target_weight_ratio \in 1..f.current_weight_ratio
    /\ f.assumed_stake_weight >= 1
    /\ (f.assumed_stake_weight * powerup_frac) \div f.target_weight_ratio <= int64_max
    /\ f.current_weight_ratio = f.target_weight_ratio \/ f.target_timestamp > now
    /\ f.max_price # Unset /\ f.max_price > 0
    /\ f.min_price \in 0..f.max_price

Configured(r, f) ==
    [r EXCEPT !.assumed_stake_weight = f.assumed_stake_weight, !.initial_weight_ratio = f.current_weight_ratio,
              !.target_weight_ratio = f.target_weight_ratio, !.initial_timestamp = now,
              !.target_timestamp = f.target_timestamp, !.min_price = f.min_price, !.max_price = f.max_price]
\* A smaller weight takes the adjusted utilization with it.
Capped(r) == [r EXCEPT !.adjusted_utilization = IF r.weight < @ THEN r.weight ELSE @]

\* Applied before the new arguments: an existing market moves to the present.
Present(k, kept) ==
    IF exists THEN update_weight(update_utilization(market[k], kept[k]))
    ELSE [market[k] EXCEPT !.utilization_timestamp = now]

cfgpowerup(c) ==
    /\ Budget
    /\ \E kept \in Kept :
        LET days == Given(c.powerup_days, terms.powerup_days)
            fee  == Given(c.min_powerup_fee, terms.min_powerup_fee)
        IN  /\ days > 0 /\ fee # Unset /\ fee > 0
            /\ \A k \in Kinds : ConfigOK(Filled(Present(k, kept), c[k]))
            /\ market' = [k \in Kinds |-> Capped(update_weight(Configured(Present(k, kept), Filled(Present(k, kept), c[k]))))]
            /\ \A k \in Kinds : market'[k].weight >= market'[k].utilization
            /\ NotManaged(reserve_account, Weights(market') -- Weights(market))
            /\ WriteRows(adjust_resources(Rows, reserve_account, Weights(market') -- Weights(market)))
            /\ terms' = [powerup_days |-> days, min_powerup_fee |-> fee]
    /\ exists' = TRUE
    /\ orders' = [i \in DOMAIN orders |-> [orders[i] EXCEPT !.current = FALSE]]
    /\ UNCHANGED <<now, managed, lent, ramOwners>>

powerupexec(max) ==
    /\ exists /\ Budget
    /\ \E kept \in Kept :
        /\ Sufficient(Returned(Rows, Due(max)))
        /\ NotManaged(reserve_account, Available(kept, max))
        /\ WriteRows(adjust_resources(Returned(Rows, Due(max)), reserve_account, Available(kept, max)))
        /\ market' = MarketAfter(kept, max)
    /\ orders' = Remaining(max)
    /\ UNCHANGED <<now, exists, terms, managed, lent, ramOwners>>

\* What the handler does once the queue is processed: m and t are the markets and the tables then,
\* amount is the weight bought.  The payer's max_payment and balance allow the fee, and REX takes it.
Purchase(receiver, frac, m, t, amount, available) ==
    LET fee == [k \in Kinds |-> calc_powerup_fee(m[k], amount[k])]
    IN  /\ \A k \in Kinds : frac[k] > 0 => m[k].weight > 0 /\ m[k].utilization + amount[k] <= m[k].weight /\ fee[k] > 0
        /\ fee["net"] + fee["cpu"] >= terms.min_powerup_fee
        /\ orders' = Emplace(Remaining(QueueMax), NewOrder(receiver, amount, fee))
        /\ market' = [k \in Kinds |-> [m[k] EXCEPT !.utilization = @ + amount[k]]]
        /\ NotManaged(receiver, amount)
        /\ NotManaged(reserve_account, available -- amount)
        /\ Sufficient(t) /\ Sufficient(adjust_resources(t, receiver, amount))
        /\ WriteRows(adjust_resources(adjust_resources(t, receiver, amount), reserve_account, available -- amount))

powerup(receiver, frac) ==
    /\ exists /\ Budget
    /\ \E kept \in Kept :
        Purchase(receiver, frac, MarketAfter(kept, QueueMax), Returned(Rows, Due(QueueMax)),
                 [k \in Kinds |-> (frac[k] * MarketAfter(kept, QueueMax)[k].weight) \div powerup_frac],
                 Available(kept, QueueMax))
    /\ UNCHANGED <<now, exists, terms, managed, lent, ramOwners>>

\* The operations of module Resources.
Other(A) == A /\ Budget /\ UNCHANGED <<now, exists, market, terms, orders>>

Next ==
    \/ Tick
    \/ \E c \in Configs : cfgpowerup(c)
    \/ \E max \in ExecMax : powerupexec(max)
    \/ \E receiver \in Accounts, frac \in [Kinds -> Fracs] : powerup(receiver, frac)
    \/ \E a \in Borrowers, k \in Kinds, n \in Loans : Other(LoanStarts(a, k, n))
    \/ \E a \in Borrowers, k \in Kinds, n \in Loans : Other(LoanEnds(a, k, n))
    \/ \E a \in RamBuyers : Other(buyram(a)) \/ Other(sellram(a))
    \/ \E a \in Handled, net, cpu \in FixedLimits : Other(setalimits(a, net, cpu))
    \/ \E a \in Handled, w \in FixedLimits : Other(setacctnet(a, w)) \/ Other(setacctcpu(a, w))
    \/ \E a \in Handled : Other(unsetacctnet(a)) \/ Other(unsetacctcpu(a))

Spec == Init /\ [][Next]_vars
-----------------------------------------------------------------------------
\* What is sold is what the open orders hold, is at most the weight, and counts at most as the
\* whole weight in the price; and every account's weight is what it was lent, what its open orders
\* hold and, for the reserve account, what is not sold.  So the return of an expired order never
\* fails for want of weight, which would block the queue for everybody.
MarketIsAccounted ==
    /\ \A k \in Kinds :
        /\ market[k].utilization = Weight(DOMAIN orders)[k]
        /\ 0 <= market[k].utilization /\ market[k].utilization <= market[k].weight
        /\ 0 <= market[k].adjusted_utilization /\ market[k].adjusted_utilization <= market[k].weight
    /\ \A a \in Accounts, k \in Kinds :
        totals[a][k] = lent[a][k] + Weight(OwnedBy(a))[k]
                         + IF a = reserve_account THEN market[k].weight - market[k].utilization ELSE 0

\* The chain enforces the weight of userres, for the kinds that are not managed, on every account that
\* has any weight, and the limit zero on every account with a row and no weight, whatever was managed,
\* fixed, bought, lent and returned in between.  One case is left out, for buyram writes no NET and CPU
\* limits: a row that it has created keeps the limits its account had without one until its weight
\* changes.
LimitsFollowTotals ==
    \A a \in Accounts : (totals[a] # Zero \/ a \in rows \ bare) => \A k \in Kinds \ managed[a] : limits[a][k] = totals[a][k]

Current == {i \in DOMAIN orders : orders[i].current}
PaidForAll(k, S) ==
    SumOf([i \in DOMAIN orders |-> orders[i].paid[k]], S) * 2 * market[k].weight * market[k].weight
        >= CurveTimes(market[k], 0, Weight(S)[k])

\* The open orders bought under the present configuration have paid at least what the price curve
\* asks for all of them at once, however they were split, spread over time, or bought in the second
\* of another purchase, before adjusted_utilization is brought up to date.
OrdersPaidTheCurve == \A k \in Kinds : Current # {} => PaidForAll(k, Current)
=============================================================================
