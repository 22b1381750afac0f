------------------------------ MODULE Resources -----------------------------
(***************************************************************************)
(* The NET and CPU weight of the accounts: the table userres, the limits   *)
(* the chain enforces, and the flags that take an account's limits out of  *)
(* the hands of staking, REX and PowerUp (adjust_resources of powerup.cpp, *)
(* update_resource_limits of rex.cpp, setalimits, setacctnet, setacctcpu   *)
(* of eosio.system.cpp).  RAM is module RamMarket; here an account has     *)
(* some or none, which decides whether its row outlives its weight.        *)
(***************************************************************************)
EXTENDS Integers, FiniteSets

CONSTANTS
    Users,            \* ordinary accounts
    reserve_account,  \* eosio.reserv, which holds what PowerUp has not sold
    Natives,          \* the accounts older than the contract: no row, no limits at first
    RamBuyers,        \* bound: who buys and sells RAM
    Borrowers, Loans, \* bound: who is staked or lent weight, and how much at a time
    Handled, FixedLimits  \* bound: whose limits are set by hand, and the limits; -1 is no limit

Accounts == Users \cup {reserve_account}
Kinds    == {"net", "cpu"}

ASSUME ResourcesAssumption ==
    /\ reserve_account \notin Users /\ Natives \cup RamBuyers \cup Borrowers \cup Handled \subseteq Accounts
    /\ Loans \subseteq Nat \ {0} /\ FixedLimits \subseteq Nat \cup {-1}

VARIABLES
    rows,       \* userres: the accounts with a row
    totals,     \* userres: net_weight and cpu_weight, nothing without a row
    ramOwners,  \* userres: the accounts whose ram_bytes are positive
    limits,     \* external: the limits of the chain; -1 is no limit
    managed,    \* voters.flags1: the kinds with net_managed or cpu_managed set
    lent,       \* what staking and REX loans have added to totals
    bare        \* history: the rows a purchase of RAM has created, until their weight changes

resourceVars == <<rows, totals, ramOwners, limits, managed, lent, bare>>

Zero     == [k \in Kinds |-> 0]
NoLimit  == [k \in Kinds |-> -1]
d1 ++ d2 == [k \in Kinds |-> d1[k] + d2[k]]
d1 -- d2 == [k \in Kinds |-> d1[k] - d2[k]]

ResourcesTypeOK ==
    /\ totals \in [Accounts -> [Kinds -> Nat]] /\ lent \in [Accounts -> [Kinds -> Nat]]
    /\ limits \in [Accounts -> [Kinds -> Int]] /\ managed \in [Accounts -> SUBSET Kinds]
    /\ rows \subseteq Accounts /\ ramOwners \subseteq rows /\ bare \subseteq rows

\* newaccount has given every other account an empty row and limits of zero.
ResourcesInit ==
    /\ rows = Accounts \ Natives /\ ramOwners = {} /\ bare = {}
    /\ totals = [a \in Accounts |-> Zero] /\ lent = totals
    /\ limits = [a \in Accounts |-> IF a \in rows THEN Zero ELSE NoLimit]
    /\ managed = [a \in Accounts |-> {}]

\* A row whose weight is now w: one without weight and RAM is erased.
RowsAfter(t, a, w) == IF w = Zero /\ a \notin ramOwners THEN t.rows \ {a} ELSE t.rows \cup {a}

\* mutant: one managed kind keeps the chain's limits of both
NoneWhenManaged(t, a, delta) ==
    IF delta = Zero THEN t
    ELSE [totals |-> [t.totals EXCEPT ![a] = @ ++ delta],
          limits |-> IF managed[a] # {} THEN t.limits ELSE [t.limits EXCEPT ![a] = t.totals[a] ++ delta],
          rows   |-> RowsAfter(t, a, t.totals[a] ++ delta), bare |-> t.bare \ {a}]
\* t holds the rows, their weight and the limits; an adjustment by nothing leaves them all alone,
\* even when the limits differ from the totals.
adjust_resources(t, a, delta) ==
    IF delta = Zero THEN t
    ELSE [totals |-> [t.totals EXCEPT ![a] = @ ++ delta],
          limits |-> [t.limits EXCEPT ![a] = [k \in Kinds |-> IF k \in managed[a] THEN @[k] ELSE t.totals[a][k] + delta[k]]],
          rows   |-> RowsAfter(t, a, t.totals[a] ++ delta), bare |-> t.bare \ {a}]
\* must_not_be_managed
NotManaged(a, delta) == delta # Zero => managed[a] = {}
\* insufficient staked total bandwidth
Sufficient(t) == \A a \in Accounts, k \in Kinds : t.totals[a][k] >= 0

Rows == [totals |-> totals, limits |-> limits, rows |-> rows, bare |-> bare]
WriteRows(t) ==
    /\ Sufficient(t)
    /\ totals' = t.totals /\ limits' = t.limits /\ rows' = t.rows /\ bare' = t.bare

\* A loan of REX begins or grows, or ends or shrinks; staking changes the weight likewise.
update_resource_limits(a, delta) ==
    /\ WriteRows(adjust_resources(Rows, a, delta))
    /\ lent' = [lent EXCEPT ![a] = @ ++ delta]
    /\ UNCHANGED <<managed, ramOwners>>
LoanStarts(a, k, n) == update_resource_limits(a, [Zero EXCEPT ![k] = n])
LoanEnds(a, k, n)   == lent[a][k] >= n /\ update_resource_limits(a, [Zero EXCEPT ![k] = -n])

\* A purchase of RAM creates the row that is missing and leaves the NET and CPU limits as they are;
\* a sale of all the RAM leaves the row, though nothing may be left in it.
buyram(a) ==
    /\ rows' = rows \cup {a}
    /\ ramOwners' = ramOwners \cup {a}
    /\ bare' = IF a \in rows THEN bare ELSE bare \cup {a}
    /\ UNCHANGED <<totals, limits, managed, lent>>
sellram(a) ==
    /\ a \in ramOwners
    /\ ramOwners' = ramOwners \ {a}
    /\ UNCHANGED <<rows, totals, limits, managed, lent, bare>>

setalimits(a, net, cpu) ==
    /\ a \notin rows
    /\ managed[a] = {}
    /\ limits' = [limits EXCEPT ![a] = [k \in Kinds |-> IF k = "net" THEN net ELSE cpu]]
    /\ UNCHANGED <<rows, totals, ramOwners, managed, lent, bare>>

\* setacctnet and setacctcpu with a weight, and without.
SetWeight(a, k, w) ==
    /\ managed' = [managed EXCEPT ![a] = @ \cup {k}]
    /\ limits' = [limits EXCEPT ![a][k] = w]
    /\ UNCHANGED <<rows, totals, ramOwners, lent, bare>>
UnsetWeight(a, k) ==
    /\ k \in managed[a]
    /\ managed' = [managed EXCEPT ![a] = @ \ {k}]
    /\ limits' = [limits EXCEPT ![a][k] = totals[a][k]]
    /\ UNCHANGED <<rows, totals, ramOwners, lent, bare>>

setacctnet(a, w) == SetWeight(a, "net", w)
unsetacctnet(a)  == UnsetWeight(a, "net")
setacctcpu(a, w) == SetWeight(a, "cpu", w)
unsetacctcpu(a)  == UnsetWeight(a, "cpu")
=============================================================================
