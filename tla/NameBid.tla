------------------------------ MODULE NameBid ------------------------------
(***************************************************************************)
(* Auctions of short account names: bidname, bidrefund (name_bidding.cpp), *)
(* the closing of the best auction by onblock (producer_pay.cpp) and the   *)
(* creation of the account by the winner (newaccount).                     *)
(*                                                                         *)
(* Time is kept as ages that stop just above a day.  The network has been  *)
(* active for 14 days.  REX is open, so that the bid of a closed auction   *)
(* becomes namebid_proceeds.  The deferred bidrefund is the chain's.       *)
(***************************************************************************)
EXTENDS Integers, FiniteSets, Sums

CONSTANTS
    Bidders,    \* the accounts that bid
    Names,      \* the names, numbered: the primary key
    Day,        \* a day, in ticks
    Amounts,    \* the amounts of bids
    Money       \* bound: tokens of each bidder at the start

ASSUME NameBidAssumption ==
    /\ IsFiniteSet(Bidders) /\ Names \subseteq Nat /\ IsFiniteSet(Names)
    /\ Day \in Nat \ {0} /\ Amounts \subseteq Nat \ {0} /\ Money \in Nat

Nobody == "nobody"
System == "eosio"
ASSUME OthersAssumption == Nobody \notin Bidders /\ System \notin Bidders

VARIABLES
    liquid,       \* tokens of the bidders
    names,        \* tokens of eosio.names
    high_bidder,  \* name_bid: the best bidder, Nobody without a row
    high_bid,     \* name_bid: the best bid, negative when the auction is closed
    bidAge,       \* time since last_bid_time
    refunds,      \* bid_refund: from names and bidders to amounts
    deferred,     \* external: bidrefund transactions waiting
    closeAge,     \* time since last_name_close
    proceeds,     \* namebid_proceeds of the REX pool
    owner         \* is_account and history: who created the account

bidVars == <<liquid, names, high_bidder, high_bid, bidAge, refunds, deferred, closeAge, proceeds, owner>>

Bids == Names \X Bidders
Ages == 0..(Day + 1)

BidTypeOK ==
    /\ liquid \in [Bidders -> 0..Money] /\ names \in Nat
    /\ high_bidder \in [Names -> Bidders \cup {Nobody}] /\ high_bid \in [Names -> -Money..Money]
    /\ bidAge \in [Names -> Ages]
    /\ refunds \in [Bids -> Nat]
    /\ deferred \subseteq Bids
    /\ closeAge \in Ages /\ proceeds \in Nat
    /\ owner \in [Names -> Bidders \cup {Nobody, System}]

BidInit ==
    /\ liquid = [b \in Bidders |-> Money] /\ names = 0
    /\ high_bidder = [n \in Names |-> Nobody] /\ high_bid = [n \in Names |-> 0]
    /\ bidAge = [n \in Names |-> 0]
    /\ refunds = [x \in Bids |-> 0]
    /\ deferred = {}
    /\ closeAge = Day + 1 /\ proceeds = 0
    /\ owner = [n \in Names |-> Nobody]
-----------------------------------------------------------------------------
Row(n) == high_bidder[n] # Nobody

\* mutant: any better bid will do, also in a closed auction
RaisesClosed(n, bid) == bid > high_bid[n]
\* A bid must beat the best one by more than a tenth, in an auction that is open.
Raises(n, bid) == high_bid[n] > 0 /\ bid - high_bid[n] > high_bid[n] \div 10

\* mutant: an earlier refund that was not claimed is written over
RefundReplaced(old, amount) == amount
\* A bidder outbid again before claiming gets both amounts.
RefundOf(old, amount) == old + amount

bidname(bidder, n, bid) ==
    /\ owner[n] = Nobody
    /\ liquid[bidder] >= bid
    /\ liquid' = [liquid EXCEPT ![bidder] = @ - bid]
    /\ names' = names + bid
    /\ \/ /\ ~Row(n)
          /\ UNCHANGED <<refunds, deferred>>
       \/ /\ Row(n) /\ Raises(n, bid) /\ high_bidder[n] # bidder
          /\ refunds' = [refunds EXCEPT ![<<n, high_bidder[n]>>] = RefundOf(@, high_bid[n])]
          /\ deferred' = deferred \cup {<<n, high_bidder[n]>>}
    /\ high_bidder' = [high_bidder EXCEPT ![n] = bidder]
    /\ high_bid' = [high_bid EXCEPT ![n] = bid]
    /\ bidAge' = [bidAge EXCEPT ![n] = 0]
    /\ UNCHANGED <<closeAge, proceeds, owner>>

\* The table without a refund that was paid.
RefundErased(n, bidder) == [refunds EXCEPT ![<<n, bidder>>] = 0]

\* The amounts of the table are positive, so a row is an amount that is not 0.
CanRefund(bidder, n) == refunds[<<n, bidder>>] > 0 /\ names >= refunds[<<n, bidder>>]
PayRefund(bidder, n) ==
    /\ names' = names - refunds[<<n, bidder>>]
    /\ liquid' = [liquid EXCEPT ![bidder] = @ + refunds[<<n, bidder>>]]
    /\ refunds' = RefundErased(n, bidder)
    /\ UNCHANGED <<high_bidder, high_bid, bidAge, closeAge, proceeds, owner>>
bidrefund(bidder, n) == CanRefund(bidder, n) /\ PayRefund(bidder, n) /\ UNCHANGED deferred

\* External: a deferred bidrefund runs, and is dropped if it fails.
RunDeferred(bidder, n) ==
    /\ <<n, bidder>> \in deferred /\ deferred' = deferred \ {<<n, bidder>>}
    /\ \/ CanRefund(bidder, n) /\ PayRefund(bidder, n)
       \/ ~CanRefund(bidder, n) /\ UNCHANGED <<liquid, names, high_bidder, high_bid, bidAge, refunds, closeAge, proceeds, owner>>

\* The open auctions, where the index highbid is searched from the middle of its range.
OpenAuctions == {n \in Names : high_bid[n] > 0}
\* mutant: the index is read from its other end, so that closed auctions are in the way
IsHighestEver(n) ==
    /\ n \in OpenAuctions
    /\ \A m \in Names : high_bid[m] <= high_bid[n] /\ 0 - high_bid[m] <= high_bid[n]
\* The first of them in the index: the highest bid, then the name.
IsHighest(n) ==
    /\ n \in OpenAuctions
    /\ \A m \in OpenAuctions : high_bid[m] < high_bid[n] \/ (high_bid[m] = high_bid[n] /\ n <= m)

\* onblock closes the best auction, if it is due.
onblock ==
    /\ closeAge > Day
    /\ \E n \in Names :
          /\ IsHighest(n) /\ bidAge[n] > Day
          /\ high_bid' = [high_bid EXCEPT ![n] = 0 - @]
          /\ proceeds' = proceeds + high_bid[n]
    /\ closeAge' = 0
    /\ UNCHANGED <<liquid, names, high_bidder, bidAge, refunds, deferred, owner>>

\* runrex takes the proceeds to REX.
channel_to_rex ==
    /\ proceeds > 0 /\ names >= proceeds
    /\ names' = names - proceeds /\ proceeds' = 0
    /\ UNCHANGED <<liquid, high_bidder, high_bid, bidAge, refunds, deferred, closeAge, owner>>

\* May creator claim the name?
MayClaim(creator, n) == high_bidder[n] = creator /\ high_bid[n] < 0

\* The system account creates any account, and leaves the auction alone.
newaccount(creator, n) ==
    /\ owner[n] = Nobody
    /\ owner' = [owner EXCEPT ![n] = creator]
    /\ \/ /\ creator = System
          /\ UNCHANGED <<high_bidder, high_bid, bidAge>>
       \/ /\ creator # System /\ MayClaim(creator, n)
          /\ high_bidder' = [high_bidder EXCEPT ![n] = Nobody]
          /\ high_bid' = [high_bid EXCEPT ![n] = 0]
          /\ bidAge' = [bidAge EXCEPT ![n] = 0]
    /\ UNCHANGED <<liquid, names, refunds, deferred, closeAge, proceeds>>

\* External: time passes.
Older(t) == IF t > Day THEN t ELSE t + 1
Tick ==
    /\ bidAge' = [n \in Names |-> IF Row(n) THEN Older(bidAge[n]) ELSE 0]
    /\ closeAge' = Older(closeAge)
    /\ UNCHANGED <<liquid, names, high_bidder, high_bid, refunds, deferred, proceeds, owner>>

BidNext ==
    \/ \E b \in Bidders, n \in Names :
        \/ \E bid \in Amounts : bidname(b, n, bid)
        \/ bidrefund(b, n)
        \/ RunDeferred(b, n)
    \/ onblock \/ channel_to_rex
    \/ \E c \in Bidders \cup {System}, n \in Names : newaccount(c, n)
    \/ Tick

\* Blocks are produced and time passes.
Fairness == WF_bidVars(onblock) /\ WF_bidVars(Tick)
BidSpec == BidInit /\ [][BidNext]_bidVars /\ Fairness
-----------------------------------------------------------------------------
Positive(f) == [x \in DOMAIN f |-> IF f[x] > 0 THEN f[x] ELSE 0]

\* The refunds that wait for b, its open bids, and what it no longer has in any form.
RefundsTo(b) == [n \in Names |-> refunds[<<n, b>>]]
OpenBids(b)  == [n \in Names |-> IF high_bidder[n] = b /\ high_bid[n] > 0 THEN high_bid[n] ELSE 0]
Paid(b)      == Money - liquid[b] - SumOver(RefundsTo(b)) - SumOver(OpenBids(b))

\* eosio.names holds the open bids, the refunds not claimed and the proceeds: every refund can
\* be paid, however often a bidder is outbid and whenever auctions close in between.  Nobody
\* loses a bid: what a bidder started with is in its balance, in refunds or in its open bids, or
\* has been paid for auctions it won; and only somebody who won an auction, or created the name
\* after it, has paid.
BidsBuyNames ==
    /\ names = SumOver(Positive(high_bid)) + SumOver(refunds) + proceeds
    /\ \A b \in Bidders :
        /\ Paid(b) >= 0
        /\ Paid(b) > 0 <=> \E n \in Names : owner[n] = b \/ (high_bidder[n] = b /\ high_bid[n] < 0)

\* A closed auction is over: its row changes only when its winner claims the name, and no bid,
\* close or refund reopens it.  A name is created once, by the winner of its closed auction or by
\* the system account, which newaccount asks for no auction: eosio may take the name from a
\* winner that has paid, and nobody else can.
ClosedIsFinal ==
    [][\A n \in Names :
          /\ high_bid[n] < 0 =>
                \/ high_bid'[n] = high_bid[n] /\ high_bidder'[n] = high_bidder[n]
                \/ owner[n] = Nobody /\ owner'[n] = high_bidder[n]
          /\ owner'[n] # owner[n] =>
                /\ owner[n] = Nobody
                /\ owner'[n] = System \/ (owner'[n] = high_bidder[n] /\ high_bid[n] < 0)]_bidVars

\* Every auction comes to its end, behind however many better ones: blocks close the best one
\* once a day and bids cannot rise for ever.
AuctionsEnd == \A n \in Names : high_bid[n] > 0 ~> high_bid[n] < 0
=============================================================================
