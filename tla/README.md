# Verification of the Telos system contracts

This directory holds a TLA+ development of the contracts under `src/contracts`:
modules that model the contracts, TLC configurations that check them on small
instances, and TLAPS proofs of the facts that matter for every instance.
`PROJECT.json` maps every definition to the lines it models and lists the runs,
the hazards, the findings and the theorems.

    tlc -workers 2 -config MCKick.cfg MCKick     # a run: the configuration, then its module
    tlapm MarketProofs.tla                       # the proofs of a module

## The system

All contracts run as atomic actions on one chain: a failed check reverts the
whole action, inline token transfers included, so an action that fails is a step
that does not happen.  What makes the code hard is not threads but the *order* of
actions of different accounts, the clock (block slots of half a second, seconds,
hours, days), transactions deferred to a later block, totals kept beside the
tables they summarise, and integer widths.

| component | state | operations | hard behaviours | what makes it correct |
|---|---|---|---|---|
| eosio.msig | proposals, approvals, old approvals, invalidations | propose, approve, unapprove, cancel, exec, invalidate | approvals counted long after they were given, levels listed twice, reuse of names, delays, rows of older versions | nothing is executed without consent that is current |
| RAM market | market row, global counters, userres.ram_bytes, limits | buyram, buyrambytes, sellram, setram, setramrate, setacctram | truncation, a supply that grows with time in a 32-bit product, five places that record one trade | the records agree, every reserved byte can be sold back |
| staking | delband, userres, refunds, voters.staked | delegatebw, undelegatebw, refund | refunds netted against new stake, a deferred refund racing a manual one, stake given to others | eosio.stake can pay, the totals are sums, no early refund |
| voting | voters, producers.total_votes, the global weight, votes from the EVM | voteproducer, voteupdate, regproxy, getevmvote, and every change of stake | totals changed by differences with remembered weights, while stake, REX, decay, boost and lists change | the totals are what the voters' rows add up to |
| election and rotation | schedule, rotation record | onblock: update_elected_producers, check_rotation_state | a pair of names remembered for twelve hours while the ranking changes, schedules accepted, refused and activated later | one place is exchanged at most, among candidates; everybody takes turns |
| missed blocks and kicks | schedule metrics, missed blocks | onblock: check_missed_blocks, kicks; regproducer, unregprod, votebpout | schedules activated in the middle of a turn, an unsigned count that wraps | only missed blocks are charged, kicks are limited |
| producer pay | bucket, payments, unpaid blocks | onblock, claimrewards_snapshot, claimrewards | two passes over an index with ties, rounding, a changing set of producers | eosio.bpay is accounted for, the split stays within the bucket |
| REX return pool | pool row, return buckets | update_rex_pool, add_to_rex_return_pool | nothing runs at the end of a bucket, late updates catch up | every fee is added once and in time |
| REX | pool, funds, balances, loans, orders | the 19 actions of rex.cpp, and the fees and votes that reach it | loans and orders of everybody processed a few at a time by whoever comes next, orders filled long after they were queued, maturities and savings, rounding, a pool that empties | eosio.rex can pay everybody, the totals are sums, REX neither loses value nor is sold early |
| PowerUp | two markets, orders, reserve account | cfgpowerup, powerup, powerupexec | a weight that grows with time, a decaying utilization, orders returned a few at a time | what is sold is what the orders hold, nobody pays less than the curve asks |
| resource limits | userres, the chain's limits, managed flags | adjust_resources, update_resource_limits, setalimits, setacctnet, setacctcpu, buyram, sellram | three writers and three ways to fix a limit by hand, two kinds in one call, rows that come and go | limits are totals wherever nobody manages them |
| block information | blockinfo | onblock, get_latest_block_batch_info | gaps left by blocks whose onblock failed, at most two rows erased by a block | what other contracts are told is true |
| name bidding | bids, refunds | bidname, bidrefund, the daily close, newaccount | deferred refunds, open and closed auctions in one unsigned index | bids are backed, every auction ends, winners get their names |
| eosio.token | stats, accounts | create, issue, retire, transfer, open, close | rows keyed by the code that also carry a precision | supply equals balances |
| authority limits | limitauthchg table | limitauthchg, check_auth_change | none over time | not modelled |

How they interact: `onblock` is the one place where the election, the kicks, the
snapshot of the pay, the close of an auction and the RAM supply meet; `changebw`
(staking) calls into the votes; RAM fees, name proceeds and loan payments flow
through `channel_to_rex` into the return pool; every transfer is an action of
eosio.token.  Wrap, bios and boot keep no state; the libraries are headers of
other contracts.

## The modules

State and actions keep the names of the code where TLA+ allows it; an action of a
contract is one action of the module, with its checks as guards.  What the chain
does (blocks, time, activation of schedules, deferred transactions) is marked
external.

* **Msig** - the three tables of eosio.msig and the approvals table of older
  versions, which an upgraded chain still holds rows in.  The lists of approvals are
  vectors that may repeat a level: a row has, for each level, how often it is still
  requested and the times of the approvals it gave, in their order; approve and
  unapprove move one entry.  `GetApprovals` is the filter that counts approvals.  `consent` and `authTimes` are histories: who
  agrees to the present proposal, and when it was authorised.
* **RamMarket** - the Bancor market with exact integer division in place of
  doubles, the counters beside it, quotas and RAM limits, and
  `update_ram_supply`, whose product is taken modulo `Word`.
* **Rotation**, **Kick** - `Rotation` is update_elected_producers and
  check_rotation_state over a ranking that changes between blocks; `Kick` extends
  it with the counts of missed blocks in the same `onblock`, slot by slot.  The
  chain accepts a proposed schedule unless it equals the last one, refuses one
  with a repeated producer (which undoes the whole onblock), and activates it at
  any later moment.  `ByLocation` is any sorting by location: std::sort leaves the
  order of equal locations open.
* **Staking** - `changebw` with its four tables and the netting of refunds, and the
  deferred refund.  Times are ages that stop at the delay.
* **TimeLock** - what staking promises, without its tables: tokens are liquid,
  locked or unlocking, only the owner unlocks, and everything unlocking becomes
  liquid together, a delay after the last unlocking.  `Staking` implements it
  (`ImplementsTimeLock`, by the refinement mapping `Promise`): locked is what an
  account has delegated, unlocking its refund row, waited the time since it last
  unstaked.
* **Voting** - `update_votes` as an operator on the voters, the totals and the
  weight, since one action may change rows of several voters; every action of the
  contract that calls it.  The weight of a vote is the stake times a factor for
  the length of the list times the decay.  `VotingAssumption`: the factor is zero
  only for an empty list and a decay is never zero.  Proxies left by older versions
  may be producers and vote for themselves.  `amiss` is a history: the producers
  given votes nobody cast or deprived of some, by the two defects under Findings.  The
  module ends (`Counted`) where the global weight is negative and the next onblock
  would count all votes anew.
* **RexReturns**, **Rex** - `RexReturns` is the return pool with its cached rate
  and oldest bucket; `Rex` extends it with the rest of rex.cpp.  An action works on
  a record of all tables (`Tables`), function by function as in the code, and
  writes it back in one step (`Commit`), together with the return pool; `runrex` is
  the composition of its five parts.  `bought`, `writtenOff` and `strays` are
  histories: the REX too young to be sold, the lendable tokens a purchase into an
  emptied pool has written over, and the stake left in rows closed without REX (see
  Findings).  `Maximum` is time_point_sec::maximum(), a time no run reaches.
* **Resources**, **PowerUp** - `Resources` is userres, the limits of the chain and
  the managed flags, with the operators that staking, REX and PowerUp write them
  with; `PowerUp` extends it with the market, so that loans, fixed limits and orders
  meet on the same accounts.  Rows of userres are created by the first weight or RAM and
  erased with the last weight when there is no RAM; an account begins with the row of
  newaccount or, if it is older than the contract (`Natives`), without one and without
  limits.  `bare` is a history: rows that buyram created and whose weight has not
  changed since.  `orders` is the table by id; the orders due are the
  first in the index byexpires, and what they return to an account adds up.  `paid`
  and `current` of an order are histories.
* **BlockInfo**, **ProducerPay** - `BlockInfo` is the table of recent blocks;
  `ProducerPay` extends it with the block counts, the snapshot with its two passes
  over the index `prototalvote`, and the claims.  `Rank` is the place in the index:
  the counting pass stops at the first inactive rank, the paying pass skips inactive
  ones, and a payment depends on the rank alone.  They are composed in `onblock`: a
  snapshot that traps undoes the whole of it, and so leaves a gap in blockinfo.
* **NameBid** - bids, refunds, the daily close and the claim of the name.
* **Token** - eosio.token, with a symbol as a code and a precision.
* **Sums**, **SumTheorems** - the sum of a table (`SumOver`) or of part of one
  (`SumOf`), defined as the number of units it holds, and the lemmas on it, on
  products and quotients, and the induction principles.
* **MarketProofs** (RamMarket and NameBid), **StakeProofs** (Staking and Voting),
  **ScheduleProofs** (Rotation and Kick), **PayProofs** (ProducerPay and BlockInfo),
  **PowerUpProofs** (PowerUp and Resources), **RexProofs** (Rex and RexReturns),
  **ContractProofs** (Msig and Token) - the theorems.
* The **MC** modules give the constants their values; `MCContracts` holds an instance of
  Msig and one of Token, which share no state and of which one acts while the other rests.

## What the runs show

| run | what it asks | bounds |
|---|---|---|
| `contracts` | eosio.msig: can anything be executed without the present consent of enough levels to this very transaction, or before its delay? Can a level be counted that took all its approvals back by unapprove, whose actor invalidated them, or that approved an earlier proposal of the name, also within one block? eosio.token: is the supply the sum of the balances, within the maximum, and do rows keep the precision of their token? | one name, three levels of two actors, one of them listed twice, three transactions (no delay, a delay, context-free actions), two authority requirements, three half-second slots, so that a delay of a second passes and an invalidation can share a block with an approval; two codes, two accounts, two precisions, three amounts |
| `ram_market` | Do the five records of a trade agree in every order of trades, supply increases and rate changes? Can every reserved byte be sold back, and does no slot add its RAM twice? | two accounts; amounts on both sides of the rounding; a word of 4 so that the product wraps within two slots |
| `staking` | Do eosio.stake, the delegations, the totals, the refunds and the voting stake agree, does every refund wait, and is every step one of the time lock? | two accounts with two tokens each, a delay of two ticks: enough for two overlapping requests, netting with a remainder, and stake given away |
| `voting` | Are total_votes and the global weight what the rows of the voters add up to, whatever changes between two votes? Does a vote ever count with stake that is gone? | two producers that vote, for themselves too and with a boost; one owns REX, the other is a proxy left by an older version; two decays, of which the smaller comes first, a word of 2; two changes from outside; totals that are amiss by at most 2 |
| `evm_votes` | (violation, see Findings) | two producers, up to two votes on the EVM, a word of 8 |
| `rotation` | Is a standby scheduled only while it is a candidate, is at most one place exchanged, when does the chain refuse a schedule, and does everybody take turns? | two places and up to two standbys, so that the turn of the standbys moves on and wraps while their number changes; four producers of which one keeps a place, another may pass it, and all but it come, go and pass each other (21 rankings); a rotation every three slots.  `OnlyFewAbort` and `OneSwapAtMost` are proved for every ranking |
| `kick` | Is a producer charged only for blocks it missed, up to a cut turn per change of schedule; do the metrics follow the accepted schedule; are kicks limited? | three producers, two places, turns of two blocks, one missed slot and one change of registration at any moment |
| `producer_pay` | Is eosio.bpay the bucket plus the payments, are the unpaid blocks their sum, does the formula for the shares match the ranks up to 35, does a split stay within the bucket, and is the block information true? | three producers, two paid, six blocks with several snapshots, every initial state of votes and registrations; a window of two blocks of which one is erased at a time, so that failed blocks leave gaps and rows beyond the window |
| `pay_overdrawn` | (violation, see Findings) | as above, one snapshot |
| `rex` | Is every token of eosio.rex somebody's, exactly once? Are the totals of the pool, of the accounts and of the votes what the rows add up to? Is an open order always covered, does it wait for at most one loan period, is young REX held back, does REX keep its value, and is each fee returned in full and in time? | two accounts, one of which rents; a pool that does not exist, has one owner or two; sales that divide evenly and sales that round; four actions and time for a loan, a maturity and several buckets to pass between any two; one loan and one order processed at a time (the code: two), so that queues remain |
| `powerup` | Is the utilization the weight of the open orders, can every expired order be returned, do the limits follow the totals, and have the open orders paid at least the price curve? | two accounts and the reserve, of which one account begins with a row and one buys and sells RAM; a market that triples in two days and may shrink again by configuration; five actions over four days; one order returned at a time (the code: two) |
| `name_bid` | Can eosio.names always pay, does nobody lose a bid, is a closed auction final, and does every auction end? | two bidders, two names, five amounts around the 10% step, a day of one tick |

Every bound is a named constant.  The properties relate tables that at most two
or three accounts write in one action, and every branch of the actions is taken
within the bounds; each property is violated by a mutated definition (listed
under `mutants`) within the same bounds, which shows that they are large enough
for the mistakes it is about.  `CHECK_DEADLOCK FALSE` is set only where a bound
ends all activity (`producer_pay`, `voting`, `rex`, `powerup`).

### Fairness

Only two runs check liveness.

* `Rotation`: weak fairness of `onblock` (the chain keeps producing blocks; one
  that elects or one that only waits) and of `Activate` (the chain activates a
  schedule it accepted).  Nothing is assumed of the ranking: `EveryoneTakesTurns` is about
  executions in which it becomes stable.  `MCRotation` states the fairness of the blocks
  without ENABLED, which TLC is slow to evaluate there: if from some point on a block
  always changes something, blocks go on being made.  It assumes no more than `Spec`.
* `NameBid`: weak fairness of `onblock` and of time.  Bidders, refunds and claims
  may stop at any moment.

## Findings

Two runs show the code doing something else than its comments say.

* `pay_overdrawn` (producer_pay.cpp:351).  Producers are counted up to the first
  inactive one, but paid by skipping inactive ones.  Those without votes tie in
  the index, active or not, so an inactive one may come first; the active ones
  behind it are paid without being counted, and the bucket goes below zero.
* `evm_votes` (eosio.system.cpp:741).  getevmvote is to "apply the EVM votes of the BP",
  but the difference of two `uint64_t` is taken before the conversion to double, so a
  *decrease* of the votes on the EVM adds almost 2^64 votes, and the clamps at zero below
  it never act.  Votes that fall from 1 to 0 are enough.

Seen while modelling, without a run of their own:

* check_rotation_state (system_rotation.cpp:142) skips the check that ends a
  rotation whose pair is out of place when there are 21 candidates or fewer.  If
  both of the pair are among them, the standby is put in twice and a top producer
  left out; the chain refuses such a schedule and with it `onblock`, until the
  candidates change or the next rotation is due (up to twelve hours).  The comment in
  tests/telos.system_tests.cpp:84 says "21 => no rotation".  `OnlyFewAbort` states
  that there is no other case.  An earlier form of it, which allowed exactly
  TOP_PRODUCERS candidates only, holds with two places and was shown false by the
  proof attempt: with three, the candidates can drop to two, the pair itself, while
  the chain ignores proposals and the last schedule is still that small.
* update_utilization (powerup.cpp:13) promises utilization <= adjusted_utilization,
  which calc_powerup_fee has as a precondition (powerup.cpp:258), but it returns
  early within the second of the last update, when a purchase has just raised the
  utilization.  The fee still follows the curve (`OrdersPaidTheCurve`).
* An account with no limit (-1, set by setalimits) that is given an order or a loan
  has a row in userres from then on, and when that ends its limits are 0, not -1
  (powerup.cpp:59).
* buyram (delegate_bandwidth.cpp:84) creates the row of an account without one, with
  no NET and CPU weight, and leaves its NET and CPU limits as they are: limits fixed by
  setalimits, or none at all, then stand beside a row that says zero, and setalimits is
  refused from then on.  The first weight that comes or goes ends this.
  `LimitsFollowTotals` says that no other row has limits of its own.
* A level that the proposer listed twice (eosio.msig.cpp:86 takes the list as it is) may
  approve twice, and unapprove takes back one approval only (eosio.msig.cpp:149-154): the
  level still counts, although eosio.msig.hpp:58-60 says that unapprove erases it from the
  provided approvals.  `CountedApprovalsAreCurrent` and `ExecutionIsConsented` therefore
  ask for a level that holds an approval it has not taken back.
* The delay of a proposal (eosio.msig.cpp:130) starts when it is first authorised and only
  unapprove stops it.  An invalidation or a change of authority that withdraws the
  authorisation leaves it running, so that a proposal authorised anew may be executed at
  once.
* newaccount by eosio asks for no auction (eosio.system.cpp:485): the system account
  can create a name whose auction somebody else has won and paid for, whose row then
  stays.  `ClosedIsFinal` says that nobody else can.
* While the limits of eosio.reserv are managed, powerup, powerupexec and cfgpowerup
  fail for everybody (powerup.cpp:54).
* cfgpowerup (powerup.cpp:147) assigns through optionals that are not engaged, which
  the language does not define; with the library used the value is read back, and
  that is what `Filled` models.
* add_to_rex_pool (rex.cpp:1050): the first purchase after all REX was sold writes
  over what is lendable, returns added in between included; those tokens stay with
  eosio.rex and belong to nobody (`writtenOff`).
* closerex (rex.cpp:355) erases a balance without REX together with its vote_stake.
  A first payment too small to buy any REX leaves such a row, and the stake counted
  for it then stays in the owner's votes; `RexStakeIsVoted` counts it in `strays`.
* runrex (rex.cpp:556) clears namebid_proceeds also when channel_to_rex did nothing
  because there is no REX: the proceeds then stay with eosio.names.
* buyrex (rex.cpp:50) sets the price before runrex adds the returns that are due, so
  a buyer shares in returns of the time before; the other owners still do not lose
  (`ValueNeverFalls`).  A small purchase at a high price receives no REX at all.
* propagate_weight_change (voting.cpp:608) ignores the boost of a proxy that votes
  for itself, and the next vote takes the boost of the new weight back.  The total of
  that producer is then wrong; when more is taken than it has, its total is clamped at
  zero but the global weight is not, and once that is negative recalculate_votes counts
  everything anew.  Only proxies registered before regproxy was closed can be
  affected.  They are part of the module (`amiss`), and `VotesAreTallied` says that
  together with a loss of votes on the EVM this is the only way a total goes wrong.
* changebw (delegate_bandwidth.cpp:336) cancels the deferred refund of an account on
  every delegation to somebody else, and on stake received with transfer, and schedules no
  other; the documentation of undelegatebw (eosio.system.hpp:1322) promises a
  deferred transaction.  The request can still be claimed with `refund`.
* exec does not ask for the *requested* approvals, only for enough to satisfy the
  transaction's authority (eosio.msig.hpp:86 describes the requested ones).
* update_ram_supply (eosio.system.cpp:138): after a long quiet period the 32-bit
  product wraps and less RAM than due is added; never more (`NeverMoreThanDue`).
* buyrambytes may deliver a different number of bytes than asked for, since the
  price is computed before the fee and the supply update are applied.
* With `Slack = 0` the run `kick` finds a producer charged for a block it made,
  when a schedule is activated in the middle of its turn (system_kick.cpp:102).

## What is proved

The proofs are in the seven modules named above and in SumTheorems.  They need only
the assumptions named in the modules they extend (finite sets of accounts, natural
amounts, positive periods, values for "no row" that are no rows), which TLC evaluates
on every run.  Of the 40 properties the passing runs check, 36 are stated by a theorem.

| theorem | statement |
|---|---|
| ContractProofs!TypeCorrect | rows of the three tables are whole or absent |
| ContractProofs!ApprovalsAreCurrent | no level is counted whose approvals were all withdrawn, invalidated or given to an earlier proposal, however often it was listed |
| ContractProofs!ExecConsent | exec acts on current consent to the very transaction, and not before its delay since an authorisation later than any unapprove that withdrew one |
| MarketProofs!TypeCorrect | no balance, counter or reserve is negative |
| MarketProofs!CountersAgree | market, counters, eosio.ram and the quotas agree |
| MarketProofs!QuotasHonoured | the reserved bytes are the quotas, and the limits follow them |
| MarketProofs!SellersArePaid | any reserved bytes can be sold: the check that "shouldn't happen" does not |
| MarketProofs!NoRoundTripProfit | buying and selling back never pays |
| MarketProofs!NoExtraRam | the supply never outgrows the rates in force |
| StakeProofs!StakingTypeCorrect | no table goes below zero |
| StakeProofs!StakeBacked | eosio.stake holds all delegations and refunds |
| StakeProofs!VotingStake, TotalsAgree | voting stake and totals are row and column sums of the delegations |
| StakeProofs!NoEarlyRefund | no refund before its delay |
| StakeProofs!StakingIsTimeLock | every step of staking is a step of TimeLock or one it does not see |
| StakeProofs!TypeCorrect | no stake and no weight of a voter is negative, self-voting proxies included, until recalculate_votes is due |
| StakeProofs!VotesTallied | the totals kept by differences are what the rows of the voters add up to, but for the two kinds of producers that go amiss |
| StakeProofs!VotesFollow | a vote counts with the stake its voter has now |
| PayProofs!TypeCorrect | no payment, count of blocks or balance of eosio.bpay is negative |
| PayProofs!BpayAccounted | eosio.bpay is the bucket and the payments; the unpaid blocks are their sum |
| PayProofs!FormulaAddsUp | the closed formula for the shares grows by the multiplier of each rank |
| PayProofs!SnapshotWithinBucket | a snapshot stays within the bucket while everybody who left has votes |
| PayProofs!BatchesTrue | the block information given to other contracts is true |
| PowerUpProofs!TypeCorrect | no weight, utilization, fee or row of userres is negative |
| PowerUpProofs!MarketAccounted | what is sold is what the orders hold; every row is what was lent, bought or is for sale |
| PowerUpProofs!QueueNeverBlocked | the return of expired orders never fails for want of weight |
| PowerUpProofs!LimitsFollow | the limits are the totals wherever nobody manages them, but for rows created by buyram until their weight changes |
| PowerUpProofs!PaidTheCurve | the open orders have paid what the price curve asks for all of them |
| MarketProofs!BidTypeCorrect | no balance, bid, refund or proceeds is negative |
| MarketProofs!NoBidLost | eosio.names holds bids, refunds and proceeds; only winners have paid |
| MarketProofs!ClosedStaysClosed | no bid reopens a closed auction, and a name goes to its winner or to eosio |
| ScheduleProofs!RotationTypeCorrect | the rotation record and the schedules keep their types; Rotate reads within the candidates |
| ScheduleProofs!RotationAborts | the chain refuses an onblock only between rotations, with few candidates and the pair among them |
| ScheduleProofs!RotationSwaps | a proposed schedule is the top of the ranking but for the one exchange on record |
| ScheduleProofs!KickTypeCorrect | producers in the index are active; counts stay within uint32_t |
| ScheduleProofs!KickMetrics | the metrics list the producers of the last accepted schedule, in its order |
| ScheduleProofs!KickCharges | no cycle charges more than one turn, wrapped counts included |
| ScheduleProofs!KickBounded | one onblock kicks a share of the schedule at most, and only those with misses |
| RexProofs!RexTypeCorrect | no balance, share, weight or loan is negative |
| RexProofs!RexBacking | every token of eosio.rex is somebody's, exactly once |
| RexProofs!RexPoolAgrees | the totals of the pool and of the resources are those of the rows |
| RexProofs!RexOrdersCovered | an open order is always covered by matured REX |
| RexProofs!RexYoungHeld | no REX becomes sellable before its maturity |
| RexProofs!RexStakeVoted | an account votes with its delegations and the counted value of its REX |
| RexProofs!ReturnsOwed, ReturnsPaidInFull | each fee is in the return pool once, and is added in full when its time is over |
| RexProofs!RexValue | no action makes REX worth less |
| ContractProofs!TokenTypeCorrect, SupplyHeld, RowsMatch | the three properties of the token |

Each part has an inductive invariant (`IInv`; `TokenInv`, `AuctionInv`, `StakingInv`, `KickInv` and
`RexInv` where a module holds two parts or extends another).  Its module proves that the initial states
satisfy it and that each action keeps it (one step per action), and derives the
theorems from it.

* **Msig.** That a counted approval is current is not inductive: `invalidate`
  compares times, so `IInv` adds, for each proposal, that no approval is
  dated after now and so none survives an invalidation, that a level has in its row as many
  approvals as it gave and did not take back, that consent is to the transaction the proposal
  holds, and that a delay that runs was started when the transaction was authorised.
* **RamMarket.** That sellers can be paid is not inductive.  The invariant `IInv`
  adds `MarketNeverLoses`: quote times base is at least Quote0 times the size of
  the market.  A conversion that truncates keeps the product
  (`ConversionKeepsProduct`), a larger supply raises base and size together; with
  the agreement of the counters, selling *n* reserved bytes then returns at most
  what was paid in.  A row for every account with a quota completes the invariant,
  and gives the limits.
* **Staking.** `StakingInv` is the type invariant, the three agreements, `RequestsAreReal`
  (an account without a request has nothing on its way back) and that the age
  of a request is the time since the last unstaking, from which `RefundsWait`
  follows for each step.  The same row sums give the refinement mapping: what an
  account has delegated changes by what the action locks, unlocks or relocks, and
  netting against a refund is an abstract step in which both change at once.
* **Voting.** The code changes the totals by differences with a remembered weight.
  `IInv` says of every row that a voter that uses a proxy, or is none, was last counted
  with the stake it has now and a proxy with no more than that, that what a proxy
  carries is what its voters were counted with, and that the totals are what the
  remembered weights and the votes from the EVM add up to.  An action works on a
  copy of the tables in which one row, the one being changed, need not be up to
  date (`Good(t, v)`); the lemmas on leaving the old list, joining the new one and
  propagating to a proxy carry that from call to call, up to three rows in one
  action.  The totals are tallied for the producers that are not `amiss` only; that
  none of these is ever clamped, or its total negative, follows from the sums.
* **ProducerPay, BlockInfo.** `IInv` adds to the accounts that nobody without a row
  is owed anything and that no more blocks are counted than the chain has.  The split
  stays within the bucket because the ranks are a numbering of the producers: while
  those who left rank behind, the paid ones occupy the ranks counted, and an
  induction on the rank bounds their payments by the formula.  For the block
  table, its rows are part of the history, no more than the window, and miss no recorded
  block of the window of the last one.
* **NameBid.** `AuctionInv` adds that a row with a bidder has a bid.  What somebody has paid,
  and not got back, is then exactly what the open bid, the refunds and the won
  auctions in its name say.
* **PowerUp, Resources.** That all current orders together have paid the curve is not
  inductive: they are returned one by one, and what remains has to have paid too.
  `IInv` says it of *every* set of current orders.  A new order pays for the stretch of
  the curve from the utilization on, whether `adjusted_utilization` is up to date or
  not (`FeeIsEnough`); a stretch costs no less higher up (`CurveRises`), so that any
  set is covered with it (`CurveExtends`); and what was enough for a market is enough
  for a larger one (`LargerMarket`).  Markets only grow between two configurations,
  since the ratio of a configured market never rises (`RatioFalls`), which is why
  `IInv` also says how weight and ratio hang together.  The limits need that weight and
  RAM are held in rows that exist (`Standing`), so that setalimits meets no weight,
  through each of several adjustments in one action.  The fee is exact here; the doubles of the code are not.
* **Rotation.** The type invariant is inductive and is enough: what a block elects
  depends on the ranking of that block and on a record whose indices are in range.
  A ranking is a sequence without repetitions (`Ranked`), and stays one when producers
  leave it (`WithoutIs`), come in or pass each other.  `SortedIs` shows that a sorting
  by location exists, so that `ByLocation` is one, and that any sorting keeps the
  producers and their repetitions.  A schedule then repeats a producer only if
  the standby is put in while it already is among the places, which `CheckedIs`
  excludes above TOP_PRODUCERS candidates (`AbortsOnly`, `ElectsCandidates`).
* **Kick.** `KickInv` adds to the types and to `MetricsFollowSchedule` that accepted
  schedules fit and are not empty, that the turn is one of the active schedule, and
  `CountsFit`: a count above a turn, one from which more blocks of eosio were taken
  than a turn has, exists only while the correction is positive and the last caller
  is not eosio, and then the next block under the activated schedule resets all
  counts before it charges any (`OutcomeIs`).  The charge is therefore made of counts
  of at most a turn.
* **RexReturns.** `ReturnsInv` says that times of buckets and of the last distribution
  are multiples of their intervals, that the pending bucket is no older than the
  last fee allows, and that what is owed is the sum over the buckets of the rate times the
  intervals left.  Late updates are then linear: adding the rate for every interval
  and taking back the surplus of expired buckets leaves the same sum.
* **Rex.** An action is a composition of functions on the record of all tables, so
  the invariant is stated of such a record: `Good(t, x, d)`, with *x* the tokens of the
  return pool and *d* the changes of stake that are still to be voted with.  It
  consists of `Sound` (types, totals and backing, buckets in order, the purchases
  too young to be sold within what matures after every later moment), `Covers` (open
  orders) and `StakeOK`.  Each function has a lemma
  from `Good` to `Good`; runrex runs through the loans and orders by induction on their
  number; `RexInv` is `Good` of the tables between actions, with no debt, and
  `ReturnsInv`.  `YoungRexIsHeld` alone is not inductive, since savings push REX out
  of the buckets and back: `YoungOK` says it for every later time.  `ValueNeverFalls` follows
  from `NotCheaper`, carried along the same lemmas: every purchase and
  sale rounds in favour of the pool.
* **Token.** `TokenInv` joins the three properties: a transfer keeps the sum only
  because the row it creates held nothing.
* **Sums.** `SumOver` counts units instead of folding `+` over keys, so that the
  facts needed (the change of one entry, an entry is at most the sum) follow from
  theorems on cardinality.  Where induction is needed, on a rank or on a set, it
  is stated with a set in place of the predicate (`Counting`, `SubsetInduction`),
  from the existence of least elements (`LeastNatural`).

### Only model-checked

* `EveryoneTakesTurns` and `AuctionsEnd`: liveness under fairness is beyond the prover.
* `OrdersWaitOneLoan`: it speaks of a run of rexexec that might be made in each state
  and reaches every loan and order, and needs the order in which all of them are
  processed, where the proofs need only that each step is sound.
* That a producer's charges do not exceed the slots it left empty (the bound on
  `debt` in `OnlyMissedAreCharged`; its other half, `ChargesFitTurn`, is proved).  How many blocks
  a change of schedule may cost (`Slack`) depends on the length of a turn and on when in
  it the chain activates the schedule; the run finds it for turns of two blocks.
* `BucketNotOverdrawn` and `EvmVotesApplied` are the properties the code violates.

## What is not modelled

The payouts of TEDP belong to a contract outside the repository.  Authority limits
are one lookup in a table the account itself writes.  System parameters store or
forward their arguments.  wrap, bios and boot keep no state; the actions of
rex.results.cpp and powerup.results.cpp do nothing.

In the modelled parts: doubles are exact numbers; the price oracle's effect is an
arbitrary fill; RAM billing, memos and notifications are left out; eosio.stake does not
stake for itself.  In Voting, recalculate_votes is left out: the module ends where
it is due.  In Rex, delegations are of an account to itself, and a vote follows
the stake at once (module Voting has the votes).  In PowerUp, the price curve has
the default exponent 2, or 1 with a single price, the exponential decay is any value
its clamp allows, the payer accepts the fee, and REX takes it.  In BlockInfo, all
rows have version 0.

## What is left

The two halves named under "Only model-checked" that are not liveness: the wait of
an order, which needs an invariant on the index of the queue and on the unlent tokens
together, and a bound on `debt` as a function of the length of a turn, in place of
the constant `Slack`.
