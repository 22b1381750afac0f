------------------------------ MODULE RamMarket ------------------------------
(***************************************************************************)
(* The RAM market of eosio.system: buyram, buyrambytes and sellram         *)
(* (delegate_bandwidth.cpp), setram, setramrate and setacctram             *)
(* (eosio.system.cpp) and the Bancor conversion they use                   *)
(* (exchange_state.cpp).                                                   *)
(*                                                                         *)
(* Amounts are natural numbers: the code computes conversions in double    *)
(* precision and truncates them, the model divides exactly.  The one       *)
(* product that can overflow, in update_ram_supply, keeps its width.       *)
(***************************************************************************)
EXTENDS Sums

CONSTANTS
    Accounts,    \* accounts that own RAM or tokens
    MaxRam0,     \* max_ram_size when the contract is initialised
    Quote0,      \* supply / 1000, the tokens the market is initialised with
    Tokens0,     \* liquid tokens of each account at the start
    RamCap,      \* setram refuses sizes from here on ("unrealistic")
    Word,        \* 2^32: the modulus of the uint32_t product of new RAM
    GiftBytes,   \* ram_gift_bytes
    Rates,       \* uint16_t values of bytes_per_block
    Quants,      \* quantities passed to buyram
    ByteCounts,  \* byte counts passed to buyrambytes and sellram
    RamSizes,    \* sizes passed to setram
    MaxSlot      \* bound on the block slot

ASSUME ConstantsAssumption ==
    /\ IsFiniteSet(Accounts)
    /\ MaxRam0 \in Nat \ {0} /\ Quote0 \in Nat \ {0}
    /\ Tokens0 \in Nat
    /\ RamCap \in Nat /\ Word \in Nat \ {0} /\ GiftBytes \in Nat /\ MaxSlot \in Nat
    /\ Rates \subseteq Nat /\ Quants \subseteq Nat
    /\ ByteCounts \subseteq Nat /\ RamSizes \subseteq Nat

VARIABLES
    slot,               \* block slot of the current block
    max_ram_size,       \* _gstate.max_ram_size
    reserved,           \* _gstate.total_ram_bytes_reserved
    ram_stake,          \* _gstate.total_ram_stake
    base,               \* _rammarket base.balance: RAM for sale
    quote,              \* _rammarket quote.balance: tokens, Quote0 of them virtual
    new_ram_per_block,  \* _gstate2.new_ram_per_block
    last_ram_increase,  \* _gstate2.last_ram_increase, as a slot
    ram_bytes,          \* userres: RAM quota of an account
    has_row,            \* userres: the accounts that have a row
    ram_managed,        \* voters.flags1: the accounts with ram_managed set
    ram_limit,          \* the RAM limit the chain enforces
    balance,            \* liquid tokens of an account
    ram_balance,        \* tokens of eosio.ram
    fees,               \* tokens of eosio.ramfee and what it sent on to REX
    due                 \* history: RAM due at the rates in force, slot by slot

market  == <<max_ram_size, reserved, ram_stake, base, quote>>
supply  == <<new_ram_per_block, last_ram_increase>>
quotas  == <<ram_bytes, has_row, ram_managed, ram_limit>>
tokens  == <<balance, ram_balance, fees>>
vars    == <<slot, market, supply, quotas, tokens, due>>

-----------------------------------------------------------------------------
\* get_bancor_output: the outcome is truncated, never rounded up.
BancorOutputRoundedUp(inp_reserve, out_reserve, inp) ==  \* mutant
    (inp * out_reserve) \div (inp_reserve + inp) + 1
BancorOutput(inp_reserve, out_reserve, inp) ==
    (inp * out_reserve) \div (inp_reserve + inp)

\* get_bancor_input: the cost of `out` bytes, for out < out_reserve.
BancorInput(out_reserve, inp_reserve, out) ==
    (inp_reserve * out) \div (out_reserve - out)

\* .5% fee, rounded up.
Fee(amount) == (amount + 199) \div 200

\* uint32_t slot difference times uint16_t rate, a uint32_t.
NewRam == ((slot - last_ram_increase) * new_ram_per_block) % Word

\* update_ram_supply: the RAM added since the last call, nothing if this
\* block has seen a call already.
RamIncrease == IF slot <= last_ram_increase THEN 0 ELSE NewRam

\* mutant: the time of the increase is not recorded.
LastIncreaseKept == last_ram_increase

LastIncrease == IF slot <= last_ram_increase THEN last_ram_increase ELSE slot

Init ==
    /\ slot = 0
    /\ max_ram_size = MaxRam0
    /\ reserved = 0 /\ ram_stake = 0
    /\ base = MaxRam0 - reserved
    /\ quote = Quote0
    /\ new_ram_per_block = 0 /\ last_ram_increase = 0
    /\ ram_bytes = [a \in Accounts |-> 0]
    /\ has_row = {}
    /\ ram_managed = {}
    /\ ram_limit = [a \in Accounts |-> GiftBytes]
    /\ balance = [a \in Accounts |-> Tokens0]
    /\ ram_balance = 0 /\ fees = 0
    /\ due = 0

\* mutant: setacctram's bytes win over the quota that was just bought or sold
\* for accounts that are not managed too.
LimitUntouched(account, bytes) == ram_limit

\* The chain's limit follows the quota unless the RAM of account is managed.
LimitAfter(account, bytes) ==
    IF account \in ram_managed THEN ram_limit
    ELSE [ram_limit EXCEPT ![account] = bytes + GiftBytes]

\* The row of account in userres after a purchase: created or increased.
QuotaCredited(account, bytes) ==
    [ram_bytes EXCEPT ![account] =
        IF account \in has_row THEN @ + bytes ELSE bytes]

-----------------------------------------------------------------------------
\* buyram: the payer pays quant, of which the fee goes to eosio.ramfee (and
\* from there to REX) and the rest into the market.  A transfer of 0 tokens
\* fails, hence quant > fee.
BuyRam(payer, receiver, quant) ==
    LET fee       == Fee(quant)
        after_fee == quant - fee
        base0     == base + RamIncrease
        bytes_out == BancorOutput(quote, base0, after_fee)
    IN
    /\ quant > 0
    /\ after_fee > 0
    /\ quant <= balance[payer]
    /\ bytes_out > 0
    /\ max_ram_size' = max_ram_size + RamIncrease
    /\ last_ram_increase' = LastIncrease
    /\ base' = base0 - bytes_out
    /\ quote' = quote + after_fee
    /\ reserved' = reserved + bytes_out
    /\ ram_stake' = ram_stake + after_fee
    /\ ram_bytes' = QuotaCredited(receiver, bytes_out)
    /\ has_row' = has_row \cup {receiver}
    /\ ram_limit' = LimitAfter(receiver, ram_bytes'[receiver])
    /\ balance' = [balance EXCEPT ![payer] = @ - quant]
    /\ ram_balance' = ram_balance + after_fee
    /\ fees' = fees + fee
    /\ UNCHANGED <<slot, new_ram_per_block, ram_managed, due>>

\* The price buyrambytes pays: the cost in the market as it was before
\* update_ram_supply, divided by 0.995 to make up for the fee.
PriceOf(bytes) == (BancorInput(base, quote, bytes) * 200) \div 199

\* buyrambytes: asking for all the RAM there is divides by zero, asking for
\* more yields a price of 0 that buyram refuses.
BuyRamBytes(payer, receiver, bytes) ==
    /\ bytes < base
    /\ BuyRam(payer, receiver, PriceOf(bytes))

\* Only bytes of the account's own quota can be sold.
HasQuota(account, bytes) == account \in has_row /\ ram_bytes[account] >= bytes

\* sellram: the proceeds come from eosio.ram, the seller pays the fee.
SellRam(account, bytes) ==
    LET base0      == base + RamIncrease
        tokens_out == BancorOutput(base0, quote, bytes)
        fee        == Fee(tokens_out)
    IN
    /\ bytes > 0
    /\ HasQuota(account, bytes)
    /\ tokens_out > 1
    /\ ram_stake - tokens_out >= 0
    /\ tokens_out <= ram_balance
    /\ max_ram_size' = max_ram_size + RamIncrease
    /\ last_ram_increase' = LastIncrease
    /\ base' = base0 + bytes
    /\ quote' = quote - tokens_out
    /\ reserved' = reserved - bytes
    /\ ram_stake' = ram_stake - tokens_out
    /\ ram_bytes' = [ram_bytes EXCEPT ![account] = @ - bytes]
    /\ ram_limit' = LimitAfter(account, ram_bytes'[account])
    /\ balance' = [balance EXCEPT ![account] = @ + tokens_out - fee]
    /\ ram_balance' = ram_balance - tokens_out
    /\ fees' = fees + fee
    /\ UNCHANGED <<slot, new_ram_per_block, ram_managed, has_row, due>>

\* mutant: the RAM added is not put up for sale.
SetRamOffMarket(size) ==
    /\ max_ram_size < size /\ size < RamCap /\ size > reserved
    /\ max_ram_size' = size
    /\ due' = due + (size - max_ram_size)
    /\ UNCHANGED <<slot, base, reserved, ram_stake, quote, supply, quotas, tokens>>

\* setram: RAM may only be increased; the increase is put up for sale.
SetRam(size) ==
    /\ max_ram_size < size
    /\ size < RamCap
    /\ size > reserved
    /\ base' = base + (size - max_ram_size)
    /\ max_ram_size' = size
    /\ due' = due + (size - max_ram_size)
    /\ UNCHANGED <<slot, reserved, ram_stake, quote, supply, quotas, tokens>>

\* setramrate: RAM is allocated at the old rate up to the present block.
SetRamRate(rate) ==
    /\ max_ram_size' = max_ram_size + RamIncrease
    /\ base' = base + RamIncrease
    /\ last_ram_increase' = LastIncrease
    /\ new_ram_per_block' = rate
    /\ UNCHANGED <<slot, reserved, ram_stake, quote, quotas, tokens, due>>

\* setacctram with a number of bytes: the limit is managed from now on.
SetAcctRam(account, bytes) ==
    /\ ram_managed' = ram_managed \cup {account}
    /\ ram_limit' = [ram_limit EXCEPT ![account] = bytes]
    /\ UNCHANGED <<slot, market, supply, ram_bytes, has_row, tokens, due>>

\* setacctram without: the limit is the account's quota again.
UnsetAcctRam(account) ==
    /\ account \in ram_managed
    /\ ram_managed' = ram_managed \ {account}
    /\ ram_limit' = [ram_limit EXCEPT ![account] =
           GiftBytes + (IF account \in has_row THEN ram_bytes[account] ELSE 0)]
    /\ UNCHANGED <<slot, market, supply, ram_bytes, has_row, tokens, due>>

NextBlock ==
    /\ slot < MaxSlot
    /\ slot' = slot + 1
    /\ due' = due + new_ram_per_block
    /\ UNCHANGED <<market, supply, quotas, tokens>>

Next ==
    \/ \E payer, receiver \in Accounts :
         \/ \E q \in Quants : BuyRam(payer, receiver, q)
         \/ \E n \in ByteCounts : BuyRamBytes(payer, receiver, n)
    \/ \E a \in Accounts, n \in ByteCounts : SellRam(a, n)
    \/ \E size \in RamSizes : SetRam(size)
    \/ \E r \in Rates : SetRamRate(r)
    \/ \E a \in Accounts, n \in ByteCounts : SetAcctRam(a, n)
    \/ \E a \in Accounts : UnsetAcctRam(a)
    \/ NextBlock

Spec == Init /\ [][Next]_vars

-----------------------------------------------------------------------------
\* Type of the state; balances and totals are never negative.
TypeOK ==
    /\ slot \in 0..MaxSlot
    /\ max_ram_size \in Nat /\ reserved \in Nat /\ ram_stake \in Nat
    /\ base \in Nat /\ quote \in Nat
    /\ new_ram_per_block \in Nat /\ last_ram_increase \in 0..slot
    /\ ram_bytes \in [Accounts -> Nat]
    /\ has_row \subseteq Accounts /\ ram_managed \subseteq Accounts
    /\ ram_limit \in [Accounts -> Nat]
    /\ balance \in [Accounts -> Nat]
    /\ ram_balance \in Nat /\ fees \in Nat /\ due \in Nat

\* The market, the global counters and eosio.ram agree: RAM for sale is what
\* is not reserved, and the tokens beyond the virtual Quote0 are those that
\* were paid in, all of them held by eosio.ram.
MarketMatchesCounters ==
    /\ base = max_ram_size - reserved
    /\ quote = Quote0 + ram_stake
    /\ ram_balance = ram_stake

\* total_ram_bytes_reserved is the sum of the quotas: RAM is neither created
\* nor lost by trades of any accounts, in any order.
ReservedIsSumOfQuotas == reserved = SumOver(ram_bytes)

\* The market never trades at a loss: tokens times bytes for sale stay at
\* least what they were for an untouched market of today's size.
MarketNeverLoses == quote * base >= Quote0 * max_ram_size

\* Whatever bytes are reserved can be sold back: the proceeds never exceed
\* what was paid in, so that neither the check that "shouldn't happen"
\* (total_ram_stake >= 0) nor the transfer from eosio.ram can fail a sale.
SellersCanBePaid ==
    \A n \in 1..reserved :
        BancorOutput(base + RamIncrease, quote, n) <= ram_stake

\* Buying RAM and selling it back at once never returns more than was paid
\* for it, so that no sequence of trades drains the market by rounding.
RoundTripNeverProfits ==
    \A q \in Quants : q > 0 =>
        LET n == BancorOutput(quote, base, q)
        IN  n > 0 => BancorOutput(base - n, quote + q, n) <= q

\* The bytes reserved are the accounts' quotas, and the limit the chain
\* enforces is the quota plus the gift for every account that bought RAM and
\* whose RAM is not managed, whatever setacctram calls came between trades.
QuotasAreHonoured ==
    /\ ReservedIsSumOfQuotas
    /\ \A a \in has_row \ ram_managed : ram_limit[a] = ram_bytes[a] + GiftBytes

\* The supply grows by no more than is due: whatever rate changes, trades and setram calls
\* follow each other, also within one block, no slot's RAM is added twice, none at a rate that
\* was not in force.  (It may grow by less: the product in update_ram_supply wraps.)
NeverMoreThanDue ==
    max_ram_size + (slot - last_ram_increase) * new_ram_per_block <= MaxRam0 + due
=============================================================================
