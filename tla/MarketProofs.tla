---------------------------- MODULE MarketProofs -----------------------------
(***************************************************************************)
(* Proofs about what the system contract sells: RAM (module RamMarket) and *)
(* names (module NameBid), for any accounts, amounts, rates and names.     *)
(*                                                                         *)
(* RAM: the market's row, the global counters and the quotas agree, every  *)
(* seller can be paid, a purchase sold back returns no more than it cost,  *)
(* and the supply never grows beyond what is due.  Names: no bid is lost,  *)
(* eosio.names can pay every refund, and a closed auction stays closed.    *)
(***************************************************************************)
EXTENDS RamMarket, NameBid, SumTheorems

-----------------------------------------------------------------------------
(* Arithmetic of the Bancor conversion.                                    *)

\* A conversion pays out a natural number, no more than the reserve it pays
\* from, and the product of the two reserves does not fall.
LEMMA ConversionKeepsProduct ==
  ASSUME NEW ib \in Nat, NEW ob \in Nat, NEW inp \in Nat, ib + inp > 0
  PROVE  LET out == BancorOutput(ib, ob, inp)
         IN  /\ out \in Nat
             /\ out <= ob
             /\ (ib + inp) * (ob - out) >= ib * ob
<1> DEFINE out == BancorOutput(ib, ob, inp)
<1>1. out \in Nat /\ (ib + inp) * out <= inp * ob
  BY DivBounds, MulMono DEF BancorOutput
<1>2. (ib + inp) * ob = ib * ob + inp * ob
  BY Distrib
<1>3. (ib + inp) * out <= (ib + inp) * ob
  <2>1. ib * ob \in Nat /\ inp * ob \in Nat
    BY MulMono
  <2> HIDE DEF out
  <2> QED
    BY <1>1, <1>2, <2>1
<1>4. out <= ob
  BY <1>1, <1>3, MulCancel
<1>5. (ib + inp) * (ob - out) = (ib + inp) * ob - (ib + inp) * out
  BY <1>1, Distrib
<1>6. (ib + inp) * (ob - out) >= ib * ob
  <2> HIDE DEF out
  <2>1. ib * ob \in Nat /\ inp * ob \in Nat /\ (ib + inp) * out \in Nat
    BY <1>1, MulMono
  <2> QED
    BY <1>1, <1>2, <1>5, <2>1
<1> QED
  BY <1>1, <1>4, <1>6

-----------------------------------------------------------------------------
(* The inductive invariant.                                                *)

\* An account without a row has no quota: a purchase that creates the row
\* sets what a purchase that finds it would have added.
QuotaNeedsRow == \A a \in Accounts \ has_row : ram_bytes[a] = 0

\* What every step preserves.  MarketNeverLoses is what makes the two product properties
\* below follow; QuotaNeedsRow is needed by a purchase that creates a row.
IInv ==
    /\ TypeOK
    /\ MarketMatchesCounters
    /\ ReservedIsSumOfQuotas
    /\ MarketNeverLoses
    /\ QuotaNeedsRow

\* update_ram_supply adds a natural number of bytes and dates the increase no later than now.
LEMMA RamIncreaseType ==
  ASSUME TypeOK
  PROVE  RamIncrease \in Nat /\ LastIncrease \in 0..slot
<1>1. (slot - last_ram_increase) * new_ram_per_block \in Nat
  BY MulMono DEF TypeOK
<1>2. NewRam \in Nat
  BY <1>1, ConstantsAssumption DEF NewRam
<1> QED
  BY <1>2 DEF RamIncrease, LastIncrease, TypeOK

\* Growing the supply keeps the market from losing: it adds as many bytes to
\* the market as to max_ram_size, and the market holds at least Quote0 tokens.
LEMMA GrowthKeepsMarket ==
  ASSUME IInv, NEW d \in Nat
  PROVE  quote * (base + d) >= Quote0 * (max_ram_size + d)
<1>1. quote >= Quote0 /\ Quote0 \in Nat
  BY ConstantsAssumption DEF IInv, TypeOK, MarketMatchesCounters
<1>2. d * Quote0 <= d * quote
  BY <1>1, MulMono DEF IInv, TypeOK
<1>3. /\ quote * (base + d) = quote * base + d * quote
      /\ Quote0 * (max_ram_size + d) = Quote0 * max_ram_size + d * Quote0
  BY <1>1, Distrib DEF IInv, TypeOK
<1> QED
  BY <1>1, <1>2, <1>3, MulMono DEF IInv, TypeOK, MarketNeverLoses

\* The market as init leaves it.
LEMMA InitIInv == Init => IInv
<1> SUFFICES ASSUME Init PROVE IInv
  OBVIOUS
<1>1. TypeOK
  BY ConstantsAssumption DEF Init, TypeOK
<1>2. ReservedIsSumOfQuotas
  BY SumOfZeros DEF Init, ReservedIsSumOfQuotas
<1>3. MarketMatchesCounters /\ MarketNeverLoses /\ QuotaNeedsRow
  BY ConstantsAssumption DEF Init, MarketMatchesCounters, MarketNeverLoses, QuotaNeedsRow
<1> QED
  BY <1>1, <1>2, <1>3 DEF IInv

\* A purchase, with any quantity.
LEMMA BuyRamIInv ==
  ASSUME IInv, NEW payer \in Accounts, NEW receiver \in Accounts,
         NEW quant \in Nat, BuyRam(payer, receiver, quant)
  PROVE  IInv'
<1> DEFINE fee       == Fee(quant)
           after_fee == quant - fee
           base0     == base + RamIncrease
           bytes_out == BancorOutput(quote, base0, after_fee)
<1> USE DEF IInv
<1>1. RamIncrease \in Nat /\ LastIncrease \in 0..slot
  BY RamIncreaseType
<1>2. fee \in Nat /\ after_fee \in Nat /\ after_fee > 0 /\ quant <= balance[payer]
  BY DEF BuyRam, Fee
<1>3. quote \in Nat /\ base0 \in Nat
  BY <1>1 DEF TypeOK
<1>4. /\ bytes_out \in Nat
      /\ bytes_out <= base0
      /\ (quote + after_fee) * (base0 - bytes_out) >= quote * base0
  <2> HIDE DEF base0, after_fee
  <2> QED
    BY <1>2, <1>3, ConversionKeepsProduct
<1>5. /\ max_ram_size' = max_ram_size + RamIncrease
      /\ last_ram_increase' = LastIncrease
      /\ base' = base0 - bytes_out
      /\ quote' = quote + after_fee
      /\ reserved' = reserved + bytes_out
      /\ ram_stake' = ram_stake + after_fee
      /\ ram_bytes' = QuotaCredited(receiver, bytes_out)
      /\ has_row' = has_row \cup {receiver}
      /\ ram_limit' = LimitAfter(receiver, ram_bytes'[receiver])
      /\ balance' = [balance EXCEPT ![payer] = @ - quant]
      /\ ram_balance' = ram_balance + after_fee
      /\ fees' = fees + fee
      /\ UNCHANGED <<slot, new_ram_per_block, ram_managed, due>>
  BY DEF BuyRam
<1> HIDE DEF bytes_out, fee, after_fee
<1>6. ram_bytes' = [ram_bytes EXCEPT ![receiver] = ram_bytes[receiver] + bytes_out]
  <2>1. bytes_out = ram_bytes[receiver] + bytes_out \/ receiver \in has_row
    BY <1>4 DEF QuotaNeedsRow
  <2> QED
    BY <1>5, <2>1 DEF QuotaCredited
<1>7. TypeOK'
  <2>1. ram_bytes' \in [Accounts -> Nat]
    BY <1>4, <1>6 DEF TypeOK
  <2>2. ram_limit' \in [Accounts -> Nat]
    <3>1. ram_bytes'[receiver] + GiftBytes \in Nat /\ ram_limit \in [Accounts -> Nat]
      BY <2>1, ConstantsAssumption DEF TypeOK
    <3> QED
      BY <1>5, <3>1 DEF LimitAfter
  <2>3. balance' \in [Accounts -> Nat]
    BY <1>2, <1>5 DEF TypeOK
  <2> QED
    BY <1>1, <1>2, <1>3, <1>4, <1>5, <2>1, <2>2, <2>3 DEF TypeOK
<1>8. MarketMatchesCounters'
  BY <1>1, <1>2, <1>4, <1>5, ConstantsAssumption DEF MarketMatchesCounters, TypeOK
<1>9. ReservedIsSumOfQuotas'
  <2>1. SumOver(ram_bytes') = SumOver(ram_bytes) - ram_bytes[receiver]
                                + (ram_bytes[receiver] + bytes_out)
    <3>1. /\ IsFiniteSet(Accounts) /\ ram_bytes \in [Accounts -> Nat]
          /\ ram_bytes[receiver] + bytes_out \in Nat
      BY <1>4, ConstantsAssumption DEF TypeOK
    <3> QED
      BY <1>6, <3>1, SumUpdate
  <2> QED
    BY <1>4, <1>5, <2>1 DEF ReservedIsSumOfQuotas, TypeOK
<1>10. MarketNeverLoses'
  <2>1. quote * base0 >= Quote0 * (max_ram_size + RamIncrease)
    BY <1>1, GrowthKeepsMarket
  <2>2. Quote0 * (max_ram_size + RamIncrease) \in Nat /\ quote * base0 \in Nat
        /\ (quote + after_fee) * (base0 - bytes_out) \in Nat
    BY <1>1, <1>2, <1>3, <1>4, MulMono, ConstantsAssumption DEF TypeOK
  <2> HIDE DEF base0
  <2> QED
    BY <1>4, <1>5, <2>1, <2>2 DEF MarketNeverLoses
<1>11. QuotaNeedsRow'
  BY <1>5, <1>6 DEF QuotaNeedsRow, TypeOK
<1> QED
  BY <1>7, <1>8, <1>9, <1>10, <1>11

\* A sale.
LEMMA SellRamIInv ==
  ASSUME IInv, NEW account \in Accounts, NEW bytes \in Nat, SellRam(account, bytes)
  PROVE  IInv'
<1> DEFINE base0      == base + RamIncrease
           tokens_out == BancorOutput(base0, quote, bytes)
           fee        == Fee(tokens_out)
<1> USE DEF IInv
<1>1. RamIncrease \in Nat /\ LastIncrease \in 0..slot
  BY RamIncreaseType
<1>2. quote \in Nat /\ base0 \in Nat /\ bytes > 0 /\ ram_bytes[account] >= bytes
  BY <1>1 DEF TypeOK, SellRam, HasQuota
<1>3. /\ tokens_out \in Nat
      /\ tokens_out <= quote
      /\ (base0 + bytes) * (quote - tokens_out) >= base0 * quote
  <2> HIDE DEF base0
  <2>1. base0 + bytes > 0
    BY <1>2
  <2> QED
    BY <1>2, <2>1, ConversionKeepsProduct
<1>4. /\ ram_stake - tokens_out >= 0
      /\ tokens_out <= ram_balance
      /\ tokens_out > 1
      /\ max_ram_size' = max_ram_size + RamIncrease
      /\ last_ram_increase' = LastIncrease
      /\ base' = base0 + bytes
      /\ quote' = quote - tokens_out
      /\ reserved' = reserved - bytes
      /\ ram_stake' = ram_stake - tokens_out
      /\ ram_bytes' = [ram_bytes EXCEPT ![account] = @ - bytes]
      /\ ram_limit' = LimitAfter(account, ram_bytes'[account])
      /\ balance' = [balance EXCEPT ![account] = @ + tokens_out - fee]
      /\ ram_balance' = ram_balance - tokens_out
      /\ fees' = fees + fee
      /\ UNCHANGED <<slot, new_ram_per_block, ram_managed, has_row, due>>
  BY DEF SellRam
<1> HIDE DEF tokens_out
<1>5. fee \in Nat /\ fee <= tokens_out
  BY <1>3, <1>4 DEF Fee
<1>6. bytes <= reserved
  <2>1. IsFiniteSet(Accounts) /\ ram_bytes \in [Accounts -> Nat]
    BY ConstantsAssumption DEF TypeOK
  <2>2. ram_bytes[account] <= SumOver(ram_bytes)
    BY <2>1, SumBoundsEntry
  <2> QED
    BY <1>2, <2>1, <2>2 DEF ReservedIsSumOfQuotas, TypeOK
<1> HIDE DEF fee
<1>7. TypeOK'
  <2>1. ram_bytes' \in [Accounts -> Nat]
    <3>1. ram_bytes \in [Accounts -> Nat] /\ ram_bytes[account] - bytes \in Nat
      BY <1>2 DEF TypeOK
    <3> QED
      BY <1>4, <3>1
  <2>2. ram_limit' \in [Accounts -> Nat]
    <3>1. ram_bytes'[account] + GiftBytes \in Nat /\ ram_limit \in [Accounts -> Nat]
      BY <2>1, ConstantsAssumption DEF TypeOK
    <3> QED
      BY <1>4, <3>1 DEF LimitAfter
  <2>3. balance' \in [Accounts -> Nat]
    BY <1>3, <1>4, <1>5 DEF TypeOK
  <2> QED
    BY <1>1, <1>2, <1>3, <1>4, <1>5, <1>6, <2>1, <2>2, <2>3 DEF TypeOK
<1>8. MarketMatchesCounters'
  BY <1>1, <1>3, <1>4, ConstantsAssumption DEF MarketMatchesCounters, TypeOK
<1>9. ReservedIsSumOfQuotas'
  <2>1. /\ IsFiniteSet(Accounts) /\ ram_bytes \in [Accounts -> Nat]
        /\ ram_bytes[account] - bytes \in Nat
    BY <1>2, ConstantsAssumption DEF TypeOK
  <2>2. SumOver(ram_bytes') = SumOver(ram_bytes) - ram_bytes[account]
                                + (ram_bytes[account] - bytes)
    BY <1>4, <2>1, SumUpdate
  <2> QED
    BY <1>4, <2>1, <2>2 DEF ReservedIsSumOfQuotas, TypeOK
<1>10. MarketNeverLoses'
  <2>1. quote * base0 >= Quote0 * (max_ram_size + RamIncrease)
    BY <1>1, GrowthKeepsMarket
  <2>2. /\ Quote0 * (max_ram_size + RamIncrease) \in Nat /\ quote * base0 \in Nat
        /\ (base0 + bytes) * (quote - tokens_out) \in Nat
    BY <1>1, <1>2, <1>3, MulMono, ConstantsAssumption DEF TypeOK
  <2>3. /\ quote * base0 = base0 * quote
        /\ (base0 + bytes) * (quote - tokens_out) = (quote - tokens_out) * (base0 + bytes)
    BY <1>2, <1>3, Distrib
  <2> HIDE DEF base0
  <2> QED
    BY <1>3, <1>4, <2>1, <2>2, <2>3 DEF MarketNeverLoses
<1>11. QuotaNeedsRow'
  BY <1>4 DEF QuotaNeedsRow, TypeOK, SellRam, HasQuota
<1> QED
  BY <1>7, <1>8, <1>9, <1>10, <1>11

\* The inductive step: one case per action of Next.
LEMMA NextIInv == IInv /\ [Next]_vars => IInv'
<1> SUFFICES ASSUME IInv, [Next]_vars PROVE IInv'
  OBVIOUS
<1>1. ASSUME NEW payer \in Accounts, NEW receiver \in Accounts, NEW q \in Quants,
             BuyRam(payer, receiver, q)
      PROVE  IInv'
  BY <1>1, BuyRamIInv, ConstantsAssumption
<1>2. ASSUME NEW payer \in Accounts, NEW receiver \in Accounts, NEW n \in ByteCounts,
             BuyRamBytes(payer, receiver, n)
      PROVE  IInv'
  <2>1. n \in Nat /\ quote \in Nat /\ base \in Nat /\ n < base
    BY <1>2, ConstantsAssumption DEF IInv, TypeOK, BuyRamBytes
  <2>2. quote * n \in Nat /\ base - n \in Nat /\ base - n > 0
    BY <2>1, MulMono
  <2>3. BancorInput(base, quote, n) \in Nat
    BY <2>2, DivBounds DEF BancorInput
  <2>4. PriceOf(n) \in Nat
    BY <2>3 DEF PriceOf
  <2> QED
    BY <1>2, <2>4, BuyRamIInv DEF BuyRamBytes
<1>3. ASSUME NEW a \in Accounts, NEW n \in ByteCounts, SellRam(a, n)
      PROVE  IInv'
  BY <1>3, SellRamIInv, ConstantsAssumption
<1>4. ASSUME NEW size \in RamSizes, SetRam(size)
      PROVE  IInv'
  <2>1. size \in Nat /\ size - max_ram_size \in Nat
    BY <1>4, ConstantsAssumption DEF IInv, TypeOK, SetRam
  <2>2. quote * (base + (size - max_ram_size))
            >= Quote0 * (max_ram_size + (size - max_ram_size))
    BY <2>1, GrowthKeepsMarket
  <2>3. MarketNeverLoses'
    <3>1. max_ram_size + (size - max_ram_size) = size
      BY <2>1 DEF IInv, TypeOK
    <3> QED
      BY <1>4, <2>2, <3>1 DEF SetRam, MarketNeverLoses
  <2> QED
    BY <1>4, <2>1, <2>3 DEF SetRam, IInv, TypeOK, MarketMatchesCounters,
       ReservedIsSumOfQuotas, QuotaNeedsRow, quotas, tokens, supply
<1>5. ASSUME NEW r \in Rates, SetRamRate(r)
      PROVE  IInv'
  <2>1. RamIncrease \in Nat /\ LastIncrease \in 0..slot /\ r \in Nat
    BY RamIncreaseType, ConstantsAssumption DEF IInv
  <2>2. MarketNeverLoses'
    BY <1>5, <2>1, GrowthKeepsMarket DEF SetRamRate, MarketNeverLoses
  <2> QED
    BY <1>5, <2>1, <2>2 DEF SetRamRate, IInv, TypeOK, MarketMatchesCounters,
       ReservedIsSumOfQuotas, QuotaNeedsRow, quotas, tokens
<1>6. ASSUME NEW a \in Accounts, NEW n \in ByteCounts, SetAcctRam(a, n)
      PROVE  IInv'
  BY <1>6, ConstantsAssumption DEF SetAcctRam, IInv, TypeOK, MarketMatchesCounters,
     MarketNeverLoses, ReservedIsSumOfQuotas, QuotaNeedsRow, market, tokens, supply
<1>7. ASSUME NEW a \in Accounts, UnsetAcctRam(a)
      PROVE  IInv'
  <2>1. GiftBytes + (IF a \in has_row THEN ram_bytes[a] ELSE 0) \in Nat
    BY ConstantsAssumption DEF IInv, TypeOK
  <2> QED
    BY <1>7, <2>1 DEF UnsetAcctRam, IInv, TypeOK, MarketMatchesCounters,
       MarketNeverLoses, ReservedIsSumOfQuotas, QuotaNeedsRow, market, tokens, supply
<1>8. CASE NextBlock
  BY <1>8, ConstantsAssumption DEF NextBlock, IInv, TypeOK, MarketMatchesCounters,
     MarketNeverLoses, ReservedIsSumOfQuotas, QuotaNeedsRow, market, tokens, supply, quotas
<1>9. CASE UNCHANGED vars
  BY <1>9 DEF IInv, TypeOK, MarketMatchesCounters, MarketNeverLoses,
     ReservedIsSumOfQuotas, QuotaNeedsRow, vars, market, tokens, supply, quotas
<1> QED
  BY <1>1, <1>2, <1>3, <1>4, <1>5, <1>6, <1>7, <1>8, <1>9 DEF Next

\* The inductive invariant holds throughout.
LEMMA Invariance == Spec => []IInv
BY InitIInv, NextIInv, PTL DEF Spec

\* Type correctness of the RAM market, for any accounts, amounts and rates.
THEOREM TypeCorrect == Spec => []TypeOK
<1>1. IInv => TypeOK
  BY DEF IInv
<1> QED
  BY <1>1, Invariance, PTL

\* The market, total_ram_bytes_reserved, total_ram_stake, eosio.ram and the
\* quotas in userres never disagree.
THEOREM CountersAgree == Spec => [](MarketMatchesCounters /\ ReservedIsSumOfQuotas)
<1>1. IInv => MarketMatchesCounters /\ ReservedIsSumOfQuotas
  BY DEF IInv
<1> QED
  BY <1>1, Invariance, PTL

\* sellram can pay out for any bytes that are reserved: the proceeds never
\* exceed total_ram_stake.
THEOREM SellersArePaid == Spec => []SellersCanBePaid
<1>1. ASSUME IInv, NEW n \in 1..reserved
      PROVE  BancorOutput(base + RamIncrease, quote, n) <= ram_stake
  <2> DEFINE base0 == base + RamIncrease
             size  == max_ram_size + RamIncrease
             out   == BancorOutput(base0, quote, n)
  <2>1. /\ base0 \in Nat /\ size \in Nat /\ quote \in Nat /\ n \in Nat /\ n > 0
        /\ base0 + n <= size /\ Quote0 \in Nat
    BY <1>1, RamIncreaseType, ConstantsAssumption DEF IInv, TypeOK, MarketMatchesCounters
  <2>2. quote * base0 >= Quote0 * size
    BY <1>1, RamIncreaseType, GrowthKeepsMarket DEF IInv
  <2> HIDE DEF base0, size
  <2>3. out \in Nat /\ out <= quote /\ (base0 + n) * (quote - out) >= base0 * quote
    <3>1. base0 + n > 0
      BY <2>1
    <3> QED
      BY <2>1, <3>1, ConversionKeepsProduct
  <2> HIDE DEF out
  <2>4. (quote - out) * (base0 + n) <= (quote - out) * size
    BY <2>1, <2>3, MulMono
  <2>5. size * Quote0 <= size * (quote - out)
    <3>1. /\ (base0 + n) * (quote - out) = (quote - out) * (base0 + n)
          /\ (quote - out) * size = size * (quote - out)
          /\ base0 * quote = quote * base0
          /\ Quote0 * size = size * Quote0
      BY <2>1, <2>3, Distrib
    <3>2. /\ (quote - out) * (base0 + n) \in Nat /\ quote * base0 \in Nat
          /\ Quote0 * size \in Nat /\ (quote - out) * size \in Nat
      BY <2>1, <2>3, MulMono
    <3> QED
      BY <2>2, <2>3, <2>4, <3>1, <3>2
  <2>6. Quote0 <= quote - out
    BY <2>1, <2>3, <2>5, MulCancel
  <2> QED
    BY <1>1, <2>1, <2>3, <2>6 DEF IInv, TypeOK, MarketMatchesCounters, out, base0
<1>2. IInv => SellersCanBePaid
  BY <1>1 DEF SellersCanBePaid
<1> QED
  BY <1>2, Invariance, PTL

\* Buying and selling back at once never returns more than was paid.
THEOREM NoRoundTripProfit == Spec => []RoundTripNeverProfits
<1>1. ASSUME IInv, NEW q \in Quants, q > 0,
             BancorOutput(quote, base, q) > 0
      PROVE  BancorOutput(base - BancorOutput(quote, base, q), quote + q,
                          BancorOutput(quote, base, q)) <= q
  <2> DEFINE n == BancorOutput(quote, base, q)
  <2>1. quote \in Nat /\ base \in Nat /\ q \in Nat
    BY <1>1, ConstantsAssumption DEF IInv, TypeOK
  <2>2. n \in Nat /\ n <= base /\ n > 0
    BY <1>1, <2>1, ConversionKeepsProduct
  <2>3. (quote + q) * n <= q * base
    <3>1. quote + q > 0 /\ quote + q \in Nat /\ q * base \in Nat
      BY <1>1, <2>1, MulMono
    <3> QED
      BY <3>1, DivBounds DEF BancorOutput
  <2> HIDE DEF n
  <2>4. (base - n) + n = base /\ base > 0 /\ n * (quote + q) \in Nat
    BY <2>1, <2>2, MulMono
  <2> DEFINE back == BancorOutput(base - n, quote + q, n)
  <2>5. back = (n * (quote + q)) \div base
    BY <2>4 DEF BancorOutput
  <2>6. back \in Nat /\ base * back <= n * (quote + q)
    BY <2>1, <2>4, <2>5, DivBounds
  <2> HIDE DEF back
  <2>7. base * back <= base * q
    <3>1. n * (quote + q) = (quote + q) * n /\ q * base = base * q
      BY <2>1, <2>2, Distrib
    <3>2. base * back \in Nat /\ base * q \in Nat
      BY <2>1, <2>6, MulMono
    <3> QED
      BY <2>3, <2>4, <2>6, <3>1, <3>2
  <2>8. back <= q
    BY <2>1, <2>4, <2>6, <2>7, MulCancel
  <2> QED
    BY <2>8 DEF back, n
<1>2. IInv => RoundTripNeverProfits
  BY <1>1 DEF RoundTripNeverProfits
<1> QED
  BY <1>2, Invariance, PTL

\* Nothing is due once the supply is up to date.
LEMMA NothingDue ==
  ASSUME NEW s \in Nat, NEW t \in Nat, NEW r \in Nat, NEW m \in Nat, NEW d \in Nat, s = t, m <= d
  PROVE  m + (s - t) * r <= d
<1>1. s - t = 0
  OBVIOUS
<1>2. \A x \in Nat : 0 * x = 0
  OBVIOUS
<1> QED
  BY <1>1, <1>2

\* An update brings the supply up to the current slot, with at most the RAM that is due.
LEMMA UpdateIsDue ==
  ASSUME TypeOK
  PROVE  /\ LastIncrease = slot
         /\ RamIncrease \in Nat
         /\ RamIncrease <= (slot - last_ram_increase) * new_ram_per_block
<1> DEFINE P == (slot - last_ram_increase) * new_ram_per_block
<1>1. P \in Nat
  BY MulMono DEF TypeOK
<1>2. NewRam = P % Word
  BY DEF NewRam
<1> HIDE DEF P
<1>3. NewRam \in Nat /\ NewRam <= P
  BY <1>1, <1>2, ConstantsAssumption
<1>4. RamIncrease \in Nat /\ RamIncrease <= P
  BY <1>1, <1>3 DEF RamIncrease
<1>5. LastIncrease = slot
  BY DEF LastIncrease, TypeOK
<1> QED
  BY <1>4, <1>5 DEF P

\* No slot's RAM is ever added twice, whatever the order of updates and rate changes.
THEOREM NoExtraRam == Spec => []NeverMoreThanDue
<1> DEFINE P == (slot - last_ram_increase) * new_ram_per_block
<1>1. Init => NeverMoreThanDue
  BY ConstantsAssumption DEF Init, NeverMoreThanDue
<1>2. ASSUME IInv, IInv', NeverMoreThanDue, [Next]_vars
      PROVE  NeverMoreThanDue'
  <2>1. /\ slot \in Nat /\ last_ram_increase \in Nat /\ new_ram_per_block \in Nat
        /\ max_ram_size \in Nat /\ due \in Nat /\ MaxRam0 \in Nat
        /\ slot' \in Nat /\ last_ram_increase' \in Nat /\ new_ram_per_block' \in Nat
        /\ max_ram_size' \in Nat /\ due' \in Nat
    BY <1>2, ConstantsAssumption DEF IInv, TypeOK
  <2>2. P \in Int /\ max_ram_size + P <= MaxRam0 + due
    BY <1>2, <2>1 DEF NeverMoreThanDue
  <2>3. ASSUME max_ram_size' = max_ram_size + RamIncrease,
               last_ram_increase' = LastIncrease, slot' = slot, due' = due
        PROVE  NeverMoreThanDue'
    <3>1. last_ram_increase' = slot /\ RamIncrease \in Nat /\ RamIncrease <= P
      BY <1>2, <2>3, UpdateIsDue DEF IInv
    <3> HIDE DEF P
    <3>2. max_ram_size' <= MaxRam0 + due' /\ MaxRam0 + due' \in Nat
      BY <2>1, <2>2, <2>3, <3>1
    <3>3. slot' = last_ram_increase'
      BY <2>3, <3>1
    <3> QED
      BY <2>1, <3>2, <3>3, NothingDue DEF NeverMoreThanDue
  <2>4. ASSUME NEW payer \in Accounts, NEW receiver \in Accounts, NEW q, BuyRam(payer, receiver, q)
        PROVE  NeverMoreThanDue'
    BY <2>3, <2>4 DEF BuyRam
  <2>5. ASSUME NEW a \in Accounts, NEW n \in ByteCounts, SellRam(a, n)
        PROVE  NeverMoreThanDue'
    BY <2>3, <2>5 DEF SellRam
  <2>6. ASSUME NEW r \in Rates, SetRamRate(r)
        PROVE  NeverMoreThanDue'
    BY <2>3, <2>6 DEF SetRamRate
  <2>7. ASSUME NEW size \in RamSizes, SetRam(size)
        PROVE  NeverMoreThanDue'
    <3>1. P' = P /\ size \in Nat /\ max_ram_size' = size
          /\ due' = due + (size - max_ram_size)
      BY <2>7, ConstantsAssumption DEF SetRam, supply
    <3> HIDE DEF P
    <3>2. max_ram_size' + P' <= MaxRam0 + due'
      BY <2>1, <2>2, <3>1
    <3> QED
      BY <3>2 DEF NeverMoreThanDue, P
  <2>8. CASE NextBlock
    <3>1. /\ slot' = slot + 1 /\ due' = due + new_ram_per_block
          /\ max_ram_size' = max_ram_size
          /\ new_ram_per_block' = new_ram_per_block /\ last_ram_increase' = last_ram_increase
      BY <2>8 DEF NextBlock, market, supply
    <3>2. P' = P + new_ram_per_block
      <4>1. slot - last_ram_increase \in Nat
        BY <1>2 DEF IInv, TypeOK
      <4>2. slot' - last_ram_increase' = (slot - last_ram_increase) + 1
        BY <2>1, <3>1
      <4> QED
        BY <2>1, <3>1, <4>1, <4>2
    <3> HIDE DEF P
    <3>3. max_ram_size' + P' <= MaxRam0 + due'
      BY <2>1, <2>2, <3>1, <3>2
    <3> QED
      BY <3>3 DEF NeverMoreThanDue, P
  <2>9. ASSUME UNCHANGED <<slot, market, supply, due>>
        PROVE  NeverMoreThanDue'
    BY <1>2, <2>9 DEF NeverMoreThanDue, market, supply
  <2>10. CASE \E a \in Accounts, n \in ByteCounts : SetAcctRam(a, n)
    BY <2>9, <2>10 DEF SetAcctRam
  <2>11. CASE \E a \in Accounts : UnsetAcctRam(a)
    BY <2>9, <2>11 DEF UnsetAcctRam
  <2>12. CASE UNCHANGED vars
    BY <2>9, <2>12 DEF vars
  <2>13. CASE \E payer, receiver \in Accounts :
                \/ \E q \in Quants : BuyRam(payer, receiver, q)
                \/ \E n \in ByteCounts : BuyRamBytes(payer, receiver, n)
    BY <2>4, <2>13 DEF BuyRamBytes
  <2> QED
    BY <1>2, <2>5, <2>6, <2>7, <2>8, <2>10, <2>11, <2>12, <2>13 DEF Next
<1> QED
  BY <1>1, <1>2, Invariance, PTL DEF Spec

\* The limit the chain enforces for the accounts whose RAM is not managed.
LimitsFollowQuotas == \A a \in has_row \ ram_managed : ram_limit[a] = ram_bytes[a] + GiftBytes

\* buyram and sellram change the quota of one account, and its limit with it unless it is managed.
LEMMA TradeKeepsLimits ==
  ASSUME TypeOK, LimitsFollowQuotas, NEW account \in Accounts, NEW q \in Nat,
         ram_bytes' = [ram_bytes EXCEPT ![account] = q],
         ram_limit' = LimitAfter(account, ram_bytes'[account]),
         has_row' = has_row \cup {account}, ram_managed' = ram_managed
  PROVE  LimitsFollowQuotas'
<1> SUFFICES ASSUME NEW a \in has_row' \ ram_managed'
             PROVE  ram_limit'[a] = ram_bytes'[a] + GiftBytes
  BY DEF LimitsFollowQuotas
<1>1. /\ ram_bytes \in [Accounts -> Nat] /\ ram_limit \in [Accounts -> Nat] /\ GiftBytes \in Nat
      /\ a \in Accounts /\ a \notin ram_managed
  BY ConstantsAssumption DEF TypeOK
<1>2. CASE a = account
  BY <1>1, <1>2 DEF LimitAfter
<1>3. CASE a # account
  <2>1. ram_limit[a] = ram_bytes[a] + GiftBytes
    BY <1>1, <1>3 DEF LimitsFollowQuotas
  <2>2. ram_limit'[a] = ram_limit[a] /\ ram_bytes'[a] = ram_bytes[a]
    BY <1>1, <1>3 DEF LimitAfter
  <2> QED
    BY <2>1, <2>2
<1> QED
  BY <1>2, <1>3

\* What is reserved is what the accounts were sold, and the limits set by buyram, sellram and
\* setacctram follow the quotas in userres.
THEOREM QuotasHonoured == Spec => []QuotasAreHonoured
<1>1. Init => LimitsFollowQuotas
  BY DEF Init, LimitsFollowQuotas
<1>2. ASSUME IInv, IInv', LimitsFollowQuotas, [Next]_vars
      PROVE  LimitsFollowQuotas'
  <2>1. TypeOK /\ TypeOK' /\ GiftBytes \in Nat
    BY <1>2, ConstantsAssumption DEF IInv
  <2>2. ASSUME NEW payer \in Accounts, NEW receiver \in Accounts, NEW quant, BuyRam(payer, receiver, quant)
        PROVE  LimitsFollowQuotas'
    <3> DEFINE bytes == BancorOutput(quote, base + RamIncrease, quant - Fee(quant))
               q     == IF receiver \in has_row THEN ram_bytes[receiver] + bytes ELSE bytes
    <3>1. /\ ram_bytes' = [ram_bytes EXCEPT ![receiver] = q]
          /\ ram_limit' = LimitAfter(receiver, ram_bytes'[receiver])
          /\ has_row' = has_row \cup {receiver} /\ ram_managed' = ram_managed
      BY <2>2 DEF BuyRam, QuotaCredited
    <3> HIDE DEF q
    <3>2. q \in Nat
      BY <2>1, <3>1 DEF TypeOK
    <3> QED
      BY <1>2, <2>1, <3>1, <3>2, TradeKeepsLimits
  <2>3. ASSUME NEW account \in Accounts, NEW n \in ByteCounts, SellRam(account, n)
        PROVE  LimitsFollowQuotas'
    <3> DEFINE q == ram_bytes[account] - n
    <3>1. /\ ram_bytes' = [ram_bytes EXCEPT ![account] = q]
          /\ ram_limit' = LimitAfter(account, ram_bytes'[account])
          /\ has_row' = has_row \cup {account} /\ ram_managed' = ram_managed
      BY <2>3 DEF SellRam, HasQuota
    <3> HIDE DEF q
    <3>2. q \in Nat
      BY <2>1, <3>1 DEF TypeOK
    <3> QED
      BY <1>2, <2>1, <3>1, <3>2, TradeKeepsLimits
  <2>4. ASSUME NEW account \in Accounts, NEW n \in ByteCounts, SetAcctRam(account, n)
        PROVE  LimitsFollowQuotas'
    BY <1>2, <2>1, <2>4 DEF SetAcctRam, LimitsFollowQuotas, TypeOK
  <2>5. ASSUME NEW account \in Accounts, UnsetAcctRam(account)
        PROVE  LimitsFollowQuotas'
    BY <1>2, <2>1, <2>5 DEF UnsetAcctRam, LimitsFollowQuotas, TypeOK
  <2>6. ASSUME UNCHANGED quotas
        PROVE  LimitsFollowQuotas'
    BY <1>2, <2>6 DEF quotas, LimitsFollowQuotas
  <2>7. CASE \E size \in RamSizes : SetRam(size)
    BY <2>6, <2>7 DEF SetRam
  <2>8. CASE \E r \in Rates : SetRamRate(r)
    BY <2>6, <2>8 DEF SetRamRate
  <2>9. CASE NextBlock \/ UNCHANGED vars
    BY <2>6, <2>9 DEF NextBlock, vars
  <2>10. CASE \E payer, receiver \in Accounts :
                \/ \E q \in Quants : BuyRam(payer, receiver, q)
                \/ \E n \in ByteCounts : BuyRamBytes(payer, receiver, n)
    BY <2>2, <2>10 DEF BuyRamBytes
  <2> QED
    BY <1>2, <2>3, <2>4, <2>5, <2>7, <2>8, <2>9, <2>10 DEF Next
<1>3. IInv /\ LimitsFollowQuotas => QuotasAreHonoured
  BY DEF IInv, LimitsFollowQuotas, QuotasAreHonoured
<1> QED
  BY <1>1, <1>2, <1>3, Invariance, PTL DEF Spec
-----------------------------------------------------------------------------
(* The auction of names.                                                   *)

\* An auction that has a row has a bid, open or closed.
RowsHaveBids == \A n \in Names : Row(n) <=> high_bid[n] # 0

\* The bidder has won an auction, or created the name after it.
HasWon(b) == \E n \in Names : owner[n] = b \/ (high_bidder[n] = b /\ high_bid[n] < 0)

\* The two halves of BidsBuyNames.
NamesHolds   == names = SumOver(Positive(high_bid)) + SumOver(refunds) + proceeds
WinnersPaid  == \A b \in Bidders : Paid(b) >= 0 /\ (Paid(b) > 0 <=> HasWon(b))

\* The inductive invariant.
AuctionInv == BidTypeOK /\ RowsHaveBids /\ NamesHolds /\ WinnersPaid

-----------------------------------------------------------------------------
(* Sums over the tables.                                                   *)

\* What a bid adds to the open bids.
Amount(v) == IF v > 0 THEN v ELSE 0

\* The tables that are summed have finitely many keys and natural entries.
LEMMA TablesType ==
  ASSUME BidTypeOK
  PROVE  /\ IsFiniteSet(Bids) /\ IsFiniteSet(Names)
         /\ refunds \in [Bids -> Nat] /\ Positive(high_bid) \in [Names -> Nat]
         /\ \A b \in Bidders : RefundsTo(b) \in [Names -> Nat] /\ OpenBids(b) \in [Names -> Nat]
<1>1. IsFiniteSet(Bids) /\ IsFiniteSet(Names)
  BY NameBidAssumption, FS_Product DEF Bids
<1>2. \A n \in Names : high_bid[n] \in Int
  BY NameBidAssumption DEF BidTypeOK
<1>3. DOMAIN high_bid = Names /\ refunds \in [Bids -> Nat]
  BY DEF BidTypeOK
<1>4. Positive(high_bid) \in [Names -> Nat]
  BY <1>2, <1>3 DEF Positive
<1>5. \A b \in Bidders : RefundsTo(b) \in [Names -> Nat] /\ OpenBids(b) \in [Names -> Nat]
  BY <1>2, <1>3 DEF RefundsTo, OpenBids, Bids
<1> QED
  BY <1>1, <1>3, <1>4, <1>5

\* All the sums are natural numbers.
LEMMA SumsType ==
  ASSUME BidTypeOK
  PROVE  /\ SumOver(refunds) \in Nat /\ SumOver(Positive(high_bid)) \in Nat
         /\ \A b \in Bidders : SumOver(RefundsTo(b)) \in Nat /\ SumOver(OpenBids(b)) \in Nat
BY TablesType, SumType

\* What a new high bidder h with the bid v of the auction of n does to the open bids.
BidsChange(n, h, v) ==
    /\ SumOver(Positive(high_bid')) = SumOver(Positive(high_bid)) - Amount(high_bid[n]) + Amount(v)
    /\ \A b \in Bidders : SumOver(OpenBids(b)') =
          SumOver(OpenBids(b)) - (IF high_bidder[n] = b THEN Amount(high_bid[n]) ELSE 0)
                               + (IF h = b THEN Amount(v) ELSE 0)

\* Writing one row of the auctions.
LEMMA AuctionUpdate ==
  ASSUME BidTypeOK, NEW n \in Names, NEW h \in Bidders \cup {Nobody}, NEW v \in Int,
         high_bidder' = [high_bidder EXCEPT ![n] = h], high_bid' = [high_bid EXCEPT ![n] = v]
  PROVE  BidsChange(n, h, v)
<1>1. /\ high_bid \in [Names -> -Money..Money] /\ high_bidder \in [Names -> Bidders \cup {Nobody}]
      /\ Amount(v) \in Nat
  BY DEF BidTypeOK, Amount
<1>2. SumOver(Positive(high_bid')) = SumOver(Positive(high_bid)) - Amount(high_bid[n]) + Amount(v)
  <2>1. Positive(high_bid') = [Positive(high_bid) EXCEPT ![n] = Amount(v)]
    BY <1>1 DEF Positive, Amount
  <2>2. Positive(high_bid)[n] = Amount(high_bid[n])
    BY <1>1 DEF Positive, Amount
  <2>3. Positive(high_bid) \in [Names -> Nat] /\ IsFiniteSet(Names)
    BY TablesType
  <2>4. SumOver([Positive(high_bid) EXCEPT ![n] = Amount(v)])
          = SumOver(Positive(high_bid)) - Positive(high_bid)[n] + Amount(v)
    BY <1>1, <2>3, SumUpdate
  <2> QED
    BY <2>1, <2>2, <2>4
<1>3. ASSUME NEW b \in Bidders
      PROVE  SumOver(OpenBids(b)') =
               SumOver(OpenBids(b)) - (IF high_bidder[n] = b THEN Amount(high_bid[n]) ELSE 0)
                                    + (IF h = b THEN Amount(v) ELSE 0)
  <2> DEFINE w == IF h = b THEN Amount(v) ELSE 0
  <2>1. OpenBids(b)' = [OpenBids(b) EXCEPT ![n] = w]
    BY <1>1 DEF OpenBids, Amount
  <2>2. OpenBids(b)[n] = IF high_bidder[n] = b THEN Amount(high_bid[n]) ELSE 0
    BY DEF OpenBids, Amount
  <2>3. OpenBids(b) \in [Names -> Nat] /\ IsFiniteSet(Names) /\ w \in Nat
    BY <1>1, TablesType
  <2>4. SumOver([OpenBids(b) EXCEPT ![n] = w]) = SumOver(OpenBids(b)) - OpenBids(b)[n] + w
    <3> HIDE DEF w
    <3> QED
      BY <2>3, SumUpdate
  <2> QED
    BY <2>1, <2>2, <2>4
<1> QED
  BY <1>2, <1>3 DEF BidsChange

\* What a refund of v to h for the name n does to the refunds.
RefundsChange(n, h, v) ==
    /\ SumOver(refunds') = SumOver(refunds) - refunds[<<n, h>>] + v
    /\ \A b \in Bidders : SumOver(RefundsTo(b)') =
          IF b = h THEN SumOver(RefundsTo(b)) - refunds[<<n, h>>] + v ELSE SumOver(RefundsTo(b))

\* Writing one row of the refunds.
LEMMA RefundUpdate ==
  ASSUME BidTypeOK, NEW n \in Names, NEW h \in Bidders, NEW v \in Nat,
         refunds' = [refunds EXCEPT ![<<n, h>>] = v]
  PROVE  RefundsChange(n, h, v)
<1>1. /\ IsFiniteSet(Bids) /\ IsFiniteSet(Names) /\ refunds \in [Bids -> Nat] /\ <<n, h>> \in Bids
      /\ RefundsTo(h) \in [Names -> Nat]
  BY TablesType DEF Bids
<1>2. SumOver(refunds') = SumOver(refunds) - refunds[<<n, h>>] + v
  BY <1>1, SumUpdate
<1>3. SumOver(RefundsTo(h)') = SumOver(RefundsTo(h)) - refunds[<<n, h>>] + v
  <2>1. RefundsTo(h)' = [RefundsTo(h) EXCEPT ![n] = v]
    BY <1>1 DEF RefundsTo, Bids
  <2>2. RefundsTo(h)[n] = refunds[<<n, h>>]
    BY DEF RefundsTo
  <2>3. SumOver([RefundsTo(h) EXCEPT ![n] = v]) = SumOver(RefundsTo(h)) - RefundsTo(h)[n] + v
    BY <1>1, SumUpdate
  <2> QED
    BY <2>1, <2>2, <2>3
<1>4. ASSUME NEW b \in Bidders, b # h PROVE RefundsTo(b)' = RefundsTo(b)
  BY <1>1, <1>4 DEF RefundsTo, Bids
<1> QED
  BY <1>2, <1>3, <1>4 DEF RefundsChange

-----------------------------------------------------------------------------
(* The actions.                                                            *)

\* No auction has begun.
LEMMA InitAuctionInv == BidInit => AuctionInv
<1> SUFFICES ASSUME BidInit PROVE AuctionInv
  OBVIOUS
<1>1. BidTypeOK
  BY NameBidAssumption DEF BidInit, BidTypeOK, Ages
<1>2. RowsHaveBids
  BY DEF BidInit, RowsHaveBids, Row
<1>3. SumOver(refunds) = 0 /\ SumOver(Positive(high_bid)) = 0
  <2>1. Positive(high_bid) = [n \in Names |-> 0]
    BY DEF BidInit, Positive
  <2> QED
    BY <2>1, SumOfZeros DEF BidInit
<1>4. ASSUME NEW b \in Bidders PROVE Paid(b) = 0 /\ ~HasWon(b)
  <2>1. RefundsTo(b) = [n \in Names |-> 0] /\ OpenBids(b) = [n \in Names |-> 0]
    BY DEF BidInit, RefundsTo, OpenBids, Bids
  <2>2. SumOver(RefundsTo(b)) = 0 /\ SumOver(OpenBids(b)) = 0
    BY <2>1, SumOfZeros
  <2>3. ~HasWon(b)
    BY OthersAssumption DEF BidInit, HasWon
  <2> QED
    BY <2>2, <2>3, NameBidAssumption DEF BidInit, Paid
<1> QED
  BY <1>1, <1>2, <1>3, <1>4 DEF AuctionInv, NamesHolds, WinnersPaid, BidInit

\* bidname moves the bid from the bidder to the open bids, and the bid it beats to the refunds.
LEMMA BidIInv ==
  ASSUME AuctionInv, NEW bidder \in Bidders, NEW n \in Names, NEW bid \in Amounts, bidname(bidder, n, bid)
  PROVE  AuctionInv'
<1> DEFINE h  == high_bidder[n]
           hb == high_bid[n]
<1>1. BidTypeOK /\ RowsHaveBids /\ NamesHolds /\ WinnersPaid
  BY DEF AuctionInv
<1>2. bid \in Nat /\ bid > 0 /\ Money \in Nat
  BY NameBidAssumption
<1>3. /\ owner[n] = Nobody /\ liquid[bidder] >= bid
      /\ liquid' = [liquid EXCEPT ![bidder] = liquid[bidder] - bid]
      /\ names' = names + bid
      /\ high_bidder' = [high_bidder EXCEPT ![n] = bidder]
      /\ high_bid' = [high_bid EXCEPT ![n] = bid]
      /\ bidAge' = [bidAge EXCEPT ![n] = 0]
      /\ UNCHANGED <<closeAge, proceeds, owner>>
  BY DEF bidname
<1>4. /\ liquid \in [Bidders -> 0..Money] /\ hb \in Int
      /\ high_bid \in [Names -> -Money..Money] /\ high_bidder \in [Names -> Bidders \cup {Nobody}]
      /\ refunds \in [Bids -> Nat] /\ names \in Nat /\ proceeds \in Nat
  BY <1>1, <1>2 DEF BidTypeOK
<1>5. liquid'[bidder] = liquid[bidder] - bid /\ \A b \in Bidders \ {bidder} : liquid'[b] = liquid[b]
  BY <1>3, <1>4
<1>6. /\ SumOver(Positive(high_bid')) = SumOver(Positive(high_bid)) - Amount(hb) + bid
      /\ \A b \in Bidders : SumOver(OpenBids(b)') =
           SumOver(OpenBids(b)) - (IF h = b THEN Amount(hb) ELSE 0) + (IF bidder = b THEN bid ELSE 0)
  <2>1. Amount(bid) = bid /\ bid \in Int /\ bidder \in Bidders \cup {Nobody}
    BY <1>2 DEF Amount
  <2>2. /\ SumOver(Positive(high_bid')) = SumOver(Positive(high_bid)) - Amount(hb) + Amount(bid)
        /\ \A b \in Bidders : SumOver(OpenBids(b)') =
             SumOver(OpenBids(b)) - (IF h = b THEN Amount(hb) ELSE 0)
                                  + (IF bidder = b THEN Amount(bid) ELSE 0)
    <3>1. BidTypeOK /\ high_bidder' = [high_bidder EXCEPT ![n] = bidder] /\ high_bid' = [high_bid EXCEPT ![n] = bid]
      BY <1>1, <1>3
    <3>2. BidsChange(n, bidder, bid)
      BY <2>1, <3>1, AuctionUpdate
    <3> QED
      BY <3>2 DEF BidsChange
  <2> QED
    BY <2>1, <2>2
<1>7. \A b \in Bidders : HasWon(b)' <=> HasWon(b)
  <2>1. hb >= 0
    BY <1>1, <1>4 DEF bidname, RowsHaveBids, Raises
  <2>2. \A m \in Names : /\ high_bid'[m] < 0 <=> high_bid[m] < 0
                         /\ high_bid[m] < 0 => high_bidder'[m] = high_bidder[m]
    BY <1>2, <1>3, <1>4, <2>1
  <2> QED
    BY <1>3, <2>2 DEF HasWon
<1>8. /\ SumOver(refunds) \in Nat /\ SumOver(Positive(high_bid)) \in Nat
      /\ \A b \in Bidders : SumOver(RefundsTo(b)) \in Nat /\ SumOver(OpenBids(b)) \in Nat
  BY <1>1, SumsType
<1>9. RowsHaveBids'
  BY <1>1, <1>2, <1>3, <1>4, OthersAssumption DEF RowsHaveBids, Row
<1>10. ASSUME refunds' \in [Bids -> Nat], deferred' \subseteq Bids PROVE BidTypeOK'
  <2>1. liquid' \in [Bidders -> 0..Money] /\ high_bid' \in [Names -> -Money..Money]
    <3>1. liquid[bidder] - bid \in 0..Money /\ bid \in -Money..Money
      BY <1>2, <1>3, <1>4
    <3> QED
      BY <1>3, <1>4, <3>1
  <2>2. 0 \in Ages /\ names' \in Nat
    BY <1>2, <1>3, <1>4, NameBidAssumption DEF Ages
  <2> QED
    BY <1>1, <1>3, <1>10, <2>1, <2>2 DEF BidTypeOK
<1>11. CASE ~Row(n) /\ UNCHANGED <<refunds, deferred>>
  <2>1. Amount(hb) = 0
    BY <1>1, <1>11 DEF RowsHaveBids, Amount
  <2>2. NamesHolds'
    BY <1>1, <1>2, <1>3, <1>4, <1>6, <1>8, <1>11, <2>1 DEF NamesHolds
  <2>3. \A b \in Bidders : SumOver(RefundsTo(b)') = SumOver(RefundsTo(b))
    BY <1>11 DEF RefundsTo
  <2>4. \A b \in Bidders : Paid(b)' = Paid(b)
    BY <1>2, <1>4, <1>5, <1>6, <1>8, <2>1, <2>3 DEF Paid
  <2> QED
    BY <1>1, <1>7, <1>9, <1>10, <1>11, <2>2, <2>4 DEF AuctionInv, WinnersPaid, BidTypeOK
<1>12. CASE /\ Row(n) /\ Raises(n, bid) /\ h # bidder
            /\ refunds' = [refunds EXCEPT ![<<n, h>>] = RefundOf(@, hb)]
            /\ deferred' = deferred \cup {<<n, h>>}
  <2>1. h \in Bidders /\ hb \in Nat /\ hb > 0 /\ Amount(hb) = hb /\ <<n, h>> \in Bids
    BY <1>4, <1>12 DEF Row, Raises, Amount, Bids
  <2> DEFINE v == refunds[<<n, h>>] + hb
  <2>2. v \in Nat /\ refunds' = [refunds EXCEPT ![<<n, h>>] = v] /\ refunds[<<n, h>>] \in Nat
    BY <1>4, <1>12, <2>1 DEF RefundOf
  <2> HIDE DEF v, h, hb
  <2>3. /\ SumOver(refunds') = SumOver(refunds) - refunds[<<n, h>>] + v
        /\ \A b \in Bidders : SumOver(RefundsTo(b)') =
             IF b = h THEN SumOver(RefundsTo(b)) - refunds[<<n, h>>] + v ELSE SumOver(RefundsTo(b))
    <3>1. BidTypeOK /\ h \in Bidders /\ v \in Nat /\ refunds' = [refunds EXCEPT ![<<n, h>>] = v]
      BY <1>1, <2>1, <2>2
    <3>2. RefundsChange(n, h, v)
      BY <3>1, RefundUpdate
    <3> QED
      BY <3>2 DEF RefundsChange
  <2>4. NamesHolds'
    BY <1>1, <1>2, <1>3, <1>4, <1>6, <1>8, <2>1, <2>2, <2>3 DEF NamesHolds, v
  <2>5. ASSUME NEW b \in Bidders PROVE Paid(b)' = Paid(b)
    <3>1. liquid[b] \in Nat
      BY <1>4
    <3>2. SumOver(RefundsTo(b)') = IF b = h THEN SumOver(RefundsTo(b)) + hb ELSE SumOver(RefundsTo(b))
      BY <1>8, <2>1, <2>2, <2>3 DEF v
    <3>3. SumOver(OpenBids(b)') =
           SumOver(OpenBids(b)) - (IF h = b THEN hb ELSE 0) + (IF bidder = b THEN bid ELSE 0)
      BY <1>6, <2>1
    <3> QED
      BY <1>2, <1>5, <1>8, <1>12, <2>1, <3>1, <3>2, <3>3 DEF Paid
  <2>6. BidTypeOK'
    BY <1>1, <1>4, <1>10, <1>12, <2>1, <2>2 DEF BidTypeOK
  <2> QED
    BY <1>1, <1>7, <1>9, <2>4, <2>5, <2>6 DEF AuctionInv, WinnersPaid
<1> QED
  BY <1>11, <1>12 DEF bidname

\* A refund moves from the table to the balance.
LEMMA PayRefundIInv ==
  ASSUME AuctionInv, NEW bidder \in Bidders, NEW n \in Names, CanRefund(bidder, n), PayRefund(bidder, n),
         deferred' \subseteq Bids
  PROVE  AuctionInv'
<1> DEFINE r == refunds[<<n, bidder>>]
<1>1. BidTypeOK /\ RowsHaveBids /\ NamesHolds /\ WinnersPaid
  BY DEF AuctionInv
<1>2. /\ r > 0 /\ names >= r /\ names' = names - r
      /\ liquid' = [liquid EXCEPT ![bidder] = liquid[bidder] + r]
      /\ refunds' = [refunds EXCEPT ![<<n, bidder>>] = 0]
      /\ UNCHANGED <<high_bidder, high_bid, bidAge, closeAge, proceeds, owner>>
  BY DEF CanRefund, PayRefund, RefundErased
<1>3. /\ liquid \in [Bidders -> 0..Money] /\ refunds \in [Bids -> Nat] /\ names \in Nat /\ proceeds \in Nat
      /\ r \in Nat /\ Money \in Nat
  BY <1>1, NameBidAssumption DEF BidTypeOK, Bids
<1>4. /\ SumOver(refunds') = SumOver(refunds) - r + 0
      /\ \A b \in Bidders : SumOver(RefundsTo(b)') =
           IF b = bidder THEN SumOver(RefundsTo(b)) - r + 0 ELSE SumOver(RefundsTo(b))
  <2>1. RefundsChange(n, bidder, 0)
    BY <1>1, <1>2, RefundUpdate
  <2> QED
    BY <2>1 DEF RefundsChange
<1>5. /\ SumOver(refunds) \in Nat /\ SumOver(Positive(high_bid)) \in Nat
      /\ \A b \in Bidders : SumOver(RefundsTo(b)) \in Nat /\ SumOver(OpenBids(b)) \in Nat
  BY <1>1, SumsType
<1>6. r <= SumOver(RefundsTo(bidder))
  <2>1. RefundsTo(bidder) \in [Names -> Nat] /\ IsFiniteSet(Names) /\ RefundsTo(bidder)[n] = r
    BY <1>1, TablesType DEF RefundsTo
  <2> QED
    BY <2>1, SumBoundsEntry
<1> HIDE DEF r
<1>7. liquid'[bidder] = liquid[bidder] + r /\ \A b \in Bidders \ {bidder} : liquid'[b] = liquid[b]
  BY <1>2, <1>3
<1>8. \A b \in Bidders : OpenBids(b)' = OpenBids(b) /\ (HasWon(b)' <=> HasWon(b))
  BY <1>2 DEF OpenBids, HasWon
<1>9. ASSUME NEW b \in Bidders PROVE Paid(b)' = Paid(b)
  <2>1. liquid[b] \in Nat
    BY <1>3
  <2> QED
    BY <1>3, <1>4, <1>5, <1>7, <1>8, <2>1 DEF Paid
<1>10. NamesHolds' /\ RowsHaveBids'
  BY <1>1, <1>2, <1>3, <1>4, <1>5 DEF NamesHolds, RowsHaveBids, Row
<1>11. BidTypeOK'
  <2>1. liquid[bidder] + r \in 0..Money
    <3>1. liquid[bidder] \in Nat /\ Paid(bidder) >= 0
      BY <1>1, <1>3 DEF WinnersPaid
    <3> QED
      BY <1>3, <1>5, <1>6, <3>1 DEF Paid
  <2>2. liquid' \in [Bidders -> 0..Money]
    BY <1>2, <1>3, <2>1
  <2>3. refunds' \in [Bids -> Nat] /\ names' \in Nat
    <3>1. names - r \in Nat
      BY <1>2, <1>3
    <3> QED
      BY <1>2, <1>3, <3>1
  <2> QED
    BY <1>1, <1>2, <2>2, <2>3 DEF BidTypeOK
<1> QED
  BY <1>1, <1>8, <1>9, <1>10, <1>11 DEF AuctionInv, WinnersPaid

\* Closing an auction turns an open bid into proceeds, and its bidder into a winner.
LEMMA OnblockIInv ==
  ASSUME AuctionInv, onblock
  PROVE  AuctionInv'
<1>1. BidTypeOK /\ RowsHaveBids /\ NamesHolds /\ WinnersPaid
  BY DEF AuctionInv
<1>2. PICK n \in Names :
         /\ IsHighest(n)
         /\ high_bid' = [high_bid EXCEPT ![n] = 0 - high_bid[n]]
         /\ proceeds' = proceeds + high_bid[n]
  BY DEF onblock
<1>3. closeAge' = 0 /\ UNCHANGED <<liquid, names, high_bidder, bidAge, refunds, deferred, owner>>
  BY DEF onblock
<1> DEFINE h  == high_bidder[n]
           hb == high_bid[n]
<1>4. /\ high_bid \in [Names -> -Money..Money] /\ high_bidder \in [Names -> Bidders \cup {Nobody}]
      /\ liquid \in [Bidders -> 0..Money] /\ Money \in Nat /\ proceeds \in Nat /\ names \in Nat
  BY <1>1, NameBidAssumption DEF BidTypeOK
<1>5. hb \in Nat /\ hb > 0 /\ h \in Bidders
  BY <1>1, <1>2, <1>4 DEF IsHighest, OpenAuctions, RowsHaveBids, Row
<1>6. /\ SumOver(Positive(high_bid')) = SumOver(Positive(high_bid)) - hb
      /\ \A b \in Bidders : SumOver(OpenBids(b)') =
           SumOver(OpenBids(b)) - (IF h = b THEN hb ELSE 0)
  <2>1. Amount(hb) = hb /\ Amount(0 - hb) = 0 /\ 0 - hb \in Int
    BY <1>5 DEF Amount
  <2>2. high_bidder' = [high_bidder EXCEPT ![n] = h]
    BY <1>3, <1>4
  <2>3. /\ SumOver(Positive(high_bid')) = SumOver(Positive(high_bid)) - Amount(hb) + Amount(0 - hb)
        /\ \A b \in Bidders : SumOver(OpenBids(b)') =
             SumOver(OpenBids(b)) - (IF high_bidder[n] = b THEN Amount(hb) ELSE 0)
                                  + (IF h = b THEN Amount(0 - hb) ELSE 0)
    BY <1>1, <1>2, <1>5, <2>1, <2>2, AuctionUpdate DEF BidsChange
  <2>4. /\ SumOver(Positive(high_bid)) \in Nat
        /\ \A b \in Bidders : SumOver(OpenBids(b)) \in Nat
    BY <1>1, SumsType
  <2> HIDE DEF h, hb
  <2> QED
    BY <1>5, <2>1, <2>3, <2>4 DEF h
<1>7. /\ SumOver(refunds) \in Nat /\ SumOver(Positive(high_bid)) \in Nat
      /\ \A b \in Bidders : SumOver(RefundsTo(b)) \in Nat /\ SumOver(OpenBids(b)) \in Nat
  BY <1>1, SumsType
<1>8. /\ high_bid'[n] = 0 - hb /\ high_bidder'[n] = h
      /\ \A m \in Names \ {n} : high_bid'[m] = high_bid[m] /\ high_bidder'[m] = high_bidder[m]
  BY <1>2, <1>3, <1>4
<1>9. NamesHolds'
  BY <1>1, <1>2, <1>3, <1>4, <1>5, <1>6, <1>7 DEF NamesHolds
<1>10. RowsHaveBids'
  BY <1>1, <1>3, <1>4, <1>5, <1>8 DEF RowsHaveBids, Row
<1>11. BidTypeOK'
  <2>1. 0 - hb \in -Money..Money
    BY <1>4, <1>5
  <2>2. high_bid' \in [Names -> -Money..Money] /\ proceeds' \in Nat /\ closeAge' \in Ages
    BY <1>2, <1>3, <1>4, <1>5, <2>1, NameBidAssumption DEF Ages
  <2> QED
    BY <1>1, <1>3, <2>2 DEF BidTypeOK
<1>12. ASSUME NEW b \in Bidders
       PROVE  Paid(b)' >= 0 /\ (Paid(b)' > 0 <=> HasWon(b)')
  <2>1. RefundsTo(b)' = RefundsTo(b) /\ liquid[b] \in Nat /\ liquid'[b] = liquid[b]
    BY <1>3, <1>4 DEF RefundsTo
  <2>2. Paid(b)' = IF h = b THEN Paid(b) + hb ELSE Paid(b)
    BY <1>4, <1>5, <1>6, <1>7, <2>1 DEF Paid
  <2>3. Paid(b) \in Int /\ Paid(b) >= 0 /\ (Paid(b) > 0 <=> HasWon(b))
    <3>1. Paid(b) \in Int
      BY <1>4, <1>7, <2>1 DEF Paid
    <3> QED
      BY <1>1, <3>1 DEF WinnersPaid
  <2>4. CASE h = b
    <3>1. HasWon(b)'
      BY <1>5, <1>8, <2>4 DEF HasWon
    <3>2. Paid(b)' > 0
      BY <1>5, <2>2, <2>3, <2>4
    <3> QED
      BY <2>2, <2>3, <2>4, <3>1, <3>2, <1>5
  <2>5. CASE h # b
    <3>1. HasWon(b)' <=> HasWon(b)
      <4>1. \A m \in Names : (high_bidder'[m] = b /\ high_bid'[m] < 0) <=> (high_bidder[m] = b /\ high_bid[m] < 0)
        BY <1>8, <2>5
      <4> QED
        BY <1>3, <4>1 DEF HasWon
    <3> QED
      BY <2>2, <2>3, <2>5, <3>1
  <2> QED
    BY <2>4, <2>5
<1> QED
  BY <1>9, <1>10, <1>11, <1>12 DEF AuctionInv, WinnersPaid

\* Creating the account takes the row of a closed auction only, and its winner keeps the name.
LEMMA NewaccountIInv ==
  ASSUME AuctionInv, NEW creator \in Bidders \cup {System}, NEW n \in Names, newaccount(creator, n)
  PROVE  AuctionInv'
<1>1. BidTypeOK /\ RowsHaveBids /\ NamesHolds /\ WinnersPaid
  BY DEF AuctionInv
<1>2. /\ owner[n] = Nobody /\ owner' = [owner EXCEPT ![n] = creator]
      /\ UNCHANGED <<liquid, names, refunds, deferred, closeAge, proceeds>>
  BY DEF newaccount
<1>3. /\ high_bid \in [Names -> -Money..Money] /\ high_bidder \in [Names -> Bidders \cup {Nobody}]
      /\ owner \in [Names -> Bidders \cup {Nobody, System}] /\ owner' \in [Names -> Bidders \cup {Nobody, System}]
      /\ Nobody # System
  BY <1>1, <1>2 DEF BidTypeOK, Nobody, System
<1>4. \A b \in Bidders : RefundsTo(b)' = RefundsTo(b)
  BY <1>2 DEF RefundsTo
<1>5. CASE creator = System /\ UNCHANGED <<high_bidder, high_bid, bidAge>>
  <2>1. \A b \in Bidders : HasWon(b)' <=> HasWon(b)
    BY <1>2, <1>3, <1>5, OthersAssumption DEF HasWon
  <2>2. \A b \in Bidders : Paid(b)' = Paid(b)
    BY <1>2, <1>4, <1>5 DEF Paid, OpenBids
  <2>3. NamesHolds' /\ RowsHaveBids'
    BY <1>1, <1>2, <1>5 DEF NamesHolds, RowsHaveBids, Row
  <2>4. BidTypeOK'
    BY <1>1, <1>2, <1>3, <1>5 DEF BidTypeOK
  <2> QED
    BY <1>1, <2>1, <2>2, <2>3, <2>4 DEF AuctionInv, WinnersPaid
<1>6. CASE /\ creator # System /\ MayClaim(creator, n)
           /\ high_bidder' = [high_bidder EXCEPT ![n] = Nobody]
           /\ high_bid' = [high_bid EXCEPT ![n] = 0]
           /\ bidAge' = [bidAge EXCEPT ![n] = 0]
  <2>1. creator \in Bidders /\ high_bidder[n] = creator /\ high_bid[n] < 0
    BY <1>6 DEF MayClaim
  <2>2. /\ SumOver(Positive(high_bid')) = SumOver(Positive(high_bid))
        /\ \A b \in Bidders : SumOver(OpenBids(b)') = SumOver(OpenBids(b))
    <3>1. Amount(high_bid[n]) = 0 /\ Amount(0) = 0 /\ 0 \in Int /\ Nobody \in Bidders \cup {Nobody}
      BY <1>3, <2>1, NameBidAssumption DEF Amount
    <3>2. /\ SumOver(Positive(high_bid')) = SumOver(Positive(high_bid)) - Amount(high_bid[n]) + Amount(0)
          /\ \A b \in Bidders : SumOver(OpenBids(b)') =
               SumOver(OpenBids(b)) - (IF high_bidder[n] = b THEN Amount(high_bid[n]) ELSE 0)
                                    + (IF Nobody = b THEN Amount(0) ELSE 0)
      <4>1. BidTypeOK /\ high_bidder' = [high_bidder EXCEPT ![n] = Nobody] /\ high_bid' = [high_bid EXCEPT ![n] = 0]
        BY <1>1, <1>6
      <4>2. BidsChange(n, Nobody, 0)
        BY <3>1, <4>1, AuctionUpdate
      <4> QED
        BY <4>2 DEF BidsChange
    <3>3. /\ SumOver(Positive(high_bid)) \in Nat
          /\ \A b \in Bidders : SumOver(OpenBids(b)) \in Nat
      BY <1>1, SumsType
    <3> QED
      BY <3>1, <3>2, <3>3
  <2>3. /\ high_bid'[n] = 0 /\ high_bidder'[n] = Nobody /\ owner'[n] = creator
        /\ \A m \in Names \ {n} : high_bid'[m] = high_bid[m] /\ high_bidder'[m] = high_bidder[m] /\ owner'[m] = owner[m]
    BY <1>2, <1>3, <1>6
  <2>4. ASSUME NEW b \in Bidders PROVE HasWon(b)' <=> HasWon(b)
    <3>1. CASE b = creator
      BY <2>1, <2>3, <3>1 DEF HasWon
    <3>2. CASE b # creator
      <4>1. \A m \in Names : (owner'[m] = b \/ (high_bidder'[m] = b /\ high_bid'[m] < 0))
                               <=> (owner[m] = b \/ (high_bidder[m] = b /\ high_bid[m] < 0))
        BY <1>2, <2>1, <2>3, <3>2, OthersAssumption
      <4> QED
        BY <4>1 DEF HasWon
    <3> QED
      BY <3>1, <3>2
  <2>5. \A b \in Bidders : Paid(b)' = Paid(b)
    BY <1>2, <1>4, <2>2 DEF Paid
  <2>6. NamesHolds'
    BY <1>1, <1>2, <2>2 DEF NamesHolds
  <2>7. RowsHaveBids'
    BY <1>1, <2>3 DEF RowsHaveBids, Row
  <2>8. BidTypeOK'
    <3>1. 0 \in Ages /\ 0 \in -Money..Money
      BY NameBidAssumption DEF Ages
    <3> QED
      BY <1>1, <1>2, <1>3, <1>6, <3>1 DEF BidTypeOK
  <2> QED
    BY <1>1, <2>4, <2>5, <2>6, <2>7, <2>8 DEF AuctionInv, WinnersPaid
<1> QED
  BY <1>5, <1>6 DEF newaccount

\* Steps that leave the money and the auctions alone.
LEMMA QuietIInv ==
  ASSUME AuctionInv, UNCHANGED <<liquid, names, high_bidder, high_bid, refunds, proceeds, owner>>, BidTypeOK'
  PROVE  AuctionInv'
<1>1. \A b \in Bidders : Paid(b)' = Paid(b) /\ (HasWon(b)' <=> HasWon(b))
  BY DEF Paid, RefundsTo, OpenBids, HasWon
<1> QED
  BY <1>1 DEF AuctionInv, RowsHaveBids, Row, NamesHolds, WinnersPaid

\* The inductive step.
LEMMA NextAuctionInv == AuctionInv /\ [BidNext]_bidVars => AuctionInv'
<1> SUFFICES ASSUME AuctionInv, [BidNext]_bidVars PROVE AuctionInv'
  OBVIOUS
<1>0. BidTypeOK
  BY DEF AuctionInv
<1>1. ASSUME NEW b \in Bidders, NEW n \in Names, NEW bid \in Amounts, bidname(b, n, bid)
      PROVE  AuctionInv'
  BY <1>1, BidIInv
<1>2. ASSUME NEW b \in Bidders, NEW n \in Names, bidrefund(b, n)
      PROVE  AuctionInv'
  BY <1>0, <1>2, PayRefundIInv DEF bidrefund, BidTypeOK
<1>3. ASSUME NEW b \in Bidders, NEW n \in Names, RunDeferred(b, n)
      PROVE  AuctionInv'
  <2>1. deferred' \subseteq Bids
    BY <1>0, <1>3 DEF RunDeferred, BidTypeOK
  <2>2. CASE CanRefund(b, n) /\ PayRefund(b, n)
    BY <2>1, <2>2, PayRefundIInv
  <2>3. CASE UNCHANGED <<liquid, names, high_bidder, high_bid, bidAge, refunds, closeAge, proceeds, owner>>
    <3>1. BidTypeOK'
      BY <1>0, <2>1, <2>3 DEF BidTypeOK
    <3> QED
      BY <2>3, <3>1, QuietIInv
  <2> QED
    BY <1>3, <2>2, <2>3 DEF RunDeferred
<1>4. CASE onblock
  BY <1>4, OnblockIInv
<1>5. CASE channel_to_rex
  <2>1. names \in Nat /\ proceeds \in Nat /\ names' = names - proceeds /\ proceeds' = 0 /\ names >= proceeds
        /\ UNCHANGED <<liquid, high_bidder, high_bid, bidAge, refunds, deferred, closeAge, owner>>
    BY <1>0, <1>5 DEF channel_to_rex, BidTypeOK
  <2>2. BidTypeOK'
    BY <1>0, <2>1 DEF BidTypeOK
  <2>3. SumOver(refunds) \in Nat /\ SumOver(Positive(high_bid)) \in Nat
    BY <1>0, SumsType
  <2>4. NamesHolds' /\ RowsHaveBids'
    BY <2>1, <2>3 DEF AuctionInv, NamesHolds, RowsHaveBids, Row
  <2>5. \A b \in Bidders : Paid(b)' = Paid(b) /\ (HasWon(b)' <=> HasWon(b))
    BY <2>1 DEF Paid, RefundsTo, OpenBids, HasWon
  <2> QED
    BY <2>2, <2>4, <2>5 DEF AuctionInv, WinnersPaid
<1>6. ASSUME NEW c \in Bidders \cup {System}, NEW n \in Names, newaccount(c, n)
      PROVE  AuctionInv'
  BY <1>6, NewaccountIInv
<1>7. CASE Tick
  <2>1. \A t \in Ages : Older(t) \in Ages
    BY NameBidAssumption DEF Ages, Older
  <2>2. 0 \in Ages
    BY NameBidAssumption DEF Ages
  <2>3. bidAge' \in [Names -> Ages] /\ closeAge' \in Ages
    BY <1>0, <1>7, <2>1, <2>2 DEF Tick, BidTypeOK
  <2>4. BidTypeOK'
    BY <1>0, <1>7, <2>3 DEF Tick, BidTypeOK
  <2> QED
    BY <1>7, <2>4, QuietIInv DEF Tick
<1>8. CASE UNCHANGED bidVars
  BY <1>0, <1>8, QuietIInv DEF bidVars, BidTypeOK
<1> QED
  BY <1>1, <1>2, <1>3, <1>4, <1>5, <1>6, <1>7, <1>8 DEF BidNext

\* The invariant holds in every reachable state.
LEMMA AuctionInvariance == BidSpec => []AuctionInv
BY InitAuctionInv, NextAuctionInv, PTL DEF BidSpec

-----------------------------------------------------------------------------
(* The results.                                                            *)

\* No balance, bid, refund or proceeds of name_bidding.cpp is ever negative or larger than the
\* money there is.
THEOREM BidTypeCorrect == BidSpec => []BidTypeOK
<1>1. AuctionInv => BidTypeOK
  BY DEF AuctionInv
<1> QED
  BY <1>1, AuctionInvariance, PTL

\* bidname, bidrefund and the closing of auctions lose no bid, and take one only for a name.
THEOREM NoBidLost == BidSpec => []BidsBuyNames
<1>1. AuctionInv => BidsBuyNames
  BY DEF AuctionInv, BidsBuyNames, NamesHolds, WinnersPaid, HasWon
<1> QED
  BY <1>1, AuctionInvariance, PTL

\* What a step may do to a closed auction, and who may create a name.
ClosedStep == \A n \in Names :
                 /\ high_bid[n] < 0 =>
                       \/ high_bid'[n] = high_bid[n] /\ high_bidder'[n] = high_bidder[n]
                       \/ owner[n] = Nobody /\ owner'[n] = high_bidder[n]
                 /\ owner'[n] # owner[n] =>
                       /\ owner[n] = Nobody
                       /\ owner'[n] = System \/ (owner'[n] = high_bidder[n] /\ high_bid[n] < 0)

\* No bid reopens a closed auction, and newaccount gives its name to the winner, or to nobody but
\* the system account.
THEOREM ClosedStaysClosed == BidSpec => ClosedIsFinal
<1>1. ASSUME AuctionInv, [BidNext]_bidVars PROVE ClosedStep
  <2> DEFINE Rows(n) == high_bid[n] < 0 =>
                          \/ high_bid'[n] = high_bid[n] /\ high_bidder'[n] = high_bidder[n]
                          \/ owner[n] = Nobody /\ owner'[n] = high_bidder[n]
             Owned(n) == owner'[n] # owner[n] =>
                           /\ owner[n] = Nobody
                           /\ owner'[n] = System \/ (owner'[n] = high_bidder[n] /\ high_bid[n] < 0)
  <2> SUFFICES ASSUME NEW n \in Names PROVE Rows(n) /\ Owned(n)
    BY DEF ClosedStep
  <2>1. /\ high_bid \in [Names -> -Money..Money] /\ high_bidder \in [Names -> Bidders \cup {Nobody}]
        /\ owner \in [Names -> Bidders \cup {Nobody, System}] /\ high_bid[n] \in Int
        /\ high_bid[n] < 0 => Row(n)
    <3>1. BidTypeOK /\ RowsHaveBids
      BY <1>1 DEF AuctionInv
    <3>2. high_bid[n] \in Int
      BY <3>1, NameBidAssumption DEF BidTypeOK
    <3> QED
      BY <3>1, <3>2 DEF BidTypeOK, RowsHaveBids
  <2>2. ASSUME NEW b \in Bidders, NEW m \in Names, NEW bid \in Amounts, bidname(b, m, bid)
        PROVE  Rows(n) /\ Owned(n)
    <3>1. high_bid[n] < 0 => m # n
      BY <2>1, <2>2 DEF bidname, Raises
    <3>2. Rows(n)
      BY <2>1, <2>2, <3>1 DEF bidname
    <3>3. Owned(n)
      BY <2>2 DEF bidname
    <3> QED
      BY <3>2, <3>3
  <2>3. ASSUME onblock
        PROVE  Rows(n) /\ Owned(n)
    <3>1. PICK m \in Names : IsHighest(m) /\ high_bid' = [high_bid EXCEPT ![m] = 0 - @]
      BY <2>3 DEF onblock
    <3>2. high_bid[n] < 0 => m # n
      BY <2>1, <3>1 DEF IsHighest, OpenAuctions
    <3>3. high_bid[n] < 0 => high_bid'[n] = high_bid[n]
      BY <2>1, <3>1, <3>2
    <3>4. high_bidder' = high_bidder /\ owner' = owner
      BY <2>3 DEF onblock
    <3> QED
      BY <3>3, <3>4
  <2>4. ASSUME NEW c \in Bidders \cup {System}, NEW m \in Names, newaccount(c, m)
        PROVE  Rows(n) /\ Owned(n)
    <3>1. CASE m # n
      <4>1. owner'[n] = owner[n] /\ high_bid'[n] = high_bid[n] /\ high_bidder'[n] = high_bidder[n]
        BY <2>1, <2>4, <3>1 DEF newaccount
      <4> QED
        BY <4>1
    <3>2. CASE m = n
      <4>1. owner[n] = Nobody /\ owner'[n] = c
        BY <2>1, <2>4, <3>2 DEF newaccount
      <4>2. CASE c = System /\ UNCHANGED <<high_bidder, high_bid>>
        BY <4>1, <4>2
      <4>3. CASE high_bidder[n] = c /\ high_bid[n] < 0
        BY <4>1, <4>3
      <4> QED
        BY <2>4, <3>2, <4>2, <4>3 DEF newaccount, MayClaim
    <3> QED
      BY <3>1, <3>2
  <2>5. ASSUME UNCHANGED <<high_bid, high_bidder, owner>>
        PROVE  Rows(n) /\ Owned(n)
    BY <2>5
  <2>6. ASSUME \E b \in Bidders, m \in Names : bidrefund(b, m) \/ RunDeferred(b, m)
        PROVE  UNCHANGED <<high_bid, high_bidder, owner>>
    BY <2>6 DEF bidrefund, RunDeferred, PayRefund
  <2>7. ASSUME channel_to_rex \/ Tick \/ UNCHANGED bidVars
        PROVE  UNCHANGED <<high_bid, high_bidder, owner>>
    BY <2>7 DEF channel_to_rex, Tick, bidVars
  <2> HIDE DEF Rows, Owned
  <2> QED
    BY <1>1, <2>2, <2>3, <2>4, <2>5, <2>6, <2>7 DEF BidNext
<1>2. BidSpec => [][ClosedStep]_bidVars
  BY <1>1, AuctionInvariance, PTL DEF BidSpec
<1> QED
  BY <1>2 DEF ClosedIsFinal, ClosedStep
=============================================================================
