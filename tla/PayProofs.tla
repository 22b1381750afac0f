------------------------------ MODULE PayProofs ------------------------------
(***************************************************************************)
(* Proofs about the pay of the producers and the block information that    *)
(* onblock keeps.                                                          *)
(***************************************************************************)
EXTENDS ProducerPay, SumTheorems

\* The last recorded block, and the rows the table still has of the window that ends with it.
IsLatest(l) ==
    /\ \A g \in DOMAIN recorded : g <= l
    /\ \A g \in DOMAIN recorded : g > l - rolling_window_size => g \in DOMAIN blockinfo

\* The table is a part of the history, holds no more rows than the window, and misses no recorded
\* block of the window of the last one.
TableInv ==
    /\ height \in Nat
    /\ DOMAIN recorded \subseteq 1..height
    /\ DOMAIN blockinfo \subseteq DOMAIN recorded
    /\ \A g \in DOMAIN blockinfo : blockinfo[g] = recorded[g]
    /\ Cardinality(DOMAIN blockinfo) <= rolling_window_size
    /\ DOMAIN recorded # {} => \E l \in DOMAIN recorded : IsLatest(l)

\* Nobody without a row is owed anything.
NoRowNoPay == \A p \in Names \ rows : payments[p] = 0

\* No more blocks are counted than the chain has.
CountsInv == /\ total_unpaid_blocks <= height
             /\ \A p \in Names : unpaid[p] <= height

\* The inductive invariant.
IInv == TypeOK /\ TableInv /\ NoRowNoPay /\ CountsInv /\ BpayIsAccounted
-----------------------------------------------------------------------------
\* Numbers.

LEMMA MultipleIsUnique ==
  ASSUME NEW n \in Nat, NEW m \in Nat, NEW s \in Nat \ {0}, NEW a \in Nat,
         n * s <= a, a < n * s + s, m * s <= a, a < m * s + s
  PROVE  n = m
OBVIOUS

\* The closed formula grows by the multiplier of the rank that is added.
LEMMA SumGrows ==
  ASSUME NEW n \in 1..35
  PROVE  SumOfMultipliers(n) = SumOfMultipliers(n - 1) + Multiplier(n)
<1>1. CASE n <= 21
  BY <1>1 DEF SumOfMultipliers, Multiplier
<1>2. CASE n > 21
  <2>1. n \in 22..35
    BY <1>2
  <2> QED
    BY <2>1 DEF SumOfMultipliers, Multiplier
<1> QED
  BY <1>1, <1>2
-----------------------------------------------------------------------------
\* The table blockinfo.

LEMMA TableInit == BlockInfoInit => TableInv
<1> SUFFICES ASSUME BlockInfoInit PROVE TableInv
  OBVIOUS
<1>1. DOMAIN blockinfo = {} /\ DOMAIN recorded = {} /\ height = 0
  BY DEF BlockInfoInit
<1>2. Cardinality(DOMAIN blockinfo) = 0
  BY <1>1, FS_EmptySet
<1> QED
  BY <1>1, <1>2, BlockInfoAssumption DEF TableInv, IsLatest

\* A block whose onblock succeeds.
LEMMA TableRow ==
  ASSUME TableInv, NEW time, add_to_blockinfo_table(time), height' = height + 1
  PROVE  TableInv'
<1> USE BlockInfoAssumption
<1> DEFINE h == height + 1
           t == With(blockinfo, h, time)
           W == rolling_window_size
<1>1. /\ DOMAIN t = DOMAIN blockinfo \cup {h}
      /\ \A g \in DOMAIN t : t[g] = IF g = h THEN time ELSE blockinfo[g]
  BY DEF With
<1>2. /\ DOMAIN recorded' = DOMAIN recorded \cup {h}
      /\ \A g \in DOMAIN recorded' : recorded'[g] = IF g = h THEN time ELSE recorded[g]
  BY DEF add_to_blockinfo_table, With
<1>3. /\ DOMAIN blockinfo' = DOMAIN t \ Pruned(t, h)
      /\ \A g \in DOMAIN blockinfo' : blockinfo'[g] = t[g]
  BY DEF add_to_blockinfo_table
<1>4. height \in Nat /\ h \in Nat /\ W \in Nat \ {0}
  BY DEF TableInv
<1>6. Prunable(h) \in Nat /\ Prunable(h) < h /\ h - Prunable(h) <= W
  BY <1>4 DEF Prunable, Larger
<1>7. DOMAIN t \subseteq 1..h
  BY <1>1, <1>4 DEF TableInv
<1>8. Pruned(t, h) \subseteq {g \in DOMAIN t : g <= Prunable(h)}
  BY DEF Pruned
<1> HIDE DEF t, h, W
<1>9. IsFiniteSet(DOMAIN t) /\ Cardinality(DOMAIN t) <= W + 1 /\ Cardinality(DOMAIN t) \in Nat
  <2>1. DOMAIN blockinfo \subseteq 1..height /\ IsFiniteSet(1..height)
    <3>1. IsFiniteSet(1..height)
      BY <1>4, FS_Interval, 1 \in Int, height \in Int
    <3> QED
      BY <3>1 DEF TableInv
  <2>2. IsFiniteSet(DOMAIN blockinfo)
    BY <2>1, FS_Subset
  <2>3. /\ IsFiniteSet(DOMAIN blockinfo \cup {h})
        /\ Cardinality(DOMAIN blockinfo \cup {h}) =
              IF h \in DOMAIN blockinfo THEN Cardinality(DOMAIN blockinfo)
                                        ELSE Cardinality(DOMAIN blockinfo) + 1
    BY <2>2, FS_AddElement
  <2>4. Cardinality(DOMAIN blockinfo) \in Nat
    BY <2>2, FS_CardinalityType
  <2>5. Cardinality(DOMAIN blockinfo) <= W
    BY DEF TableInv, W
  <2>6. Cardinality(DOMAIN t) \in Nat
    BY <1>1, <2>3, FS_CardinalityType
  <2> QED
    BY <1>1, <1>4, <2>3, <2>4, <2>5, <2>6
<1>10. Cardinality(DOMAIN blockinfo') <= W
  <2>1. CASE \A g \in DOMAIN t : g > Prunable(h)
    <3>1. DOMAIN blockinfo' \subseteq (Prunable(h) + 1)..h
      BY <1>3, <1>4, <1>6, <1>7, <2>1
    <3>2. /\ IsFiniteSet((Prunable(h) + 1)..h)
          /\ Cardinality((Prunable(h) + 1)..h) = h - Prunable(h)
      <4>1. Prunable(h) + 1 \in Int /\ h \in Int /\ ~(Prunable(h) + 1 > h)
        BY <1>4, <1>6
      <4>2. h - (Prunable(h) + 1) + 1 = h - Prunable(h)
        BY <1>4, <1>6
      <4> QED
        BY <4>1, <4>2, FS_Interval
    <3>3. Cardinality(DOMAIN blockinfo') <= Cardinality((Prunable(h) + 1)..h)
      BY <3>1, <3>2, FS_Subset
    <3>4. IsFiniteSet(DOMAIN blockinfo')
      BY <3>1, <3>2, FS_Subset
    <3>5. Cardinality(DOMAIN blockinfo') \in Nat
      BY <3>4, FS_CardinalityType
    <3> QED
      BY <1>4, <1>6, <3>2, <3>3, <3>5
  <2>2. CASE \E g \in DOMAIN t : ~(g > Prunable(h))
    <3>1. DOMAIN t \in SUBSET Nat /\ DOMAIN t # {}
      BY <1>4, <1>7, <2>2
    <3>2. PICK m \in DOMAIN t : \A g \in DOMAIN t : m <= g
      BY <3>1, LeastNatural
    <3>3. m <= Prunable(h)
      BY <1>6, <2>2, <3>1, <3>2
    <3>4. {i \in DOMAIN t : i < m} = {}
      BY <3>1, <3>2
    <3>5. Cardinality({i \in DOMAIN t : i < m}) < PruneMax
      BY <3>4, FS_EmptySet
    <3>6. m \in Pruned(t, h)
      BY <3>3, <3>5 DEF Pruned
    <3>7. DOMAIN blockinfo' \subseteq DOMAIN t \ {m}
      BY <1>3, <3>6
    <3>8. IsFiniteSet(DOMAIN t \ {m}) /\ Cardinality(DOMAIN t \ {m}) = Cardinality(DOMAIN t) - 1
      BY <1>9, <3>2, FS_RemoveElement
    <3>9. IsFiniteSet(DOMAIN blockinfo') /\ Cardinality(DOMAIN blockinfo') <= Cardinality(DOMAIN t \ {m})
      BY <3>7, <3>8, FS_Subset
    <3>10. Cardinality(DOMAIN blockinfo') \in Nat
      BY <3>9, FS_CardinalityType
    <3> QED
      BY <1>4, <1>9, <3>8, <3>9, <3>10
  <2> QED
    BY <2>1, <2>2
<1>11. h \in DOMAIN blockinfo'
  BY <1>1, <1>3, <1>4, <1>6, <1>8
<1>12. /\ DOMAIN recorded' \subseteq 1..h
       /\ DOMAIN blockinfo' \subseteq DOMAIN recorded'
       /\ \A g \in DOMAIN blockinfo' : blockinfo'[g] = recorded'[g]
  <2>1. h \notin DOMAIN recorded
    BY <1>4 DEF TableInv, h
  <2>2. DOMAIN recorded' \subseteq 1..h
    BY <1>2, <1>4 DEF TableInv, h
  <2>3. DOMAIN blockinfo' \subseteq DOMAIN recorded'
    BY <1>1, <1>2, <1>3 DEF TableInv
  <2>4. ASSUME NEW g \in DOMAIN blockinfo' PROVE blockinfo'[g] = recorded'[g]
    BY <1>1, <1>2, <1>3, <2>3 DEF TableInv
  <2> QED
    BY <2>2, <2>3, <2>4
<1>13. \E l \in DOMAIN recorded' : IsLatest(l)'
  <2>1. h \in DOMAIN recorded'
    BY <1>2
  <2>2. \A g \in DOMAIN recorded' : g <= h
    BY <1>12, <1>4
  <2>3. ASSUME NEW g \in DOMAIN recorded', g > h - W PROVE g \in DOMAIN blockinfo'
    <3>1. CASE g = h
      BY <3>1, <1>11
    <3>2. CASE g # h
      <4>1. g \in DOMAIN recorded /\ g \in 1..height
        BY <1>2, <3>2 DEF TableInv
      <4>2. PICK l \in DOMAIN recorded : IsLatest(l)
        BY <4>1 DEF TableInv
      <4>3. l \in 1..height
        BY DEF TableInv
      <4>4. g > l - W
        BY <1>4, <2>3, <4>1, <4>3 DEF h
      <4>5. g \in DOMAIN blockinfo
        BY <4>1, <4>2, <4>4 DEF IsLatest, W
      <4>6. g \notin Pruned(t, h)
        <5>1. g > Prunable(h)
          BY <1>4, <1>6, <2>3, <4>1 DEF Prunable, Larger, W
        <5> QED
          BY <1>6, <1>8, <4>1, <5>1
      <4> QED
        BY <1>1, <1>3, <4>5, <4>6
    <3> QED
      BY <3>1, <3>2
  <2> QED
    BY <2>1, <2>2, <2>3 DEF IsLatest, W
<1> QED
  BY <1>4, <1>10, <1>12, <1>13 DEF TableInv, W, h

\* What other contracts read in the table is true.
LEMMA TableIsTrue == TableInv => BatchesAreTrue
<1> SUFFICES ASSUME TableInv, NEW offset \in DOMAIN recorded, NEW size \in BatchSizes
             PROVE  BatchesAreTrue!2!(offset, size)
  BY DEF TableInv, BatchesAreTrue
<1> DEFINE W == rolling_window_size
           last == CHOOSE h \in DOMAIN recorded : \A g \in DOMAIN recorded : g <= h
           Starts(h) == (\E n \in 0..last : h = offset + n * size) /\ h + size > last
           start == CHOOSE h \in offset..last : Starts(h)
           there == LatestRow - ((LatestRow - offset) % size)
           answer == get_latest_block_batch_info(offset, size)
<1>1. W \in Nat \ {0} /\ size \in Nat \ {0} /\ height \in Nat /\ DOMAIN recorded \subseteq 1..height
  BY BlockInfoAssumption DEF TableInv
<1>2. PICK l \in DOMAIN recorded : IsLatest(l)
  BY DEF TableInv
<1>3. offset \in Nat /\ offset > 0 /\ l \in Nat /\ offset <= l
  BY <1>1, <1>2 DEF IsLatest
<1>4. last = l
  <2>1. \A h \in DOMAIN recorded : (\A g \in DOMAIN recorded : g <= h) => h = l
    BY <1>1, <1>2 DEF IsLatest
  <2>2. \A g \in DOMAIN recorded : g <= l
    BY <1>2 DEF IsLatest
  <2>3. last \in DOMAIN recorded /\ \A g \in DOMAIN recorded : g <= last
    BY <2>2
  <2> QED
    BY <2>1, <2>3
<1>5. l \in DOMAIN blockinfo
  <2>1. l > l - rolling_window_size
    BY <1>1, <1>3
  <2> QED
    BY <1>2, <2>1 DEF IsLatest
<1>6. LatestRow = l
  <2>1. \A g \in DOMAIN blockinfo : g \in DOMAIN recorded /\ g <= l
    BY <1>2 DEF IsLatest, TableInv
  <2>2. \A h \in DOMAIN blockinfo : (\A g \in DOMAIN blockinfo : g <= h) => h = l
    BY <1>1, <1>3, <1>5, <2>1
  <2>3. LatestRow \in DOMAIN blockinfo /\ \A g \in DOMAIN blockinfo : g <= LatestRow
    BY <1>5, <2>1 DEF LatestRow
  <2> QED
    BY <2>2, <2>3
<1>7. start = there /\ there \in Nat /\ there >= offset
  <2> DEFINE a == l - offset
             q == a \div size
             r == a % size
  <2>1. a \in Nat /\ a <= l
    BY <1>3
  <2>2. q \in Nat /\ r \in 0..(size - 1) /\ a = q * size + r /\ q <= a
    <3> HIDE DEF a
    <3> QED
      BY <1>1, <2>1, DivMod
  <2>3. there = l - r
    BY <1>6
  <2> HIDE DEF q, r, there
  <2>4. q * size \in Nat
    BY <1>1, <2>2
  <2>5. there = offset + q * size /\ there \in offset..l /\ there + size > l /\ q \in 0..l
    BY <1>1, <1>3, <2>2, <2>3, <2>4 DEF a
  <2>6. there \in offset..last /\ Starts(there)
    BY <1>4, <2>5
  <2>7. ASSUME NEW h \in offset..last, Starts(h) PROVE h = there
    <3>1. PICK n \in 0..l : h = offset + n * size
      BY <1>4, <2>7
    <3>2. n \in Nat /\ n * size \in Nat
      BY <1>1, <1>3, <3>1
    <3>3. h <= l /\ h + size > l /\ h \in Int
      <4>1. h + size > last /\ h \in offset..last
        BY <2>7
      <4> HIDE DEF last
      <4> QED
        BY <1>3, <1>4, <4>1
    <3>4. n * size <= a /\ a < n * size + size
      BY <1>1, <1>3, <3>1, <3>2, <3>3
    <3>5. q * size <= a /\ a < q * size + size
      BY <1>1, <2>2, <2>4
    <3>6. n = q
      <4> HIDE DEF a
      <4> QED
        BY <1>1, <2>1, <2>2, <3>2, <3>4, <3>5, MultipleIsUnique
    <3> QED
      BY <2>5, <3>1, <3>6
  <2>8. start \in offset..last /\ Starts(start)
    <3> HIDE DEF Starts, last
    <3> QED
      BY <2>6
  <2>9. start = there
    <3> HIDE DEF Starts, start, last
    <3> QED
      BY <2>7, <2>8
  <2> QED
    BY <1>3, <2>5, <2>9
<1>8. answer = IF there \notin DOMAIN blockinfo THEN NoResult
               ELSE [start |-> there, startTime |-> blockinfo[there], end |-> l, endTime |-> blockinfo[l]]
  <2>1. size # 0 /\ DOMAIN blockinfo # {} /\ ~(LatestRow < offset)
    BY <1>1, <1>3, <1>5, <1>6
  <2> QED
    BY <2>1, <1>6 DEF get_latest_block_batch_info
<1>9. CASE there \notin DOMAIN blockinfo
  <2>1. there \in DOMAIN recorded => there <= l - W
    <3>1. there \in DOMAIN recorded => ~(there > l - W)
      BY <1>2, <1>9 DEF IsLatest
    <3> HIDE DEF there
    <3> QED
      BY <3>1, <1>7, <1>1, <1>3
  <2>2. answer = NoResult
    BY <1>8, <1>9
  <2> HIDE DEF answer, start, last, there
  <2>3. start \notin DOMAIN recorded \/ start <= last - W
    BY <1>4, <1>7, <2>1
  <2> QED
    BY <2>2, <2>3 DEF answer, start, last
<1>10. CASE there \in DOMAIN blockinfo
  <2> HIDE DEF answer, start, last, there
  <2>1. answer # NoResult
    <3>1. answer.start = there /\ NoResult.start = 0
      BY <1>8, <1>10 DEF NoResult
    <3> QED
      BY <3>1, <1>7, <1>3
  <2>2. answer.end = last /\ answer.endTime = recorded[last]
    BY <1>4, <1>5, <1>8, <1>10 DEF TableInv
  <2>3. answer.start = start /\ answer.startTime = recorded[start]
    BY <1>7, <1>8, <1>10 DEF TableInv
  <2> QED
    BY <2>1, <2>2, <2>3 DEF answer, start, last
<1> QED
  BY <1>9, <1>10
-----------------------------------------------------------------------------
\* The order of the producers.

LEMMA NamesFinite == IsFiniteSet(Names)
<1> DEFINE n == Len(Producers)
<1>1. n \in Nat /\ DOMAIN Producers = 1..n
  BY PayAssumption
<1>2. Producers \in Surjection(1..n, Names)
  BY <1>1, PayAssumption DEF Names, Range, Surjection
<1>3. IsFiniteSet(1..n)
  BY <1>1, FS_Interval, 1 \in Int, n \in Int
<1> QED
  BY <1>2, <1>3, FS_Surjection

\* The keys are numbers, and no two producers have the same place among the names.
LEMMA Keys ==
  ASSUME TypeOK, NEW p \in Names, NEW q \in Names
  PROVE  Key(p) \in Int /\ NameOf(p) \in Int /\ (NameOf(p) = NameOf(q) => p = q)
<1>1. Key(p) \in Int
  <2>1. votes[p] \in Nat
    <3>1. votes \in [Names -> Votes] /\ Votes \subseteq Nat
      BY PayAssumption DEF TypeOK
    <3> QED
      BY <3>1
  <2> QED
    BY <2>1 DEF Key
<1>2. DOMAIN Producers = 1..Len(Producers) /\ Len(Producers) \in Nat
  BY PayAssumption
<1>3. NameOf(p) \in DOMAIN Producers /\ Producers[NameOf(p)] = p
  BY DEF Names, Range, NameOf
<1>4. NameOf(q) \in DOMAIN Producers /\ Producers[NameOf(q)] = q
  BY DEF Names, Range, NameOf
<1> QED
  BY <1>1, <1>2, <1>3, <1>4

\* The index orders the producers: strictly and totally.
LEMMA Order ==
  ASSUME TypeOK, NEW p \in Names, NEW q \in Names, NEW r \in Names
  PROVE  /\ ~Before(p, p)
         /\ Before(p, q) /\ Before(q, r) => Before(p, r)
         /\ p # q => Before(p, q) \/ Before(q, p)
<1>1. /\ Key(p) \in Int /\ Key(q) \in Int /\ Key(r) \in Int
      /\ NameOf(p) \in Int /\ NameOf(q) \in Int /\ NameOf(r) \in Int
      /\ NameOf(p) = NameOf(q) => p = q
  BY Keys
<1> QED
  BY <1>1 DEF Before

\* The active producers at or in front of one of them.
Ahead(p) == {q \in active : q = p \/ Before(q, p)}

LEMMA AheadFinite ==
  ASSUME TypeOK, NEW p \in active
  PROVE  /\ IsFiniteSet(active) /\ Cardinality(active) \in Nat
         /\ IsFiniteSet(Ahead(p)) /\ Rank(p) \in 1..Cardinality(active)
         /\ Rank(p) = Cardinality(Ahead(p))
<1>1. IsFiniteSet(active) /\ Ahead(p) \subseteq active
  BY NamesFinite, FS_Subset DEF TypeOK, Ahead
<1>2. /\ IsFiniteSet(Ahead(p)) /\ Cardinality(Ahead(p)) <= Cardinality(active)
  BY <1>1, FS_Subset
<1>3. Cardinality(active) \in Nat /\ Cardinality(Ahead(p)) \in Nat
  BY <1>1, <1>2, FS_CardinalityType
<1>4. Cardinality(Ahead(p)) # 0
  <2>1. Ahead(p) # {}
    BY DEF Ahead
  <2> QED
    BY <1>2, <2>1, FS_EmptySet
<1>5. Rank(p) = Cardinality(Ahead(p))
  BY DEF Rank, Ahead
<1> QED
  BY <1>1, <1>2, <1>3, <1>4, <1>5

\* A producer in front of another has a smaller rank.
LEMMA RankGrows ==
  ASSUME TypeOK, NEW p \in active, NEW q \in active, Before(p, q)
  PROVE  Rank(p) < Rank(q)
<1>1. p \in Names /\ q \in Names /\ active \subseteq Names
  BY DEF TypeOK
<1>2. Ahead(p) \subseteq Ahead(q)
  <2> SUFFICES ASSUME NEW x \in Ahead(p) PROVE x \in Ahead(q)
    OBVIOUS
  <2>1. x \in active /\ (x = p \/ Before(x, p))
    BY DEF Ahead
  <2>2. Before(x, q)
    BY <1>1, <2>1, Order
  <2> QED
    BY <2>1, <2>2 DEF Ahead
<1>3. q \in Ahead(q) /\ q \notin Ahead(p)
  <2>1. q # p /\ ~Before(q, p)
    BY <1>1, Order
  <2> QED
    BY <2>1 DEF Ahead
<1>4. Ahead(p) # Ahead(q)
  BY <1>3
<1>5. IsFiniteSet(Ahead(q)) /\ Rank(q) = Cardinality(Ahead(q)) /\ Rank(p) = Cardinality(Ahead(p))
  BY AheadFinite
<1>6. Cardinality(Ahead(p)) < Cardinality(Ahead(q))
  <2>1. Cardinality(Ahead(p)) <= Cardinality(Ahead(q)) /\ IsFiniteSet(Ahead(p))
    BY <1>2, <1>5, FS_Subset
  <2>2. Cardinality(Ahead(p)) # Cardinality(Ahead(q))
    BY <1>2, <1>4, <1>5, FS_Subset
  <2>3. Cardinality(Ahead(p)) \in Nat /\ Cardinality(Ahead(q)) \in Nat
    BY <1>5, <2>1, FS_CardinalityType
  <2> QED
    BY <2>1, <2>2, <2>3
<1> QED
  BY <1>5, <1>6

\* No two active producers have the same rank.
LEMMA RankIsUnique ==
  ASSUME TypeOK, NEW p \in active, NEW q \in active, Rank(p) = Rank(q)
  PROVE  p = q
<1> SUFFICES ASSUME p # q PROVE FALSE
  OBVIOUS
<1>1. p \in Names /\ q \in Names
  BY DEF TypeOK
<1>2. Before(p, q) \/ Before(q, p)
  BY <1>1, Order
<1>3. Rank(p) < Rank(q) \/ Rank(q) < Rank(p)
  BY <1>2, RankGrows
<1>4. Rank(p) \in Int
  BY AheadFinite
<1> QED
  BY <1>3, <1>4

\* The number of producers counted.
LEMMA CountType ==
  ASSUME TypeOK
  PROVE  ActiveCount \in 0..35
<1> DEFINE C == {p \in active : \A q \in Names \ active : Before(p, q)}
<1>1. IsFiniteSet(active) /\ C \subseteq active
  BY NamesFinite, FS_Subset DEF TypeOK
<1>2. Cardinality(C) \in Nat
  BY <1>1, FS_Subset, FS_CardinalityType
<1>3. MAX_PRODUCERS \in 1..35
  BY PayAssumption
<1> HIDE DEF C
<1>4. Least(MAX_PRODUCERS, Cardinality(C)) \in 0..35
  BY <1>2, <1>3 DEF Least
<1> QED
  BY <1>4 DEF ActiveCount, C

\* While everybody who has left has votes, every active producer is counted, so that nobody is
\* paid who was not.
LEMMA PaidAreCounted ==
  ASSUME TypeOK, \A p \in Names \ active : votes[p] > 0, NEW p \in Paid
  PROVE  Rank(p) \in 1..ActiveCount
<1> DEFINE C == {r \in active : \A q \in Names \ active : Before(r, q)}
<1>1. p \in active /\ active \subseteq Names /\ Rank(p) <= MAX_PRODUCERS
  BY DEF Paid, TypeOK
<1>2. Rank(p) \in 1..Cardinality(active) /\ Cardinality(active) \in Nat
  BY <1>1, AheadFinite
<1>3. ASSUME NEW r \in active, NEW q \in Names \ active PROVE Before(r, q)
  <2>1. Key(r) = 0 - votes[r] /\ Key(q) = votes[q]
    BY <1>3 DEF Key
  <2>2. votes[r] \in Nat /\ votes[q] \in Nat /\ votes[q] > 0
    BY <1>1, PayAssumption DEF TypeOK
  <2> QED
    BY <2>1, <2>2 DEF Before
<1>4. C = active
  BY <1>3
<1>5. ActiveCount = Least(MAX_PRODUCERS, Cardinality(active))
  <2>1. ActiveCount = Least(MAX_PRODUCERS, Cardinality(C))
    BY DEF ActiveCount
  <2> QED
    BY <2>1, <1>4
<1>6. MAX_PRODUCERS \in Nat
  BY PayAssumption
<1> QED
  BY <1>1, <1>2, <1>5, <1>6 DEF Least
-----------------------------------------------------------------------------
\* The split of the bucket.

LEMMA MultiplierType ==
  ASSUME NEW i \in 1..35
  PROVE  Multiplier(i) \in Nat \ {0}
BY DEF Multiplier

LEMMA SumOfMultipliersType ==
  ASSUME NEW n \in 0..35
  PROVE  SumOfMultipliers(n) \in Nat /\ (n > 0 => SumOfMultipliers(n) > 0)
<1>1. CASE n <= 21
  <2>1. n \in 0..21
    BY <1>1
  <2> QED
    BY <2>1 DEF SumOfMultipliers
<1>2. CASE n > 21
  <2>1. n \in 22..35
    BY <1>2
  <2> QED
    BY <2>1 DEF SumOfMultipliers
<1> QED
  BY <1>1, <1>2

\* A share is an integer, and of a bucket that is not overdrawn the part that is due, or less.
LEMMA ShareType ==
  ASSUME NEW b \in Int, NEW i \in 1..35, NEW n \in 1..35
  PROVE  Share(b, i, n) \in Int
<1>1. SumOfMultipliers(n) \in Nat \ {0} /\ b * Multiplier(i) \in Int
  BY SumOfMultipliersType, MultiplierType
<1> DEFINE x == b * Multiplier(i)
           s == SumOfMultipliers(n)
<1> HIDE DEF x, s
<1>2. x \in Int /\ s \in Nat \ {0}
  BY <1>1 DEF x, s
<1>3. Truncated(x, s) \in Int
  BY <1>2 DEF Truncated
<1> QED
  BY <1>3 DEF Share, x, s

LEMMA ShareIsDue ==
  ASSUME NEW b \in Nat, NEW i \in 1..35, NEW n \in 1..35
  PROVE  Share(b, i, n) * SumOfMultipliers(n) <= b * Multiplier(i)
<1> DEFINE x == b * Multiplier(i)
           s == SumOfMultipliers(n)
<1>1. x \in Nat /\ s \in Nat \ {0}
  BY SumOfMultipliersType, MultiplierType
<1>2. Share(b, i, n) = Truncated(x, s)
  BY DEF Share
<1> HIDE DEF x, s
<1>3. Truncated(x, s) = x \div s
  BY <1>1 DEF Truncated
<1>4. x \div s \in Nat /\ x = (x \div s) * s + (x % s) /\ x % s \in 0..(s - 1)
  BY <1>1, DivMod
<1>5. (x \div s) * s <= x
  <2> DEFINE q == (x \div s) * s
  <2>1. q \in Nat
    BY <1>1, <1>4
  <2> HIDE DEF q
  <2>2. q <= x
    BY <1>1, <1>4, <2>1 DEF q
  <2> QED
    BY <2>2 DEF q
<1> QED
  BY <1>2, <1>3, <1>5 DEF x, s

\* The producers paid up to rank k.
PaidUpTo(k) == {p \in Paid : Rank(p) <= k}

\* What rank k + 1 adds to the producers paid.
LEMMA OneRankMore ==
  ASSUME TypeOK, NEW k \in Nat
  PROVE  \/ PaidUpTo(k + 1) = PaidUpTo(k)
         \/ \E p \in Paid : /\ Rank(p) = k + 1 /\ p \notin PaidUpTo(k)
                            /\ PaidUpTo(k + 1) = PaidUpTo(k) \cup {p}
<1>1. \A p \in Paid : p \in active /\ Rank(p) \in Nat
  BY AheadFinite DEF Paid
<1>2. \A p \in Paid : p \in PaidUpTo(k + 1) <=> p \in PaidUpTo(k) \/ Rank(p) = k + 1
  BY <1>1 DEF PaidUpTo
<1>3. CASE \E p \in Paid : Rank(p) = k + 1
  <2>1. PICK p \in Paid : Rank(p) = k + 1
    BY <1>3
  <2>2. \A q \in Paid : Rank(q) = k + 1 => q = p
    BY <1>1, <2>1, RankIsUnique
  <2>3. p \notin PaidUpTo(k)
    BY <2>1 DEF PaidUpTo
  <2>4. PaidUpTo(k + 1) = PaidUpTo(k) \cup {p}
    BY <1>2, <2>1, <2>2 DEF PaidUpTo
  <2> QED
    BY <2>1, <2>3, <2>4
<1>4. CASE ~\E p \in Paid : Rank(p) = k + 1
  BY <1>2, <1>4 DEF PaidUpTo
<1> QED
  BY <1>3, <1>4

\* Producers that were all counted together get no more than the bucket.
LEMMA SplitWithin ==
  ASSUME TypeOK, NEW b \in Nat, NEW n \in 1..35, \A p \in Paid : Rank(p) \in 1..n
  PROVE  SumOf([p \in Paid |-> Share(b, Rank(p), n)], Paid) <= b
<1> DEFINE share == [p \in Paid |-> Share(b, Rank(p), n)]
           S == SumOfMultipliers(n)
           T(k) == SumOf(share, PaidUpTo(k))
           G == {k \in Nat : k <= n => T(k) * S <= b * SumOfMultipliers(k)}
<1>1. S \in Nat \ {0}
  BY SumOfMultipliersType
<1>2. \A p \in Paid : share[p] \in Int /\ share[p] * S <= b * Multiplier(Rank(p))
  <2> SUFFICES ASSUME NEW p \in Paid
               PROVE  share[p] \in Int /\ share[p] * S <= b * Multiplier(Rank(p))
    OBVIOUS
  <2>1. Rank(p) \in 1..35
    OBVIOUS
  <2>2. Share(b, Rank(p), n) \in Int
    <3>1. b \in Int
      OBVIOUS
    <3> QED
      BY <2>1, <3>1, ShareType, Zenon
  <2>3. Share(b, Rank(p), n) * S <= b * Multiplier(Rank(p))
    BY <2>1, ShareIsDue, Zenon
  <2>4. share[p] = Share(b, Rank(p), n)
    OBVIOUS
  <2> QED
    BY <2>2, <2>3, <2>4, Zenon
<1>3. \A k \in Nat : IsFiniteSet(PaidUpTo(k)) /\ PaidUpTo(k) \subseteq Paid
  <2>1. PaidUpTo(0) \subseteq Names
    BY DEF PaidUpTo, Paid, TypeOK
  <2> QED
    BY NamesFinite, FS_Subset DEF PaidUpTo, Paid, TypeOK
<1> HIDE DEF share, S
<1>4. \A k \in Nat : T(k) \in Int
  BY <1>2, <1>3, SumOfType
<1>5. 0 \in G
  <2>1. PaidUpTo(0) = {}
    BY DEF PaidUpTo
  <2>2. T(0) = 0
    BY <2>1, SumOfNone
  <2>3. b * SumOfMultipliers(0) \in Nat
    BY SumOfMultipliersType
  <2> QED
    BY <1>1, <2>2, <2>3
<1>6. ASSUME NEW k \in Nat, k \in G PROVE k + 1 \in G
  <2> SUFFICES ASSUME k + 1 <= n PROVE T(k + 1) * S <= b * SumOfMultipliers(k + 1)
    OBVIOUS
  <2>1. k + 1 \in 1..35 /\ k \in 0..35 /\ k <= n
    OBVIOUS
  <2> DEFINE c == SumOfMultipliers(k)
             m == Multiplier(k + 1)
             t == T(k)
  <2>2. SumOfMultipliers(k + 1) = c + m /\ c \in Nat /\ m \in Nat
    <3>1. SumOfMultipliers(k + 1) = SumOfMultipliers((k + 1) - 1) + Multiplier(k + 1)
      BY <2>1, SumGrows
    <3>2. (k + 1) - 1 = k
      OBVIOUS
    <3> QED
      BY <2>1, <3>1, <3>2, SumOfMultipliersType, MultiplierType
  <2>3. t * S <= b * c /\ t \in Int
    BY <1>4, <1>6, <2>1
  <2> HIDE DEF c, m, t
  <2>4. CASE PaidUpTo(k + 1) = PaidUpTo(k)
    <3>1. T(k + 1) = t
      BY <2>4 DEF t
    <3>2. t * S <= b * (c + m)
      <4>1. b * c \in Nat /\ b * m \in Nat /\ b * (c + m) = b * c + b * m /\ t * S \in Int
        BY <1>1, <2>2, <2>3
      <4> QED
        BY <2>3, <4>1
    <3> QED
      BY <2>2, <3>1, <3>2
  <2>5. CASE \E p \in Paid : /\ Rank(p) = k + 1 /\ p \notin PaidUpTo(k)
                             /\ PaidUpTo(k + 1) = PaidUpTo(k) \cup {p}
    <3>1. PICK p \in Paid : /\ Rank(p) = k + 1 /\ p \notin PaidUpTo(k)
                            /\ PaidUpTo(k + 1) = PaidUpTo(k) \cup {p}
      BY <2>5
    <3>2. \A x \in PaidUpTo(k) \cup {p} : share[x] \in Int
      BY <1>2, <1>3
    <3>3. T(k + 1) = t + share[p]
      BY <1>3, <3>1, <3>2, SumOfOneMore DEF t
    <3> DEFINE y == share[p]
    <3>4. y \in Int /\ y * S <= b * m
      BY <1>2, <3>1 DEF m
    <3> HIDE DEF y
    <3>5. (t + y) * S <= b * (c + m)
      <4>1. (t + y) * S = t * S + y * S /\ b * (c + m) = b * c + b * m
        BY <1>1, <2>2, <2>3, <3>4
      <4>2. t * S \in Int /\ y * S \in Int /\ b * c \in Int /\ b * m \in Int
        BY <1>1, <2>2, <2>3, <3>4
      <4> QED
        BY <2>3, <3>4, <4>1, <4>2
    <3> QED
      BY <2>2, <3>3, <3>5 DEF y
  <2> QED
    BY <2>4, <2>5, OneRankMore
<1>7. n \in G
  <2> HIDE DEF G
  <2>1. \A k \in Nat : k \in G
    BY <1>5, <1>6, Counting
  <2> QED
    BY <2>1
<1>8. T(n) * S <= b * S
  BY <1>7 DEF S
<1>9. T(n) \in Int
  BY <1>4
<1>10. PaidUpTo(n) = Paid
  BY DEF PaidUpTo
<1> DEFINE t == T(n)
<1>11. t \in Int /\ t * S <= b * S
  BY <1>8, <1>9
<1> HIDE DEF t
<1>12. t <= b
  <2>1. t >= b + 1 => t * S >= (b + 1) * S
    BY <1>1, <1>11
  <2>2. (b + 1) * S = b * S + S /\ b * S \in Int /\ t * S \in Int
    BY <1>1, <1>11
  <2> QED
    BY <1>1, <1>11, <2>1, <2>2
<1> QED
  BY <1>10, <1>12 DEF t, share
-----------------------------------------------------------------------------
\* The steps.

\* A block whose onblock fails leaves a gap.
LEMMA TableGap ==
  ASSUME TableInv, height' \in Nat, height' >= height, UNCHANGED <<blockinfo, recorded>>
  PROVE  TableInv'
<1>1. \A l : IsLatest(l)' <=> IsLatest(l)
  BY DEF IsLatest
<1>2. 1..height \subseteq 1..height'
  BY DEF TableInv
<1> QED
  BY <1>1, <1>2 DEF TableInv

LEMMA InitInv == Init => IInv
<1> SUFFICES ASSUME Init PROVE IInv
  OBVIOUS
<1> USE PayAssumption
<1>1. TypeOK
  BY DEF Init, TypeOK, BlockInfoInit
<1>2. TableInv
  BY TableInit DEF Init
<1>3. NoRowNoPay /\ CountsInv
  BY DEF Init, NoRowNoPay, CountsInv, BlockInfoInit
<1>4. BpayIsAccounted
  <2>1. SumOf(payments, rows) = 0
    BY SumOfNone DEF Init
  <2>2. \A x \in Names : unpaid[x] = 0
    BY DEF Init
  <2>3. SumOf(unpaid, Names) = SumOf(unpaid, {})
    BY <2>2, NamesFinite, SumOfSupport
  <2>4. SumOf(unpaid, {}) = 0
    BY SumOfNone
  <2> QED
    BY <2>1, <2>3, <2>4 DEF Init, BpayIsAccounted
<1> QED
  BY <1>1, <1>2, <1>3, <1>4 DEF IInv

\* The block itself is counted for its producer, and in the total.
LEMMA BlockCounted ==
  ASSUME IInv, NEW p
  PROVE  /\ Unpaid(p) \in [Names -> Nat] /\ Total(p) \in Nat
         /\ Total(p) <= height + 1 /\ \A q \in Names : Unpaid(p)[q] <= height + 1
         /\ SumOf(Unpaid(p), Names) = Total(p)
<1>1. /\ unpaid \in [Names -> Nat] /\ total_unpaid_blocks \in Nat /\ height \in Nat
      /\ total_unpaid_blocks = SumOf(unpaid, Names)
      /\ total_unpaid_blocks <= height /\ \A q \in Names : unpaid[q] <= height
  BY PayAssumption DEF IInv, TypeOK, CountsInv, BpayIsAccounted
<1>2. Unpaid(p) \in [Names -> Nat] /\ Total(p) \in Nat
  BY <1>1 DEF Unpaid, Total
<1>3. Total(p) <= height + 1 /\ \A q \in Names : Unpaid(p)[q] <= height + 1
  BY <1>1 DEF Unpaid, Total
<1>4. CASE p \notin Names
  <2>1. Unpaid(p) = unpaid /\ Total(p) = total_unpaid_blocks
    BY <1>1, <1>4 DEF Unpaid, Total
  <2> QED
    BY <1>1, <1>2, <1>3, <2>1
<1>5. CASE p \in Names
  <2> DEFINE R == Names \ {p}
  <2>1. IsFiniteSet(R) /\ p \notin R /\ R \cup {p} = Names
    BY <1>5, NamesFinite, FS_Subset
  <2>2. /\ \A x \in R \cup {p} : unpaid[x] \in Int /\ Unpaid(p)[x] \in Int
        /\ \A x \in R : unpaid[x] = Unpaid(p)[x]
        /\ Unpaid(p)[p] = unpaid[p] + 1
    BY <1>1, <1>2, <1>5 DEF Unpaid
  <2> HIDE DEF R
  <2>3. SumOf(unpaid, R) \in Int /\ SumOf(unpaid, R \cup {p}) = SumOf(unpaid, R) + unpaid[p]
    BY <2>1, <2>2, SumOfOneMore
  <2>4. SumOf(Unpaid(p), R \cup {p}) = SumOf(Unpaid(p), R) + Unpaid(p)[p]
    BY <2>1, <2>2, SumOfOneMore
  <2>5. SumOf(unpaid, R) = SumOf(Unpaid(p), R)
    BY <2>2, SumOfSame
  <2>6. SumOf(Unpaid(p), Names) = SumOf(unpaid, Names) + 1
    <3>1. SumOf(unpaid, Names) = SumOf(unpaid, R) + unpaid[p]
      BY <2>1, <2>3
    <3>2. SumOf(Unpaid(p), Names) = SumOf(unpaid, R) + (unpaid[p] + 1)
      BY <2>1, <2>2, <2>4, <2>5
    <3>3. unpaid[p] \in Int
      BY <2>2
    <3> QED
      BY <2>3, <3>1, <3>2, <3>3
  <2> QED
    BY <1>1, <1>2, <1>3, <1>5, <2>6 DEF Total
<1> QED
  BY <1>4, <1>5

\* A block without a snapshot.
LEMMA QuietBlock ==
  ASSUME IInv, NEW p, NEW gap \in Gaps, height < MaxBlocks, NextBlock(gap),
         add_to_blockinfo_table(slot + gap),
         unpaid' = Unpaid(p), total_unpaid_blocks' = Total(p),
         sinceClaim' \in 0..ClaimPeriod,
         UNCHANGED <<perblock_bucket, rows, payments, bpay, tedp, works, self, active, votes, changes>>
  PROVE  IInv'
<1>1. height \in Nat /\ MaxBlocks \in Nat /\ height' = height + 1 /\ height' \in 0..MaxBlocks
  BY PayAssumption DEF IInv, TypeOK, NextBlock
<1>2. /\ unpaid' \in [Names -> 0..MaxBlocks] /\ total_unpaid_blocks' \in 0..MaxBlocks /\ CountsInv'
      /\ total_unpaid_blocks' = SumOf(unpaid', Names)
  BY <1>1, BlockCounted DEF CountsInv
<1>3. TypeOK'
  BY <1>1, <1>2 DEF IInv, TypeOK
<1>4. TableInv'
  BY <1>1, TableRow DEF IInv
<1>5. NoRowNoPay' /\ BpayIsAccounted'
  BY <1>2 DEF IInv, NoRowNoPay, BpayIsAccounted
<1> QED
  BY <1>2, <1>3, <1>4, <1>5 DEF IInv

\* What a fill does to the accounts.
LEMMA FillAccounts ==
  ASSUME IInv, NEW a \in Nat, NEW b \in Nat, Fill(a + b, a, b)
  PROVE  /\ tedp' \in 0..Endowment /\ self' = 0 /\ works' \in Nat
         /\ bpay' = bpay + a /\ bpay' \in Nat
<1>1. /\ tedp \in 0..Endowment /\ self = 0 /\ works \in Nat /\ bpay \in Nat /\ Endowment \in Nat
  BY PayAssumption DEF IInv, TypeOK, BpayIsAccounted
<1> QED
  BY <1>1 DEF Fill, Offset, Issued, Least

\* Shares are integers.
LEMMA SharesAreIntegers ==
  ASSUME TypeOK, ~Traps, NEW bucket \in Int, NEW q \in Paid
  PROVE  Share(bucket, Rank(q), ActiveCount) \in Int
<1>1. q \in active /\ Rank(q) <= MAX_PRODUCERS /\ MAX_PRODUCERS \in 1..35
  BY PayAssumption DEF Paid
<1>2. Rank(q) \in 1..35
  BY <1>1, AheadFinite
<1>3. ActiveCount \in 1..35
  BY CountType DEF Traps
<1> QED
  BY <1>2, <1>3, ShareType

\* What the split sets aside is what the payments grow by.
LEMMA SplitAccounts ==
  ASSUME IInv, ~Traps, NEW bucket \in Int, NEW blocksOf, NEW total, Split(blocksOf, total, bucket)
  PROVE  /\ perblock_bucket' \in Int /\ payments' \in [Names -> Int] /\ rows' \subseteq Names
         /\ NoRowNoPay'
         /\ perblock_bucket' + SumOf(payments', rows') = bucket + SumOf(payments, rows)
<1> DEFINE share == [q \in Paid |-> Share(bucket, Rank(q), ActiveCount)]
           sets == [q \in rows \cup Paid |-> IF q \in Paid THEN share[q] ELSE 0]
<1>1. /\ perblock_bucket' = bucket - SumOf(share, Paid)
      /\ rows' = rows \cup Paid
      /\ payments' = [q \in Names |-> IF q \in Paid THEN payments[q] + share[q] ELSE payments[q]]
  BY DEF Split
<1>2. /\ Paid \subseteq Names /\ rows \subseteq Names /\ payments \in [Names -> Int]
  BY DEF IInv, TypeOK, Paid
<1>3. \A q \in Paid : share[q] \in Int
  BY SharesAreIntegers DEF IInv
<1> HIDE DEF share
<1>4. IsFiniteSet(Paid) /\ IsFiniteSet(rows) /\ IsFiniteSet(rows \cup Paid)
  <2>1. rows \cup Paid \subseteq Names
    BY <1>2
  <2> QED
    BY <1>2, <2>1, NamesFinite, FS_Subset
<1>5. payments' \in [Names -> Int] /\ rows' \subseteq Names
  BY <1>1, <1>2, <1>3
<1>6. NoRowNoPay'
  BY <1>1, <1>2 DEF IInv, NoRowNoPay
<1>7. SumOf(share, Paid) \in Int /\ SumOf(payments, rows) \in Int
  <2>1. \A x \in rows : payments[x] \in Int
    BY <1>2
  <2> QED
    BY <1>3, <1>4, <2>1, SumOfType
<1>8. SumOf(payments, rows \cup Paid) = SumOf(payments, rows)
  <2>1. \A x \in rows \cup Paid : payments[x] \in Int
    BY <1>2
  <2>2. \A x \in (rows \cup Paid) \ rows : payments[x] = 0
    BY <1>2 DEF IInv, NoRowNoPay
  <2>3. rows \in SUBSET (rows \cup Paid)
    OBVIOUS
  <2> QED
    BY <1>4, <2>1, <2>2, <2>3, SumOfSupport
<1>9. SumOf(sets, rows \cup Paid) = SumOf(share, Paid)
  <2>1. \A x \in rows \cup Paid : sets[x] \in Int
    BY <1>3
  <2>2. \A x \in (rows \cup Paid) \ Paid : sets[x] = 0
    OBVIOUS
  <2>3. \A x \in Paid : sets[x] = share[x]
    OBVIOUS
  <2>4. Paid \in SUBSET (rows \cup Paid)
    OBVIOUS
  <2> HIDE DEF sets
  <2>5. SumOf(sets, rows \cup Paid) = SumOf(sets, Paid)
    BY <1>4, <2>1, <2>2, <2>4, SumOfSupport
  <2>6. SumOf(sets, Paid) = SumOf(share, Paid)
    BY <2>3, SumOfSame
  <2> QED
    BY <2>5, <2>6
<1>10. SumOf(payments', rows \cup Paid) = SumOf(payments, rows \cup Paid) + SumOf(sets, rows \cup Paid)
  <2>1. \A x \in rows \cup Paid : payments[x] \in Int /\ sets[x] \in Int /\ payments'[x] = payments[x] + sets[x]
    <3> SUFFICES ASSUME NEW x \in rows \cup Paid
                 PROVE  payments[x] \in Int /\ sets[x] \in Int /\ payments'[x] = payments[x] + sets[x]
      OBVIOUS
    <3>1. x \in Names /\ payments[x] \in Int
      BY <1>2
    <3> QED
      BY <1>1, <1>3, <3>1
  <2> HIDE DEF sets
  <2> QED
    BY <1>4, <2>1, SumOfAdd
<1> HIDE DEF sets
<1>11. perblock_bucket' \in Int
  BY <1>1, <1>7
<1>12. SumOf(payments', rows') = SumOf(payments, rows) + SumOf(share, Paid)
  BY <1>1, <1>8, <1>9, <1>10
<1>13. perblock_bucket' + SumOf(payments', rows') = bucket + SumOf(payments, rows)
  BY <1>1, <1>7, <1>12
<1> QED
  BY <1>5, <1>6, <1>11, <1>13

\* The blocks of the producers paid are settled, and taken off the total.
LEMMA SplitCounts ==
  ASSUME IInv, NEW b \in [Names -> Nat], NEW bucket, Split(b, SumOf(b, Names), bucket),
         NEW n \in Nat, SumOf(b, Names) <= n, \A q \in Names : b[q] <= n
  PROVE  /\ unpaid' \in [Names -> 0..n] /\ total_unpaid_blocks' \in 0..n
         /\ total_unpaid_blocks' = SumOf(unpaid', Names)
<1> DEFINE R == Names \ Paid
<1>1. /\ unpaid' = [q \in Names |-> IF q \in Paid THEN 0 ELSE b[q]]
      /\ total_unpaid_blocks' = SumOf(b, Names) - SumOf(b, Paid)
  BY DEF Split
<1>2. Paid \subseteq Names /\ R \cup Paid = Names /\ R \cap Paid = {}
  BY DEF IInv, TypeOK, Paid
<1>3. IsFiniteSet(R) /\ IsFiniteSet(Paid)
  BY <1>2, NamesFinite, FS_Subset
<1>4. unpaid' \in [Names -> 0..n]
  BY <1>1
<1>5. SumOf(b, R \cup Paid) = SumOf(b, R) + SumOf(b, Paid)
  <2> HIDE DEF R
  <2>1. \A x \in R \cup Paid : b[x] \in Int
    BY <1>2
  <2> QED
    BY <1>2, <1>3, <2>1, SumOfSplit
<1>6. SumOf(b, R) \in Nat /\ SumOf(b, Paid) \in Nat
  <2>1. \A x \in Names : b[x] \in Int /\ b[x] >= 0
    OBVIOUS
  <2> QED
    BY <1>2, <1>3, <2>1, SumOfType
<1>7. SumOf(unpaid', Names) = SumOf(unpaid', R)
  <2>1. /\ \A x \in Names : unpaid'[x] \in Int
        /\ \A x \in Names \ R : unpaid'[x] = 0
        /\ R \in SUBSET Names
    BY <1>1, <1>2
  <2> QED
    BY <2>1, NamesFinite, SumOfSupport
<1>8. SumOf(unpaid', R) = SumOf(b, R)
  <2>1. \A x \in R : unpaid'[x] = b[x]
    BY <1>1
  <2> QED
    BY <2>1, SumOfSame
<1> HIDE DEF R
<1>9. total_unpaid_blocks' = SumOf(b, R)
  <2>1. SumOf(b, Names) = SumOf(b, R) + SumOf(b, Paid)
    BY <1>2, <1>5
  <2> QED
    BY <1>1, <1>6, <2>1
<1>10. SumOf(b, R) <= n
  <2>1. SumOf(b, Names) = SumOf(b, R) + SumOf(b, Paid)
    BY <1>2, <1>5
  <2> QED
    BY <1>6, <2>1
<1> QED
  BY <1>4, <1>6, <1>7, <1>8, <1>9, <1>10

\* A block with a snapshot.
LEMMA SnapshotBlock ==
  ASSUME IInv, NEW p, NEW gap \in Gaps, height < MaxBlocks, NextBlock(gap), ~Traps,
         add_to_blockinfo_table(slot + gap), NEW fill \in Fills,
         Snapshot(Unpaid(p), Total(p), fill[1], fill[2]), sinceClaim' = 0,
         UNCHANGED <<active, votes, changes>>
  PROVE  IInv'
<1>1. height \in Nat /\ MaxBlocks \in Nat /\ height' = height + 1 /\ height' \in 0..MaxBlocks
  BY PayAssumption DEF IInv, TypeOK, NextBlock
<1>2. fill[1] \in Nat /\ fill[2] \in Nat
  BY PayAssumption
<1> DEFINE bucket == perblock_bucket + FillOf(fill[1], fill[2])
<1>3. bucket \in Int /\ bucket = perblock_bucket + fill[1] /\ perblock_bucket \in Int
  BY <1>2 DEF FillOf, IInv, TypeOK
<1>4. Fill(fill[1] + fill[2], fill[1], fill[2]) /\ Split(Unpaid(p), Total(p), bucket)
  BY DEF Snapshot
<1> HIDE DEF bucket
<1>5. /\ tedp' \in 0..Endowment /\ self' = 0 /\ works' \in Nat
      /\ bpay' = bpay + fill[1] /\ bpay' \in Nat
  BY <1>2, <1>4, FillAccounts
<1>6. /\ perblock_bucket' \in Int /\ payments' \in [Names -> Int] /\ rows' \subseteq Names
      /\ NoRowNoPay'
      /\ perblock_bucket' + SumOf(payments', rows') = bucket + SumOf(payments, rows)
  BY <1>3, <1>4, SplitAccounts
<1>7. /\ Unpaid(p) \in [Names -> Nat] /\ Total(p) <= height + 1
      /\ SumOf(Unpaid(p), Names) = Total(p) /\ \A q \in Names : Unpaid(p)[q] <= height + 1
  BY BlockCounted
<1>8. /\ unpaid' \in [Names -> 0..(height + 1)] /\ total_unpaid_blocks' \in 0..(height + 1)
      /\ total_unpaid_blocks' = SumOf(unpaid', Names)
  <2>1. height + 1 \in Nat
    BY <1>1
  <2>2. Split(Unpaid(p), SumOf(Unpaid(p), Names), bucket) /\ SumOf(Unpaid(p), Names) <= height + 1
    BY <1>4, <1>7
  <2> QED
    BY <1>7, <2>1, <2>2, SplitCounts
<1>9. /\ unpaid' \in [Names -> 0..MaxBlocks] /\ total_unpaid_blocks' \in 0..MaxBlocks /\ CountsInv'
  BY <1>1, <1>8 DEF CountsInv
<1>10. TypeOK'
  BY <1>1, <1>5, <1>6, <1>9, PayAssumption DEF IInv, TypeOK
<1>11. TableInv'
  BY <1>1, TableRow DEF IInv
<1>12. BpayIsAccounted'
  <2>1. bpay = perblock_bucket + SumOf(payments, rows) /\ bpay \in Nat
    BY DEF IInv, BpayIsAccounted, TypeOK
  <2>2. SumOf(payments, rows) \in Int
    <3>1. rows \subseteq Names /\ payments \in [Names -> Int]
      BY DEF IInv, TypeOK
    <3> QED
      BY <3>1, NamesFinite, FS_Subset, SumOfType
  <2>3. bpay' = perblock_bucket' + SumOf(payments', rows')
    BY <1>2, <1>3, <1>5, <1>6, <2>1, <2>2
  <2> QED
    BY <1>5, <1>8, <2>3 DEF BpayIsAccounted
<1> QED
  BY <1>6, <1>9, <1>10, <1>11, <1>12 DEF IInv

LEMMA OnblockKeeps ==
  ASSUME IInv, NEW p, NEW gap \in Gaps, onblock(p, gap, sinceClaim + gap >= ClaimPeriod)
  PROVE  IInv'
<1> DEFINE due == sinceClaim + gap >= ClaimPeriod
<1>0. /\ sinceClaim \in 0..ClaimPeriod /\ ClaimPeriod \in Nat /\ gap \in Nat
      /\ height < MaxBlocks /\ NextBlock(gap) /\ UNCHANGED <<active, votes, changes>>
  BY PayAssumption DEF IInv, TypeOK, onblock
<1>1. CASE /\ ~due \/ Total(p) <= 0
           /\ add_to_blockinfo_table(slot + gap)
           /\ unpaid' = Unpaid(p) /\ total_unpaid_blocks' = Total(p)
           /\ sinceClaim' = IF due THEN 0 ELSE sinceClaim + gap
           /\ UNCHANGED <<perblock_bucket, rows, payments, bpay, tedp, works, self>>
  <2>1. sinceClaim' \in 0..ClaimPeriod
    BY <1>0, <1>1
  <2> QED
    BY <1>0, <1>1, <2>1, QuietBlock
<1>2. CASE /\ ~Traps
           /\ add_to_blockinfo_table(slot + gap)
           /\ \E fill \in Fills : Snapshot(Unpaid(p), Total(p), fill[1], fill[2])
           /\ sinceClaim' = 0
  <2>1. PICK fill \in Fills : Snapshot(Unpaid(p), Total(p), fill[1], fill[2])
    BY <1>2
  <2> QED
    BY <1>0, <1>2, <2>1, SnapshotBlock
<1>3. CASE /\ sinceClaim' = ClaimPeriod
           /\ UNCHANGED <<unpaid, total_unpaid_blocks, perblock_bucket, rows, payments, bpay, tedp, works, self, blockinfo, recorded>>
  <2>1. height \in 0..MaxBlocks /\ MaxBlocks \in Nat /\ height' = height + 1
    BY <1>0, PayAssumption DEF IInv, TypeOK, NextBlock
  <2>2. height' \in 0..MaxBlocks /\ height' >= height /\ height' \in Nat
    BY <1>0, <2>1
  <2>3. TypeOK'
    BY <1>0, <1>3, <2>2 DEF IInv, TypeOK
  <2>4. TableInv'
    BY <1>3, <2>2, TableGap DEF IInv
  <2>5. CountsInv'
    <3>1. total_unpaid_blocks \in Int /\ \A q \in Names : unpaid[q] \in Int
      BY PayAssumption DEF IInv, TypeOK
    <3> QED
      BY <1>3, <2>1, <3>1 DEF IInv, CountsInv
  <2>6. NoRowNoPay' /\ BpayIsAccounted'
    BY <1>3 DEF IInv, NoRowNoPay, BpayIsAccounted
  <2> QED
    BY <2>3, <2>4, <2>5, <2>6 DEF IInv
<1> QED
  BY <1>1, <1>2, <1>3 DEF onblock

LEMMA ClaimKeeps ==
  ASSUME IInv, NEW owner \in Names, claimrewards(owner)
  PROVE  IInv'
<1>1. /\ rows \subseteq Names /\ payments \in [Names -> Int] /\ owner \in rows
      /\ bpay \in Nat /\ bpay = perblock_bucket + SumOf(payments, rows) /\ perblock_bucket \in Int
  BY DEF IInv, TypeOK, BpayIsAccounted, claimrewards
<1>2. /\ payments[owner] \in Int /\ payments[owner] > 0 /\ bpay >= payments[owner]
      /\ bpay' = bpay - payments[owner] /\ rows' = rows \ {owner}
      /\ payments' = [payments EXCEPT ![owner] = 0]
  BY <1>1 DEF claimrewards
<1>3. bpay' \in Nat /\ payments' \in [Names -> Int] /\ rows' \subseteq Names
  BY <1>1, <1>2
<1>4. TypeOK'
  BY <1>3 DEF IInv, TypeOK, claimrewards, blockInfoVars
<1>5. TableInv'
  BY TableGap DEF IInv, TableInv, claimrewards, blockInfoVars
<1>6. NoRowNoPay' /\ CountsInv'
  BY <1>1, <1>2 DEF IInv, NoRowNoPay, CountsInv, claimrewards, blockInfoVars
<1>7. BpayIsAccounted'
  <2> DEFINE R == rows \ {owner}
  <2>1. IsFiniteSet(R) /\ owner \notin R /\ R \cup {owner} = rows
    BY <1>1, NamesFinite, FS_Subset
  <2>2. \A x \in R \cup {owner} : payments[x] \in Int
    BY <1>1
  <2>3. \A x \in R : payments'[x] = payments[x]
    BY <1>1, <1>2
  <2>4. rows' = R
    BY <1>2
  <2> HIDE DEF R
  <2>5. SumOf(payments, R) \in Int /\ SumOf(payments, R \cup {owner}) = SumOf(payments, R) + payments[owner]
    BY <2>1, <2>2, SumOfOneMore
  <2>6. SumOf(payments', R) = SumOf(payments, R)
    BY <2>3, SumOfSame
  <2>7. SumOf(payments, rows) = SumOf(payments, R) + payments[owner]
    BY <2>1, <2>5
  <2>8. bpay' = perblock_bucket + SumOf(payments, R)
    BY <1>1, <1>2, <2>5, <2>7
  <2>9. bpay' = perblock_bucket' + SumOf(payments', rows')
    BY <2>4, <2>6, <2>8 DEF claimrewards
  <2> QED
    BY <2>9 DEF IInv, BpayIsAccounted, claimrewards
<1> QED
  BY <1>4, <1>5, <1>6, <1>7 DEF IInv

\* Registrations and votes change neither tokens nor counts.
LEMMA ChangesKeep ==
  ASSUME IInv, Changes, active' \subseteq Names, votes' \in [Names -> Votes]
  PROVE  IInv'
<1>1. TypeOK'
  BY PayAssumption DEF IInv, TypeOK, Changes, blockInfoVars
<1>2. TableInv'
  BY TableGap DEF IInv, TableInv, Changes, blockInfoVars
<1>3. NoRowNoPay' /\ CountsInv' /\ BpayIsAccounted'
  BY DEF IInv, NoRowNoPay, CountsInv, BpayIsAccounted, Changes, blockInfoVars
<1> QED
  BY <1>1, <1>2, <1>3 DEF IInv

LEMMA StepInv == IInv /\ [Next]_vars => IInv'
<1> SUFFICES ASSUME IInv, [Next]_vars PROVE IInv'
  OBVIOUS
<1>0. active \subseteq Names /\ votes \in [Names -> Votes]
  BY DEF IInv, TypeOK
<1>1. ASSUME NEW p \in Names \cup {None}, NEW gap \in Gaps,
             onblock(p, gap, sinceClaim + gap >= ClaimPeriod)
      PROVE  IInv'
  BY <1>1, OnblockKeeps
<1>2. ASSUME NEW p \in Names, claimrewards(p) PROVE IInv'
  BY <1>2, ClaimKeeps
<1>3. ASSUME NEW p \in Names, register_producer(p) PROVE IInv'
  BY <1>0, <1>3, ChangesKeep DEF register_producer
<1>4. ASSUME NEW p \in Names, unregprod(p) PROVE IInv'
  BY <1>0, <1>4, ChangesKeep DEF unregprod
<1>5. ASSUME NEW p \in Names, NEW v \in Votes, update_votes(p, v) PROVE IInv'
  BY <1>0, <1>5, ChangesKeep DEF update_votes
<1>6. CASE UNCHANGED vars
  <2>1. TypeOK' /\ NoRowNoPay' /\ CountsInv' /\ BpayIsAccounted'
    BY <1>6 DEF IInv, TypeOK, NoRowNoPay, CountsInv, BpayIsAccounted, vars, blockInfoVars
  <2>2. TableInv'
    BY <1>6, TableGap DEF IInv, TableInv, vars, blockInfoVars
  <2> QED
    BY <2>1, <2>2 DEF IInv
<1> QED
  BY <1>1, <1>2, <1>3, <1>4, <1>5, <1>6 DEF Next

LEMMA Inductive == Spec => []IInv
BY InitInv, StepInv, PTL DEF Spec
-----------------------------------------------------------------------------
\* Every state onblock, claimrewards and the changes to the producers reach is well-typed; in
\* particular eosio.bpay never pays what it does not hold, and no count leaves its range.
THEOREM TypeCorrect == Spec => []TypeOK
<1>1. IInv => TypeOK
  BY DEF IInv
<1> QED
  BY <1>1, Inductive, PTL

\* The tokens of eosio.bpay are the bucket and the payments set aside, the system account keeps
\* nothing of a fill, and total_unpaid_blocks is the sum over the producers, for any number of
\* producers, fills and blocks and also while the bucket is overdrawn.
THEOREM BpayAccounted == Spec => []BpayIsAccounted
<1>1. IInv => BpayIsAccounted
  BY DEF IInv
<1> QED
  BY <1>1, Inductive, PTL

\* The closed formula for sum_of_multipliers is the sum of the multipliers the pay loop uses.
THEOREM FormulaAddsUp == Spec => []SharesAddUp
<1>1. IInv => SharesAddUp
  <2> SUFFICES ASSUME IInv, NEW n \in ActiveCount..35
               PROVE  SumOfMultipliers(n) = IF n = 0 THEN 0 ELSE SumOfMultipliers(n - 1) + Multiplier(n)
    BY DEF SharesAddUp
  <2>1. ActiveCount \in 0..35
    BY CountType DEF IInv
  <2>2. n \in 0..35
    BY <2>1
  <2>3. CASE n = 0
    BY <2>3 DEF SumOfMultipliers
  <2>4. CASE n # 0
    <3>1. n \in 1..35
      BY <2>2, <2>4
    <3> QED
      BY <2>4, <3>1, SumGrows
  <2> QED
    BY <2>3, <2>4
<1> QED
  BY <1>1, Inductive, PTL

\* What other contracts read of the latest batch is true, and the table never outgrows its window,
\* for every window, every number of rows erased by a block and every pattern of failed blocks.
THEOREM BatchesTrue == Spec => []BatchesAreTrue
<1>1. IInv => BatchesAreTrue
  BY TableIsTrue DEF IInv
<1> QED
  BY <1>1, Inductive, PTL

\* While everybody who has left still has votes, a snapshot never sets aside more than the bucket
\* holds, whatever the number of producers and the votes.
THEOREM SnapshotWithinBucket == Spec => SplitWithinBucket
<1> DEFINE Premise == perblock_bucket >= 0 /\ \A p \in Names \ active : votes[p] > 0
<1>1. IInv /\ [Next]_vars => (Premise => perblock_bucket' >= 0)
  <2> SUFFICES ASSUME IInv, Next, Premise PROVE perblock_bucket' >= 0
    BY DEF vars
  <2>1. ASSUME NEW p, NEW gap \in Gaps, onblock(p, gap, sinceClaim + gap >= ClaimPeriod)
        PROVE  perblock_bucket' >= 0
    <3>1. CASE UNCHANGED perblock_bucket
      BY <3>1
    <3>2. CASE ~Traps /\ \E fill \in Fills : Snapshot(Unpaid(p), Total(p), fill[1], fill[2])
      <4>1. PICK fill \in Fills : Snapshot(Unpaid(p), Total(p), fill[1], fill[2])
        BY <3>2
      <4> DEFINE b == perblock_bucket + FillOf(fill[1], fill[2])
                 n == ActiveCount
                 paid == SumOf([q \in Paid |-> Share(b, Rank(q), n)], Paid)
      <4>2. b \in Nat
        BY PayAssumption DEF FillOf, IInv, TypeOK
      <4>3. perblock_bucket' = b - paid
        BY <4>1 DEF Snapshot, Split
      <4>4. paid <= b /\ paid \in Int
        <5> HIDE DEF b
        <5>0. IsFiniteSet(Paid)
          BY NamesFinite, FS_Subset DEF IInv, TypeOK, Paid
        <5>1. paid \in Int
          <6>1. \A q \in Paid : [r \in Paid |-> Share(b, Rank(r), n)][q] \in Int
            BY <3>2, <4>2, SharesAreIntegers DEF IInv
          <6> QED
            BY <5>0, <6>1, SumOfType
        <5>2. CASE Paid = {}
          <6>1. paid = 0
            BY <5>2, SumOfNone
          <6> QED
            BY <4>2, <5>1, <6>1
        <5>3. CASE Paid # {}
          <6>1. n \in 1..35
            BY <3>2, <5>3, CountType DEF Traps, IInv
          <6>2. \A q \in Paid : Rank(q) \in 1..n
            BY PaidAreCounted DEF IInv
          <6> QED
            BY <4>2, <5>1, <6>1, <6>2, SplitWithin DEF IInv
        <5> QED
          BY <5>2, <5>3
      <4> HIDE DEF b, paid
      <4> QED
        BY <4>2, <4>3, <4>4
    <3> QED
      BY <2>1, <3>1, <3>2 DEF onblock
  <2>2. ASSUME NEW p, claimrewards(p) \/ register_producer(p) \/ unregprod(p) PROVE perblock_bucket' >= 0
    BY <2>2 DEF claimrewards, register_producer, unregprod, Changes
  <2>3. ASSUME NEW p, NEW v, update_votes(p, v) PROVE perblock_bucket' >= 0
    BY <2>3 DEF update_votes, Changes
  <2> QED
    BY <2>1, <2>2, <2>3 DEF Next
<1> QED
  BY <1>1, Inductive, PTL DEF Spec, SplitWithinBucket
=============================================================================
