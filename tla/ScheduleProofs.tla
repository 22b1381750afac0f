--------------------------- MODULE ScheduleProofs ---------------------------
(***************************************************************************)
(* Proofs about the election and rotation of the producers (module         *)
(* Rotation) and about missed blocks and kicks (module Kick), for any      *)
(* producers, locations, sizes of the schedule, periods and bounds.        *)
(***************************************************************************)
EXTENDS Kick, FiniteSetTheorems, SequenceTheorems, TLAPS

-----------------------------------------------------------------------------
(* Finite sets in order.                                                   *)

StrictOrder(I, R) ==
    /\ \A i \in I : <<i, i>> \notin R
    /\ \A i, j \in I : i # j => <<i, j>> \in R \/ <<j, i>> \in R
    /\ \A i, j, k \in I : <<i, j>> \in R /\ <<j, k>> \in R => <<i, k>> \in R

Below(I, R, i) == {j \in I : <<j, i>> \in R}

\* The members below i are fewer than those below a member above i.
LEMMA BelowGrows ==
  ASSUME NEW I, IsFiniteSet(I), NEW R, StrictOrder(I, R)
  PROVE  /\ \A i \in I : Cardinality(Below(I, R, i)) \in Nat /\ Cardinality(Below(I, R, i)) < Cardinality(I)
         /\ \A i, j \in I : <<i, j>> \in R => Cardinality(Below(I, R, i)) < Cardinality(Below(I, R, j))
<1>1. ASSUME NEW i \in I
      PROVE  /\ IsFiniteSet(Below(I, R, i)) /\ Cardinality(Below(I, R, i)) \in Nat
             /\ Cardinality(Below(I, R, i)) < Cardinality(I)
  <2>1. Below(I, R, i) \in SUBSET I /\ i \notin Below(I, R, i)
    BY DEF Below, StrictOrder
  <2>2. /\ IsFiniteSet(Below(I, R, i)) /\ Cardinality(Below(I, R, i)) <= Cardinality(I)
        /\ (Cardinality(I) = Cardinality(Below(I, R, i)) => I = Below(I, R, i))
    BY <2>1, FS_Subset
  <2>3. Cardinality(I) \in Nat /\ Cardinality(Below(I, R, i)) \in Nat
    BY <2>2, FS_CardinalityType
  <2> QED
    BY <2>1, <2>2, <2>3
<1>2. ASSUME NEW i \in I, NEW j \in I, <<i, j>> \in R
      PROVE  Cardinality(Below(I, R, i)) < Cardinality(Below(I, R, j))
  <2>1. Below(I, R, i) \in SUBSET Below(I, R, j) /\ i \in Below(I, R, j) /\ i \notin Below(I, R, i)
    BY <1>2 DEF Below, StrictOrder
  <2>2. /\ Cardinality(Below(I, R, i)) <= Cardinality(Below(I, R, j))
        /\ (Cardinality(Below(I, R, j)) = Cardinality(Below(I, R, i)) => Below(I, R, j) = Below(I, R, i))
    BY <1>1, <2>1, FS_Subset
  <2> QED
    BY <1>1, <2>1, <2>2
<1> QED
  BY <1>1, <1>2

\* Listed gives every member of I one place, in the order R.
LEMMA ListedIs ==
  ASSUME NEW I, IsFiniteSet(I), NEW R, StrictOrder(I, R), NEW f, f = Listed(I, R)
  PROVE  /\ Cardinality(I) \in Nat
         /\ f \in [1..Cardinality(I) -> I] /\ IsInjective(f)
         /\ \A i \in I : \E k \in 1..Cardinality(I) : f[k] = i
         /\ \A k, l \in 1..Cardinality(I) : k < l => <<f[k], f[l]>> \in R
<1> DEFINE n   == Cardinality(I)
           pos == [i \in I |-> Cardinality(Below(I, R, i)) + 1]
<1>1. n \in Nat
  BY FS_CardinalityType
<1>2. \A i \in I : pos[i] \in 1..n
  BY <1>1, BelowGrows
<1>3. \A i, j \in I : <<i, j>> \in R => pos[i] < pos[j]
  BY BelowGrows
<1>4. pos \in [I -> 1..n]
  BY <1>2
<1>5. \A k \in 1..n : \A i \in I : (Cardinality({j \in I : <<j, i>> \in R}) = k - 1) <=> (pos[i] = k)
  BY BelowGrows DEF Below
<1> HIDE DEF pos, n
<1>6. pos \in Injection(I, 1..n)
  <2>1. ASSUME NEW i \in I, NEW j \in I, pos[i] = pos[j], i # j PROVE FALSE
    <3>1. <<i, j>> \in R \/ <<j, i>> \in R
      BY <2>1 DEF StrictOrder
    <3>2. pos[i] \in Int /\ pos[j] \in Int
      BY <1>2
    <3> QED
      BY <1>3, <2>1, <3>1, <3>2
  <2> QED
    BY <1>4, <2>1 DEF Injection, IsInjective
<1>7. IsFiniteSet(1..n) /\ Cardinality(1..n) = n
  BY <1>1, FS_Interval
<1>8. pos \in Surjection(I, 1..n)
  BY <1>6, <1>7, FS_Injection DEF n
<1>9. \A k \in 1..n : \E i \in I : pos[i] = k
  BY <1>8 DEF Surjection
<1>10. DOMAIN f = 1..n /\ \A k \in 1..n : f[k] = CHOOSE i \in I : pos[i] = k
  BY <1>5 DEF Listed, n
<1>11. \A k \in 1..n : f[k] \in I /\ pos[f[k]] = k
  <2> SUFFICES ASSUME NEW k \in 1..n PROVE f[k] \in I /\ pos[f[k]] = k
    OBVIOUS
  <2>1. PICK i \in I : pos[i] = k
    BY <1>9
  <2> QED
    BY <1>10, <2>1
<1>12. \A i \in I : f[pos[i]] = i
  BY <1>2, <1>6, <1>11 DEF Injection, IsInjective
<1>13. \A k, l \in 1..n : k < l => <<f[k], f[l]>> \in R
  <2> SUFFICES ASSUME NEW k \in 1..n, NEW l \in 1..n, k < l PROVE <<f[k], f[l]>> \in R
    OBVIOUS
  <2>1. f[k] # f[l]
    BY <1>1, <1>11
  <2>2. ~(<<f[l], f[k]>> \in R)
    BY <1>1, <1>3, <1>11
  <2> QED
    BY <1>11, <2>1, <2>2 DEF StrictOrder
<1>14. f \in [1..n -> I]
  <2>1. f = [k \in 1..n |-> f[k]]
    BY <1>10, ZenonT(40) DEF Listed, n
  <2> QED
    BY <1>11, <2>1
<1>15. IsInjective(f)
  BY <1>10, <1>11 DEF IsInjective
<1> QED
  BY <1>1, <1>2, <1>12, <1>13, <1>14, <1>15 DEF n

-----------------------------------------------------------------------------
(* Rankings and schedules.                                                 *)

\* A list of producers without repetitions.
Ranked(r) == r \in Seq(Producers) /\ IsInjective(r)

LEMMA RankingsAre == ASSUME NEW r PROVE r \in Rankings <=> Ranked(r)
<1> DEFINE c == Cardinality(Producers)
<1>1. c \in Nat /\ IsFiniteSet(Producers)
  BY RotationAssumption, FS_CardinalityType
<1>2. ASSUME r \in Rankings PROVE Ranked(r)
  <2>1. IsInjective(r) /\ \E n \in 0..c : r \in [1..n -> Producers]
    BY <1>2 DEF Rankings
  <2>2. PICK n \in 0..c : r \in [1..n -> Producers]
    BY <2>1
  <2>3. r \in Seq(Producers)
    BY <1>1, <2>2
  <2> QED
    BY <2>1, <2>3 DEF Ranked
<1>3. ASSUME Ranked(r) PROVE r \in Rankings
  <2>1. Len(r) \in Nat /\ r \in [1..Len(r) -> Producers] /\ IsInjective(r)
    BY <1>3 DEF Ranked
  <2>2. r \in Injection(1..Len(r), Producers)
    BY <2>1 DEF Injection
  <2>3. Cardinality(1..Len(r)) <= c
    BY <1>1, <2>2, FS_Injection
  <2>4. Cardinality(1..Len(r)) = Len(r)
    BY <2>1, FS_Interval
  <2>5. Len(r) \in 0..c
    BY <1>1, <2>1, <2>3, <2>4
  <2> QED
    BY <2>1, <2>5 DEF Rankings
<1> QED
  BY <1>2, <1>3

LEMMA RankedIs ==
  ASSUME NEW r, Ranked(r)
  PROVE  /\ Len(r) \in Nat /\ DOMAIN r = 1..Len(r) /\ \A i \in 1..Len(r) : r[i] \in Producers
         /\ \A i, j \in 1..Len(r) : r[i] = r[j] => i = j
  BY DEF Ranked, IsInjective

\* A sequence in which every producer of r that is not in K has one place.
LEMMA WithoutIs ==
  ASSUME NEW r, Ranked(r), NEW K
  PROVE  Ranked(Without(r, K)) /\ Range(Without(r, K)) = Range(r) \ K
<1> DEFINE I == Kept(r, K)
           R == {e \in I \X I : e[1] < e[2]}
           f == Listed(I, R)
           n == Cardinality(I)
           t == Without(r, K)
<1>1. I \in SUBSET (1..Len(r)) /\ I \subseteq Int /\ Len(r) \in Nat
  BY RankedIs DEF Kept
<1>2. IsFiniteSet(I)
  <2>1. IsFiniteSet(1..Len(r))
    BY <1>1, FS_Interval
  <2> QED
    BY <1>1, <2>1, FS_Subset
<1>3. \A i, j \in I : <<i, j>> \in R <=> i < j
  OBVIOUS
<1>4. StrictOrder(I, R)
  <2> HIDE DEF R, I
  <2> QED
    BY <1>1, <1>3 DEF StrictOrder
<1>5. t = [k \in 1..n |-> r[f[k]]]
  BY DEF Without
<1> HIDE DEF R, t
<1>6. n \in Nat /\ f \in [1..n -> I] /\ IsInjective(f) /\ \A i \in I : \E k \in 1..n : f[k] = i
  <2> DEFINE g == f
  <2>1. g = Listed(I, R)
    OBVIOUS
  <2> HIDE DEF g, I
  <2>2. Cardinality(I) \in Nat /\ g \in [1..Cardinality(I) -> I] /\ IsInjective(g) /\ \A i \in I : \E k \in 1..Cardinality(I) : g[k] = i
    BY <1>2, <1>4, <2>1, ListedIs
  <2> QED
    BY <2>2 DEF g
<1> HIDE DEF f, n
<1>7. \A k \in 1..n : f[k] \in I /\ f[k] \in 1..Len(r) /\ r[f[k]] \in Producers /\ r[f[k]] \notin K
  BY <1>1, <1>6, RankedIs DEF Kept
<1>8. t \in Seq(Producers) /\ DOMAIN t = 1..n
  BY <1>5, <1>6, <1>7
<1>9. IsInjective(t)
  <2> SUFFICES ASSUME NEW k \in 1..n, NEW l \in 1..n, r[f[k]] = r[f[l]] PROVE k = l
    BY <1>5, <1>8 DEF IsInjective
  <2>1. f[k] = f[l]
    BY <1>7, RankedIs
  <2> QED
    BY <1>6, <2>1 DEF IsInjective
<1>10. Range(t) = Range(r) \ K
  <2>1. Range(t) = {r[f[k]] : k \in 1..n}
    BY <1>5 DEF Range
  <2>2. Range(r) \ K = {r[i] : i \in I}
    BY DEF Range, Kept
  <2>3. {r[f[k]] : k \in 1..n} = {r[i] : i \in I}
    BY <1>6, <1>7
  <2> QED
    BY <2>1, <2>2, <2>3
<1> QED
  BY <1>8, <1>9, <1>10 DEF Ranked, t

\* Sorting by location keeps the producers, and repetitions if there are any.
LEMMA SortedIs ==
  ASSUME NEW s \in Seq(Producers)
  PROVE  /\ ByLocation[s] \in Seq(Producers) /\ Len(ByLocation[s]) = Len(s)
         /\ Range(ByLocation[s]) = Range(s) /\ IsInjective(ByLocation[s]) = IsInjective(s)
<1> DEFINE n == Len(s)
           I == 1..n
           R == {e \in I \X I : Location[s[e[1]]] < Location[s[e[2]]] \/ (Location[s[e[1]]] = Location[s[e[2]]] /\ e[1] < e[2])}
           f == Listed(I, R)
           w == [i \in I |-> s[f[i]]]
           t == ByLocation[s]
<1>1. n \in Nat /\ DOMAIN s = I /\ \A i \in I : s[i] \in Producers /\ Location[s[i]] \in Nat
  BY RotationAssumption
<1>2. IsFiniteSet(I) /\ Cardinality(I) = n
  <2> HIDE DEF n
  <2>1. 1 \in Int /\ n \in Int
    BY <1>1
  <2>2. IsFiniteSet(1..n) /\ Cardinality(1..n) = IF 1 > n THEN 0 ELSE n - 1 + 1
    BY <2>1, FS_Interval
  <2> QED
    BY <1>1, <2>2
<1>3. \A i, j \in I : <<i, j>> \in R <=> Location[s[i]] < Location[s[j]] \/ (Location[s[i]] = Location[s[j]] /\ i < j)
  OBVIOUS
<1>4. StrictOrder(I, R)
  <2> DEFINE L(i) == Location[s[i]]
  <2>1. (\A i \in I : L(i) \in Nat) /\ I \subseteq Nat
    BY <1>1
  <2>2. \A i, j \in I : <<i, j>> \in R <=> L(i) < L(j) \/ (L(i) = L(j) /\ i < j)
    BY <1>3
  <2> HIDE DEF R, I, L
  <2>3. \A i \in I : <<i, i>> \notin R
    BY <2>1, <2>2
  <2>4. \A i, j \in I : i # j => <<i, j>> \in R \/ <<j, i>> \in R
    BY <2>1, <2>2
  <2>5. ASSUME NEW i \in I, NEW j \in I, NEW k \in I, <<i, j>> \in R, <<j, k>> \in R PROVE <<i, k>> \in R
    <3>1. L(i) < L(j) \/ (L(i) = L(j) /\ i < j)
      BY <2>2, <2>5
    <3>2. L(j) < L(k) \/ (L(j) = L(k) /\ j < k)
      BY <2>2, <2>5
    <3>3. L(i) < L(k) \/ (L(i) = L(k) /\ i < k)
      BY <2>1, <3>1, <3>2
    <3> QED
      BY <2>2, <3>3
  <2> QED
    BY <2>3, <2>4, <2>5 DEF StrictOrder
<1>5. /\ f \in [I -> I] /\ IsInjective(f) /\ \A k, l \in I : k < l => <<f[k], f[l]>> \in R
  <2> HIDE DEF R
  <2> DEFINE g == f
  <2>1. g = Listed(I, R)
    OBVIOUS
  <2> HIDE DEF g
  <2>2. /\ g \in [1..Cardinality(I) -> I] /\ IsInjective(g)
        /\ \A k, l \in 1..Cardinality(I) : k < l => <<g[k], g[l]>> \in R
    <3> HIDE DEF I
    <3> QED
      BY <1>2, <1>4, <2>1, ListedIs
  <2> QED
    BY <1>2, <2>2 DEF g
<1> HIDE DEF f
<1>6. w \in [DOMAIN s -> Range(s)] /\ IsSorting(s, w)
  <2>1. w \in [DOMAIN s -> Range(s)]
    BY <1>1, <1>5 DEF Range
  <2>2. \A i, j \in DOMAIN s : i < j => Location[w[i]] <= Location[w[j]]
    <3> SUFFICES ASSUME NEW i \in I, NEW j \in I, i < j PROVE Location[w[i]] <= Location[w[j]]
      BY <1>1
    <3>1. f[i] \in I /\ f[j] \in I /\ <<f[i], f[j]>> \in R
      BY <1>5
    <3>2. Location[s[f[i]]] <= Location[s[f[j]]]
      <4> DEFINE a == Location[s[f[i]]]
                 b == Location[s[f[j]]]
      <4>1. a \in Nat /\ b \in Nat
        BY <1>1, <3>1
      <4>2. a < b \/ a = b
        <5> HIDE DEF R
        <5> QED
          BY <1>3, <3>1
      <4> HIDE DEF a, b
      <4>3. a <= b
        BY <4>1, <4>2
      <4> QED
        BY <4>3 DEF a, b
    <3> QED
      BY <3>2
  <2>3. f \in [DOMAIN s -> DOMAIN s] /\ IsInjective(f) /\ \A i \in DOMAIN s : w[i] = s[f[i]]
    BY <1>1, <1>5
  <2> QED
    BY <2>1, <2>2, <2>3 DEF IsSorting
<1>7. t = CHOOSE v \in [DOMAIN s -> Range(s)] : IsSorting(s, v)
  BY DEF ByLocation
<1> HIDE DEF t, w
<1>8. t \in [DOMAIN s -> Range(s)] /\ IsSorting(s, t)
  BY <1>6, <1>7
<1>9. PICK at \in [I -> I] : IsInjective(at) /\ \A i \in I : t[i] = s[at[i]]
  BY <1>1, <1>8 DEF IsSorting
<1>10. \A j \in I : \E i \in I : at[i] = j
  <2>1. at \in Injection(I, I)
    BY <1>9 DEF Injection
  <2>2. at \in Surjection(I, I)
    BY <1>2, <2>1, FS_Injection
  <2> QED
    BY <2>2 DEF Surjection
<1>11. DOMAIN t = I /\ t \in [I -> Producers]
  BY <1>1, <1>8, <1>9
<1>12. t \in Seq(Producers) /\ Len(t) = n
  BY <1>1, <1>11
<1>13. Range(t) = Range(s)
  <2>1. Range(t) = {t[i] : i \in I} /\ Range(s) = {s[i] : i \in I}
    BY <1>1, <1>11 DEF Range
  <2> HIDE DEF I
  <2>2. {t[i] : i \in I} \subseteq {s[i] : i \in I}
    BY <1>9
  <2>3. ASSUME NEW j \in I PROVE s[j] \in {t[i] : i \in I}
    <3>1. PICK i \in I : at[i] = j
      BY <1>10
    <3> QED
      BY <1>9, <3>1
  <2> QED
    BY <2>1, <2>2, <2>3
<1>14. IsInjective(t) <=> IsInjective(s)
  <2>1. ASSUME IsInjective(s) PROVE IsInjective(t)
    BY <1>1, <1>9, <1>11, <2>1, SMTT(30) DEF IsInjective
  <2>2. ASSUME IsInjective(t), NEW i \in I, NEW j \in I, s[i] = s[j] PROVE i = j
    <3>1. PICK k \in I : at[k] = i
      BY <1>10
    <3>2. PICK l \in I : at[l] = j
      BY <1>10
    <3>3. t[k] = t[l]
      BY <1>9, <2>2, <3>1, <3>2
    <3>4. k = l
      BY <1>11, <2>2, <3>3 DEF IsInjective
    <3> QED
      BY <3>1, <3>2, <3>4
  <2> QED
    BY <1>1, <2>1, <2>2 DEF IsInjective
<1> QED
  BY <1>12, <1>13, <1>14 DEF IsInjective, t

-----------------------------------------------------------------------------
(* The rotation.                                                           *)

Names0 == Producers \cup {NoName}
RotationRow == [bp_currently_out : Names0, sbp_currently_in : Names0,
                bp_out_index : 0..TOP_PRODUCERS, sbp_in_index : TOP_PRODUCERS..(2 * MAX_PRODUCERS + 5)]

LEMMA CandidatesAre ==
  ASSUME NEW r, Ranked(r), NEW c, c = Candidates(r)
  PROVE  /\ Ranked(c) /\ Len(c) <= MAX_PRODUCERS /\ Len(c) <= Len(r) /\ \A i \in 1..Len(c) : c[i] = r[i]
         /\ Range(c) \subseteq Range(r)
<1> DEFINE n == IF Len(r) > MAX_PRODUCERS THEN MAX_PRODUCERS ELSE Len(r)
<1>1. Len(r) \in Nat /\ MAX_PRODUCERS \in Nat
  BY RotationAssumption, RankedIs
<1>2. n \in Nat /\ n <= Len(r) /\ n <= MAX_PRODUCERS
  BY <1>1
<1>3. c = SubSeq(r, 1, n)
  BY DEF Candidates
<1> HIDE DEF n
<1>4. c \in Seq(Producers) /\ Len(c) = n /\ \A i \in 1..n : c[i] = r[i]
  BY <1>1, <1>2, <1>3 DEF Ranked
<1>5. DOMAIN c = 1..n
  BY <1>2, <1>4
<1>6. IsInjective(c)
  BY <1>1, <1>2, <1>4, <1>5, RankedIs DEF IsInjective
<1>7. Range(c) \subseteq Range(r)
  <2>1. DOMAIN r = 1..Len(r)
    BY RankedIs
  <2> QED
    BY <1>1, <1>2, <1>4, <1>5, <2>1 DEF Range
<1> QED
  BY <1>2, <1>4, <1>6, <1>7 DEF Ranked

LEMMA IndexIs ==
  ASSUME NEW c, Ranked(c), NEW p
  PROVE  /\ p \in Range(c) => IndexOf(c, p) \in 0..(Len(c) - 1) /\ c[IndexOf(c, p) + 1] = p
         /\ p \notin Range(c) => IndexOf(c, p) = Len(c)
<1>1. Len(c) \in Nat /\ DOMAIN c = 1..Len(c)
  BY RankedIs
<1>2. ASSUME p \in Range(c)
      PROVE  IndexOf(c, p) \in 0..(Len(c) - 1) /\ c[IndexOf(c, p) + 1] = p
  <2> DEFINE i == CHOOSE i \in 1..Len(c) : c[i] = p
  <2>1. \E i_1 \in 1..Len(c) : c[i_1] = p
    BY <1>1, <1>2 DEF Range
  <2>2. i \in 1..Len(c) /\ c[i] = p
    BY <2>1
  <2>3. IndexOf(c, p) = i - 1
    BY <1>2 DEF IndexOf
  <2> HIDE DEF i
  <2>4. IndexOf(c, p) + 1 = i
    BY <1>1, <2>2, <2>3
  <2> QED
    BY <1>1, <2>2, <2>3, <2>4
<1> QED
  BY <1>2 DEF IndexOf

LEMMA RotateIs ==
  ASSUME NEW rot \in RotationRow, NEW c, Ranked(c), Len(c) > TOP_PRODUCERS, Len(c) <= MAX_PRODUCERS, NEW q, q = Rotate(rot, c)
  PROVE  /\ q \in RotationRow
         /\ \E a \in 1..TOP_PRODUCERS, b \in (TOP_PRODUCERS + 1)..Len(c) : q.bp_currently_out = c[a] /\ q.sbp_currently_in = c[b]
<1> DEFINE o == NextOut(rot)
           n == NextIn(rot, Len(c))
<1>1. TOP_PRODUCERS \in Nat \ {0} /\ MAX_PRODUCERS \in Nat /\ Len(c) \in Nat
  BY RotationAssumption, RankedIs
<1>2. rot.bp_out_index \in 0..TOP_PRODUCERS /\ rot.sbp_in_index \in TOP_PRODUCERS..(2 * MAX_PRODUCERS + 5)
  BY DEF RotationRow
<1>3. o \in 0..(TOP_PRODUCERS - 1)
  BY <1>1, <1>2 DEF NextOut
<1>4. n \in TOP_PRODUCERS..(Len(c) - 1)
  BY <1>1, <1>2 DEF NextIn
<1>5. q = [bp_currently_out |-> c[o + 1], sbp_currently_in |-> c[n + 1], bp_out_index |-> o, sbp_in_index |-> n]
  BY DEF Rotate, set_bps_rotation, RotationRow
<1> HIDE DEF o, n
<1>6. o + 1 \in 1..TOP_PRODUCERS /\ n + 1 \in (TOP_PRODUCERS + 1)..Len(c) /\ o \in 0..TOP_PRODUCERS
      /\ n \in TOP_PRODUCERS..(2 * MAX_PRODUCERS + 5)
  BY <1>1, <1>3, <1>4
<1>7. c[o + 1] \in Producers /\ c[n + 1] \in Producers
  BY <1>1, <1>6, RankedIs
<1>8. q \in RotationRow
  BY <1>5, <1>6, <1>7 DEF RotationRow, Names0
<1> QED
  BY <1>5, <1>6, <1>8

\* The pair that Keep leaves in force.
LEMMA KeepIs ==
  ASSUME NEW rot \in RotationRow, NEW c, Ranked(c), Len(c) <= MAX_PRODUCERS, NEW q, q = Keep(rot, c)
  PROVE  /\ q \in RotationRow
         /\ q.bp_currently_out # NoName /\ q.sbp_currently_in # NoName =>
                /\ q = rot /\ q.bp_currently_out \in Range(c) /\ q.sbp_currently_in \in Range(c)
                /\ Len(c) > TOP_PRODUCERS =>
                     \E a \in 1..TOP_PRODUCERS, b \in (TOP_PRODUCERS + 1)..Len(c) : q.bp_currently_out = c[a] /\ q.sbp_currently_in = c[b]
<1> DEFINE bp  == IndexOf(c, rot.bp_currently_out)
           sbp == IndexOf(c, rot.sbp_currently_in)
           cleared == set_bps_rotation(rot, NoName, NoName)
           reset   == [cleared EXCEPT !.bp_out_index = TOP_PRODUCERS, !.sbp_in_index = MAX_PRODUCERS + 1]
           out == ~is_in_range(bp, 0, TOP_PRODUCERS) \/ ~is_in_range(sbp, TOP_PRODUCERS, MAX_PRODUCERS)
<1>1. /\ TOP_PRODUCERS \in Nat \ {0} /\ MAX_PRODUCERS \in Nat /\ TOP_PRODUCERS < MAX_PRODUCERS /\ Len(c) \in Nat
  BY RotationAssumption, RankedIs
<1>2. cleared \in RotationRow /\ cleared.bp_currently_out = NoName
  BY DEF set_bps_rotation, RotationRow, Names0
<1>3. reset \in RotationRow /\ reset.bp_currently_out = NoName
  <2>1. TOP_PRODUCERS \in 0..TOP_PRODUCERS /\ MAX_PRODUCERS + 1 \in TOP_PRODUCERS..(2 * MAX_PRODUCERS + 5)
    BY <1>1
  <2> HIDE DEF cleared
  <2> QED
    BY <1>2, <2>1 DEF RotationRow
<1>4. \/ q = rot /\ (rot.bp_currently_out = NoName \/ rot.sbp_currently_in = NoName)
      \/ q = reset \/ q = cleared
      \/ q = rot /\ bp # Len(c) /\ sbp # Len(c) /\ ~(Len(c) > TOP_PRODUCERS /\ out)
  <2> HIDE DEF bp, sbp, cleared, out
  <2>1. q = CASE rot.bp_currently_out = NoName \/ rot.sbp_currently_in = NoName -> rot
          [] bp = Len(c) \/ sbp = Len(c) -> IF Len(c) < TOP_PRODUCERS THEN reset ELSE cleared
          [] Len(c) > TOP_PRODUCERS /\ out -> cleared
          [] OTHER -> rot
    BY DEF Keep, bp, sbp, cleared, out
  <2> HIDE DEF reset
  <2> QED
    BY <2>1
<1>5. ASSUME q = rot, bp # Len(c), sbp # Len(c), ~(Len(c) > TOP_PRODUCERS /\ out)
      PROVE  /\ q.bp_currently_out \in Range(c) /\ q.sbp_currently_in \in Range(c)
             /\ Len(c) > TOP_PRODUCERS =>
                  \E a \in 1..TOP_PRODUCERS, b \in (TOP_PRODUCERS + 1)..Len(c) : q.bp_currently_out = c[a] /\ q.sbp_currently_in = c[b]
  <2>1. /\ rot.bp_currently_out \in Range(c) /\ bp \in 0..(Len(c) - 1) /\ c[bp + 1] = rot.bp_currently_out
        /\ rot.sbp_currently_in \in Range(c) /\ sbp \in 0..(Len(c) - 1) /\ c[sbp + 1] = rot.sbp_currently_in
    BY <1>5, IndexIs
  <2>2. ASSUME Len(c) > TOP_PRODUCERS
        PROVE  bp + 1 \in 1..TOP_PRODUCERS /\ sbp + 1 \in (TOP_PRODUCERS + 1)..Len(c)
    <3>1. is_in_range(bp, 0, TOP_PRODUCERS) /\ is_in_range(sbp, TOP_PRODUCERS, MAX_PRODUCERS)
      BY <1>5, <2>2
    <3> HIDE DEF bp, sbp
    <3> QED
      BY <1>1, <2>1, <3>1 DEF is_in_range
  <2> HIDE DEF bp, sbp
  <2> QED
    BY <1>5, <2>1, <2>2
<1> HIDE DEF bp, sbp, cleared, reset, out
<1> QED
  BY <1>2, <1>3, <1>4, <1>5

\* The top producers of a ranking and the two of the pair in force.
Top(c) == {c[i] : i \in 1..TOP_PRODUCERS}
Swapped(c, rot) == \E a \in 1..TOP_PRODUCERS, b \in (TOP_PRODUCERS + 1)..Len(c) : rot.bp_currently_out = c[a] /\ rot.sbp_currently_in = c[b]

\* The rotation record after an election, and when its pair is applied.
LEMMA CheckedIs ==
  ASSUME rotation \in RotationRow, NEW c, Ranked(c), Len(c) <= MAX_PRODUCERS, NEW q, q = CheckedRotation(c)
  PROVE  /\ q \in RotationRow
         /\ Applied(c) => /\ q.bp_currently_out \in Range(c) /\ q.sbp_currently_in \in Range(c)
                          /\ Len(c) > TOP_PRODUCERS => Swapped(c, q)
                          /\ Len(c) <= TOP_PRODUCERS => ~Due /\ q = rotation
<1>1. TOP_PRODUCERS \in Nat \ {0} /\ Len(c) \in Nat /\ DOMAIN c = 1..Len(c)
  BY RotationAssumption, RankedIs
<1>2. CASE Due /\ Len(c) > TOP_PRODUCERS
  <2>1. q = Rotate(rotation, c)
    <3>1. ~(Len(c) <= TOP_PRODUCERS)
      BY <1>1, <1>2
    <3> QED
      BY <1>2, <3>1 DEF CheckedRotation
  <2>2. q \in RotationRow /\ Swapped(c, q)
    BY <1>2, <2>1, RotateIs, SMTT(30) DEF Swapped
  <2>3. q.bp_currently_out \in Range(c) /\ q.sbp_currently_in \in Range(c)
    <3>1. PICK a \in 1..TOP_PRODUCERS, b \in (TOP_PRODUCERS + 1)..Len(c) : q.bp_currently_out = c[a] /\ q.sbp_currently_in = c[b]
      BY <2>2 DEF Swapped
    <3>2. a \in DOMAIN c /\ b \in DOMAIN c
      BY <1>1, <1>2
    <3> QED
      BY <3>1, <3>2 DEF Range
  <2> QED
    BY <1>1, <1>2, <2>2, <2>3
<1>3. CASE Due /\ Len(c) <= TOP_PRODUCERS
  <2>1. ~(Len(c) > TOP_PRODUCERS)
    BY <1>1, <1>3
  <2>2. q = rotation /\ ~Applied(c)
    BY <1>3, <2>1 DEF CheckedRotation, Applied
  <2> QED
    BY <2>2
<1>4. CASE ~Due
  <2>1. q = Keep(rotation, c)
    BY <1>4 DEF CheckedRotation
  <2>2. Applied(c) <=> q.bp_currently_out # NoName /\ q.sbp_currently_in # NoName
    BY <1>4 DEF Applied
  <2> QED
    BY <1>4, <2>1, <2>2, KeepIs DEF Swapped
<1> QED
  BY <1>1, <1>2, <1>3, <1>4

\* What check_rotation_state returns: the candidates with the most votes, one exchanged.
LEMMA TopIs ==
  ASSUME rotation \in RotationRow, NEW c, Ranked(c), Len(c) <= MAX_PRODUCERS, NEW q, q = CheckedRotation(c),
         NEW s, s = TopProducers(c)
  PROVE  /\ s \in Seq(Producers) /\ Len(s) = Places(Len(c)) /\ Len(s) \in 0..TOP_PRODUCERS /\ Len(s) <= Len(c)
         /\ \A i \in 1..Len(s) : s[i] = IF Applied(c) /\ c[i] = q.bp_currently_out THEN q.sbp_currently_in ELSE c[i]
<1> DEFINE n   == Places(Len(c))
           all == [i \in DOMAIN c |-> IF Applied(c) /\ c[i] = q.bp_currently_out THEN q.sbp_currently_in ELSE c[i]]
<1>1. TOP_PRODUCERS \in Nat \ {0} /\ Len(c) \in Nat /\ DOMAIN c = 1..Len(c) /\ \A i \in 1..Len(c) : c[i] \in Producers
  BY RotationAssumption, RankedIs
<1>2. n \in Nat /\ n <= Len(c) /\ n <= TOP_PRODUCERS
  BY <1>1 DEF Places
<1>3. s = SubSeq(all, 1, n)
  BY DEF TopProducers, StepsDown
<1>4. ASSUME NEW i \in 1..Len(c) PROVE all[i] \in Producers
  <2>1. CASE Applied(c)
    <3>1. q.sbp_currently_in \in Range(c)
      BY <2>1, CheckedIs
    <3>2. q.sbp_currently_in \in Producers
      BY <1>1, <3>1 DEF Range
    <3> QED
      BY <1>1, <3>2
  <2> QED
    BY <1>1, <2>1
<1>5. all \in Seq(Producers) /\ Len(all) = Len(c)
  <2>1. all \in [1..Len(c) -> Producers]
    BY <1>1, <1>4
  <2> HIDE DEF all
  <2> QED
    BY <1>1, <2>1
<1>6. \A i \in 1..n : all[i] = IF Applied(c) /\ c[i] = q.bp_currently_out THEN q.sbp_currently_in ELSE c[i]
  BY <1>1, <1>2
<1> HIDE DEF all, n
<1>7. s \in Seq(Producers) /\ Len(s) = n /\ \A i \in 1..n : s[i] = all[i]
  BY <1>1, <1>2, <1>3, <1>5
<1> QED
  BY <1>1, <1>2, <1>6, <1>7 DEF n

\* Without a pair in force the schedule is the top of the candidates.
LEMMA NotSwapped ==
  ASSUME rotation \in RotationRow, NEW c, Ranked(c), Len(c) <= MAX_PRODUCERS, NEW s, s = TopProducers(c), ~Applied(c)
  PROVE  IsInjective(s) /\ Range(s) \subseteq Range(c) /\ (Len(c) > TOP_PRODUCERS => Range(s) = Top(c))
<1>1. TOP_PRODUCERS \in Nat \ {0} /\ Len(c) \in Nat /\ DOMAIN c = 1..Len(c) /\ \A i, j \in 1..Len(c) : c[i] = c[j] => i = j
  BY RotationAssumption, RankedIs
<1>2. /\ s \in Seq(Producers) /\ Len(s) = Places(Len(c)) /\ Len(s) \in Nat /\ Len(s) <= Len(c)
      /\ \A i \in 1..Len(s) : s[i] = c[i]
  BY TopIs
<1>3. DOMAIN s = 1..Len(s)
  BY <1>2
<1>4. IsInjective(s) /\ Range(s) \subseteq Range(c)
  BY <1>1, <1>2, <1>3 DEF IsInjective, Range
<1>5. ASSUME Len(c) > TOP_PRODUCERS PROVE Range(s) = Top(c)
  <2>1. Len(s) = TOP_PRODUCERS
    BY <1>2, <1>5 DEF Places
  <2> QED
    BY <1>2, <1>3, <2>1 DEF Range, Top
<1> QED
  BY <1>4, <1>5

\* With a pair in force and more candidates than places one of the top producers is replaced.
LEMMA SwappedOne ==
  ASSUME rotation \in RotationRow, NEW c, Ranked(c), Len(c) <= MAX_PRODUCERS, NEW s, s = TopProducers(c), Applied(c),
         Len(c) > TOP_PRODUCERS, NEW q, q = CheckedRotation(c)
  PROVE  /\ IsInjective(s) /\ Range(s) \subseteq Range(c)
         /\ q.bp_currently_out \in Top(c) /\ q.sbp_currently_in \in Range(c) \ Top(c)
         /\ Range(s) = (Top(c) \ {q.bp_currently_out}) \cup {q.sbp_currently_in}
<1>1. TOP_PRODUCERS \in Nat \ {0} /\ Len(c) \in Nat /\ DOMAIN c = 1..Len(c) /\ \A i, j \in 1..Len(c) : c[i] = c[j] => i = j
  BY RotationAssumption, RankedIs
<1>2. PICK a \in 1..TOP_PRODUCERS, b \in (TOP_PRODUCERS + 1)..Len(c) : q.bp_currently_out = c[a] /\ q.sbp_currently_in = c[b]
  BY CheckedIs DEF Swapped
<1>3. /\ s \in Seq(Producers) /\ Len(s) = TOP_PRODUCERS
      /\ \A i \in 1..TOP_PRODUCERS : s[i] = IF c[i] = q.bp_currently_out THEN q.sbp_currently_in ELSE c[i]
  <2>1. /\ s \in Seq(Producers) /\ Len(s) = Places(Len(c))
        /\ \A i \in 1..Len(s) : s[i] = IF Applied(c) /\ c[i] = q.bp_currently_out THEN q.sbp_currently_in ELSE c[i]
    BY TopIs
  <2>2. Places(Len(c)) = TOP_PRODUCERS
    BY DEF Places
  <2> QED
    BY <2>1, <2>2
<1>4. DOMAIN s = 1..TOP_PRODUCERS
  BY <1>1, <1>3
<1>5. a \in 1..Len(c) /\ b \in 1..Len(c) /\ \A i \in 1..TOP_PRODUCERS : i \in 1..Len(c) /\ i # b
  BY <1>1
<1>6. \A i \in 1..TOP_PRODUCERS : (c[i] = q.bp_currently_out <=> i = a) /\ s[i] = IF i = a THEN c[b] ELSE c[i]
  BY <1>1, <1>2, <1>3, <1>5
<1>7. IsInjective(s)
  BY <1>1, <1>4, <1>5, <1>6 DEF IsInjective
<1>8. c[b] \notin Top(c) /\ c[a] \in Top(c) /\ c[b] \in Range(c)
  BY <1>1, <1>5 DEF Top, Range
<1>9. Range(s) = {s[i] : i \in 1..TOP_PRODUCERS}
  BY <1>4 DEF Range
<1>10. {s[i] : i \in 1..TOP_PRODUCERS} = (Top(c) \ {c[a]}) \cup {c[b]}
  <2>1. ASSUME NEW i \in 1..TOP_PRODUCERS PROVE s[i] \in (Top(c) \ {c[a]}) \cup {c[b]}
    BY <1>1, <1>5, <1>6 DEF Top
  <2>2. ASSUME NEW x \in Top(c) \ {c[a]} PROVE x \in {s[i] : i \in 1..TOP_PRODUCERS}
    BY <1>6 DEF Top
  <2>3. s[a] = c[b]
    BY <1>6
  <2> QED
    BY <2>1, <2>2, <2>3
<1>11. Top(c) \subseteq Range(c)
  BY <1>1, <1>5 DEF Top, Range
<1> QED
  BY <1>2, <1>7, <1>8, <1>9, <1>10, <1>11

-----------------------------------------------------------------------------
(* Elections.                                                              *)

\* What an election makes of a ranking.
LEMMA ElectedIs ==
  ASSUME rotation \in RotationRow, NEW r, Ranked(r), NEW c, c = Candidates(r), NEW e, e = Elected(r)
  PROVE  /\ e \in Seq(Producers) /\ Len(e) = Places(Len(c)) /\ Len(e) \in 0..TOP_PRODUCERS
         /\ Range(e) = Range(TopProducers(c)) /\ IsInjective(e) = IsInjective(TopProducers(c))
<1>1. Ranked(c) /\ Len(c) <= MAX_PRODUCERS
  BY CandidatesAre
<1>2. PICK s : s = TopProducers(c)
  OBVIOUS
<1>3. s \in Seq(Producers) /\ Len(s) = Places(Len(c)) /\ Len(s) \in 0..TOP_PRODUCERS
  <2>1. PICK q : q = CheckedRotation(c)
    OBVIOUS
  <2> QED
    BY <1>1, <1>2, <2>1, TopIs
<1>4. e = ByLocation[s]
  BY <1>2 DEF Elected
<1> QED
  BY <1>2, <1>3, <1>4, SortedIs

\* The chain refuses a schedule only if the pair is applied to TOP_PRODUCERS candidates or fewer.
LEMMA AbortsOnly ==
  ASSUME rotation \in RotationRow, NEW r, Ranked(r), NEW c, c = Candidates(r), Aborts(r)
  PROVE  Len(c) <= TOP_PRODUCERS /\ Applied(c)
<1>1. Ranked(c) /\ Len(c) <= MAX_PRODUCERS /\ TOP_PRODUCERS \in Nat /\ Len(c) \in Nat
  BY CandidatesAre, RankedIs, RotationAssumption
<1>2. PICK s : s = TopProducers(c)
  OBVIOUS
<1>3. PICK e : e = Elected(r)
  OBVIOUS
<1>4. ~IsInjective(e)
  BY <1>3 DEF Aborts, Refused
<1>5. ~IsInjective(s)
  BY <1>2, <1>3, <1>4, ElectedIs
<1>6. Applied(c)
  BY <1>1, <1>2, <1>5, NotSwapped
<1>7. ~(Len(c) > TOP_PRODUCERS)
  <2>1. PICK q : q = CheckedRotation(c)
    OBVIOUS
  <2> QED
    BY <1>1, <1>2, <1>5, <1>6, <2>1, SwappedOne
<1> QED
  BY <1>1, <1>6, <1>7

LEMMA TypesOf ==
  ASSUME TypeOK
  PROVE  /\ Ranked(ranking) /\ rotation \in RotationRow
         /\ rotationDue \in 0..RotationPeriod /\ sinceUpdate \in 0..(UpdatePeriod + 1) /\ lastSize \in 0..TOP_PRODUCERS
         /\ schedules \in Seq(Seq(Producers)) /\ Len(schedules) \in 1..(MaxQueued + 1) /\ rekeyed \in BOOLEAN
  BY RankingsAre DEF TypeOK, RotationRow, Names0

LEMMA TypesMake ==
  ASSUME Ranked(ranking), rotation \in RotationRow,
         rotationDue \in 0..RotationPeriod, sinceUpdate \in 0..(UpdatePeriod + 1), lastSize \in 0..TOP_PRODUCERS,
         schedules \in Seq(Seq(Producers)), Len(schedules) \in 1..(MaxQueued + 1), rekeyed \in BOOLEAN
  PROVE  TypeOK
  BY RankingsAre DEF TypeOK, RotationRow, Names0

\* The clocks stay in their ranges.
LEMMA Clocks ==
  ASSUME NEW d \in 0..RotationPeriod, NEW s \in 0..(UpdatePeriod + 1)
  PROVE  Later(d) \in 0..RotationPeriod /\ Older(s) \in 0..(UpdatePeriod + 1)
  BY RotationAssumption DEF Later, Older

LEMMA PassSlotTypes ==
  ASSUME TypeOK, PassSlot, Ranked(ranking')
  PROVE  TypeOK'
<1>1. rotation' = rotation /\ lastSize' = lastSize /\ schedules' = schedules /\ rekeyed' = rekeyed
      /\ rotationDue' = Later(rotationDue) /\ sinceUpdate' = Older(sinceUpdate)
  BY DEF PassSlot
<1>2. /\ (rotation \in RotationRow)' /\ (lastSize \in 0..TOP_PRODUCERS)' /\ (schedules \in Seq(Seq(Producers)))'
      /\ (Len(schedules) \in 1..(MaxQueued + 1))' /\ (rekeyed \in BOOLEAN)'
  BY <1>1, TypesOf
<1>3. (rotationDue \in 0..RotationPeriod)' /\ (sinceUpdate \in 0..(UpdatePeriod + 1))'
  BY <1>1, TypesOf, Clocks
<1> QED
  BY <1>2, <1>3, RankingsAre DEF TypeOK, RotationRow, Names0

LEMMA ElectionTypes ==
  ASSUME TypeOK, NEW r, Ranked(r), UpdateElectedProducers(r), Ranked(ranking')
  PROVE  TypeOK'
<1> DEFINE c == Candidates(r)
           e == Elected(r)
<1>1. TypeOK /\ RotationPeriod \in Nat \ {0} /\ UpdatePeriod \in Nat /\ MaxQueued \in Nat
  BY RotationAssumption
<1>2. (sinceUpdate \in 0..(UpdatePeriod + 1))'
  BY <1>1, Clocks DEF UpdateElectedProducers
<1>3. Later(IF Due THEN RotationPeriod ELSE rotationDue) \in 0..RotationPeriod /\ Later(rotationDue) \in 0..RotationPeriod
  <2>1. 0 \in 0..(UpdatePeriod + 1) /\ rotationDue \in 0..RotationPeriod /\ RotationPeriod \in 0..RotationPeriod
    BY <1>1, TypesOf
  <2> QED
    BY <2>1, Clocks
<1>4. (rotationDue \in 0..RotationPeriod)'
  BY <1>3 DEF UpdateElectedProducers
<1>5. CheckedRotation(c) \in RotationRow /\ e \in Seq(Producers) /\ Len(e) \in 0..TOP_PRODUCERS
  <2>1. rotation \in RotationRow /\ Ranked(c) /\ Len(c) <= MAX_PRODUCERS
    BY <1>1, TypesOf, CandidatesAre
  <2>2. PICK q : q = CheckedRotation(c)
    OBVIOUS
  <2>3. PICK d : d = e
    OBVIOUS
  <2>4. q \in RotationRow
    BY <2>1, <2>2, CheckedIs
  <2>5. d \in Seq(Producers) /\ Len(d) \in 0..TOP_PRODUCERS
    BY <2>1, <2>3, ElectedIs
  <2> QED
    BY <2>2, <2>3, <2>4, <2>5
<1>6. /\ rotation' = CheckedRotation(c) \/ rotation' = rotation
      /\ \/ schedules' = schedules /\ lastSize' = lastSize
         \/ schedules' = Append(schedules, e) /\ lastSize' = Len(e) /\ Len(schedules) <= MaxQueued
      /\ rekeyed' \in BOOLEAN
  <2>1. rekeyed \in BOOLEAN
    BY <1>1, TypesOf
  <2>2. rotation' = CheckedRotation(c) \/ rotation' = rotation
    BY DEF UpdateElectedProducers
  <2>3. \/ schedules' = schedules /\ lastSize' = lastSize
        \/ schedules' = Append(schedules, e) /\ lastSize' = Len(e) /\ Len(schedules) <= MaxQueued
    BY DEF UpdateElectedProducers, Accepted
  <2>4. rekeyed' \in BOOLEAN
    BY <2>1 DEF UpdateElectedProducers
  <2> QED
    BY <2>2, <2>3, <2>4
<1> HIDE DEF c, e
<1>7. (rotation \in RotationRow)' /\ (lastSize \in 0..TOP_PRODUCERS)'
  BY <1>1, <1>5, <1>6, TypesOf
<1>8. schedules' \in Seq(Seq(Producers)) /\ Len(schedules') \in 1..(MaxQueued + 1)
  <2>1. schedules \in Seq(Seq(Producers)) /\ Len(schedules) \in 1..(MaxQueued + 1)
    BY <1>1, TypesOf
  <2>2. CASE schedules' = schedules
    BY <2>1, <2>2
  <2>3. CASE schedules' = Append(schedules, e) /\ Len(schedules) <= MaxQueued
    <3>1. schedules' \in Seq(Seq(Producers)) /\ Len(schedules') = Len(schedules) + 1
      BY <1>5, <2>1, <2>3, AppendProperties
    <3> QED
      BY <1>1, <2>1, <2>3, <3>1
  <2> QED
    BY <1>6, <2>2, <2>3
<1> QED
  BY <1>2, <1>4, <1>6, <1>7, <1>8, RankingsAre DEF TypeOK, RotationRow, Names0

-----------------------------------------------------------------------------
(* The specification of module Rotation.                                   *)

LEMMA ComesInRanked ==
  ASSUME NEW r, Ranked(r), NEW p \in Producers, p \notin Range(r)
  PROVE  Ranked(Append(r, p)) /\ Range(Append(r, p)) = Range(r) \cup {p}
<1> DEFINE s == Append(r, p)
           n == Len(r)
<1>1. n \in Nat /\ DOMAIN r = 1..n /\ r \in Seq(Producers) /\ \A i, j \in 1..n : r[i] = r[j] => i = j
  BY RankedIs DEF Ranked
<1>2. s \in Seq(Producers) /\ Len(s) = n + 1 /\ s[n + 1] = p /\ \A i \in 1..n : s[i] = r[i]
  BY <1>1, AppendProperties
<1>3. \A i \in 1..n : r[i] # p
  BY <1>1 DEF Range
<1> HIDE DEF s, n
<1>4. DOMAIN s = 1..(n + 1)
  BY <1>1, <1>2
<1>5. IsInjective(s)
  BY <1>1, <1>2, <1>3, <1>4 DEF IsInjective
<1>6. Range(s) = Range(r) \cup {p}
  <2>1. Range(s) = {s[i] : i \in 1..(n + 1)} /\ Range(r) = {r[i] : i \in 1..n}
    BY <1>1, <1>4 DEF Range
  <2>2. ASSUME NEW i \in 1..(n + 1) PROVE s[i] \in {r[j] : j \in 1..n} \cup {p}
    <3>1. i \in 1..n \/ i = n + 1
      BY <1>1
    <3> QED
      BY <1>2, <3>1
  <2>3. ASSUME NEW i \in 1..n PROVE r[i] \in {s[j] : j \in 1..(n + 1)}
    <3>1. i \in 1..(n + 1)
      BY <1>1
    <3> QED
      BY <1>2, <3>1
  <2>4. n + 1 \in 1..(n + 1)
    BY <1>1
  <2> QED
    BY <1>2, <2>1, <2>2, <2>3, <2>4
<1> QED
  BY <1>2, <1>5, <1>6 DEF Ranked, s

LEMMA PassesRanked ==
  ASSUME NEW r, Ranked(r), NEW i \in DOMAIN r, i > 1
  PROVE  Ranked([r EXCEPT ![i] = r[i - 1], ![i - 1] = r[i]])
<1> DEFINE s == [r EXCEPT ![i] = r[i - 1], ![i - 1] = r[i]]
           n == Len(r)
<1>1. n \in Nat /\ DOMAIN r = 1..n /\ r \in [1..n -> Producers] /\ \A k, l \in 1..n : r[k] = r[l] => k = l
  BY RankedIs DEF Ranked
<1>2. i \in 1..n /\ i - 1 \in 1..n /\ i - 1 # i
  BY <1>1
<1>3. DOMAIN s = 1..n /\ \A k \in 1..n : s[k] = IF k = i THEN r[i - 1] ELSE IF k = i - 1 THEN r[i] ELSE r[k]
  BY <1>1, <1>2
<1>4. s \in [1..n -> Producers]
  BY <1>1, <1>2
<1> HIDE DEF s, n
<1>5. IsInjective(s)
  BY <1>1, <1>2, <1>3 DEF IsInjective
<1> QED
  BY <1>1, <1>4, <1>5 DEF Ranked, s

\* The initial record of the rotation.
LEMMA InitTypes == Init => TypeOK
<1> SUFFICES ASSUME Init PROVE TypeOK
  OBVIOUS
<1>1. /\ TOP_PRODUCERS \in Nat \ {0} /\ MAX_PRODUCERS \in Nat /\ TOP_PRODUCERS < MAX_PRODUCERS
      /\ RotationPeriod \in Nat \ {0} /\ UpdatePeriod \in Nat /\ MaxQueued \in Nat \ {0}
  BY RotationAssumption
<1>2. /\ ranking \in Rankings /\ rotationDue \in 0..RotationPeriod /\ sinceUpdate \in 0..(UpdatePeriod + 1)
      /\ lastSize \in 0..TOP_PRODUCERS /\ rekeyed \in BOOLEAN
  <2>1. ranking \in Rankings /\ rekeyed \in BOOLEAN
    BY DEF Init
  <2>2. rotationDue \in 0..RotationPeriod /\ sinceUpdate \in 0..(UpdatePeriod + 1) /\ lastSize \in 0..TOP_PRODUCERS
    BY <1>1 DEF Init
  <2> QED
    BY <2>1, <2>2
<1>3. schedules \in Seq(Seq(Producers)) /\ Len(schedules) \in 1..(MaxQueued + 1)
  BY <1>1 DEF Init
<1>4. rotation \in RotationRow
  <2>1. TOP_PRODUCERS \in 0..TOP_PRODUCERS /\ 2 * MAX_PRODUCERS + 5 \in TOP_PRODUCERS..(2 * MAX_PRODUCERS + 5)
    BY <1>1
  <2> QED
    BY <2>1 DEF Init, RotationRow, Names0
<1> QED
  BY <1>2, <1>3, <1>4 DEF TypeOK, RotationRow, Names0

LEMMA ActivateTypes ==
  ASSUME TypeOK, Activate
  PROVE  TypeOK'
<1>1. schedules \in Seq(Seq(Producers)) /\ Len(schedules) \in 1..(MaxQueued + 1) /\ Len(schedules) > 1 /\ MaxQueued \in Nat
  BY TypesOf, RotationAssumption DEF Activate
<1>2. schedules' \in Seq(Seq(Producers)) /\ Len(schedules') = Len(schedules) - 1
  <2>1. schedules # <<>> /\ schedules' = Tail(schedules)
    BY <1>1 DEF Activate
  <2> QED
    BY <1>1, <2>1, HeadTailProperties
<1>3. Len(schedules') \in 1..(MaxQueued + 1)
  BY <1>1, <1>2
<1> QED
  BY <1>2, <1>3 DEF TypeOK, Activate

LEMMA NewKeyTypes ==
  ASSUME TypeOK, NewKey
  PROVE  TypeOK'
  BY DEF TypeOK, NewKey

LEMMA NextTypes ==
  ASSUME TypeOK, [Next]_vars
  PROVE  TypeOK'
<1>1. Ranked(ranking)
  BY TypesOf
<1>2. CASE OnBlockElects
  <2>1. UpdateElectedProducers(ranking) /\ Ranked(ranking')
    BY <1>1, <1>2 DEF OnBlockElects
  <2> QED
    BY <1>1, <2>1, ElectionTypes
<1>3. CASE OnBlockWaits \/ MissedSlot
  <2>1. PassSlot /\ Ranked(ranking')
    BY <1>1, <1>3 DEF OnBlockWaits, MissedSlot
  <2> QED
    BY <2>1, PassSlotTypes
<1>4. CASE RankingChanges
  <2>1. Ranked(ranking')
    <3>1. CASE \E p \in Producers : ComesIn(p)
      BY <1>1, <3>1, ComesInRanked DEF ComesIn
    <3>2. ASSUME NEW i \in DOMAIN ranking, Leaves(i) PROVE Ranked(ranking')
      BY <1>1, <3>2, WithoutIs DEF Leaves
    <3>3. ASSUME NEW i \in DOMAIN ranking, Passes(i) PROVE Ranked(ranking')
      BY <1>1, <3>3, PassesRanked DEF Passes
    <3> QED
      BY <1>4, <3>1, <3>2, <3>3 DEF RankingChanges
  <2>2. ranking' \in Rankings
    BY <2>1, RankingsAre
  <2> QED
    BY <1>4, <2>2 DEF TypeOK, RankingChanges, rotationVars
<1>5. CASE NewKey
  BY <1>5, NewKeyTypes
<1>6. CASE Activate
  BY <1>6, ActivateTypes
<1>7. CASE UNCHANGED vars
  BY <1>7 DEF TypeOK, vars, rotationVars
<1> QED
  BY <1>2, <1>3, <1>4, <1>5, <1>6, <1>7 DEF Next

\* The index, the rotation record, the two clocks and the accepted schedules keep their types: in
\* particular the place of the standby is never below TOP_PRODUCERS, so that Rotate reads within
\* the candidates, and no schedule is longer than the chain takes (TypeOK).
THEOREM RotationTypeCorrect == Spec => []TypeOK
<1>1. Init => TypeOK
  BY InitTypes
<1>2. TypeOK /\ [Next]_vars => TypeOK'
  BY NextTypes
<1> QED
  BY <1>1, <1>2, PTL DEF Spec

\* The whole onblock is undone by the chain only between two rotations, with TOP_PRODUCERS
\* candidates or fewer that still include both of the pair in force (OnlyFewAbort).
THEOREM RotationAborts == Spec => []OnlyFewAbort
<1>1. TypeOK => OnlyFewAbort
  <2> SUFFICES ASSUME TypeOK, Aborts(ranking)
               PROVE  /\ ~Due
                      /\ Len(Candidates(ranking)) \in lastSize..TOP_PRODUCERS
                      /\ {rotation.bp_currently_out, rotation.sbp_currently_in} \subseteq Range(Candidates(ranking))
    BY DEF OnlyFewAbort
  <2>1. PICK c : c = Candidates(ranking)
    OBVIOUS
  <2>2. PICK q : q = CheckedRotation(c)
    OBVIOUS
  <2>3. rotation \in RotationRow /\ Ranked(ranking) /\ lastSize \in 0..TOP_PRODUCERS
    BY TypesOf
  <2>4. Ranked(c) /\ Len(c) <= MAX_PRODUCERS
    BY <2>1, <2>3, CandidatesAre
  <2>5. Len(c) <= TOP_PRODUCERS /\ Applied(c)
    BY <2>1, <2>3, AbortsOnly
  <2>6. ~Due /\ q = rotation /\ q.bp_currently_out \in Range(c) /\ q.sbp_currently_in \in Range(c)
    BY <2>2, <2>3, <2>4, <2>5, CheckedIs
  <2>7. Len(c) >= lastSize /\ Len(c) \in Nat /\ TOP_PRODUCERS \in Nat
    BY <2>1, <2>4, RankedIs, RotationAssumption DEF Aborts, CanElect
  <2> QED
    BY <2>1, <2>3, <2>5, <2>6, <2>7
<1> QED
  BY <1>1, RotationTypeCorrect, PTL

\* A list of n places without repetitions has n members.
LEMMA InjectiveSize ==
  ASSUME NEW s \in Seq(Producers), IsInjective(s)
  PROVE  Cardinality(Range(s)) = Len(s)
<1> DEFINE n == Len(s)
<1>1. n \in Nat /\ s \in [1..n -> Range(s)] /\ DOMAIN s = 1..n
  BY DEF Range
<1>2. IsFiniteSet(1..n) /\ Cardinality(1..n) = n
  <2> HIDE DEF n
  <2> QED
    BY <1>1, FS_Interval
<1>3. s \in Surjection(1..n, Range(s)) /\ s \in Injection(1..n, Range(s))
  BY <1>1 DEF Surjection, Injection, Range
<1> QED
  BY <1>2, <1>3, FS_Surjection

\* The schedule that is elected is made of candidates; with more candidates than places it is the
\* top of the ranking with at most one exchanged, the pair that the rotation record names.
LEMMA ElectsCandidates ==
  ASSUME rotation \in RotationRow, NEW r, Ranked(r), NEW c, c = Candidates(r), NEW e, e = Elected(r), ~Refused(e),
         NEW q, q = CheckedRotation(c)
  PROVE  /\ Range(e) \subseteq Range(c)
         /\ Len(c) > TOP_PRODUCERS =>
              /\ Cardinality(Range(e)) = TOP_PRODUCERS
              /\ \/ Range(e) = Top(r)
                 \/ /\ q.bp_currently_out \in Top(r) /\ q.sbp_currently_in \in Range(c) \ Top(r)
                    /\ Range(e) = (Top(r) \ {q.bp_currently_out}) \cup {q.sbp_currently_in}
<1>1. /\ Ranked(c) /\ Len(c) <= MAX_PRODUCERS /\ TOP_PRODUCERS \in Nat \ {0} /\ Len(c) \in Nat
      /\ DOMAIN c = 1..Len(c) /\ \A i \in 1..Len(c) : c[i] = r[i]
  BY CandidatesAre, RankedIs, RotationAssumption
<1>2. PICK s : s = TopProducers(c)
  OBVIOUS
<1>3. e \in Seq(Producers) /\ Len(e) = Places(Len(c)) /\ Range(e) = Range(s) /\ IsInjective(e)
  BY <1>2, ElectedIs DEF Refused
<1>4. Range(s) \subseteq Range(c)
  <2>1. CASE ~Applied(c)
    BY <1>1, <1>2, <2>1, NotSwapped
  <2>2. CASE Applied(c) /\ Len(c) > TOP_PRODUCERS
    BY <1>1, <1>2, <2>2, SwappedOne
  <2>3. CASE Applied(c) /\ ~(Len(c) > TOP_PRODUCERS)
    <3>1. q.sbp_currently_in \in Range(c)
      BY <1>1, <2>3, CheckedIs
    <3>2. /\ s \in Seq(Producers) /\ Len(s) \in Nat /\ Len(s) <= Len(c)
          /\ \A i \in 1..Len(s) : s[i] = IF Applied(c) /\ c[i] = q.bp_currently_out THEN q.sbp_currently_in ELSE c[i]
      BY <1>1, <1>2, TopIs
    <3>3. DOMAIN s = 1..Len(s)
      BY <3>2
    <3>4. ASSUME NEW i \in 1..Len(s) PROVE s[i] \in Range(c)
      <4>1. i \in DOMAIN c
        BY <1>1, <3>2
      <4>2. c[i] \in Range(c)
        BY <4>1 DEF Range
      <4> QED
        BY <3>1, <3>2, <4>2
    <3> QED
      BY <3>3, <3>4 DEF Range
  <2> QED
    BY <2>1, <2>2, <2>3
<1>5. ASSUME Len(c) > TOP_PRODUCERS
      PROVE  /\ Cardinality(Range(e)) = TOP_PRODUCERS
             /\ \/ Range(e) = Top(r)
                \/ /\ q.bp_currently_out \in Top(r) /\ q.sbp_currently_in \in Range(c) \ Top(r)
                   /\ Range(e) = (Top(r) \ {q.bp_currently_out}) \cup {q.sbp_currently_in}
  <2>1. Top(r) = Top(c)
    BY <1>1, <1>5 DEF Top
  <2>2. Cardinality(Range(e)) = TOP_PRODUCERS
    <3>1. Len(e) = TOP_PRODUCERS
      BY <1>3, <1>5 DEF Places
    <3> QED
      BY <1>3, <3>1, InjectiveSize
  <2>3. CASE ~Applied(c)
    <3>1. Range(s) = Top(c)
      BY <1>1, <1>2, <1>5, <2>3, NotSwapped
    <3> QED
      BY <1>3, <2>1, <2>2, <3>1
  <2>4. CASE Applied(c)
    <3>1. /\ q.bp_currently_out \in Top(c) /\ q.sbp_currently_in \in Range(c) \ Top(c)
          /\ Range(s) = (Top(c) \ {q.bp_currently_out}) \cup {q.sbp_currently_in}
      BY <1>1, <1>2, <1>5, <2>4, SwappedOne
    <3> QED
      BY <1>3, <2>1, <2>2, <3>1
  <2> QED
    BY <2>3, <2>4
<1> QED
  BY <1>3, <1>4, <1>5

\* Everybody on a proposed schedule is a candidate at that moment and, with standbys available, at
\* most one of the top producers is replaced, by one standby (OneSwapAtMost).
THEOREM RotationSwaps == Spec => OneSwapAtMost
<1> DEFINE P == Len(schedules') > Len(schedules) =>
        LET top == {ranking[i] : i \in 1..TOP_PRODUCERS}
            new == Range(Last(schedules'))
        IN  /\ new \subseteq Range(Candidates(ranking))
            /\ Len(Candidates(ranking)) > TOP_PRODUCERS =>
                /\ Cardinality(new) = TOP_PRODUCERS
                /\ \/ new = top
                   \/ \E out \in top, in \in Range(Candidates(ranking)) \ top :
                         /\ new = (top \ {out}) \cup {in}
                         /\ rotation'.bp_currently_out = out /\ rotation'.sbp_currently_in = in
<1>1. ASSUME TypeOK, [Next]_vars PROVE P
  <2> SUFFICES ASSUME Len(schedules') > Len(schedules) PROVE P
    OBVIOUS
  <2>1. schedules \in Seq(Seq(Producers)) /\ Len(schedules) \in Nat /\ rotation \in RotationRow /\ Ranked(ranking)
    BY <1>1, TypesOf
  <2>2. schedules' # schedules
    BY <2>1
  <2>3. OnBlockElects
    <3>1. ~Activate
      <4>1. ASSUME Activate PROVE FALSE
        <5>1. schedules # <<>> /\ schedules' = Tail(schedules)
          BY <2>1, <4>1 DEF Activate
        <5>2. Len(schedules') = Len(schedules) - 1
          BY <2>1, <5>1, HeadTailProperties
        <5> QED
          BY <2>1, <5>2
      <4> QED
        BY <4>1
    <3> QED
      BY <1>1, <2>2, <3>1 DEF Next, OnBlockWaits, MissedSlot, PassSlot, RankingChanges, NewKey, vars, rotationVars
  <2>4. PICK c : c = Candidates(ranking)
    OBVIOUS
  <2>5. PICK q : q = CheckedRotation(c)
    OBVIOUS
  <2>6. PICK e : e = Elected(ranking)
    OBVIOUS
  <2>7. CanElect(c) /\ rotation' = q /\ schedules' = Append(schedules, e)
    BY <2>2, <2>3, <2>4, <2>5, <2>6 DEF OnBlockElects, UpdateElectedProducers
  <2>8. ~Refused(e)
    BY <2>3, <2>4, <2>6, <2>7 DEF OnBlockElects, Aborts
  <2>9. Last(schedules') = e
    <3>1. e \in Seq(Producers)
      BY <2>1, <2>4, <2>6, ElectedIs
    <3>2. Len(schedules') = Len(schedules) + 1 /\ schedules'[Len(schedules) + 1] = e
      BY <2>1, <2>7, <3>1, AppendProperties
    <3> QED
      BY <3>2 DEF Last
  <2>10. /\ Range(e) \subseteq Range(c)
         /\ Len(c) > TOP_PRODUCERS =>
              /\ Cardinality(Range(e)) = TOP_PRODUCERS
              /\ \/ Range(e) = Top(ranking)
                 \/ /\ q.bp_currently_out \in Top(ranking) /\ q.sbp_currently_in \in Range(c) \ Top(ranking)
                    /\ Range(e) = (Top(ranking) \ {q.bp_currently_out}) \cup {q.sbp_currently_in}
    BY <2>1, <2>4, <2>5, <2>6, <2>8, ElectsCandidates
  <2> QED
    BY <2>4, <2>7, <2>9, <2>10 DEF Top
<1>2. TypeOK /\ [Next]_vars => [P]_vars
  BY <1>1
<1> QED
  BY <1>2, RotationTypeCorrect, PTL DEF Spec, OneSwapAtMost

-----------------------------------------------------------------------------
(* The metrics of module Kick.                                             *)

LEMMA MinIs ==
  ASSUME NEW a \in Int, NEW b \in Int
  PROVE  Min({a, b}) \in {a, b} /\ Min({a, b}) <= a /\ Min({a, b}) <= b
<1> DEFINE Least(x) == \A y \in {a, b} : x <= y
<1>1. \E x \in {a, b} : Least(x)
  OBVIOUS
<1>2. Min({a, b}) = CHOOSE x \in {a, b} : Least(x)
  BY DEF Min
<1>3. (CHOOSE x \in {a, b} : Least(x)) \in {a, b} /\ Least(CHOOSE x \in {a, b} : Least(x))
  <2> HIDE DEF Least
  <2> QED
    BY <1>1
<1> QED
  BY <1>2, <1>3

LEMMA MaxIs ==
  ASSUME NEW a \in Int, NEW b \in Int
  PROVE  Max({a, b}) \in {a, b}
<1> DEFINE Most(x) == \A y \in {a, b} : x >= y
<1>1. \E x \in {a, b} : Most(x)
  OBVIOUS
<1>2. Max({a, b}) = CHOOSE x \in {a, b} : Most(x)
  BY DEF Max
<1>3. (CHOOSE x \in {a, b} : Most(x)) \in {a, b}
  <2> HIDE DEF Most
  <2> QED
    BY <1>1
<1> QED
  BY <1>2, <1>3

MetricRow == [bp_name : Producers, missed_blocks_per_cycle : 0..(UINT32 - 1)]
\* The metrics w have the names of m, in its order.
SameNames(m, w) == /\ w \in Seq(MetricRow) /\ Len(w) = Len(m)
                   /\ \A i \in 1..Len(m) : w[i].bp_name = m[i].bp_name
\* No count is above a turn.
Counted(m) == \A i \in DOMAIN m : m[i].missed_blocks_per_cycle <= MAX_BLOCK_PER_CYCLE

LEMMA KickConstants ==
  /\ MAX_BLOCK_PER_CYCLE \in Nat \ {0} /\ UINT32 \in Nat \ {0} /\ MAX_BLOCK_PER_CYCLE < UINT32
  /\ MaxCorrection \in Nat /\ MaxCorrection > 1 /\ KickShare \in Nat \ {0} /\ System \notin Producers
  BY KickAssumption

\* A table with a row for each of m's, of the same name.
LEMMA Relabelled ==
  ASSUME NEW m \in Seq(MetricRow), NEW w, DOMAIN w = DOMAIN m, w = [i \in DOMAIN m |-> w[i]],
         \A i \in DOMAIN m : w[i] \in MetricRow /\ w[i].bp_name = m[i].bp_name
  PROVE  SameNames(m, w)
<1>1. Len(m) \in Nat /\ DOMAIN m = 1..Len(m)
  OBVIOUS
<1>2. w \in [1..Len(m) -> MetricRow]
  BY <1>1
<1>3. w \in Seq(MetricRow) /\ Len(w) = Len(m)
  BY <1>1, <1>2
<1> QED
  BY <1>1, <1>3 DEF SameNames

LEMMA RowWith ==
  ASSUME NEW x \in MetricRow, NEW n \in 0..(UINT32 - 1), NEW y, y = [x EXCEPT !.missed_blocks_per_cycle = n]
  PROVE  y \in MetricRow /\ y.bp_name = x.bp_name /\ y.missed_blocks_per_cycle = n
  BY DEF MetricRow

LEMMA ResetIs ==
  ASSUME NEW m \in Seq(MetricRow), NEW p, NEW w, w = reset_schedule_metrics(m, p)
  PROVE  SameNames(m, w) /\ Counted(w)
<1> DEFINE n(i) == IF m[i].bp_name = p THEN MAX_BLOCK_PER_CYCLE - 1 ELSE MAX_BLOCK_PER_CYCLE
<1>1. w = [i \in DOMAIN m |-> [m[i] EXCEPT !.missed_blocks_per_cycle = n(i)]]
  BY DEF reset_schedule_metrics
<1>2. \A i : n(i) \in 0..(UINT32 - 1) /\ n(i) <= MAX_BLOCK_PER_CYCLE
  BY KickConstants
<1> HIDE DEF n
<1>3. \A i \in DOMAIN m : m[i] \in MetricRow
  OBVIOUS
<1>4. DOMAIN w = DOMAIN m /\ w = [i \in DOMAIN m |-> w[i]]
  BY <1>1
<1>5. ASSUME NEW i \in DOMAIN m
      PROVE  w[i] \in MetricRow /\ w[i].bp_name = m[i].bp_name /\ w[i].missed_blocks_per_cycle = n(i)
  <2>1. w[i] = [m[i] EXCEPT !.missed_blocks_per_cycle = n(i)]
    BY <1>1
  <2> QED
    BY <1>2, <1>3, <2>1, RowWith
<1>6. SameNames(m, w)
  BY <1>4, <1>5, Relabelled
<1>7. Counted(w)
  BY <1>2, <1>4, <1>5 DEF Counted
<1> QED
  BY <1>6, <1>7

\* A block is taken off the count of its producer.
LEMMA TakenOff ==
  ASSUME NEW m \in Seq(MetricRow), NEW p, NEW w, w = update_producer_missed_blocks(m, p)
  PROVE  SameNames(m, w) /\ (Counted(m) => Counted(w))
<1>1. DOMAIN w = DOMAIN m /\ w = [i \in DOMAIN m |-> w[i]]
  BY DEF update_producer_missed_blocks
<1>2. ASSUME NEW i \in DOMAIN m
      PROVE  /\ w[i] \in MetricRow /\ w[i].bp_name = m[i].bp_name
             /\ m[i].missed_blocks_per_cycle \in Nat /\ w[i].missed_blocks_per_cycle \in Nat
             /\ w[i].missed_blocks_per_cycle <= m[i].missed_blocks_per_cycle
  <2>1. m[i] \in MetricRow
    OBVIOUS
  <2>2. m[i].missed_blocks_per_cycle \in 0..(UINT32 - 1) /\ UINT32 \in Nat
    BY <2>1, KickConstants DEF MetricRow
  <2>3. CASE m[i].bp_name = p /\ m[i].missed_blocks_per_cycle > 0
    <3>1. w[i] = [m[i] EXCEPT !.missed_blocks_per_cycle = m[i].missed_blocks_per_cycle - 1]
      BY <2>3 DEF update_producer_missed_blocks
    <3>2. m[i].missed_blocks_per_cycle - 1 \in 0..(UINT32 - 1)
      BY <2>2, <2>3
    <3>3. w[i] \in MetricRow /\ w[i].bp_name = m[i].bp_name /\ w[i].missed_blocks_per_cycle = m[i].missed_blocks_per_cycle - 1
      BY <2>1, <3>1, <3>2, RowWith
    <3> QED
      BY <2>2, <3>2, <3>3
  <2>4. CASE ~(m[i].bp_name = p /\ m[i].missed_blocks_per_cycle > 0)
    <3>1. w[i] = m[i]
      BY <2>4 DEF update_producer_missed_blocks
    <3> QED
      BY <2>1, <2>2, <3>1
  <2> QED
    BY <2>3, <2>4
<1>3. SameNames(m, w)
  BY <1>1, <1>2, Relabelled
<1>4. ASSUME Counted(m) PROVE Counted(w)
  BY <1>1, <1>2, <1>4, KickConstants DEF Counted
<1> QED
  BY <1>3, <1>4

\* The blocks of eosio are taken off, in uint32_t.
LEMMA EosioTakenOff ==
  ASSUME NEW m \in Seq(MetricRow), NEW p, NEW c \in Int, NEW w,
         w = [i \in DOMAIN m |-> IF m[i].bp_name = p THEN [m[i] EXCEPT !.missed_blocks_per_cycle = (@ - c) % UINT32] ELSE m[i]]
  PROVE  SameNames(m, w)
<1>1. DOMAIN w = DOMAIN m /\ w = [i \in DOMAIN m |-> w[i]]
  OBVIOUS
<1>2. ASSUME NEW i \in DOMAIN m PROVE w[i] \in MetricRow /\ w[i].bp_name = m[i].bp_name
  <2> DEFINE k == m[i].missed_blocks_per_cycle
  <2>1. m[i] \in MetricRow
    OBVIOUS
  <2>2. k \in Int /\ UINT32 \in Nat \ {0}
    BY <2>1, KickConstants DEF MetricRow
  <2>3. (k - c) % UINT32 \in 0..(UINT32 - 1)
    <3> HIDE DEF k
    <3> QED
      BY <2>2
  <2>4. w[i] = [m[i] EXCEPT !.missed_blocks_per_cycle = (k - c) % UINT32] \/ w[i] = m[i]
    OBVIOUS
  <2>5. PICK j : j = (k - c) % UINT32
    OBVIOUS
  <2>6. j \in 0..(UINT32 - 1) /\ (w[i] = [m[i] EXCEPT !.missed_blocks_per_cycle = j] \/ w[i] = m[i])
    BY <2>3, <2>4, <2>5
  <2> HIDE DEF k
  <2>7. CASE w[i] = m[i]
    BY <2>1, <2>7
  <2>8. CASE w[i] = [m[i] EXCEPT !.missed_blocks_per_cycle = j]
    BY <2>1, <2>6, <2>8, RowWith
  <2> QED
    BY <2>6, <2>7, <2>8
<1> QED
  BY <1>1, <1>2, Relabelled, ZenonT(40)

-----------------------------------------------------------------------------
(* The inductive invariant of module Kick.                                 *)

\* Schedules have at most TOP_PRODUCERS places; only the one before the first election is empty.
SchedulesFit == \A i \in DOMAIN schedules : Len(schedules[i]) <= TOP_PRODUCERS /\ (i > 1 => schedules[i] # <<>>)
\* The turn is one of the active schedule.
TurnFits == Head(schedules) # <<>> => turn < Len(Head(schedules))
\* A count above a turn, one that has wrapped, is dropped by the next block under this schedule.
CountsFit == Counted(metric) \/ (correction > 0 /\ lastCaller # System /\ Head(schedules) # <<>>)

Callers == Producers \cup {NoName, System}
KickInv == KickTypeOK /\ MetricsFollowSchedule /\ SchedulesFit /\ TurnFits /\ CountsFit

LEMMA KickTypes ==
  ASSUME KickInv
  PROVE  /\ TypeOK /\ Ranked(ranking) /\ active \subseteq Producers /\ Range(ranking) \subseteq active
         /\ metric \in Seq(MetricRow) /\ correction \in -3..MaxCorrection /\ lastCaller \in Callers
         /\ missed \in [Producers -> Nat] /\ debt \in [Producers -> Int]
         /\ turn \in 0..(TOP_PRODUCERS - 1) /\ inTurn \in 0..(MAX_BLOCK_PER_CYCLE - 1)
         /\ misses \in 0..MaxMisses /\ changes \in 0..MaxChanges
         /\ schedules \in Seq(Seq(Producers)) /\ Len(schedules) \in Nat /\ Len(schedules) >= 1
         /\ Head(schedules) = schedules[1] /\ Head(schedules) \in Seq(Producers)
<1>1. TypeOK
  BY DEF KickInv, KickTypeOK
<1>2. Ranked(ranking) /\ schedules \in Seq(Seq(Producers)) /\ Len(schedules) \in Nat /\ Len(schedules) >= 1
  <2>1. MaxQueued \in Nat
    BY RotationAssumption
  <2> QED
    BY <1>1, <2>1, TypesOf
<1>3. schedules # <<>>
  BY <1>2
<1>4. Head(schedules) = schedules[1] /\ Head(schedules) \in Seq(Producers)
  BY <1>2, <1>3, HeadTailProperties
<1> QED
  BY <1>1, <1>2, <1>4 DEF KickInv, KickTypeOK, MetricRow, Callers

\* The producer whose slot it is.
LEMMA ScheduledIs ==
  ASSUME KickInv
  PROVE  \/ Head(schedules) = <<>> /\ Scheduled = System
         \/ Head(schedules) # <<>> /\ Scheduled \in Producers
<1>1. Head(schedules) \in Seq(Producers) /\ turn \in 0..(TOP_PRODUCERS - 1) /\ TOP_PRODUCERS \in Nat
  BY KickTypes, RotationAssumption
<1>2. CASE Head(schedules) = <<>>
  BY <1>2 DEF Scheduled
<1>3. CASE Head(schedules) # <<>>
  <2>1. turn < Len(Head(schedules))
    BY <1>3 DEF KickInv, TurnFits
  <2>2. turn + 1 \in 1..Len(Head(schedules))
    BY <1>1, <2>1
  <2>3. Scheduled = Head(schedules)[turn + 1]
    BY <1>3 DEF Scheduled
  <2> QED
    BY <1>1, <1>3, <2>2, <2>3
<1> QED
  BY <1>2, <1>3

\* What check_missed_blocks leaves of the metrics m, with correction corr, under the producer p.
Outcome(o, p) ==
    /\ SameNames(metric, o.metric) /\ o.corr \in -3..MaxCorrection /\ o.caller \in Callers
    /\ o.charge \in BOOLEAN /\ o.elect \in BOOLEAN
    /\ o.charge => o.metric = metric /\ Counted(metric)
    /\ Counted(o.metric) \/ (o.corr > 0 /\ o.caller # System /\ Head(schedules) # <<>>)

LEMMA OutcomeIs ==
  ASSUME KickInv, NEW p, p = Scheduled, NEW o, o = check_missed_blocks(p)
  PROVE  Outcome(o, p)
<1> DEFINE s == AfterSkipping(p)
<1>1. /\ metric \in Seq(MetricRow) /\ correction \in -3..MaxCorrection /\ lastCaller \in Callers
      /\ MaxCorrection \in Nat /\ MaxCorrection > 1 /\ correction \in Int
  BY KickTypes, KickConstants
<1>2. CountUp(correction) \in -3..MaxCorrection /\ (correction > 0 => CountUp(correction) > 0)
  <2>1. correction + 1 \in Int /\ MaxCorrection \in Int
    BY <1>1
  <2>2. CountUp(correction) \in {correction + 1, MaxCorrection} /\ CountUp(correction) <= MaxCorrection
    BY <2>1, MinIs DEF CountUp
  <2> QED
    BY <1>1, <2>2
<1>3. SameNames(metric, metric)
  BY <1>1 DEF SameNames
<1>4. CASE p = System
  <2>1. o = Result(p, CountUp(correction), metric, FALSE, FALSE)
    BY <1>4 DEF check_missed_blocks
  <2>2. o.caller = p /\ o.corr = CountUp(correction) /\ o.metric = metric /\ o.charge = FALSE /\ o.elect = FALSE
    BY <2>1 DEF Result
  <2>3. Head(schedules) = <<>>
    BY <1>4, ScheduledIs, KickConstants
  <2>4. Counted(metric)
    BY <2>3 DEF KickInv, CountsFit
  <2> QED
    BY <1>2, <1>3, <1>4, <2>2, <2>4 DEF Outcome, Callers
<1>5. CASE p # System /\ ~is_new_schedule_activated
  <2> DEFINE k == IF lastCaller # p THEN 1 ELSE CountUp(correction)
  <2>1. o = Result(p, k, metric, FALSE, FALSE)
    BY <1>5 DEF check_missed_blocks
  <2>2. o.caller = p /\ o.corr = k /\ o.metric = metric /\ o.charge = FALSE /\ o.elect = FALSE
    BY <2>1 DEF Result
  <2>3. k \in -3..MaxCorrection /\ (correction > 0 => k > 0)
    BY <1>1, <1>2
  <2>4. Head(schedules) # <<>> /\ p \in Producers
    BY <1>5, ScheduledIs
  <2>5. Counted(metric) \/ k > 0
    BY <2>3 DEF KickInv, CountsFit
  <2> HIDE DEF k
  <2> QED
    BY <1>3, <1>5, <2>2, <2>3, <2>4, <2>5 DEF Outcome, Callers
<1>6. CASE p # System /\ is_new_schedule_activated
  <2>1. Head(schedules) # <<>> /\ p \in Producers /\ p \in Callers
    BY <1>6, ScheduledIs DEF Callers
  <2>2. o = IF s.corr < 0 THEN Result(s.caller, s.corr, s.metric, FALSE, FALSE)
            ELSE IF p \notin active
            THEN Result(s.caller, s.corr, reset_schedule_metrics(s.metric, NoName), FALSE, TRUE)
            ELSE IF s.caller # p /\ SeenBefore(s.metric, p)
            THEN Result(p, s.corr, s.metric, TRUE, FALSE)
            ELSE Result(p, s.corr, update_producer_missed_blocks(s.metric, p), FALSE, FALSE)
    BY <1>6 DEF check_missed_blocks
  \* What is left to check for the four results.
  <2>3. ASSUME SameNames(metric, s.metric), s.corr \in -3..MaxCorrection, s.caller \in Callers,
               s.corr < 0 => Counted(s.metric),
               Counted(s.metric) \/ (s.caller = p /\ s.corr > 0),
               s.caller # p => s.metric = metric
        PROVE  Outcome(o, p)
    <3>1. s.metric \in Seq(MetricRow)
      BY <2>3 DEF SameNames
    <3>2. CASE s.corr < 0
      <4>1. o = Result(s.caller, s.corr, s.metric, FALSE, FALSE)
        BY <2>2, <3>2
      <4>2. o.caller = s.caller /\ o.corr = s.corr /\ o.metric = s.metric /\ o.charge = FALSE /\ o.elect = FALSE
        BY <4>1 DEF Result
      <4> HIDE DEF s
      <4> QED
        BY <2>3, <3>2, <4>2 DEF Outcome
    <3>3. CASE ~(s.corr < 0) /\ p \notin active
      <4>1. PICK w : w = reset_schedule_metrics(s.metric, NoName)
        OBVIOUS
      <4>2. o = Result(s.caller, s.corr, w, FALSE, TRUE)
        BY <2>2, <3>3, <4>1
      <4>3. o.caller = s.caller /\ o.corr = s.corr /\ o.metric = w /\ o.charge = FALSE /\ o.elect = TRUE
        BY <4>2 DEF Result
      <4>4. SameNames(s.metric, w) /\ Counted(w)
        BY <3>1, <4>1, ResetIs
      <4>5. SameNames(metric, w)
        BY <2>3, <4>4 DEF SameNames
      <4> HIDE DEF s
      <4> QED
        BY <2>3, <4>3, <4>4, <4>5 DEF Outcome
    <3>4. CASE ~(s.corr < 0) /\ p \in active /\ s.caller # p /\ SeenBefore(s.metric, p)
      <4>1. o = Result(p, s.corr, s.metric, TRUE, FALSE)
        BY <2>2, <3>4
      <4>2. o.caller = p /\ o.corr = s.corr /\ o.metric = s.metric /\ o.charge = TRUE /\ o.elect = FALSE
        BY <4>1 DEF Result
      <4> HIDE DEF s
      <4> QED
        BY <2>1, <2>3, <3>4, <4>2 DEF Outcome
    <3>5. CASE ~(s.corr < 0) /\ p \in active /\ ~(s.caller # p /\ SeenBefore(s.metric, p))
      <4>1. PICK w : w = update_producer_missed_blocks(s.metric, p)
        OBVIOUS
      <4>2. o = Result(p, s.corr, w, FALSE, FALSE)
        BY <2>2, <3>5, <4>1
      <4>3. o.caller = p /\ o.corr = s.corr /\ o.metric = w /\ o.charge = FALSE /\ o.elect = FALSE
        BY <4>2 DEF Result
      <4>4. SameNames(s.metric, w) /\ (Counted(s.metric) => Counted(w))
        BY <3>1, <4>1, TakenOff
      <4>5. SameNames(metric, w)
        BY <2>3, <4>4 DEF SameNames
      <4> HIDE DEF s
      <4> QED
        BY <1>6, <2>1, <2>3, <4>3, <4>4, <4>5 DEF Outcome
    <3> QED
      BY <3>2, <3>3, <3>4, <3>5
  <2>4. CASE ~(correction > 0)
    <3>1. Counted(metric)
      BY <2>4 DEF KickInv, CountsFit
    <3>2. AfterCorrection(p) = [caller |-> lastCaller, corr |-> correction, metric |-> metric]
      BY <2>4 DEF AfterCorrection
    <3>3. /\ s.metric = metric /\ s.caller \in {lastCaller, p}
          /\ s.corr = correction \/ (correction < 0 /\ s.corr = correction + 1)
      BY <3>2 DEF AfterSkipping
    <3>4. s.corr \in -3..MaxCorrection
      <4> HIDE DEF s
      <4> QED
        BY <1>1, <2>4, <3>3
    <3> QED
      BY <1>1, <1>3, <2>1, <2>3, <3>1, <3>3, <3>4
  <2>5. CASE correction > 0 /\ lastCaller = System
    <3>1. Counted(metric)
      BY <2>5 DEF KickInv, CountsFit
    <3>2. PICK w : w = [i \in DOMAIN metric |-> IF metric[i].bp_name = p
                          THEN [metric[i] EXCEPT !.missed_blocks_per_cycle = (@ - correction) % UINT32] ELSE metric[i]]
      OBVIOUS
    <3>3. AfterCorrection(p) = [caller |-> p, corr |-> correction, metric |-> w]
      BY <2>5, <3>2 DEF AfterCorrection, LeaveCorrection
    <3>4. ~(correction < 0)
      BY <1>1, <2>5
    <3>5. s.metric = w /\ s.caller = p /\ s.corr = correction
      BY <3>3, <3>4 DEF AfterSkipping
    <3>6. SameNames(metric, w)
      BY <1>1, <3>2, EosioTakenOff
    <3> QED
      BY <1>1, <2>1, <2>3, <2>5, <3>4, <3>5, <3>6
  <2>6. CASE correction > 0 /\ lastCaller # System
    <3>1. PICK w : w = reset_schedule_metrics(metric, NoName)
      OBVIOUS
    <3>2. AfterCorrection(p) = [caller |-> p, corr |-> -3, metric |-> w]
      BY <2>6, <3>1 DEF AfterCorrection, LeaveCorrection
    <3>3. s.metric = w /\ s.caller = p /\ s.corr = -3
      BY <3>2 DEF AfterSkipping
    <3>4. SameNames(metric, w) /\ Counted(w)
      BY <1>1, <3>1, ResetIs
    <3>5. -3 \in -3..MaxCorrection
      BY <1>1
    <3> QED
      BY <2>1, <2>3, <3>3, <3>4, <3>5
  <2> QED
    BY <2>4, <2>5, <2>6
<1> QED
  BY <1>4, <1>5, <1>6

\* The metrics list the producers of the schedule s.
Follows(m, s) == m \in Seq(MetricRow) /\ Len(m) = Len(s) /\ \A i \in 1..Len(s) : m[i].bp_name = s[i]

LEMMA FollowsIs ==
  ASSUME NEW m \in Seq(MetricRow), NEW s \in Seq(Producers), NEW n
  PROVE  (Len(m) = n /\ [i \in DOMAIN m |-> m[i].bp_name] = s) <=> (Follows(m, s) /\ n = Len(s))
<1> DEFINE f == [i \in DOMAIN m |-> m[i].bp_name]
<1>1. Len(m) \in Nat /\ DOMAIN m = 1..Len(m) /\ Len(s) \in Nat /\ DOMAIN s = 1..Len(s)
  OBVIOUS
<1>2. ASSUME Len(m) = n, f = s PROVE Follows(m, s) /\ n = Len(s)
  <2>1. DOMAIN f = 1..Len(m) /\ DOMAIN f = 1..Len(s)
    BY <1>1, <1>2
  <2>2. Len(m) = Len(s)
    <3> HIDE DEF f
    <3>0. PICK a : a = Len(m)
      OBVIOUS
    <3>1. PICK b : b = Len(s)
      OBVIOUS
    <3>2. a \in Nat /\ b \in Nat /\ \A i : i \in 1..a <=> i \in 1..b
      <4>1. a \in Nat /\ b \in Nat /\ 1..a = DOMAIN f /\ 1..b = DOMAIN f
        BY <1>1, <2>1, <3>0, <3>1, Zenon
      <4> QED
        BY <4>1, Zenon
    <3>3. (a \in 1..a => a <= b) /\ (b \in 1..b => b <= a)
      BY <3>2
    <3> QED
      BY <3>0, <3>1, <3>2, <3>3
  <2>3. \A i \in 1..Len(s) : m[i].bp_name = s[i]
    BY <1>1, <1>2, <2>2
  <2> QED
    BY <1>2, <2>2, <2>3 DEF Follows
<1>3. ASSUME Follows(m, s), n = Len(s) PROVE Len(m) = n /\ f = s
  <2>1. Len(m) = Len(s) /\ \A i \in 1..Len(s) : m[i].bp_name = s[i]
    BY <1>3 DEF Follows
  <2>2. s = [i \in 1..Len(s) |-> s[i]]
    OBVIOUS
  <2>3. f = [i \in 1..Len(s) |-> s[i]]
    BY <1>1, <2>1
  <2> QED
    BY <1>3, <2>1, <2>2, <2>3
<1> QED
  BY <1>2, <1>3

\* The metrics of a new schedule.
LEMMA FreshIs ==
  ASSUME NEW s \in Seq(Producers), NEW w, w = Fresh(s)
  PROVE  Follows(w, s) /\ Counted(w)
<1>1. Len(s) \in Nat /\ DOMAIN s = 1..Len(s) /\ \A i \in 1..Len(s) : s[i] \in Producers
  OBVIOUS
<1>2. MAX_BLOCK_PER_CYCLE \in 0..(UINT32 - 1) /\ MAX_BLOCK_PER_CYCLE <= MAX_BLOCK_PER_CYCLE
  BY KickConstants
<1>3. /\ DOMAIN w = 1..Len(s) /\ w \in [1..Len(s) -> MetricRow]
      /\ \A i \in 1..Len(s) : w[i].bp_name = s[i] /\ w[i].missed_blocks_per_cycle = MAX_BLOCK_PER_CYCLE
  BY <1>1, <1>2 DEF Fresh, MetricRow
<1>4. w \in Seq(MetricRow) /\ Len(w) = Len(s)
  BY <1>1, <1>3
<1> QED
  BY <1>2, <1>3, <1>4 DEF Follows, Counted

LEMMA SameFollows ==
  ASSUME NEW m, NEW w, NEW s \in Seq(Producers), Follows(m, s), SameNames(m, w)
  PROVE  Follows(w, s)
  BY DEF Follows, SameNames

\* The last accepted schedule, which the metrics follow.
LEMMA LastIs ==
  ASSUME KickInv
  PROVE  /\ Last(schedules) \in Seq(Producers) /\ Follows(metric, Last(schedules)) /\ lastSize = Len(Last(schedules))
<1>1. schedules \in Seq(Seq(Producers)) /\ Len(schedules) \in Nat /\ Len(schedules) >= 1 /\ metric \in Seq(MetricRow)
  BY KickTypes
<1>2. Last(schedules) \in Seq(Producers)
  BY <1>1 DEF Last
<1>3. Len(metric) = lastSize /\ [i \in DOMAIN metric |-> metric[i].bp_name] = Last(schedules)
  BY DEF KickInv, MetricsFollowSchedule
<1> QED
  BY <1>1, <1>2, <1>3, FollowsIs

\* An accepted schedule comes last, is not empty and has at most TOP_PRODUCERS places.
LEMMA AppendFits ==
  ASSUME KickInv, NEW e \in Seq(Producers), Len(e) <= TOP_PRODUCERS, e # <<>>, schedules' = Append(schedules, e)
  PROVE  SchedulesFit' /\ Last(schedules') = e /\ Head(schedules') = Head(schedules)
<1> DEFINE n == Len(schedules)
<1>1. schedules \in Seq(Seq(Producers)) /\ n \in Nat /\ n >= 1 /\ Head(schedules) = schedules[1]
  BY KickTypes
<1>2. /\ schedules' \in Seq(Seq(Producers)) /\ Len(schedules') = n + 1 /\ schedules'[n + 1] = e
      /\ \A i \in 1..n : schedules'[i] = schedules[i]
  BY <1>1, AppendProperties
<1> HIDE DEF n
<1>3. DOMAIN schedules' = 1..(n + 1) /\ schedules' # <<>>
  BY <1>1, <1>2
<1>4. DOMAIN schedules = 1..n
  BY <1>1 DEF n
<1>5. \A i \in 1..n : Len(schedules[i]) <= TOP_PRODUCERS /\ (i > 1 => schedules[i] # <<>>)
  BY <1>4 DEF KickInv, SchedulesFit
<1>6. \A i \in 1..(n + 1) : Len(schedules'[i]) <= TOP_PRODUCERS /\ (i > 1 => schedules'[i] # <<>>)
  <2> SUFFICES ASSUME NEW i \in 1..(n + 1) PROVE Len(schedules'[i]) <= TOP_PRODUCERS /\ (i > 1 => schedules'[i] # <<>>)
    OBVIOUS
  <2>1. i \in 1..n \/ i = n + 1
    BY <1>1
  <2> QED
    BY <1>2, <1>5, <2>1
<1>7. SchedulesFit'
  BY <1>3, <1>6 DEF SchedulesFit
<1>8. Last(schedules') = e
  BY <1>2 DEF Last
<1>9. Head(schedules') = schedules'[1] /\ 1 \in 1..n
  BY <1>1, <1>2, <1>3, HeadTailProperties
<1> QED
  BY <1>1, <1>2, <1>7, <1>8, <1>9

\* The parts of the invariant that depend on the schedules, after an election or a slot without one.
LEMMA Elects ==
  ASSUME KickInv, NEW r, Ranked(r), NEW m, SameNames(metric, m), UpdateElectedProducers(r),
         metric' = MetricsAfter(r, m)
  PROVE  /\ SchedulesFit' /\ Head(schedules') = Head(schedules)
         /\ metric' \in Seq(MetricRow) /\ MetricsFollowSchedule'
         /\ metric' = m \/ Counted(metric')
<1>1. PICK e : e = Elected(r)
  OBVIOUS
<1>2. PICK c : c = Candidates(r)
  OBVIOUS
<1>3. rotation \in RotationRow /\ TOP_PRODUCERS \in Nat \ {0} /\ Ranked(c) /\ Len(c) \in Nat
  BY <1>2, KickTypes, TypesOf, CandidatesAre, RankedIs, RotationAssumption
<1>4. e \in Seq(Producers) /\ Len(e) = Places(Len(c)) /\ Len(e) \in 0..TOP_PRODUCERS
  BY <1>1, <1>2, <1>3, ElectedIs
<1>5. CASE Proposes(r)
  <2>1. CanElect(c) /\ Accepted(e)
    BY <1>1, <1>2, <1>5 DEF Proposes
  <2>2. schedules' = Append(schedules, e) /\ lastSize' = Len(e) /\ metric' = Fresh(e)
    BY <1>1, <1>2, <1>5, <2>1 DEF UpdateElectedProducers, MetricsAfter
  <2>3. e # <<>> /\ Len(e) <= TOP_PRODUCERS
    <3>1. Len(e) # 0 /\ Len(e) <= TOP_PRODUCERS
      BY <1>3, <1>4, <2>1 DEF CanElect, Places
    <3> QED
      BY <3>1
  <2>4. SchedulesFit' /\ Last(schedules') = e /\ Head(schedules') = Head(schedules)
    BY <1>4, <2>2, <2>3, AppendFits
  <2>5. PICK w : w = Fresh(e)
    OBVIOUS
  <2>6. Follows(w, e) /\ Counted(w) /\ w \in Seq(MetricRow)
    BY <1>4, <2>5, FreshIs DEF Follows
  <2>7. PICK n : n = Len(e)
    OBVIOUS
  <2>8. Len(w) = n /\ [i \in DOMAIN w |-> w[i].bp_name] = e
    BY <1>4, <2>6, <2>7, FollowsIs
  <2>9. MetricsFollowSchedule'
    BY <2>2, <2>4, <2>5, <2>7, <2>8 DEF MetricsFollowSchedule
  <2> QED
    BY <2>2, <2>4, <2>5, <2>6, <2>9
<1>6. CASE ~Proposes(r)
  <2>1. schedules' = schedules /\ lastSize' = lastSize /\ metric' = m
    BY <1>6 DEF UpdateElectedProducers, MetricsAfter, Proposes
  <2>2. PICK s : s = Last(schedules)
    OBVIOUS
  <2>3. PICK n : n = Len(s)
    OBVIOUS
  <2>4. s \in Seq(Producers) /\ Follows(metric, s) /\ lastSize = n
    BY <2>2, <2>3, LastIs
  <2>5. Follows(m, s) /\ m \in Seq(MetricRow)
    BY <2>4, SameFollows DEF Follows
  <2>6. Len(m) = n /\ [i \in DOMAIN m |-> m[i].bp_name] = s
    BY <2>3, <2>4, <2>5, FollowsIs
  <2>7. MetricsFollowSchedule'
    BY <2>1, <2>2, <2>4, <2>6 DEF MetricsFollowSchedule
  <2>8. SchedulesFit'
    BY <2>1 DEF KickInv, SchedulesFit
  <2> QED
    BY <2>1, <2>5, <2>7, <2>8
<1> QED
  BY <1>5, <1>6

LEMMA Waits ==
  ASSUME KickInv, NEW m, SameNames(metric, m), PassSlot, metric' = m
  PROVE  /\ SchedulesFit' /\ Head(schedules') = Head(schedules) /\ metric' \in Seq(MetricRow) /\ MetricsFollowSchedule'
<1>1. schedules' = schedules /\ lastSize' = lastSize
  BY DEF PassSlot
<1>2. PICK s : s = Last(schedules)
  OBVIOUS
<1>3. PICK n : n = Len(s)
  OBVIOUS
<1>4. s \in Seq(Producers) /\ Follows(metric, s) /\ lastSize = n
  BY <1>2, <1>3, LastIs
<1>5. Follows(m, s) /\ m \in Seq(MetricRow)
  BY <1>4, SameFollows DEF Follows
<1>6. Len(m) = n /\ [i \in DOMAIN m |-> m[i].bp_name] = s
  BY <1>3, <1>4, <1>5, FollowsIs
<1>7. MetricsFollowSchedule'
  BY <1>1, <1>2, <1>4, <1>6 DEF MetricsFollowSchedule
<1>8. SchedulesFit'
  BY <1>1 DEF KickInv, SchedulesFit
<1> QED
  BY <1>1, <1>5, <1>7, <1>8

-----------------------------------------------------------------------------
(* What onblock charges and whom it kicks.                                 *)

\* What is charged to q comes from a row of the metrics.
LEMMA ChargedIs ==
  ASSUME NEW m \in Seq(MetricRow), NEW q \in Producers
  PROVE  \/ Charged(m)[q] = 0
         \/ \E i \in DOMAIN m : m[i].bp_name = q /\ Charged(m)[q] = m[i].missed_blocks_per_cycle
<1>1. Charged(m)[q] = IF Charge(m, q) = 0 THEN 0 ELSE m[Charge(m, q)].missed_blocks_per_cycle
  BY DEF Charged
<1>2. CASE q \in active /\ q \in Names(m)
  <2> DEFINE P(i) == m[i].bp_name = q
  <2>1. \E i \in DOMAIN m : P(i)
    BY <1>2 DEF Names
  <2>2. Charge(m, q) = CHOOSE i \in DOMAIN m : P(i)
    BY <1>2 DEF Charge
  <2>3. PICK c : c = Charge(m, q)
    OBVIOUS
  <2>4. c \in DOMAIN m /\ P(c)
    <3> HIDE DEF P
    <3> QED
      BY <2>1, <2>2, <2>3
  <2> QED
    BY <1>1, <2>3, <2>4
<1>3. CASE ~(q \in active /\ q \in Names(m))
  BY <1>1, <1>3 DEF Charge
<1> QED
  BY <1>2, <1>3

LEMMA RowCounts ==
  ASSUME NEW m \in Seq(MetricRow), NEW i \in DOMAIN m
  PROVE  m[i].missed_blocks_per_cycle \in Nat
<1>1. m[i] \in MetricRow
  OBVIOUS
<1>2. m[i].missed_blocks_per_cycle \in 0..(UINT32 - 1)
  BY <1>1 DEF MetricRow
<1> QED
  BY <1>2, KickConstants

\* The producer q is charged with the misses n: with what it had, or with a row of the metrics more.
ChargedWith(n, q) ==
    /\ n[q] \in Nat /\ n[q] - missed[q] <= MAX_BLOCK_PER_CYCLE
    /\ n[q] > 0 => \/ missed[q] > 0
                   \/ \E i \in DOMAIN metric : metric[i].bp_name = q /\ metric[i].missed_blocks_per_cycle > 0

LEMMA ChargesAre ==
  ASSUME KickInv, NEW p, p = Scheduled, NEW o, o = check_missed_blocks(p), NEW n, n = ChargesOf(o), NEW q \in Producers
  PROVE  ChargedWith(n, q)
<1>1. missed[q] \in Nat /\ metric \in Seq(MetricRow) /\ MAX_BLOCK_PER_CYCLE \in Nat
  BY KickTypes, KickConstants
<1>2. Outcome(o, p)
  BY OutcomeIs
<1>3. n[q] = missed[q] + IF o.charge THEN Charged(o.metric)[q] ELSE 0
  BY DEF ChargesOf
<1>4. CASE ~o.charge
  <2>1. n[q] = missed[q] + 0
    BY <1>3, <1>4
  <2>2. PICK a : a = missed[q]
    OBVIOUS
  <2>3. n[q] = a /\ a - a <= MAX_BLOCK_PER_CYCLE
    BY <1>1, <2>1, <2>2
  <2> QED
    BY <1>1, <2>2, <2>3 DEF ChargedWith
<1>5. CASE o.charge
  <2>1. o.metric = metric /\ Counted(metric)
    BY <1>2, <1>5 DEF Outcome
  <2>2. PICK c : c = Charged(metric)[q]
    OBVIOUS
  <2>3. n[q] = missed[q] + c
    BY <1>3, <1>5, <2>1, <2>2
  <2>4. c = 0 \/ \E i \in DOMAIN metric : metric[i].bp_name = q /\ c = metric[i].missed_blocks_per_cycle
    BY <1>1, <2>2, ChargedIs
  <2>5. CASE c = 0
    <3>1. PICK a : a = missed[q]
      OBVIOUS
    <3>2. n[q] = a /\ a - a <= MAX_BLOCK_PER_CYCLE
      BY <1>1, <2>3, <2>5, <3>1
    <3> QED
      BY <1>1, <3>1, <3>2 DEF ChargedWith
  <2>6. CASE \E i \in DOMAIN metric : metric[i].bp_name = q /\ c = metric[i].missed_blocks_per_cycle
    <3>1. PICK i \in DOMAIN metric : metric[i].bp_name = q /\ c = metric[i].missed_blocks_per_cycle
      BY <2>6
    <3>2. c \in Nat /\ c <= MAX_BLOCK_PER_CYCLE
      BY <1>1, <2>1, <3>1, RowCounts DEF Counted
    <3>3. PICK a : a = missed[q]
      OBVIOUS
    <3>4. PICK k : k = n[q]
      OBVIOUS
    <3>5. a \in Nat /\ k = a + c
      BY <1>1, <2>3, <3>3, <3>4
    <3>6. k \in Nat /\ k - a <= MAX_BLOCK_PER_CYCLE /\ (k > 0 => a > 0 \/ c > 0)
      BY <1>1, <3>2, <3>5
    <3> QED
      BY <3>1, <3>3, <3>4, <3>6 DEF ChargedWith
  <2> QED
    BY <2>4, <2>5, <2>6
<1> QED
  BY <1>4, <1>5

\* The kicked producers are active, have misses, and are no more than their share of the schedule.
LEMMA KicksAre ==
  ASSUME KickInv, NEW p, p = Scheduled, NEW o, o = check_missed_blocks(p), NEW n, n = ChargesOf(o), NEW K \in KicksOf(o)
  PROVE  /\ K \subseteq active /\ (\A q \in K : n[q] > 0)
         /\ IsFiniteSet(K) /\ Cardinality(K) <= Len(metric) \div KickShare
<1>1. Outcome(o, p)
  BY OutcomeIs
<1>2. metric \in Seq(MetricRow) /\ Len(metric) \in Nat /\ KickShare \in Nat \ {0} /\ active \subseteq Producers
  BY KickTypes, KickConstants
<1>3. Len(metric) \div KickShare \in Nat
  BY <1>2
<1>4. CASE ~o.charge
  <2>1. K = {}
    BY <1>4 DEF KicksOf
  <2> QED
    BY <1>3, <2>1, FS_EmptySet
<1>5. CASE o.charge
  <2> DEFINE over == {q \in Names(metric) \cap active : n[q] > 0 /\ crossed_missed_blocks_threshold(n[q], Len(metric))}
             max  == Len(metric) \div KickShare
  <2>1. o.metric = metric
    BY <1>1, <1>5 DEF Outcome
  <2>2. K \in Kicked(metric, n)
    BY <1>5, <2>1 DEF KicksOf
  <2>3. K \in SUBSET over /\ Cardinality(K) = Min({max, Cardinality(over)})
    BY <2>2 DEF Kicked
  <2>4. over \subseteq Producers
    BY <1>2
  <2>5. IsFiniteSet(over) /\ IsFiniteSet(K)
    BY <2>3, <2>4, RotationAssumption, FS_Subset
  <2>6. Cardinality(over) \in Nat
    BY <2>5, FS_CardinalityType
  <2>7. K \subseteq active /\ \A q \in K : n[q] > 0
    BY <2>3
  <2>8. Cardinality(K) <= max
    <3> HIDE DEF over, max
    <3>1. max \in Int /\ Cardinality(over) \in Int
      BY <1>3, <2>6 DEF max
    <3> QED
      BY <2>3, <3>1, MinIs
  <2> QED
    BY <2>5, <2>7, <2>8
<1> QED
  BY <1>4, <1>5

LEMMA SettleIs ==
  ASSUME NEW d \in [Producers -> Int]
  PROVE  Settle(d) \in [Producers -> Int]
<1>1. \A q \in Producers : Max({d[q], 0}) \in Int
  <2> SUFFICES ASSUME NEW q \in Producers PROVE Max({d[q], 0}) \in Int
    OBVIOUS
  <2>1. d[q] \in Int /\ 0 \in Int
    OBVIOUS
  <2>2. Max({d[q], 0}) \in {d[q], 0}
    BY <2>1, MaxIs
  <2> QED
    BY <2>1, <2>2
<1> QED
  BY <1>1 DEF Settle

LEMMA OweIs ==
  ASSUME KickInv, NEW p \in Producers \cup {System}
  PROVE  Owe(p) \in [Producers -> Int]
<1>1. debt \in [Producers -> Int] /\ MAX_BLOCK_PER_CYCLE \in Int
  BY KickTypes, KickConstants
<1>2. CASE p = System
  BY <1>1, <1>2 DEF Owe
<1>3. CASE p # System
  <2>1. p \in Producers /\ debt[p] + 1 \in Int
    BY <1>1, <1>3
  <2>2. Min({debt[p] + 1, MAX_BLOCK_PER_CYCLE}) \in {debt[p] + 1, MAX_BLOCK_PER_CYCLE}
    BY <1>1, <2>1, MinIs
  <2>3. Min({debt[p] + 1, MAX_BLOCK_PER_CYCLE}) \in Int
    BY <1>1, <2>1, <2>2
  <2>4. Owe(p) = [debt EXCEPT ![p] = Min({debt[p] + 1, MAX_BLOCK_PER_CYCLE})]
    BY <1>3 DEF Owe
  <2> QED
    BY <1>1, <2>1, <2>3, <2>4
<1> QED
  BY <1>2, <1>3

\* The part of the invariant onblock changes; the slots are left to NextSlot.
BlockInv ==
    /\ TypeOK /\ active \subseteq Producers /\ Range(ranking) \subseteq active
    /\ metric \in Seq(MetricRow) /\ correction \in -3..MaxCorrection /\ lastCaller \in Callers
    /\ missed \in [Producers -> Nat] /\ debt \in [Producers -> Int]
    /\ MetricsFollowSchedule /\ SchedulesFit /\ CountsFit

LEMMA OnBlockKeeps ==
  ASSUME KickInv, NEW p, p = Scheduled, NEW o, o = check_missed_blocks(p), NEW n, n = ChargesOf(o),
         NEW K, K \in KicksOf(o), OnBlock(p, o, n, K)
  PROVE  BlockInv' /\ Head(schedules') = Head(schedules) /\ active' = active \ K
<1>1. PICK r : r = Without(ranking, K)
  OBVIOUS
<1>2. PICK elects : elects = (o.elect \/ UpdateDue)
  OBVIOUS
<1>3. PICK left : left = [q \in Producers |-> IF q \in K THEN 0 ELSE n[q]]
  OBVIOUS
<1>4. PICK m : m = IF o.charge THEN reset_schedule_metrics(o.metric, p) ELSE o.metric
  OBVIOUS
<1>5. PICK d : d = [q \in Producers |-> debt[q] - (n[q] - missed[q])]
  OBVIOUS
<1>6. /\ active' = active \ K /\ ranking' = r /\ correction' = o.corr /\ lastCaller' = o.caller
      /\ elects => UpdateElectedProducers(r) /\ metric' = MetricsAfter(r, m) /\ missed' = MissedAfter(r, left)
      /\ ~elects => PassSlot /\ metric' = m /\ missed' = left
      /\ debt' = IF o.elect \/ metric' # m THEN Settle(d) ELSE d
  BY <1>1, <1>2, <1>3, <1>4, <1>5 DEF OnBlock
<1>7. /\ TypeOK /\ Ranked(ranking) /\ active \subseteq Producers /\ Range(ranking) \subseteq active
      /\ metric \in Seq(MetricRow) /\ missed \in [Producers -> Nat] /\ debt \in [Producers -> Int]
  BY KickTypes
<1>8. Outcome(o, p)
  BY OutcomeIs
<1>9. \A q \in Producers : n[q] \in Nat
  BY ChargesAre DEF ChargedWith
<1>10. Ranked(r) /\ Range(r) = Range(ranking) \ K
  BY <1>1, <1>7, WithoutIs
<1>11. /\ SameNames(metric, m)
       /\ Counted(m) \/ (o.corr > 0 /\ o.caller # System /\ Head(schedules) # <<>>)
  <2>1. CASE o.charge
    <3>1. m = reset_schedule_metrics(metric, p)
      BY <1>4, <1>8, <2>1 DEF Outcome
    <3> QED
      BY <1>7, <3>1, ResetIs
  <2>2. CASE ~o.charge
    <3>1. m = o.metric
      BY <1>4, <2>2
    <3> QED
      BY <1>8, <3>1 DEF Outcome
  <2> QED
    BY <2>1, <2>2
<1>12. Ranked(ranking')
  BY <1>6, <1>10
<1>13. TypeOK'
  <2>1. CASE elects
    BY <1>6, <1>7, <1>10, <1>12, <2>1, ElectionTypes
  <2>2. CASE ~elects
    BY <1>6, <1>7, <1>12, <2>2, PassSlotTypes
  <2> QED
    BY <2>1, <2>2
<1>14. /\ SchedulesFit' /\ Head(schedules') = Head(schedules) /\ metric' \in Seq(MetricRow)
       /\ MetricsFollowSchedule' /\ (metric' = m \/ Counted(metric'))
  <2>1. CASE elects
    BY <1>6, <1>10, <1>11, <2>1, Elects
  <2>2. CASE ~elects
    BY <1>6, <1>11, <2>2, Waits
  <2> QED
    BY <2>1, <2>2
<1>15. active' \subseteq Producers /\ Range(ranking') \subseteq active'
  BY <1>6, <1>7, <1>10
<1>16. correction' \in -3..MaxCorrection /\ lastCaller' \in Callers
  BY <1>6, <1>8 DEF Outcome
<1>17. missed' \in [Producers -> Nat]
  <2>1. left \in [Producers -> Nat]
    BY <1>3, <1>9
  <2>2. MissedAfter(r, left) \in [Producers -> Nat]
    BY <2>1 DEF MissedAfter
  <2> QED
    BY <1>6, <2>1, <2>2
<1>18. debt' \in [Producers -> Int]
  <2>1. \A q \in Producers : debt[q] - (n[q] - missed[q]) \in Int
    BY <1>7, <1>9
  <2>2. d \in [Producers -> Int]
    BY <1>5, <2>1
  <2>3. Settle(d) \in [Producers -> Int]
    BY <2>2, SettleIs
  <2> QED
    BY <1>6, <2>2, <2>3
<1>19. CountsFit'
  <2>1. Counted(metric') \/ (correction' > 0 /\ lastCaller' # System /\ Head(schedules') # <<>>)
    BY <1>6, <1>11, <1>14
  <2> QED
    BY <2>1 DEF CountsFit, Counted
<1>20. BlockInv'
  BY <1>13, <1>14, <1>15, <1>16, <1>17, <1>18, <1>19 DEF BlockInv, MetricRow, Callers
<1> QED
  BY <1>6, <1>14, <1>20

-----------------------------------------------------------------------------
(* The slots of the chain and the steps of module Kick.                    *)

SlotInv == turn \in 0..(TOP_PRODUCERS - 1) /\ inTurn \in 0..(MAX_BLOCK_PER_CYCLE - 1) /\ TurnFits
BoundInv == misses \in 0..MaxMisses /\ changes \in 0..MaxChanges

LEMMA InvParts == KickInv <=> BlockInv /\ SlotInv /\ BoundInv
  BY DEF KickInv, KickTypeOK, BlockInv, SlotInv, BoundInv, MetricRow, Callers

LEMMA InvPartsNext ==
  ASSUME BlockInv', SlotInv', BoundInv'
  PROVE  KickInv'
  BY DEF KickInv, KickTypeOK, BlockInv, SlotInv, BoundInv, MetricRow, Callers

\* The next slot is one of the active schedule.
LEMMA NextSlotKeeps ==
  ASSUME KickInv, NextSlot, Head(schedules') = Head(schedules)
  PROVE  SlotInv'
<1>1. PICK h : h = Head(schedules)
  OBVIOUS
<1>2. PICK k : k = Len(h)
  OBVIOUS
<1>3. /\ turn \in 0..(TOP_PRODUCERS - 1) /\ inTurn \in 0..(MAX_BLOCK_PER_CYCLE - 1) /\ h \in Seq(Producers)
      /\ MAX_BLOCK_PER_CYCLE \in Nat \ {0} /\ TOP_PRODUCERS \in Nat \ {0} /\ h = schedules[1] /\ 1 \in DOMAIN schedules
  BY <1>1, KickTypes, KickConstants, RotationAssumption
<1>4. k \in Nat /\ k <= TOP_PRODUCERS /\ (h # <<>> => k > 0 /\ turn < k)
  BY <1>1, <1>2, <1>3 DEF KickInv, SchedulesFit, TurnFits
<1>5. (inTurn + 1) % MAX_BLOCK_PER_CYCLE \in 0..(MAX_BLOCK_PER_CYCLE - 1)
  BY <1>3
<1>6. inTurn' = (inTurn + 1) % MAX_BLOCK_PER_CYCLE
  BY DEF NextSlot
<1>7. turn' = IF inTurn + 1 < MAX_BLOCK_PER_CYCLE \/ h = <<>> THEN turn ELSE (turn + 1) % k
  BY <1>1, <1>2 DEF NextSlot
<1>8. turn' \in 0..(TOP_PRODUCERS - 1) /\ (h # <<>> => turn' < k)
  <2>1. CASE inTurn + 1 < MAX_BLOCK_PER_CYCLE \/ h = <<>>
    BY <1>3, <1>4, <1>7, <2>1
  <2>2. CASE ~(inTurn + 1 < MAX_BLOCK_PER_CYCLE \/ h = <<>>)
    <3>1. k \in Nat \ {0} /\ turn + 1 \in Nat
      BY <1>3, <1>4, <2>2
    <3>2. (turn + 1) % k \in 0..(k - 1)
      BY <3>1
    <3>3. turn' = (turn + 1) % k
      BY <1>7, <2>2
    <3> QED
      BY <1>3, <1>4, <3>1, <3>2, <3>3
  <2> QED
    BY <2>1, <2>2
<1>9. TurnFits'
  BY <1>1, <1>2, <1>8 DEF TurnFits
<1> QED
  BY <1>5, <1>6, <1>8, <1>9 DEF SlotInv

LEMMA ProduceKeeps ==
  ASSUME KickInv, Produce
  PROVE  KickInv' /\ \E K \in KicksOf(check_missed_blocks(Scheduled)) : active' = active \ K
<1>1. PICK p : p = Scheduled
  OBVIOUS
<1>2. PICK o : o = check_missed_blocks(p)
  OBVIOUS
<1>3. PICK n : n = ChargesOf(o)
  OBVIOUS
<1>4. /\ \E K \in KicksOf(o) : OnBlock(p, o, n, K)
      /\ NextSlot /\ misses' = misses /\ changes' = changes
  BY <1>1, <1>2, <1>3 DEF Produce
<1>5. PICK K \in KicksOf(o) : OnBlock(p, o, n, K)
  BY <1>4
<1>6. BlockInv' /\ Head(schedules') = Head(schedules) /\ active' = active \ K
  BY <1>1, <1>2, <1>3, <1>5, OnBlockKeeps
<1>7. SlotInv'
  BY <1>4, <1>6, NextSlotKeeps
<1>8. BoundInv'
  BY <1>4, InvParts DEF BoundInv
<1>9. KickInv'
  BY <1>6, <1>7, <1>8, InvPartsNext
<1> QED
  BY <1>1, <1>2, <1>5, <1>6, <1>9

\* A slot in which nothing is counted.
LEMMA IdleKeeps ==
  ASSUME KickInv, debt' \in [Producers -> Int], PassSlot, NextSlot, BoundInv',
         UNCHANGED <<ranking, active, metric, correction, lastCaller, missed>>
  PROVE  KickInv'
<1>1. /\ schedules' = schedules /\ lastSize' = lastSize /\ ranking' = ranking /\ active' = active /\ metric' = metric
      /\ correction' = correction /\ lastCaller' = lastCaller /\ missed' = missed
  BY DEF PassSlot
<1>2. TypeOK /\ Ranked(ranking)
  BY KickTypes
<1>3. TypeOK'
  BY <1>1, <1>2, PassSlotTypes
<1>4. BlockInv'
  BY <1>1, <1>3, InvParts DEF BlockInv, MetricsFollowSchedule, SchedulesFit, CountsFit, Counted
<1>5. SlotInv'
  BY <1>1, NextSlotKeeps
<1> QED
  BY <1>4, <1>5, InvPartsNext

LEMMA ProduceAbortedKeeps ==
  ASSUME KickInv, ProduceAborted
  PROVE  KickInv'
<1>1. /\ debt' = Owe(Scheduled) /\ PassSlot /\ NextSlot
      /\ UNCHANGED <<ranking, active, metric, correction, lastCaller, missed>> /\ misses' = misses /\ changes' = changes
  BY DEF ProduceAborted
<1>2. Scheduled \in Producers \cup {System}
  BY ScheduledIs
<1>3. debt' \in [Producers -> Int]
  BY <1>1, <1>2, OweIs
<1>4. BoundInv'
  BY <1>1, InvParts DEF BoundInv
<1> QED
  BY <1>1, <1>3, <1>4, IdleKeeps

LEMMA MissKeeps ==
  ASSUME KickInv, Miss
  PROVE  KickInv'
<1>1. /\ misses < MaxMisses /\ misses' = misses + 1 /\ changes' = changes
      /\ debt' = Owe(Scheduled) /\ PassSlot /\ NextSlot
      /\ UNCHANGED <<ranking, active, metric, correction, lastCaller, missed>>
  BY DEF Miss
<1>2. Scheduled \in Producers \cup {System}
  BY ScheduledIs
<1>3. debt' \in [Producers -> Int]
  BY <1>1, <1>2, OweIs
<1>4. BoundInv'
  BY <1>1, InvParts, KickAssumption DEF BoundInv
<1> QED
  BY <1>1, <1>3, <1>4, IdleKeeps

\* The chain activates the next schedule: the metrics follow the last one, which stays.
LEMMA KickActivateKeeps ==
  ASSUME KickInv, KickActivate
  PROVE  KickInv'
<1>1. /\ Len(schedules) > 1 /\ schedules' = Tail(schedules) /\ Activate
      /\ turn' \in 0..(Len(schedules[2]) - 1) /\ debt' = Settle(debt)
      /\ ranking' = ranking /\ lastSize' = lastSize
      /\ UNCHANGED <<active, metric, correction, lastCaller, missed, inTurn, misses, changes>>
  BY DEF KickActivate, Activate
<1>2. /\ TypeOK /\ schedules \in Seq(Seq(Producers)) /\ Len(schedules) \in Nat /\ debt \in [Producers -> Int]
      /\ inTurn \in 0..(MAX_BLOCK_PER_CYCLE - 1)
  BY KickTypes
<1>3. PICK n : n = Len(schedules)
  OBVIOUS
<1>4. schedules # <<>> /\ n \in Nat /\ n > 1
  BY <1>1, <1>2, <1>3
<1>5. /\ schedules' \in Seq(Seq(Producers)) /\ Len(schedules') = n - 1
      /\ \A i \in 1..(n - 1) : schedules'[i] = schedules[i + 1]
  BY <1>1, <1>2, <1>3, <1>4, HeadTailProperties
<1>6. DOMAIN schedules = 1..n /\ DOMAIN schedules' = 1..(n - 1) /\ schedules' # <<>>
  BY <1>2, <1>3, <1>4, <1>5
<1>7. Last(schedules') = Last(schedules)
  <2>1. n - 1 \in 1..(n - 1) /\ (n - 1) + 1 = n
    BY <1>4
  <2>2. schedules'[n - 1] = schedules[n]
    BY <1>5, <2>1
  <2> QED
    BY <1>3, <1>5, <2>2 DEF Last
<1>8. Head(schedules') = schedules[2] /\ schedules[2] # <<>> /\ Len(schedules[2]) <= TOP_PRODUCERS
  <2>1. 1 \in 1..(n - 1) /\ 1 + 1 = 2 /\ 2 \in 1..n /\ 2 > 1
    BY <1>4
  <2>2. Head(schedules') = schedules'[1]
    BY <1>5, <1>6, HeadTailProperties
  <2>3. schedules'[1] = schedules[2]
    BY <1>5, <2>1
  <2> QED
    BY <1>6, <2>1, <2>2, <2>3 DEF KickInv, SchedulesFit
<1>9. SchedulesFit'
  <2>1. ASSUME NEW i \in 1..(n - 1)
        PROVE  Len(schedules'[i]) <= TOP_PRODUCERS /\ schedules'[i] # <<>>
    <3>1. i + 1 \in 1..n /\ i + 1 > 1
      BY <1>4
    <3>2. schedules'[i] = schedules[i + 1]
      BY <1>5
    <3> QED
      BY <1>6, <3>1, <3>2 DEF KickInv, SchedulesFit
  <2> QED
    BY <1>6, <2>1 DEF SchedulesFit
<1>10. MetricsFollowSchedule'
  BY <1>1, <1>7 DEF KickInv, MetricsFollowSchedule
<1>11. CountsFit'
  <2>1. Head(schedules') # <<>>
    BY <1>8
  <2> QED
    BY <1>1, <2>1 DEF KickInv, CountsFit, Counted
<1>12. TypeOK' /\ debt' \in [Producers -> Int]
  BY <1>1, <1>2, ActivateTypes, SettleIs
<1>13. BlockInv'
  BY <1>1, <1>9, <1>10, <1>11, <1>12, InvParts DEF BlockInv
<1>14. SlotInv'
  <2>1. PICK k : k = Len(schedules[2])
    OBVIOUS
  <2>2. k \in Nat /\ k <= TOP_PRODUCERS /\ TOP_PRODUCERS \in Nat
    <3>1. 2 \in 1..n
      BY <1>4
    <3>2. schedules[2] \in Seq(Producers)
      BY <1>2, <1>3, <3>1, ElementOfSeq
    <3> QED
      BY <1>8, <2>1, <3>2, RotationAssumption
  <2>3. turn' \in 0..(k - 1)
    BY <1>1, <2>1
  <2>4. turn' \in 0..(TOP_PRODUCERS - 1) /\ turn' < k
    BY <2>2, <2>3
  <2>5. TurnFits'
    BY <1>8, <2>1, <2>4 DEF TurnFits
  <2> QED
    BY <1>1, <1>2, <2>4, <2>5 DEF SlotInv
<1>15. BoundInv'
  BY <1>1, InvParts DEF BoundInv
<1> QED
  BY <1>13, <1>14, <1>15, InvPartsNext

LEMMA InsertedRanked ==
  ASSUME NEW r, Ranked(r), NEW p \in Producers, p \notin Range(r), NEW i \in 1..(Len(r) + 1),
         NEW w, w = InsertAt(r, i, p)
  PROVE  Ranked(w) /\ Range(w) \subseteq Range(r) \cup {p}
<1>1. PICK n : n = Len(r)
  OBVIOUS
<1>2. PICK a : a = SubSeq(r, 1, i - 1)
  OBVIOUS
<1>3. PICK b : b = SubSeq(r, i, n)
  OBVIOUS
<1>4. PICK c : c = <<p>>
  OBVIOUS
<1>5. PICK v : v = a \o c
  OBVIOUS
<1>6. w = v \o b
  BY <1>1, <1>2, <1>3, <1>4, <1>5 DEF InsertAt
<1>7. /\ n \in Nat /\ i \in Nat /\ i >= 1 /\ i <= n + 1 /\ DOMAIN r = 1..n
      /\ \A j \in 1..n : r[j] \in Producers
      /\ \A j, k \in 1..n : r[j] = r[k] => j = k
  BY <1>1, RankedIs
<1>8. \A j \in 1..n : r[j] # p
  BY <1>7 DEF Range
<1>9. a \in Seq(Producers) /\ Len(a) = i - 1 /\ \A j \in 1..(i - 1) : a[j] = r[j]
  <2>1. PICK k : k = i - 1
    OBVIOUS
  <2>2. k \in Int /\ 1 \in Int /\ (k = 0 \/ 1 <= k) /\ \A j \in 1..k : r[j] \in Producers
    BY <1>7, <2>1
  <2>3. /\ a \in Seq(Producers) /\ Len(a) = IF 1 <= k THEN k - 1 + 1 ELSE 0
        /\ \A j \in 1..(k - 1 + 1) : a[j] = r[1 + j - 1]
    BY <1>2, <2>1, <2>2, SubSeqProperties
  <2>4. Len(a) = k
    BY <2>2, <2>3
  <2>5. ASSUME NEW j \in 1..k PROVE a[j] = r[j]
    <3>1. j \in 1..(k - 1 + 1) /\ 1 + j - 1 = j
      BY <2>2
    <3> QED
      BY <2>3, <3>1
  <2> QED
    BY <2>1, <2>3, <2>4, <2>5
<1>10. b \in Seq(Producers) /\ Len(b) = n - i + 1 /\ \A j \in 1..(n - i + 1) : b[j] = r[i + j - 1]
  <2>1. i \in Int /\ n \in Int /\ (i <= n \/ n - i + 1 = 0) /\ \A j \in i..n : r[j] \in Producers
    BY <1>7
  <2>2. /\ b \in Seq(Producers) /\ Len(b) = IF i <= n THEN n - i + 1 ELSE 0
        /\ \A j \in 1..(n - i + 1) : b[j] = r[i + j - 1]
    BY <1>3, <2>1, SubSeqProperties
  <2> QED
    BY <2>1, <2>2
<1>11. c \in Seq(Producers) /\ Len(c) = 1 /\ c[1] = p
  BY <1>4
<1>12. v \in Seq(Producers) /\ Len(v) = i /\ v[i] = p /\ \A j \in 1..(i - 1) : v[j] = r[j]
  <2>1. /\ v \in Seq(Producers) /\ Len(v) = Len(a) + Len(c)
        /\ \A j \in 1..(Len(a) + Len(c)) : v[j] = IF j <= Len(a) THEN a[j] ELSE c[j - Len(a)]
    BY <1>5, <1>9, <1>11, ConcatProperties
  <2>2. Len(v) = i
    BY <1>7, <1>9, <1>11, <2>1
  <2>3. \A j \in 1..i : v[j] = IF j <= i - 1 THEN a[j] ELSE c[j - (i - 1)]
    BY <1>7, <1>9, <1>11, <2>1
  <2>4. v[i] = p
    <3>1. i \in 1..i /\ ~(i <= i - 1) /\ i - (i - 1) = 1
      BY <1>7
    <3> QED
      BY <1>11, <2>3, <3>1
  <2>5. ASSUME NEW j \in 1..(i - 1) PROVE v[j] = r[j]
    <3>1. j \in 1..i /\ j <= i - 1
      BY <1>7
    <3> QED
      BY <1>9, <2>3, <3>1
  <2> QED
    BY <2>1, <2>2, <2>4, <2>5
<1>13. /\ w \in Seq(Producers) /\ Len(w) = n + 1 /\ w[i] = p
       /\ \A j \in 1..(i - 1) : w[j] = r[j]
       /\ \A j \in (i + 1)..(n + 1) : w[j] = r[j - 1]
  <2>0. v \in Seq(Producers) /\ b \in Seq(Producers)
    BY <1>10, <1>12
  <2>1. /\ w \in Seq(Producers) /\ Len(w) = Len(v) + Len(b)
        /\ \A j \in 1..(Len(v) + Len(b)) : w[j] = IF j <= Len(v) THEN v[j] ELSE b[j - Len(v)]
    BY <1>6, <2>0, ConcatProperties
  <2>2. Len(w) = n + 1 /\ Len(v) + Len(b) = n + 1
    BY <1>7, <1>10, <1>12, <2>1
  <2>3. \A j \in 1..(n + 1) : w[j] = IF j <= i THEN v[j] ELSE b[j - i]
    BY <1>12, <2>1, <2>2
  <2>4. w[i] = p
    <3>1. i \in 1..(n + 1) /\ i <= i
      BY <1>7
    <3> QED
      BY <1>12, <2>3, <3>1
  <2>5. ASSUME NEW j \in 1..(i - 1) PROVE w[j] = r[j]
    <3>1. j \in 1..(n + 1) /\ j <= i
      BY <1>7
    <3> QED
      BY <1>12, <2>3, <3>1
  <2>6. ASSUME NEW j \in (i + 1)..(n + 1) PROVE w[j] = r[j - 1]
    <3>1. j \in 1..(n + 1) /\ ~(j <= i) /\ j - i \in 1..(n - i + 1) /\ i + (j - i) - 1 = j - 1
      BY <1>7
    <3> QED
      BY <1>10, <2>3, <3>1
  <2> QED
    BY <2>1, <2>2, <2>4, <2>5, <2>6
<1>14. DOMAIN w = 1..(n + 1)
  BY <1>7, <1>13
\* Where the entry j of w was before.
<1> DEFINE old(j) == IF j < i THEN j ELSE j - 1
<1>15. \A j \in 1..(n + 1) : j = i \/ (old(j) \in 1..n /\ w[j] = r[old(j)])
  <2> SUFFICES ASSUME NEW j \in 1..(n + 1), j # i PROVE old(j) \in 1..n /\ w[j] = r[old(j)]
    OBVIOUS
  <2>1. CASE j < i
    <3>1. j \in 1..(i - 1) /\ j \in 1..n
      BY <1>7, <2>1
    <3> QED
      BY <1>13, <2>1, <3>1
  <2>2. CASE ~(j < i)
    <3>1. j \in (i + 1)..(n + 1) /\ j - 1 \in 1..n
      BY <1>7, <2>2
    <3> QED
      BY <1>13, <2>2, <3>1
  <2> QED
    BY <2>1, <2>2
<1>16. IsInjective(w)
  <2> SUFFICES ASSUME NEW j \in 1..(n + 1), NEW k \in 1..(n + 1), w[j] = w[k] PROVE j = k
    BY <1>14 DEF IsInjective
  <2>1. CASE j = i \/ k = i
    <3> HIDE DEF old
    <3> QED
      BY <1>8, <1>13, <1>15, <2>1
  <2>2. CASE j # i /\ k # i
    <3>1. old(j) = old(k)
      <4> HIDE DEF old
      <4> QED
        BY <1>7, <1>15, <2>2
    <3> QED
      BY <1>7, <2>2, <3>1
  <2> QED
    BY <2>1, <2>2
<1>17. Range(w) \subseteq Range(r) \cup {p}
  <2> SUFFICES ASSUME NEW j \in 1..(n + 1) PROVE w[j] \in Range(r) \cup {p}
    BY <1>14 DEF Range
  <2> HIDE DEF old
  <2> QED
    BY <1>7, <1>13, <1>15 DEF Range
<1> QED
  BY <1>13, <1>16, <1>17 DEF Ranked

\* A change of the index that the schedules and the metrics do not see.
LEMMA ChangeKeeps ==
  ASSUME KickInv, Change, UNCHANGED rotationVars, active' \subseteq Producers, Ranked(ranking'),
         Range(ranking') \subseteq active', missed' \in [Producers -> Nat]
  PROVE  KickInv'
<1>1. /\ rotation' = rotation /\ rotationDue' = rotationDue /\ sinceUpdate' = sinceUpdate /\ lastSize' = lastSize
      /\ schedules' = schedules /\ rekeyed' = rekeyed
  BY DEF rotationVars
<1>2. /\ changes < MaxChanges /\ changes' = changes + 1 /\ metric' = metric /\ correction' = correction
      /\ lastCaller' = lastCaller /\ debt' = debt /\ turn' = turn /\ inTurn' = inTurn /\ misses' = misses
  BY DEF Change
<1>3. TypeOK'
  <2>1. TypeOK
    BY KickTypes
  <2>2. ranking' \in Rankings
    BY RankingsAre
  <2> QED
    BY <1>1, <2>1, <2>2 DEF TypeOK
<1>4. BlockInv'
  BY <1>1, <1>2, <1>3, InvParts DEF BlockInv, MetricsFollowSchedule, SchedulesFit, CountsFit, Counted
<1>5. SlotInv'
  BY <1>1, <1>2, InvParts DEF SlotInv, TurnFits
<1>6. BoundInv'
  BY <1>2, InvParts, KickAssumption DEF BoundInv
<1> QED
  BY <1>4, <1>5, <1>6, InvPartsNext

LEMMA UnregisterKeeps ==
  ASSUME KickInv, NEW p \in Producers, unregprod(p)
  PROVE  KickInv'
<1>1. /\ Change /\ active' = active \ {p} /\ ranking' = Without(ranking, {p})
      /\ UNCHANGED rotationVars /\ missed' = missed
  BY DEF unregprod
<1>2. Ranked(ranking) /\ active \subseteq Producers /\ Range(ranking) \subseteq active /\ missed \in [Producers -> Nat]
  BY KickTypes
<1>3. Ranked(ranking') /\ Range(ranking') = Range(ranking) \ {p}
  BY <1>1, <1>2, WithoutIs
<1>4. active' \subseteq Producers /\ Range(ranking') \subseteq active'
  BY <1>1, <1>2, <1>3
<1> QED
  BY <1>1, <1>2, <1>3, <1>4, ChangeKeeps

LEMMA VotedOutKeeps ==
  ASSUME KickInv, NEW p \in Producers, votebpout(p)
  PROVE  KickInv'
<1>1. /\ Change /\ active' = active \ {p} /\ ranking' = Without(ranking, {p})
      /\ UNCHANGED rotationVars /\ missed' = [missed EXCEPT ![p] = 0]
  BY DEF votebpout
<1>2. Ranked(ranking) /\ active \subseteq Producers /\ Range(ranking) \subseteq active /\ missed \in [Producers -> Nat]
  BY KickTypes
<1>3. Ranked(ranking') /\ Range(ranking') = Range(ranking) \ {p}
  BY <1>1, <1>2, WithoutIs
<1>4. active' \subseteq Producers /\ Range(ranking') \subseteq active' /\ missed' \in [Producers -> Nat]
  BY <1>1, <1>2, <1>3
<1> QED
  BY <1>1, <1>3, <1>4, ChangeKeeps

LEMMA RegisterKeeps ==
  ASSUME KickInv, NEW p \in Producers, regproducer(p)
  PROVE  KickInv'
<1>1. /\ Change /\ p \notin active /\ active' = active \cup {p} /\ UNCHANGED rotationVars /\ missed' = missed
      /\ \E i \in 1..(Len(ranking) + 1) : ranking' = InsertAt(ranking, i, p)
  BY DEF regproducer
<1>2. Ranked(ranking) /\ active \subseteq Producers /\ Range(ranking) \subseteq active /\ missed \in [Producers -> Nat]
  BY KickTypes
<1>3. PICK i \in 1..(Len(ranking) + 1) : ranking' = InsertAt(ranking, i, p)
  BY <1>1
<1>4. p \notin Range(ranking)
  BY <1>1, <1>2
<1>5. PICK w : w = ranking'
  OBVIOUS
<1>6. Ranked(w) /\ Range(w) \subseteq Range(ranking) \cup {p}
  BY <1>2, <1>3, <1>4, <1>5, InsertedRanked
<1>7. active' \subseteq Producers /\ Range(ranking') \subseteq active' /\ Ranked(ranking')
  BY <1>1, <1>2, <1>5, <1>6
<1> QED
  BY <1>1, <1>2, <1>7, ChangeKeeps

LEMMA KickNewKeyKeeps ==
  ASSUME KickInv, KickNewKey
  PROVE  KickInv'
<1>1. /\ NewKey /\ ranking' = ranking /\ lastSize' = lastSize /\ schedules' = schedules
      /\ active' = active /\ missed' = missed
  BY DEF KickNewKey, NewKey
<1>2. /\ changes < MaxChanges /\ changes' = changes + 1 /\ metric' = metric /\ correction' = correction
      /\ lastCaller' = lastCaller /\ debt' = debt /\ turn' = turn /\ inTurn' = inTurn /\ misses' = misses
  BY DEF KickNewKey, Change
<1>3. TypeOK'
  BY <1>1, KickTypes, NewKeyTypes
<1>4. BlockInv'
  BY <1>1, <1>2, <1>3, InvParts DEF BlockInv, MetricsFollowSchedule, SchedulesFit, CountsFit, Counted
<1>5. SlotInv'
  BY <1>1, <1>2, InvParts DEF SlotInv, TurnFits
<1>6. BoundInv'
  BY <1>2, InvParts, KickAssumption DEF BoundInv
<1> QED
  BY <1>4, <1>5, <1>6, InvPartsNext

LEMMA KickInitInv == KickInit => KickInv
<1> SUFFICES ASSUME KickInit PROVE KickInv
  OBVIOUS
<1>1. /\ Init /\ active = Producers /\ metric = <<>> /\ correction = 0 /\ lastCaller = NoName
      /\ missed = [p \in Producers |-> 0] /\ debt = [p \in Producers |-> 0]
      /\ turn = 0 /\ inTurn = 0 /\ misses = 0 /\ changes = 0
  BY DEF KickInit
<1>2. lastSize = 0 /\ schedules = << <<>> >>
  BY <1>1 DEF Init
<1>3. /\ TOP_PRODUCERS \in Nat \ {0} /\ MAX_BLOCK_PER_CYCLE \in Nat \ {0} /\ MaxCorrection \in Nat
      /\ MaxMisses \in Nat /\ MaxChanges \in Nat
  BY RotationAssumption, KickAssumption
<1>4. TypeOK
  BY <1>1, InitTypes
<1>5. Range(ranking) \subseteq active
  <2>1. Ranked(ranking)
    BY <1>4, TypesOf
  <2>2. DOMAIN ranking = 1..Len(ranking) /\ \A i \in 1..Len(ranking) : ranking[i] \in Producers
    BY <2>1, RankedIs
  <2> QED
    BY <1>1, <2>2 DEF Range
<1>6. Head(schedules) = <<>> /\ Last(schedules) = <<>> /\ schedules[1] = <<>> /\ DOMAIN schedules = {1}
  <2>1. Len(schedules) = 1 /\ schedules[1] = <<>> /\ schedules # <<>>
    BY <1>2
  <2>2. Head(schedules) = schedules[1] /\ Last(schedules) = schedules[1]
    BY <2>1 DEF Last
  <2>3. DOMAIN schedules = {1}
    BY <1>2
  <2> QED
    BY <2>1, <2>2, <2>3
<1>7. MetricsFollowSchedule
  <2>1. DOMAIN metric = {} /\ Len(metric) = 0
    BY <1>1
  <2>2. [i \in DOMAIN metric |-> metric[i].bp_name] = <<>>
    BY <2>1
  <2> QED
    BY <1>2, <1>6, <2>1, <2>2 DEF MetricsFollowSchedule
<1>8. SchedulesFit
  <2>1. Len(schedules[1]) = 0
    BY <1>6
  <2> QED
    BY <1>3, <1>6, <2>1 DEF SchedulesFit
<1>9. CountsFit
  <2>1. DOMAIN metric = {}
    BY <1>1
  <2> QED
    BY <2>1 DEF CountsFit, Counted
<1>10. metric \in Seq(MetricRow)
  BY <1>1
<1>11. BlockInv
  BY <1>1, <1>3, <1>4, <1>5, <1>7, <1>8, <1>9, <1>10 DEF BlockInv, Callers
<1>12. SlotInv /\ BoundInv
  BY <1>1, <1>3, <1>6 DEF SlotInv, BoundInv, TurnFits
<1> QED
  BY <1>11, <1>12, InvParts

LEMMA KickNextInv ==
  ASSUME KickInv, [KickNext]_kickVars
  PROVE  KickInv'
<1>1. CASE Produce
  BY <1>1, ProduceKeeps
<1>2. CASE ProduceAborted
  BY <1>2, ProduceAbortedKeeps
<1>3. CASE Miss
  BY <1>3, MissKeeps
<1>4. CASE KickActivate
  BY <1>4, KickActivateKeeps
<1>5. CASE KickNewKey
  BY <1>5, KickNewKeyKeeps
<1>6. ASSUME NEW p \in Producers, unregprod(p) \/ regproducer(p) \/ votebpout(p)
      PROVE  KickInv'
  BY <1>6, UnregisterKeeps, RegisterKeeps, VotedOutKeeps
<1>7. CASE UNCHANGED kickVars
  <2>1. UNCHANGED vars /\ UNCHANGED <<active, metric, correction, lastCaller, missed, debt, turn, inTurn, misses, changes>>
    BY <1>7 DEF kickVars, missVars
  <2>2. TypeOK'
    BY <2>1, KickTypes DEF TypeOK, vars, rotationVars
  <2>3. BlockInv'
    BY <2>1, <2>2, InvParts DEF BlockInv, MetricsFollowSchedule, SchedulesFit, CountsFit, Counted, vars, rotationVars
  <2>4. SlotInv' /\ BoundInv'
    BY <2>1, InvParts DEF SlotInv, TurnFits, BoundInv, vars, rotationVars
  <2> QED
    BY <2>3, <2>4, InvPartsNext
<1> QED
  BY <1>1, <1>2, <1>3, <1>4, <1>5, <1>6, <1>7 DEF KickNext

\* The inductive invariant holds: types, metrics that follow the last accepted schedule, schedules
\* of at most TOP_PRODUCERS places, a turn of the active schedule, and counts of at most a turn
\* except where the next block of an elected producer drops them.
THEOREM KickInvariant == KickSpec => []KickInv
<1>1. KickInit => KickInv
  BY KickInitInv
<1>2. KickInv /\ [KickNext]_kickVars => KickInv'
  BY KickNextInv
<1> QED
  BY <1>1, <1>2, PTL DEF KickSpec

\* The state of the missed-block count keeps its types: every producer of the index is active, and
\* the counts stay within uint32_t although blocks of eosio are taken off them (KickTypeOK).
THEOREM KickTypeCorrect == KickSpec => []KickTypeOK
<1>1. KickInv => KickTypeOK
  BY DEF KickInv
<1> QED
  BY <1>1, KickInvariant, PTL

\* The metrics always have one entry for each producer of the last accepted schedule, in its order,
\* so that is_new_schedule_activated never reads past their end (MetricsFollowSchedule).
THEOREM KickMetrics == KickSpec => []MetricsFollowSchedule
<1>1. KickInv => MetricsFollowSchedule
  BY DEF KickInv
<1> QED
  BY <1>1, KickInvariant, PTL

\* No cycle charges a producer with more than the blocks of one turn, whatever has happened to the
\* counts while eosio produced or schedules changed (ChargesFitTurn, part of OnlyMissedAreCharged).
THEOREM KickCharges == KickSpec => []ChargesFitTurn
<1>1. ASSUME KickInv PROVE ChargesFitTurn
  <2>1. PICK p : p = Scheduled
    OBVIOUS
  <2>2. PICK o : o = check_missed_blocks(p)
    OBVIOUS
  <2>3. PICK n : n = ChargesOf(o)
    OBVIOUS
  <2>4. \A q \in Producers : n[q] - missed[q] <= MAX_BLOCK_PER_CYCLE
    BY <1>1, <2>1, <2>2, <2>3, ChargesAre DEF ChargedWith
  <2> QED
    BY <2>1, <2>2, <2>3, <2>4 DEF ChargesFitTurn
<1> QED
  BY <1>1, KickInvariant, PTL

\* One onblock kicks at most the KickShare-th part of the schedule, and only producers that were
\* charged before or have blocks left to charge now (KicksAreBounded).
THEOREM KickBounded == KickSpec => KicksAreBounded
<1> DEFINE P == Produce => /\ Cardinality(active \ active') <= Len(metric) \div KickShare
                           /\ \A p \in active \ active' : \/ missed[p] > 0
                                                          \/ \E i \in DOMAIN metric : /\ metric[i].bp_name = p
                                                                                      /\ metric[i].missed_blocks_per_cycle > 0
<1>1. ASSUME KickInv, Produce PROVE P
  <2>1. PICK p : p = Scheduled
    OBVIOUS
  <2>2. PICK o : o = check_missed_blocks(p)
    OBVIOUS
  <2>3. PICK n : n = ChargesOf(o)
    OBVIOUS
  <2>4. \E K \in KicksOf(o) : active' = active \ K
    BY <1>1, <2>1, <2>2, ProduceKeeps
  <2>5. PICK K \in KicksOf(o) : active' = active \ K
    BY <2>4
  <2>6. /\ K \subseteq active /\ (\A q \in K : n[q] > 0) /\ Cardinality(K) <= Len(metric) \div KickShare
        /\ active \subseteq Producers
    BY <1>1, <2>1, <2>2, <2>3, <2>5, KicksAre, KickTypes
  <2>7. active \ active' = K
    BY <2>5, <2>6
  <2>8. \A q \in Producers : ChargedWith(n, q)
    BY <1>1, <2>1, <2>2, <2>3, ChargesAre
  <2> QED
    BY <2>6, <2>7, <2>8 DEF ChargedWith
<1>2. KickInv /\ [KickNext]_kickVars => [P]_kickVars
  BY <1>1
<1> QED
  BY <1>2, KickInvariant, PTL DEF KickSpec, KicksAreBounded
=============================================================================
