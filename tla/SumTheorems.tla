----------------------------- MODULE SumTheorems -----------------------------
(***************************************************************************)
(* What the contracts rely on when they keep a running total beside a      *)
(* table: the total of an empty table is 0, a table's total changes by as  *)
(* much as the one entry that changes, and no entry exceeds the total.     *)
(***************************************************************************)
EXTENDS Sums, FiniteSetTheorems, WellFoundedInduction, TLAPS

\* The units of one key number as many as its amount.
LEMMA UnitsOfKey ==
  ASSUME NEW a, NEW n \in Nat
  PROVE  IsFiniteSet({a} \X (1..n)) /\ Cardinality({a} \X (1..n)) = n
<1>1. IsFiniteSet({a}) /\ Cardinality({a}) = 1
  BY FS_Singleton
<1>2. IsFiniteSet(1..n) /\ Cardinality(1..n) = n
  BY FS_Interval
<1>3. /\ IsFiniteSet({a} \X (1..n))
      /\ Cardinality({a} \X (1..n)) = Cardinality({a}) * Cardinality(1..n)
  BY <1>1, <1>2, FS_Product
<1> QED
  BY <1>1, <1>2, <1>3

\* A finite table of natural amounts has finitely many units.
LEMMA UnitsFinite ==
  ASSUME NEW A, IsFiniteSet(A), NEW f \in [A -> Nat]
  PROVE  IsFiniteSet(Units(f))
<1> DEFINE blocks == { {a} \X (1..f[a]) : a \in A }
           g == [a \in A |-> {a} \X (1..f[a])]
<1>1. g \in Surjection(A, blocks)
  BY DEF Surjection
<1>2. IsFiniteSet(blocks)
  BY <1>1, FS_Surjection
<1>3. ASSUME NEW T \in blocks PROVE IsFiniteSet(T)
  <2>1. PICK a \in A : T = {a} \X (1..f[a])
    OBVIOUS
  <2>2. f[a] \in Nat
    OBVIOUS
  <2> QED
    BY <2>1, <2>2, UnitsOfKey
<1>4. IsFiniteSet(UNION blocks)
  BY <1>2, <1>3, FS_UNION
<1> QED
  BY <1>4 DEF Units

\* The units of the keys other than a.
Others(f, a) == UNION { {b} \X (1..f[b]) : b \in DOMAIN f \ {a} }

\* The units of a table are those of key a and those of the other keys.
LEMMA UnitsSplit ==
  ASSUME NEW A, IsFiniteSet(A), NEW f \in [A -> Nat], NEW a \in A
  PROVE  /\ IsFiniteSet(Others(f, a))
         /\ Cardinality(Others(f, a)) \in Nat
         /\ SumOver(f) = Cardinality(Others(f, a)) + f[a]
<1> DEFINE own == {a} \X (1..f[a])
<1>1. Units(f) = Others(f, a) \cup own
  BY DEF Units, Others
<1>2. Others(f, a) \cap own = {}
  BY DEF Others
<1>3. IsFiniteSet(Others(f, a))
  BY <1>1, UnitsFinite, FS_Subset
<1>4. IsFiniteSet(own) /\ Cardinality(own) = f[a]
  BY UnitsOfKey
<1>5. Cardinality(Units(f)) = Cardinality(Others(f, a)) + Cardinality(own)
                              - Cardinality(Others(f, a) \cap own)
  BY <1>1, <1>3, <1>4, FS_Union
<1>6. Cardinality(Others(f, a)) \in Nat
  BY <1>3, FS_CardinalityType
<1>7. Cardinality(Others(f, a) \cap own) = 0
  BY <1>2, FS_EmptySet
<1>8. f[a] \in Nat
  OBVIOUS
<1>9. Cardinality(Units(f)) = Cardinality(Others(f, a)) + f[a]
  <2> HIDE DEF own
  <2> QED
    BY <1>4, <1>5, <1>6, <1>7, <1>8
<1> QED
  BY <1>3, <1>6, <1>9 DEF SumOver

\* A total is a natural number.
LEMMA SumType ==
  ASSUME NEW A, IsFiniteSet(A), NEW f \in [A -> Nat]
  PROVE  SumOver(f) \in Nat
BY UnitsFinite, FS_CardinalityType DEF SumOver

\* The total of a table of zeros is 0.
LEMMA SumOfZeros ==
  ASSUME NEW A
  PROVE  SumOver([a \in A |-> 0]) = 0
<1>1. Units([a \in A |-> 0]) = {}
  BY DEF Units
<1> QED
  BY <1>1, FS_EmptySet DEF SumOver

\* No entry exceeds the total.
LEMMA SumBoundsEntry ==
  ASSUME NEW A, IsFiniteSet(A), NEW f \in [A -> Nat], NEW a \in A
  PROVE  f[a] <= SumOver(f)
BY UnitsSplit

\* Writing one entry changes the total by what it changes the entry.
LEMMA SumUpdate ==
  ASSUME NEW A, IsFiniteSet(A), NEW f \in [A -> Nat], NEW a \in A,
         NEW v \in Nat
  PROVE  SumOver([f EXCEPT ![a] = v]) = SumOver(f) - f[a] + v
<1> DEFINE h == [f EXCEPT ![a] = v]
<1>1. h \in [A -> Nat] /\ h[a] = v
  OBVIOUS
<1>2. Others(h, a) = Others(f, a)
  BY DEF Others
<1>3. SumOver(h) = Cardinality(Others(h, a)) + h[a]
  BY <1>1, UnitsSplit
<1>4. /\ SumOver(f) = Cardinality(Others(f, a)) + f[a]
      /\ Cardinality(Others(f, a)) \in Nat
  BY UnitsSplit
<1> QED
  BY <1>1, <1>2, <1>3, <1>4
-----------------------------------------------------------------------------
\* Every set of naturals that is not empty has a least element.
LEMMA LeastNatural ==
  ASSUME NEW T \in SUBSET Nat, T # {}
  PROVE  \E m \in T : \A n \in T : m <= n
<1> DEFINE R == OpToRel(<, Nat)
<1>1. IsWellFoundedOn(R, Nat)
  BY NatLessThanWellFounded
<1>2. \A x, y \in Nat : x < y => <<x, y>> \in R
  BY DEF OpToRel
<1> HIDE DEF R
<1>3. PICK x \in T : \A y \in T : ~ (<<y, x>> \in R)
  BY <1>1, WFMin
<1>4. ASSUME NEW y \in T PROVE x <= y
  <2>1. x \in Nat /\ y \in Nat /\ ~(<<y, x>> \in R)
    BY <1>3
  <2>2. ~(y < x)
    BY <2>1, <1>2
  <2> QED
    BY <2>1, <2>2
<1> QED
  BY <1>4

\* Induction over the naturals, with the set of the numbers that have the property in the place of
\* the property.
LEMMA Counting ==
  ASSUME NEW G, 0 \in G, \A n \in Nat : n \in G => n + 1 \in G
  PROVE  \A n \in Nat : n \in G
<1> DEFINE T == Nat \ G
<1> SUFFICES ASSUME T # {} PROVE FALSE
  OBVIOUS
<1>1. T \in SUBSET Nat
  OBVIOUS
<1>2. PICK m \in T : \A n \in T : m <= n
  <2> HIDE DEF T
  <2> QED BY <1>1, LeastNatural
<1>3. m \in Nat /\ m \notin G /\ m # 0
  OBVIOUS
<1>4. m - 1 \in Nat /\ (m - 1) + 1 = m /\ ~(m <= m - 1)
  BY <1>3
<1>5. m - 1 \in G
  BY <1>2, <1>4
<1>6. (m - 1) + 1 \in G
  BY <1>4, <1>5
<1> QED
  BY <1>3, <1>4, <1>6

\* Induction over the subsets of a finite set, with the family of the subsets that have the
\* property in the place of the property: a family that holds the empty set, and every set of its
\* own enlarged by one element, holds the whole set.
LEMMA SubsetInduction ==
  ASSUME NEW A, IsFiniteSet(A), NEW G, {} \in G,
         \A B \in SUBSET A : \A a \in A \ B : B \in G => B \cup {a} \in G
  PROVE  A \in G
<1> DEFINE T == {Cardinality(B) : B \in (SUBSET A) \ G}
<1> SUFFICES ASSUME A \notin G PROVE FALSE
  OBVIOUS
<1>1. \A B \in SUBSET A : IsFiniteSet(B) /\ Cardinality(B) \in Nat
  BY FS_Subset, FS_CardinalityType
<1>2. T \in SUBSET Nat /\ T # {}
  BY <1>1
<1>3. PICK m \in T : \A n \in T : m <= n
  <2> HIDE DEF T
  <2> QED BY <1>2, LeastNatural
<1>4. PICK B \in SUBSET A : B \notin G /\ m = Cardinality(B)
  OBVIOUS
<1>5. PICK a \in B : TRUE
  <2>1. B # {}
    BY <1>4
  <2> QED
    BY <2>1
<1>6. IsFiniteSet(B \ {a}) /\ Cardinality(B \ {a}) = Cardinality(B) - 1
  BY <1>1, <1>4, <1>5, FS_RemoveElement
<1>7. B \ {a} \in SUBSET A /\ a \in A \ (B \ {a}) /\ (B \ {a}) \cup {a} = B
  BY <1>4, <1>5
<1>8. B \ {a} \notin G
  <2>1. B \ {a} \in G => (B \ {a}) \cup {a} \in G
    BY <1>7
  <2> QED
    BY <1>4, <1>7, <2>1
<1>9. Cardinality(B \ {a}) \in T
  BY <1>7, <1>8
<1>10. Cardinality(B) \in Nat
  BY <1>1, <1>4
<1> HIDE DEF T
<1> QED
  BY <1>3, <1>4, <1>6, <1>9, <1>10
-----------------------------------------------------------------------------
\* The parts of the sum of a table with negative entries.
Plus(f, S)  == [a \in S |-> IF f[a] > 0 THEN f[a] ELSE 0]
Minus(f, S) == [a \in S |-> IF 0 - f[a] > 0 THEN 0 - f[a] ELSE 0]

LEMMA SumOfParts ==
  ASSUME NEW f, NEW S
  PROVE  SumOf(f, S) = SumOver(Plus(f, S)) - SumOver(Minus(f, S))
BY DEF SumOf, Plus, Minus

\* The sum over no keys is 0.
LEMMA SumOfNone ==
  ASSUME NEW f
  PROVE  SumOf(f, {}) = 0
<1>1. Plus(f, {}) = [a \in {} |-> 0] /\ Minus(f, {}) = [a \in {} |-> 0]
  BY DEF Plus, Minus
<1>2. SumOver([a \in {} |-> 0]) = 0
  BY SumOfZeros
<1>3. SumOf(f, {}) = SumOver(Plus(f, {})) - SumOver(Minus(f, {}))
  BY SumOfParts
<1> QED
  BY <1>1, <1>2, <1>3

\* One key more adds its entry.
LEMMA SumOfOneMore ==
  ASSUME NEW S, IsFiniteSet(S), NEW a, a \notin S, NEW f, \A x \in S \cup {a} : f[x] \in Int
  PROVE  /\ SumOf(f, S) \in Int
         /\ SumOf(f, S \cup {a}) = SumOf(f, S) + f[a]
<1> DEFINE T == S \cup {a}
<1>1. IsFiniteSet(T)
  BY FS_AddElement
<1>2. /\ Plus(f, S) \in [S -> Nat] /\ Minus(f, S) \in [S -> Nat]
      /\ Plus(f, T) \in [T -> Nat] /\ Minus(f, T) \in [T -> Nat]
  BY DEF Plus, Minus
<1>3. Units(Plus(f, S)) = Others(Plus(f, T), a) /\ Units(Minus(f, S)) = Others(Minus(f, T), a)
  <2>1. Units(Plus(f, S)) = Others(Plus(f, T), a)
    BY DEF Units, Others, Plus
  <2>2. Units(Minus(f, S)) = Others(Minus(f, T), a)
    BY DEF Units, Others, Minus
  <2> QED
    BY <2>1, <2>2
<1>4. /\ SumOver(Plus(f, T)) = SumOver(Plus(f, S)) + Plus(f, T)[a]
      /\ SumOver(Minus(f, T)) = SumOver(Minus(f, S)) + Minus(f, T)[a]
  <2>1. a \in T
    OBVIOUS
  <2> HIDE DEF T
  <2>2. SumOver(Plus(f, T)) = Cardinality(Others(Plus(f, T), a)) + Plus(f, T)[a]
    BY <1>1, <1>2, <2>1, UnitsSplit
  <2>3. SumOver(Minus(f, T)) = Cardinality(Others(Minus(f, T), a)) + Minus(f, T)[a]
    BY <1>1, <1>2, <2>1, UnitsSplit
  <2> QED
    BY <1>3, <2>2, <2>3 DEF SumOver
<1>5. SumOver(Plus(f, S)) \in Nat /\ SumOver(Minus(f, S)) \in Nat
  BY <1>2, SumType
<1>6. f[a] \in Int /\ Plus(f, T)[a] - Minus(f, T)[a] = f[a]
      /\ Plus(f, T)[a] \in Int /\ Minus(f, T)[a] \in Int
  BY DEF Plus, Minus
<1>7. SumOf(f, T) = SumOver(Plus(f, T)) - SumOver(Minus(f, T))
      /\ SumOf(f, S) = SumOver(Plus(f, S)) - SumOver(Minus(f, S))
  BY SumOfParts
<1> HIDE DEF T
<1>8. SumOf(f, S) \in Int /\ SumOf(f, T) = SumOf(f, S) + f[a]
  BY <1>4, <1>5, <1>6, <1>7
<1> QED
  BY <1>8 DEF T

\* The sum is an integer, and natural when no entry is negative.
LEMMA SumOfType ==
  ASSUME NEW S, IsFiniteSet(S), NEW f, \A x \in S : f[x] \in Int
  PROVE  /\ SumOf(f, S) \in Int
         /\ (\A x \in S : f[x] >= 0) => SumOf(f, S) \in Nat
<1>1. Plus(f, S) \in [S -> Nat] /\ Minus(f, S) \in [S -> Nat]
  BY DEF Plus, Minus
<1>2. SumOver(Plus(f, S)) \in Nat /\ SumOver(Minus(f, S)) \in Nat
  BY <1>1, SumType
<1>3. SumOf(f, S) = SumOver(Plus(f, S)) - SumOver(Minus(f, S))
  BY SumOfParts
<1>4. ASSUME \A x \in S : f[x] >= 0 PROVE SumOver(Minus(f, S)) = 0
  <2>1. Minus(f, S) = [a \in S |-> 0]
    BY <1>4 DEF Minus
  <2> QED
    BY <2>1, SumOfZeros
<1> QED
  BY <1>2, <1>3, <1>4

\* Only the entries of the keys summed over count.
LEMMA SumOfSame ==
  ASSUME NEW S, NEW f, NEW g, \A x \in S : f[x] = g[x]
  PROVE  SumOf(f, S) = SumOf(g, S)
<1>1. Plus(f, S) = Plus(g, S) /\ Minus(f, S) = Minus(g, S)
  BY DEF Plus, Minus
<1> QED
  BY <1>1, SumOfParts

\* A table of sums has the sum of the sums.
LEMMA SumOfAdd ==
  ASSUME NEW S, IsFiniteSet(S), NEW f, NEW g, NEW h,
         \A x \in S : f[x] \in Int /\ g[x] \in Int /\ h[x] = f[x] + g[x]
  PROVE  SumOf(h, S) = SumOf(f, S) + SumOf(g, S)
<1> DEFINE G == {B \in SUBSET S : SumOf(h, B) = SumOf(f, B) + SumOf(g, B)}
<1>1. {} \in G
  BY SumOfNone
<1>2. ASSUME NEW B \in SUBSET S, NEW a \in S \ B, B \in G PROVE B \cup {a} \in G
  <2>1. IsFiniteSet(B)
    BY FS_Subset
  <2>2. \A x \in B \cup {a} : f[x] \in Int /\ g[x] \in Int /\ h[x] \in Int
    OBVIOUS
  <2>3. SumOf(f, B) \in Int /\ SumOf(f, B \cup {a}) = SumOf(f, B) + f[a]
    BY <2>1, <2>2, SumOfOneMore
  <2>4. SumOf(g, B) \in Int /\ SumOf(g, B \cup {a}) = SumOf(g, B) + g[a]
    BY <2>1, <2>2, SumOfOneMore
  <2>5. SumOf(h, B) \in Int /\ SumOf(h, B \cup {a}) = SumOf(h, B) + h[a]
    BY <2>1, <2>2, SumOfOneMore
  <2>6. h[a] = f[a] + g[a] /\ f[a] \in Int /\ g[a] \in Int
    OBVIOUS
  <2>7. SumOf(h, B) = SumOf(f, B) + SumOf(g, B)
    BY <1>2
  <2>8. SumOf(h, B \cup {a}) = SumOf(f, B \cup {a}) + SumOf(g, B \cup {a})
    BY <2>3, <2>4, <2>5, <2>6, <2>7
  <2> QED
    BY <2>8
<1>3. S \in G
  <2> HIDE DEF G
  <2> QED BY <1>1, <1>2, SubsetInduction
<1> QED
  BY <1>3

\* The sum over two sets of keys without a common key.
LEMMA SumOfSplit ==
  ASSUME NEW S, NEW T, IsFiniteSet(S), IsFiniteSet(T), S \cap T = {}, NEW f,
         \A x \in S \cup T : f[x] \in Int
  PROVE  SumOf(f, S \cup T) = SumOf(f, S) + SumOf(f, T)
<1> DEFINE G == {B \in SUBSET T : SumOf(f, S \cup B) = SumOf(f, S) + SumOf(f, B)}
<1>0. SumOf(f, S) \in Int
  BY SumOfType
<1>1. {} \in G
  <2>1. SumOf(f, {}) = 0 /\ S \cup {} = S
    BY SumOfNone
  <2> QED
    BY <1>0, <2>1
<1>2. ASSUME NEW B \in SUBSET T, NEW a \in T \ B, B \in G PROVE B \cup {a} \in G
  <2>1. IsFiniteSet(B) /\ IsFiniteSet(S \cup B)
    BY FS_Subset, FS_Union
  <2>2. \A x \in (S \cup B) \cup {a} : f[x] \in Int
    OBVIOUS
  <2>3. SumOf(f, B) \in Int /\ SumOf(f, B \cup {a}) = SumOf(f, B) + f[a]
    BY <2>1, <2>2, SumOfOneMore
  <2>4. SumOf(f, S \cup B) \in Int /\ SumOf(f, (S \cup B) \cup {a}) = SumOf(f, S \cup B) + f[a]
    <3>1. a \notin S \cup B
      OBVIOUS
    <3> QED
      BY <2>1, <2>2, <3>1, SumOfOneMore
  <2>5. S \cup (B \cup {a}) = (S \cup B) \cup {a} /\ f[a] \in Int
    OBVIOUS
  <2>6. SumOf(f, S \cup B) = SumOf(f, S) + SumOf(f, B)
    BY <1>2
  <2>7. SumOf(f, S \cup (B \cup {a})) = SumOf(f, S) + SumOf(f, B \cup {a})
    <3>1. SumOf(f, S \cup (B \cup {a})) = SumOf(f, (S \cup B) \cup {a})
      BY <2>5
    <3>2. SumOf(f, (S \cup B) \cup {a}) = (SumOf(f, S) + SumOf(f, B)) + f[a]
      BY <2>4, <2>6
    <3>3. f[a] \in Int
      OBVIOUS
    <3>4. (SumOf(f, S) + SumOf(f, B)) + f[a] = SumOf(f, S) + SumOf(f, B \cup {a})
      BY <1>0, <2>3, <3>3
    <3> QED
      BY <3>1, <3>2, <3>4
  <2> QED
    BY <2>7
<1>3. T \in G
  <2> HIDE DEF G
  <2> QED BY <1>1, <1>2, SubsetInduction
<1> QED
  BY <1>3

\* Entries that are 0 do not count.
LEMMA SumOfSupport ==
  ASSUME NEW S, IsFiniteSet(S), NEW T \in SUBSET S, NEW f,
         \A x \in S : f[x] \in Int, \A x \in S \ T : f[x] = 0
  PROVE  SumOf(f, S) = SumOf(f, T)
<1>1. IsFiniteSet(T) /\ IsFiniteSet(S \ T)
  BY FS_Subset
<1>2. T \cap (S \ T) = {} /\ T \cup (S \ T) = S
  OBVIOUS
<1>3. SumOf(f, T \cup (S \ T)) = SumOf(f, T) + SumOf(f, S \ T)
  BY <1>1, <1>2, SumOfSplit
<1>4. SumOf(f, S \ T) = 0
  <2>1. Plus(f, S \ T) = [x \in S \ T |-> 0] /\ Minus(f, S \ T) = [x \in S \ T |-> 0]
    BY DEF Plus, Minus
  <2>2. SumOver([x \in S \ T |-> 0]) = 0
    BY SumOfZeros
  <2>3. SumOf(f, S \ T) = SumOver(Plus(f, S \ T)) - SumOver(Minus(f, S \ T))
    BY SumOfParts
  <2> QED
    BY <2>1, <2>2, <2>3
<1>5. SumOf(f, T) \in Int
  BY <1>1, SumOfType
<1>6. SumOf(f, S) = SumOf(f, T) + SumOf(f, S \ T)
  BY <1>2, <1>3
<1> QED
  BY <1>4, <1>5, <1>6

\* Of a table of natural amounts, both sums are the same.
LEMMA SumOfIsSumOver ==
  ASSUME NEW A, IsFiniteSet(A), NEW f \in [A -> Nat]
  PROVE  SumOf(f, A) = SumOver(f)
<1>1. Plus(f, A) = f /\ Minus(f, A) = [a \in A |-> 0]
  BY DEF Plus, Minus
<1>2. SumOver([a \in A |-> 0]) = 0
  BY SumOfZeros
<1>3. SumOver(f) \in Nat
  BY SumType
<1>4. SumOf(f, A) = SumOver(Plus(f, A)) - SumOver(Minus(f, A))
  BY SumOfParts
<1> QED
  BY <1>1, <1>2, <1>3, <1>4

-----------------------------------------------------------------------------
(* Numbers.                                                                *)

\* Truncating division.
LEMMA DivBounds ==
  ASSUME NEW a \in Nat, NEW b \in Nat, b > 0
  PROVE  a \div b \in Nat /\ b * (a \div b) <= a
OBVIOUS

\* Products distribute and commute.
LEMMA Distrib ==
  ASSUME NEW x \in Int, NEW y \in Int, NEW z \in Int
  PROVE  x * (y - z) = x * y - x * z /\ x * (y + z) = x * y + x * z
         /\ (y + z) * x = y * x + z * x /\ x * y = y * x
OBVIOUS

\* Products of naturals are naturals and monotone.
LEMMA MulMono ==
  ASSUME NEW x \in Nat, NEW y \in Nat, NEW z \in Nat, y <= z
  PROVE  x * y <= x * z /\ x * y \in Nat
OBVIOUS

\* A positive factor cancels.
LEMMA MulCancel ==
  ASSUME NEW x \in Nat, NEW y \in Int, NEW z \in Int, x > 0, x * y <= x * z
  PROVE  y <= z
OBVIOUS

\* A quotient and a remainder, and what they determine.
LEMMA DivMod ==
  ASSUME NEW a \in Nat, NEW s \in Nat \ {0}
  PROVE  /\ a \div s \in Nat /\ a % s \in 0..(s - 1)
         /\ a = (a \div s) * s + (a % s) /\ a \div s <= a
<1> DEFINE q == a \div s
           r == a % s
<1>1. q \in Int /\ r \in Int
  OBVIOUS
<1>2. a = s * q + r /\ 0 <= r /\ r < s
  OBVIOUS
<1> HIDE DEF q, r
<1>3. q >= 0
  <2>1. q < 0 => s * q <= 0 - s
    BY <1>1
  <2> QED
    BY <1>1, <1>2, <2>1
<1>4. q <= s * q /\ s * q = q * s
  BY <1>1, <1>3
<1>5. s * q \in Int
  BY <1>1
<1>6. q \in Nat /\ r \in 0..(s - 1) /\ a = q * s + r /\ q <= a
  <2>1. q <= s * q + r
    BY <1>1, <1>2, <1>4, <1>5
  <2> QED
    BY <1>1, <1>2, <1>3, <1>4, <2>1
<1> QED
  BY <1>6 DEF q, r

\* The quotient is the largest number whose product with the divisor does not exceed.
LEMMA DivGreatest ==
  ASSUME NEW a \in Nat, NEW s \in Nat \ {0}, NEW n \in Nat, s * n <= a
  PROVE  n <= a \div s
<1> DEFINE q == a \div s
<1>1. q \in Nat /\ a < s * (q + 1)
  <2>1. /\ a \div s \in Nat /\ a % s \in 0..(s - 1)
        /\ a = (a \div s) * s + (a % s)
    BY DivMod
  <2> HIDE DEF q
  <2>2. s * (q + 1) = q * s + s
    BY <2>1, Distrib DEF q
  <2>3. q * s \in Nat
    BY <2>1, MulMono DEF q
  <2> QED
    BY <2>1, <2>2, <2>3 DEF q
<1> HIDE DEF q
<1>2. CASE n > q
  <2>1. q + 1 <= n
    BY <1>1, <1>2
  <2>2. s * (q + 1) <= s * n
    BY <1>1, <2>1, MulMono
  <2>3. s * (q + 1) \in Int /\ s * n \in Int
    BY <1>1
  <2> QED
    BY <1>1, <2>2, <2>3
<1> QED
  BY <1>1, <1>2 DEF q

\* A finite set of naturals that is not empty has a greatest element.
LEMMA GreatestNatural ==
  ASSUME NEW T \in SUBSET Nat, IsFiniteSet(T), T # {}
  PROVE  \E m \in T : \A n \in T : n <= m
<1> DEFINE G == {B \in SUBSET T : B # {} => \E m \in B : \A n \in B : n <= m}
<1>1. {} \in G
  OBVIOUS
<1>2. ASSUME NEW B \in SUBSET T, NEW a \in T \ B, B \in G PROVE B \cup {a} \in G
  <2> DEFINE C == B \cup {a}
  <2>1. CASE B = {}
    <3>1. a \in C /\ \A n \in C : n <= a
      BY <2>1
    <3> QED
      BY <3>1
  <2>2. CASE B # {}
    <3>1. PICK m \in B : \A n \in B : n <= m
      BY <1>2, <2>2
    <3>2. CASE a <= m
      <4>1. m \in C /\ \A n \in C : n <= m
        BY <3>1, <3>2
      <4> QED
        BY <4>1
    <3>3. CASE m < a
      <4>1. a \in C /\ \A n \in C : n <= a
        BY <3>1, <3>3
      <4> QED
        BY <4>1
    <3> QED
      BY <3>2, <3>3
  <2> QED
    BY <2>1, <2>2
<1>3. T \in G
  <2> HIDE DEF G
  <2> QED
    BY <1>1, <1>2, SubsetInduction
<1> QED
  BY <1>3
=============================================================================
