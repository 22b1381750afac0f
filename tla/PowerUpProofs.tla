---------------------------- MODULE PowerUpProofs ----------------------------
(***************************************************************************)
(* Proofs about the PowerUp market and the limits it writes together with  *)
(* staking, REX and the system account.                                    *)
(***************************************************************************)
EXTENDS PowerUp, SumTheorems

-----------------------------------------------------------------------------
(* What the actions write, as predicates of the tables they write.         *)

Rate(o, k) == [i \in DOMAIN o |-> o[i].weight[k]]
Fees(o, k) == [i \in DOMAIN o |-> o[i].paid[k]]
Sold(o, S, k) == SumOf(Rate(o, k), S)
Paid(o, S, k) == SumOf(Fees(o, k), S)
Owned(o, a)   == {i \in DOMAIN o : o[i].owner = a}
Bought(o)     == {i \in DOMAIN o : o[i].current}

IsOrders(o) == DOMAIN o \subseteq Nat /\ IsFiniteSet(DOMAIN o) /\ o \in [DOMAIN o -> powerup_order]

\* A market that was configured: its ratio only falls, and its weight is the one of its ratio.
IsConfigured(r) ==
    /\ r \in powerup_state_resource
    /\ r.assumed_stake_weight >= 1 /\ r.weight_ratio >= 1
    /\ r.target_weight_ratio <= r.initial_weight_ratio
    /\ r.initial_timestamp <= now
    /\ RatioNow(r) <= r.weight_ratio
    /\ r.weight = WeightAt(r.assumed_stake_weight, r.weight_ratio)
    /\ r.max_price \in Nat /\ r.min_price \in 0..r.max_price

\* The market m has sold the orders o.
Counted(o, m) ==
    \A k \in Kinds : /\ m[k].utilization = Sold(o, DOMAIN o, k)
                     /\ m[k].utilization \in 0..m[k].weight
                     /\ m[k].adjusted_utilization \in 0..m[k].weight

\* The weight T of the accounts, when the reserve account still is to receive more.
Held(o, m, T, more) ==
    \A a \in Accounts, k \in Kinds :
        T[a][k] = lent[a][k] + Sold(o, Owned(o, a), k)
                   + IF a = reserve_account THEN m[k].weight - m[k].utilization - more[k] ELSE 0

\* Any of the orders bought under the present configuration have paid the curve: not only all of
\* them, since some will be returned before the others.
PaidCurve(o, m) ==
    \A k \in Kinds : \A S \in SUBSET Bought(o) :
        S # {} => Paid(o, S, k) * 2 * m[k].weight * m[k].weight >= CurveTimes(m[k], 0, Sold(o, S, k))

\* Weight and RAM are held in rows that exist.
Standing(t) ==
    /\ t.rows \in SUBSET Accounts /\ ramOwners \subseteq t.rows /\ t.bare \subseteq t.rows
    /\ \A a \in Accounts : t.totals[a] # Zero => a \in t.rows

\* The rows t of userres and the limits follow each other.
RowsFollow(t) ==
    /\ t = [totals |-> t.totals, limits |-> t.limits, rows |-> t.rows, bare |-> t.bare]
    /\ t.totals \in [Accounts -> [Kinds -> Int]] /\ t.limits \in [Accounts -> [Kinds -> Int]]
    /\ Standing(t)
    /\ \A a \in Accounts : (t.totals[a] # Zero \/ a \in t.rows \ t.bare)
                              => \A k \in Kinds \ managed[a] : t.limits[a][k] = t.totals[a][k]

\* The inductive invariant.
IInv ==
    /\ TypeOK
    /\ IF exists THEN \A k \in Kinds : IsConfigured(market[k])
                 ELSE DOMAIN orders = {} /\ market = [k \in Kinds |-> DefaultResource]
    /\ Counted(orders, market)
    /\ Held(orders, market, totals, Zero)
    /\ PaidCurve(orders, market)
    /\ RowsFollow(Rows)
-----------------------------------------------------------------------------
(* The ratio, the weight and the price curve.                              *)

\* A part of d that grows with x, rounded down.
LEMMA LinearPart ==
  ASSUME NEW d \in Nat, NEW e \in Nat \ {0}, NEW x \in Nat, NEW y \in Nat, x <= y
  PROVE  /\ (d * x) \div e \in Nat
         /\ (d * x) \div e <= (d * y) \div e
         /\ x <= e => (d * x) \div e <= d
<1>1. d * x \in Nat /\ d * y \in Nat /\ d * x <= d * y
  BY MulMono
<1> DEFINE q == (d * x) \div e
<1>2. q \in Nat /\ e * q <= d * x
  BY <1>1, DivBounds
<1>3. e * q <= d * y
  <2>1. e * q \in Int
    BY <1>2
  <2> HIDE DEF q
  <2> QED
    BY <1>1, <1>2, <2>1
<1>4. q <= (d * y) \div e
  BY <1>1, <1>2, <1>3, DivGreatest
<1>5. ASSUME x <= e PROVE q <= d
  <2>1. d * x <= d * e /\ d * e = e * d
    BY <1>5, MulMono
  <2>2. e * q <= e * d
    <3>1. e * q \in Int /\ d * e \in Int
      BY <1>2
    <3> HIDE DEF q
    <3> QED
      BY <1>1, <1>2, <2>1, <3>1
  <2> QED
    BY <1>2, <2>2, MulCancel
<1> QED
  BY <1>2, <1>4, <1>5

\* The weight is a natural number that grows as the ratio falls.
LEMMA WeightGrows ==
  ASSUME NEW n \in Nat, NEW p \in 1..powerup_frac, NEW q \in 1..p
  PROVE  WeightAt(n, p) \in Nat /\ WeightAt(n, q) \in Nat /\ WeightAt(n, p) <= WeightAt(n, q)
<1>0. powerup_frac \in Nat \ {0}
  BY PowerUpAssumption
<1> DEFINE v == n * powerup_frac
<1>1. v \in Nat /\ p \in Nat \ {0} /\ q \in Nat \ {0}
  BY <1>0, MulMono
<1>2. n <= v \div p
  <2>1. n * p <= n * powerup_frac /\ n * p = p * n
    BY <1>0, MulMono
  <2> HIDE DEF v
  <2> QED
    BY <1>1, <2>1, DivGreatest DEF v
<1>3. v \div p \in Nat /\ p * (v \div p) <= v /\ v \div q \in Nat
  BY <1>1, DivBounds
<1>4. v \div p <= v \div q
  <2> DEFINE w == v \div p
  <2>1. w * q <= w * p /\ w * q = q * w /\ w * p = p * w /\ w * p \in Nat
    BY <1>1, <1>3, MulMono
  <2> HIDE DEF w, v
  <2>2. w * q \in Int
    BY <1>1, <1>3 DEF w
  <2>3. q * w <= v
    BY <1>1, <1>3, <2>1, <2>2 DEF w
  <2> QED
    BY <1>1, <1>3, <2>3, DivGreatest DEF w
<1> HIDE DEF v
<1> QED
  BY <1>1, <1>2, <1>3, <1>4 DEF WeightAt, v

\* The ratio lies between the target and the initial one, and does not rise.
LEMMA RatioFalls ==
  ASSUME NEW r \in powerup_state_resource, r.target_weight_ratio <= r.initial_weight_ratio,
         now \in Nat, r.initial_timestamp <= now
  PROVE  /\ RatioNow(r) \in r.target_weight_ratio..r.initial_weight_ratio
         /\ now' = now + 1 => RatioNow(r)' \in Int /\ RatioNow(r)' <= RatioNow(r)
<1> DEFINE d == r.initial_weight_ratio - r.target_weight_ratio
           e == r.target_timestamp - r.initial_timestamp
           x == now - r.initial_timestamp
<1>1. /\ r.initial_weight_ratio \in Int /\ r.target_weight_ratio \in Int
      /\ r.target_timestamp \in Nat /\ r.initial_timestamp \in Nat
  BY PowerUpAssumption DEF powerup_state_resource
<1>2. CASE now >= r.target_timestamp
  BY <1>1, <1>2 DEF RatioNow
<1>3. CASE now < r.target_timestamp
  <2>1. d \in Nat /\ e \in Nat \ {0} /\ x \in Nat /\ x + 1 \in Nat /\ x <= x + 1 /\ x <= e
    BY <1>1, <1>3
  <2>2. RatioNow(r) = r.initial_weight_ratio - ((d * x) \div e)
    BY <1>1, <1>3 DEF RatioNow
  <2> DEFINE part == (d * x) \div e
             next == (d * (x + 1)) \div e
  <2>3. part \in Nat /\ part <= next /\ part <= d
    BY <2>1, LinearPart
  <2>4. next \in Nat
    BY <2>1, LinearPart
  <2>5. ASSUME now' = now + 1 PROVE RatioNow(r)' = IF now + 1 >= r.target_timestamp THEN r.target_weight_ratio
                                                   ELSE r.initial_weight_ratio - next
    <3>1. (now + 1) - r.initial_timestamp = x + 1
      BY <1>1
    <3>2. RatioNow(r)' = IF now + 1 >= r.target_timestamp THEN r.target_weight_ratio
                         ELSE r.initial_weight_ratio - ((d * ((now + 1) - r.initial_timestamp)) \div e)
      BY <2>5 DEF RatioNow
    <3> QED
      BY <3>1, <3>2
  <2> HIDE DEF part, next
  <2> QED
    BY <1>1, <2>1, <2>2, <2>3, <2>4, <2>5 DEF part
<1> QED
  BY <1>1, <1>2, <1>3
\* A quotient rounded up is no less.
LEMMA RoundedUp ==
  ASSUME NEW a \in Nat, NEW b \in Nat \ {0}
  PROVE  CeilDiv(a, b) \in Nat /\ CeilDiv(a, b) * b >= a
<1> DEFINE q == (-a) \div b
<1>1. q \in Int /\ b * q <= -a
  OBVIOUS
<1> HIDE DEF q
<1>2. q > 0 => b * q > 0
  BY <1>1
<1>3. b * q \in Int /\ (-q) * b = -(b * q)
  BY <1>1
<1>4. q <= 0
  BY <1>1, <1>2, <1>3
<1>5. -q \in Nat /\ (-q) * b >= a
  BY <1>1, <1>3, <1>4
<1> QED
  BY <1>5 DEF CeilDiv, q

\* The curve in the terms m = 2 * min_price * weight and d = max_price - min_price.
Curve(m, d, s, e) == m * (e - s) + d * (e * e - s * s)

LEMMA CurveIs ==
  ASSUME NEW r \in powerup_state_resource, r.max_price \in Nat, r.min_price \in 0..r.max_price,
         NEW s \in Nat, NEW e \in Nat
  PROVE  /\ 2 * r.min_price * r.weight \in Nat /\ r.max_price - r.min_price \in Nat
         /\ CurveTimes(r, s, e) = Curve(2 * r.min_price * r.weight, r.max_price - r.min_price, s, e)
<1>1. r.weight \in Nat
  BY DEF powerup_state_resource
<1>2. 2 * r.min_price * r.weight \in Nat
  BY <1>1, MulMono
<1>3. CurveTimes(r, s, e) = Curve(2 * r.min_price * r.weight, r.max_price - r.min_price, s, e)
  BY DEF CurveTimes, Curve
<1> QED
  BY <1>2, <1>3

\* What the slope d adds to the price of x units from s on.
Slope(d, s, x) == d * (x * (2 * s + x))

LEMMA SlopeType ==
  ASSUME NEW d \in Nat, NEW s \in Nat, NEW x \in Nat
  PROVE  Slope(d, s, x) \in Nat
<1>1. x * (2 * s + x) \in Nat
  BY MulMono
<1>2. d * (x * (2 * s + x)) \in Nat
  BY <1>1, MulMono
<1> QED
  BY <1>2 DEF Slope

\* It is more the higher the units are.
LEMMA SlopeRises ==
  ASSUME NEW d \in Nat, NEW x \in Nat, NEW s \in Nat, NEW v \in Nat, 2 * s + x <= v
  PROVE  Slope(d, s, x) <= d * (x * v)
<1>1. x * (2 * s + x) <= x * v /\ x * (2 * s + x) \in Nat /\ x * v \in Nat
  BY MulMono
<1>2. d * (x * (2 * s + x)) <= d * (x * v)
  BY <1>1, MulMono
<1> QED
  BY <1>2 DEF Slope

\* The curve over the next x units.
LEMMA CurveSteps ==
  ASSUME NEW m \in Nat, NEW d \in Nat, NEW s \in Nat, NEW x \in Nat, NEW e \in Nat, e = s + x
  PROVE  /\ Curve(m, d, s, e) = m * x + Slope(d, s, x)
         /\ m * x \in Nat /\ Curve(m, d, s, e) \in Nat
<1>1. (s + x) * (s + x) - s * s = x * (2 * s + x) /\ (s + x) - s = x
  OBVIOUS
<1>2. m * x \in Nat /\ Slope(d, s, x) \in Nat
  BY SlopeType, MulMono
<1>3. Curve(m, d, s, s + x) = m * x + Slope(d, s, x)
  BY <1>1 DEF Curve, Slope
<1> QED
  BY <1>2, <1>3

\* Pieces of the curve that follow each other.
LEMMA CurveAdds ==
  ASSUME NEW m \in Nat, NEW d \in Nat, NEW s \in Nat, NEW t \in Nat, NEW e \in Nat, s <= t, t <= e
  PROVE  /\ Curve(m, d, s, t) + Curve(m, d, t, e) = Curve(m, d, s, e)
         /\ Curve(m, d, s, t) \in Nat /\ Curve(m, d, t, e) \in Nat
<1>1. t - s \in Nat /\ t = s + (t - s) /\ e - t \in Nat /\ e = t + (e - t)
  OBVIOUS
<1>2. Curve(m, d, s, t) \in Nat /\ Curve(m, d, t, e) \in Nat
  BY <1>1, CurveSteps
<1>3. m * (t - s) + m * (e - t) = m * (e - s)
  OBVIOUS
<1>4. d * (t * t - s * s) + d * (e * e - t * t) = d * (e * e - s * s)
  OBVIOUS
<1>5. /\ m * (t - s) \in Int /\ m * (e - t) \in Int
      /\ d * (t * t - s * s) \in Int /\ d * (e * e - t * t) \in Int
  OBVIOUS
<1>6. Curve(m, d, s, t) + Curve(m, d, t, e) = Curve(m, d, s, e)
  BY <1>3, <1>4, <1>5 DEF Curve
<1> QED
  BY <1>2, <1>6

\* The same number of units costs no less higher up.
LEMMA CurveRises ==
  ASSUME NEW m \in Nat, NEW d \in Nat, NEW s \in Nat, NEW t \in Nat, s <= t, NEW x \in Nat
  PROVE  Curve(m, d, s, s + x) <= Curve(m, d, t, t + x)
<1>1. 2 * s + x <= 2 * t + x /\ 2 * t + x \in Nat /\ s + x \in Nat /\ t + x \in Nat
  OBVIOUS
<1>2. Slope(d, s, x) <= Slope(d, t, x)
  BY <1>1, SlopeRises DEF Slope
<1>3. Slope(d, s, x) \in Nat /\ Slope(d, t, x) \in Nat
  BY SlopeType
<1>4. m * x \in Nat /\ Curve(m, d, s, s + x) = m * x + Slope(d, s, x)
  BY <1>1, CurveSteps
<1>5. Curve(m, d, t, t + x) = m * x + Slope(d, t, x)
  BY <1>1, CurveSteps
<1> QED
  BY <1>2, <1>3, <1>4, <1>5

\* What was paid for w units of weight is enough for more.  a stands for the fees twice, b for
\* 2 * min_price * units and c for the part of the curve that is quadratic.
LEMMA LargerMarket ==
  ASSUME NEW a \in Nat, NEW b \in Nat, NEW c \in Nat, NEW w \in Nat \ {0}, NEW v \in Nat, w <= v,
         a * (w * w) >= b * w + c
  PROVE  a * (v * v) >= b * v + c
<1> DEFINE x == v - w
<1>1. x \in Nat /\ v = w + x
  OBVIOUS
<1> HIDE DEF x
<1>2. a * w >= b
  <2>1. b * w \in Nat /\ a * w \in Nat /\ a * (w * w) = w * (a * w) /\ b * w = w * b
    BY MulMono
  <2>2. w * b <= w * (a * w)
    BY <2>1
  <2> QED
    BY <2>1, <2>2, MulCancel
<1>3. a * (v * v) = a * (w * w) + x * (a * w) + x * (a * v)
  <2>1. v * v = w * w + x * w + x * v
    BY <1>1
  <2>2. a * (w * w + x * w + x * v) = a * (w * w) + a * (x * w) + a * (x * v)
    BY <1>1
  <2>3. a * (x * w) = x * (a * w) /\ a * (x * v) = x * (a * v)
    BY <1>1
  <2> QED
    BY <2>1, <2>2, <2>3
<1>4. x * b <= x * (a * w) /\ x * b = b * x
  BY <1>1, <1>2, MulMono
<1>5. b * v = b * w + b * x
  BY <1>1, Distrib
<1>6. /\ x * (a * v) \in Nat /\ x * (a * w) \in Nat /\ a * (w * w) \in Nat /\ b * w \in Nat /\ b * x \in Nat
  BY <1>1, MulMono
<1> QED
  BY <1>3, <1>4, <1>5, <1>6
\* The units up to the adjusted utilization cost no less than the curve asks for them.
LEMMA FlatPrice ==
  ASSUME NEW r \in powerup_state_resource, r.max_price \in Nat, r.min_price \in 0..r.max_price,
         NEW y \in Nat, y = 0 \/ r.utilization + y <= r.adjusted_utilization
  PROVE  /\ 2 * PriceTimes(r) * y \in Nat
         /\ 2 * PriceTimes(r) * y >= CurveTimes(r, r.utilization, r.utilization + y)
<1> DEFINE m == 2 * r.min_price * r.weight
           d == r.max_price - r.min_price
           u == r.utilization
           j == r.adjusted_utilization
<1>1. r.weight \in Nat /\ u \in Nat /\ j \in Nat /\ u + y \in Nat
  BY DEF powerup_state_resource
<1>2. m \in Nat /\ d \in Nat /\ CurveTimes(r, u, u + y) = Curve(m, d, u, u + y)
  BY <1>1, CurveIs
<1>3. 2 * PriceTimes(r) = m + d * (2 * j)
  <2>1. 2 * (r.min_price * r.weight) = m
    BY <1>1
  <2>2. r.min_price * r.weight \in Int /\ d * j \in Int /\ 2 * (d * j) = d * (2 * j)
    BY <1>1, <1>2
  <2>3. PriceTimes(r) = r.min_price * r.weight + d * j
    BY DEF PriceTimes
  <2> HIDE DEF m, d, j
  <2> QED
    BY <2>1, <2>2, <2>3
<1> HIDE DEF m, d, u, j
<1>4. d * (2 * j) \in Nat /\ y * (2 * j) \in Nat /\ m * y \in Nat
  BY <1>1, <1>2, MulMono
<1>5. 2 * PriceTimes(r) * y = m * y + d * (y * (2 * j))
  <2>1. (m + d * (2 * j)) * y = m * y + (d * (2 * j)) * y
    BY <1>2, <1>4, Distrib
  <2>2. (d * (2 * j)) * y = d * (y * (2 * j))
    BY <1>1, <1>2
  <2> QED
    BY <1>3, <2>1, <2>2
<1>6. Slope(d, u, y) <= d * (y * (2 * j)) /\ Slope(d, u, y) \in Nat
  <2>1. CASE y = 0
    BY <1>1, <1>2, <2>1 DEF Slope
  <2>2. CASE u + y <= j
    <3>1. 2 * u + y <= 2 * j /\ 2 * j \in Nat
      BY <1>1, <2>2
    <3> QED
      BY <1>1, <1>2, <3>1, SlopeRises, SlopeType
  <2> QED
    BY <2>1, <2>2 DEF u, j
<1>7. d * (y * (2 * j)) \in Nat
  BY <1>2, <1>4, MulMono
<1>8. Curve(m, d, u, u + y) = m * y + Slope(d, u, y)
  BY <1>1, <1>2, CurveSteps
<1>9. /\ 2 * PriceTimes(r) * y \in Nat
      /\ 2 * PriceTimes(r) * y >= Curve(m, d, u, u + y)
  BY <1>4, <1>5, <1>6, <1>7, <1>8
<1> QED
  BY <1>2, <1>9 DEF u

\* The fee is a natural number and pays for the curve, whether adjusted_utilization is up to
\* date or not.
LEMMA FeeIsEnough ==
  ASSUME NEW r \in powerup_state_resource, r.max_price \in Nat, r.min_price \in 0..r.max_price,
         NEW x \in Nat, x = 0 \/ r.weight > 0
  PROVE  /\ calc_powerup_fee(r, x) \in Nat
         /\ calc_powerup_fee(r, x) * 2 * r.weight * r.weight
              >= CurveTimes(r, r.utilization, r.utilization + x)
<1> DEFINE u == r.utilization
           j == r.adjusted_utilization
           w == r.weight
           m == 2 * r.min_price * w
           d == r.max_price - r.min_price
           fee == calc_powerup_fee(r, x)
<1>1. w \in Nat /\ u \in Nat /\ j \in Nat /\ u + x \in Nat
  BY DEF powerup_state_resource
<1>2. m \in Nat /\ d \in Nat /\ CurveTimes(r, u, u + x) = Curve(m, d, u, u + x)
  BY <1>1, CurveIs
<1>3. CASE x = 0
  <2>1. fee = 0
    BY <1>3 DEF calc_powerup_fee
  <2> HIDE DEF fee, m, d, u, w
  <2>2. Curve(m, d, u, u + x) = m * x + Slope(d, u, x)
    BY <1>1, <1>2, CurveSteps
  <2>3. Curve(m, d, u, u + x) = 0 /\ fee * 2 * w * w = 0 /\ fee \in Nat
    BY <1>1, <1>2, <1>3, <2>1, <2>2 DEF Slope
  <2> QED
    BY <1>2, <2>3 DEF fee, u, w
<1>4. CASE x > 0
  <2> DEFINE gap  == IF u < j THEN j - u ELSE 0
             flat == IF x < gap THEN x ELSE gap
             rest == IF u + gap < u + x THEN CurveTimes(r, u + gap, u + x) ELSE 0
             n == 2 * PriceTimes(r) * flat + rest
  <2>1. fee = CeilDiv(n, 2 * w * w)
    BY <1>4 DEF calc_powerup_fee
  <2>2. gap \in Nat /\ flat \in Nat /\ (flat = 0 \/ u + flat <= j) /\ flat <= x
    BY <1>1
  <2>3. 2 * PriceTimes(r) * flat \in Nat /\ 2 * PriceTimes(r) * flat >= Curve(m, d, u, u + flat)
    <3>1. CurveTimes(r, u, u + flat) = Curve(m, d, u, u + flat)
      <4> HIDE DEF flat
      <4> QED
        BY <1>1, <2>2, CurveIs
    <3> HIDE DEF flat, gap
    <3> QED
      BY <2>2, <3>1, FlatPrice
  <2>4. rest = Curve(m, d, u + flat, u + x)
    <3>1. CASE u + gap < u + x
      <4>1. flat = gap
        BY <1>1, <2>2, <3>1
      <4>2. CurveTimes(r, u + gap, u + x) = Curve(m, d, u + gap, u + x)
        <5>1. u + gap \in Nat
          BY <1>1, <2>2
        <5> HIDE DEF gap
        <5> QED
          BY <1>1, <5>1, CurveIs
      <4> QED
        BY <3>1, <4>1, <4>2
    <3>2. CASE ~(u + gap < u + x)
      <4>1. u + flat = u + x
        BY <1>1, <2>2, <3>2
      <4>2. Curve(m, d, u + x, u + x) = 0
        <5>1. (u + x) * (u + x) \in Int
          BY <1>1
        <5> HIDE DEF m, d, u
        <5> QED
          BY <1>1, <1>2, <5>1 DEF Curve
      <4> QED
        BY <3>2, <4>1, <4>2
    <3> QED
      BY <3>1, <3>2
  <2> HIDE DEF rest, flat, gap
  <2>5. /\ Curve(m, d, u, u + flat) + rest = Curve(m, d, u, u + x)
        /\ Curve(m, d, u, u + flat) \in Nat /\ rest \in Nat
    <3>1. u + flat \in Nat /\ u <= u + flat /\ u + flat <= u + x
      BY <1>1, <2>2
    <3> HIDE DEF m, d, u
    <3> QED
      BY <1>1, <1>2, <2>2, <2>4, <3>1, CurveAdds
  <2>6. n \in Nat /\ n >= Curve(m, d, u, u + x)
    BY <2>3, <2>5
  <2>7. 2 * w * w \in Nat \ {0}
    <3>1. w >= 1
      BY <1>1, <1>4
    <3>2. w * 1 <= w * w /\ w * w \in Nat
      BY <1>1, <3>1, MulMono
    <3>3. 2 * w * w = 2 * (w * w)
      BY <1>1
    <3> HIDE DEF w
    <3> QED
      BY <1>1, <3>1, <3>2, <3>3
  <2> HIDE DEF n
  <2>8. fee \in Nat /\ fee * (2 * w * w) >= n
    BY <2>1, <2>6, <2>7, RoundedUp
  <2>9. fee * (2 * w * w) = fee * 2 * w * w
    <3> HIDE DEF fee, w
    <3> QED
      BY <1>1, <2>8
  <2> HIDE DEF fee, m, d
  <2>10. fee * 2 * w * w >= Curve(m, d, u, u + x)
    <3>1. fee * 2 * w * w \in Int /\ Curve(m, d, u, u + x) \in Nat
      BY <1>1, <2>5, <2>8
    <3> HIDE DEF w, u
    <3> QED
      BY <2>6, <2>8, <2>9, <3>1
  <2> QED
    BY <1>2, <2>8, <2>10 DEF fee
<1> QED
  BY <1>3, <1>4
-----------------------------------------------------------------------------
(* One market.                                                             *)

Within(r) == r.utilization \in 0..r.weight /\ r.adjusted_utilization \in 0..r.weight

\* What an update may do to a market: the weight does not shrink, the prices stay.
Later(z, r) == /\ IsConfigured(z) /\ Within(z)
               /\ r.weight <= z.weight
               /\ z.min_price = r.min_price /\ z.max_price = r.max_price

LEMMA Fields ==
  ASSUME NEW r \in powerup_state_resource
  PROVE  /\ r.weight \in Nat /\ r.weight_ratio \in 0..powerup_frac /\ r.assumed_stake_weight \in Nat
         /\ r.initial_weight_ratio \in 1..powerup_frac /\ r.target_weight_ratio \in 1..powerup_frac
         /\ r.initial_timestamp \in Nat /\ r.target_timestamp \in Nat
         /\ r.utilization \in Nat /\ r.adjusted_utilization \in Nat /\ r.utilization_timestamp \in Nat
BY DEF powerup_state_resource

\* The decay of the adjusted utilization.
LEMMA Decayed ==
  ASSUME now \in Nat, NEW r, IsConfigured(r), Within(r), NEW kept,
         kept \in IF now > r.utilization_timestamp /\ r.utilization < r.adjusted_utilization
                  THEN 0..(r.adjusted_utilization - r.utilization) ELSE {0}
  PROVE  LET z == update_utilization(r, kept)
         IN  Later(z, r) /\ z.utilization = r.utilization /\ z.weight = r.weight
<1> DEFINE z == update_utilization(r, kept)
           v == IF r.utilization >= r.adjusted_utilization THEN r.utilization ELSE r.utilization + kept
<1>1. r \in powerup_state_resource
  BY DEF IsConfigured
<1>2. CASE now <= r.utilization_timestamp
  BY <1>1, <1>2, Fields DEF update_utilization, Later
<1>3. CASE ~(now <= r.utilization_timestamp)
  <2>1. z = [r EXCEPT !.adjusted_utilization = v, !.utilization_timestamp = now]
    BY <1>3 DEF update_utilization
  <2>2. v \in 0..r.weight /\ v \in Nat
    BY <1>1, <1>3, Fields DEF Within
  <2> HIDE DEF z, v
  <2>3. /\ z \in powerup_state_resource
        /\ z.adjusted_utilization = v
        /\ z.utilization = r.utilization /\ z.weight = r.weight /\ z.weight_ratio = r.weight_ratio
        /\ z.assumed_stake_weight = r.assumed_stake_weight
        /\ z.initial_weight_ratio = r.initial_weight_ratio /\ z.target_weight_ratio = r.target_weight_ratio
        /\ z.initial_timestamp = r.initial_timestamp /\ z.target_timestamp = r.target_timestamp
        /\ z.min_price = r.min_price /\ z.max_price = r.max_price
    BY <1>1, <2>1, <2>2 DEF powerup_state_resource
  <2>4. RatioNow(z) = RatioNow(r)
    BY <2>3 DEF RatioNow
  <2>5. IsConfigured(z)
    BY <2>3, <2>4 DEF IsConfigured
  <2>6. Within(z) /\ r.weight <= z.weight
    BY <1>1, <2>2, <2>3, Fields DEF Within
  <2> QED
    BY <2>3, <2>5, <2>6 DEF Later, z
<1> QED
  BY <1>2, <1>3

\* The return and the purchase of units.
LEMMA Utilized ==
  ASSUME NEW r, IsConfigured(r), Within(r), NEW v \in 0..r.weight
  PROVE  LET z == [r EXCEPT !.utilization = v]
         IN  Later(z, r) /\ z.utilization = v /\ z.weight = r.weight
<1> DEFINE z == [r EXCEPT !.utilization = v]
<1>1. r \in powerup_state_resource
  BY DEF IsConfigured
<1>2. v \in Nat
  BY <1>1, Fields
<1>3. /\ z \in powerup_state_resource
      /\ z.utilization = v
      /\ z.adjusted_utilization = r.adjusted_utilization /\ z.weight = r.weight /\ z.weight_ratio = r.weight_ratio
      /\ z.assumed_stake_weight = r.assumed_stake_weight
      /\ z.initial_weight_ratio = r.initial_weight_ratio /\ z.target_weight_ratio = r.target_weight_ratio
      /\ z.initial_timestamp = r.initial_timestamp /\ z.target_timestamp = r.target_timestamp
      /\ z.min_price = r.min_price /\ z.max_price = r.max_price
  BY <1>1, <1>2 DEF powerup_state_resource
<1> HIDE DEF z
<1>4. RatioNow(z) = RatioNow(r)
  BY <1>3 DEF RatioNow
<1>5. IsConfigured(z)
  BY <1>3, <1>4 DEF IsConfigured
<1>6. Within(z) /\ r.weight <= z.weight
  BY <1>1, <1>2, <1>3, Fields DEF Within
<1> QED
  BY <1>3, <1>5, <1>6 DEF Later, z

\* The weight of the present ratio.
LEMMA Reweighed ==
  ASSUME now \in Nat, NEW r \in powerup_state_resource, r.target_weight_ratio <= r.initial_weight_ratio,
         r.initial_timestamp <= now, r.assumed_stake_weight >= 1, r.max_price \in Nat, r.min_price \in 0..r.max_price
  PROVE  LET z == update_weight(r)
         IN  /\ IsConfigured(z)
             /\ z.weight = WeightAt(r.assumed_stake_weight, RatioNow(r))
             /\ z.utilization = r.utilization /\ z.adjusted_utilization = r.adjusted_utilization
             /\ z.min_price = r.min_price /\ z.max_price = r.max_price
<1> DEFINE p == RatioNow(r)
           v == WeightAt(r.assumed_stake_weight, p)
           z == [r EXCEPT !.weight_ratio = p, !.weight = v]
<1>1. p \in r.target_weight_ratio..r.initial_weight_ratio
  BY RatioFalls
<1>2. p \in 1..powerup_frac /\ p \in 0..powerup_frac
  BY <1>1, Fields, PowerUpAssumption
<1>3. v \in Nat
  <2> HIDE DEF p
  <2>1. p \in 1..p
    BY <1>2, PowerUpAssumption
  <2> QED
    BY <1>2, <2>1, Fields, WeightGrows
<1>4. update_weight(r) = z
  BY DEF update_weight
<1> HIDE DEF p, v
<1>5. /\ z \in powerup_state_resource
      /\ z.weight_ratio = p /\ z.weight = v
      /\ z.utilization = r.utilization /\ z.adjusted_utilization = r.adjusted_utilization
      /\ z.assumed_stake_weight = r.assumed_stake_weight
      /\ z.initial_weight_ratio = r.initial_weight_ratio /\ z.target_weight_ratio = r.target_weight_ratio
      /\ z.initial_timestamp = r.initial_timestamp /\ z.target_timestamp = r.target_timestamp
      /\ z.min_price = r.min_price /\ z.max_price = r.max_price
  BY <1>2, <1>3 DEF powerup_state_resource
<1> HIDE DEF z
<1>6. RatioNow(z) = p
  BY <1>5 DEF RatioNow, p
<1>7. IsConfigured(z)
  BY <1>2, <1>5, <1>6, PowerUpAssumption DEF IsConfigured, v
<1> QED
  BY <1>4, <1>5, <1>7 DEF v, p

LEMMA Grown ==
  ASSUME now \in Nat, NEW r, IsConfigured(r), Within(r)
  PROVE  LET z == update_weight(r)
         IN  Later(z, r) /\ z.utilization = r.utilization
<1> DEFINE z == update_weight(r)
<1>1. r \in powerup_state_resource
  BY DEF IsConfigured
<1>2. /\ IsConfigured(z)
      /\ z.weight = WeightAt(r.assumed_stake_weight, RatioNow(r))
      /\ z.utilization = r.utilization /\ z.adjusted_utilization = r.adjusted_utilization
      /\ z.min_price = r.min_price /\ z.max_price = r.max_price
  BY <1>1, Reweighed DEF IsConfigured
<1>3. RatioNow(r) \in 1..r.weight_ratio /\ r.weight_ratio \in 1..powerup_frac
  <2>1. RatioNow(r) \in r.target_weight_ratio..r.initial_weight_ratio
    BY <1>1, RatioFalls DEF IsConfigured
  <2> QED
    BY <1>1, <2>1, Fields, PowerUpAssumption DEF IsConfigured
<1>4. r.weight <= z.weight
  BY <1>1, <1>2, <1>3, Fields, WeightGrows DEF IsConfigured
<1>5. Within(z)
  <2>1. z.weight \in Nat /\ r.weight \in Nat
    BY <1>1, <1>2, Fields DEF IsConfigured
  <2> QED
    BY <1>2, <1>4, <2>1 DEF Within
<1> QED
  BY <1>2, <1>4, <1>5 DEF Later
-----------------------------------------------------------------------------
(* Tables of orders, and what a part of one has bought and paid.           *)

LEMMA OrderFields ==
  ASSUME NEW o, IsOrders(o), NEW i \in DOMAIN o, NEW k \in Kinds
  PROVE  /\ Rate(o, k)[i] = o[i].weight[k] /\ Fees(o, k)[i] = o[i].paid[k]
         /\ o[i].weight[k] \in Nat /\ o[i].paid[k] \in Nat
         /\ o[i].owner \in Accounts /\ o[i].current \in BOOLEAN
<1>1. o[i] \in powerup_order
  BY DEF IsOrders
<1>2. /\ o[i].weight \in [Kinds -> Nat] /\ o[i].paid \in [Kinds -> Nat]
      /\ o[i].owner \in Accounts /\ o[i].current \in BOOLEAN
  BY <1>1 DEF powerup_order
<1> QED
  BY <1>2 DEF Rate, Fees

LEMMA PartType ==
  ASSUME NEW o, IsOrders(o), NEW S \in SUBSET DOMAIN o, NEW k \in Kinds
  PROVE  IsFiniteSet(S) /\ Sold(o, S, k) \in Nat /\ Paid(o, S, k) \in Nat
<1>1. IsFiniteSet(S)
  BY FS_Subset DEF IsOrders
<1>2. \A i \in S : Rate(o, k)[i] \in Nat /\ Fees(o, k)[i] \in Nat
  BY OrderFields
<1>3. Sold(o, S, k) \in Nat
  BY <1>1, <1>2, SumOfType DEF Sold
<1>4. Paid(o, S, k) \in Nat
  BY <1>1, <1>2, SumOfType DEF Paid
<1> QED
  BY <1>1, <1>3, <1>4

LEMMA PartsAdd ==
  ASSUME NEW o, IsOrders(o), NEW S \in SUBSET DOMAIN o, NEW T \in SUBSET DOMAIN o, S \cap T = {},
         NEW k \in Kinds
  PROVE  /\ Sold(o, S \cup T, k) = Sold(o, S, k) + Sold(o, T, k)
         /\ Paid(o, S \cup T, k) = Paid(o, S, k) + Paid(o, T, k)
<1>1. IsFiniteSet(S) /\ IsFiniteSet(T)
  BY FS_Subset DEF IsOrders
<1>2. \A i \in S \cup T : Rate(o, k)[i] \in Int /\ Fees(o, k)[i] \in Int
  BY OrderFields
<1>3. SumOf(Rate(o, k), S \cup T) = SumOf(Rate(o, k), S) + SumOf(Rate(o, k), T)
  BY <1>1, <1>2, SumOfSplit
<1>4. SumOf(Fees(o, k), S \cup T) = SumOf(Fees(o, k), S) + SumOf(Fees(o, k), T)
  BY <1>1, <1>2, SumOfSplit
<1> QED
  BY <1>3, <1>4 DEF Sold, Paid

LEMMA PartIsLess ==
  ASSUME NEW o, IsOrders(o), NEW T \in SUBSET DOMAIN o, NEW S \in SUBSET T, NEW k \in Kinds
  PROVE  Sold(o, T \ S, k) = Sold(o, T, k) - Sold(o, S, k) /\ Sold(o, S, k) <= Sold(o, T, k)
<1>1. T = S \cup (T \ S) /\ S \cap (T \ S) = {} /\ S \in SUBSET DOMAIN o /\ T \ S \in SUBSET DOMAIN o
  OBVIOUS
<1>2. Sold(o, S \cup (T \ S), k) = Sold(o, S, k) + Sold(o, T \ S, k)
  BY <1>1, PartsAdd
<1>3. Sold(o, S, k) \in Nat /\ Sold(o, T \ S, k) \in Nat
  BY <1>1, PartType
<1>4. Sold(o, T, k) = Sold(o, S, k) + Sold(o, T \ S, k)
  BY <1>1, <1>2, Zenon
<1> QED
  BY <1>3, <1>4

\* A part of two tables in which they agree.
LEMMA SamePart ==
  ASSUME NEW o, IsOrders(o), NEW q, IsOrders(q), NEW S, S \subseteq DOMAIN o, S \subseteq DOMAIN q,
         \A i \in S : o[i].weight = q[i].weight /\ o[i].paid = q[i].paid, NEW k \in Kinds
  PROVE  Sold(o, S, k) = Sold(q, S, k) /\ Paid(o, S, k) = Paid(q, S, k)
<1>1. \A i \in S : Rate(o, k)[i] = Rate(q, k)[i] /\ Fees(o, k)[i] = Fees(q, k)[i]
  BY OrderFields
<1>2. SumOf(Rate(o, k), S) = SumOf(Rate(q, k), S)
  BY <1>1, SumOfSame
<1>3. SumOf(Fees(o, k), S) = SumOf(Fees(q, k), S)
  BY <1>1, SumOfSame
<1> QED
  BY <1>2, <1>3 DEF Sold, Paid

\* A new order gets an id that is free.
LEMMA FreeId ==
  ASSUME NEW o, IsOrders(o)
  PROVE  available_primary_key(o) \in Nat \ DOMAIN o
<1>1. CASE DOMAIN o = {}
  BY <1>1 DEF available_primary_key
<1>2. CASE DOMAIN o # {}
  <2> DEFINE last == CHOOSE i \in DOMAIN o : \A j \in DOMAIN o : j <= i
  <2>1. DOMAIN o \in SUBSET Nat /\ IsFiniteSet(DOMAIN o)
    BY DEF IsOrders
  <2>2. \E i \in DOMAIN o : \A j \in DOMAIN o : j <= i
    BY <1>2, <2>1, GreatestNatural
  <2>3. last \in DOMAIN o /\ \A j \in DOMAIN o : j <= last
    BY <2>2
  <2>4. available_primary_key(o) = last + 1
    BY <1>2 DEF available_primary_key
  <2> HIDE DEF last
  <2> QED
    BY <2>1, <2>3, <2>4
<1> QED
  BY <1>1, <1>2

LEMMA Emplaced ==
  ASSUME NEW o, IsOrders(o), NEW row \in powerup_order
  PROVE  LET q  == Emplace(o, row)
             id == available_primary_key(o)
         IN  /\ IsOrders(q) /\ id \notin DOMAIN o
             /\ DOMAIN q = DOMAIN o \cup {id}
             /\ q[id] = row /\ \A i \in DOMAIN o : q[i] = o[i]
             /\ \A S \in SUBSET DOMAIN o, k \in Kinds :
                    /\ Sold(q, S, k) = Sold(o, S, k) /\ Paid(q, S, k) = Paid(o, S, k)
                    /\ Sold(q, S \cup {id}, k) = Sold(o, S, k) + row.weight[k]
                    /\ Paid(q, S \cup {id}, k) = Paid(o, S, k) + row.paid[k]
<1> DEFINE q  == Emplace(o, row)
           id == available_primary_key(o)
<1>1. id \in Nat /\ id \notin DOMAIN o
  BY FreeId
<1>2. q = [i \in DOMAIN o \cup {id} |-> IF i = id THEN row ELSE o[i]]
  BY DEF Emplace
<1> HIDE DEF q, id
<1>3. DOMAIN q = DOMAIN o \cup {id} /\ q[id] = row /\ \A i \in DOMAIN o : q[i] = o[i]
  BY <1>1, <1>2
<1>4. IsFiniteSet(DOMAIN q)
  BY <1>3, FS_AddElement DEF IsOrders
<1>5. IsOrders(q)
  <2>1. \A i \in DOMAIN o : o[i] \in powerup_order
    BY DEF IsOrders
  <2>2. \A i \in DOMAIN q : q[i] \in powerup_order
    BY <1>3, <2>1
  <2>3. q \in [DOMAIN q -> powerup_order]
    BY <1>2, <1>3, <2>2
  <2> QED
    BY <1>1, <1>3, <1>4, <2>3 DEF IsOrders
<1>6. ASSUME NEW S \in SUBSET DOMAIN o, NEW k \in Kinds
      PROVE  /\ Sold(q, S, k) = Sold(o, S, k) /\ Paid(q, S, k) = Paid(o, S, k)
             /\ Sold(q, S \cup {id}, k) = Sold(o, S, k) + row.weight[k]
             /\ Paid(q, S \cup {id}, k) = Paid(o, S, k) + row.paid[k]
  <2>1. Sold(q, S, k) = Sold(o, S, k) /\ Paid(q, S, k) = Paid(o, S, k)
    <3>1. S \subseteq DOMAIN q /\ \A i \in S : q[i] = o[i]
      BY <1>3
    <3> QED
      BY <1>5, <3>1, SamePart
  <2>2. IsFiniteSet(S) /\ id \notin S
    BY <1>1, PartType
  <2>3. \A i \in S \cup {id} : Rate(q, k)[i] \in Int /\ Fees(q, k)[i] \in Int
    BY <1>3, <1>5, OrderFields
  <2>4. SumOf(Rate(q, k), S \cup {id}) = SumOf(Rate(q, k), S) + Rate(q, k)[id]
    BY <2>2, <2>3, SumOfOneMore
  <2>5. SumOf(Fees(q, k), S \cup {id}) = SumOf(Fees(q, k), S) + Fees(q, k)[id]
    BY <2>2, <2>3, SumOfOneMore
  <2>6. Rate(q, k)[id] = row.weight[k] /\ Fees(q, k)[id] = row.paid[k]
    BY <1>3, <1>5, OrderFields
  <2> QED
    BY <2>1, <2>4, <2>5, <2>6 DEF Sold, Paid
<1> QED
  BY <1>1, <1>3, <1>5, <1>6 DEF q, id

\* A part of a table.
LEMMA PartOfTable ==
  ASSUME NEW o, IsOrders(o), NEW R \in SUBSET DOMAIN o
  PROVE  LET q == [i \in R |-> o[i]]
         IN  /\ IsOrders(q) /\ DOMAIN q = R /\ \A i \in R : q[i] = o[i]
             /\ \A S \in SUBSET R, k \in Kinds : Sold(q, S, k) = Sold(o, S, k) /\ Paid(q, S, k) = Paid(o, S, k)
<1> DEFINE q == [i \in R |-> o[i]]
<1>1. IsFiniteSet(R)
  BY FS_Subset DEF IsOrders
<1>2. DOMAIN q = R /\ \A i \in R : q[i] = o[i]
  OBVIOUS
<1>3. IsOrders(q)
  BY <1>1 DEF IsOrders
<1> HIDE DEF q
<1>4. ASSUME NEW S \in SUBSET R, NEW k \in Kinds
      PROVE Sold(q, S, k) = Sold(o, S, k) /\ Paid(q, S, k) = Paid(o, S, k)
  <2>1. S \subseteq DOMAIN q /\ S \subseteq DOMAIN o /\ \A i \in S : q[i] = o[i]
    BY <1>2
  <2> QED
    BY <1>3, <2>1, SamePart
<1> QED
  BY <1>2, <1>3, <1>4 DEF q
-----------------------------------------------------------------------------
(* Rows of userres.                                                        *)

LEMMA Deltas ==
  ASSUME NEW d \in [Kinds -> Int], NEW e \in [Kinds -> Int]
  PROVE  /\ d ++ e \in [Kinds -> Int] /\ d -- e \in [Kinds -> Int] /\ Zero \in [Kinds -> Int]
         /\ \A k \in Kinds : (d ++ e)[k] = d[k] + e[k] /\ (d -- e)[k] = d[k] - e[k] /\ Zero[k] = 0
BY DEF ++, --, Zero

\* adjust_resources adds to one row, and writes its limits where they are not managed.
LEMMA Adjusted ==
  ASSUME NEW t, RowsFollow(t), NEW a \in Accounts, NEW delta \in [Kinds -> Int]
  PROVE  LET u == adjust_resources(t, a, delta)
         IN  /\ RowsFollow(u)
             /\ \A b \in Accounts, k \in Kinds : u.totals[b][k] = t.totals[b][k] + IF b = a THEN delta[k] ELSE 0
             /\ \A b \in Accounts : b # a => u.totals[b] = t.totals[b] /\ u.limits[b] = t.limits[b]
<1> DEFINE u == adjust_resources(t, a, delta)
           T == t.totals
           L == t.limits
           row == T[a] ++ delta
           lim == [k \in Kinds |-> IF k \in managed[a] THEN L[a][k] ELSE T[a][k] + delta[k]]
           R == RowsAfter(t, a, row)
<1>1. /\ T \in [Accounts -> [Kinds -> Int]] /\ L \in [Accounts -> [Kinds -> Int]]
      /\ T[a] \in [Kinds -> Int] /\ L[a] \in [Kinds -> Int]
  BY DEF RowsFollow
<1>2. CASE delta = Zero
  <2>1. u = t
    BY <1>2 DEF adjust_resources
  <2>2. ASSUME NEW b \in Accounts, NEW k \in Kinds
        PROVE  T[b][k] = T[b][k] + IF b = a THEN delta[k] ELSE 0
    <3>1. T[b][k] \in Int /\ delta[k] = 0
      BY <1>1, <1>2 DEF Zero
    <3> QED
      BY <3>1
  <2> QED
    BY <2>1, <2>2
<1>3. CASE delta # Zero
  <2>1. u = [totals |-> [T EXCEPT ![a] = row], limits |-> [L EXCEPT ![a] = lim], rows |-> R, bare |-> t.bare \ {a}]
    BY <1>3 DEF adjust_resources
  <2>2. row \in [Kinds -> Int] /\ lim \in [Kinds -> Int] /\ \A k \in Kinds : row[k] = T[a][k] + delta[k]
    BY <1>1, Deltas
  <2>3. \A k \in Kinds \ managed[a] : lim[k] = row[k]
    BY <1>1, <2>2
  <2>r. /\ R = IF row = Zero /\ a \notin ramOwners THEN t.rows \ {a} ELSE t.rows \cup {a}
        /\ Standing(t)
    BY DEF RowsAfter, RowsFollow
  <2> HIDE DEF u, row, lim, R
  <2>4. /\ u = [totals |-> u.totals, limits |-> u.limits, rows |-> u.rows, bare |-> u.bare]
        /\ u.totals = [T EXCEPT ![a] = row] /\ u.limits = [L EXCEPT ![a] = lim]
        /\ u.rows = R /\ u.bare = t.bare \ {a}
    BY <2>1
  <2>5. /\ u.totals \in [Accounts -> [Kinds -> Int]] /\ u.limits \in [Accounts -> [Kinds -> Int]]
        /\ u.totals[a] = row /\ u.limits[a] = lim
        /\ \A b \in Accounts : b # a => u.totals[b] = T[b] /\ u.limits[b] = L[b]
    BY <1>1, <2>2, <2>4
  <2>s. Standing(u)
    <3>1. /\ t.rows \in SUBSET Accounts /\ ramOwners \subseteq t.rows /\ t.bare \subseteq t.rows
          /\ \A b \in Accounts : T[b] # Zero => b \in t.rows
      BY <2>r DEF Standing
    <3>2. /\ u.rows \in SUBSET Accounts /\ ramOwners \subseteq u.rows /\ u.bare \subseteq u.rows
      BY <2>r, <2>4, <3>1
    <3>3. ASSUME NEW b \in Accounts, u.totals[b] # Zero PROVE b \in u.rows
      BY <2>r, <2>4, <2>5, <3>1, <3>3
    <3> QED
      BY <3>2, <3>3 DEF Standing
  <2>6. ASSUME NEW b \in Accounts, u.totals[b] # Zero \/ b \in u.rows \ u.bare, NEW k \in Kinds \ managed[b]
        PROVE  u.limits[b][k] = u.totals[b][k]
    <3>1. CASE b = a
      BY <2>3, <2>5, <3>1
    <3>2. CASE b # a
      <4>1. T[b] # Zero \/ b \in t.rows \ t.bare
        BY <2>r, <2>4, <2>5, <2>6, <3>2
      <4> QED
        BY <2>5, <2>6, <3>2, <4>1 DEF RowsFollow
    <3> QED
      BY <3>1, <3>2
  <2>7. RowsFollow(u)
    BY <2>4, <2>5, <2>6, <2>s DEF RowsFollow
  <2>8. ASSUME NEW b \in Accounts, NEW k \in Kinds
        PROVE  u.totals[b][k] = T[b][k] + IF b = a THEN delta[k] ELSE 0
    <3>1. T[b][k] \in Int /\ delta[k] \in Int
      BY <1>1
    <3>2. CASE b = a
      BY <2>2, <2>5, <3>1, <3>2
    <3>3. CASE b # a
      BY <2>5, <3>1, <3>3
    <3> QED
      BY <3>2, <3>3
  <2> QED
    BY <2>5, <2>7, <2>8 DEF u
<1> QED
  BY <1>2, <1>3

\* Weight in the terms of these proofs.
LEMMA WeightIsSold ==
  ASSUME NEW S, NEW k \in Kinds
  PROVE  Weight(S)[k] = Sold(orders, S, k)
BY DEF Weight, Sold, Rate

\* The return of a part of the orders.
LEMMA ReturnedRows ==
  ASSUME IsOrders(orders), NEW t, RowsFollow(t), NEW S \in SUBSET DOMAIN orders
  PROVE  LET u == Returned(t, S)
         IN  /\ RowsFollow(u)
             /\ \A a \in Accounts, k \in Kinds :
                    u.totals[a][k] = t.totals[a][k] - Sold(orders, S \cap Owned(orders, a), k)
<1> DEFINE d(a) == Zero -- Weight(S \cap OwnedBy(a))
           one(a) == adjust_resources(t, a, d(a))
           u == [totals |-> [a \in Accounts |-> one(a).totals[a]], limits |-> [a \in Accounts |-> one(a).limits[a]],
                 rows   |-> {a \in Accounts : a \in one(a).rows}, bare |-> {a \in Accounts : a \in one(a).bare}]
<1>1. Returned(t, S) = u
  BY DEF Returned
<1>2. ASSUME NEW a \in Accounts
      PROVE  /\ d(a) \in [Kinds -> Int]
             /\ \A k \in Kinds : d(a)[k] = 0 - Sold(orders, S \cap Owned(orders, a), k)
  <2> DEFINE w == Weight(S \cap OwnedBy(a))
  <2>1. S \cap Owned(orders, a) \in SUBSET DOMAIN orders /\ OwnedBy(a) = Owned(orders, a)
    BY DEF Owned, OwnedBy
  <2>2. \A k \in Kinds : w[k] = Sold(orders, S \cap Owned(orders, a), k)
    BY <2>1, WeightIsSold
  <2>3. \A k \in Kinds : w[k] \in Int
    <3>1. ASSUME NEW k \in Kinds PROVE Sold(orders, S \cap Owned(orders, a), k) \in Nat
      BY <2>1, PartType
    <3> HIDE DEF w
    <3> QED
      BY <2>2, <3>1
  <2>4. w \in [Kinds -> Int]
    BY <2>3 DEF Weight
  <2> HIDE DEF w
  <2>5. Zero \in [Kinds -> Int] /\ \A k \in Kinds : Zero[k] = 0
    BY DEF Zero
  <2>6. Zero -- w \in [Kinds -> Int] /\ \A k \in Kinds : (Zero -- w)[k] = 0 - w[k]
    BY <2>4, <2>5, Deltas
  <2> QED
    BY <2>2, <2>6 DEF w
<1>3. ASSUME NEW a \in Accounts
      PROVE  /\ RowsFollow(one(a))
             /\ \A k \in Kinds : one(a).totals[a][k] = t.totals[a][k] - Sold(orders, S \cap Owned(orders, a), k)
  <2>1. d(a) \in [Kinds -> Int] /\ \A k \in Kinds : d(a)[k] = 0 - Sold(orders, S \cap Owned(orders, a), k)
    BY <1>2
  <2> HIDE DEF d
  <2>2. RowsFollow(one(a)) /\ \A k \in Kinds : one(a).totals[a][k] = t.totals[a][k] + d(a)[k]
    BY <2>1, Adjusted
  <2>3. \A k \in Kinds : t.totals[a][k] \in Int /\ Sold(orders, S \cap Owned(orders, a), k) \in Nat
    BY PartType DEF RowsFollow
  <2> HIDE DEF one
  <2>4. ASSUME NEW k \in Kinds
        PROVE one(a).totals[a][k] = t.totals[a][k] - Sold(orders, S \cap Owned(orders, a), k)
    <3>1. one(a).totals[a][k] = t.totals[a][k] + d(a)[k]
      BY <2>2
    <3>2. d(a)[k] = 0 - Sold(orders, S \cap Owned(orders, a), k)
      BY <2>1
    <3>3. t.totals[a][k] \in Int /\ Sold(orders, S \cap Owned(orders, a), k) \in Nat
      BY <2>3
    <3> QED
      BY <3>1, <3>2, <3>3
  <2> QED
    BY <2>2, <2>4
<1> HIDE DEF d, one
<1>4. /\ u = [totals |-> u.totals, limits |-> u.limits, rows |-> u.rows, bare |-> u.bare]
      /\ \A a \in Accounts : u.totals[a] = one(a).totals[a] /\ u.limits[a] = one(a).limits[a]
      /\ u.rows = {a \in Accounts : a \in one(a).rows} /\ u.bare = {a \in Accounts : a \in one(a).bare}
  OBVIOUS
<1>5. u.totals \in [Accounts -> [Kinds -> Int]] /\ u.limits \in [Accounts -> [Kinds -> Int]]
  BY <1>3 DEF RowsFollow
<1> HIDE DEF u
<1>s. Standing(u)
  <2>1. ASSUME NEW a \in Accounts
        PROVE  /\ ramOwners \subseteq one(a).rows /\ one(a).bare \subseteq one(a).rows
               /\ one(a).totals[a] # Zero => a \in one(a).rows
    BY <1>3 DEF RowsFollow, Standing
  <2>2. ramOwners \subseteq Accounts
    BY DEF RowsFollow, Standing
  <2>3. /\ u.rows \in SUBSET Accounts /\ ramOwners \subseteq u.rows /\ u.bare \subseteq u.rows
    BY <1>4, <2>1, <2>2
  <2>4. \A a \in Accounts : u.totals[a] # Zero => a \in u.rows
    BY <1>4, <2>1
  <2> QED
    BY <2>3, <2>4 DEF Standing
<1>6. ASSUME NEW a \in Accounts, u.totals[a] # Zero \/ a \in u.rows \ u.bare, NEW k \in Kinds \ managed[a]
      PROVE  u.limits[a][k] = u.totals[a][k]
  <2>1. /\ u.totals[a] = one(a).totals[a] /\ u.limits[a] = one(a).limits[a]
        /\ a \in u.rows \ u.bare => a \in one(a).rows \ one(a).bare
    BY <1>4
  <2>2. one(a).limits[a][k] = one(a).totals[a][k]
    BY <1>3, <1>6, <2>1 DEF RowsFollow
  <2> QED
    BY <2>1, <2>2
<1>7. RowsFollow(u)
  BY <1>4, <1>5, <1>6, <1>s DEF RowsFollow
<1> QED
  BY <1>1, <1>3, <1>4, <1>7
-----------------------------------------------------------------------------
(* The queue of expired orders.                                            *)

\* The curve from nothing, with the weight as a factor of its own.
LEMMA CurveFromZero ==
  ASSUME NEW r \in powerup_state_resource, r.max_price \in Nat, r.min_price \in 0..r.max_price,
         NEW n \in Nat, NEW fees \in Nat
  PROVE  /\ 2 * r.min_price * n \in Nat /\ (r.max_price - r.min_price) * (n * n) \in Nat
         /\ CurveTimes(r, 0, n) = (2 * r.min_price * n) * r.weight + (r.max_price - r.min_price) * (n * n)
         /\ fees * 2 * r.weight * r.weight = (fees * 2) * (r.weight * r.weight)
<1> DEFINE w == r.weight
           d == r.max_price - r.min_price
           p == r.min_price
<1>1. w \in Nat /\ d \in Nat /\ p \in Nat
  BY Fields
<1>2. CurveTimes(r, 0, n) = 2 * p * w * (n - 0) + d * (n * n - 0 * 0)
  BY DEF CurveTimes
<1> HIDE DEF w, d, p
<1>3. 2 * p * w * (n - 0) = (2 * p * n) * w /\ n * n - 0 * 0 = n * n
  BY <1>1
<1>4. 2 * p * n \in Nat /\ n * n \in Nat
  BY <1>1, MulMono
<1>5. d * (n * n) \in Nat
  BY <1>1, <1>4, MulMono
<1>6. fees * 2 * w * w = (fees * 2) * (w * w)
  BY <1>1
<1> QED
  BY <1>2, <1>3, <1>4, <1>5, <1>6 DEF w, d, p

\* Orders that have paid the curve have paid that of a larger market.
LEMMA PaidStays ==
  ASSUME NEW r, IsConfigured(r), NEW z, Later(z, r), NEW n \in 0..r.weight, NEW fees \in Nat,
         fees * 2 * r.weight * r.weight >= CurveTimes(r, 0, n)
  PROVE  fees * 2 * z.weight * z.weight >= CurveTimes(z, 0, n)
<1> DEFINE w == r.weight
           v == z.weight
           b == 2 * r.min_price * n
           c == (r.max_price - r.min_price) * (n * n)
<1>1. /\ r \in powerup_state_resource /\ z \in powerup_state_resource
      /\ r.max_price \in Nat /\ r.min_price \in 0..r.max_price
      /\ z.max_price = r.max_price /\ z.min_price = r.min_price
      /\ w <= v
  BY DEF IsConfigured, Later
<1>2. w \in Nat /\ v \in Nat /\ n \in Nat
  BY <1>1, Fields
<1>3. /\ b \in Nat /\ c \in Nat /\ CurveTimes(r, 0, n) = b * w + c
      /\ fees * 2 * w * w = (fees * 2) * (w * w)
  BY <1>1, <1>2, CurveFromZero
<1>4. /\ CurveTimes(z, 0, n) = (2 * z.min_price * n) * v + (z.max_price - z.min_price) * (n * n)
      /\ fees * 2 * v * v = (fees * 2) * (v * v)
  BY <1>1, <1>2, CurveFromZero
<1>5. CurveTimes(z, 0, n) = b * v + c
  BY <1>1, <1>4
<1>6. CASE w = 0
  <2>1. n = 0
    BY <1>6
  <2>2. b = 0 /\ c = 0
    BY <1>1, <2>1
  <2> HIDE DEF b, c, v
  <2>3. b * v + c = 0
    BY <1>2, <2>2
  <2>4. (fees * 2) * (v * v) \in Nat
    <3>1. v * v \in Nat /\ fees * 2 \in Nat
      BY <1>2, MulMono
    <3> QED
      BY <3>1, MulMono
  <2>5. fees * 2 * v * v >= CurveTimes(z, 0, n)
    BY <1>4, <1>5, <2>3, <2>4
  <2> QED
    BY <2>5 DEF v
<1>7. CASE w # 0
  <2> HIDE DEF b, c, v, w
  <2>1. fees * 2 \in Nat /\ w \in Nat \ {0} /\ (fees * 2) * (w * w) >= b * w + c
    BY <1>2, <1>3, <1>7 DEF w
  <2>2. (fees * 2) * (v * v) >= b * v + c
    BY <1>1, <1>2, <1>3, <2>1, LargerMarket
  <2>3. fees * 2 * v * v >= CurveTimes(z, 0, n)
    BY <1>4, <1>5, <2>2
  <2> QED
    BY <2>3 DEF v
<1> QED
  BY <1>6, <1>7

LEMMA PaidCurveStays ==
  ASSUME NEW o, IsOrders(o), NEW m, \A k \in Kinds : IsConfigured(m[k]),
         Counted(o, m), PaidCurve(o, m), NEW R \in SUBSET DOMAIN o,
         NEW n, \A k \in Kinds : Later(n[k], m[k])
  PROVE  PaidCurve([i \in R |-> o[i]], n)
<1> DEFINE q == [i \in R |-> o[i]]
<1>1. /\ IsOrders(q) /\ DOMAIN q = R /\ \A i \in R : q[i] = o[i]
      /\ \A S \in SUBSET R, k \in Kinds : Sold(q, S, k) = Sold(o, S, k) /\ Paid(q, S, k) = Paid(o, S, k)
  BY PartOfTable
<1> HIDE DEF q
<1>2. ASSUME NEW k \in Kinds, NEW S \in SUBSET Bought(q), S # {}
      PROVE  Paid(q, S, k) * 2 * n[k].weight * n[k].weight >= CurveTimes(n[k], 0, Sold(q, S, k))
  <2>1. S \in SUBSET R /\ S \in SUBSET Bought(o) /\ S \in SUBSET DOMAIN o
    BY <1>1 DEF Bought
  <2>2. Paid(o, S, k) * 2 * m[k].weight * m[k].weight >= CurveTimes(m[k], 0, Sold(o, S, k))
    BY <1>2, <2>1 DEF PaidCurve
  <2>3. Sold(o, S, k) \in Nat /\ Paid(o, S, k) \in Nat /\ Sold(o, S, k) <= Sold(o, DOMAIN o, k)
    BY <2>1, PartType, PartIsLess
  <2>4. Sold(o, S, k) \in 0..m[k].weight
    <3>1. Sold(o, DOMAIN o, k) = m[k].utilization /\ m[k].utilization \in 0..m[k].weight
      BY DEF Counted
    <3>2. m[k].weight \in Nat
      BY Fields DEF IsConfigured
    <3> QED
      BY <2>3, <3>1, <3>2
  <2>5. Paid(o, S, k) * 2 * n[k].weight * n[k].weight >= CurveTimes(n[k], 0, Sold(o, S, k))
    BY <2>2, <2>3, <2>4, PaidStays
  <2> QED
    BY <1>1, <2>1, <2>5
<1>3. PaidCurve(q, n)
  BY <1>2 DEF PaidCurve
<1> QED
  BY <1>3 DEF q
\* What process_powerup_queue leaves for the rest of the action: the reserve account still is to
\* receive what has become available.
LEMMA QueueProcessed ==
  ASSUME IInv, exists, NEW kept \in Kept, NEW max \in Nat
  PROVE  LET o == Remaining(max)
             m == MarketAfter(kept, max)
             t == Returned(Rows, Due(max))
         IN  /\ IsOrders(o) /\ m \in [Kinds -> powerup_state_resource]
             /\ \A k \in Kinds : Later(m[k], market[k])
             /\ Counted(o, m) /\ PaidCurve(o, m)
             /\ RowsFollow(t)
             /\ Available(kept, max) \in [Kinds -> Int]
             /\ Held(o, m, t.totals, Available(kept, max))
<1> DEFINE D == Due(max)
           R == DOMAIN orders \ D
           o == [i \in R |-> orders[i]]
           m == MarketAfter(kept, max)
           t == Returned(Rows, D)
           av == Available(kept, max)
<1>1. /\ IsOrders(orders) /\ now \in Nat /\ \A k \in Kinds : IsConfigured(market[k]) /\ Within(market[k])
      /\ \A k \in Kinds : market[k].utilization = Sold(orders, DOMAIN orders, k)
  BY DEF IInv, TypeOK, IsOrders, Counted, Within
<1>2. D \in SUBSET DOMAIN orders /\ R \in SUBSET DOMAIN orders /\ D \in SUBSET DOMAIN orders
  BY DEF Due
<1>3. Remaining(max) = o
  BY DEF Remaining
<1>4. \A k \in Kinds : Weight(D)[k] = Sold(orders, D, k)
  BY WeightIsSold
<1> HIDE DEF D
<1>5. /\ IsOrders(o) /\ DOMAIN o = R /\ \A i \in R : o[i] = orders[i]
      /\ \A S \in SUBSET R, k \in Kinds : Sold(o, S, k) = Sold(orders, S, k) /\ Paid(o, S, k) = Paid(orders, S, k)
  BY <1>1, <1>2, PartOfTable
<1>6. ASSUME NEW k \in Kinds
      PROVE  Later(m[k], market[k]) /\ m[k].utilization = market[k].utilization - Sold(orders, D, k)
  <2> DEFINE r == market[k]
             x == update_utilization(r, kept[k])
             n == Weight(D)[k]
             y == [x EXCEPT !.utilization = x.utilization - n]
             z == update_weight(y)
  <2>1. IsConfigured(r) /\ Within(r)
    BY <1>1
  <2>2. kept[k] \in IF now > r.utilization_timestamp /\ r.utilization < r.adjusted_utilization
                    THEN 0..(r.adjusted_utilization - r.utilization) ELSE {0}
    BY DEF Kept, Decays
  <2>3. m[k] = z
    BY DEF MarketAfter, D
  <2>4. n = Sold(orders, D, k) /\ n \in 0..r.utilization
    <3>1. Sold(orders, D, k) \in Nat /\ Sold(orders, D, k) <= Sold(orders, DOMAIN orders, k)
      BY <1>1, <1>2, PartType, PartIsLess
    <3>2. r.utilization \in Nat
      BY <2>1, Fields DEF IsConfigured
    <3> QED
      BY <1>1, <1>4, <3>1, <3>2
  <2> HIDE DEF r, n, m
  <2>5. Later(x, r) /\ x.utilization = r.utilization /\ x.weight = r.weight
    BY <1>1, <2>1, <2>2, Decayed
  <2> HIDE DEF x
  <2>6. IsConfigured(x) /\ Within(x) /\ x.utilization - n \in 0..x.weight
    <3>1. x.weight \in Nat /\ x.utilization \in Nat
      BY <2>5, Fields DEF Later, IsConfigured
    <3> QED
      BY <2>4, <2>5, <3>1 DEF Later, Within
  <2>7. Later(y, x) /\ y.utilization = x.utilization - n /\ y.weight = x.weight
    BY <2>6, Utilized
  <2> HIDE DEF y
  <2>8. Later(z, y) /\ z.utilization = y.utilization
    BY <1>1, <2>7, Grown DEF Later
  <2> HIDE DEF z
  <2>9. Later(z, r)
    BY <2>5, <2>7, <2>8 DEF Later
  <2> QED
    BY <2>3, <2>4, <2>5, <2>7, <2>8, <2>9 DEF r
<1>7. m \in [Kinds -> powerup_state_resource]
  BY <1>6 DEF MarketAfter, Later, IsConfigured
<1>8. Counted(o, m)
  <2>1. ASSUME NEW k \in Kinds
        PROVE  m[k].utilization = Sold(o, R, k)
    <3>1. Sold(orders, R, k) = Sold(orders, DOMAIN orders, k) - Sold(orders, D, k)
      BY <1>1, <1>2, PartIsLess
    <3> QED
      BY <1>1, <1>5, <1>6, <3>1
  <2> QED
    BY <1>5, <1>6, <2>1 DEF Counted, Later, Within
<1>9. PaidCurve(o, m)
  <2>1. \A k \in Kinds : IsConfigured(market[k]) /\ Later(m[k], market[k])
    BY <1>1, <1>6
  <2>2. Counted(orders, market) /\ PaidCurve(orders, market)
    BY DEF IInv
  <2> HIDE DEF m, R
  <2> QED
    BY <1>1, <1>2, <2>1, <2>2, PaidCurveStays
<1>10. /\ RowsFollow(t)
       /\ \A a \in Accounts, k \in Kinds :
              t.totals[a][k] = totals[a][k] - Sold(orders, D \cap Owned(orders, a), k)
  <2>1. RowsFollow(Rows) /\ Rows.totals = totals
    BY DEF IInv, Rows
  <2> QED
    BY <1>1, <1>2, <2>1, ReturnedRows
<1>11. /\ av \in [Kinds -> Int]
       /\ \A k \in Kinds : av[k] = Sold(orders, D, k) + (m[k].weight - market[k].weight)
  <2>1. Weight(D) \in [Kinds -> Int]
    <3>1. \A k \in Kinds : Weight(D)[k] \in Int
      BY <1>1, <1>2, <1>4, PartType
    <3> QED
      BY <3>1 DEF Weight
  <2>2. /\ Weights(m) \in [Kinds -> Int] /\ Weights(market) \in [Kinds -> Int]
        /\ \A k \in Kinds : Weights(m)[k] = m[k].weight /\ Weights(market)[k] = market[k].weight
    <3>1. \A k \in Kinds : m[k].weight \in Int /\ market[k].weight \in Int
      <4>1. ASSUME NEW k \in Kinds PROVE m[k] \in powerup_state_resource /\ market[k] \in powerup_state_resource
        BY <1>1, <1>7 DEF IsConfigured
      <4> QED
        BY <4>1, Fields
    <3> HIDE DEF m
    <3> QED
      BY <3>1 DEF Weights
  <2>3. av = Weight(D) ++ (Weights(m) -- Weights(market))
    BY DEF Available, D
  <2> HIDE DEF m, av
  <2>4. /\ Weights(m) -- Weights(market) \in [Kinds -> Int]
        /\ \A k \in Kinds : (Weights(m) -- Weights(market))[k] = m[k].weight - market[k].weight
    BY <2>2, Deltas
  <2> QED
    BY <1>4, <2>1, <2>3, <2>4, Deltas
<1>12. Held(o, m, t.totals, av)
  <2> SUFFICES ASSUME NEW a \in Accounts, NEW k \in Kinds
               PROVE  t.totals[a][k] = lent[a][k] + Sold(o, Owned(o, a), k)
                       + IF a = reserve_account THEN m[k].weight - m[k].utilization - av[k] ELSE 0
    BY DEF Held
  <2> DEFINE mine == Owned(orders, a)
             gone == D \cap mine
  <2>1. mine \in SUBSET DOMAIN orders /\ gone \in SUBSET mine /\ Owned(o, a) = mine \ gone /\ mine \ gone \in SUBSET R
    BY <1>2, <1>5 DEF Owned
  <2>2. Sold(o, Owned(o, a), k) = Sold(orders, mine, k) - Sold(orders, gone, k)
    <3>1. Sold(o, mine \ gone, k) = Sold(orders, mine \ gone, k)
      BY <1>5, <2>1
    <3>2. Sold(orders, mine \ gone, k) = Sold(orders, mine, k) - Sold(orders, gone, k)
      BY <1>1, <2>1, PartIsLess
    <3> QED
      BY <2>1, <3>1, <3>2
  <2>3. totals[a][k] = lent[a][k] + Sold(orders, mine, k)
                        + IF a = reserve_account THEN market[k].weight - market[k].utilization - 0 ELSE 0
    BY DEF IInv, Held, Zero
  <2>4. t.totals[a][k] = totals[a][k] - Sold(orders, gone, k)
    BY <1>10
  <2>5. /\ Sold(orders, mine, k) \in Int /\ Sold(orders, gone, k) \in Int /\ Sold(orders, D, k) \in Int
        /\ lent[a][k] \in Int
    <3>1. gone \in SUBSET DOMAIN orders
      BY <2>1
    <3>2. Sold(orders, gone, k) \in Int
      BY <1>1, <3>1, PartType
    <3>3. Sold(orders, mine, k) \in Int /\ Sold(orders, D, k) \in Int
      BY <1>1, <1>2, <2>1, PartType
    <3> QED
      BY <3>2, <3>3 DEF IInv, TypeOK, ResourcesTypeOK
  <2>6. /\ market[k].weight \in Int /\ market[k].utilization \in Int /\ m[k].weight \in Int
    BY <1>1, <1>7, Fields DEF IsConfigured
  <2>7. av[k] = Sold(orders, D, k) + (m[k].weight - market[k].weight)
    BY <1>11
  <2>8. m[k].utilization = market[k].utilization - Sold(orders, D, k)
    BY <1>6
  <2> HIDE DEF m, t, av, o, mine, gone
  <2> QED
    BY <2>2, <2>3, <2>4, <2>5, <2>6, <2>7, <2>8
<1> QED
  BY <1>3, <1>5, <1>6, <1>7, <1>8, <1>9, <1>10, <1>11, <1>12 DEF D
-----------------------------------------------------------------------------
(* The actions.                                                            *)

LEMMA InitIInv == Init => IInv
<1> SUFFICES ASSUME Init PROVE IInv
  OBVIOUS
<1> USE PowerUpAssumption, ResourcesAssumption
<1>1. /\ totals = [a \in Accounts |-> Zero] /\ lent = totals
      /\ rows = Accounts \ Natives /\ ramOwners = {} /\ bare = {}
      /\ limits = [a \in Accounts |-> IF a \in rows THEN Zero ELSE NoLimit]
      /\ managed = [a \in Accounts |-> {}] /\ now = 1 /\ exists = FALSE /\ ops = 0
      /\ market = [k \in Kinds |-> DefaultResource] /\ DOMAIN orders = {}
      /\ terms = [powerup_days |-> default_days, min_powerup_fee |-> Unset]
      /\ orders \in [DOMAIN orders -> powerup_order]
  BY DEF Init, ResourcesInit
<1>2. Zero \in [Kinds -> Nat] /\ Zero \in [Kinds -> Int] /\ NoLimit \in [Kinds -> Int] /\ \A k \in Kinds : Zero[k] = 0
  BY DEF Zero, NoLimit
<1>3. DefaultResource \in powerup_state_resource
  BY DEF DefaultResource, powerup_state_resource, Opt
<1>4. IsFiniteSet(DOMAIN orders) /\ IsOrders(orders)
  BY <1>1, FS_EmptySet DEF IsOrders
<1>5. TypeOK
  BY <1>1, <1>2, <1>3, <1>4 DEF TypeOK, ResourcesTypeOK, Opt
<1>6. \A S \in SUBSET DOMAIN orders, k \in Kinds : S = {} /\ Sold(orders, S, k) = 0
  BY <1>1, SumOfNone DEF Sold
<1>7. \A k \in Kinds : market[k].utilization = 0 /\ market[k].adjusted_utilization = 0 /\ market[k].weight = 0
  BY <1>1 DEF DefaultResource
<1>8. Counted(orders, market)
  BY <1>6, <1>7 DEF Counted
<1>9. Held(orders, market, totals, Zero)
  <2>1. ASSUME NEW a \in Accounts, NEW k \in Kinds
        PROVE  totals[a][k] = lent[a][k] + Sold(orders, Owned(orders, a), k)
                 + IF a = reserve_account THEN market[k].weight - market[k].utilization - Zero[k] ELSE 0
    <3>1. Owned(orders, a) \in SUBSET DOMAIN orders
      BY DEF Owned
    <3>2. Sold(orders, Owned(orders, a), k) = 0
      BY <1>6, <3>1
    <3>3. totals[a][k] = 0 /\ lent[a][k] = 0
      BY <1>1, <1>2
    <3> QED
      BY <1>2, <1>7, <3>2, <3>3
  <2> QED
    BY <2>1 DEF Held
<1>10. PaidCurve(orders, market)
  <2>1. Bought(orders) = {}
    BY <1>1 DEF Bought
  <2> QED
    BY <2>1 DEF PaidCurve
<1>11. RowsFollow(Rows)
  <2>1. limits \in [Accounts -> [Kinds -> Int]] /\ \A a \in rows : limits[a] = Zero
    BY <1>1, <1>2
  <2>2. Standing(Rows)
    BY <1>1 DEF Standing, Rows
  <2> QED
    BY <1>1, <1>2, <2>1, <2>2 DEF RowsFollow, Rows
<1> QED
  BY <1>1, <1>5, <1>8, <1>9, <1>10, <1>11 DEF IInv

\* An action that wrote rows that follow each other.
LEMMA Written ==
  ASSUME NEW t, RowsFollow(t), WriteRows(t), managed' = managed, ramOwners' = ramOwners
  PROVE  /\ RowsFollow(Rows)' /\ totals' = t.totals
         /\ rows' \subseteq Accounts /\ ramOwners' \subseteq rows' /\ bare' \subseteq rows'
         /\ totals' \in [Accounts -> [Kinds -> Nat]] /\ limits' \in [Accounts -> [Kinds -> Int]]
<1>1. /\ totals' = t.totals /\ limits' = t.limits /\ \A a \in Accounts, k \in Kinds : t.totals[a][k] >= 0
      /\ t.totals \in [Accounts -> [Kinds -> Int]] /\ t.limits \in [Accounts -> [Kinds -> Int]]
      /\ rows' = t.rows /\ bare' = t.bare /\ Standing(t)
  BY DEF WriteRows, Sufficient, RowsFollow
<1>2. totals' \in [Accounts -> [Kinds -> Nat]]
  <2>1. ASSUME NEW a \in Accounts PROVE t.totals[a] \in [Kinds -> Nat]
    <3>1. t.totals[a] \in [Kinds -> Int] /\ \A k \in Kinds : t.totals[a][k] >= 0
      BY <1>1
    <3>2. \A k \in Kinds : t.totals[a][k] \in Nat
      BY <3>1
    <3> QED
      BY <3>1, <3>2
  <2> QED
    BY <1>1, <2>1
<1>3. /\ Standing(Rows)'
      /\ rows' \subseteq Accounts /\ ramOwners' \subseteq rows' /\ bare' \subseteq rows'
  BY <1>1 DEF Standing, Rows, Zero
<1>4. RowsFollow(Rows)'
  BY <1>1, <1>3 DEF RowsFollow, Rows, Zero
<1> QED
  BY <1>1, <1>2, <1>3, <1>4

\* What an action on the market has to establish.
LEMMA MarketAction ==
  ASSUME TypeOK, NEW t, RowsFollow(t), WriteRows(t), IsOrders(orders'),
         market' \in [Kinds -> powerup_state_resource], \A k \in Kinds : IsConfigured(market'[k]),
         Counted(orders', market'), PaidCurve(orders', market'), Held(orders', market', t.totals, Zero),
         exists' = TRUE, terms' \in [powerup_days : Nat, min_powerup_fee : Opt(Nat)],
         Budget, now' = now, managed' = managed, lent' = lent, ramOwners' = ramOwners
  PROVE  IInv'
<1>1. /\ RowsFollow(Rows)' /\ totals' = t.totals
      /\ rows' \subseteq Accounts /\ ramOwners' \subseteq rows' /\ bare' \subseteq rows'
      /\ totals' \in [Accounts -> [Kinds -> Nat]] /\ limits' \in [Accounts -> [Kinds -> Int]]
  BY Written
<1>2. now' \in Nat /\ ops' \in Nat
  BY DEF TypeOK, Budget
<1>3. TypeOK'
  BY <1>1, <1>2 DEF TypeOK, ResourcesTypeOK, IsOrders
<1>4. \A k \in Kinds : IsConfigured(market[k])'
  BY DEF IsConfigured, RatioNow
<1>5. Counted(orders, market)' /\ PaidCurve(orders, market)'
  BY DEF Counted, PaidCurve, Sold, Paid, Rate, Fees, Bought, CurveTimes
<1>6. Held(orders, market, totals, Zero)'
  BY <1>1 DEF Held, Sold, Rate, Owned, Zero
<1> QED
  BY <1>1, <1>3, <1>4, <1>5, <1>6 DEF IInv

\* The reserve account receives what the tables still owe it.
LEMMA ReserveReceives ==
  ASSUME TypeOK, NEW o, IsOrders(o), NEW m \in [Kinds -> powerup_state_resource], NEW t, RowsFollow(t),
         NEW more \in [Kinds -> Int], Held(o, m, t.totals, more)
  PROVE  LET u == adjust_resources(t, reserve_account, more)
         IN  RowsFollow(u) /\ Held(o, m, u.totals, Zero)
<1> DEFINE u == adjust_resources(t, reserve_account, more)
<1>1. reserve_account \in Accounts
  BY DEF Accounts
<1>2. /\ RowsFollow(u)
      /\ \A a \in Accounts, k \in Kinds :
             u.totals[a][k] = t.totals[a][k] + IF a = reserve_account THEN more[k] ELSE 0
  BY <1>1, Adjusted
<1> HIDE DEF u
<1>3. ASSUME NEW a \in Accounts, NEW k \in Kinds
      PROVE  u.totals[a][k] = lent[a][k] + Sold(o, Owned(o, a), k)
               + IF a = reserve_account THEN m[k].weight - m[k].utilization - Zero[k] ELSE 0
  <2>1. t.totals[a][k] = lent[a][k] + Sold(o, Owned(o, a), k)
          + IF a = reserve_account THEN m[k].weight - m[k].utilization - more[k] ELSE 0
    BY DEF Held
  <2>2. u.totals[a][k] = t.totals[a][k] + IF a = reserve_account THEN more[k] ELSE 0
    BY <1>2
  <2>3. Owned(o, a) \in SUBSET DOMAIN o
    BY DEF Owned
  <2>4. /\ Sold(o, Owned(o, a), k) \in Int /\ more[k] \in Int /\ lent[a][k] \in Int
        /\ m[k].weight \in Int /\ m[k].utilization \in Int /\ Zero[k] = 0
    <3>1. Sold(o, Owned(o, a), k) \in Int
      BY <2>3, PartType
    <3>2. m[k].weight \in Int /\ m[k].utilization \in Int
      BY Fields
    <3> QED
      BY <3>1, <3>2 DEF TypeOK, ResourcesTypeOK, Zero
  <2> QED
    BY <2>1, <2>2, <2>4
<1>4. Held(o, m, u.totals, Zero)
  BY <1>3 DEF Held
<1> QED
  BY <1>2, <1>4 DEF u

LEMMA ExecIInv ==
  ASSUME IInv, NEW max \in ExecMax, powerupexec(max)
  PROVE  IInv'
<1>1. PICK kept \in Kept :
        /\ WriteRows(adjust_resources(Returned(Rows, Due(max)), reserve_account, Available(kept, max)))
        /\ market' = MarketAfter(kept, max)
  BY DEF powerupexec
<1>2. max \in Nat /\ exists = TRUE
  BY PowerUpAssumption DEF powerupexec, IInv, TypeOK
<1> DEFINE o == Remaining(max)
           m == MarketAfter(kept, max)
           t == Returned(Rows, Due(max))
           av == Available(kept, max)
           u == adjust_resources(t, reserve_account, av)
<1>3. /\ IsOrders(o) /\ m \in [Kinds -> powerup_state_resource]
      /\ \A k \in Kinds : Later(m[k], market[k])
      /\ Counted(o, m) /\ PaidCurve(o, m)
      /\ RowsFollow(t)
      /\ av \in [Kinds -> Int]
      /\ Held(o, m, t.totals, av)
  BY <1>2, QueueProcessed
<1>4. orders' = o /\ market' = m /\ WriteRows(u)
  BY <1>1 DEF powerupexec
<1> HIDE DEF o, m, t, av
<1>5. TypeOK
  BY DEF IInv
<1>6. RowsFollow(u) /\ Held(o, m, u.totals, Zero)
  BY <1>3, <1>5, ReserveReceives
<1>7. \A k \in Kinds : IsConfigured(m[k])
  BY <1>3 DEF Later
<1>8. /\ exists' = TRUE /\ terms' \in [powerup_days : Nat, min_powerup_fee : Opt(Nat)]
      /\ Budget /\ now' = now /\ managed' = managed /\ lent' = lent /\ ramOwners' = ramOwners
  BY <1>2, <1>5 DEF powerupexec, TypeOK
<1> HIDE DEF u
<1> QED
  BY <1>3, <1>4, <1>5, <1>6, <1>7, <1>8, MarketAction
\* One more order on top of others that have paid.
LEMMA CurveExtends ==
  ASSUME NEW r \in powerup_state_resource, r.max_price \in Nat, r.min_price \in 0..r.max_price,
         NEW p \in Nat, NEW n \in 0..r.utilization, NEW fee \in Nat, NEW x \in Nat,
         p * 2 * r.weight * r.weight >= CurveTimes(r, 0, n),
         fee * 2 * r.weight * r.weight >= CurveTimes(r, r.utilization, r.utilization + x)
  PROVE  (p + fee) * 2 * r.weight * r.weight >= CurveTimes(r, 0, n + x)
<1> DEFINE w == r.weight
           u == r.utilization
           m == 2 * r.min_price * r.weight
           d == r.max_price - r.min_price
<1>1. w \in Nat /\ u \in Nat /\ n \in Nat /\ n <= u /\ n + x \in Nat /\ u + x \in Nat /\ n <= n + x /\ 0 <= n
  BY Fields
<1>2. /\ m \in Nat /\ d \in Nat
      /\ CurveTimes(r, 0, n) = Curve(m, d, 0, n) /\ CurveTimes(r, 0, n + x) = Curve(m, d, 0, n + x)
      /\ CurveTimes(r, u, u + x) = Curve(m, d, u, u + x)
  BY <1>1, CurveIs
<1> HIDE DEF w, u, m, d
<1>3. Curve(m, d, 0, n) + Curve(m, d, n, n + x) = Curve(m, d, 0, n + x)
      /\ Curve(m, d, 0, n) \in Nat /\ Curve(m, d, n, n + x) \in Nat
  BY <1>1, <1>2, CurveAdds
<1>4. Curve(m, d, n, n + x) <= Curve(m, d, u, u + x)
  BY <1>1, <1>2, CurveRises
<1>5. Curve(m, d, u, u + x) \in Nat
  BY <1>1, <1>2, CurveSteps
<1>6. (p + fee) * 2 * w * w = p * 2 * w * w + fee * 2 * w * w
  BY <1>1
<1>7. p * 2 * w * w \in Int /\ fee * 2 * w * w \in Int
  BY <1>1
<1>8. (p + fee) * 2 * w * w >= Curve(m, d, 0, n + x)
  <2>1. p * 2 * w * w >= Curve(m, d, 0, n) /\ fee * 2 * w * w >= Curve(m, d, u, u + x)
    BY <1>2 DEF w, u
  <2> QED
    BY <1>3, <1>4, <1>5, <1>6, <1>7, <2>1
<1> QED
  BY <1>2, <1>8 DEF w

\* The markets after a purchase of amount.
Utilize(m, amount) == [k \in Kinds |-> [m[k] EXCEPT !.utilization = @ + amount[k]]]

\* What the market m sells as the order row, in the table o.
LEMMA OrderSold ==
  ASSUME TypeOK, NEW o, IsOrders(o), NEW m \in [Kinds -> powerup_state_resource],
         \A k \in Kinds : IsConfigured(m[k]), Counted(o, m), PaidCurve(o, m),
         NEW row \in powerup_order, row.current = TRUE,
         \A k \in Kinds : /\ m[k].utilization + row.weight[k] <= m[k].weight
                          /\ row.paid[k] = calc_powerup_fee(m[k], row.weight[k])
  PROVE  LET q == Emplace(o, row)
             n == Utilize(m, row.weight)
         IN  /\ IsOrders(q) /\ n \in [Kinds -> powerup_state_resource]
             /\ \A k \in Kinds : IsConfigured(n[k]) /\ n[k].weight = m[k].weight
                                   /\ n[k].utilization = m[k].utilization + row.weight[k]
             /\ Counted(q, n) /\ PaidCurve(q, n)
<1> DEFINE q == Emplace(o, row)
           id == available_primary_key(o)
           n == Utilize(m, row.weight)
<1>1. /\ IsOrders(q) /\ id \notin DOMAIN o
      /\ DOMAIN q = DOMAIN o \cup {id}
      /\ q[id] = row /\ \A i \in DOMAIN o : q[i] = o[i]
      /\ \A S \in SUBSET DOMAIN o, k \in Kinds :
             /\ Sold(q, S, k) = Sold(o, S, k) /\ Paid(q, S, k) = Paid(o, S, k)
             /\ Sold(q, S \cup {id}, k) = Sold(o, S, k) + row.weight[k]
             /\ Paid(q, S \cup {id}, k) = Paid(o, S, k) + row.paid[k]
  BY Emplaced
<1> HIDE DEF q, id
<1>2. \A k \in Kinds : row.weight[k] \in Nat /\ row.paid[k] \in Nat
  BY DEF powerup_order
<1>3. ASSUME NEW k \in Kinds
      PROVE  /\ Later(n[k], m[k]) /\ n[k].weight = m[k].weight
             /\ n[k].utilization = m[k].utilization + row.weight[k]
  <2> DEFINE r == m[k]
             v == r.utilization + row.weight[k]
  <2>1. r \in powerup_state_resource /\ IsConfigured(r) /\ Within(r)
    BY DEF Counted, Within
  <2>2. v \in 0..r.weight
    BY <1>2, <2>1, Fields
  <2>3. n[k] = [r EXCEPT !.utilization = v]
    BY DEF Utilize
  <2> HIDE DEF r, v, n
  <2>4. Later([r EXCEPT !.utilization = v], r) /\ [r EXCEPT !.utilization = v].utilization = v
          /\ [r EXCEPT !.utilization = v].weight = r.weight
    BY <2>1, <2>2, Utilized
  <2> QED
    BY <2>3, <2>4 DEF r, v
<1>4. n \in [Kinds -> powerup_state_resource]
  BY <1>3 DEF Later, IsConfigured, Utilize
<1> HIDE DEF n
<1>5. Counted(q, n)
  <2>1. ASSUME NEW k \in Kinds PROVE n[k].utilization = Sold(q, DOMAIN q, k)
    <3>1. m[k].utilization = Sold(o, DOMAIN o, k)
      BY DEF Counted
    <3>2. Sold(q, DOMAIN o \cup {id}, k) = Sold(o, DOMAIN o, k) + row.weight[k]
      BY <1>1
    <3> QED
      BY <1>1, <1>3, <3>1, <3>2
  <2> QED
    BY <1>3, <2>1 DEF Counted, Later, Within
<1>6. ASSUME NEW k \in Kinds, NEW S \in SUBSET Bought(q), S # {}
      PROVE  Paid(q, S, k) * 2 * n[k].weight * n[k].weight >= CurveTimes(n[k], 0, Sold(q, S, k))
  <2> DEFINE T == S \ {id}
             r == m[k]
             x == row.weight[k]
  <2>1. T \in SUBSET DOMAIN o /\ T \in SUBSET Bought(o)
    BY <1>1 DEF Bought
  <2>2. Sold(o, T, k) \in Nat /\ Paid(o, T, k) \in Nat /\ Sold(o, T, k) <= Sold(o, DOMAIN o, k)
    BY <2>1, PartType, PartIsLess
  <2>3. /\ r \in powerup_state_resource /\ r.max_price \in Nat /\ r.min_price \in 0..r.max_price
        /\ r.utilization = Sold(o, DOMAIN o, k)
    BY DEF IsConfigured, Counted
  <2>4. Sold(o, T, k) \in 0..r.utilization
    BY <2>2, <2>3, Fields
  <2>5. Paid(o, T, k) * 2 * r.weight * r.weight >= CurveTimes(r, 0, Sold(o, T, k))
    <3>1. CASE T # {}
      BY <2>1, <3>1 DEF PaidCurve
    <3>2. CASE T = {}
      <4>1. Sold(o, T, k) = 0 /\ Paid(o, T, k) = 0
        BY <3>2, SumOfNone DEF Sold, Paid
      <4>2. CurveTimes(r, 0, 0) = (2 * r.min_price * 0) * r.weight + (r.max_price - r.min_price) * (0 * 0)
        BY <2>3, CurveFromZero
      <4>3. CurveTimes(r, 0, 0) = 0 /\ 0 * 2 * r.weight * r.weight = 0
        <5>1. r.weight \in Nat /\ r.min_price \in Nat
          BY <2>3, Fields
        <5> HIDE DEF r
        <5> QED
          BY <2>3, <4>2, <5>1
      <4> QED
        BY <4>1, <4>3
    <3> QED
      BY <3>1, <3>2
  <2>6. \A c : CurveTimes(n[k], 0, c) = CurveTimes(r, 0, c)
    BY <1>3 DEF CurveTimes, Later
  <2>7. CASE id \notin S
    <3>1. S = T
      BY <2>7
    <3>2. Sold(q, T, k) = Sold(o, T, k) /\ Paid(q, T, k) = Paid(o, T, k)
      <4> HIDE DEF T
      <4> QED
        BY <1>1, <2>1
    <3>3. n[k].weight = r.weight
      BY <1>3
    <3> HIDE DEF r, T
    <3> QED
      BY <2>5, <2>6, <3>1, <3>2, <3>3
  <2>8. CASE id \in S
    <3>1. S = T \cup {id}
      BY <2>8
    <3>2. Sold(q, S, k) = Sold(o, T, k) + x /\ Paid(q, S, k) = Paid(o, T, k) + row.paid[k]
      BY <1>1, <2>1, <3>1
    <3>3. x \in Nat /\ row.paid[k] \in Nat /\ row.paid[k] = calc_powerup_fee(r, x) /\ r.utilization + x <= r.weight
      BY <1>2
    <3>4. x = 0 \/ r.weight > 0
      <4>1. r.utilization \in Nat /\ r.weight \in Nat
        BY <2>3, Fields
      <4> HIDE DEF r, x
      <4> QED
        BY <3>3, <4>1
    <3> HIDE DEF r, x, T
    <3>5. row.paid[k] * 2 * r.weight * r.weight >= CurveTimes(r, r.utilization, r.utilization + x)
      BY <2>3, <3>3, <3>4, FeeIsEnough
    <3>6. (Paid(o, T, k) + row.paid[k]) * 2 * r.weight * r.weight >= CurveTimes(r, 0, Sold(o, T, k) + x)
      BY <2>2, <2>3, <2>4, <2>5, <3>3, <3>5, CurveExtends
    <3> QED
      BY <1>3, <2>6, <3>2, <3>6 DEF r
  <2> QED
    BY <2>7, <2>8
<1>7. PaidCurve(q, n)
  BY <1>6 DEF PaidCurve
<1>8. \A k \in Kinds : IsConfigured(n[k])
  BY <1>3 DEF Later
<1> QED
  BY <1>1, <1>3, <1>4, <1>5, <1>7, <1>8 DEF q, n
LEMMA PowerupIInv ==
  ASSUME IInv, NEW receiver \in Accounts, NEW frac \in [Kinds -> Fracs], powerup(receiver, frac)
  PROVE  IInv'
<1> DEFINE o == Remaining(QueueMax)
           m(kept) == MarketAfter(kept, QueueMax)
           t == Returned(Rows, Due(QueueMax))
           amt(kept) == [k \in Kinds |-> (frac[k] * m(kept)[k].weight) \div powerup_frac]
           av(kept) == Available(kept, QueueMax)
<1>1. PICK kept \in Kept : Purchase(receiver, frac, m(kept), t, amt(kept), av(kept))
  BY DEF powerup
<1> DEFINE mm == m(kept)
           amount == amt(kept)
           avail == av(kept)
           fee == [k \in Kinds |-> calc_powerup_fee(mm[k], amount[k])]
           row == NewOrder(receiver, amount, fee)
           q == Emplace(o, row)
           n == Utilize(mm, amount)
           s == adjust_resources(t, receiver, amount)
           more == avail -- amount
           u == adjust_resources(s, reserve_account, more)
<1>2. /\ \A k \in Kinds : frac[k] > 0 => mm[k].weight > 0 /\ mm[k].utilization + amount[k] <= mm[k].weight
      /\ orders' = q /\ market' = n /\ WriteRows(u)
  BY <1>1 DEF Purchase, Utilize
<1>3. /\ TypeOK /\ QueueMax \in Nat /\ exists = TRUE
      /\ Budget /\ exists' = exists /\ now' = now /\ terms' = terms /\ managed' = managed /\ lent' = lent /\ ramOwners' = ramOwners
  BY PowerUpAssumption DEF powerup, IInv, TypeOK
<1>4. /\ IsOrders(o) /\ mm \in [Kinds -> powerup_state_resource]
      /\ \A k \in Kinds : Later(mm[k], market[k])
      /\ Counted(o, mm) /\ PaidCurve(o, mm)
      /\ RowsFollow(t)
      /\ avail \in [Kinds -> Int]
      /\ Held(o, mm, t.totals, avail)
  BY <1>3, QueueProcessed
<1> HIDE DEF o, m, t, av
<1>5. ASSUME NEW k \in Kinds
      PROVE  /\ amount[k] \in Nat /\ mm[k].utilization + amount[k] <= mm[k].weight
             /\ fee[k] = calc_powerup_fee(mm[k], amount[k]) /\ fee[k] \in Nat
  <2> DEFINE r == mm[k]
             x == amount[k]
  <2>1. /\ r \in powerup_state_resource /\ r.weight \in Nat /\ r.utilization \in 0..r.weight
        /\ r.max_price \in Nat /\ r.min_price \in 0..r.max_price
    BY <1>4, Fields DEF Counted, Later, IsConfigured
  <2>2. frac[k] \in Nat /\ powerup_frac \in Nat \ {0}
    <3>1. powerup_frac \in Nat \ {0} /\ Fracs \subseteq 0..powerup_frac
      BY PowerUpAssumption
    <3>2. frac[k] \in Fracs
      OBVIOUS
    <3>3. \A f \in 0..powerup_frac : f \in Nat
      BY <3>1
    <3> QED
      BY <3>1, <3>2, <3>3
  <2>3. x = (frac[k] * r.weight) \div powerup_frac
    OBVIOUS
  <2>4. frac[k] > 0 => r.weight > 0 /\ r.utilization + x <= r.weight
    BY <1>2
  <2>5. fee[k] = calc_powerup_fee(r, x)
    OBVIOUS
  <2> HIDE DEF r, x, fee, amt
  <2>6. x \in Nat
    <3>1. frac[k] * r.weight \in Nat
      BY <2>1, <2>2, MulMono
    <3> QED
      BY <2>2, <2>3, <3>1, DivBounds
  <2>7. frac[k] = 0 => x = 0
    <3>1. frac[k] = 0 => frac[k] * r.weight = 0
      BY <2>1
    <3>2. 0 \div powerup_frac = 0
      BY <2>2
    <3> QED
      BY <2>3, <3>1, <3>2
  <2>8. (x = 0 \/ r.weight > 0) /\ r.utilization + x <= r.weight
    BY <2>1, <2>2, <2>4, <2>6, <2>7
  <2>9. fee[k] \in Nat
    BY <2>1, <2>5, <2>6, <2>8, FeeIsEnough
  <2> QED
    BY <2>5, <2>6, <2>8, <2>9 DEF r, x
<1>6. amount \in [Kinds -> Nat] /\ fee \in [Kinds -> Nat] /\ amount \in [Kinds -> Int]
  BY <1>5
<1> HIDE DEF fee, amt, mm, amount, avail
<1>7. /\ row \in powerup_order /\ row.weight = amount /\ row.paid = fee /\ row.current = TRUE
      /\ row.owner = receiver
  <2>1. now + terms.powerup_days \in Nat
    BY <1>3 DEF TypeOK
  <2> QED
    BY <1>6, <2>1 DEF NewOrder, powerup_order
<1> HIDE DEF row
<1>8. /\ IsOrders(q) /\ n \in [Kinds -> powerup_state_resource]
      /\ \A k \in Kinds : IsConfigured(n[k]) /\ n[k].weight = mm[k].weight
                            /\ n[k].utilization = mm[k].utilization + amount[k]
      /\ Counted(q, n) /\ PaidCurve(q, n)
  <2>1. \A k \in Kinds : IsConfigured(mm[k])
    BY <1>4 DEF Later
  <2>2. \A k \in Kinds : /\ mm[k].utilization + row.weight[k] <= mm[k].weight
                         /\ row.paid[k] = calc_powerup_fee(mm[k], row.weight[k])
    BY <1>5, <1>7
  <2> DEFINE nn == Utilize(mm, row.weight)
  <2>3. n = nn
    BY <1>7
  <2>4. IsOrders(o) /\ mm \in [Kinds -> powerup_state_resource] /\ Counted(o, mm) /\ PaidCurve(o, mm)
    BY <1>4
  <2>5. TypeOK /\ row \in powerup_order /\ row.current = TRUE
    BY <1>3, <1>7
  <2>6. /\ IsOrders(q) /\ nn \in [Kinds -> powerup_state_resource]
        /\ \A k \in Kinds : IsConfigured(nn[k]) /\ nn[k].weight = mm[k].weight
                              /\ nn[k].utilization = mm[k].utilization + row.weight[k]
        /\ Counted(q, nn) /\ PaidCurve(q, nn)
    BY <2>1, <2>2, <2>4, <2>5, OrderSold
  <2> HIDE DEF n, nn
  <2> QED
    BY <1>7, <2>3, <2>6
<1>9. /\ RowsFollow(s)
      /\ \A a \in Accounts, k \in Kinds : s.totals[a][k] = t.totals[a][k] + IF a = receiver THEN amount[k] ELSE 0
  BY <1>4, <1>6, Adjusted
<1>10. more \in [Kinds -> Int] /\ \A k \in Kinds : more[k] = avail[k] - amount[k]
  BY <1>4, <1>6, Deltas
<1> HIDE DEF s, more, n
<1>11. Held(q, n, s.totals, more)
  <2> SUFFICES ASSUME NEW a \in Accounts, NEW k \in Kinds
               PROVE  s.totals[a][k] = lent[a][k] + Sold(q, Owned(q, a), k)
                       + IF a = reserve_account THEN n[k].weight - n[k].utilization - more[k] ELSE 0
    BY DEF Held
  <2> DEFINE id == available_primary_key(o)
             mine == Owned(o, a)
  <2>1. /\ id \notin DOMAIN o /\ DOMAIN q = DOMAIN o \cup {id}
        /\ q[id] = row /\ \A i \in DOMAIN o : q[i] = o[i]
        /\ \A S \in SUBSET DOMAIN o :
               /\ Sold(q, S, k) = Sold(o, S, k)
               /\ Sold(q, S \cup {id}, k) = Sold(o, S, k) + row.weight[k]
    <3>1. IsOrders(o) /\ row \in powerup_order
      BY <1>4, <1>7
    <3>2. /\ IsOrders(q) /\ id \notin DOMAIN o
          /\ DOMAIN q = DOMAIN o \cup {id}
          /\ q[id] = row /\ \A i \in DOMAIN o : q[i] = o[i]
          /\ \A S \in SUBSET DOMAIN o, l \in Kinds :
                 /\ Sold(q, S, l) = Sold(o, S, l) /\ Paid(q, S, l) = Paid(o, S, l)
                 /\ Sold(q, S \cup {id}, l) = Sold(o, S, l) + row.weight[l]
                 /\ Paid(q, S \cup {id}, l) = Paid(o, S, l) + row.paid[l]
      BY <3>1, Emplaced, Zenon
    <3> HIDE DEF q, id
    <3> QED
      BY <3>2
  <2> HIDE DEF id
  <2>2. mine \in SUBSET DOMAIN o
    BY DEF Owned
  <2>3. Sold(q, Owned(q, a), k) = Sold(o, mine, k) + IF a = receiver THEN amount[k] ELSE 0
    <3>0. Sold(o, mine, k) \in Nat
      BY <1>4, <2>2, PartType
    <3>1. CASE a = receiver
      <4>1. Owned(q, a) = mine \cup {id}
        BY <1>7, <2>1, <3>1 DEF Owned
      <4> QED
        BY <1>7, <2>1, <2>2, <3>1, <4>1
    <3>2. CASE a # receiver
      <4>1. Owned(q, a) = mine
        BY <1>7, <2>1, <3>2 DEF Owned
      <4>2. Sold(q, mine, k) = Sold(o, mine, k)
        BY <2>1, <2>2
      <4> HIDE DEF q, mine
      <4> QED
        BY <3>0, <3>2, <4>1, <4>2
    <3> QED
      BY <3>1, <3>2
  <2>4. t.totals[a][k] = lent[a][k] + Sold(o, mine, k)
          + IF a = reserve_account THEN mm[k].weight - mm[k].utilization - avail[k] ELSE 0
    BY <1>4 DEF Held
  <2>5. s.totals[a][k] = t.totals[a][k] + IF a = receiver THEN amount[k] ELSE 0
    BY <1>9
  <2>6. /\ n[k].weight = mm[k].weight /\ n[k].utilization = mm[k].utilization + amount[k]
        /\ more[k] = avail[k] - amount[k]
    BY <1>8, <1>10
  <2>7. /\ lent[a][k] \in Int /\ Sold(o, mine, k) \in Int /\ amount[k] \in Int /\ avail[k] \in Int
        /\ mm[k].weight \in Int /\ mm[k].utilization \in Int
    <3>1. Sold(o, mine, k) \in Int
      BY <1>4, <2>2, PartType
    <3>2. mm[k].weight \in Int /\ mm[k].utilization \in Int
      BY <1>4, Fields
    <3>3. lent[a][k] \in Int
      BY <1>3 DEF TypeOK, ResourcesTypeOK
    <3> QED
      BY <1>4, <1>6, <3>1, <3>2, <3>3
  <2> HIDE DEF q, mine
  <2> QED
    BY <2>3, <2>4, <2>5, <2>6, <2>7
<1>12. RowsFollow(u) /\ Held(q, n, u.totals, Zero)
  BY <1>3, <1>8, <1>9, <1>10, <1>11, ReserveReceives
<1>13. terms' \in [powerup_days : Nat, min_powerup_fee : Opt(Nat)]
  BY <1>3 DEF TypeOK
<1> HIDE DEF u, q
<1> QED
  BY <1>2, <1>3, <1>8, <1>12, <1>13, MarketAction
\* The orders once the market is configured anew.
Reset(o) == [i \in DOMAIN o |-> [o[i] EXCEPT !.current = FALSE]]

LEMMA ResetOrders ==
  ASSUME NEW o, IsOrders(o)
  PROVE  LET q == Reset(o)
         IN  /\ IsOrders(q) /\ DOMAIN q = DOMAIN o /\ Bought(q) = {}
             /\ \A a \in Accounts : Owned(q, a) = Owned(o, a)
             /\ \A S \in SUBSET DOMAIN o, k \in Kinds : Sold(q, S, k) = Sold(o, S, k)
<1> DEFINE q == Reset(o)
<1>1. DOMAIN q = DOMAIN o
  BY DEF Reset
<1>2. ASSUME NEW i \in DOMAIN o
      PROVE  /\ q[i] \in powerup_order /\ q[i].current = FALSE
             /\ q[i].owner = o[i].owner /\ q[i].weight = o[i].weight /\ q[i].paid = o[i].paid
  <2>1. o[i] \in powerup_order
    BY DEF IsOrders
  <2>2. q[i] = [o[i] EXCEPT !.current = FALSE]
    BY DEF Reset
  <2> HIDE DEF q
  <2> QED
    BY <2>1, <2>2 DEF powerup_order
<1>3. IsOrders(q)
  <2>1. q \in [DOMAIN q -> powerup_order]
    BY <1>1, <1>2 DEF Reset
  <2> QED
    BY <1>1, <2>1 DEF IsOrders
<1> HIDE DEF q
<1>4. Bought(q) = {} /\ \A a \in Accounts : Owned(q, a) = Owned(o, a)
  BY <1>1, <1>2 DEF Bought, Owned
<1>5. ASSUME NEW S \in SUBSET DOMAIN o, NEW k \in Kinds
      PROVE  Sold(q, S, k) = Sold(o, S, k)
  <2>1. S \subseteq DOMAIN q /\ S \subseteq DOMAIN o /\ \A i \in S : q[i].weight = o[i].weight /\ q[i].paid = o[i].paid
    BY <1>1, <1>2
  <2> QED
    BY <1>3, <2>1, SamePart
<1> QED
  BY <1>1, <1>3, <1>4, <1>5 DEF q

\* The adjusted utilization of a market that was configured to be smaller.
LEMMA CappedMarket ==
  ASSUME NEW r, IsConfigured(r), r.utilization <= r.weight
  PROVE  IsConfigured(Capped(r)) /\ Within(Capped(r)) /\ Capped(r).weight = r.weight /\ Capped(r).utilization = r.utilization
<1> DEFINE v == IF r.weight < r.adjusted_utilization THEN r.weight ELSE r.adjusted_utilization
           z == [r EXCEPT !.adjusted_utilization = v]
<1>1. r \in powerup_state_resource
  BY DEF IsConfigured
<1>2. r.weight \in Nat /\ r.utilization \in Nat /\ v \in 0..r.weight /\ v \in Nat
  BY <1>1, Fields
<1>3. Capped(r) = z
  BY DEF Capped
<1> HIDE DEF v
<1>4. /\ z \in powerup_state_resource
      /\ z.adjusted_utilization = v
      /\ z.utilization = r.utilization /\ z.weight = r.weight /\ z.weight_ratio = r.weight_ratio
      /\ z.assumed_stake_weight = r.assumed_stake_weight
      /\ z.initial_weight_ratio = r.initial_weight_ratio /\ z.target_weight_ratio = r.target_weight_ratio
      /\ z.initial_timestamp = r.initial_timestamp /\ z.target_timestamp = r.target_timestamp
      /\ z.min_price = r.min_price /\ z.max_price = r.max_price
  BY <1>1, <1>2 DEF powerup_state_resource
<1> HIDE DEF z
<1>5. RatioNow(z) = RatioNow(r)
  BY <1>4 DEF RatioNow
<1>6. IsConfigured(z)
  BY <1>4, <1>5 DEF IsConfigured
<1> QED
  BY <1>2, <1>3, <1>4, <1>6 DEF Within

\* Arguments that pass the checks of cfgpowerup, once the defaults are filled in.
LEMMA FilledArguments ==
  ASSUME now \in Nat, NEW r \in powerup_state_resource, NEW c \in KindConfig, ConfigOK(Filled(r, c))
  PROVE  LET f == Filled(r, c)
         IN  /\ f.current_weight_ratio \in 1..powerup_frac /\ f.target_weight_ratio \in 1..powerup_frac
             /\ f.target_weight_ratio <= f.current_weight_ratio
             /\ f.assumed_stake_weight \in Nat /\ f.assumed_stake_weight >= 1 /\ f.target_timestamp \in Nat
             /\ f.max_price \in Nat /\ f.min_price \in 0..f.max_price
<1> DEFINE f == Filled(r, c)
<1>0. powerup_frac \in Nat /\ Unset \notin Int
  BY PowerUpAssumption
<1>1. /\ f.current_weight_ratio \in 1..powerup_frac /\ f.target_weight_ratio \in 1..f.current_weight_ratio
      /\ f.assumed_stake_weight >= 1 /\ f.max_price # Unset /\ f.max_price > 0 /\ f.min_price \in 0..f.max_price
  BY DEF ConfigOK
<1>2. /\ c.assumed_stake_weight \in Int \cup {Unset} /\ c.target_timestamp \in Nat \cup {Unset}
      /\ c.max_price \in Int \cup {Unset}
  BY DEF KindConfig, Opt
<1>3. r.assumed_stake_weight \in Nat /\ r.target_timestamp \in Nat /\ r.max_price \in Nat \cup {Unset}
  BY DEF powerup_state_resource, Opt
<1>4. /\ f.assumed_stake_weight = Given(c.assumed_stake_weight, r.assumed_stake_weight)
      /\ f.target_timestamp \in {now, Given(c.target_timestamp, r.target_timestamp)}
      /\ f.max_price = Given(c.max_price, r.max_price)
  BY DEF Filled
<1> HIDE DEF f
<1>5. f.assumed_stake_weight \in Int /\ f.target_timestamp \in Nat /\ f.max_price \in Int
  BY <1>0, <1>1, <1>2, <1>3, <1>4 DEF Given
<1>6. f.target_weight_ratio \in 1..powerup_frac /\ f.target_weight_ratio <= f.current_weight_ratio
  BY <1>0, <1>1
<1>7. f.assumed_stake_weight \in Nat /\ f.max_price \in Nat
  BY <1>1, <1>5
<1> QED
  BY <1>1, <1>5, <1>6, <1>7 DEF f
LEMMA ConfiguredMarket ==
  ASSUME now \in Nat, NEW r \in powerup_state_resource, NEW c \in KindConfig, ConfigOK(Filled(r, c))
  PROVE  LET z == update_weight(Configured(r, Filled(r, c)))
         IN  IsConfigured(z) /\ z.utilization = r.utilization
<1> DEFINE f == Filled(r, c)
           x == Configured(r, f)
           z == update_weight(x)
<1>1. /\ f.current_weight_ratio \in 1..powerup_frac /\ f.target_weight_ratio \in 1..powerup_frac
      /\ f.target_weight_ratio <= f.current_weight_ratio
      /\ f.assumed_stake_weight \in Nat /\ f.assumed_stake_weight >= 1 /\ f.target_timestamp \in Nat
      /\ f.max_price \in Nat /\ f.min_price \in 0..f.max_price
  BY FilledArguments
<1> HIDE DEF f
<1>2. f.min_price \in Opt(Nat) /\ f.max_price \in Opt(Nat)
  BY <1>1 DEF Opt
<1>3. /\ x \in powerup_state_resource
      /\ x.utilization = r.utilization /\ x.assumed_stake_weight = f.assumed_stake_weight
      /\ x.initial_weight_ratio = f.current_weight_ratio /\ x.target_weight_ratio = f.target_weight_ratio
      /\ x.initial_timestamp = now /\ x.min_price = f.min_price /\ x.max_price = f.max_price
  BY <1>1, <1>2 DEF powerup_state_resource, Configured
<1> HIDE DEF x
<1>4. /\ x.target_weight_ratio <= x.initial_weight_ratio /\ x.initial_timestamp <= now
      /\ x.assumed_stake_weight >= 1 /\ x.max_price \in Nat /\ x.min_price \in 0..x.max_price
  BY <1>1, <1>3
<1>5. IsConfigured(z) /\ z.utilization = x.utilization
  BY <1>3, <1>4, Reweighed
<1> QED
  BY <1>3, <1>5 DEF x, f

LEMMA PresentMarket ==
  ASSUME IInv, NEW kept \in Kept, NEW k \in Kinds
  PROVE  Present(k, kept) \in powerup_state_resource /\ Present(k, kept).utilization = market[k].utilization
<1>1. now \in Nat /\ market[k] \in powerup_state_resource /\ exists \in BOOLEAN
  BY DEF IInv, TypeOK
<1>2. CASE exists
  <2> DEFINE r == market[k]
             x == update_utilization(r, kept[k])
             z == update_weight(x)
  <2>1. IsConfigured(r) /\ Within(r)
    BY <1>2 DEF IInv, Counted, Within
  <2>2. kept[k] \in IF now > r.utilization_timestamp /\ r.utilization < r.adjusted_utilization
                    THEN 0..(r.adjusted_utilization - r.utilization) ELSE {0}
    BY DEF Kept, Decays
  <2>3. Present(k, kept) = z
    BY <1>2 DEF Present
  <2> HIDE DEF r
  <2>4. Later(x, r) /\ x.utilization = r.utilization
    BY <1>1, <2>1, <2>2, Decayed
  <2> HIDE DEF x
  <2>5. Later(z, x) /\ z.utilization = x.utilization
    BY <1>1, <2>4, Grown DEF Later
  <2> HIDE DEF z
  <2> QED
    BY <2>3, <2>4, <2>5 DEF r, Later, IsConfigured
<1>3. CASE ~exists
  <2>1. Present(k, kept) = [market[k] EXCEPT !.utilization_timestamp = now]
    BY <1>3 DEF Present
  <2> QED
    BY <1>1, <2>1 DEF powerup_state_resource
<1> QED
  BY <1>2, <1>3

LEMMA CfgIInv ==
  ASSUME IInv, NEW c \in Configs, cfgpowerup(c)
  PROVE  IInv'
<1> DEFINE p(k, kept) == Present(k, kept)
           f(k, kept) == Filled(p(k, kept), c[k])
           z(k, kept) == update_weight(Configured(p(k, kept), f(k, kept)))
           days == Given(c.powerup_days, terms.powerup_days)
           fee  == Given(c.min_powerup_fee, terms.min_powerup_fee)
           delta == Weights(market') -- Weights(market)
           u == adjust_resources(Rows, reserve_account, delta)
           q == Reset(orders)
<1>1. PICK kept \in Kept :
        /\ days > 0 /\ fee # Unset /\ fee > 0
        /\ \A k \in Kinds : ConfigOK(f(k, kept))
        /\ market' = [k \in Kinds |-> Capped(z(k, kept))]
        /\ \A k \in Kinds : market'[k].weight >= market'[k].utilization
        /\ WriteRows(u)
        /\ terms' = [powerup_days |-> days, min_powerup_fee |-> fee]
  BY DEF cfgpowerup
<1>2. /\ Budget /\ exists' = TRUE /\ orders' = q /\ now' = now /\ managed' = managed /\ lent' = lent /\ ramOwners' = ramOwners
  BY DEF cfgpowerup, Reset
<1>3. /\ TypeOK /\ now \in Nat /\ IsOrders(orders) /\ RowsFollow(Rows) /\ Rows.totals = totals
      /\ market \in [Kinds -> powerup_state_resource]
      /\ terms.powerup_days \in Nat /\ terms.min_powerup_fee \in Nat \cup {Unset}
  BY DEF IInv, TypeOK, IsOrders, Rows, Opt
<1>4. /\ c.powerup_days \in Nat \cup {Unset} /\ c.min_powerup_fee \in Int \cup {Unset}
      /\ \A k \in Kinds : c[k] \in KindConfig
  <2>1. c \in [net : KindConfig, cpu : KindConfig, powerup_days : Opt(Nat), min_powerup_fee : Opt(Int)]
    BY PowerUpAssumption
  <2>2. c.net \in KindConfig /\ c.cpu \in KindConfig /\ c.powerup_days \in Opt(Nat) /\ c.min_powerup_fee \in Opt(Int)
    BY <2>1
  <2> QED
    BY <2>2 DEF Opt, Kinds
<1>5. terms' \in [powerup_days : Nat, min_powerup_fee : Opt(Nat)]
  <2>1. days \in Nat /\ fee \in Nat
    BY <1>1, <1>3, <1>4 DEF Given
  <2> HIDE DEF days, fee
  <2> QED
    BY <1>1, <2>1 DEF Opt
<1>6. ASSUME NEW k \in Kinds
      PROVE  /\ IsConfigured(market'[k]) /\ Within(market'[k])
             /\ market'[k].utilization = market[k].utilization
  <2>1. p(k, kept) \in powerup_state_resource /\ p(k, kept).utilization = market[k].utilization
    BY PresentMarket
  <2>2. ConfigOK(f(k, kept)) /\ c[k] \in KindConfig
    BY <1>1, <1>4
  <2>3. IsConfigured(z(k, kept)) /\ z(k, kept).utilization = market[k].utilization
    <3> HIDE DEF p
    <3> QED
      BY <1>3, <2>1, <2>2, ConfiguredMarket
  <2>4. market'[k] = Capped(z(k, kept)) /\ market'[k].weight >= market'[k].utilization
    BY <1>1
  <2> HIDE DEF z
  <2>5. Capped(z(k, kept)).weight = z(k, kept).weight /\ Capped(z(k, kept)).utilization = z(k, kept).utilization
    BY DEF Capped
  <2>6. z(k, kept).utilization <= z(k, kept).weight
    BY <2>3, <2>4, <2>5, Fields DEF IsConfigured
  <2> QED
    BY <2>3, <2>4, <2>6, CappedMarket
<1>7. market' \in [Kinds -> powerup_state_resource]
  <2>1. \A k \in Kinds : market'[k] \in powerup_state_resource
    BY <1>6 DEF IsConfigured
  <2>2. market' = [k \in Kinds |-> market'[k]]
    BY <1>1
  <2> QED
    BY <2>1, <2>2
<1> HIDE DEF q
<1>8. /\ IsOrders(q) /\ DOMAIN q = DOMAIN orders /\ Bought(q) = {}
      /\ \A a \in Accounts : Owned(q, a) = Owned(orders, a)
      /\ \A S \in SUBSET DOMAIN orders, k \in Kinds : Sold(q, S, k) = Sold(orders, S, k)
  BY <1>3, ResetOrders DEF q
<1>9. Counted(q, market') /\ PaidCurve(q, market')
  <2>1. Counted(orders, market)
    BY DEF IInv
  <2>2. \A k \in Kinds : market'[k].utilization = Sold(q, DOMAIN q, k)
    BY <1>6, <1>8, <2>1 DEF Counted
  <2>3. Counted(q, market')
    BY <1>6, <2>2 DEF Counted, Within
  <2>4. PaidCurve(q, market')
    BY <1>8 DEF PaidCurve
  <2> QED
    BY <2>3, <2>4
<1>10. /\ delta \in [Kinds -> Int]
       /\ \A k \in Kinds : delta[k] = market'[k].weight - market[k].weight
  <2>1. \A k \in Kinds : market'[k].weight \in Int /\ market[k].weight \in Int
    BY <1>3, <1>7, Fields
  <2>2. /\ Weights(market') \in [Kinds -> Int] /\ Weights(market) \in [Kinds -> Int]
        /\ \A k \in Kinds : Weights(market')[k] = market'[k].weight /\ Weights(market)[k] = market[k].weight
    BY <2>1 DEF Weights
  <2> QED
    BY <2>2, Deltas
<1> HIDE DEF delta
<1>11. Held(q, market', totals, delta)
  <2> SUFFICES ASSUME NEW a \in Accounts, NEW k \in Kinds
               PROVE  totals[a][k] = lent[a][k] + Sold(q, Owned(q, a), k)
                       + IF a = reserve_account THEN market'[k].weight - market'[k].utilization - delta[k] ELSE 0
    BY DEF Held
  <2>1. totals[a][k] = lent[a][k] + Sold(orders, Owned(orders, a), k)
                        + IF a = reserve_account THEN market[k].weight - market[k].utilization - 0 ELSE 0
    BY DEF IInv, Held, Zero
  <2>2. Sold(q, Owned(q, a), k) = Sold(orders, Owned(orders, a), k)
    <3>1. Owned(orders, a) \in SUBSET DOMAIN orders
      BY DEF Owned
    <3> QED
      BY <1>8, <3>1
  <2>3. market[k].weight \in Int /\ market[k].utilization \in Int /\ market'[k].weight \in Int
    BY <1>3, <1>7, Fields
  <2>4. market'[k].utilization = market[k].utilization /\ delta[k] = market'[k].weight - market[k].weight
    BY <1>6, <1>10
  <2>5. (IF a = reserve_account THEN market'[k].weight - market'[k].utilization - delta[k] ELSE 0)
          = (IF a = reserve_account THEN market[k].weight - market[k].utilization - 0 ELSE 0)
    BY <2>3, <2>4
  <2> QED
    BY <2>1, <2>2, <2>5
<1>12. RowsFollow(u) /\ Held(q, market', u.totals, Zero)
  BY <1>3, <1>7, <1>8, <1>10, <1>11, ReserveReceives
<1> HIDE DEF u
<1>13. \A k \in Kinds : IsConfigured(market'[k])
  BY <1>6
<1>14. WriteRows(u) /\ orders' = q
  BY <1>1, <1>2
<1> QED
  BY <1>2, <1>3, <1>5, <1>7, <1>8, <1>9, <1>12, <1>13, <1>14, MarketAction
\* As time passes the ratio of the next update falls, and nothing else changes.
LEMMA TickIInv ==
  ASSUME IInv, Tick
  PROVE  IInv'
<1>1. /\ now \in Nat /\ now' = now + 1
      /\ rows' = rows /\ ramOwners' = ramOwners /\ bare' = bare
      /\ totals' = totals /\ limits' = limits /\ managed' = managed /\ lent' = lent
      /\ exists' = exists /\ market' = market /\ terms' = terms /\ orders' = orders /\ ops' = ops
  BY DEF IInv, TypeOK, Tick, resourceVars
<1>2. TypeOK'
  BY <1>1 DEF IInv, TypeOK, ResourcesTypeOK
<1>3. ASSUME NEW r, IsConfigured(r)
      PROVE  IsConfigured(r)'
  <2>1. /\ r \in powerup_state_resource /\ r.target_weight_ratio <= r.initial_weight_ratio
        /\ r.initial_timestamp <= now /\ RatioNow(r) <= r.weight_ratio
    BY <1>3 DEF IsConfigured
  <2>2. /\ RatioNow(r) \in r.target_weight_ratio..r.initial_weight_ratio
        /\ RatioNow(r)' \in Int /\ RatioNow(r)' <= RatioNow(r)
    BY <1>1, <2>1, RatioFalls
  <2>3. r.initial_timestamp <= now' /\ RatioNow(r)' <= r.weight_ratio
    <3>1. /\ r.initial_timestamp \in Nat /\ r.weight_ratio \in Int /\ RatioNow(r) \in Int
      BY <2>1, <2>2, Fields, PowerUpAssumption
    <3> QED
      BY <1>1, <2>1, <2>2, <3>1
  <2> QED
    BY <1>3, <2>1, <2>3 DEF IsConfigured, WeightAt
<1>4. ASSUME exists PROVE \A k \in Kinds : IsConfigured(market[k])'
  <2>1. ASSUME NEW k \in Kinds PROVE IsConfigured(market[k])'
    <3>1. IsConfigured(market[k])
      BY <1>4 DEF IInv
    <3>2. PICK r : r = market[k]
      OBVIOUS
    <3>3. IsConfigured(r)'
      BY <1>3, <3>1, <3>2
    <3> QED
      BY <1>1, <3>2, <3>3 DEF IsConfigured, RatioNow
  <2> QED
    BY <2>1
<1>5. Counted(orders, market)' /\ PaidCurve(orders, market)'
  BY <1>1 DEF IInv, Counted, PaidCurve, Sold, Paid, Rate, Fees, Bought, CurveTimes
<1>6. Held(orders, market, totals, Zero)'
  BY <1>1 DEF IInv, Held, Sold, Rate, Owned, Zero
<1>7. RowsFollow(Rows)'
  BY <1>1 DEF IInv, RowsFollow, Standing, Rows, Zero
<1>8. ~exists => DOMAIN orders' = {} /\ market' = [k \in Kinds |-> DefaultResource]
  BY <1>1 DEF IInv
<1> QED
  BY <1>1, <1>2, <1>4, <1>5, <1>6, <1>7, <1>8 DEF IInv, DefaultResource

\* What an action of the accounts' limits has to establish.
LEMMA LimitsAction ==
  ASSUME IInv, Budget, UNCHANGED <<now, exists, market, terms, orders>>,
         ResourcesTypeOK', Held(orders, market, totals, Zero)', RowsFollow(Rows)'
  PROVE  IInv'
<1>1. ops' \in Nat /\ TypeOK'
  BY DEF IInv, TypeOK, Budget
<1>2. \A k \in Kinds : exists => IsConfigured(market[k])'
  BY DEF IInv, IsConfigured, RatioNow
<1>3. Counted(orders, market)' /\ PaidCurve(orders, market)'
  BY DEF IInv, Counted, PaidCurve, Sold, Paid, Rate, Fees, Bought, CurveTimes
<1>4. ~exists => DOMAIN orders' = {} /\ market' = [k \in Kinds |-> DefaultResource]
  BY DEF IInv
<1> QED
  BY <1>1, <1>2, <1>3, <1>4 DEF IInv, DefaultResource

\* A loan or a stake adds delta to the row and to what was lent.
LEMMA LoanIInv ==
  ASSUME IInv, NEW a \in Accounts, NEW delta \in [Kinds -> Int],
         \A k \in Kinds : lent[a][k] + delta[k] >= 0,
         Other(update_resource_limits(a, delta))
  PROVE  IInv'
<1> DEFINE u == adjust_resources(Rows, a, delta)
<1>1. /\ WriteRows(u) /\ lent' = [lent EXCEPT ![a] = @ ++ delta] /\ managed' = managed /\ ramOwners' = ramOwners
      /\ Budget /\ now' = now /\ exists' = exists /\ market' = market /\ terms' = terms /\ orders' = orders
  BY DEF Other, update_resource_limits
<1>2. RowsFollow(Rows) /\ Rows.totals = totals /\ TypeOK /\ IsOrders(orders)
      /\ lent \in [Accounts -> [Kinds -> Nat]] /\ market \in [Kinds -> powerup_state_resource]
      /\ managed \in [Accounts -> SUBSET Kinds]
  BY DEF IInv, TypeOK, ResourcesTypeOK, Rows, IsOrders
<1>3. /\ RowsFollow(u)
      /\ \A b \in Accounts, k \in Kinds : u.totals[b][k] = totals[b][k] + IF b = a THEN delta[k] ELSE 0
  BY <1>2, Adjusted
<1> HIDE DEF u
<1>4. /\ RowsFollow(Rows)' /\ totals' = u.totals
      /\ rows' \subseteq Accounts /\ ramOwners' \subseteq rows' /\ bare' \subseteq rows'
      /\ totals' \in [Accounts -> [Kinds -> Nat]] /\ limits' \in [Accounts -> [Kinds -> Int]]
  BY <1>1, <1>3, Written
<1>5. /\ lent[a] ++ delta \in [Kinds -> Nat]
      /\ \A k \in Kinds : (lent[a] ++ delta)[k] = lent[a][k] + delta[k]
  <2>1. lent[a] \in [Kinds -> Int] /\ \A k \in Kinds : lent[a][k] \in Int
    BY <1>2
  <2>2. lent[a] ++ delta \in [Kinds -> Int] /\ \A k \in Kinds : (lent[a] ++ delta)[k] = lent[a][k] + delta[k]
    BY <2>1, Deltas
  <2>3. \A k \in Kinds : (lent[a] ++ delta)[k] \in Nat
    BY <2>2
  <2> QED
    BY <2>2, <2>3
<1>6. ResourcesTypeOK'
  BY <1>1, <1>2, <1>4, <1>5 DEF ResourcesTypeOK
<1>7. ASSUME NEW b \in Accounts, NEW k \in Kinds
      PROVE  lent'[b][k] = lent[b][k] + IF b = a THEN delta[k] ELSE 0
  <2>1. lent[b][k] \in Int
    BY <1>2
  <2>2. CASE b = a
    BY <1>1, <1>2, <1>5, <2>2
  <2>3. CASE b # a
    <3>1. lent'[b] = lent[b]
      BY <1>1, <1>2, <2>3
    <3> QED
      BY <2>1, <2>3, <3>1
  <2> QED
    BY <2>2, <2>3
<1>8. ASSUME NEW b \in Accounts, NEW k \in Kinds
      PROVE  totals'[b][k] = lent'[b][k] + Sold(orders, Owned(orders, b), k)
               + IF b = reserve_account THEN market[k].weight - market[k].utilization - Zero[k] ELSE 0
  <2> DEFINE sold == Sold(orders, Owned(orders, b), k)
             rest == IF b = reserve_account THEN market[k].weight - market[k].utilization - Zero[k] ELSE 0
             more == IF b = a THEN delta[k] ELSE 0
  <2>1. totals[b][k] = lent[b][k] + sold + rest
    BY DEF IInv, Held
  <2>2. totals'[b][k] = totals[b][k] + more
    BY <1>3, <1>4
  <2>3. lent'[b][k] = lent[b][k] + more
    BY <1>7
  <2>4. sold \in Int
    <3>1. Owned(orders, b) \in SUBSET DOMAIN orders
      BY DEF Owned
    <3>2. IsOrders(orders)
      BY <1>2
    <3> QED
      BY <3>1, <3>2, PartType
  <2>5. rest \in Int /\ more \in Int /\ lent[b][k] \in Int
    BY <1>2, Fields DEF Zero
  <2> HIDE DEF sold, rest, more
  <2>6. totals'[b][k] = lent'[b][k] + sold + rest
    BY <2>1, <2>2, <2>3, <2>4, <2>5
  <2> QED
    BY <2>6 DEF sold, rest
<1>9. Held(orders, market, totals, Zero)'
  BY <1>1, <1>8 DEF Held, Sold, Rate, Owned, Zero
<1> QED
  BY <1>1, <1>4, <1>6, <1>9, LimitsAction
\* The limits that are set by hand.
LEMMA ByHandIInv ==
  ASSUME IInv, NEW a \in Accounts, NEW lim \in [Kinds -> Int], NEW flags \in SUBSET Kinds,
         limits' = [limits EXCEPT ![a] = lim], managed' = [managed EXCEPT ![a] = flags],
         (totals[a] # Zero \/ a \in rows \ bare) => \A k \in Kinds \ flags : lim[k] = totals[a][k],
         Budget, UNCHANGED <<rows, totals, ramOwners, lent, bare, now, exists, market, terms, orders>>
  PROVE  IInv'
<1>1. /\ limits \in [Accounts -> [Kinds -> Int]] /\ managed \in [Accounts -> SUBSET Kinds]
      /\ totals \in [Accounts -> [Kinds -> Nat]] /\ lent \in [Accounts -> [Kinds -> Nat]]
      /\ rows \subseteq Accounts /\ ramOwners \subseteq rows /\ bare \subseteq rows
  BY DEF IInv, TypeOK, ResourcesTypeOK
<1>2. /\ limits'[a] = lim /\ managed'[a] = flags
      /\ \A b \in Accounts : b # a => limits'[b] = limits[b] /\ managed'[b] = managed[b]
      /\ limits' \in [Accounts -> [Kinds -> Int]] /\ managed' \in [Accounts -> SUBSET Kinds]
  BY <1>1
<1>3. ResourcesTypeOK'
  BY <1>1, <1>2 DEF ResourcesTypeOK
<1>4. Held(orders, market, totals, Zero)'
  <2>1. Held(orders, market, totals, Zero)
    BY DEF IInv
  <2>2. totals' = totals /\ lent' = lent /\ market' = market /\ orders' = orders
    OBVIOUS
  <2> QED
    BY <2>1, <2>2 DEF Held, Sold, Rate, Owned, Zero
<1>5. ASSUME NEW b \in Accounts, totals[b] # Zero \/ b \in rows \ bare, NEW k \in Kinds \ managed'[b]
      PROVE  limits'[b][k] = totals[b][k]
  <2>1. CASE b = a
    BY <1>2, <1>5, <2>1
  <2>2. CASE b # a
    BY <1>2, <1>5, <2>2 DEF IInv, RowsFollow, Rows
  <2> QED
    BY <2>1, <2>2
<1>6. RowsFollow(Rows)'
  <2>1. totals' \in [Accounts -> [Kinds -> Int]] /\ limits' \in [Accounts -> [Kinds -> Int]]
    BY <1>1, <1>2
  <2>2. Standing(Rows)'
    BY DEF IInv, RowsFollow, Standing, Rows, Zero
  <2> QED
    BY <1>5, <2>1, <2>2 DEF RowsFollow, Rows, Zero
<1> QED
  BY <1>3, <1>4, <1>6, LimitsAction

LEMMA SetalimitsIInv ==
  ASSUME IInv, NEW a \in Handled, NEW net \in FixedLimits, NEW cpu \in FixedLimits, Other(setalimits(a, net, cpu))
  PROVE  IInv'
<1> DEFINE lim == [k \in Kinds |-> IF k = "net" THEN net ELSE cpu]
<1>1. a \in Accounts /\ net \in Int /\ cpu \in Int
  BY ResourcesAssumption
<1>2. lim \in [Kinds -> Int]
  BY <1>1
<1>3. limits' = [limits EXCEPT ![a] = lim]
  BY DEF Other, setalimits
<1>4. /\ a \notin rows /\ managed' = managed /\ Budget
      /\ UNCHANGED <<rows, totals, ramOwners, lent, bare, now, exists, market, terms, orders>>
  BY DEF Other, setalimits
<1>5. managed[a] \in SUBSET Kinds /\ managed' = [managed EXCEPT ![a] = managed[a]]
  BY <1>1, <1>4 DEF IInv, TypeOK, ResourcesTypeOK
<1>6. totals[a] = Zero
  BY <1>1, <1>4 DEF IInv, RowsFollow, Standing, Rows
<1> HIDE DEF lim
<1> QED
  BY <1>1, <1>2, <1>3, <1>4, <1>5, <1>6, ByHandIInv

LEMMA SetWeightIInv ==
  ASSUME IInv, NEW a \in Handled, NEW k \in Kinds, NEW w \in FixedLimits, Other(SetWeight(a, k, w))
  PROVE  IInv'
<1> DEFINE lim == [limits[a] EXCEPT ![k] = w]
           flags == managed[a] \cup {k}
<1>1. a \in Accounts /\ w \in Int
  BY ResourcesAssumption
<1>2. limits \in [Accounts -> [Kinds -> Int]] /\ managed \in [Accounts -> SUBSET Kinds] /\ limits[a] \in [Kinds -> Int]
  BY <1>1 DEF IInv, TypeOK, ResourcesTypeOK
<1>3. lim \in [Kinds -> Int] /\ flags \in SUBSET Kinds /\ \A l \in Kinds \ flags : lim[l] = limits[a][l]
  BY <1>1, <1>2
<1>4. /\ limits' = [limits EXCEPT ![a] = lim] /\ managed' = [managed EXCEPT ![a] = flags] /\ Budget
      /\ UNCHANGED <<rows, totals, ramOwners, lent, bare, now, exists, market, terms, orders>>
  BY DEF Other, SetWeight
<1>5. (totals[a] # Zero \/ a \in rows \ bare) => \A l \in Kinds \ flags : lim[l] = totals[a][l]
  <2>1. (totals[a] # Zero \/ a \in rows \ bare) => \A l \in Kinds \ managed[a] : limits[a][l] = totals[a][l]
    BY <1>1 DEF IInv, RowsFollow, Rows
  <2> QED
    BY <1>3, <2>1
<1> HIDE DEF lim, flags
<1> QED
  BY <1>1, <1>3, <1>4, <1>5, ByHandIInv

LEMMA UnsetWeightIInv ==
  ASSUME IInv, NEW a \in Handled, NEW k \in Kinds, Other(UnsetWeight(a, k))
  PROVE  IInv'
<1> DEFINE lim == [limits[a] EXCEPT ![k] = totals[a][k]]
           flags == managed[a] \ {k}
<1>1. a \in Accounts
  BY ResourcesAssumption
<1>2. /\ limits \in [Accounts -> [Kinds -> Int]] /\ managed \in [Accounts -> SUBSET Kinds] /\ limits[a] \in [Kinds -> Int]
      /\ totals[a][k] \in Int
  BY <1>1 DEF IInv, TypeOK, ResourcesTypeOK
<1>3. /\ lim \in [Kinds -> Int] /\ flags \in SUBSET Kinds
      /\ lim[k] = totals[a][k] /\ \A l \in Kinds : l # k => lim[l] = limits[a][l]
  BY <1>1, <1>2
<1>4. /\ limits' = [limits EXCEPT ![a] = lim] /\ managed' = [managed EXCEPT ![a] = flags] /\ Budget
      /\ UNCHANGED <<rows, totals, ramOwners, lent, bare, now, exists, market, terms, orders>>
  BY DEF Other, UnsetWeight
<1>5. (totals[a] # Zero \/ a \in rows \ bare) => \A l \in Kinds \ flags : lim[l] = totals[a][l]
  <2>1. (totals[a] # Zero \/ a \in rows \ bare) => \A l \in Kinds \ managed[a] : limits[a][l] = totals[a][l]
    BY <1>1 DEF IInv, RowsFollow, Rows
  <2> QED
    BY <1>3, <2>1
<1> HIDE DEF lim, flags
<1> QED
  BY <1>1, <1>3, <1>4, <1>5, ByHandIInv

\* RAM that is bought gives its account a row without weight, and none of the limits of this module.
LEMMA RamIInv ==
  ASSUME IInv, NEW a \in RamBuyers, Other(buyram(a)) \/ Other(sellram(a))
  PROVE  IInv'
<1>1. a \in Accounts
  BY ResourcesAssumption
<1>2. /\ totals' = totals /\ limits' = limits /\ managed' = managed /\ lent' = lent /\ Budget
      /\ UNCHANGED <<now, exists, market, terms, orders>>
      /\ \/ /\ rows' = rows \cup {a} /\ ramOwners' = ramOwners \cup {a}
            /\ bare' = IF a \in rows THEN bare ELSE bare \cup {a}
         \/ rows' = rows /\ ramOwners' = ramOwners \ {a} /\ bare' = bare
  BY DEF Other, buyram, sellram
<1>3. /\ rows \subseteq Accounts /\ ramOwners \subseteq rows /\ bare \subseteq rows
      /\ \A b \in Accounts : totals[b] # Zero => b \in rows
  BY DEF IInv, RowsFollow, Standing, Rows
<1>4. /\ rows' \subseteq Accounts /\ ramOwners' \subseteq rows' /\ bare' \subseteq rows'
      /\ \A b \in Accounts : totals'[b] # Zero => b \in rows'
      /\ rows' \ bare' \subseteq rows \ bare
  BY <1>1, <1>2, <1>3
<1>5. ResourcesTypeOK'
  BY <1>2, <1>4 DEF IInv, TypeOK, ResourcesTypeOK
<1>6. Held(orders, market, totals, Zero)'
  BY <1>2 DEF IInv, Held, Sold, Rate, Owned, Zero
<1>7. Standing(Rows)'
  BY <1>4 DEF Standing, Rows, Zero
<1>8. ASSUME NEW b \in Accounts, totals'[b] # Zero \/ b \in rows' \ bare', NEW k \in Kinds \ managed'[b]
      PROVE  limits'[b][k] = totals'[b][k]
  BY <1>2, <1>4, <1>8 DEF IInv, RowsFollow, Rows
<1>9. RowsFollow(Rows)'
  <2>1. totals' \in [Accounts -> [Kinds -> Int]] /\ limits' \in [Accounts -> [Kinds -> Int]]
    BY <1>2 DEF IInv, RowsFollow, Rows
  <2> QED
    BY <1>7, <1>8, <2>1 DEF RowsFollow, Rows, Zero
<1> QED
  BY <1>2, <1>5, <1>6, <1>9, LimitsAction

LEMMA LoansIInv ==
  ASSUME IInv, NEW a \in Borrowers, NEW k \in Kinds, NEW n \in Loans,
         Other(LoanStarts(a, k, n)) \/ Other(LoanEnds(a, k, n))
  PROVE  IInv'
<1>1. a \in Accounts /\ n \in Nat
  BY ResourcesAssumption
<1>2. \A l \in Kinds : lent[a][l] \in Nat
  BY <1>1 DEF IInv, TypeOK, ResourcesTypeOK
<1>3. ASSUME NEW x \in Int, lent[a][k] + x >= 0
      PROVE  /\ [Zero EXCEPT ![k] = x] \in [Kinds -> Int]
             /\ \A l \in Kinds : lent[a][l] + [Zero EXCEPT ![k] = x][l] >= 0
  BY <1>2, <1>3 DEF Zero
<1>4. CASE Other(LoanStarts(a, k, n))
  <2> DEFINE d == [Zero EXCEPT ![k] = n]
  <2>1. n \in Int /\ lent[a][k] + n >= 0
    BY <1>1, <1>2
  <2>2. Other(update_resource_limits(a, d))
    BY <1>4 DEF LoanStarts, Other
  <2>3. d \in [Kinds -> Int] /\ \A l \in Kinds : lent[a][l] + d[l] >= 0
    BY <1>3, <2>1
  <2> HIDE DEF d
  <2> QED
    BY <1>1, <2>2, <2>3, LoanIInv
<1>5. CASE Other(LoanEnds(a, k, n))
  <2> DEFINE d == [Zero EXCEPT ![k] = -n]
  <2>1. -n \in Int /\ lent[a][k] + (-n) >= 0
    BY <1>1, <1>2, <1>5 DEF LoanEnds, Other
  <2>2. Other(update_resource_limits(a, d))
    BY <1>5 DEF LoanEnds, Other
  <2>3. d \in [Kinds -> Int] /\ \A l \in Kinds : lent[a][l] + d[l] >= 0
    BY <1>3, <2>1
  <2> HIDE DEF d
  <2> QED
    BY <1>1, <2>2, <2>3, LoanIInv
<1> QED
  BY <1>4, <1>5

LEMMA StutterIInv ==
  ASSUME IInv, UNCHANGED vars
  PROVE  IInv'
<1>1. /\ rows' = rows /\ ramOwners' = ramOwners /\ bare' = bare
      /\ totals' = totals /\ limits' = limits /\ managed' = managed /\ lent' = lent /\ now' = now
      /\ exists' = exists /\ market' = market /\ terms' = terms /\ orders' = orders /\ ops' = ops
  BY DEF vars, resourceVars, powerupVars
<1>2. TypeOK'
  BY <1>1 DEF IInv, TypeOK, ResourcesTypeOK
<1>3. \A k \in Kinds : exists => IsConfigured(market[k])'
  BY <1>1 DEF IInv, IsConfigured, RatioNow
<1>4. Counted(orders, market)' /\ PaidCurve(orders, market)'
  BY <1>1 DEF IInv, Counted, PaidCurve, Sold, Paid, Rate, Fees, Bought, CurveTimes
<1>5. Held(orders, market, totals, Zero)'
  BY <1>1 DEF IInv, Held, Sold, Rate, Owned, Zero
<1>6. RowsFollow(Rows)'
  BY <1>1 DEF IInv, RowsFollow, Standing, Rows, Zero
<1>7. ~exists => DOMAIN orders' = {} /\ market' = [k \in Kinds |-> DefaultResource]
  BY <1>1 DEF IInv
<1> QED
  BY <1>1, <1>2, <1>3, <1>4, <1>5, <1>6, <1>7 DEF IInv, DefaultResource

LEMMA NextIInv == IInv /\ [Next]_vars => IInv'
<1> SUFFICES ASSUME IInv, [Next]_vars PROVE IInv'
  OBVIOUS
<1>1. CASE Tick
  BY <1>1, TickIInv
<1>2. CASE \E c \in Configs : cfgpowerup(c)
  BY <1>2, CfgIInv
<1>3. CASE \E max \in ExecMax : powerupexec(max)
  BY <1>3, ExecIInv
<1>4. CASE \E receiver \in Accounts, frac \in [Kinds -> Fracs] : powerup(receiver, frac)
  BY <1>4, PowerupIInv
<1>5. CASE \E a \in Borrowers, k \in Kinds, n \in Loans : Other(LoanStarts(a, k, n)) \/ Other(LoanEnds(a, k, n))
  BY <1>5, LoansIInv
<1>r. CASE \E a \in RamBuyers : Other(buyram(a)) \/ Other(sellram(a))
  BY <1>r, RamIInv
<1>6. CASE \E a \in Handled, net, cpu \in FixedLimits : Other(setalimits(a, net, cpu))
  BY <1>6, SetalimitsIInv
<1>7. CASE \E a \in Handled, w \in FixedLimits : Other(setacctnet(a, w)) \/ Other(setacctcpu(a, w))
  <2>1. PICK a \in Handled, w \in FixedLimits : Other(setacctnet(a, w)) \/ Other(setacctcpu(a, w))
    BY <1>7
  <2>2. PICK k \in Kinds : Other(SetWeight(a, k, w))
    BY <2>1 DEF setacctnet, setacctcpu, Other, Kinds
  <2> QED
    BY <2>2, SetWeightIInv
<1>8. CASE \E a \in Handled : Other(unsetacctnet(a)) \/ Other(unsetacctcpu(a))
  <2>1. PICK a \in Handled : Other(unsetacctnet(a)) \/ Other(unsetacctcpu(a))
    BY <1>8
  <2>2. PICK k \in Kinds : Other(UnsetWeight(a, k))
    BY <2>1 DEF unsetacctnet, unsetacctcpu, Other, Kinds
  <2> QED
    BY <2>2, UnsetWeightIInv
<1>9. CASE UNCHANGED vars
  BY <1>9, StutterIInv
<1> QED
  BY <1>1, <1>2, <1>3, <1>4, <1>5, <1>r, <1>6, <1>7, <1>8, <1>9 DEF Next
-----------------------------------------------------------------------------
(* The theorems.                                                           *)

LEMMA Invariance == Spec => []IInv
BY InitIInv, NextIInv, PTL DEF Spec

\* Every table of PowerUp keeps its type whatever is configured, bought, returned, lent and set by
\* hand: no weight, utilization, fee or row of userres ever becomes negative, and the ratio stays
\* within 1 and powerup_frac.
THEOREM TypeCorrect == Spec => []TypeOK
<1>1. IInv => TypeOK
  BY DEF IInv
<1> QED
  BY <1>1, Invariance, PTL

LEMMA Accounted == IInv => MarketIsAccounted
<1> SUFFICES ASSUME IInv PROVE MarketIsAccounted
  OBVIOUS
<1>1. /\ IsOrders(orders) /\ market \in [Kinds -> powerup_state_resource]
      /\ lent \in [Accounts -> [Kinds -> Nat]]
  BY DEF IInv, TypeOK, ResourcesTypeOK, IsOrders
<1>2. \A k \in Kinds : \A S : Weight(S)[k] = Sold(orders, S, k)
  BY WeightIsSold
<1>3. ASSUME NEW k \in Kinds
      PROVE  /\ market[k].utilization = Weight(DOMAIN orders)[k]
             /\ 0 <= market[k].utilization /\ market[k].utilization <= market[k].weight
             /\ 0 <= market[k].adjusted_utilization /\ market[k].adjusted_utilization <= market[k].weight
  <2>1. /\ market[k].utilization = Sold(orders, DOMAIN orders, k) /\ market[k].utilization \in 0..market[k].weight
        /\ market[k].adjusted_utilization \in 0..market[k].weight
    BY DEF IInv, Counted
  <2>2. market[k].weight \in Nat
    BY <1>1, Fields
  <2> QED
    BY <1>2, <2>1, <2>2
<1>4. ASSUME NEW a \in Accounts, NEW k \in Kinds
      PROVE  totals[a][k] = lent[a][k] + Weight(OwnedBy(a))[k]
                             + IF a = reserve_account THEN market[k].weight - market[k].utilization ELSE 0
  <2>1. totals[a][k] = lent[a][k] + Sold(orders, Owned(orders, a), k)
          + IF a = reserve_account THEN market[k].weight - market[k].utilization - 0 ELSE 0
    BY DEF IInv, Held, Zero
  <2>2. Weight(OwnedBy(a))[k] = Sold(orders, Owned(orders, a), k)
    <3>1. OwnedBy(a) = Owned(orders, a)
      BY DEF Owned, OwnedBy
    <3> QED
      BY <1>2, <3>1
  <2>3. market[k].weight \in Int /\ market[k].utilization \in Int
    BY <1>1, Fields
  <2>4. (IF a = reserve_account THEN market[k].weight - market[k].utilization - 0 ELSE 0)
          = (IF a = reserve_account THEN market[k].weight - market[k].utilization ELSE 0)
    BY <2>3
  <2> QED
    BY <2>1, <2>2, <2>4
<1> QED
  BY <1>3, <1>4 DEF MarketIsAccounted

\* The utilization of each market is what the open orders hold and is at most the weight, and every
\* account's row of userres is what it was lent, what its orders hold and, for the reserve account,
\* what is not sold: for every table of orders, every configuration and every queue length.
THEOREM MarketAccounted == Spec => []MarketIsAccounted
BY Accounted, Invariance, PTL

\* process_powerup_queue never aborts for want of weight, however many orders are due at once.
ReturnsSucceed == \A max \in Nat : Sufficient(Returned(Rows, Due(max)))

LEMMA ReturnsCovered == IInv => ReturnsSucceed
<1> SUFFICES ASSUME IInv, NEW max \in Nat, NEW a \in Accounts, NEW k \in Kinds
             PROVE  Returned(Rows, Due(max)).totals[a][k] >= 0
  BY DEF ReturnsSucceed, Sufficient
<1> DEFINE D == Due(max)
           mine == Owned(orders, a)
<1>1. IsOrders(orders) /\ RowsFollow(Rows) /\ Rows.totals = totals /\ D \in SUBSET DOMAIN orders
  BY DEF IInv, TypeOK, IsOrders, Rows, Due
<1> HIDE DEF D
<1>2. Returned(Rows, D).totals[a][k] = totals[a][k] - Sold(orders, D \cap mine, k)
  BY <1>1, ReturnedRows
<1>3. /\ Sold(orders, D \cap mine, k) \in Nat /\ Sold(orders, mine, k) \in Nat
      /\ Sold(orders, D \cap mine, k) <= Sold(orders, mine, k)
  <2>1. mine \in SUBSET DOMAIN orders /\ D \cap mine \in SUBSET mine /\ D \cap mine \in SUBSET DOMAIN orders
    BY DEF Owned
  <2> HIDE DEF mine
  <2>2. Sold(orders, D \cap mine, k) <= Sold(orders, mine, k)
    BY <1>1, <2>1, PartIsLess
  <2> QED
    BY <1>1, <2>1, <2>2, PartType
<1>4. totals[a][k] = lent[a][k] + Sold(orders, mine, k)
        + IF a = reserve_account THEN market[k].weight - market[k].utilization - 0 ELSE 0
  BY DEF IInv, Held, Zero
<1>5. /\ lent[a][k] \in Nat /\ market[k].weight \in Nat /\ market[k].utilization \in 0..market[k].weight
  <2>1. market[k] \in powerup_state_resource
    BY DEF IInv, TypeOK
  <2> QED
    BY <2>1, Fields DEF IInv, TypeOK, ResourcesTypeOK, Counted
<1> HIDE DEF mine
<1> QED
  BY <1>2, <1>3, <1>4, <1>5 DEF D

\* The return of expired orders never fails for want of weight, so no account and no order can
\* block powerup and powerupexec for everybody.
THEOREM QueueNeverBlocked == Spec => []ReturnsSucceed
BY ReturnsCovered, Invariance, PTL

\* The chain enforces the weight of userres on every account that has any, and the limit zero on every
\* row without weight, for the kinds that are not managed, after any sequence of purchases, returns,
\* loans, RAM bought and sold, and limits set and released by hand; only a row that buyram has created
\* keeps other limits, until its weight changes.
THEOREM LimitsFollow == Spec => []LimitsFollowTotals
<1>1. IInv => LimitsFollowTotals
  BY DEF IInv, RowsFollow, Rows, LimitsFollowTotals
<1> QED
  BY <1>1, Invariance, PTL

LEMMA CurvePaid == IInv => OrdersPaidTheCurve
<1> SUFFICES ASSUME IInv, NEW k \in Kinds, Current # {} PROVE PaidForAll(k, Current)
  BY DEF OrdersPaidTheCurve
<1>1. Current = Bought(orders) /\ Current \in SUBSET Bought(orders)
  BY DEF Current, Bought
<1>2. Paid(orders, Current, k) * 2 * market[k].weight * market[k].weight
        >= CurveTimes(market[k], 0, Sold(orders, Current, k))
  BY <1>1 DEF IInv, PaidCurve
<1>3. Weight(Current)[k] = Sold(orders, Current, k)
  BY WeightIsSold
<1>4. SumOf([i \in DOMAIN orders |-> orders[i].paid[k]], Current) = Paid(orders, Current, k)
  BY DEF Paid, Fees
<1> QED
  BY <1>2, <1>3, <1>4 DEF PaidForAll

\* The open orders bought under one configuration have together paid what the price curve asks for
\* all of them at once: splitting a purchase, waiting, or buying before adjusted_utilization is
\* brought up to date is never cheaper, for every weight, price, fraction and decay.
THEOREM PaidTheCurve == Spec => []OrdersPaidTheCurve
BY CurvePaid, Invariance, PTL
=============================================================================
