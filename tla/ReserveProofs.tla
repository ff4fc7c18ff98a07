--------------------------- MODULE ReserveProofs ---------------------------
(***************************************************************************)
(* Proofs that the books of a reserve stay in order, for all rates, times   *)
(* and amounts: nothing the code computes goes below zero, the indexes      *)
(* never fall below one ray, and nobody owes without the borrowing bit.     *)
(***************************************************************************)
EXTENDS Reserve, DataTheorems

-----------------------------------------------------------------------------
(* Products and quotients of rays *)

\* A ray is even.
LEMMA HalfRay == RAY \div 2 \in Nat /\ RAY = 2 * (RAY \div 2) /\ RAY \div 2 > 0
BY InterestAssumption

\* A quotient does not fall when the dividend grows.
LEMMA QuotientMonotone ==
  ASSUME NEW m \in Nat, NEW n \in Nat, m <= n, NEW d \in Nat \ {0}
  PROVE  m \div d <= n \div d
<1>1. n \div d \in Nat /\ n < d * (n \div d) + d
  BY Quotient
<1> DEFINE q == n \div d
<1>2. d * q \in Nat
  BY <1>1, ProductNat
<1>3. m < d * q + d
  <2> DEFINE p == d * q
  <2>1. p \in Nat /\ n < p + d
    BY <1>1, <1>2
  <2> HIDE DEF p, q
  <2>2. m < p + d
    BY <2>1
  <2> QED BY <2>2 DEF p
<1>4. q \in Nat
  BY <1>1
<1> HIDE DEF q
<1>5. m \div d <= q
  BY <1>3, <1>4, QuotientAtMost
<1> QED BY <1>5 DEF q

\* A product is a number.
LEMMA RayMulNat ==
  ASSUME NEW a \in Nat, NEW b \in Nat
  PROVE  RayMul(a, b) \in Nat
<1> DEFINE n == a * b + RAY \div 2
<1>1. n \in Nat
  BY ProductNat, HalfRay
<1>2. RAY \in Nat \ {0}
  BY InterestAssumption
<1> HIDE DEF n
<1>3. n \div RAY \in Nat
  BY <1>1, <1>2, Quotient
<1> QED BY <1>3 DEF RayMul, UnitMul, n

\* The product is at least the amount when the index is at least one ray.
LEMMA RayMulAtLeast ==
  ASSUME NEW a \in Nat, NEW b \in Nat, b >= RAY
  PROVE  RayMul(a, b) >= a
<1> DEFINE n == a * b + RAY \div 2
           q == n \div RAY
<1>1. RAY \in Nat \ {0}
  BY InterestAssumption
<1>2. n \in Nat /\ RAY * a \in Nat /\ RAY * a <= n
  <2>1. a * b \in Nat /\ RAY * a \in Nat /\ b * a = a * b
    BY ProductNat, InterestAssumption
  <2>2. RAY * a <= b * a
    BY ProductMonotone, InterestAssumption
  <2> QED BY <2>1, <2>2, HalfRay
<1> HIDE DEF n
<1>3. q \in Nat /\ n < RAY * q + RAY
  BY <1>1, <1>2, Quotient
<1> HIDE DEF q
<1>4. RAY * a < RAY * q + RAY
  <2>1. RAY * q \in Nat
    BY <1>1, <1>3, ProductNat
  <2> DEFINE x == RAY * a
             y == RAY * q
  <2>2. x \in Nat /\ y \in Nat /\ x <= n /\ n < y + RAY
    BY <1>2, <1>3, <2>1
  <2> HIDE DEF x, y
  <2>3. x < y + RAY
    BY <1>1, <1>2, <2>2
  <2> QED BY <2>3 DEF x, y
<1>5. a <= q
  <2>1. SUFFICES ASSUME q + 1 <= a PROVE FALSE
    BY <1>3
  <2>2. (q + 1) * RAY <= a * RAY
    BY <1>1, <1>3, <2>1, ProductMonotone
  <2>3. (q + 1) * RAY = RAY * q + RAY /\ a * RAY = RAY * a
    BY <1>1, <1>3
  <2>4. RAY * q + RAY <= RAY * a
    BY <2>2, <2>3
  <2>5. RAY * q \in Nat
    BY <1>1, <1>3, ProductNat
  <2> DEFINE x == RAY * a
             y == RAY * q + RAY
  <2>6. x \in Nat /\ y \in Nat /\ x < y /\ y <= x
    BY <1>1, <1>2, <1>4, <2>4, <2>5
  <2> HIDE DEF x, y
  <2> QED BY <2>6
<1> QED BY <1>3, <1>5 DEF RayMul, UnitMul, n, q

\* Nothing of an index is nothing.
LEMMA RayMulZero ==
  ASSUME NEW b \in Nat
  PROVE  RayMul(0, b) = 0
<1>1. 0 * b = 0
  OBVIOUS
<1>2. (0 + RAY \div 2) \div RAY = 0
  BY InterestAssumption, HalfRay
<1> QED BY <1>1, <1>2 DEF RayMul, UnitMul

\* One ray of an amount is the amount.
LEMMA RayMulOne ==
  ASSUME NEW a \in Nat
  PROVE  RayMul(a, RAY) = a
<1> DEFINE half == RAY \div 2
           n == a * RAY + half
<1>1. RAY \in Nat \ {0} /\ half \in Nat /\ half < RAY
  BY HalfRay, InterestAssumption
<1>2. a * RAY \in Nat /\ a * RAY = RAY * a
  BY <1>1, ProductNat
<1>3. n \in Nat /\ n < RAY * a + RAY
  <2> HIDE DEF half
  <2> QED BY <1>1, <1>2
<1> HIDE DEF n
<1>4. n \div RAY \in Nat /\ n \div RAY <= a
  BY <1>1, <1>3, Quotient, QuotientAtMost
<1>5. RayMul(a, RAY) = n \div RAY
  BY DEF RayMul, UnitMul, n
<1>6. RayMul(a, RAY) >= a
  BY <1>1, RayMulAtLeast
<1> QED BY <1>4, <1>5, <1>6

\* A product does not fall when a factor grows.
LEMMA RayMulMonotone ==
  ASSUME NEW a \in Nat, NEW b \in Nat, a <= b, NEW c \in Nat
  PROVE  RayMul(a, c) <= RayMul(b, c) /\ RayMul(c, a) <= RayMul(c, b)
<1> DEFINE m == a * c + RAY \div 2
           n == b * c + RAY \div 2
<1>1. m \in Nat /\ n \in Nat /\ m <= n
  <2>1. a * c \in Nat /\ b * c \in Nat /\ a * c <= b * c
    BY ProductNat, ProductMonotone
  <2> QED BY <2>1, HalfRay
<1>2. c * a = a * c /\ c * b = b * c
  OBVIOUS
<1>3. RAY \in Nat \ {0}
  BY InterestAssumption
<1> HIDE DEF m, n
<1>4. m \div RAY <= n \div RAY
  BY <1>1, <1>3, QuotientMonotone
<1> QED BY <1>2, <1>4 DEF RayMul, UnitMul, m, n

\* A quotient is a number.
LEMMA RayDivNat ==
  ASSUME NEW a \in Nat, NEW b \in Nat \ {0}
  PROVE  RayDiv(a, b) \in Nat
<1> DEFINE n == a * RAY + b \div 2
<1>1. b \div 2 \in Nat
  OBVIOUS
<1>2. n \in Nat
  BY <1>1, ProductNat, InterestAssumption
<1> HIDE DEF n
<1>3. n \div b \in Nat
  BY <1>2, Quotient
<1> QED BY <1>3 DEF RayDiv, UnitDiv, n

\* Nothing divides to nothing.
LEMMA RayDivZero ==
  ASSUME NEW b \in Nat \ {0}
  PROVE  RayDiv(0, b) = 0
<1>1. 0 * RAY = 0
  BY InterestAssumption
<1>2. (0 + b \div 2) \div b = 0
  <2> DEFINE half == b \div 2
  <2>1. half \in Nat /\ half < b
    OBVIOUS
  <2> HIDE DEF half
  <2>2. 0 + half = half /\ half < b * 0 + b
    BY <2>1
  <2>3. half \div b \in Nat /\ half \div b <= 0
    BY <2>1, <2>2, Quotient, QuotientAtMost
  <2> QED BY <2>2, <2>3 DEF half
<1> QED BY <1>1, <1>2 DEF RayDiv, UnitDiv

\* A quotient does not fall when the amount grows.
LEMMA RayDivMonotone ==
  ASSUME NEW a \in Nat, NEW b \in Nat, a <= b, NEW c \in Nat \ {0}
  PROVE  RayDiv(a, c) <= RayDiv(b, c)
<1> DEFINE m == a * RAY + c \div 2
           n == b * RAY + c \div 2
<1>1. m \in Nat /\ n \in Nat /\ m <= n
  <2>1. a * RAY \in Nat /\ b * RAY \in Nat /\ a * RAY <= b * RAY
    BY ProductNat, ProductMonotone, InterestAssumption
  <2>2. c \div 2 \in Nat
    OBVIOUS
  <2> QED BY <2>1, <2>2
<1> HIDE DEF m, n
<1>2. m \div c <= n \div c
  BY <1>1, QuotientMonotone
<1> QED BY <1>2 DEF RayDiv, UnitDiv, m, n

\* A part of a whole is at most one ray of it.
LEMMA RatioAtMostOne ==
  ASSUME NEW part \in Nat, NEW whole \in Nat \ {0}, part <= whole
  PROVE  RayDiv(part, whole) \in 0 .. RAY
<1> DEFINE half == whole \div 2
           n == part * RAY + half
<1>1. half \in Nat /\ half < whole
  OBVIOUS
<1>2. part * RAY \in Nat /\ whole * RAY \in Nat /\ part * RAY <= whole * RAY
  BY ProductNat, ProductMonotone, InterestAssumption
<1>3. n \in Nat /\ n < whole * RAY + whole
  <2> HIDE DEF half
  <2> QED BY <1>1, <1>2
<1>4. RAY \in Nat
  BY InterestAssumption
<1> HIDE DEF n
<1>5. n \div whole <= RAY /\ n \div whole \in Nat
  BY <1>3, <1>4, Quotient, QuotientAtMost
<1> QED BY <1>4, <1>5 DEF RayDiv, UnitDiv, n, half

\* What a scaled balance reads at an index divides back to exactly that scaled
\* balance, although both operations round.
LEMMA RayDivMul ==
  ASSUME NEW s \in Nat, NEW i \in Nat, i >= RAY
  PROVE  RayDiv(RayMul(s, i), i) = s
<1> DEFINE h == RAY \div 2
           p == s * i
           m == (p + h) \div RAY
           half == i \div 2
           n == m * RAY + half
<1>1. RAY \in Nat \ {0} /\ h \in Nat /\ RAY = 2 * h /\ h > 0 /\ i \in Nat \ {0}
  BY HalfRay, InterestAssumption
<1>2. half \in Nat /\ (i = 2 * half \/ i = 2 * half + 1)
  OBVIOUS
<1>3. p \in Nat
  BY ProductNat
<1>4. m \in Nat /\ RAY * m <= p + h /\ p + h < RAY * m + RAY
  <2> HIDE DEF p, h
  <2>1. p + h \in Nat
    BY <1>1, <1>3
  <2> QED BY <1>1, <2>1, Quotient
<1>5. RAY * m = m * RAY /\ m * RAY \in Nat /\ i * s = p
  <2> HIDE DEF m, h
  <2> QED BY <1>1, <1>4, ProductNat
<1>6. p <= n /\ n < p + i /\ n \in Nat
  <2> DEFINE r == m * RAY
  <2>1. r \in Nat /\ r <= p + h /\ p + h < r + RAY
    BY <1>4, <1>5
  <2>2. n = r + half
    OBVIOUS
  <2>3. CASE i > RAY
    <3> HIDE DEF r, p, h, half, n, m
    <3> QED BY <1>1, <1>2, <1>3, <2>1, <2>2, <2>3
  <2>4. CASE i = RAY
    <3>1. m = s
      <4>1. s * RAY + h < (m + 1) * RAY /\ m * RAY < (s + 1) * RAY
        <5>1. (m + 1) * RAY = r + RAY /\ (s + 1) * RAY = p + RAY
          <6> HIDE DEF m, h
          <6> QED BY <1>1, <1>4, <2>4
        <5>2. s * RAY = p
          BY <2>4
        <5> HIDE DEF p, h
        <5> QED BY <1>1, <1>3, <2>1, <5>1, <5>2
      <4> HIDE DEF m, h, p, half, n, r
      <4>2. ~ (m + 1 <= s)
        <5> SUFFICES ASSUME m + 1 <= s PROVE FALSE
          OBVIOUS
        <5>1. (m + 1) * RAY <= s * RAY
          BY <1>1, <1>4, ProductMonotone
        <5>2. (m + 1) * RAY \in Nat /\ s * RAY \in Nat
          BY <1>1, <1>4, ProductNat
        <5> QED BY <1>1, <4>1, <5>1, <5>2
      <4>3. ~ (s + 1 <= m)
        <5> SUFFICES ASSUME s + 1 <= m PROVE FALSE
          OBVIOUS
        <5>1. (s + 1) * RAY <= m * RAY
          BY <1>1, <1>4, ProductMonotone
        <5>2. (s + 1) * RAY \in Nat /\ m * RAY \in Nat
          BY <1>1, <1>4, ProductNat
        <5> QED BY <1>1, <4>1, <5>1, <5>2
      <4> QED BY <1>4, <4>2, <4>3
    <3>2. r = p
      BY <2>4, <3>1
    <3> HIDE DEF r, p, h, half, n, m
    <3> QED BY <1>1, <1>2, <1>3, <2>2, <2>4, <3>2
  <2> QED BY <1>1, <2>3, <2>4
<1>7. n \div i = s
  <2>1. n \div i <= s /\ s <= n \div i
    <3> HIDE DEF n
    <3>1. n < i * s + i
      BY <1>5, <1>6
    <3>2. n \div i <= s
      BY <1>1, <1>6, <3>1, QuotientAtMost
    <3>3. (i * s) \div i = s
      BY <1>1
    <3>4. i * s \in Nat /\ i * s <= n
      BY <1>3, <1>5, <1>6
    <3>5. (i * s) \div i <= n \div i
      BY <1>1, <1>6, <3>4, QuotientMonotone
    <3> QED BY <3>2, <3>3, <3>5
  <2>2. n \div i \in Nat
    <3> HIDE DEF n
    <3> QED BY <1>1, <1>6, Quotient
  <2> QED BY <2>1, <2>2
<1> QED BY <1>7 DEF RayMul, RayDiv, UnitMul, UnitDiv

-----------------------------------------------------------------------------
(* Interest and rates *)

\* Linear interest is at least one ray.
LEMMA LinearInterestBounds ==
  ASSUME NEW rate \in Nat, NEW time \in Nat
  PROVE  LinearInterest(rate, time) \in Nat /\ LinearInterest(rate, time) >= RAY
<1> DEFINE n == rate * time
<1>1. n \in Nat /\ SECONDS_PER_YEAR \in Nat \ {0} /\ RAY \in Nat
  BY ProductNat, InterestAssumption
<1> HIDE DEF n
<1>2. n \div SECONDS_PER_YEAR \in Nat
  BY <1>1, Quotient
<1> QED BY <1>1, <1>2 DEF LinearInterest, n

\* Compounded interest is at least one ray, and grows with time.
LEMMA CompoundedInterestBounds ==
  ASSUME NEW rate \in Nat, NEW short \in Nat, NEW long \in Nat, short <= long
  PROVE  /\ CompoundedInterest(rate, short) \in Nat /\ CompoundedInterest(rate, short) >= RAY
         /\ CompoundedInterest(rate, short) <= CompoundedInterest(rate, long)
<1> DEFINE year2 == SECONDS_PER_YEAR * SECONDS_PER_YEAR
           power2 == RayMul(rate, rate) \div year2
           power3 == RayMul(power2, rate) \div SECONDS_PER_YEAR
           minusTwo(e) == IF e > 2 THEN e - 2 ELSE 0
           linear(e) == rate * e
           square(e) == e * (e - 1) * power2
           cube(e) == e * (e - 1) * minusTwo(e) * power3
           First(e) == linear(e) \div SECONDS_PER_YEAR
           Second(e) == square(e) \div 2
           Third(e) == cube(e) \div 6
<1>1. RAY \in Nat /\ SECONDS_PER_YEAR \in Nat \ {0}
  BY InterestAssumption
<1>2. year2 \in Nat \ {0}
  BY <1>1
<1>3. power2 \in Nat
  <2>1. RayMul(rate, rate) \in Nat
    BY RayMulNat
  <2> HIDE DEF year2
  <2> QED BY <1>2, <2>1, Quotient
<1>4. power3 \in Nat
  <2> HIDE DEF power2
  <2>1. RayMul(power2, rate) \in Nat
    BY <1>3, RayMulNat
  <2> QED BY <1>1, <2>1, Quotient
<1> HIDE DEF year2, power2, power3
<1>5. ASSUME NEW d \in Nat, NEW e \in Nat, 0 < d, d <= e
      PROVE  /\ linear(d) \in Nat /\ linear(d) <= linear(e)
             /\ square(d) \in Nat /\ square(d) <= square(e)
             /\ cube(d) \in Nat /\ cube(d) <= cube(e)
  <2>1. d - 1 \in Nat /\ e - 1 \in Nat /\ d - 1 <= e - 1
    BY <1>5
  <2>2. minusTwo(d) \in Nat /\ minusTwo(e) \in Nat /\ minusTwo(d) <= minusTwo(e)
    BY <1>5
  <2> HIDE DEF minusTwo
  <2>3. ASSUME NEW a \in Nat, NEW b \in Nat, a <= b, NEW x \in Nat, NEW y \in Nat, x <= y
        PROVE  a * x \in Nat /\ b * y \in Nat /\ a * x <= b * y
    <3>1. a * x <= b * x /\ x * b <= y * b
      BY <2>3, ProductMonotone
    <3>2. x * b = b * x /\ y * b = b * y
      OBVIOUS
    <3>3. a * x \in Nat /\ b * x \in Nat /\ b * y \in Nat
      BY ProductNat
    <3> QED BY <3>1, <3>2, <3>3
  <2> DEFINE pd == d * (d - 1)
             pe == e * (e - 1)
  <2>4. pd \in Nat /\ pe \in Nat /\ pd <= pe
    BY <1>5, <2>1, <2>3
  <2>5. rate * d \in Nat /\ rate * e \in Nat /\ rate * d <= rate * e
    BY <1>5, <2>3
  <2> HIDE DEF pd, pe
  <2>6. pd * power2 \in Nat /\ pd * power2 <= pe * power2
    BY <1>3, <2>3, <2>4
  <2> DEFINE qd == pd * minusTwo(d)
             qe == pe * minusTwo(e)
  <2>7. qd \in Nat /\ qe \in Nat /\ qd <= qe
    BY <2>2, <2>3, <2>4
  <2> HIDE DEF qd, qe
  <2>8. qd * power3 \in Nat /\ qd * power3 <= qe * power3
    BY <1>4, <2>3, <2>7
  <2> QED BY <2>5, <2>6, <2>8 DEF pd, pe, qd, qe
<1> HIDE DEF linear, square, cube
<1>6. ASSUME NEW d \in Nat, NEW e \in Nat, 0 < d, d <= e
      PROVE  /\ First(d) \in Nat /\ First(d) <= First(e)
             /\ Second(d) \in Nat /\ Second(d) <= Second(e)
             /\ Third(d) \in Nat /\ Third(d) <= Third(e)
  <2>1. e <= e /\ 0 < e
    BY <1>6
  <2>2. /\ linear(d) \in Nat /\ linear(e) \in Nat /\ linear(d) <= linear(e)
        /\ square(d) \in Nat /\ square(e) \in Nat /\ square(d) <= square(e)
        /\ cube(d) \in Nat /\ cube(e) \in Nat /\ cube(d) <= cube(e)
    BY <1>5, <1>6, <2>1
  <2> QED BY <1>1, <2>2, Quotient, QuotientMonotone
<1> HIDE DEF First, Second, Third
<1>7. \A e \in Nat : e > 0 => CompoundedInterest(rate, e) = RAY + First(e) + Second(e) + Third(e)
  BY DEF CompoundedInterest, First, Second, Third, linear, square, cube, power2, power3, year2
<1>8. CompoundedInterest(rate, 0) = RAY
  BY DEF CompoundedInterest
<1>9. CASE short = 0
  <2>1. CASE long = 0
    BY <1>1, <1>8, <1>9, <2>1
  <2>2. CASE long > 0
    <3>1. First(long) \in Nat /\ Second(long) \in Nat /\ Third(long) \in Nat
      BY <1>6, <2>2
    <3>2. CompoundedInterest(rate, long) = RAY + First(long) + Second(long) + Third(long)
      BY <1>7, <2>2
    <3> QED BY <1>1, <1>8, <1>9, <3>1, <3>2
  <2> QED BY <2>1, <2>2
<1>10. CASE short > 0
  <2>0. short <= short /\ long > 0 /\ long <= long
    BY <1>10
  <2>1. /\ First(short) \in Nat /\ First(long) \in Nat /\ First(short) <= First(long)
        /\ Second(short) \in Nat /\ Second(long) \in Nat /\ Second(short) <= Second(long)
        /\ Third(short) \in Nat /\ Third(long) \in Nat /\ Third(short) <= Third(long)
    BY <1>6, <1>10, <2>0
  <2>2. /\ CompoundedInterest(rate, short) = RAY + First(short) + Second(short) + Third(short)
        /\ CompoundedInterest(rate, long) = RAY + First(long) + Second(long) + Third(long)
    BY <1>7, <1>10, <2>0
  <2> QED BY <1>1, <2>1, <2>2
<1> QED BY <1>9, <1>10

\* Compounded interest is a number, at least one ray.
LEMMA CompoundedInterestNat ==
  ASSUME NEW rate \in Nat, NEW time \in Nat
  PROVE  CompoundedInterest(rate, time) \in Nat /\ CompoundedInterest(rate, time) >= RAY
<1>1. time <= time
  OBVIOUS
<1> QED BY <1>1, CompoundedInterestBounds

\* The strategy divides by what is left of a ray above the optimal usage: never
\* by zero, because a usage is at most a ray.
LEMMA RateAtUsageNat ==
  ASSUME NEW base \in Nat, NEW slope1 \in Nat, NEW slope2 \in Nat, NEW usage \in 0 .. RAY
  PROVE  RateAtUsage(base, slope1, slope2, usage) \in Nat
<1> DEFINE optimal == Strategy.optimalUsage
<1>1. RAY \in Nat /\ optimal \in Nat \ {0} /\ optimal <= RAY
  <2>1. RAY \in Nat /\ \A x \in 1 .. RAY : x \in Nat \ {0} /\ x <= RAY
    BY InterestAssumption
  <2> QED BY <2>1, InterestAssumption
<1>2. usage \in Nat /\ usage <= RAY
  BY <1>1
<1> HIDE DEF optimal
<1>3. ASSUME usage > optimal
      PROVE  RayMul(slope2, RayDiv(usage - optimal, RAY - optimal)) \in Nat
  <2>1. usage - optimal \in Nat /\ RAY - optimal \in Nat \ {0}
    BY <1>1, <1>2, <1>3
  <2> QED BY <2>1, RayDivNat, RayMulNat
<1>4. RayDiv(RayMul(slope1, usage), optimal) \in Nat
  BY <1>1, <1>2, RayMulNat, RayDivNat
<1> QED BY <1>3, <1>4 DEF RateAtUsage, optimal

\* In rays, an amount that is not zero is not zero.
LEMMA WadToRayNat ==
  ASSUME NEW a \in Nat
  PROVE  WadToRay(a) \in Nat /\ (a # 0 => WadToRay(a) # 0)
BY InterestAssumption DEF WadToRay

RatesType == [liquidity : Nat, variable : Nat, stable : Nat]

\* The rates are numbers for whatever is left, lent and unbacked.
LEMMA InterestRatesType ==
  ASSUME NEW available \in Nat, NEW notBacked \in Nat, NEW stableDebt \in Nat,
         NEW variableDebt \in Nat, NEW average \in Nat
  PROVE  InterestRates(available, notBacked, stableDebt, variableDebt, average) \in RatesType
<1> DEFINE debt == stableDebt + variableDebt
           Ratio(part, whole) == IF debt = 0 THEN 0 ELSE RayDiv(part, whole)
           borrowUsage == Ratio(debt, available + debt)
           supplyUsage == Ratio(debt, available + debt + notBacked)
           stableToTotal == Ratio(stableDebt, debt)
           optimal == Strategy.optimalStableToTotalDebt
           excess == IF stableToTotal <= optimal THEN 0
                     ELSE RayMul(Strategy.stableExcessOffset,
                                 RayDiv(stableToTotal - optimal, RAY - optimal))
           variableRate == RateAtUsage(Strategy.baseVariableRate, Strategy.variableSlope1,
                                       Strategy.variableSlope2, borrowUsage)
           stableRate == RateAtUsage(Strategy.variableSlope1 + Strategy.baseStableOffset,
                                     Strategy.stableSlope1, Strategy.stableSlope2, borrowUsage)
           overall == OverallBorrowRate(stableDebt, variableDebt, variableRate, average)
<1>1. /\ Strategy.baseVariableRate \in Nat /\ Strategy.variableSlope1 \in Nat
      /\ Strategy.variableSlope2 \in Nat /\ Strategy.baseStableOffset \in Nat
      /\ Strategy.stableSlope1 \in Nat /\ Strategy.stableSlope2 \in Nat
      /\ Strategy.stableExcessOffset \in Nat /\ optimal \in 0 .. RAY /\ RAY \in Nat
      /\ RESERVE_FACTOR \in 0 .. PERCENTAGE_FACTOR
  BY InterestAssumption
<1>2. debt \in Nat /\ 0 \in 0 .. RAY
  BY <1>1
<1>3. borrowUsage \in 0 .. RAY /\ stableToTotal \in 0 .. RAY /\ supplyUsage \in 0 .. RAY
  <2>1. CASE debt = 0
    BY <1>2, <2>1
  <2>2. CASE debt # 0
    <3>1. /\ available + debt \in Nat \ {0} /\ debt <= available + debt
          /\ available + debt + notBacked \in Nat \ {0} /\ debt <= available + debt + notBacked
          /\ stableDebt <= debt /\ debt \in Nat \ {0}
      BY <1>2, <2>2
    <3> HIDE DEF debt
    <3> QED BY <2>2, <3>1, RatioAtMostOne
  <2> QED BY <2>1, <2>2
<1>4. \A x \in 0 .. RAY : x \in Nat /\ x <= RAY
  BY <1>1
<1> HIDE DEF borrowUsage, stableToTotal, supplyUsage, optimal
<1>5. excess \in Nat
  <2>1. ASSUME ~ stableToTotal <= optimal
        PROVE  stableToTotal - optimal \in Nat /\ RAY - optimal \in Nat \ {0}
    BY <1>1, <1>3, <1>4, <2>1
  <2> QED BY <1>1, <2>1, RayDivNat, RayMulNat
<1>6. variableRate \in Nat /\ stableRate \in Nat
  <2>1. Strategy.variableSlope1 + Strategy.baseStableOffset \in Nat
    BY <1>1
  <2> QED BY <1>1, <1>3, <2>1, RateAtUsageNat
<1> HIDE DEF variableRate, stableRate, excess
<1>7. overall \in Nat
  <2>1. CASE stableDebt + variableDebt = 0
    BY <2>1 DEF OverallBorrowRate
  <2>2. CASE stableDebt + variableDebt # 0
    <3>1. /\ RayMul(WadToRay(variableDebt), variableRate) \in Nat
          /\ RayMul(WadToRay(stableDebt), average) \in Nat
          /\ WadToRay(stableDebt + variableDebt) \in Nat \ {0}
      BY <1>2, <1>6, <2>2, WadToRayNat, RayMulNat
    <3>2. RayMul(WadToRay(variableDebt), variableRate) + RayMul(WadToRay(stableDebt), average) \in Nat
      BY <3>1
    <3> QED BY <2>2, <3>1, <3>2, RayDivNat DEF OverallBorrowRate
  <2> QED BY <2>1, <2>2
<1> HIDE DEF overall
<1>8. PercentMul(RayMul(overall, supplyUsage), PERCENTAGE_FACTOR - RESERVE_FACTOR) \in Nat
  <2>1. PERCENTAGE_FACTOR - RESERVE_FACTOR \in Nat
    BY <1>1 DEF PERCENTAGE_FACTOR
  <2> QED BY <1>3, <1>4, <1>7, <2>1, RayMulNat, PercentMulBounds
<1>9. stableRate + excess \in Nat
  BY <1>5, <1>6
<1>10. InterestRates(available, notBacked, stableDebt, variableDebt, average)
         = [variable |-> variableRate, stable |-> stableRate + excess,
            liquidity |-> PercentMul(RayMul(overall, supplyUsage),
                                     PERCENTAGE_FACTOR - RESERVE_FACTOR)]
  BY DEF InterestRates, borrowUsage, stableToTotal, supplyUsage, optimal, variableRate, stableRate,
         excess, overall
<1> QED BY <1>6, <1>8, <1>9, <1>10 DEF RatesType

-----------------------------------------------------------------------------
(* The inductive invariant *)

TokenInOrder(token) ==
  /\ token \in StableTokenType
  /\ token.supplyTimestamp <= now
  /\ \A u \in Users : token.timestamp[u] <= token.supplyTimestamp

BooksInv ==
  /\ now \in Nat
  /\ lastUpdateTimestamp \in Nat /\ lastUpdateTimestamp <= now
  /\ liquidityIndex \in Nat /\ liquidityIndex >= RAY
  /\ variableBorrowIndex \in Nat /\ variableBorrowIndex >= RAY
  /\ accruedToTreasury \in Nat

RatesInv == rates \in RatesType

CashInv ==
  /\ cash \in Nat
  /\ unbacked \in Nat
  /\ \A x \in flash : x \in Nat /\ flash = {x}

\* The stored totals are the sums of the scaled balances.  Without it a burn
\* could take a total below zero.
ATokenInv == scaled \in [Holders -> Nat] /\ scaledSupply = SumOver(Holders, scaled)

VariableInv == scaledDebt \in [Users -> Nat] /\ scaledDebtSupply = SumOver(Users, scaledDebt)

StableInv == TokenInOrder(stable) /\ stable.supplyTimestamp <= lastUpdateTimestamp

\* The borrowing bit follows the scaled debt and the principal: unlike the debts
\* that are read from them they change only in the operations of the account.
FlagInv ==
  /\ borrowing \subseteq Users
  /\ \A u \in Users : scaledDebt[u] # 0 \/ stable.principal[u] # 0 => u \in borrowing

IInv ==
  /\ BooksInv
  /\ RatesInv
  /\ CashInv
  /\ ATokenInv
  /\ VariableInv
  /\ StableInv
  /\ FlagInv

\* There are finitely many accounts, and users can be holders.
LEMMA FiniteAccounts == IsFiniteSet(Users) /\ IsFiniteSet(Holders) /\ Users \subseteq Holders
BY ReserveAssumption, FS_AddElement, FS_Union, FS_Singleton DEF Holders

\* The totals are numbers, as sums.
LEMMA TotalsNat ==
  ASSUME ATokenInv, VariableInv
  PROVE  scaledSupply \in Nat /\ scaledDebtSupply \in Nat
BY FiniteAccounts, SumType DEF ATokenInv, VariableInv

-----------------------------------------------------------------------------
(* What is read from the books *)

\* What an amount divides to is at most the scaled balance that covers it, and
\* all of it when the amount is what the balance reads.
LEMMA ScaledAmount ==
  ASSUME NEW s \in Nat, NEW i \in Nat, i >= RAY, NEW amount \in Nat, amount <= RayMul(s, i)
  PROVE  /\ RayDiv(amount, i) \in Nat
         /\ RayDiv(amount, i) <= s
         /\ amount = RayMul(s, i) => RayDiv(amount, i) = s
<1>1. i \in Nat \ {0}
  BY InterestAssumption
<1>2. RayMul(s, i) \in Nat /\ RayDiv(RayMul(s, i), i) = s
  BY RayMulNat, RayDivMul
<1> QED BY <1>1, <1>2, RayDivNat, RayDivMonotone

\* A balance is zero exactly when what is stored of it is.
LEMMA ReadZero ==
  ASSUME NEW s \in Nat, NEW i \in Nat, i >= RAY
  PROVE  RayMul(s, i) \in Nat /\ (RayMul(s, i) = 0 <=> s = 0)
<1>1. RayMul(s, i) \in Nat /\ RayMul(s, i) >= s
  BY RayMulNat, RayMulAtLeast
<1>2. RayMul(0, i) = 0
  BY RayMulZero
<1> QED BY <1>1, <1>2

\* Stable debts and their total are numbers, and a debt is zero exactly when its
\* principal is.
LEMMA StableReadings ==
  ASSUME NEW token, TokenInOrder(token), now \in Nat
  PROVE  /\ StableSupply(token) \in Nat
         /\ \A u \in Users : /\ StableBalance(token, u) \in Nat
                             /\ StableBalance(token, u) = 0 <=> token.principal[u] = 0
<1>1. /\ token.supply \in Nat /\ token.avgRate \in Nat /\ token.supplyTimestamp \in Nat
      /\ token.principal \in [Users -> Nat] /\ token.rate \in [Users -> Nat]
      /\ token.timestamp \in [Users -> Nat]
  BY DEF TokenInOrder, StableTokenType
<1>2. now - token.supplyTimestamp \in Nat
  BY <1>1 DEF TokenInOrder
<1>3. CompoundedInterest(token.avgRate, now - token.supplyTimestamp) \in Nat
  BY <1>1, <1>2, CompoundedInterestNat
<1>4. StableSupply(token) \in Nat
  BY <1>1, <1>3, RayMulNat DEF StableSupply
<1>5. ASSUME NEW u \in Users
      PROVE  /\ StableBalance(token, u) \in Nat
             /\ StableBalance(token, u) = 0 <=> token.principal[u] = 0
  <2>1. token.principal[u] \in Nat /\ token.rate[u] \in Nat /\ token.timestamp[u] \in Nat
    BY <1>1
  <2>2. now - token.timestamp[u] \in Nat
    BY <1>1, <2>1 DEF TokenInOrder
  <2>3. /\ CompoundedInterest(token.rate[u], now - token.timestamp[u]) \in Nat
        /\ CompoundedInterest(token.rate[u], now - token.timestamp[u]) >= RAY
    BY <2>1, <2>2, CompoundedInterestNat
  <2> QED BY <2>1, <2>3, ReadZero DEF StableBalance
<1> QED BY <1>4, <1>5

\* The indexes of now are at least one ray, and the borrow index does not fall.
LEMMA IndexReadings ==
  ASSUME BooksInv, RatesInv, VariableInv
  PROVE  /\ NormalizedIncome \in Nat /\ NormalizedIncome >= RAY
         /\ NormalizedDebt \in Nat /\ NormalizedDebt >= RAY
         /\ NextVariableBorrowIndex \in Nat /\ NextVariableBorrowIndex >= RAY
         /\ variableBorrowIndex <= NextVariableBorrowIndex
<1> DEFINE time == now - lastUpdateTimestamp
<1>1. /\ time \in Nat /\ liquidityIndex \in Nat /\ variableBorrowIndex \in Nat
      /\ liquidityIndex >= RAY /\ variableBorrowIndex >= RAY /\ RAY \in Nat
  BY InterestAssumption DEF BooksInv
<1>2. rates.liquidity \in Nat /\ rates.variable \in Nat
  BY DEF RatesInv, RatesType
<1> HIDE DEF time
<1>3. /\ LinearInterest(rates.liquidity, time) \in Nat
      /\ LinearInterest(rates.liquidity, time) >= RAY
      /\ CompoundedInterest(rates.variable, time) \in Nat
      /\ CompoundedInterest(rates.variable, time) >= RAY
  BY <1>1, <1>2, LinearInterestBounds, CompoundedInterestNat
<1>4. ASSUME NEW growth \in Nat, growth >= RAY, NEW index \in Nat, index >= RAY
      PROVE  RayMul(growth, index) \in Nat /\ RayMul(growth, index) >= index
  <2>1. RayMul(growth, index) = RayMul(index, growth)
    <3>1. growth * index = index * growth
      BY <1>4
    <3> QED BY <3>1 DEF RayMul, UnitMul
  <2> QED BY <1>4, <2>1, RayMulNat, RayMulAtLeast
<1>5. NormalizedIncome \in Nat /\ NormalizedIncome >= RAY
  <2>1. CASE lastUpdateTimestamp = now
    BY <1>1, <2>1 DEF NormalizedIncome
  <2>2. CASE lastUpdateTimestamp # now
    <3>1. NormalizedIncome = RayMul(LinearInterest(rates.liquidity, time), liquidityIndex)
      BY <2>2 DEF NormalizedIncome, time
    <3>2. /\ RayMul(LinearInterest(rates.liquidity, time), liquidityIndex) \in Nat
          /\ RayMul(LinearInterest(rates.liquidity, time), liquidityIndex) >= liquidityIndex
      BY <1>1, <1>3, <1>4
    <3> QED BY <1>1, <3>1, <3>2
  <2> QED BY <2>1, <2>2
<1>6. /\ NormalizedDebt \in Nat /\ NormalizedDebt >= RAY
      /\ variableBorrowIndex <= NormalizedDebt
  <2>1. CASE lastUpdateTimestamp = now
    BY <1>1, <2>1 DEF NormalizedDebt
  <2>2. CASE lastUpdateTimestamp # now
    <3>1. NormalizedDebt = RayMul(CompoundedInterest(rates.variable, time), variableBorrowIndex)
      BY <2>2 DEF NormalizedDebt, time
    <3>2. /\ RayMul(CompoundedInterest(rates.variable, time), variableBorrowIndex) \in Nat
          /\ RayMul(CompoundedInterest(rates.variable, time), variableBorrowIndex)
               >= variableBorrowIndex
      BY <1>1, <1>3, <1>4
    <3> QED BY <1>1, <3>1, <3>2
  <2> QED BY <2>1, <2>2
<1> QED BY <1>1, <1>5, <1>6 DEF NextVariableBorrowIndex

\* The index that a debt is read with is the one that the next update stores,
\* except while nothing is borrowed: then every debt is zero.
LEMMA DebtReadings ==
  ASSUME IInv, NEW u \in Users
  PROVE  /\ VariableDebtOf(u) = RayMul(scaledDebt[u], NextVariableBorrowIndex)
         /\ VariableDebtOf(u) \in Nat /\ (VariableDebtOf(u) = 0 <=> scaledDebt[u] = 0)
         /\ StableDebtOf(u) \in Nat /\ (StableDebtOf(u) = 0 <=> stable.principal[u] = 0)
         /\ DebtOf(u) = StableDebtOf(u) + VariableDebtOf(u) /\ DebtOf(u) \in Nat
         /\ \A m \in Modes : DebtOfMode(u, m) \in Nat
<1>1. scaledDebt[u] \in Nat /\ \A w \in Users : scaledDebt[w] \in Nat
  BY DEF IInv, VariableInv
<1>2. /\ NormalizedDebt \in Nat /\ NormalizedDebt >= RAY
      /\ NextVariableBorrowIndex \in Nat /\ NextVariableBorrowIndex >= RAY
  BY IndexReadings DEF IInv
<1>3. VariableDebtOf(u) \in Nat /\ (VariableDebtOf(u) = 0 <=> scaledDebt[u] = 0)
  BY <1>1, <1>2, ReadZero DEF VariableDebtOf
<1>4. VariableDebtOf(u) = RayMul(scaledDebt[u], NextVariableBorrowIndex)
  <2>1. CASE scaledDebtSupply = 0
    <3>1. scaledDebt[u] = 0
      BY <1>1, <2>1, FiniteAccounts, SumZero DEF IInv, VariableInv
    <3> QED BY <1>2, <3>1, RayMulZero DEF VariableDebtOf
  <2>2. CASE scaledDebtSupply # 0
    BY <2>2 DEF VariableDebtOf, NextVariableBorrowIndex
  <2> QED BY <2>1, <2>2
<1>5. StableDebtOf(u) \in Nat /\ (StableDebtOf(u) = 0 <=> stable.principal[u] = 0)
  BY StableReadings DEF StableDebtOf, IInv, StableInv, BooksInv
<1> QED BY <1>3, <1>4, <1>5 DEF DebtOf, DebtOfMode

\* Balances of aTokens are numbers.
LEMMA ATokenReadings ==
  ASSUME IInv, NEW u \in Holders
  PROVE  scaled[u] \in Nat /\ ATokenOf(u) \in Nat
BY IndexReadings, RayMulNat DEF IInv, ATokenInv, ATokenOf

\* The interest that borrowers owe since the last update is not negative, and
\* neither is the treasury's claim.
LEMMA AccruedNat ==
  ASSUME IInv
  PROVE  NextAccruedToTreasury \in Nat
<1> DEFINE short == lastUpdateTimestamp - stable.supplyTimestamp
           long == now - stable.supplyTimestamp
           variableAfter == RayMul(scaledDebtSupply, NextVariableBorrowIndex)
           variableBefore == RayMul(scaledDebtSupply, variableBorrowIndex)
           stableAfter == StableSupply(stable)
           stableBefore == RayMul(stable.supply, CompoundedInterest(stable.avgRate, short))
<1>1. /\ scaledDebtSupply \in Nat /\ variableBorrowIndex \in Nat
      /\ NextVariableBorrowIndex \in Nat /\ variableBorrowIndex <= NextVariableBorrowIndex
      /\ NormalizedIncome \in Nat \ {0} /\ accruedToTreasury \in Nat
  BY TotalsNat, IndexReadings, InterestAssumption DEF IInv, BooksInv
<1>2. variableAfter \in Nat /\ variableBefore \in Nat /\ variableBefore <= variableAfter
  BY <1>1, RayMulNat, RayMulMonotone
<1>3. stable.supply \in Nat /\ stable.avgRate \in Nat /\ stable.supplyTimestamp \in Nat
  BY DEF IInv, StableInv, TokenInOrder, StableTokenType
<1>4. short \in Nat /\ long \in Nat /\ short <= long
  BY <1>3 DEF IInv, StableInv, BooksInv
<1> HIDE DEF short, long
<1>5. /\ CompoundedInterest(stable.avgRate, short) \in Nat
      /\ CompoundedInterest(stable.avgRate, long) \in Nat
      /\ CompoundedInterest(stable.avgRate, short) <= CompoundedInterest(stable.avgRate, long)
  BY <1>3, <1>4, CompoundedInterestNat, CompoundedInterestBounds
<1>6. stableAfter = RayMul(stable.supply, CompoundedInterest(stable.avgRate, long))
  BY DEF StableSupply, long
<1>7. stableAfter \in Nat /\ stableBefore \in Nat /\ stableBefore <= stableAfter
  <2> DEFINE before == CompoundedInterest(stable.avgRate, short)
             after == CompoundedInterest(stable.avgRate, long)
  <2>1. before \in Nat /\ after \in Nat /\ before <= after
    BY <1>5
  <2>2. stableAfter = RayMul(stable.supply, after)
    BY <1>6
  <2> HIDE DEF before, after, stableAfter
  <2>3. /\ RayMul(stable.supply, before) \in Nat /\ RayMul(stable.supply, after) \in Nat
        /\ RayMul(stable.supply, before) <= RayMul(stable.supply, after)
    BY <1>3, <2>1, RayMulNat, RayMulMonotone
  <2> QED BY <2>2, <2>3 DEF before
<1>8. DebtAccrued = variableAfter + stableAfter - variableBefore - stableBefore
  BY DEF DebtAccrued, short
<1> HIDE DEF variableAfter, variableBefore, stableAfter, stableBefore
<1>9. DebtAccrued \in Nat
  BY <1>2, <1>7, <1>8
<1>10. PercentMul(DebtAccrued, RESERVE_FACTOR) \in Nat
  <2>1. RESERVE_FACTOR \in Nat
    BY InterestAssumption DEF PERCENTAGE_FACTOR
  <2> QED BY <1>9, <2>1, PercentMulBounds
<1>11. RayDiv(PercentMul(DebtAccrued, RESERVE_FACTOR), NormalizedIncome) \in Nat
  BY <1>1, <1>10, RayDivNat
<1> QED BY <1>1, <1>11 DEF NextAccruedToTreasury

-----------------------------------------------------------------------------
(* What the parts of an operation keep *)

\* updateState keeps the indexes and the treasury's claim in order.
LEMMA UpdateStateKeepsBooks ==
  ASSUME IInv, UpdateState, now' = now
  PROVE  BooksInv'
<1>1. /\ NormalizedIncome \in Nat /\ NormalizedIncome >= RAY
      /\ NextVariableBorrowIndex \in Nat /\ NextVariableBorrowIndex >= RAY
  BY IndexReadings DEF IInv
<1>2. NextAccruedToTreasury \in Nat /\ now \in Nat
  BY AccruedNat DEF IInv, BooksInv
<1> QED BY <1>1, <1>2 DEF UpdateState, BooksInv

\* An income raises the index, and the treasury's part of it is not lost.
LEMMA IncomeKeepsBooks ==
  ASSUME IInv, NEW toHolders \in Nat, NEW toTreasury \in Nat,
         UpdateStateWithIncome(toHolders, toTreasury), now' = now
  PROVE  /\ BooksInv'
         /\ liquidityIndex' >= NormalizedIncome
         /\ toHolders = 0 => liquidityIndex' = NormalizedIncome
<1> DEFINE total == RayMul(scaledSupply, NormalizedIncome)
                      + RayMul(NextAccruedToTreasury, NormalizedIncome)
           growth == RayDiv(WadToRay(toHolders), WadToRay(total)) + RAY
           index == RayMul(growth, NormalizedIncome)
<1>1. /\ NormalizedIncome \in Nat /\ NormalizedIncome >= RAY
      /\ NextVariableBorrowIndex \in Nat /\ NextVariableBorrowIndex >= RAY
      /\ NextAccruedToTreasury \in Nat /\ scaledSupply \in Nat /\ RAY \in Nat \ {0} /\ now \in Nat
  BY IndexReadings, AccruedNat, TotalsNat, InterestAssumption DEF IInv, BooksInv
<1>2. total \in Nat \ {0}
  <2>1. total # 0
    BY DEF UpdateStateWithIncome
  <2>2. /\ RayMul(scaledSupply, NormalizedIncome) \in Nat
        /\ RayMul(NextAccruedToTreasury, NormalizedIncome) \in Nat
    BY <1>1, RayMulNat
  <2> QED BY <2>1, <2>2
<1>3. growth \in Nat /\ growth >= RAY /\ (toHolders = 0 => growth = RAY)
  <2> HIDE DEF total
  <2>1. WadToRay(total) \in Nat \ {0} /\ WadToRay(toHolders) \in Nat
    BY <1>2, WadToRayNat
  <2>2. RayDiv(WadToRay(toHolders), WadToRay(total)) \in Nat
    BY <2>1, RayDivNat
  <2>3. toHolders = 0 => RayDiv(WadToRay(toHolders), WadToRay(total)) = 0
    <3>1. 0 * WAD_RAY_RATIO = 0
      BY InterestAssumption
    <3> QED BY <2>1, <3>1, RayDivZero DEF WadToRay
  <2> QED BY <1>1, <2>2, <2>3
<1>4. index \in Nat /\ index >= NormalizedIncome /\ (toHolders = 0 => index = NormalizedIncome)
  <2> HIDE DEF growth
  <2>1. index = RayMul(NormalizedIncome, growth)
    <3>1. growth * NormalizedIncome = NormalizedIncome * growth
      BY <1>1, <1>3
    <3> QED BY <3>1 DEF RayMul, UnitMul
  <2>2. RayMul(NormalizedIncome, RAY) = NormalizedIncome
    BY <1>1, RayMulOne
  <2> QED BY <1>1, <1>3, <2>1, <2>2, RayMulNat, RayMulAtLeast
<1>5. /\ liquidityIndex' = index /\ variableBorrowIndex' = NextVariableBorrowIndex
      /\ accruedToTreasury' = NextAccruedToTreasury + RayDiv(toTreasury, index)
      /\ lastUpdateTimestamp' = now
  BY DEF UpdateStateWithIncome
<1> HIDE DEF index
<1>6. RayDiv(toTreasury, index) \in Nat
  BY <1>1, <1>4, RayDivNat
<1>7. accruedToTreasury' \in Nat
  BY <1>1, <1>5, <1>6
<1>8. BooksInv'
  <2>1. index >= RAY
    BY <1>1, <1>4
  <2> QED BY <1>1, <1>4, <1>5, <1>7, <2>1 DEF BooksInv
<1> QED BY <1>4, <1>5, <1>8

\* The rates are numbers, and what will be left is not negative.
LEMMA RatesKept ==
  ASSUME NEW available \in Int, NEW stableDebt \in Nat, NEW average \in Nat,
         BooksInv', VariableInv', unbacked' \in Nat,
         UpdateInterestRates(available, stableDebt, average)
  PROVE  RatesInv' /\ available \in Nat
<1>1. available \in Nat
  BY DEF UpdateInterestRates
<1>2. scaledDebtSupply' \in Nat /\ variableBorrowIndex' \in Nat
  BY FiniteAccounts, SumType DEF VariableInv, BooksInv
<1>3. RayMul(scaledDebtSupply', variableBorrowIndex') \in Nat
  BY <1>2, RayMulNat
<1>4. rates' = InterestRates(available, unbacked', stableDebt,
                             RayMul(scaledDebtSupply', variableBorrowIndex'), average)
  BY DEF UpdateInterestRates
<1> QED BY <1>1, <1>3, <1>4, InterestRatesType DEF RatesInv

\* So it is when no stable debt is minted or burned.
LEMMA VariableRatesKept ==
  ASSUME IInv, NEW available \in Int, BooksInv', VariableInv', unbacked' \in Nat,
         UpdateVariableRates(available)
  PROVE  RatesInv' /\ available \in Nat
<1>1. StableSupply(stable) \in Nat /\ stable.avgRate \in Nat
  BY StableReadings DEF IInv, StableInv, BooksInv, TokenInOrder, StableTokenType
<1> QED BY <1>1, RatesKept DEF UpdateVariableRates

\* Adding to a balance adds as much to the total, and lowers no balance.
LEMMA AddSum ==
  ASSUME NEW S, IsFiniteSet(S), NEW f \in [S -> Nat], NEW u \in S, NEW x \in Nat
  PROVE  /\ Add(f, u, x) \in [S -> Nat]
         /\ SumOver(S, Add(f, u, x)) = SumOver(S, f) + x
         /\ \A w \in S : f[w] <= Add(f, u, x)[w]
         /\ \A w \in S \ {u} : Add(f, u, x)[w] = f[w]
<1> DEFINE g == Add(f, u, x)
<1>1. g \in [S -> Nat] /\ g[u] = f[u] + x /\ \A w \in S \ {u} : g[w] = f[w]
  BY DEF Add
<1> HIDE DEF g
<1>2. SumOver(S, g) + f[u] = SumOver(S, f) + g[u]
  BY <1>1, SumUpdate
<1>3. SumOver(S, g) \in Nat /\ SumOver(S, f) \in Nat /\ f[u] \in Nat
  BY <1>1, SumType
<1>4. SumOver(S, g) = SumOver(S, f) + x
  BY <1>1, <1>2, <1>3
<1>5. \A w \in S : f[w] <= g[w]
  BY <1>1
<1> QED BY <1>1, <1>4, <1>5 DEF g

\* Subtracting at most a balance from it takes as much from the total.
LEMMA SubtractSum ==
  ASSUME NEW S, IsFiniteSet(S), NEW f \in [S -> Nat], NEW u \in S, NEW x \in Nat, x <= f[u]
  PROVE  /\ Subtract(f, u, x) \in [S -> Nat]
         /\ SumOver(S, Subtract(f, u, x)) = SumOver(S, f) - x
         /\ Subtract(f, u, x)[u] = f[u] - x
         /\ \A w \in S \ {u} : Subtract(f, u, x)[w] = f[w]
<1> DEFINE g == Subtract(f, u, x)
<1>1. g \in [S -> Nat] /\ g[u] = f[u] - x /\ \A w \in S \ {u} : g[w] = f[w]
  BY DEF Subtract
<1> HIDE DEF g
<1>2. SumOver(S, g) + f[u] = SumOver(S, f) + g[u]
  BY <1>1, SumUpdate
<1>3. SumOver(S, g) \in Nat /\ SumOver(S, f) \in Nat /\ f[u] \in Nat
  BY <1>1, SumType
<1>4. SumOver(S, g) = SumOver(S, f) - x
  <2> DEFINE before == SumOver(S, f)
             after == SumOver(S, g)
  <2>1. before \in Nat /\ after \in Nat /\ f[u] \in Nat /\ after + f[u] = before + (f[u] - x)
    BY <1>1, <1>2, <1>3
  <2> HIDE DEF before, after
  <2>2. after = before - x
    BY <2>1
  <2> QED BY <2>2 DEF before, after
<1> QED BY <1>1, <1>4 DEF g

\* A mint of aTokens adds the same to a balance and to the total.
LEMMA MintATokenKeeps ==
  ASSUME IInv, BooksInv', NEW u \in Holders, NEW amount \in Nat, MintAToken(u, amount)
  PROVE  ATokenInv'
<1> DEFINE x == RayDiv(amount, liquidityIndex')
<1>1. x \in Nat
  BY RayDivNat, InterestAssumption DEF BooksInv
<1>2. scaled' = Add(scaled, u, x) /\ scaledSupply' = scaledSupply + x
  BY DEF MintAToken
<1> HIDE DEF x
<1> QED BY <1>1, <1>2, AddSum, FiniteAccounts DEF IInv, ATokenInv

\* A burn takes one balance and the total down by the same.
LEMMA BurnATokenKeeps ==
  ASSUME IInv, NEW u \in Users, NEW amount \in Nat, liquidityIndex' = NormalizedIncome, BurnAToken(u, amount)
  PROVE  ATokenInv'
<1> DEFINE x == RayDiv(amount, NormalizedIncome)
<1>1. u \in Holders /\ scaled[u] \in Nat
  BY FiniteAccounts, ATokenReadings
<1>2. x \in Nat
  BY IndexReadings, RayDivNat, InterestAssumption DEF IInv
<1>3. x <= scaled[u] /\ scaled' = Subtract(scaled, u, x) /\ scaledSupply' = scaledSupply - x
  BY DEF BurnAToken
<1> HIDE DEF x
<1> QED BY <1>1, <1>2, <1>3, SubtractSum, FiniteAccounts DEF IInv, ATokenInv

\* A mint of variable debt touches one debt and the total.
LEMMA MintVariableKeeps ==
  ASSUME IInv, BooksInv', NEW u \in Users, NEW amount \in Nat, MintVariableDebt(u, amount)
  PROVE  VariableInv' /\ \A w \in Users \ {u} : scaledDebt'[w] = scaledDebt[w]
<1> DEFINE x == RayDiv(amount, variableBorrowIndex')
<1>1. x \in Nat
  BY RayDivNat, InterestAssumption DEF BooksInv
<1>2. scaledDebt' = Add(scaledDebt, u, x) /\ scaledDebtSupply' = scaledDebtSupply + x
  BY DEF MintVariableDebt
<1> HIDE DEF x
<1> QED BY <1>1, <1>2, AddSum, FiniteAccounts DEF IInv, VariableInv

\* Burning the debt that is read leaves nothing.
LEMMA BurnVariableKeeps ==
  ASSUME IInv, NEW u \in Users, NEW amount \in Nat, amount <= VariableDebtOf(u),
         variableBorrowIndex' = NextVariableBorrowIndex, BurnVariableDebt(u, amount)
  PROVE  /\ VariableInv'
         /\ \A w \in Users \ {u} : scaledDebt'[w] = scaledDebt[w]
         /\ scaledDebt[u] = 0 => scaledDebt'[u] = 0
         /\ amount = VariableDebtOf(u) => scaledDebt'[u] = 0
<1> DEFINE x == RayDiv(amount, NextVariableBorrowIndex)
<1>1. /\ scaledDebt \in [Users -> Nat] /\ scaledDebt[u] \in Nat
      /\ VariableDebtOf(u) = RayMul(scaledDebt[u], NextVariableBorrowIndex)
      /\ NextVariableBorrowIndex \in Nat /\ NextVariableBorrowIndex >= RAY
  BY DebtReadings, IndexReadings DEF IInv, VariableInv
<1>2. x \in Nat /\ x <= scaledDebt[u] /\ (amount = VariableDebtOf(u) => x = scaledDebt[u])
  BY <1>1, ScaledAmount
<1>3. scaledDebt' = Subtract(scaledDebt, u, x) /\ scaledDebtSupply' = scaledDebtSupply - x
  BY DEF BurnVariableDebt
<1> HIDE DEF x
<1>4. /\ scaledDebt' \in [Users -> Nat]
      /\ SumOver(Users, scaledDebt') = SumOver(Users, scaledDebt) - x
      /\ scaledDebt'[u] = scaledDebt[u] - x
      /\ \A w \in Users \ {u} : scaledDebt'[w] = scaledDebt[w]
  BY <1>1, <1>2, <1>3, SubtractSum, FiniteAccounts
<1> QED BY <1>1, <1>2, <1>3, <1>4 DEF IInv, VariableInv

\* The mean rate of two amounts, one of them not zero, is a number.
LEMMA MeanRateNat ==
  ASSUME NEW rate1 \in Nat, NEW amount1 \in Nat, NEW rate2 \in Nat, NEW amount2 \in Nat \ {0}
  PROVE  RayDiv(RayMul(rate1, WadToRay(amount1)) + RayMul(rate2, WadToRay(amount2)),
                WadToRay(amount1 + amount2)) \in Nat
<1>1. amount1 + amount2 \in Nat \ {0}
  OBVIOUS
<1>2. /\ WadToRay(amount1) \in Nat /\ WadToRay(amount2) \in Nat
      /\ WadToRay(amount1 + amount2) \in Nat \ {0}
  BY <1>1, WadToRayNat
<1>3. RayMul(rate1, WadToRay(amount1)) \in Nat /\ RayMul(rate2, WadToRay(amount2)) \in Nat
  BY <1>2, RayMulNat
<1>4. RayMul(rate1, WadToRay(amount1)) + RayMul(rate2, WadToRay(amount2)) \in Nat
  BY <1>3
<1> QED BY <1>2, <1>4, RayDivNat

\* A mint of stable debt touches one principal, and the token's timestamps stay in
\* order.
LEMMA StableMintKeeps ==
  ASSUME now \in Nat, NEW token, TokenInOrder(token), NEW u \in Users,
         NEW amount \in Nat \ {0}, NEW rate \in Nat
  PROVE  /\ TokenInOrder(StableMint(token, u, amount, rate))
         /\ StableMint(token, u, amount, rate).supplyTimestamp = now
         /\ \A w \in Users \ {u} :
              StableMint(token, u, amount, rate).principal[w] = token.principal[w]
<1> DEFINE owed == StableBalance(token, u)
           supply == StableSupply(token)
           Mean(rate1, amount1) ==
             RayDiv(RayMul(rate1, WadToRay(amount1)) + RayMul(rate, WadToRay(amount)),
                    WadToRay(amount1 + amount))
           minted == StableMint(token, u, amount, rate)
<1>1. /\ token.supply \in Nat /\ token.avgRate \in Nat /\ token.supplyTimestamp \in Nat
      /\ token.principal \in [Users -> Nat] /\ token.rate \in [Users -> Nat]
      /\ token.timestamp \in [Users -> Nat] /\ token.supplyTimestamp <= now
      /\ \A w \in Users : token.timestamp[w] <= token.supplyTimestamp
  BY DEF TokenInOrder, StableTokenType
<1>2. owed \in Nat /\ supply \in Nat
  BY StableReadings
<1>3. Mean(token.rate[u], owed) \in Nat /\ Mean(token.avgRate, supply) \in Nat
  <2> HIDE DEF owed, supply
  <2>1. token.rate[u] \in Nat
    BY <1>1
  <2> QED BY <1>1, <1>2, <2>1, MeanRateNat
<1>4. minted = [principal |-> [token.principal EXCEPT ![u] = owed + amount],
                rate |-> [token.rate EXCEPT ![u] = Mean(token.rate[u], owed)],
                timestamp |-> [token.timestamp EXCEPT ![u] = now],
                supply |-> supply + amount,
                avgRate |-> Mean(token.avgRate, supply),
                supplyTimestamp |-> now]
  BY DEF StableMint
<1> HIDE DEF owed, supply, Mean, minted
<1>5. minted \in StableTokenType
  BY <1>1, <1>2, <1>3, <1>4 DEF StableTokenType
<1>6. \A w \in Users : minted.timestamp[w] <= now
  BY <1>1, <1>4
<1>7. \A w \in Users \ {u} : minted.principal[w] = token.principal[w]
  BY <1>1, <1>4
<1>8. minted.supplyTimestamp = now
  BY <1>4
<1>9. TokenInOrder(minted)
  BY <1>5, <1>6, <1>8 DEF TokenInOrder
<1> QED BY <1>7, <1>8, <1>9 DEF minted

\* A burn of at most the stable debt takes it from one principal, and nothing in the
\* token goes below zero although its total may be short of the sum of the debts.
LEMMA StableBurnKeeps ==
  ASSUME now \in Nat, NEW token, TokenInOrder(token), NEW u \in Users,
         NEW amount \in Nat, amount <= StableBalance(token, u)
  PROVE  /\ TokenInOrder(StableBurn(token, u, amount))
         /\ StableBurn(token, u, amount).supplyTimestamp = now
         /\ StableBurn(token, u, amount).principal[u] = StableBalance(token, u) - amount
         /\ \A w \in Users \ {u} : StableBurn(token, u, amount).principal[w] = token.principal[w]
         /\ TotalAfterBurn(token, amount) \in Nat
<1> DEFINE owed == StableBalance(token, u)
           supply == StableSupply(token)
           interest == RayMul(token.avgRate, WadToRay(supply))
           burned == RayMul(token.rate[u], WadToRay(amount))
           dropped == supply <= amount \/ burned >= interest
           average == IF dropped THEN 0 ELSE RayDiv(interest - burned, WadToRay(supply - amount))
           left == IF dropped THEN 0 ELSE supply - amount
           burnt == StableBurn(token, u, amount)
<1>1. /\ token.supply \in Nat /\ token.avgRate \in Nat /\ token.supplyTimestamp \in Nat
      /\ token.principal \in [Users -> Nat] /\ token.rate \in [Users -> Nat]
      /\ token.timestamp \in [Users -> Nat] /\ token.supplyTimestamp <= now
      /\ \A w \in Users : token.timestamp[w] <= token.supplyTimestamp
  BY DEF TokenInOrder, StableTokenType
<1>2. owed \in Nat /\ supply \in Nat /\ amount <= owed
  BY StableReadings
<1>3. burnt = [principal |-> [token.principal EXCEPT ![u] = owed - amount],
               rate |-> [token.rate EXCEPT ![u] = IF amount = owed THEN 0 ELSE token.rate[u]],
               timestamp |-> [token.timestamp EXCEPT ![u] = IF amount = owed THEN 0 ELSE now],
               supply |-> left,
               avgRate |-> average,
               supplyTimestamp |-> now]
  BY DEF StableBurn
<1>4. TotalAfterBurn(token, amount) \in Nat
  <2>1. TotalAfterBurn(token, amount) = IF supply <= amount THEN 0 ELSE supply - amount
    BY DEF TotalAfterBurn
  <2> HIDE DEF supply
  <2> QED BY <1>2, <2>1
<1> HIDE DEF owed, supply, burnt
<1>5. interest \in Nat /\ burned \in Nat
  <2>1. token.rate[u] \in Nat
    BY <1>1
  <2> QED BY <1>1, <1>2, <2>1, WadToRayNat, RayMulNat
<1> HIDE DEF interest, burned
<1>6. left \in Nat /\ average \in Nat
  <2>1. CASE dropped
    BY <2>1
  <2>2. CASE ~ dropped
    <3>1. supply - amount \in Nat \ {0} /\ interest - burned \in Nat
      BY <1>2, <1>5, <2>2
    <3>2. WadToRay(supply - amount) \in Nat \ {0}
      BY <3>1, WadToRayNat
    <3> HIDE DEF dropped
    <3> QED BY <2>2, <3>1, <3>2, RayDivNat
  <2> QED BY <2>1, <2>2
<1> HIDE DEF left, average
<1>7. burnt \in StableTokenType
  <2>1. owed - amount \in Nat
    BY <1>2
  <2> QED BY <1>1, <1>3, <1>6, <2>1 DEF StableTokenType
<1>8. \A w \in Users : burnt.timestamp[w] <= now
  BY <1>1, <1>3
<1>9. burnt.principal[u] = owed - amount
      /\ \A w \in Users \ {u} : burnt.principal[w] = token.principal[w]
  BY <1>1, <1>3
<1>10. burnt.supplyTimestamp = now
  BY <1>3
<1>11. TokenInOrder(burnt)
  BY <1>7, <1>8, <1>10 DEF TokenInOrder
<1> QED BY <1>4, <1>9, <1>10, <1>11 DEF burnt, owed

\* The stable debt token is in order after an update of the books when its new
\* state is.
LEMMA StableKept ==
  ASSUME IInv, now' = now, lastUpdateTimestamp' = now,
         NEW token, stable' = token, TokenInOrder(token)
  PROVE  /\ StableInv'
         /\ StableSupply(stable)' \in Nat
         /\ stable'.supply \in Nat /\ stable'.avgRate \in Nat
<1>1. StableInv'
  BY DEF StableInv, TokenInOrder
<1>2. now \in Nat
  BY DEF IInv, BooksInv
<1>3. StableSupply(token) \in Nat
  BY <1>2, StableReadings
<1>4. StableSupply(stable)' = StableSupply(token)
  BY DEF StableSupply
<1>5. token.supply \in Nat /\ token.avgRate \in Nat
  BY DEF TokenInOrder, StableTokenType
<1> QED BY <1>1, <1>3, <1>4, <1>5

\* An operation on one account keeps the flags when it keeps that account's.
LEMMA FlagKept ==
  ASSUME IInv, NEW u \in Users, borrowing' \subseteq Users, borrowing \ {u} \subseteq borrowing',
         \A w \in Users \ {u} : /\ scaledDebt'[w] = scaledDebt[w]
                                /\ stable'.principal[w] = stable.principal[w],
         scaledDebt'[u] # 0 \/ stable'.principal[u] # 0 => u \in borrowing'
  PROVE  FlagInv'
BY DEF IInv, FlagInv

\* Debt of one kind is burned and the bit cleared when it was all the debt.
LEMMA BurnDebtKeeps ==
  ASSUME IInv, now' = now, lastUpdateTimestamp' = now,
         variableBorrowIndex' = NextVariableBorrowIndex, BooksInv', unbacked' \in Nat,
         NEW u \in Users, NEW mode \in Modes, NEW amount \in Nat, amount <= DebtOfMode(u, mode),
         NEW available \in Int,
         BurnDebt(u, mode, amount, available), borrowing' = BorrowingAfter(u, mode, amount)
  PROVE  VariableInv' /\ StableInv' /\ FlagInv' /\ RatesInv' /\ available \in Nat
<1>1. /\ TokenInOrder(stable) /\ now \in Nat
      /\ scaledDebt \in [Users -> Nat] /\ stable.principal \in [Users -> Nat]
      /\ borrowing \subseteq Users
      /\ scaledDebt[u] # 0 \/ stable.principal[u] # 0 => u \in borrowing
  BY DEF IInv, StableInv, BooksInv, VariableInv, TokenInOrder, StableTokenType, FlagInv
<1>2. /\ VariableDebtOf(u) \in Nat /\ (VariableDebtOf(u) = 0 <=> scaledDebt[u] = 0)
      /\ StableDebtOf(u) \in Nat /\ (StableDebtOf(u) = 0 <=> stable.principal[u] = 0)
      /\ DebtOf(u) = StableDebtOf(u) + VariableDebtOf(u)
  BY DebtReadings
<1>3. borrowing' = (IF DebtOf(u) = amount THEN borrowing \ {u} ELSE borrowing)
  BY DEF BorrowingAfter
<1>4. CASE mode = Stable
  <2>1. /\ stable' = StableBurn(stable, u, amount)
        /\ UNCHANGED <<scaledDebt, scaledDebtSupply>>
        /\ UpdateInterestRates(available, TotalAfterBurn(stable, amount), stable'.avgRate)
    BY <1>4 DEF BurnDebt, variableVars
  <2>2. amount <= StableDebtOf(u)
    BY <1>4 DEF DebtOfMode
  <2>3. amount <= StableBalance(stable, u)
    BY <2>2 DEF StableDebtOf
  <2>4. /\ TokenInOrder(stable')
        /\ stable'.principal[u] = StableDebtOf(u) - amount
        /\ \A w \in Users \ {u} : stable'.principal[w] = stable.principal[w]
        /\ TotalAfterBurn(stable, amount) \in Nat
    <3>1. /\ TokenInOrder(StableBurn(stable, u, amount))
          /\ StableBurn(stable, u, amount).principal[u] = StableBalance(stable, u) - amount
          /\ \A w \in Users \ {u} :
               StableBurn(stable, u, amount).principal[w] = stable.principal[w]
          /\ TotalAfterBurn(stable, amount) \in Nat
      BY <1>1, <2>3, StableBurnKeeps
    <3> QED BY <2>1, <3>1 DEF StableDebtOf
  <2>5. VariableInv'
    BY <2>1 DEF IInv, VariableInv
  <2>6. StableInv' /\ stable'.avgRate \in Nat
    BY <2>1, StableBurnKeeps, StableKept, <1>1, <2>3
  <2>7. RatesInv' /\ available \in Nat
    BY <2>1, <2>4, <2>5, <2>6, RatesKept
  <2>8. scaledDebt'[u] # 0 \/ stable'.principal[u] # 0 => u \in borrowing'
    <3>1. CASE DebtOf(u) = amount
      <4>1. amount = StableDebtOf(u) /\ VariableDebtOf(u) = 0
        BY <1>2, <2>2, <3>1
      <4>2. scaledDebt'[u] = 0
        BY <1>2, <2>1, <4>1
      <4>3. stable'.principal[u] = 0
        BY <1>2, <2>4, <4>1
      <4> QED BY <4>2, <4>3
    <3>2. CASE DebtOf(u) # amount
      <4>1. StableDebtOf(u) = 0 => stable'.principal[u] = 0
        BY <1>2, <2>2, <2>4
      <4> QED BY <1>1, <1>2, <1>3, <2>1, <3>2, <4>1
    <3> QED BY <3>1, <3>2
  <2>9. FlagInv'
    BY <1>1, <1>3, <2>1, <2>4, <2>8, FlagKept
  <2> QED BY <2>5, <2>6, <2>7, <2>9
<1>5. CASE mode = Variable
  <2>0. mode # Stable
    BY <1>5 DEF Stable, Variable
  <2>1. BurnVariableDebt(u, amount) /\ stable' = stable /\ UpdateVariableRates(available)
    BY <2>0 DEF BurnDebt
  <2>2. amount <= VariableDebtOf(u)
    BY <2>0 DEF DebtOfMode
  <2>3. /\ VariableInv'
        /\ \A w \in Users \ {u} : scaledDebt'[w] = scaledDebt[w]
        /\ scaledDebt[u] = 0 => scaledDebt'[u] = 0
        /\ amount = VariableDebtOf(u) => scaledDebt'[u] = 0
    BY <2>1, <2>2, BurnVariableKeeps
  <2>4. StableInv'
    BY <1>1, <2>1, StableKept
  <2>5. RatesInv' /\ available \in Nat
    BY <2>1, <2>3, VariableRatesKept
  <2>6. scaledDebt'[u] # 0 \/ stable'.principal[u] # 0 => u \in borrowing'
    <3>1. CASE DebtOf(u) = amount
      BY <1>2, <2>1, <2>2, <2>3, <3>1
    <3>2. CASE DebtOf(u) # amount
      BY <1>1, <1>3, <2>1, <2>3, <3>2
    <3> QED BY <3>1, <3>2
  <2>7. FlagInv'
    BY <1>1, <1>3, <2>1, <2>3, <2>6, FlagKept
  <2> QED BY <2>3, <2>4, <2>5, <2>7
<1> QED BY <1>4, <1>5 DEF Modes

\* A liquidation burns the variable debt first and the stable debt for the rest.
LEMMA BurnDebtTokensKeeps ==
  ASSUME IInv, now' = now, lastUpdateTimestamp' = now,
         variableBorrowIndex' = NextVariableBorrowIndex,
         NEW u \in Users, NEW paid \in Nat, paid <= DebtOf(u), BurnDebtTokens(u, paid)
  PROVE  /\ VariableInv' /\ StableInv' /\ FlagInv'
         /\ StableDebtAfter(u, paid) \in Nat
         /\ StableSupply(stable)' \in Nat /\ stable'.avgRate \in Nat
<1> DEFINE vd == VariableDebtOf(u)
           sd == StableDebtOf(u)
           fromVariable == IF paid <= vd THEN paid ELSE vd
<1>1. /\ TokenInOrder(stable) /\ now \in Nat
      /\ scaledDebt \in [Users -> Nat] /\ stable.principal \in [Users -> Nat]
      /\ borrowing \subseteq Users
      /\ scaledDebt[u] # 0 \/ stable.principal[u] # 0 => u \in borrowing
  BY DEF IInv, StableInv, BooksInv, VariableInv, TokenInOrder, StableTokenType, FlagInv
<1>2. /\ vd \in Nat /\ (vd = 0 <=> scaledDebt[u] = 0)
      /\ sd \in Nat /\ (sd = 0 <=> stable.principal[u] = 0)
      /\ DebtOf(u) = sd + vd /\ sd = StableBalance(stable, u)
  BY DebtReadings DEF StableDebtOf
<1>3. /\ IF fromVariable = 0 THEN UNCHANGED variableVars ELSE BurnVariableDebt(u, fromVariable)
      /\ stable' = IF fromVariable = paid THEN stable
                   ELSE StableBurn(stable, u, paid - fromVariable)
      /\ borrowing' = IF paid = DebtOf(u) THEN borrowing \ {u} ELSE borrowing
  BY DEF BurnDebtTokens
<1>4. StableDebtAfter(u, paid) = IF paid <= vd THEN StableSupply(stable)
                                 ELSE TotalAfterBurn(stable, paid - vd)
  BY DEF StableDebtAfter
<1>5. fromVariable \in Nat /\ fromVariable <= vd
  BY <1>2
<1>6. /\ VariableInv'
      /\ \A w \in Users \ {u} : scaledDebt'[w] = scaledDebt[w]
      /\ scaledDebt[u] = 0 => scaledDebt'[u] = 0
      /\ fromVariable = vd => scaledDebt'[u] = 0
  <2>1. CASE fromVariable = 0
    <3>1. UNCHANGED <<scaledDebt, scaledDebtSupply>>
      BY <1>3, <2>1 DEF variableVars
    <3>2. VariableInv'
      BY <3>1 DEF IInv, VariableInv
    <3> QED BY <1>2, <2>1, <3>1, <3>2
  <2>2. CASE fromVariable # 0
    <3>1. BurnVariableDebt(u, fromVariable)
      BY <1>3, <2>2
    <3> HIDE DEF fromVariable
    <3> QED BY <1>5, <3>1, BurnVariableKeeps
  <2> QED BY <2>1, <2>2
<1>7. CASE paid <= vd
  <2>1. stable' = stable /\ StableDebtAfter(u, paid) = StableSupply(stable)
    BY <1>3, <1>4, <1>7
  <2>2. StableSupply(stable) \in Nat
    BY <1>1, StableReadings
  <2>3. StableInv' /\ StableSupply(stable)' \in Nat /\ stable'.avgRate \in Nat
    BY <1>1, <2>1, StableKept
  <2>4. scaledDebt'[u] # 0 \/ stable'.principal[u] # 0 => u \in borrowing'
    <3>1. CASE paid = DebtOf(u)
      <4>1. sd = 0 /\ fromVariable = vd
        BY <1>2, <1>7, <3>1
      <4> QED BY <1>2, <1>6, <2>1, <4>1
    <3>2. CASE paid # DebtOf(u)
      BY <1>1, <1>3, <1>6, <2>1, <3>2
    <3> QED BY <3>1, <3>2
  <2>5. FlagInv'
    BY <1>1, <1>3, <1>6, <2>1, <2>4, FlagKept
  <2> QED BY <1>6, <2>1, <2>2, <2>3, <2>5
<1>8. CASE ~ paid <= vd
  <2>1. /\ fromVariable = vd /\ fromVariable # paid
        /\ paid - vd \in Nat /\ paid - vd <= StableBalance(stable, u)
    BY <1>2, <1>8
  <2>2. /\ stable' = StableBurn(stable, u, paid - vd)
        /\ StableDebtAfter(u, paid) = TotalAfterBurn(stable, paid - vd)
    BY <1>3, <1>4, <1>8, <2>1
  <2> DEFINE rest == paid - vd
             burnt == StableBurn(stable, u, rest)
  <2>3. rest \in Nat /\ rest <= StableBalance(stable, u)
    BY <2>1
  <2> HIDE DEF rest, vd, sd, fromVariable
  <2>4. /\ TokenInOrder(burnt)
        /\ burnt.principal[u] = StableBalance(stable, u) - rest
        /\ \A w \in Users \ {u} : burnt.principal[w] = stable.principal[w]
        /\ TotalAfterBurn(stable, rest) \in Nat
    BY <1>1, <2>3, StableBurnKeeps
  <2>5. stable' = burnt /\ StableDebtAfter(u, paid) = TotalAfterBurn(stable, rest)
    BY <2>2 DEF rest
  <2> HIDE DEF burnt
  <2>6. StableInv' /\ StableSupply(stable)' \in Nat /\ stable'.avgRate \in Nat
    BY <2>4, <2>5, StableKept
  <2>7. scaledDebt'[u] # 0 \/ stable'.principal[u] # 0 => u \in borrowing'
    <3>1. CASE paid = DebtOf(u)
      <4>1. rest = sd
        BY <1>2, <3>1 DEF rest
      <4>2. stable'.principal[u] = 0
        BY <1>2, <2>4, <2>5, <4>1
      <4> QED BY <1>6, <2>1, <4>2
    <3>2. CASE paid # DebtOf(u)
      <4>1. sd = 0 => rest = 0
        BY <1>2, <2>3
      <4>2. sd = 0 => stable'.principal[u] = 0
        BY <1>2, <2>4, <2>5, <4>1
      <4> QED BY <1>1, <1>2, <1>3, <1>6, <3>2, <4>2
    <3> QED BY <3>1, <3>2
  <2>8. FlagInv'
    BY <1>1, <1>3, <1>6, <2>4, <2>5, <2>7, FlagKept
  <2> QED BY <1>6, <2>4, <2>5, <2>6, <2>8
<1> QED BY <1>7, <1>8

\* Seizing at most what an account has, the fee included, takes no balance below
\* zero and leaves the total of the aToken right.
LEMMA SeizeKeeps ==
  ASSUME IInv, NEW u \in Users, NEW l \in Users, NEW seized \in Nat, NEW fee \in Nat,
         seized <= ATokenOf(u), NEW receiveAToken \in BOOLEAN,
         SeizeATokens(u, l, seized, fee, receiveAToken)
  PROVE  ATokenInv'
<1> DEFINE x == RayDiv(seized, NormalizedIncome)
           taken == Subtract(scaled, u, x)
           left == IF receiveAToken THEN Add(taken, l, x) ELSE taken
           scaledFee == RayDiv(fee, NormalizedIncome)
           y == IF scaledFee > left[u] THEN left[u] ELSE scaledFee
           total == IF receiveAToken THEN scaledSupply ELSE scaledSupply - x
<1>1. /\ u \in Holders /\ l \in Holders /\ Treasury \in Holders /\ IsFiniteSet(Holders)
      /\ scaled \in [Holders -> Nat] /\ scaled[u] \in Nat /\ scaledSupply = SumOver(Holders, scaled)
      /\ NormalizedIncome \in Nat /\ NormalizedIncome >= RAY /\ NormalizedIncome # 0
      /\ scaledSupply \in Nat
  BY FiniteAccounts, IndexReadings, TotalsNat, InterestAssumption DEF IInv, ATokenInv, Holders
<1>2. x \in Nat /\ x <= scaled[u]
  BY <1>1, ScaledAmount DEF ATokenOf
<1>3. scaledFee \in Nat
  BY <1>1, RayDivNat
<1>4. scaled' = Add(Subtract(left, u, y), Treasury, y) /\ scaledSupply' = total
  BY DEF SeizeATokens
<1> HIDE DEF x, scaledFee
<1>5. taken \in [Holders -> Nat] /\ SumOver(Holders, taken) = SumOver(Holders, scaled) - x
  BY <1>1, <1>2, SubtractSum
<1> HIDE DEF taken
<1>6. left \in [Holders -> Nat] /\ SumOver(Holders, left) = total /\ total \in Nat
  <2>1. CASE receiveAToken
    <3>1. /\ Add(taken, l, x) \in [Holders -> Nat]
          /\ SumOver(Holders, Add(taken, l, x)) = SumOver(Holders, taken) + x
      BY <1>1, <1>2, <1>5, AddSum
    <3>2. SumOver(Holders, taken) + x = scaledSupply
      BY <1>1, <1>2, <1>5
    <3> QED BY <1>1, <2>1, <3>1, <3>2
  <2>2. CASE ~ receiveAToken
    <3>1. SumOver(Holders, taken) \in Nat
      BY <1>1, <1>5, SumType
    <3> QED BY <1>1, <1>5, <2>2, <3>1
  <2> QED BY <2>1, <2>2
<1> HIDE DEF left, total
<1>7. y \in Nat /\ y <= left[u]
  <2>1. left[u] \in Nat
    BY <1>1, <1>6
  <2> QED BY <1>3, <2>1
<1> HIDE DEF y
<1> DEFINE rest == Subtract(left, u, y)
<1>8. rest \in [Holders -> Nat] /\ SumOver(Holders, rest) = total - y
  BY <1>1, <1>6, <1>7, SubtractSum
<1> HIDE DEF rest
<1>9. /\ Add(rest, Treasury, y) \in [Holders -> Nat]
      /\ SumOver(Holders, Add(rest, Treasury, y)) = SumOver(Holders, rest) + y
  BY <1>1, <1>7, <1>8, AddSum
<1>10. SumOver(Holders, rest) + y = total
  BY <1>6, <1>7, <1>8
<1>11. scaled' = Add(rest, Treasury, y)
  BY <1>4 DEF rest
<1> QED BY <1>4, <1>9, <1>10, <1>11 DEF ATokenInv

\* When the collateral does not suffice, what is paid for it is at most what the
\* liquidator asked to pay.
LEMMA PaidAtMostAsked ==
  ASSUME NEW balance \in Nat, NEW asked \in Nat, NEW bonus \in Nat \ {0},
         PercentMul(asked, bonus) > balance
  PROVE  PercentDiv(balance, bonus) <= asked
<1> DEFINE product == asked * bonus
           half == bonus \div 2
           n == balance * PERCENTAGE_FACTOR + half
<1>1. product \in Nat /\ half \in Nat /\ half < bonus /\ bonus * asked = product
  BY ProductNat
<1>2. PercentMul(asked, bonus) = (product + 5000) \div 10000
  BY DEF PercentMul, PERCENTAGE_FACTOR
<1>3. PercentDiv(balance, bonus) = n \div bonus
  BY DEF PercentDiv
<1> HIDE DEF product, half
<1>4. 10000 * (balance + 1) <= product + 5000
  BY <1>1, <1>2
<1>5. n \in Nat /\ n < product + bonus
  BY <1>1, <1>4 DEF PERCENTAGE_FACTOR
<1> HIDE DEF n
<1>6. n < bonus * asked + bonus
  BY <1>1, <1>5
<1>7. n \div bonus <= asked
  BY <1>5, <1>6, QuotientAtMost
<1> QED BY <1>3, <1>7

\* Borrowing keeps all but the flash loan, which a borrowing may end.
LEMMA AddDebtKeeps ==
  ASSUME IInv, NEW u \in Users, NEW amount \in Nat, NEW mode \in Modes, NEW released \in Nat,
         AddDebt(u, amount, mode, released)
  PROVE  /\ BooksInv' /\ RatesInv' /\ ATokenInv' /\ VariableInv' /\ StableInv' /\ FlagInv'
         /\ cash' \in Nat /\ unbacked' \in Nat
<1>1. /\ UpdateState /\ amount # 0
      /\ borrowing' = IF DebtOfMode(u, mode) = 0 THEN borrowing \cup {u} ELSE borrowing
      /\ IF mode = Stable
         THEN /\ stable' = StableMint(stable, u, amount, rates.stable)
              /\ UNCHANGED variableVars
         ELSE /\ MintVariableDebt(u, amount)
              /\ UNCHANGED stable
      /\ UNCHANGED <<now, unbacked, scaled, scaledSupply>>
      /\ UpdateInterestRates(cash - released, StableSupply(stable)', stable'.avgRate)
      /\ cash' = cash - released
  BY DEF AddDebt, aTokenVars
<1>2. /\ TokenInOrder(stable) /\ now \in Nat /\ cash \in Nat /\ unbacked \in Nat
      /\ scaledDebt \in [Users -> Nat] /\ stable.principal \in [Users -> Nat]
      /\ borrowing \subseteq Users
      /\ scaledDebt[u] # 0 \/ stable.principal[u] # 0 => u \in borrowing
      /\ rates.stable \in Nat
  BY DEF IInv, StableInv, BooksInv, VariableInv, CashInv, RatesInv, RatesType, TokenInOrder,
         StableTokenType, FlagInv
<1>3. BooksInv' /\ lastUpdateTimestamp' = now
  BY <1>1, UpdateStateKeepsBooks DEF UpdateState
<1>4. ATokenInv'
  BY <1>1 DEF IInv, ATokenInv
<1>5. u \in borrowing' /\ borrowing' \subseteq Users /\ borrowing \subseteq borrowing'
  <2>1. DebtOfMode(u, mode) # 0 => u \in borrowing
    BY <1>2, DebtReadings DEF DebtOfMode
  <2> QED BY <1>1, <1>2, <2>1
<1>6. /\ VariableInv' /\ StableInv' /\ StableSupply(stable)' \in Nat /\ stable'.avgRate \in Nat
      /\ \A w \in Users \ {u} : /\ scaledDebt'[w] = scaledDebt[w]
                                /\ stable'.principal[w] = stable.principal[w]
  <2>1. CASE mode = Stable
    <3> DEFINE minted == StableMint(stable, u, amount, rates.stable)
    <3>1. stable' = minted /\ UNCHANGED <<scaledDebt, scaledDebtSupply>>
      BY <1>1, <2>1 DEF variableVars
    <3>2. /\ TokenInOrder(minted)
          /\ \A w \in Users \ {u} : minted.principal[w] = stable.principal[w]
      <4>1. amount \in Nat \ {0}
        BY <1>1
      <4> QED BY <1>2, <4>1, StableMintKeeps
    <3> HIDE DEF minted
    <3>3. StableInv' /\ StableSupply(stable)' \in Nat /\ stable'.avgRate \in Nat
      BY <1>1, <1>3, <3>1, <3>2, StableKept
    <3>4. VariableInv'
      BY <3>1 DEF IInv, VariableInv
    <3> QED BY <3>1, <3>2, <3>3, <3>4
  <2>2. CASE mode # Stable
    <3>1. MintVariableDebt(u, amount) /\ stable' = stable
      BY <1>1, <2>2
    <3>2. VariableInv' /\ \A w \in Users \ {u} : scaledDebt'[w] = scaledDebt[w]
      BY <1>3, <3>1, MintVariableKeeps
    <3>3. StableInv' /\ StableSupply(stable)' \in Nat /\ stable'.avgRate \in Nat
      BY <1>1, <1>2, <1>3, <3>1, StableKept
    <3> QED BY <3>1, <3>2, <3>3
  <2> QED BY <2>1, <2>2
<1>7. FlagInv'
  BY <1>5, <1>6, FlagKept
<1>8. RatesInv' /\ cash - released \in Nat
  <2>1. cash - released \in Int /\ unbacked' \in Nat
    BY <1>1, <1>2
  <2> QED BY <1>1, <1>3, <1>6, <2>1, RatesKept
<1> QED BY <1>1, <1>2, <1>3, <1>4, <1>6, <1>7, <1>8

-----------------------------------------------------------------------------
(* The operations *)

\* An operation that touches no debt keeps the debts in order.
LEMMA DebtUntouched ==
  ASSUME IInv, UNCHANGED <<now, debtVars>>, lastUpdateTimestamp' \in {now, lastUpdateTimestamp}
  PROVE  VariableInv' /\ StableInv' /\ FlagInv'
<1>1. UNCHANGED <<now, scaledDebt, scaledDebtSupply, stable, borrowing>>
  BY DEF debtVars, variableVars
<1>2. VariableInv' /\ FlagInv'
  BY <1>1 DEF IInv, VariableInv, FlagInv
<1>3. StableInv'
  BY <1>1 DEF IInv, StableInv, TokenInOrder, BooksInv
<1> QED BY <1>2, <1>3

\* executeSupply keeps the invariant.
LEMMA SupplyKeeps ==
  ASSUME IInv, NEW v \in Users, NEW amount \in Nat, Supply(v, amount)
  PROVE  IInv'
<1>1. /\ UpdateState /\ UNCHANGED <<now, unbacked, debtVars, flash>>
      /\ UpdateVariableRates(cash + amount) /\ cash' = cash + amount /\ MintAToken(v, amount)
  BY DEF Supply
<1>2. cash \in Nat /\ unbacked \in Nat
  BY DEF IInv, CashInv
<1>3. BooksInv' /\ lastUpdateTimestamp' = now
  BY <1>1, UpdateStateKeepsBooks DEF UpdateState
<1>4. VariableInv' /\ StableInv' /\ FlagInv'
  BY <1>1, <1>3, DebtUntouched
<1>5. ATokenInv'
  BY <1>1, <1>3, FiniteAccounts, MintATokenKeeps
<1>6. RatesInv'
  <2>1. cash + amount \in Int /\ unbacked' \in Nat
    BY <1>1, <1>2
  <2> QED BY <1>1, <1>3, <1>4, <2>1, VariableRatesKept
<1>7. CashInv'
  BY <1>1, <1>2 DEF IInv, CashInv
<1> QED BY <1>3, <1>4, <1>5, <1>6, <1>7 DEF IInv

\* executeMintUnbacked keeps the invariant.
LEMMA MintUnbackedKeeps ==
  ASSUME IInv, NEW v \in Users, NEW amount \in Nat, MintUnbacked(v, amount)
  PROVE  IInv'
<1>1. /\ UpdateState /\ UNCHANGED <<now, cash, debtVars, flash>>
      /\ unbacked' = unbacked + amount
      /\ UpdateVariableRates(cash) /\ MintAToken(v, amount)
  BY DEF MintUnbacked
<1>2. cash \in Nat /\ unbacked \in Nat
  BY DEF IInv, CashInv
<1>3. BooksInv' /\ lastUpdateTimestamp' = now
  BY <1>1, UpdateStateKeepsBooks DEF UpdateState
<1>4. VariableInv' /\ StableInv' /\ FlagInv'
  BY <1>1, <1>3, DebtUntouched
<1>5. ATokenInv'
  BY <1>1, <1>3, FiniteAccounts, MintATokenKeeps
<1>6. RatesInv'
  <2>1. cash \in Int /\ unbacked' \in Nat
    BY <1>1, <1>2
  <2> QED BY <1>1, <1>3, <1>4, <2>1, VariableRatesKept
<1>7. CashInv'
  BY <1>1, <1>2 DEF IInv, CashInv
<1> QED BY <1>3, <1>4, <1>5, <1>6, <1>7 DEF IInv

\* A part of an income that is a percentage of it leaves the rest.
LEMMA Parts ==
  ASSUME NEW income \in Nat, NEW share \in 0 .. PERCENTAGE_FACTOR
  PROVE  PercentMul(income, share) \in Nat /\ income - PercentMul(income, share) \in Nat
<1>1. share \in Nat /\ share <= PERCENTAGE_FACTOR
  BY DEF PERCENTAGE_FACTOR
<1>2. PercentMul(income, share) \in Nat /\ PercentMul(income, share) <= income
  BY <1>1, PercentMulBounds
<1> QED BY <1>2

\* executeBackUnbacked keeps the invariant.
LEMMA BackUnbackedKeeps ==
  ASSUME IInv, NEW amount \in Nat, NEW fee \in Nat, BackUnbacked(amount, fee)
  PROVE  IInv'
<1> DEFINE backing == IF amount < unbacked THEN amount ELSE unbacked
           feeToProtocol == PercentMul(fee, BRIDGE_FEE_TO_PROTOCOL)
<1>1. /\ UpdateStateWithIncome(fee - feeToProtocol, feeToProtocol)
      /\ unbacked' = unbacked - backing
      /\ UNCHANGED <<now, scaled, scaledSupply, debtVars, flash>>
      /\ UpdateVariableRates(cash + backing + fee)
      /\ cash' = cash + backing + fee
  BY DEF BackUnbacked, aTokenVars
<1>2. cash \in Nat /\ unbacked \in Nat
  BY DEF IInv, CashInv
<1>3. /\ backing \in Nat /\ unbacked - backing \in Nat
      /\ feeToProtocol \in Nat /\ fee - feeToProtocol \in Nat
  BY <1>2, Parts, ReserveAssumption
<1> HIDE DEF backing, feeToProtocol
<1>4. BooksInv'
  BY <1>1, <1>3, IncomeKeepsBooks
<1>5. VariableInv' /\ StableInv' /\ FlagInv'
  BY <1>1, DebtUntouched DEF UpdateStateWithIncome
<1>6. ATokenInv'
  BY <1>1 DEF IInv, ATokenInv
<1>7. RatesInv'
  <2>1. cash + backing + fee \in Int /\ unbacked' \in Nat
    BY <1>1, <1>2, <1>3
  <2> QED BY <1>1, <1>4, <1>5, <2>1, VariableRatesKept
<1>8. CashInv'
  BY <1>1, <1>2, <1>3 DEF IInv, CashInv
<1> QED BY <1>4, <1>5, <1>6, <1>7, <1>8 DEF IInv

\* executeWithdraw keeps the invariant, for a given amount and for all of it.
LEMMA WithdrawKeeps ==
  ASSUME IInv, NEW u \in Users, NEW asked \in Nat, Withdraw(u, asked)
  PROVE  IInv'
<1> DEFINE amount == IF asked = MaxUint THEN ATokenOf(u) ELSE asked
<1>1. /\ UpdateState /\ UNCHANGED <<now, unbacked, debtVars, flash>>
      /\ amount <= ATokenOf(u) /\ amount <= cash
      /\ UpdateVariableRates(cash - amount) /\ cash' = cash - amount /\ BurnAToken(u, amount)
  BY DEF Withdraw
<1>2. cash \in Nat /\ unbacked \in Nat /\ amount \in Nat
  BY FiniteAccounts, ATokenReadings DEF IInv, CashInv
<1> HIDE DEF amount
<1>3. BooksInv' /\ lastUpdateTimestamp' = now /\ liquidityIndex' = NormalizedIncome
  BY <1>1, UpdateStateKeepsBooks DEF UpdateState
<1>4. VariableInv' /\ StableInv' /\ FlagInv'
  BY <1>1, <1>3, DebtUntouched
<1>5. ATokenInv'
  BY <1>1, <1>2, <1>3, BurnATokenKeeps
<1>6. RatesInv'
  <2>1. cash - amount \in Int /\ unbacked' \in Nat
    BY <1>1, <1>2
  <2> QED BY <1>1, <1>3, <1>4, <2>1, VariableRatesKept
<1>7. CashInv'
  BY <1>1, <1>2 DEF IInv, CashInv
<1> QED BY <1>3, <1>4, <1>5, <1>6, <1>7 DEF IInv

\* A transfer of aTokens keeps the invariant, to oneself as well.
LEMMA TransferKeeps ==
  ASSUME IInv, NEW u \in Users, NEW v \in Users, NEW amount \in Nat, Transfer(u, v, amount)
  PROVE  IInv'
<1> DEFINE x == RayDiv(amount, NormalizedIncome)
           taken == Subtract(scaled, u, x)
<1>1. /\ scaled' = Add(taken, v, x) /\ x <= scaled[u]
      /\ UNCHANGED <<now, liquidityIndex, variableBorrowIndex, accruedToTreasury,
                     lastUpdateTimestamp, rates, unbacked, cash, scaledSupply, debtVars, flash>>
  BY DEF Transfer, indexVars
<1>2. /\ u \in Holders /\ v \in Holders /\ IsFiniteSet(Holders)
      /\ scaled \in [Holders -> Nat] /\ scaled[u] \in Nat /\ scaledSupply = SumOver(Holders, scaled)
      /\ NormalizedIncome \in Nat /\ NormalizedIncome >= RAY
      /\ scaledSupply \in Nat
  BY FiniteAccounts, IndexReadings, TotalsNat DEF IInv, ATokenInv
<1>3. x \in Nat /\ x <= scaled[u]
  BY <1>1, <1>2, RayDivNat, InterestAssumption
<1> HIDE DEF x
<1>4. taken \in [Holders -> Nat] /\ SumOver(Holders, taken) = scaledSupply - x
  BY <1>2, <1>3, SubtractSum
<1> HIDE DEF taken
<1>5. scaled' \in [Holders -> Nat] /\ SumOver(Holders, scaled') = SumOver(Holders, taken) + x
  BY <1>1, <1>2, <1>3, <1>4, AddSum
<1>6. SumOver(Holders, taken) + x = scaledSupply
  BY <1>2, <1>3, <1>4
<1>7. ATokenInv'
  BY <1>1, <1>5, <1>6 DEF ATokenInv
<1>8. VariableInv' /\ StableInv' /\ FlagInv'
  BY <1>1, DebtUntouched
<1>9. BooksInv' /\ RatesInv' /\ CashInv'
  BY <1>1 DEF IInv, BooksInv, RatesInv, CashInv
<1> QED BY <1>7, <1>8, <1>9 DEF IInv

\* executeMintToTreasury keeps the invariant.
LEMMA MintToTreasuryKeeps ==
  ASSUME IInv, MintToTreasury
  PROVE  IInv'
<1> DEFINE x == RayDiv(RayMul(accruedToTreasury, NormalizedIncome), NormalizedIncome)
<1>1. /\ accruedToTreasury' = 0 /\ scaled' = Add(scaled, Treasury, x)
      /\ scaledSupply' = scaledSupply + x
      /\ UNCHANGED <<now, liquidityIndex, variableBorrowIndex, lastUpdateTimestamp, rates,
                     unbacked, cash, debtVars, flash>>
  BY DEF MintToTreasury
<1>2. x \in Nat
  BY IndexReadings, RayDivMul DEF IInv, BooksInv
<1> HIDE DEF x
<1>3. ATokenInv'
  BY <1>1, <1>2, FiniteAccounts, AddSum DEF IInv, ATokenInv, Holders
<1>4. VariableInv' /\ StableInv' /\ FlagInv'
  BY <1>1, DebtUntouched
<1>5. BooksInv' /\ RatesInv' /\ CashInv'
  BY <1>1 DEF IInv, BooksInv, RatesInv, CashInv
<1> QED BY <1>3, <1>4, <1>5 DEF IInv

\* executeBorrow keeps the invariant.
LEMMA BorrowKeeps ==
  ASSUME IInv, NEW u \in Users, NEW amount \in Nat, NEW mode \in Modes, Borrow(u, amount, mode)
  PROVE  IInv'
<1>1. AddDebt(u, amount, mode, amount) /\ flash' = flash
  BY DEF Borrow
<1>2. /\ BooksInv' /\ RatesInv' /\ ATokenInv' /\ VariableInv' /\ StableInv' /\ FlagInv'
      /\ cash' \in Nat /\ unbacked' \in Nat
  BY <1>1, AddDebtKeeps
<1>3. CashInv'
  BY <1>1, <1>2 DEF IInv, CashInv
<1> QED BY <1>2, <1>3 DEF IInv

\* executeRepay keeps the invariant: the bit goes with the last of the debt.
LEMMA RepayKeeps ==
  ASSUME IInv, NEW u \in Users, NEW asked \in Nat, NEW mode \in Modes, Repay(u, asked, mode)
  PROVE  IInv'
<1> DEFINE owed == DebtOfMode(u, mode)
           amount == IF asked = MaxUint \/ owed < asked THEN owed ELSE asked
<1>1. /\ UpdateState
      /\ UNCHANGED <<now, unbacked, scaled, scaledSupply, flash>>
      /\ BurnDebt(u, mode, amount, cash + amount)
      /\ borrowing' = BorrowingAfter(u, mode, amount)
      /\ cash' = cash + amount
  BY DEF Repay, aTokenVars
<1>2. cash \in Nat /\ unbacked \in Nat /\ amount \in Nat /\ amount <= DebtOfMode(u, mode)
  BY DebtReadings DEF IInv, CashInv
<1> HIDE DEF amount
<1>3. /\ BooksInv' /\ lastUpdateTimestamp' = now
      /\ variableBorrowIndex' = NextVariableBorrowIndex
  BY <1>1, UpdateStateKeepsBooks DEF UpdateState
<1>4. VariableInv' /\ StableInv' /\ FlagInv' /\ RatesInv'
  <2>1. cash + amount \in Int /\ unbacked' \in Nat /\ now' = now
    BY <1>1, <1>2
  <2> QED BY <1>1, <1>2, <1>3, <2>1, BurnDebtKeeps
<1>5. ATokenInv' /\ CashInv'
  BY <1>1, <1>2 DEF IInv, ATokenInv, CashInv
<1> QED BY <1>3, <1>4, <1>5 DEF IInv

\* Repaying with aTokens keeps the invariant.
LEMMA RepayWithATokensKeeps ==
  ASSUME IInv, NEW u \in Users, NEW asked \in Nat, NEW mode \in Modes,
         RepayWithATokens(u, asked, mode)
  PROVE  IInv'
<1> DEFINE owed == DebtOfMode(u, mode)
           offered == IF asked = MaxUint THEN ATokenOf(u) ELSE asked
           amount == IF offered < owed THEN offered ELSE owed
<1>1. /\ UpdateState
      /\ UNCHANGED <<now, unbacked, cash, flash>>
      /\ BurnDebt(u, mode, amount, cash)
      /\ borrowing' = BorrowingAfter(u, mode, amount)
      /\ BurnAToken(u, amount)
  BY DEF RepayWithATokens
<1>2. cash \in Nat /\ unbacked \in Nat /\ amount \in Nat /\ amount <= DebtOfMode(u, mode)
  <2>1. ATokenOf(u) \in Nat /\ owed \in Nat
    BY FiniteAccounts, ATokenReadings, DebtReadings
  <2>2. offered \in Nat
    BY <2>1
  <2> HIDE DEF offered
  <2> QED BY <2>1, <2>2 DEF IInv, CashInv
<1> HIDE DEF amount
<1>3. /\ BooksInv' /\ lastUpdateTimestamp' = now /\ liquidityIndex' = NormalizedIncome
      /\ variableBorrowIndex' = NextVariableBorrowIndex
  BY <1>1, UpdateStateKeepsBooks DEF UpdateState
<1>4. VariableInv' /\ StableInv' /\ FlagInv' /\ RatesInv'
  <2>1. cash \in Int /\ unbacked' \in Nat /\ now' = now
    BY <1>1, <1>2
  <2> QED BY <1>1, <1>2, <1>3, <2>1, BurnDebtKeeps
<1>5. ATokenInv'
  BY <1>1, <1>2, <1>3, BurnATokenKeeps
<1>6. CashInv'
  BY <1>1, <1>2 DEF IInv, CashInv
<1> QED BY <1>3, <1>4, <1>5, <1>6 DEF IInv

\* executeSwapBorrowRateMode keeps the invariant: the debt moves under the same bit.
LEMMA SwapKeeps ==
  ASSUME IInv, NEW u \in Users, NEW mode \in Modes, SwapBorrowRateMode(u, mode)
  PROVE  IInv'
<1> DEFINE owed == DebtOfMode(u, mode)
           total == IF mode = Stable THEN TotalAfterBurn(stable, owed) ELSE stable'.supply
           burnt == StableBurn(stable, u, owed)
           minted == StableMint(stable, u, owed, rates.stable)
<1>1. /\ owed # 0 /\ UpdateState
      /\ IF mode = Stable
         THEN stable' = burnt /\ MintVariableDebt(u, owed)
         ELSE stable' = minted /\ BurnVariableDebt(u, owed)
      /\ UNCHANGED <<now, unbacked, cash, scaled, scaledSupply, borrowing, flash>>
      /\ UpdateInterestRates(cash, total, stable'.avgRate)
  BY DEF SwapBorrowRateMode, aTokenVars
<1>2. /\ TokenInOrder(stable) /\ now \in Nat /\ cash \in Nat /\ unbacked \in Nat
      /\ borrowing \subseteq Users
      /\ scaledDebt[u] # 0 \/ stable.principal[u] # 0 => u \in borrowing
      /\ rates.stable \in Nat
  BY DEF IInv, StableInv, BooksInv, CashInv, RatesInv, RatesType, FlagInv
<1>3. owed \in Nat \ {0}
  BY <1>1, DebtReadings
<1>4. u \in borrowing
  BY <1>1, <1>2, DebtReadings DEF DebtOfMode
<1>5. /\ BooksInv' /\ lastUpdateTimestamp' = now
      /\ variableBorrowIndex' = NextVariableBorrowIndex
  BY <1>1, UpdateStateKeepsBooks DEF UpdateState
<1>6. /\ VariableInv' /\ StableInv' /\ total \in Nat /\ stable'.avgRate \in Nat
      /\ \A w \in Users \ {u} : /\ scaledDebt'[w] = scaledDebt[w]
                                /\ stable'.principal[w] = stable.principal[w]
  <2>1. CASE mode = Stable
    <3>1. owed <= StableBalance(stable, u)
      BY <1>3, <2>1 DEF DebtOfMode, StableDebtOf
    <3>2. stable' = burnt /\ MintVariableDebt(u, owed) /\ total = TotalAfterBurn(stable, owed)
      BY <1>1, <2>1
    <3> HIDE DEF owed, total
    <3>3. /\ TokenInOrder(burnt) /\ TotalAfterBurn(stable, owed) \in Nat
          /\ \A w \in Users \ {u} : burnt.principal[w] = stable.principal[w]
      BY <1>2, <1>3, <3>1, StableBurnKeeps
    <3>4. VariableInv' /\ \A w \in Users \ {u} : scaledDebt'[w] = scaledDebt[w]
      BY <1>3, <1>5, <3>2, MintVariableKeeps
    <3> HIDE DEF burnt
    <3>5. StableInv' /\ stable'.avgRate \in Nat
      BY <1>1, <1>5, <3>2, <3>3, StableKept
    <3> QED BY <3>2, <3>3, <3>4, <3>5
  <2>2. CASE mode # Stable
    <3>1. owed <= VariableDebtOf(u)
      BY <1>3, <2>2 DEF DebtOfMode
    <3>2. stable' = minted /\ BurnVariableDebt(u, owed) /\ total = stable'.supply
      BY <1>1, <2>2
    <3> HIDE DEF owed, total
    <3>3. /\ TokenInOrder(minted)
          /\ \A w \in Users \ {u} : minted.principal[w] = stable.principal[w]
      BY <1>2, <1>3, StableMintKeeps
    <3>4. VariableInv' /\ \A w \in Users \ {u} : scaledDebt'[w] = scaledDebt[w]
      BY <1>3, <1>5, <3>1, <3>2, BurnVariableKeeps
    <3> HIDE DEF minted
    <3>5. StableInv' /\ stable'.avgRate \in Nat /\ stable'.supply \in Nat
      BY <1>1, <1>5, <3>2, <3>3, StableKept
    <3> QED BY <3>2, <3>3, <3>4, <3>5
  <2> QED BY <2>1, <2>2
<1> HIDE DEF total, owed
<1>7. FlagInv'
  BY <1>1, <1>2, <1>4, <1>6, FlagKept
<1>8. RatesInv'
  <2>1. cash \in Int /\ unbacked' \in Nat
    BY <1>1, <1>2
  <2> QED BY <1>1, <1>5, <1>6, <2>1, RatesKept
<1>9. ATokenInv' /\ CashInv'
  BY <1>1 DEF IInv, ATokenInv, CashInv
<1> QED BY <1>5, <1>6, <1>7, <1>8, <1>9 DEF IInv

\* executeRebalanceStableBorrowRate keeps the invariant.
LEMMA RebalanceKeeps ==
  ASSUME IInv, NEW u \in Users, RebalanceStableBorrowRate(u)
  PROVE  IInv'
<1> DEFINE owed == StableDebtOf(u)
           burnt == StableBurn(stable, u, owed)
           minted == StableMint(burnt, u, owed, rates.stable)
<1>1. /\ owed # 0 /\ UpdateState /\ stable' = minted
      /\ UNCHANGED <<now, unbacked, cash, scaled, scaledSupply, scaledDebt, scaledDebtSupply,
                     borrowing, flash>>
      /\ UpdateInterestRates(cash, stable'.supply, stable'.avgRate)
  BY DEF RebalanceStableBorrowRate, aTokenVars, variableVars
<1>2. /\ TokenInOrder(stable) /\ now \in Nat /\ cash \in Nat /\ unbacked \in Nat
      /\ borrowing \subseteq Users
      /\ scaledDebt[u] # 0 \/ stable.principal[u] # 0 => u \in borrowing
      /\ rates.stable \in Nat
  BY DEF IInv, StableInv, BooksInv, CashInv, RatesInv, RatesType, FlagInv
<1>3. owed \in Nat \ {0} /\ u \in borrowing /\ owed <= StableBalance(stable, u)
  <2>1. owed \in Nat /\ (owed = 0 <=> stable.principal[u] = 0)
    BY DebtReadings
  <2> QED BY <1>1, <1>2, <2>1 DEF StableDebtOf
<1>4. BooksInv' /\ lastUpdateTimestamp' = now
  BY <1>1, UpdateStateKeepsBooks DEF UpdateState
<1> HIDE DEF owed
<1>5. /\ TokenInOrder(burnt)
      /\ \A w \in Users \ {u} : burnt.principal[w] = stable.principal[w]
  BY <1>2, <1>3, StableBurnKeeps
<1> HIDE DEF burnt
<1>6. /\ TokenInOrder(minted)
      /\ \A w \in Users \ {u} : minted.principal[w] = burnt.principal[w]
  BY <1>2, <1>3, <1>5, StableMintKeeps
<1> HIDE DEF minted
<1>7. StableInv' /\ stable'.supply \in Nat /\ stable'.avgRate \in Nat
  BY <1>1, <1>4, <1>6, StableKept
<1>8. VariableInv'
  BY <1>1 DEF IInv, VariableInv
<1>9. FlagInv'
  BY <1>1, <1>2, <1>3, <1>5, <1>6, FlagKept
<1>10. RatesInv'
  <2>1. cash \in Int /\ unbacked' \in Nat
    BY <1>1, <1>2
  <2> QED BY <1>1, <1>4, <1>7, <1>8, <2>1, RatesKept
<1>11. ATokenInv' /\ CashInv'
  BY <1>1 DEF IInv, ATokenInv, CashInv
<1> QED BY <1>4, <1>7, <1>8, <1>9, <1>10, <1>11 DEF IInv

\* A liquidation for other collateral keeps the invariant.
LEMMA LiquidateDebtKeeps ==
  ASSUME IInv, NEW u \in Users, NEW paid \in Nat, LiquidateDebt(u, paid)
  PROVE  IInv'
<1>1. /\ paid <= DebtOf(u) /\ UpdateState /\ BurnDebtTokens(u, paid)
      /\ UNCHANGED <<now, unbacked, scaled, scaledSupply, flash>>
      /\ UpdateInterestRates(cash + paid, StableDebtAfter(u, paid), stable'.avgRate)
      /\ cash' = cash + paid
  BY DEF LiquidateDebt, aTokenVars
<1>2. cash \in Nat /\ unbacked \in Nat
  BY DEF IInv, CashInv
<1>3. /\ BooksInv' /\ lastUpdateTimestamp' = now
      /\ variableBorrowIndex' = NextVariableBorrowIndex
  BY <1>1, UpdateStateKeepsBooks DEF UpdateState
<1>4. /\ VariableInv' /\ StableInv' /\ FlagInv'
      /\ StableDebtAfter(u, paid) \in Nat /\ stable'.avgRate \in Nat
  BY <1>1, <1>3, BurnDebtTokensKeeps
<1>5. RatesInv'
  <2>1. cash + paid \in Int /\ unbacked' \in Nat
    BY <1>1, <1>2
  <2> QED BY <1>1, <1>3, <1>4, <2>1, RatesKept
<1>6. ATokenInv' /\ CashInv'
  BY <1>1, <1>2 DEF IInv, ATokenInv, CashInv
<1> QED BY <1>3, <1>4, <1>5, <1>6 DEF IInv

\* A liquidation for other debt keeps the invariant.
LEMMA LiquidateCollateralKeeps ==
  ASSUME IInv, NEW l \in Users, NEW u \in Users, NEW seized \in Nat, NEW fee \in Nat,
         NEW receiveAToken \in BOOLEAN, LiquidateCollateral(l, u, seized, fee, receiveAToken)
  PROVE  IInv'
<1>1. /\ seized + fee <= ATokenOf(u) /\ SeizeATokens(u, l, seized, fee, receiveAToken)
      /\ UNCHANGED <<now, unbacked, debtVars, flash>>
  BY DEF LiquidateCollateral
<1>2. /\ cash \in Nat /\ unbacked \in Nat /\ ATokenOf(u) \in Nat /\ unbacked' \in Nat
  BY <1>1, FiniteAccounts, ATokenReadings DEF IInv, CashInv
<1>3. ATokenInv'
  <2>1. seized <= ATokenOf(u)
    BY <1>1, <1>2
  <2> QED BY <1>1, <2>1, SeizeKeeps
<1>4. CASE UNCHANGED <<indexVars, rates, cash>>
  <2>1. /\ BooksInv' /\ RatesInv' /\ CashInv'
        /\ lastUpdateTimestamp' = lastUpdateTimestamp
    BY <1>1, <1>4 DEF IInv, BooksInv, RatesInv, CashInv, indexVars
  <2>2. VariableInv' /\ StableInv' /\ FlagInv'
    BY <1>1, <2>1, DebtUntouched
  <2> QED BY <1>3, <2>1, <2>2 DEF IInv
<1>5. CASE /\ seized <= cash /\ UpdateState /\ UpdateVariableRates(cash - seized)
           /\ cash' = cash - seized
  <2>1. BooksInv' /\ lastUpdateTimestamp' = now
    BY <1>1, <1>5, UpdateStateKeepsBooks DEF UpdateState
  <2>2. VariableInv' /\ StableInv' /\ FlagInv'
    BY <1>1, <2>1, DebtUntouched
  <2>3. cash - seized \in Nat /\ cash - seized \in Int
    BY <1>2, <1>5
  <2>4. RatesInv'
    BY <1>2, <1>5, <2>1, <2>2, <2>3, VariableRatesKept
  <2>5. CashInv'
    BY <1>1, <1>2, <1>5, <2>3 DEF IInv, CashInv
  <2> QED BY <1>3, <2>1, <2>2, <2>4, <2>5 DEF IInv
<1> QED BY <1>4, <1>5 DEF LiquidateCollateral

\* A liquidation in which debt and collateral are this reserve keeps the invariant.
LEMMA LiquidateBothKeeps ==
  ASSUME IInv, NEW l \in Users, NEW u \in Users, NEW asked \in Nat, NEW fee \in Nat,
         NEW receiveAToken \in BOOLEAN, LiquidateBoth(l, u, asked, fee, receiveAToken)
  PROVE  IInv'
<1> DEFINE balance == ATokenOf(u)
           most == PercentMul(asked, LIQUIDATION_BONUS)
           paid == IF most > balance THEN PercentDiv(balance, LIQUIDATION_BONUS) ELSE asked
           seized == (IF most > balance THEN balance ELSE most) - fee
<1>1. /\ asked <= DebtOf(u) /\ seized > 0 /\ UpdateState /\ BurnDebtTokens(u, paid)
      /\ SeizeATokens(u, l, seized, fee, receiveAToken)
      /\ UNCHANGED <<now, unbacked, flash>>
      /\ \/ /\ UpdateInterestRates(cash + paid, StableDebtAfter(u, paid), stable'.avgRate)
            /\ cash' = cash + paid
         \/ /\ seized <= cash
            /\ UpdateInterestRates(cash - seized, StableSupply(stable)', stable'.avgRate)
            /\ cash' = cash - seized + paid
  BY DEF LiquidateBoth
<1>2. /\ cash \in Nat /\ unbacked \in Nat /\ balance \in Nat /\ unbacked' \in Nat
      /\ DebtOf(u) \in Nat
  BY <1>1, FiniteAccounts, ATokenReadings, DebtReadings DEF IInv, CashInv
<1> HIDE DEF balance
<1>3. LIQUIDATION_BONUS \in Nat \ {0}
  BY ReserveAssumption DEF PERCENTAGE_FACTOR
<1>4. paid \in Nat /\ paid <= DebtOf(u)
  <2>1. CASE most > balance
    <3>1. PercentDiv(balance, LIQUIDATION_BONUS) \in Nat
      BY <1>2, <1>3, PercentDivBounds
    <3>2. PercentDiv(balance, LIQUIDATION_BONUS) <= asked
      BY <1>2, <1>3, <2>1, PaidAtMostAsked
    <3> HIDE DEF most
    <3> QED BY <1>1, <1>2, <2>1, <3>1, <3>2
  <2>2. CASE ~ most > balance
    <3> HIDE DEF most
    <3> QED BY <1>1, <1>2, <2>2
  <2> QED BY <2>1, <2>2
<1>5. seized \in Nat /\ seized <= ATokenOf(u)
  <2>1. most \in Nat
    BY <1>3, PercentMulBounds
  <2> HIDE DEF most
  <2>2. seized \in Nat /\ seized <= balance
    BY <1>1, <1>2, <2>1
  <2> QED BY <2>2 DEF balance
<1> HIDE DEF paid, seized
<1>6. ATokenInv'
  BY <1>1, <1>5, SeizeKeeps
<1>7. /\ BooksInv' /\ lastUpdateTimestamp' = now
      /\ variableBorrowIndex' = NextVariableBorrowIndex
  BY <1>1, UpdateStateKeepsBooks DEF UpdateState
<1>8. /\ VariableInv' /\ StableInv' /\ FlagInv'
      /\ StableDebtAfter(u, paid) \in Nat /\ StableSupply(stable)' \in Nat
      /\ stable'.avgRate \in Nat
  BY <1>1, <1>4, <1>7, BurnDebtTokensKeeps
<1>9. RatesInv' /\ cash' \in Nat
  <2>1. cash + paid \in Int /\ cash - seized \in Int
    BY <1>2, <1>4, <1>5
  <2>2. CASE /\ UpdateInterestRates(cash + paid, StableDebtAfter(u, paid), stable'.avgRate)
             /\ cash' = cash + paid
    BY <1>2, <1>4, <1>7, <1>8, <2>1, <2>2, RatesKept
  <2>3. CASE /\ UpdateInterestRates(cash - seized, StableSupply(stable)', stable'.avgRate)
             /\ cash' = cash - seized + paid
    <3>1. RatesInv' /\ cash - seized \in Nat
      BY <1>2, <1>7, <1>8, <2>1, <2>3, RatesKept
    <3> QED BY <1>4, <2>3, <3>1
  <2> QED BY <1>1, <2>2, <2>3
<1>10. CashInv'
  BY <1>1, <1>2, <1>9 DEF IInv, CashInv
<1> QED BY <1>6, <1>7, <1>8, <1>9, <1>10 DEF IInv

\* Lending a flash loan keeps the invariant.
LEMMA FlashLoanKeeps ==
  ASSUME IInv, NEW amount \in Nat, FlashLoan(amount)
  PROVE  IInv'
<1>1. /\ amount <= cash /\ flash' = {amount} /\ cash' = cash - amount
      /\ UNCHANGED <<now, liquidityIndex, variableBorrowIndex, accruedToTreasury,
                     lastUpdateTimestamp, rates, unbacked, scaled, scaledSupply, debtVars>>
  BY DEF FlashLoan, indexVars, aTokenVars
<1>2. CashInv'
  BY <1>1 DEF IInv, CashInv
<1>3. VariableInv' /\ StableInv' /\ FlagInv'
  BY <1>1, DebtUntouched
<1>4. BooksInv' /\ RatesInv' /\ ATokenInv'
  BY <1>1 DEF IInv, BooksInv, RatesInv, ATokenInv
<1> QED BY <1>2, <1>3, <1>4 DEF IInv

\* _handleFlashLoanRepayment keeps the invariant.
LEMMA FlashLoanRepaidKeeps ==
  ASSUME IInv, FlashLoanRepaid
  PROVE  IInv'
<1> PICK amount \in flash :
      LET premium == PercentMul(amount, FLASH_PREMIUM)
          premiumToProtocol == PercentMul(premium, FLASH_PREMIUM_TO_PROTOCOL)
      IN
      /\ UpdateStateWithIncome(premium - premiumToProtocol, premiumToProtocol)
      /\ UNCHANGED <<now, unbacked, aTokenVars, debtVars>>
      /\ UpdateVariableRates(cash + amount + premium)
      /\ cash' = cash + amount + premium
      /\ flash' = {}
  BY DEF FlashLoanRepaid
<1> DEFINE premium == PercentMul(amount, FLASH_PREMIUM)
           premiumToProtocol == PercentMul(premium, FLASH_PREMIUM_TO_PROTOCOL)
<1>1. /\ UpdateStateWithIncome(premium - premiumToProtocol, premiumToProtocol)
      /\ UNCHANGED <<now, unbacked, scaled, scaledSupply, debtVars>>
      /\ UpdateVariableRates(cash + amount + premium)
      /\ cash' = cash + amount + premium
      /\ flash' = {}
  BY DEF aTokenVars
<1>2. cash \in Nat /\ unbacked \in Nat /\ amount \in Nat
  BY DEF IInv, CashInv
<1>3. premium \in Nat /\ premiumToProtocol \in Nat /\ premium - premiumToProtocol \in Nat
  <2>1. premium \in Nat
    BY <1>2, Parts, ReserveAssumption
  <2> HIDE DEF premium
  <2> QED BY <2>1, Parts, ReserveAssumption
<1> HIDE DEF premium, premiumToProtocol
<1>4. BooksInv'
  BY <1>1, <1>3, IncomeKeepsBooks
<1>5. VariableInv' /\ StableInv' /\ FlagInv'
  BY <1>1, DebtUntouched DEF UpdateStateWithIncome
<1>6. ATokenInv' /\ CashInv'
  BY <1>1, <1>2, <1>3 DEF IInv, ATokenInv, CashInv
<1>7. RatesInv'
  <2>1. cash + amount + premium \in Int /\ unbacked' \in Nat
    BY <1>1, <1>2, <1>3
  <2> QED BY <1>1, <1>4, <1>5, <2>1, VariableRatesKept
<1> QED BY <1>4, <1>5, <1>6, <1>7 DEF IInv

\* A flash loan that becomes debt keeps the invariant.
LEMMA FlashLoanKeptKeeps ==
  ASSUME IInv, NEW u \in Users, NEW mode \in Modes, FlashLoanKept(u, mode)
  PROVE  IInv'
<1>1. PICK amount \in flash : AddDebt(u, amount, mode, 0) /\ flash' = {}
  BY DEF FlashLoanKept
<1>2. amount \in Nat /\ 0 \in Nat
  BY DEF IInv, CashInv
<1>3. /\ BooksInv' /\ RatesInv' /\ ATokenInv' /\ VariableInv' /\ StableInv' /\ FlagInv'
      /\ cash' \in Nat /\ unbacked' \in Nat
  BY <1>1, <1>2, AddDebtKeeps
<1>4. CashInv'
  BY <1>1, <1>3 DEF CashInv
<1> QED BY <1>3, <1>4 DEF IInv

\* Time alone keeps the invariant.
LEMMA TickKeeps ==
  ASSUME IInv, Tick
  PROVE  IInv'
<1>1. /\ now' = now + 1
      /\ UNCHANGED <<liquidityIndex, variableBorrowIndex, accruedToTreasury, lastUpdateTimestamp,
                     rates, unbacked, cash, scaled, scaledSupply, scaledDebt, scaledDebtSupply,
                     stable, borrowing, flash>>
  BY DEF Tick, indexVars, aTokenVars, debtVars, variableVars
<1>2. BooksInv' /\ RatesInv' /\ CashInv' /\ ATokenInv' /\ VariableInv' /\ FlagInv'
  BY <1>1 DEF IInv, BooksInv, RatesInv, CashInv, ATokenInv, VariableInv, FlagInv
<1>3. StableInv'
  <2>1. now \in Nat /\ stable.supplyTimestamp \in Nat /\ stable.supplyTimestamp <= now
    BY DEF IInv, BooksInv, StableInv, TokenInOrder, StableTokenType
  <2>2. stable'.supplyTimestamp <= now'
    BY <1>1, <2>1
  <2> QED BY <1>1, <2>2 DEF IInv, StableInv, TokenInOrder
<1> QED BY <1>2, <1>3 DEF IInv

-----------------------------------------------------------------------------
(* The books stay in order *)

\* A reserve starts with its books in order, and every operation keeps them so.
THEOREM BooksInvariant == Spec => []IInv
<1>1. Init => IInv
  <2> SUFFICES ASSUME Init PROVE IInv
    OBVIOUS
  <2>1. stable = NoDebt /\ NoDebt \in StableTokenType
    BY DEF Init, NoDebt, StableTokenType
  <2>2. BooksInv /\ RatesInv /\ CashInv
    BY InterestAssumption DEF Init, BooksInv, RatesInv, RatesType, CashInv
  <2>3. StableInv
    BY <2>1 DEF Init, StableInv, TokenInOrder, NoDebt
  <2>4. FlagInv
    BY <2>1 DEF Init, FlagInv, NoDebt
  <2>5. ATokenInv /\ VariableInv
    <3>1. SumOver(Holders, scaled) = 0 /\ SumOver(Users, scaledDebt) = 0
      BY SumAllZero DEF Init
    <3> QED BY <3>1 DEF Init, ATokenInv, VariableInv
  <2> QED BY <2>2, <2>3, <2>4, <2>5 DEF IInv
<1>2. IInv /\ [Next]_vars => IInv'
  <2> SUFFICES ASSUME IInv, [Next]_vars PROVE IInv'
    OBVIOUS
  <2>0. /\ Amounts \subseteq Nat /\ FlashAmounts \subseteq Nat /\ UnbackedAmounts \subseteq Nat
        /\ FeeAmounts \subseteq Nat /\ Amounts \cup {MaxUint} \subseteq Nat
        /\ \A u \in Users : Amounts \cup {DebtOf(u)} \subseteq Nat
    <3>1. MaxUint \in Nat
      BY SMT DEF MaxUint
    <3>2. \A u \in Users : DebtOf(u) \in Nat
      BY DebtReadings
    <3> QED BY <3>1, <3>2, ReserveAssumption
  <2>1. CASE Tick
    BY <2>1, TickKeeps
  <2>2. CASE \E v \in Users, x \in Amounts : Supply(v, x)
    BY <2>0, <2>2, SupplyKeeps
  <2>3. CASE \E u \in Users, x \in Amounts \cup {MaxUint} : Withdraw(u, x)
    BY <2>0, <2>3, WithdrawKeeps
  <2>4. CASE \E u, v \in Users, x \in Amounts : Transfer(u, v, x)
    BY <2>0, <2>4, TransferKeeps
  <2>5. CASE \E v \in Users, x \in UnbackedAmounts : MintUnbacked(v, x)
    BY <2>0, <2>5, MintUnbackedKeeps
  <2>6. CASE \E x \in UnbackedAmounts, fee \in FeeAmounts : BackUnbacked(x, fee)
    BY <2>0, <2>6, BackUnbackedKeeps
  <2>7. CASE MintToTreasury
    BY <2>7, MintToTreasuryKeeps
  <2>8. CASE \E u \in Users, x \in Amounts, m \in Modes : Borrow(u, x, m)
    BY <2>0, <2>8, BorrowKeeps
  <2>9. CASE \E u \in Users, x \in Amounts \cup {MaxUint}, m \in Modes : Repay(u, x, m)
    BY <2>0, <2>9, RepayKeeps
  <2>10. CASE \E u \in Users, x \in Amounts \cup {MaxUint}, m \in Modes : RepayWithATokens(u, x, m)
    BY <2>0, <2>10, RepayWithATokensKeeps
  <2>11. CASE \E u \in Users, m \in Modes : SwapBorrowRateMode(u, m)
    BY <2>11, SwapKeeps
  <2>12. CASE \E u \in Users : RebalanceStableBorrowRate(u)
    BY <2>12, RebalanceKeeps
  <2>13. CASE \E u \in Users : \E x \in Amounts \cup {DebtOf(u)} : LiquidateDebt(u, x)
    BY <2>0, <2>13, LiquidateDebtKeeps
  <2>14. CASE \E l, u \in Users, x \in Amounts, fee \in FeeAmounts, r \in BOOLEAN :
                LiquidateCollateral(l, u, x, fee, r)
    BY <2>0, <2>14, LiquidateCollateralKeeps
  <2>15. CASE \E l, u \in Users, fee \in FeeAmounts, r \in BOOLEAN :
                \E x \in Amounts \cup {DebtOf(u)} : LiquidateBoth(l, u, x, fee, r)
    BY <2>0, <2>15, LiquidateBothKeeps
  <2>16. CASE \E x \in FlashAmounts : FlashLoan(x)
    BY <2>0, <2>16, FlashLoanKeeps
  <2>17. CASE FlashLoanRepaid
    BY <2>17, FlashLoanRepaidKeeps
  <2>18. CASE \E u \in Users, m \in Modes : FlashLoanKept(u, m)
    BY <2>18, FlashLoanKeptKeeps
  <2>19. CASE UNCHANGED vars
    <3>1. UNCHANGED <<now, liquidityIndex, variableBorrowIndex, accruedToTreasury,
                      lastUpdateTimestamp, rates, unbacked, cash, scaled, scaledSupply, scaledDebt,
                      scaledDebtSupply, stable, borrowing, flash>>
      BY <2>19 DEF vars, indexVars, aTokenVars, debtVars, variableVars
    <3> QED BY <3>1 DEF IInv, BooksInv, RatesInv, CashInv, ATokenInv, VariableInv, StableInv,
                        TokenInOrder, FlagInv
  <2> QED BY <2>1, <2>2, <2>3, <2>4, <2>5, <2>6, <2>7, <2>8, <2>9, <2>10, <2>11, <2>12, <2>13,
             <2>14, <2>15, <2>16, <2>17, <2>18, <2>19 DEF Next
<1> QED BY <1>1, <1>2, PTL DEF Spec

\* Balances, totals and rates never go below zero, time and indexes never run
\* backwards, and whoever owes anything has the borrowing bit set: no rounding
\* of a debt lets the last unit of it escape the flag.
THEOREM DebtsStayFlagged == Spec => []ReserveInv
<1>1. IInv => ReserveInv
  <2> SUFFICES ASSUME IInv PROVE ReserveInv
    OBVIOUS
  <2>1. TypeOK
    BY TotalsNat DEF IInv, BooksInv, RatesInv, RatesType, CashInv, ATokenInv, VariableInv, StableInv,
       TokenInOrder, FlagInv, TypeOK
  <2>2. BooksInOrder
    BY DEF IInv, BooksInv, StableInv, TokenInOrder, BooksInOrder
  <2>3. DebtsFlagged
    <3> SUFFICES ASSUME NEW u \in Users, DebtOf(u) # 0 PROVE u \in borrowing
      BY DEF DebtsFlagged
    <3>1. scaledDebt[u] # 0 \/ stable.principal[u] # 0
      BY DebtReadings
    <3> QED BY <3>1 DEF IInv, FlagInv
  <2> QED BY <2>1, <2>2, <2>3 DEF ReserveInv
<1> QED BY <1>1, BooksInvariant, PTL

-----------------------------------------------------------------------------
(* Booking the interest changes no balance *)

bookVars == <<liquidityIndex, variableBorrowIndex, lastUpdateTimestamp, rates>>

\* What an operation does to the indexes: it books the interest, does nothing,
\* or books an income as well, which it receives.
IndexStep ==
  \/ UpdateState
  \/ UNCHANGED bookVars
  \/ \E toHolders, toTreasury \in Nat :
       /\ UpdateStateWithIncome(toHolders, toTreasury)
       /\ toHolders = 0 \/ cash' > cash

\* Every operation is a step of the indexes of one of the three kinds.
LEMMA StepsOfIndexes ==
  ASSUME IInv, Next, now' = now
  PROVE  IndexStep
<1>1. ASSUME Tick PROVE FALSE
  BY <1>1 DEF Tick, IInv, BooksInv
<1>2. ASSUME NEW x \in UnbackedAmounts, NEW fee \in FeeAmounts, BackUnbacked(x, fee)
      PROVE  IndexStep
  <2> DEFINE backing == IF x < unbacked THEN x ELSE unbacked
             toTreasury == PercentMul(fee, BRIDGE_FEE_TO_PROTOCOL)
             toHolders == fee - toTreasury
  <2>1. UpdateStateWithIncome(toHolders, toTreasury) /\ cash' = cash + backing + fee
    BY <1>2 DEF BackUnbacked
  <2>2. cash \in Nat /\ backing \in Nat /\ fee \in Nat
    BY ReserveAssumption DEF IInv, CashInv
  <2>3. toTreasury \in Nat /\ toHolders \in Nat
    BY <2>2, Parts, ReserveAssumption
  <2>4. toHolders <= fee
    BY <2>2, <2>3
  <2> HIDE DEF backing, toTreasury, toHolders
  <2>5. toHolders = 0 \/ cash' > cash
    BY <2>1, <2>2, <2>3, <2>4
  <2> QED BY <2>1, <2>3, <2>5 DEF IndexStep
<1>3. ASSUME FlashLoanRepaid PROVE IndexStep
  <2> DEFINE premium(amount) == PercentMul(amount, FLASH_PREMIUM)
             toTreasury(amount) == PercentMul(premium(amount), FLASH_PREMIUM_TO_PROTOCOL)
             toHolders(amount) == premium(amount) - toTreasury(amount)
  <2>1. PICK amount \in flash :
          /\ UpdateStateWithIncome(toHolders(amount), toTreasury(amount))
          /\ cash' = cash + amount + premium(amount)
    BY <1>3 DEF FlashLoanRepaid
  <2>2. cash \in Nat /\ amount \in Nat
    BY DEF IInv, CashInv
  <2>3. premium(amount) \in Nat
    BY <2>2, Parts, ReserveAssumption
  <2> HIDE DEF premium
  <2>4. toTreasury(amount) \in Nat /\ toHolders(amount) \in Nat
    BY <2>3, Parts, ReserveAssumption
  <2>5. toHolders(amount) <= premium(amount)
    BY <2>3, <2>4
  <2> HIDE DEF toTreasury, toHolders
  <2>6. toHolders(amount) = 0 \/ cash' > cash
    BY <2>1, <2>2, <2>3, <2>4, <2>5
  <2> QED BY <2>1, <2>4, <2>6 DEF IndexStep
<1>4. \A u, v, l, x, fee, m, r :
        \/ Supply(v, x) \/ Withdraw(u, x) \/ MintUnbacked(v, x) \/ Borrow(u, x, m)
        \/ Repay(u, x, m) \/ RepayWithATokens(u, x, m) \/ SwapBorrowRateMode(u, m)
        \/ RebalanceStableBorrowRate(u) \/ LiquidateDebt(u, x)
        \/ LiquidateBoth(l, u, x, fee, r) \/ FlashLoanKept(u, m)
        => UpdateState
  BY DEF Supply, Withdraw, MintUnbacked, Borrow, AddDebt, Repay, RepayWithATokens,
         SwapBorrowRateMode, RebalanceStableBorrowRate, LiquidateDebt, LiquidateBoth, FlashLoanKept
<1>5. \A u, v, x : Transfer(u, v, x) \/ FlashLoan(x) => UNCHANGED bookVars
  BY DEF Transfer, FlashLoan, indexVars, bookVars
<1>6. \A l, u, x, fee, r :
        LiquidateCollateral(l, u, x, fee, r) => UpdateState \/ UNCHANGED bookVars
  BY DEF LiquidateCollateral, indexVars, bookVars
<1>7. CASE MintToTreasury
  BY <1>7 DEF MintToTreasury, IndexStep, bookVars
<1> QED BY <1>1, <1>2, <1>3, <1>4, <1>5, <1>6, <1>7 DEF Next, IndexStep

\* An operation leaves the balances that it does not touch, or raises them with what
\* it pays.
LEMMA BalancesKept ==
  ASSUME IInv, Next, now' = now
  PROVE  /\ \A u \in Holders : scaled'[u] = scaled[u] =>
              \/ ATokenOf(u)' = ATokenOf(u)
              \/ ATokenOf(u)' > ATokenOf(u) /\ cash' > cash
         /\ \A u \in Users :
              scaledDebt'[u] = scaledDebt[u] => VariableDebtOf(u)' = VariableDebtOf(u)
<1> DEFINE Goal == /\ \A u \in Holders : scaled'[u] = scaled[u] =>
                        \/ ATokenOf(u)' = ATokenOf(u)
                        \/ ATokenOf(u)' > ATokenOf(u) /\ cash' > cash
                   /\ \A u \in Users :
                        scaledDebt'[u] = scaledDebt[u] => VariableDebtOf(u)' = VariableDebtOf(u)
<1>1. /\ \A u : ATokenOf(u)' = RayMul(scaled'[u], NormalizedIncome')
      /\ \A u : ATokenOf(u) = RayMul(scaled[u], NormalizedIncome)
      /\ \A u : VariableDebtOf(u)' = RayMul(scaledDebt'[u], NormalizedDebt')
      /\ \A u \in Users : VariableDebtOf(u) = RayMul(scaledDebt[u], NextVariableBorrowIndex)
  BY DebtReadings DEF ATokenOf, VariableDebtOf
<1>2. CASE UNCHANGED bookVars
  <2>1. NormalizedIncome' = NormalizedIncome /\ NormalizedDebt' = NormalizedDebt
    BY <1>2 DEF bookVars, NormalizedIncome, NormalizedDebt
  <2> QED BY <1>1, <2>1 DEF VariableDebtOf
<1>3. ASSUME lastUpdateTimestamp' = now, variableBorrowIndex' = NextVariableBorrowIndex
      PROVE  /\ NormalizedIncome' = liquidityIndex'
             /\ \A u \in Users :
                  scaledDebt'[u] = scaledDebt[u] => VariableDebtOf(u)' = VariableDebtOf(u)
  <2>1. NormalizedIncome' = liquidityIndex' /\ NormalizedDebt' = variableBorrowIndex'
    BY <1>3 DEF NormalizedIncome, NormalizedDebt
  <2> QED BY <1>1, <1>3, <2>1
<1>4. CASE UpdateState
  <2>1. /\ lastUpdateTimestamp' = now /\ variableBorrowIndex' = NextVariableBorrowIndex
        /\ liquidityIndex' = NormalizedIncome
    BY <1>4 DEF UpdateState
  <2>2. NormalizedIncome' = NormalizedIncome
    BY <1>3, <2>1
  <2>3. \A u \in Holders : scaled'[u] = scaled[u] => ATokenOf(u)' = ATokenOf(u)
    BY <1>1, <2>2
  <2> QED BY <1>3, <2>1, <2>3
<1>5. ASSUME NEW toHolders \in Nat, NEW toTreasury \in Nat,
             UpdateStateWithIncome(toHolders, toTreasury), toHolders = 0 \/ cash' > cash
      PROVE  Goal
  <2>1. /\ lastUpdateTimestamp' = now /\ variableBorrowIndex' = NextVariableBorrowIndex
    BY <1>5 DEF UpdateStateWithIncome
  <2>2. /\ BooksInv' /\ liquidityIndex' >= NormalizedIncome
        /\ toHolders = 0 => liquidityIndex' = NormalizedIncome
    BY <1>5, IncomeKeepsBooks
  <2>3. NormalizedIncome' = liquidityIndex'
    BY <1>3, <2>1
  <2> DEFINE before == NormalizedIncome
             after == liquidityIndex'
  <2>4. before \in Nat /\ after \in Nat /\ before <= after /\ (toHolders = 0 => after = before)
    BY <2>2, IndexReadings DEF IInv, BooksInv
  <2>5. ASSUME NEW u \in Holders, scaled'[u] = scaled[u]
        PROVE  \/ ATokenOf(u)' = ATokenOf(u)
               \/ ATokenOf(u)' > ATokenOf(u) /\ cash' > cash
    <3>1. scaled[u] \in Nat
      BY ATokenReadings
    <3>2. ATokenOf(u) = RayMul(scaled[u], before) /\ ATokenOf(u)' = RayMul(scaled[u], after)
      BY <1>1, <2>3, <2>5
    <3> HIDE DEF before, after
    <3>3. /\ RayMul(scaled[u], before) \in Nat /\ RayMul(scaled[u], after) \in Nat
          /\ RayMul(scaled[u], before) <= RayMul(scaled[u], after)
      BY <2>4, <3>1, RayMulNat, RayMulMonotone
    <3>4. CASE toHolders = 0
      BY <2>4, <3>2, <3>4
    <3>5. CASE cash' > cash
      BY <3>2, <3>3, <3>5
    <3> QED BY <1>5, <3>4, <3>5
  <2> QED BY <1>3, <2>1, <2>5
<1> HIDE DEF Goal
<1>6. Goal
  BY <1>2, <1>4, <1>5, StepsOfIndexes DEF IndexStep, Goal
<1> QED BY <1>6 DEF Goal

\* A transaction changes no balance of the accounts it does not touch, except
\* that what it pays to the reserve may raise the balances of the holders: the
\* indexes that updateState stores read every balance as it was.
THEOREM BookingChangesNoBalance == Spec => OthersUntouched
<1>1. IInv /\ [Next]_vars =>
        [now' = now =>
           /\ \A u \in Holders : scaled'[u] = scaled[u] =>
                \/ ATokenOf(u)' = ATokenOf(u)
                \/ ATokenOf(u)' > ATokenOf(u) /\ cash' > cash
           /\ \A u \in Users :
                scaledDebt'[u] = scaledDebt[u] => VariableDebtOf(u)' = VariableDebtOf(u)]_vars
  BY BalancesKept
<1> QED BY <1>1, BooksInvariant, PTL DEF Spec, OthersUntouched
=============================================================================
