---------------------------- MODULE DataTheorems ----------------------------
(***************************************************************************)
(* The laws that the invariance proofs cite: of SumOver, what the           *)
(* fixed-point operations of PercentageMath return, for all amounts, and    *)
(* what sequences are made of that are joined to one.                       *)
(***************************************************************************)
EXTENDS FiniteSums, PercentageMath, SequencesExt, FiniteSetTheorems, WellFoundedInduction, TLAPS

-----------------------------------------------------------------------------
(* Sums *)

\* A pair is a unit exactly when its index is in S and its rank is at most
\* what f gives that index.
LEMMA UnitsMembership ==
  ASSUME NEW S, NEW f
  PROVE  \A x : x \in Units(S, f) <=> \E i \in S : \E k \in 1 .. f[i] : x = <<i, k>>
  BY DEF Units

\* The units of a finite index set are finitely many, so a sum is a natural
\* number.
LEMMA SumType ==
  ASSUME NEW S, IsFiniteSet(S), NEW f, \A i \in S : f[i] \in Nat
  PROVE  IsFiniteSet(Units(S, f)) /\ SumOver(S, f) \in Nat
<1> DEFINE row == [i \in S |-> {i} \X (1 .. f[i])]
           Rows == {row[i] : i \in S}
<1>1. row \in Surjection(S, Rows)
  BY DEF Surjection
<1>2. IsFiniteSet(Rows)
  BY <1>1, FS_Surjection
<1>3. ASSUME NEW R \in Rows PROVE IsFiniteSet(R)
  <2>1. PICK i \in S : R = {i} \X (1 .. f[i])
    OBVIOUS
  <2>2. IsFiniteSet({i})
    BY FS_Singleton
  <2>3. f[i] \in Int /\ 1 \in Int
    OBVIOUS
  <2>4. IsFiniteSet(1 .. f[i])
    BY <2>3, FS_Interval
  <2> HIDE DEF Rows
  <2> QED BY <2>1, <2>2, <2>4, FS_Product
<1>4. Units(S, f) = UNION Rows
  BY DEF Units
<1>5. IsFiniteSet(UNION Rows)
  <2> HIDE DEF Rows
  <2> QED BY <1>2, <1>3, FS_UNION
<1> QED BY <1>4, <1>5, FS_CardinalityType DEF SumOver

\* The empty sum is zero.
LEMMA SumEmpty ==
  ASSUME NEW f
  PROVE  SumOver({}, f) = 0
<1>1. Units({}, f) = {}
  BY DEF Units
<1> QED BY <1>1, FS_EmptySet DEF SumOver

\* Only the values on S count.
LEMMA SumCongruence ==
  ASSUME NEW S, NEW f, NEW g, \A i \in S : f[i] = g[i]
  PROVE  SumOver(S, f) = SumOver(S, g)
<1>1. Units(S, f) = Units(S, g)
  BY DEF Units
<1> QED BY <1>1 DEF SumOver

\* The sum over one index is its value.
LEMMA SumSingleton ==
  ASSUME NEW x, NEW f, f[x] \in Nat
  PROVE  SumOver({x}, f) = f[x]
<1>1. Units({x}, f) = {x} \X (1 .. f[x])
  BY DEF Units
<1>2. IsFiniteSet({x}) /\ Cardinality({x}) = 1
  BY FS_Singleton
<1>3. IsFiniteSet(1 .. f[x]) /\ Cardinality(1 .. f[x]) = f[x]
  BY FS_Interval
<1>4. Cardinality({x} \X (1 .. f[x])) = Cardinality({x}) * Cardinality(1 .. f[x])
  BY <1>2, <1>3, FS_Product
<1>5. Cardinality({x} \X (1 .. f[x])) = f[x]
  BY <1>2, <1>3, <1>4
<1> QED BY <1>1, <1>5 DEF SumOver

\* The sum over two disjoint sets is the sum of the two sums.
LEMMA SumDisjoint ==
  ASSUME NEW S, IsFiniteSet(S), NEW T, IsFiniteSet(T), S \cap T = {},
         NEW f, \A i \in S \cup T : f[i] \in Nat
  PROVE  SumOver(S \cup T, f) = SumOver(S, f) + SumOver(T, f)
<1>1. Units(S \cup T, f) = Units(S, f) \cup Units(T, f)
  BY DEF Units
<1>2. Units(S, f) \cap Units(T, f) = {}
  BY UnitsMembership
<1>3. /\ IsFiniteSet(Units(S, f)) /\ IsFiniteSet(Units(T, f))
      /\ SumOver(S, f) \in Nat /\ SumOver(T, f) \in Nat
  BY SumType
<1>4. Cardinality(Units(S, f) \cup Units(T, f))
        = Cardinality(Units(S, f)) + Cardinality(Units(T, f)) - Cardinality({})
  BY <1>2, <1>3, FS_Union
<1>5. Cardinality({}) = 0
  BY FS_EmptySet
<1>6. SumOver(S \cup T, f) = SumOver(S, f) + SumOver(T, f) - 0
  BY <1>1, <1>4, <1>5 DEF SumOver
<1> QED BY <1>3, <1>6

\* Taking one index out of the sum.
LEMMA SumSplit ==
  ASSUME NEW S, IsFiniteSet(S), NEW x \in S, NEW f, \A i \in S : f[i] \in Nat
  PROVE  /\ SumOver(S, f) = f[x] + SumOver(S \ {x}, f)
         /\ SumOver(S \ {x}, f) \in Nat
<1>1. IsFiniteSet({x}) /\ IsFiniteSet(S \ {x})
  BY FS_Singleton, FS_RemoveElement
<1>2. S = {x} \cup (S \ {x}) /\ {x} \cap (S \ {x}) = {}
  OBVIOUS
<1>3. SumOver({x} \cup (S \ {x}), f) = SumOver({x}, f) + SumOver(S \ {x}, f)
  BY <1>1, <1>2, SumDisjoint
<1>4. SumOver({x}, f) = f[x]
  BY SumSingleton
<1> QED BY <1>1, <1>2, <1>3, <1>4, SumType

\* Changing one summand changes the sum by the difference.
LEMMA SumUpdate ==
  ASSUME NEW S, IsFiniteSet(S), NEW x \in S,
         NEW f, \A i \in S : f[i] \in Nat,
         NEW g, \A i \in S : g[i] \in Nat, \A i \in S \ {x} : g[i] = f[i]
  PROVE  SumOver(S, g) + f[x] = SumOver(S, f) + g[x]
<1>1. SumOver(S \ {x}, g) = SumOver(S \ {x}, f)
  BY SumCongruence
<1>2. /\ SumOver(S, f) = f[x] + SumOver(S \ {x}, f)
      /\ SumOver(S \ {x}, f) \in Nat
  BY SumSplit
<1>3. SumOver(S, g) = g[x] + SumOver(S \ {x}, g)
  BY SumSplit
<1>4. f[x] \in Nat /\ g[x] \in Nat
  OBVIOUS
<1> QED BY <1>1, <1>2, <1>3, <1>4

\* A sum that is zero has only zero summands.
LEMMA SumZero ==
  ASSUME NEW S, IsFiniteSet(S), NEW f, \A i \in S : f[i] \in Nat, SumOver(S, f) = 0
  PROVE  \A i \in S : f[i] = 0
<1> TAKE x \in S
<1>1. /\ SumOver(S, f) = f[x] + SumOver(S \ {x}, f)
      /\ SumOver(S \ {x}, f) \in Nat /\ f[x] \in Nat
  BY SumSplit
<1> QED BY <1>1

\* A sum of zeros is zero.
LEMMA SumAllZero ==
  ASSUME NEW S, NEW f, \A i \in S : f[i] = 0
  PROVE  SumOver(S, f) = 0
<1>1. Units(S, f) = {}
  BY DEF Units
<1> QED BY <1>1, FS_EmptySet DEF SumOver

\* Moving an amount from one summand to another keeps the sum.
LEMMA SumMove ==
  ASSUME NEW S, IsFiniteSet(S), NEW x \in S, NEW y \in S, x # y,
         NEW f, \A i \in S : f[i] \in Nat,
         NEW g, \A i \in S : g[i] \in Nat,
         \A i \in S \ {x, y} : g[i] = f[i],
         g[x] + g[y] = f[x] + f[y]
  PROVE  SumOver(S, g) = SumOver(S, f)
<1>1. IsFiniteSet(S \ {x}) /\ y \in S \ {x}
  BY FS_RemoveElement
<1>2. /\ SumOver(S, f) = f[x] + SumOver(S \ {x}, f)
      /\ SumOver(S, g) = g[x] + SumOver(S \ {x}, g)
  BY SumSplit
<1>3. /\ SumOver(S \ {x}, f) = f[y] + SumOver((S \ {x}) \ {y}, f)
      /\ SumOver((S \ {x}) \ {y}, f) \in Nat
      /\ SumOver(S \ {x}, g) = g[y] + SumOver((S \ {x}) \ {y}, g)
  <2>1. \A i \in S \ {x} : f[i] \in Nat /\ g[i] \in Nat
    OBVIOUS
  <2> QED BY <1>1, <2>1, SumSplit
<1>4. SumOver((S \ {x}) \ {y}, g) = SumOver((S \ {x}) \ {y}, f)
  BY SumCongruence
<1>5. f[x] \in Nat /\ f[y] \in Nat /\ g[x] \in Nat /\ g[y] \in Nat
  OBVIOUS
<1> QED BY <1>2, <1>3, <1>4, <1>5

\* A sum grows with its summands.
LEMMA SumMonotone ==
  ASSUME NEW S, IsFiniteSet(S),
         NEW f, \A i \in S : f[i] \in Nat,
         NEW g, \A i \in S : g[i] \in Nat,
         \A i \in S : f[i] <= g[i]
  PROVE  SumOver(S, f) <= SumOver(S, g)
<1>1. Units(S, f) \subseteq Units(S, g)
  <2> SUFFICES ASSUME NEW u \in Units(S, f) PROVE u \in Units(S, g)
    OBVIOUS
  <2>1. PICK i \in S : \E k \in 1 .. f[i] : u = <<i, k>>
    BY UnitsMembership
  <2>2. PICK k \in 1 .. f[i] : u = <<i, k>>
    BY <2>1
  <2>3. k \in 1 .. g[i]
    OBVIOUS
  <2> QED BY <2>2, <2>3, UnitsMembership
<1> QED BY <1>1, SumType, FS_Subset DEF SumOver

\* A sum of sums.  The units of f + g are those of f and, ranked above them,
\* as many as g has.
LEMMA SumAdd ==
  ASSUME NEW S, IsFiniteSet(S),
         NEW f, \A i \in S : f[i] \in Nat,
         NEW g, \A i \in S : g[i] \in Nat,
         NEW h, \A i \in S : h[i] = f[i] + g[i]
  PROVE  SumOver(S, h) = SumOver(S, f) + SumOver(S, g)
<1> DEFINE Above == Units(S, h) \ Units(S, f)
           lift == [u \in Units(S, g) |-> <<u[1], f[u[1]] + u[2]>>]
<1>1. /\ IsFiniteSet(Units(S, f)) /\ SumOver(S, f) \in Nat
      /\ IsFiniteSet(Units(S, g)) /\ SumOver(S, g) \in Nat
  BY SumType
<1>2. \A i \in S : h[i] \in Nat
  OBVIOUS
<1>3. IsFiniteSet(Units(S, h)) /\ SumOver(S, h) \in Nat
  BY <1>2, SumType
<1>4. Units(S, f) \cap Above = {} /\ Units(S, f) \subseteq Units(S, h)
  <2> SUFFICES ASSUME NEW u \in Units(S, f) PROVE u \in Units(S, h)
    OBVIOUS
  <2>1. PICK i \in S : \E k \in 1 .. f[i] : u = <<i, k>>
    BY UnitsMembership
  <2>2. PICK k \in 1 .. f[i] : u = <<i, k>>
    BY <2>1
  <2>3. k \in 1 .. h[i]
    OBVIOUS
  <2> QED BY <2>2, <2>3, UnitsMembership
<1>5. lift \in Bijection(Units(S, g), Above)
  <2>1. ASSUME NEW u \in Units(S, g) PROVE lift[u] \in Above
    <3>1. PICK i \in S : \E k \in 1 .. g[i] : u = <<i, k>>
      BY UnitsMembership
    <3>2. PICK k \in 1 .. g[i] : u = <<i, k>>
      BY <3>1
    <3>3. lift[u] = <<i, f[i] + k>>
      BY <3>2
    <3>4. f[i] + k \in 1 .. h[i] /\ f[i] + k \notin 1 .. f[i]
      OBVIOUS
    <3>5. <<i, f[i] + k>> \in Units(S, h)
      BY <3>4, UnitsMembership
    <3>6. <<i, f[i] + k>> \notin Units(S, f)
      BY <3>4, UnitsMembership
    <3> QED BY <3>3, <3>5, <3>6
  <2>2. ASSUME NEW u \in Units(S, g), NEW v \in Units(S, g), lift[u] = lift[v]
        PROVE  u = v
    <3>1. PICK i \in S : \E k \in 1 .. g[i] : u = <<i, k>>
      BY UnitsMembership
    <3>2. PICK k \in 1 .. g[i] : u = <<i, k>>
      BY <3>1
    <3>3. PICK j \in S : \E l \in 1 .. g[j] : v = <<j, l>>
      BY UnitsMembership
    <3>4. PICK l \in 1 .. g[j] : v = <<j, l>>
      BY <3>3
    <3>5. <<i, f[i] + k>> = <<j, f[j] + l>>
      BY <2>2, <3>2, <3>4
    <3>6. i = j /\ f[i] + k = f[j] + l
      BY <3>5
    <3>7. k = l
      BY <3>6
    <3> QED BY <3>2, <3>4, <3>6, <3>7
  <2>3. ASSUME NEW w \in Above PROVE \E u \in Units(S, g) : lift[u] = w
    <3>1. PICK i \in S : \E m \in 1 .. h[i] : w = <<i, m>>
      BY UnitsMembership
    <3>2. PICK m \in 1 .. h[i] : w = <<i, m>>
      BY <3>1
    <3>3. m \notin 1 .. f[i]
      BY <3>2, UnitsMembership
    <3>4. m - f[i] \in 1 .. g[i] /\ f[i] + (m - f[i]) = m
      BY <3>3
    <3>5. <<i, m - f[i]>> \in Units(S, g)
      BY <3>4, UnitsMembership
    <3>6. lift[<<i, m - f[i]>>] = <<i, m>>
      BY <3>4, <3>5
    <3> QED BY <3>2, <3>5, <3>6
  <2>4. lift \in [Units(S, g) -> Above]
    BY <2>1
  <2> HIDE DEF lift, Above
  <2> QED BY <2>2, <2>3, <2>4 DEF Bijection, Injection, Surjection, IsInjective
<1>6. IsFiniteSet(Above) /\ Cardinality(Above) = SumOver(S, g)
  <2> HIDE DEF lift, Above
  <2>1. ExistsBijection(Units(S, g), Above)
    BY <1>5 DEF ExistsBijection
  <2> QED BY <1>1, <2>1, FS_Bijection DEF SumOver
<1>7. Units(S, h) = Units(S, f) \cup Above
  BY <1>4
<1>8. Cardinality(Units(S, h)) = Cardinality(Units(S, f)) + Cardinality(Above) - Cardinality({})
  <2> HIDE DEF Above
  <2> QED BY <1>1, <1>4, <1>6, <1>7, FS_Union
<1>9. Cardinality({}) = 0
  BY FS_EmptySet
<1>10. SumOver(S, h) = SumOver(S, f) + SumOver(S, g) - 0
  BY <1>6, <1>8, <1>9 DEF SumOver
<1> QED BY <1>1, <1>10

\* Every non-empty set of naturals has a least element.  The induction
\* theorems of the library take a predicate as a parameter; the least
\* counterexample does the same work with a set.
LEMMA LeastNatural ==
  ASSUME NEW T, T \subseteq Nat, T # {}
  PROVE  \E x \in T : \A y \in T : x <= y
<1> DEFINE R == OpToRel(<, Nat)
<1>1. IsWellFoundedOn(R, Nat)
  BY NatLessThanWellFounded, Zenon
<1>2. \A m, n \in Nat : m < n => <<m, n>> \in R
  BY DEF OpToRel
<1> HIDE DEF R
<1>3. PICK x \in T : \A y \in T : ~ (<<y, x>> \in R)
  BY <1>1, WFMin
<1>4. ASSUME NEW y \in T PROVE x <= y
  <2>1. x \in Nat /\ y \in Nat /\ ~ (y < x)
    BY <1>2, <1>3
  <2> QED BY <2>1
<1> QED BY <1>4

\* Multiplying every summand by c multiplies the sum by c.
LEMMA SumScale ==
  ASSUME NEW S, IsFiniteSet(S), NEW f, \A i \in S : f[i] \in Nat, NEW c \in Nat
  PROVE  SumOver(S, [i \in S |-> c * f[i]]) = c * SumOver(S, f)
<1> DEFINE g(n) == [i \in S |-> n * f[i]]
           Bad == {n \in Nat : SumOver(S, g(n)) # n * SumOver(S, f)}
<1>1. SumOver(S, f) \in Nat
  BY SumType
<1>2. \A n \in Nat : \A i \in S : g(n)[i] \in Nat
  OBVIOUS
<1>3. \A n \in Nat : SumOver(S, g(n)) \in Nat
  <2> TAKE n \in Nat
  <2>1. \A i \in S : g(n)[i] \in Nat
    BY <1>2
  <2> HIDE DEF g
  <2> QED BY <2>1, SumType
<1>4. SumOver(S, g(0)) = 0
  <2>1. Units(S, g(0)) = {}
    BY DEF Units
  <2> QED BY <2>1, FS_EmptySet DEF SumOver
<1>5. ASSUME NEW n \in Nat
      PROVE  SumOver(S, g(n + 1)) = SumOver(S, g(n)) + SumOver(S, f)
  <2>1. \A i \in S : g(n + 1)[i] = g(n)[i] + f[i]
    OBVIOUS
  <2>2. \A i \in S : g(n)[i] \in Nat
    BY <1>2
  <2> HIDE DEF g
  <2> QED BY <2>1, <2>2, SumAdd
<1>6. Bad = {}
  <2> SUFFICES ASSUME Bad # {} PROVE FALSE
    OBVIOUS
  <2>1. PICK m \in Bad : \A n \in Bad : m <= n
    BY LeastNatural
  <2> HIDE DEF g
  <2>2. m \in Nat /\ m # 0
    BY <1>1, <1>4
  <2>3. m - 1 \in Nat /\ (m - 1) + 1 = m /\ m - 1 \notin Bad
    BY <2>1, <2>2
  <2>4. SumOver(S, g(m - 1)) = (m - 1) * SumOver(S, f)
    BY <2>3
  <2>5. SumOver(S, g(m)) = SumOver(S, g(m - 1)) + SumOver(S, f)
    BY <1>5, <2>3
  <2>6. (m - 1) * SumOver(S, f) + SumOver(S, f) = m * SumOver(S, f)
    BY <1>1, <2>2
  <2> QED BY <2>4, <2>5, <2>6
<1>7. SumOver(S, g(c)) = c * SumOver(S, f)
  <2> HIDE DEF g
  <2> QED BY <1>6
<1> QED BY <1>7

\* A function that satisfies the equation of the recursive sum.
Folds0(h, S, f) ==
  h = [s \in SUBSET S |->
         IF s = {} THEN 0 ELSE f[CHOOSE x \in s : TRUE] + h[s \ {CHOOSE x \in s : TRUE}]]

LEMMA FoldedOnce ==
  ASSUME NEW S, IsFiniteSet(S), NEW f, \A i \in S : f[i] \in Nat,
         NEW h, Folds0(h, S, f)
  PROVE  \A s \in SUBSET S : h[s] = SumOver(s, f)
<1> DEFINE Bad == {n \in Nat : \E s \in SUBSET S : Cardinality(s) = n /\ h[s] # SumOver(s, f)}
<1>1. ASSUME NEW s \in SUBSET S PROVE IsFiniteSet(s) /\ Cardinality(s) \in Nat
  BY FS_Subset, FS_CardinalityType
<1>2. ASSUME NEW n \in Bad, \A m \in Bad : n <= m PROVE FALSE
  <2>1. PICK s \in SUBSET S : n \in Nat /\ Cardinality(s) = n /\ h[s] # SumOver(s, f)
    OBVIOUS
  <2>2. s # {}
    BY <2>1, SumEmpty DEF Folds0
  <2> DEFINE x == CHOOSE x \in s : TRUE
             rest == s \ {x}
  <2>3. x \in s
    BY <2>2
  <2>4. h[s] = f[x] + h[rest]
    BY <2>2 DEF Folds0
  <2> HIDE DEF x
  <2>5. Cardinality(rest) = n - 1 /\ rest \in SUBSET S
    BY <1>1, <2>1, <2>3, FS_RemoveElement
  <2>6. SumOver(s, f) = f[x] + SumOver(rest, f)
    BY <1>1, <2>3, SumSplit
  <2>7. h[rest] # SumOver(rest, f)
    BY <2>1, <2>4, <2>6
  <2>8. n - 1 \in Bad
    BY <1>1, <2>1, <2>5, <2>7
  <2> QED BY <1>2, <2>1, <2>8
<1>3. Bad \subseteq Nat
  OBVIOUS
<1>4. Bad = {}
  <2> HIDE DEF Bad
  <2> QED BY <1>2, <1>3, LeastNatural
<1> QED BY <1>1, <1>4

LEMMA FoldExists ==
  ASSUME NEW S, IsFiniteSet(S), NEW f, \A i \in S : f[i] \in Nat
  PROVE  Folds0([s \in SUBSET S |-> SumOver(s, f)], S, f)
<1> DEFINE h == [s \in SUBSET S |-> SumOver(s, f)]
<1>1. ASSUME NEW s \in SUBSET S
      PROVE  h[s] = IF s = {} THEN 0 ELSE f[CHOOSE x \in s : TRUE] + h[s \ {CHOOSE x \in s : TRUE}]
  <2>1. CASE s = {}
    BY <2>1, SumEmpty
  <2>2. CASE s # {}
    <3> DEFINE x == CHOOSE x \in s : TRUE
    <3>1. x \in s
      BY <2>2
    <3> HIDE DEF x
    <3>2. IsFiniteSet(s) /\ \A i \in s : f[i] \in Nat
      BY FS_Subset
    <3>3. SumOver(s, f) = f[x] + SumOver(s \ {x}, f)
      BY <3>1, <3>2, SumSplit
    <3> QED BY <2>2, <3>1, <3>3 DEF x
  <2> QED BY <2>1, <2>2
<1> HIDE DEF h
<1>2. h = [s \in SUBSET S |-> h[s]]
  BY DEF h
<1> QED BY <1>1, <1>2 DEF Folds0, h

\* Folding a function by addition gives the sum of its values.
LEMMA FoldIsSum ==
  ASSUME NEW S, IsFiniteSet(S), NEW f \in [S -> Nat]
  PROVE  FoldFunction(+, 0, f) = SumOver(S, f)
<1> DEFINE iter == CHOOSE h : Folds0(h, S, f)
<1>1. DOMAIN f = S /\ \A i \in S : f[i] \in Nat
  OBVIOUS
<1>2. Folds0(iter, S, f)
  BY <1>1, FoldExists
<1>3. \A s \in SUBSET S : iter[s] = SumOver(s, f)
  <2> HIDE DEF iter
  <2> QED BY <1>1, <1>2, FoldedOnce
<1> HIDE DEF iter
<1>4. FoldFunction(+, 0, f)
        = MapThenFoldSet(+, 0, LAMBDA i : f[i], LAMBDA s : CHOOSE x \in s : TRUE, S)
  BY <1>1 DEF FoldFunction, FoldFunctionOnSet
<1>5. MapThenFoldSet(+, 0, LAMBDA i : f[i], LAMBDA s : CHOOSE x \in s : TRUE, S) = iter[S]
  BY DEF MapThenFoldSet, iter, Folds0
<1>6. FoldFunction(+, 0, f) = iter[S]
  BY <1>4, <1>5
<1>7. iter[S] = SumOver(S, f)
  BY <1>3
<1> QED BY <1>6, <1>7

\* Two sums are the same when they differ only by indices whose value is zero.
LEMMA SumSameSupport ==
  ASSUME NEW S, IsFiniteSet(S), NEW T, IsFiniteSet(T),
         NEW f, \A i \in S \cup T : f[i] \in Nat,
         \A i \in S \cup T : i \notin S \cap T => f[i] = 0
  PROVE  SumOver(S, f) = SumOver(T, f)
<1>1. IsFiniteSet(S \cap T) /\ IsFiniteSet(S \ T) /\ IsFiniteSet(T \ S)
  BY FS_Subset
<1>2. SumOver(S \ T, f) = 0 /\ SumOver(T \ S, f) = 0
  BY SumAllZero
<1>3. SumOver((S \cap T) \cup (S \ T), f) = SumOver(S \cap T, f) + SumOver(S \ T, f)
  BY <1>1, SumDisjoint
<1>4. SumOver((S \cap T) \cup (T \ S), f) = SumOver(S \cap T, f) + SumOver(T \ S, f)
  BY <1>1, SumDisjoint
<1>5. (S \cap T) \cup (S \ T) = S /\ (S \cap T) \cup (T \ S) = T
  OBVIOUS
<1> QED BY <1>2, <1>3, <1>4, <1>5

-----------------------------------------------------------------------------
(* Fixed-point operations *)

\* The quotient is the largest number whose product with the divisor fits.
LEMMA Quotient ==
  ASSUME NEW n \in Nat, NEW d \in Nat \ {0}
  PROVE  /\ n \div d \in Nat
         /\ d * (n \div d) <= n
         /\ n < d * (n \div d) + d
OBVIOUS

\* A quotient is at most q when q + 1 divisors exceed the dividend.
LEMMA QuotientAtMost ==
  ASSUME NEW n \in Nat, NEW d \in Nat \ {0}, NEW q \in Nat, n < d * q + d
  PROVE  n \div d <= q
OBVIOUS

LEMMA ProductNat ==
  ASSUME NEW a \in Nat, NEW b \in Nat
  PROVE  a * b \in Nat
OBVIOUS

LEMMA ProductMonotone ==
  ASSUME NEW a \in Nat, NEW b \in Nat, NEW c \in Nat, a <= b
  PROVE  a * c <= b * c
OBVIOUS

\* Products with the same factor are ordered as the other factors are.
LEMMA ProductIncreasing ==
  ASSUME NEW unit \in Nat \ {0}, NEW m \in Nat, NEW n \in Nat
  PROVE  unit * m < unit * n <=> m < n
<1>1. ASSUME NEW i \in Nat, NEW j \in Nat, i < j PROVE unit * i < unit * j
  <2>1. (i + 1) * unit <= j * unit
    BY <1>1, ProductMonotone
  <2> QED BY <2>1
<1>2. CASE m < n
  BY <1>1, <1>2
<1>3. CASE n < m
  BY <1>1, <1>3
<1>4. CASE m = n
  BY <1>4
<1> QED BY <1>2, <1>3, <1>4

\* A multiple is divided without remainder.
LEMMA QuotientExact ==
  ASSUME NEW unit \in Nat \ {0}, NEW n \in Nat
  PROVE  (unit * n) \div unit = n
<1> DEFINE q == (unit * n) \div unit
<1>1. q \in Nat /\ unit * q <= unit * n /\ unit * n < unit * q + unit
  BY ProductNat, Quotient
<1> HIDE DEF q
<1>2. q <= n
  BY <1>1, ProductIncreasing
<1>3. n < q + 1
  <2>1. unit * n < unit * (q + 1)
    BY <1>1
  <2> QED BY <1>1, <2>1, ProductIncreasing
<1>4. q = n
  BY <1>1, <1>2, <1>3
<1> QED BY <1>4 DEF q

\* A percentage of an amount is a number, and at most the amount when the
\* percentage is at most 100%.
LEMMA PercentMulBounds ==
  ASSUME NEW value \in Nat, NEW percentage \in Nat
  PROVE  /\ PercentMul(value, percentage) \in Nat
         /\ percentage <= PERCENTAGE_FACTOR => PercentMul(value, percentage) <= value
<1> DEFINE product == value * percentage
<1>1. product \in Nat
  BY ProductNat
<1>2. percentage <= PERCENTAGE_FACTOR => product <= PERCENTAGE_FACTOR * value
  BY DEF PERCENTAGE_FACTOR
<1>3. PercentMul(value, percentage) = (product + 5000) \div 10000
  BY DEF PercentMul, PERCENTAGE_FACTOR
<1> HIDE DEF product
<1> QED BY <1>1, <1>2, <1>3 DEF PERCENTAGE_FACTOR

\* What a percentage of at least 100% was taken of is at most the result.
LEMMA PercentDivBounds ==
  ASSUME NEW value \in Nat, NEW percentage \in Nat \ {0}
  PROVE  /\ PercentDiv(value, percentage) \in Nat
         /\ percentage >= PERCENTAGE_FACTOR => PercentDiv(value, percentage) <= value
<1> DEFINE half == percentage \div 2
           dividend == value * PERCENTAGE_FACTOR + half
           product == percentage * value
<1>1. half \in Nat /\ half < percentage
  OBVIOUS
<1>2. value * PERCENTAGE_FACTOR \in Nat /\ product \in Nat
  BY ProductNat DEF PERCENTAGE_FACTOR
<1>3. dividend \in Nat
  BY <1>1, <1>2
<1>4. PercentDiv(value, percentage) = dividend \div percentage
  BY DEF PercentDiv
<1>5. PercentDiv(value, percentage) \in Nat
  <2> HIDE DEF dividend
  <2> QED BY <1>3, <1>4, Quotient
<1>6. ASSUME percentage >= PERCENTAGE_FACTOR
      PROVE  dividend < percentage * value + percentage
  <2>1. value * PERCENTAGE_FACTOR <= product
    BY <1>6 DEF PERCENTAGE_FACTOR
  <2> QED BY <1>1, <1>2, <2>1
<1>7. ASSUME percentage >= PERCENTAGE_FACTOR
      PROVE  dividend \div percentage <= value
  <2> HIDE DEF dividend
  <2> QED BY <1>3, <1>6, <1>7, QuotientAtMost
<1> QED BY <1>4, <1>5, <1>7

-----------------------------------------------------------------------------
(* Sequences *)

\* A function that satisfies the equation of FlattenSeq, up to n.
Flattens(f, parts, n) ==
  f = [i \in 1..n |-> IF i = 1 THEN parts[i] ELSE f[i - 1] \o parts[i]]

\* There is such a function: the first n without one would have one.
LEMMA FlattenExists ==
  ASSUME NEW parts, NEW n \in Nat
  PROVE  \E f : Flattens(f, parts, n)
<1> DEFINE Bad == {m \in Nat : ~ \E f : Flattens(f, parts, m)}
<1>1. ASSUME NEW m \in Bad, \A k \in Bad : m <= k PROVE FALSE
  <2>1. CASE m = 0
    <3> DEFINE f == [i \in 1..0 |-> parts[i]]
    <3>1. Flattens(f, parts, 0)
      BY DEF Flattens
    <3> QED BY <2>1, <3>1
  <2>2. CASE m # 0
    <3>1. m - 1 \in Nat /\ m - 1 \notin Bad
      BY <1>1, <2>2
    <3>2. PICK f : Flattens(f, parts, m - 1)
      BY <3>1
    <3> DEFINE g == [i \in 1..m |-> IF i = 1 THEN parts[i] ELSE f[i - 1] \o parts[i]]
    <3>3. ASSUME NEW i \in 1..m, i # 1
          PROVE  g[i - 1] = f[i - 1]
      <4>1. i - 1 \in 1..m - 1 /\ i - 1 \in 1..m
        BY <3>1, <3>3
      <4> QED BY <3>2, <4>1 DEF Flattens
    <3>4. g = [i \in 1..m |-> IF i = 1 THEN parts[i] ELSE g[i - 1] \o parts[i]]
      BY <3>3
    <3> HIDE DEF g
    <3>5. Flattens(g, parts, m)
      BY <3>4 DEF Flattens
    <3> QED BY <3>5
  <2> QED BY <2>1, <2>2
<1>2. Bad = {}
  <2>1. Bad \subseteq Nat
    OBVIOUS
  <2> HIDE DEF Bad
  <2> QED BY <1>1, <2>1, LeastNatural
<1> QED BY <1>2

\* The equations of FlattenSeq.
LEMMA FlattenEquations ==
  ASSUME NEW n \in Nat, NEW parts, DOMAIN parts = 1..n, Len(parts) = n
  PROVE  /\ n = 0 => FlattenSeq(parts) = parts
         /\ n # 0 => \E f : Flattens(f, parts, n) /\ FlattenSeq(parts) = f[n]
<1> DEFINE flatten == CHOOSE f : Flattens(f, parts, n)
<1>1. Flattens(flatten, parts, n)
  BY FlattenExists
<1>2. n # 0 => FlattenSeq(parts) = flatten[n]
  BY DEF FlattenSeq, Flattens
<1>3. n = 0 => FlattenSeq(parts) = parts
  BY DEF FlattenSeq
<1> QED BY <1>1, <1>2, <1>3

\* Sequences of a set, one after another, are a sequence of that set.
LEMMA FlattenType ==
  ASSUME NEW n \in Nat, NEW S, NEW parts \in [1..n -> Seq(S)]
  PROVE  FlattenSeq(parts) \in Seq(S)
<1>1. DOMAIN parts = 1..n /\ Len(parts) = n
  OBVIOUS
<1>2. CASE n = 0
  <2>1. FlattenSeq(parts) = parts
    BY <1>1, <1>2, FlattenEquations
  <2>2. parts = <<>>
    BY <1>2
  <2> QED BY <2>1, <2>2
<1>3. CASE n # 0
  <2>1. PICK f : Flattens(f, parts, n) /\ FlattenSeq(parts) = f[n]
    BY <1>1, <1>3, FlattenEquations
  <2> DEFINE Bad == {m \in Nat : m \in 1..n /\ f[m] \notin Seq(S)}
  <2>2. ASSUME NEW m \in Bad, \A k \in Bad : m <= k PROVE FALSE
    <3>1. f[m] = IF m = 1 THEN parts[m] ELSE f[m - 1] \o parts[m]
      BY <2>1 DEF Flattens
    <3>2. parts[m] \in Seq(S)
      OBVIOUS
    <3>3. m # 1 => m - 1 \in Nat /\ m - 1 \in 1..n /\ ~ (m <= m - 1)
      OBVIOUS
    <3>4. m # 1 => m - 1 \notin Bad
      BY <2>2, <3>3
    <3>5. m # 1 => f[m - 1] \in Seq(S)
      BY <3>3, <3>4
    <3>6. f[m] \in Seq(S)
      <4>1. CASE m = 1
        BY <3>1, <3>2, <4>1
      <4>2. CASE m # 1
        <5>1. f[m - 1] \o parts[m] \in Seq(S)
          BY <3>2, <3>5, <4>2
        <5> QED BY <3>1, <4>2, <5>1
      <4> QED BY <4>1, <4>2
    <3> QED BY <3>6
  <2>3. Bad = {}
    <3>1. Bad \subseteq Nat
      OBVIOUS
    <3> HIDE DEF Bad
    <3> QED BY <2>2, <3>1, LeastNatural
  <2> QED BY <1>3, <2>1, <2>3
<1> QED BY <1>2, <1>3

\* What is in sequences, one after another, is in one of them.
LEMMA FlattenWithin ==
  ASSUME NEW n \in Nat, NEW S, NEW parts \in [1..n -> Seq(S)],
         NEW x \in ToSet(FlattenSeq(parts))
  PROVE  \E i \in 1..n : x \in ToSet(parts[i])
<1> DEFINE T == {y \in S : \E i \in 1..n : y \in ToSet(parts[i])}
<1>1. ASSUME NEW i \in 1..n PROVE parts[i] \in Seq(T)
  <2>1. parts[i] \in Seq(S)
    OBVIOUS
  <2>2. \A k \in 1..Len(parts[i]) : parts[i][k] \in T
    BY <2>1 DEF ToSet
  <2> HIDE DEF T
  <2> QED BY <2>1, <2>2
<1>2. parts \in [1..n -> Seq(T)]
  BY <1>1
<1> HIDE DEF T
<1>3. FlattenSeq(parts) \in Seq(T)
  BY <1>2, FlattenType
<1>4. x \in T
  BY <1>3 DEF ToSet
<1> QED BY <1>4 DEF T

\* Every element of sequences, one after another, is in the whole.
LEMMA FlattenElement ==
  ASSUME NEW n \in Nat, NEW S, NEW parts \in [1..n -> Seq(S)],
         NEW i \in 1..n, NEW k \in 1..Len(parts[i])
  PROVE  parts[i][k] \in ToSet(FlattenSeq(parts))
<1>1. DOMAIN parts = 1..n /\ Len(parts) = n /\ n # 0
  OBVIOUS
<1>2. PICK f : Flattens(f, parts, n) /\ FlattenSeq(parts) = f[n]
  BY <1>1, FlattenEquations
<1>3. \A m \in 1..n : f[m] = IF m = 1 THEN parts[m] ELSE f[m - 1] \o parts[m]
  BY <1>2 DEF Flattens
<1> DEFINE Has(m) == f[m] \in Seq(S) /\ (i <= m => \E j \in 1..Len(f[m]) : f[m][j] = parts[i][k])
           Bad == {m \in Nat : m \in 1..n /\ ~Has(m)}
<1>4. ASSUME NEW m \in Bad, \A j \in Bad : m <= j PROVE FALSE
  <2>1. parts[m] \in Seq(S) /\ m \in 1..n
    OBVIOUS
  <2>2. CASE m = 1
    <3>1. f[m] = parts[m]
      BY <1>3, <2>1, <2>2
    <3>2. i <= m => i = m
      BY <2>2
    <3> QED BY <1>4, <2>1, <3>1, <3>2
  <2>3. CASE m # 1
    <3>1. m - 1 \in Nat /\ m - 1 \in 1..n /\ ~ (m <= m - 1)
      BY <2>1, <2>3
    <3>2. Has(m - 1)
      <4>1. m - 1 \notin Bad
        BY <1>4, <3>1
      <4> QED BY <3>1, <4>1
    <3> DEFINE g == f[m - 1]
    <3>3. g \in Seq(S) /\ (i <= m - 1 => \E j \in 1..Len(g) : g[j] = parts[i][k])
      BY <3>2
    <3>4. f[m] = g \o parts[m]
      BY <1>3, <2>1, <2>3
    <3> HIDE DEF g
    <3>5. /\ f[m] \in Seq(S)
          /\ Len(f[m]) = Len(g) + Len(parts[m])
          /\ \A j \in 1..Len(g) : f[m][j] = g[j]
          /\ \A j \in 1..Len(parts[m]) : f[m][Len(g) + j] = parts[m][j]
      BY <2>1, <3>3, <3>4
    <3>6. CASE i <= m - 1
      <4>1. PICK j \in 1..Len(g) : g[j] = parts[i][k]
        BY <3>3, <3>6
      <4>2. j \in 1..Len(f[m]) /\ f[m][j] = parts[i][k]
        BY <2>1, <3>3, <3>5, <4>1
      <4> QED BY <1>4, <3>5, <4>2
    <3>7. CASE i = m
      <4>1. /\ Len(g) + k \in 1..Len(f[m])
            /\ f[m][Len(g) + k] = parts[i][k]
        BY <2>1, <3>3, <3>5, <3>7
      <4> QED BY <1>4, <3>5, <4>1
    <3>8. i <= m => i <= m - 1 \/ i = m
      BY <2>1
    <3> QED BY <1>4, <3>5, <3>6, <3>7, <3>8
  <2> QED BY <2>2, <2>3
<1>5. Bad = {}
  <2>1. Bad \subseteq Nat
    OBVIOUS
  <2> HIDE DEF Bad
  <2> QED BY <1>4, <2>1, LeastNatural
<1>6. Has(n)
  <2>1. n \in Nat /\ n \in 1..n
    BY <1>1
  <2>2. n \notin Bad
    BY <1>5
  <2> HIDE DEF Has
  <2> QED BY <2>1, <2>2
<1> QED BY <1>2, <1>6 DEF ToSet

\* The elements of two sequences, one after the other.
LEMMA Joined ==
  ASSUME NEW S, NEW T, NEW s \in Seq(S), NEW t \in Seq(T)
  PROVE  /\ s \o t \in Seq(S \cup T)
         /\ Len(s \o t) = Len(s) + Len(t)
         /\ \A i \in 1..Len(s) : (s \o t)[i] = s[i]
         /\ \A i \in 1..Len(t) : (s \o t)[Len(s) + i] = t[i]
<1>1. s \in Seq(S \cup T) /\ t \in Seq(S \cup T)
  OBVIOUS
<1> QED BY <1>1

\* Two sequences, one after the other, are as long as both.
LEMMA JoinedLength ==
  ASSUME NEW S, NEW s \in Seq(S), NEW t \in Seq(S)
  PROVE  s \o t \in Seq(S) /\ Len(s \o t) = Len(s) + Len(t)
OBVIOUS

\* Sequences of the same lengths, each to each.
SameLengths(n, a, b) == \A i \in 1..n : Len(a[i]) = Len(b[i])

\* They are as long together, one after another.
LEMMA FlattenLengths ==
  ASSUME NEW n \in Nat, NEW S, NEW a \in [1..n -> Seq(S)],
         NEW T, NEW b \in [1..n -> Seq(T)], SameLengths(n, a, b)
  PROVE  Len(FlattenSeq(a)) = Len(FlattenSeq(b))
<1>1. DOMAIN a = 1..n /\ Len(a) = n /\ DOMAIN b = 1..n /\ Len(b) = n
  OBVIOUS
<1>2. CASE n = 0
  <2>1. a = <<>> /\ b = <<>>
    BY <1>2
  <2> QED BY <1>1, <1>2, <2>1, FlattenEquations
<1>3. CASE n # 0
  <2>1. PICK f : Flattens(f, a, n) /\ FlattenSeq(a) = f[n]
    BY <1>1, <1>3, FlattenEquations
  <2>2. PICK g : Flattens(g, b, n) /\ FlattenSeq(b) = g[n]
    BY <1>1, <1>3, FlattenEquations
  <2> DEFINE Good(m) == f[m] \in Seq(S) /\ g[m] \in Seq(T) /\ Len(f[m]) = Len(g[m])
             Bad == {m \in 1..n : ~Good(m)}
  <2>3. ASSUME NEW m \in Bad, \A k \in Bad : m <= k PROVE FALSE
    <3>1. /\ f[m] = IF m = 1 THEN a[m] ELSE f[m - 1] \o a[m]
          /\ g[m] = IF m = 1 THEN b[m] ELSE g[m - 1] \o b[m]
      BY <2>1, <2>2 DEF Flattens
    <3>2. a[m] \in Seq(S) /\ b[m] \in Seq(T) /\ Len(a[m]) = Len(b[m])
      BY DEF SameLengths
    <3>3. CASE m = 1
      BY <3>1, <3>2, <3>3
    <3>4. CASE m # 1
      <4> DEFINE p == f[m - 1]
                 q == g[m - 1]
                 x == a[m]
                 y == b[m]
      <4>1. m - 1 \in 1..n /\ ~(m <= m - 1)
        BY <3>4
      <4>2. Good(m - 1)
        BY <2>3, <4>1
      <4>3. p \in Seq(S) /\ q \in Seq(T) /\ Len(p) = Len(q)
        BY <4>2
      <4>4. x \in Seq(S) /\ y \in Seq(T) /\ Len(x) = Len(y)
        BY <3>2
      <4>5. f[m] = p \o x /\ g[m] = q \o y
        BY <3>1, <3>4
      <4> HIDE DEF p, q, x, y
      <4>6. /\ p \o x \in Seq(S) /\ Len(p \o x) = Len(p) + Len(x)
            /\ q \o y \in Seq(T) /\ Len(q \o y) = Len(q) + Len(y)
        BY <4>3, <4>4, JoinedLength
      <4>7. Good(m)
        BY <4>3, <4>4, <4>5, <4>6
      <4> QED BY <4>7
    <3> QED BY <3>3, <3>4
  <2>4. Bad = {}
    <3>1. Bad \subseteq Nat
      OBVIOUS
    <3> HIDE DEF Bad
    <3> QED BY <2>3, <3>1, LeastNatural
  <2>5. n \in 1..n
    BY <1>3
  <2>6. Good(n)
    BY <2>4, <2>5
  <2> QED BY <2>1, <2>2, <2>6
<1> QED BY <1>2, <1>3

\* Three steps, one after another.
LEMMA ThreeJoined ==
  ASSUME NEW a, NEW b, NEW c
  PROVE  /\ <<a>> \o <<b>> \o <<c>> \in Seq({a, b, c})
         /\ Len(<<a>> \o <<b>> \o <<c>>) = 3
         /\ (<<a>> \o <<b>> \o <<c>>)[1] = a
<1> DEFINE S == {a, b, c}
           x == <<a>>
           y == <<b>>
           z == <<c>>
           xy == x \o y
           xyz == xy \o z
<1>1. /\ x \in Seq(S) /\ y \in Seq(S) /\ z \in Seq(S)
      /\ Len(x) = 1 /\ Len(y) = 1 /\ Len(z) = 1 /\ x[1] = a
  OBVIOUS
<1> HIDE DEF x, y, z, S
<1>2. xy \in Seq(S) /\ Len(xy) = 2 /\ xy[1] = a
  <2>1. /\ xy \in Seq(S) /\ Len(xy) = Len(x) + Len(y)
        /\ \A i \in 1..Len(x) : xy[i] = x[i]
    BY <1>1, JoinedLength, Joined
  <2> HIDE DEF xy
  <2> QED BY <1>1, <2>1
<1> HIDE DEF xy
<1>3. xyz \in Seq(S) /\ Len(xyz) = 3 /\ xyz[1] = a
  <2>1. xy \in Seq(S) /\ z \in Seq(S)
    BY <1>1, <1>2
  <2>2. xyz \in Seq(S) /\ Len(xyz) = Len(xy) + Len(z)
    BY <2>1, JoinedLength
  <2>3. \A i \in 1..Len(xy) : xyz[i] = xy[i]
    BY <2>1, Joined
  <2> HIDE DEF xyz
  <2> QED BY <1>1, <1>2, <2>2, <2>3
<1> QED BY <1>3 DEF xyz, xy, x, y, z, S

\* Sequences of one element or none, no two of them of the same.
OnceEach(n, parts) ==
  \A i \in 1..n : /\ Len(parts[i]) \in {0, 1}
                  /\ \A j \in 1..n : i # j /\ Len(parts[i]) = 1 /\ Len(parts[j]) = 1
                                       => parts[i][1] # parts[j][1]

\* One after another they have each element once.
LEMMA FlattenInjective ==
  ASSUME NEW n \in Nat, NEW S, NEW parts \in [1..n -> Seq(S)], OnceEach(n, parts)
  PROVE  IsInjective(FlattenSeq(parts))
<1>1. DOMAIN parts = 1..n /\ Len(parts) = n
  OBVIOUS
<1>2. CASE n = 0
  <2>1. parts = <<>>
    BY <1>2
  <2>2. FlattenSeq(parts) = <<>>
    BY <1>1, <1>2, <2>1, FlattenEquations
  <2>3. DOMAIN FlattenSeq(parts) = {}
    BY <2>2
  <2> QED BY <2>3 DEF IsInjective
<1>3. CASE n # 0
  <2>1. PICK f : Flattens(f, parts, n) /\ FlattenSeq(parts) = f[n]
    BY <1>1, <1>3, FlattenEquations
  <2> DEFINE Upto(m, x) == \E k \in 1..m : Len(parts[k]) = 1 /\ parts[k][1] = x
             Good(m) == /\ f[m] \in Seq(S)
                        /\ IsInjective(f[m])
                        /\ \A j \in 1..Len(f[m]) : Upto(m, f[m][j])
             Bad == {m \in 1..n : ~Good(m)}
  <2>2. ASSUME NEW m \in Bad, \A k \in Bad : m <= k PROVE FALSE
    <3> DEFINE p == f[m - 1]
               x == parts[m]
    <3>1. f[m] = IF m = 1 THEN x ELSE p \o x
      BY <2>1 DEF Flattens
    <3>2. x \in Seq(S) /\ Len(x) \in {0, 1}
      BY DEF OnceEach
    <3>3. CASE m = 1
      <4>1. f[m] = x
        BY <3>1, <3>3
      <4>2. IsInjective(x)
        BY <3>2 DEF IsInjective
      <4>3. \A j \in 1..Len(x) : Len(parts[m]) = 1 /\ parts[m][1] = x[j]
        BY <3>2
      <4>4. m \in 1..m
        BY <3>3
      <4>5. \A j \in 1..Len(f[m]) : Upto(m, f[m][j])
        BY <4>1, <4>3, <4>4
      <4> QED BY <3>2, <4>1, <4>2, <4>5
    <3>4. CASE m # 1
      <4>1. m - 1 \in 1..n /\ ~(m <= m - 1)
        BY <3>4
      <4>2. Good(m - 1)
        BY <2>2, <4>1
      <4>3. /\ p \in Seq(S) /\ IsInjective(p)
            /\ \A j \in 1..Len(p) : Upto(m - 1, p[j])
        BY <4>2
      <4>4. f[m] = p \o x
        BY <3>1, <3>4
      <4>5. \A y : Upto(m - 1, y) => Upto(m, y)
        BY <4>1
      <4>6. \A j \in 1..Len(x) : Upto(m, x[j])
        <5>1. m \in 1..m
          BY <4>1
        <5>2. \A j \in 1..Len(x) : Len(parts[m]) = 1 /\ parts[m][1] = x[j]
          BY <3>2
        <5> QED BY <5>1, <5>2
      <4>7. Len(x) = 1 => ~Upto(m - 1, x[1])
        <5>1. ASSUME NEW k \in 1..m - 1, Len(parts[k]) = 1, parts[k][1] = x[1], Len(x) = 1
              PROVE  FALSE
          <6>1. k \in 1..n /\ m \in 1..n /\ k # m
            BY <4>1
          <6> QED BY <5>1, <6>1 DEF OnceEach
        <5> QED BY <5>1
      <4> HIDE DEF p, x, Upto
      <4>8. /\ p \o x \in Seq(S) /\ Len(p \o x) = Len(p) + Len(x)
            /\ \A i \in 1..Len(p) : (p \o x)[i] = p[i]
            /\ \A i \in 1..Len(x) : (p \o x)[Len(p) + i] = x[i]
        BY <3>2, <4>3, Joined, JoinedLength
      <4>9. CASE Len(x) = 0
        <5>1. Len(p \o x) = Len(p)
          BY <3>2, <4>3, <4>8, <4>9
        <5>2. IsInjective(p \o x)
          BY <4>3, <4>8, <5>1 DEF IsInjective
        <5>3. \A j \in 1..Len(p \o x) : Upto(m, (p \o x)[j])
          BY <4>3, <4>5, <4>8, <5>1
        <5> QED BY <4>4, <4>8, <5>2, <5>3
      <4>10. CASE Len(x) = 1
        <5> DEFINE l == Len(p)
                   w == p \o x
        <5>1. l \in Nat /\ w \in Seq(S) /\ Len(w) = l + 1 /\ w[l + 1] = x[1]
              /\ \A i \in 1..l : w[i] = p[i]
          <6>1. 1 \in 1..Len(x)
            BY <4>10
          <6> QED BY <4>3, <4>8, <4>10, <6>1
        <5>2. \A i \in 1..l : p[i] # x[1]
          BY <4>3, <4>7, <4>10
        <5>3. \A i, j \in 1..l : p[i] = p[j] => i = j
          BY <4>3 DEF IsInjective
        <5>4. Upto(m, x[1]) /\ \A i \in 1..l : Upto(m, p[i])
          BY <4>3, <4>5, <4>6, <4>10
        <5> HIDE DEF l, w
        <5>5. DOMAIN w = 1..l + 1 /\ \A i \in 1..l + 1 : i \in 1..l \/ i = l + 1
          BY <5>1
        <5>6. IsInjective(w)
          BY <5>1, <5>2, <5>3, <5>5 DEF IsInjective
        <5>7. \A j \in 1..Len(w) : Upto(m, w[j])
          BY <5>1, <5>4, <5>5
        <5> QED BY <4>4, <5>1, <5>6, <5>7 DEF w
      <4> QED BY <3>2, <4>9, <4>10
    <3> QED BY <3>3, <3>4
  <2>3. Bad = {}
    <3>1. Bad \subseteq Nat
      OBVIOUS
    <3> HIDE DEF Bad
    <3> QED BY <2>2, <3>1, LeastNatural
  <2>4. n \in 1..n
    BY <1>3
  <2>5. Good(n)
    BY <2>3, <2>4
  <2> QED BY <2>1, <2>5
<1> QED BY <1>2, <1>3

\* The elements of two sequences, one after the other.
LEMMA JoinedElements ==
  ASSUME NEW S, NEW s \in Seq(S), NEW t \in Seq(S)
  PROVE  s \o t \in Seq(S) /\ ToSet(s) \subseteq ToSet(s \o t) /\ ToSet(t) \subseteq ToSet(s \o t)
<1> DEFINE st == s \o t
<1>1. /\ st \in Seq(S) /\ Len(st) = Len(s) + Len(t)
      /\ \A i \in 1..Len(s) : st[i] = s[i]
      /\ \A i \in 1..Len(t) : st[Len(s) + i] = t[i]
  BY Joined, JoinedLength
<1> HIDE DEF st
<1>2. /\ \A i \in 1..Len(s) : i \in 1..Len(st)
      /\ \A i \in 1..Len(t) : Len(s) + i \in 1..Len(st)
  BY <1>1
<1>3. \A i \in 1..Len(st) : st[i] \in ToSet(st)
  BY <1>1 DEF ToSet
<1>4. ASSUME NEW x \in ToSet(s) PROVE x \in ToSet(st)
  <2>1. PICK i \in 1..Len(s) : x = s[i]
    BY DEF ToSet
  <2>2. i \in 1..Len(st) /\ x = st[i]
    BY <1>1, <1>2, <2>1
  <2> QED BY <1>3, <2>2
<1>5. ASSUME NEW x \in ToSet(t) PROVE x \in ToSet(st)
  <2>1. PICK i \in 1..Len(t) : x = t[i]
    BY DEF ToSet
  <2>2. Len(s) + i \in 1..Len(st) /\ x = st[Len(s) + i]
    BY <1>1, <1>2, <2>1
  <2> QED BY <1>3, <2>2
<1> QED BY <1>1, <1>4, <1>5 DEF st

\* A sequence of whatever elements.
IsSeq(s) == \E S : s \in Seq(S)

\* The same of two of them.
LEMMA JoinedBoth ==
  ASSUME NEW s, NEW t, IsSeq(s), IsSeq(t)
  PROVE  IsSeq(s \o t) /\ ToSet(s) \subseteq ToSet(s \o t) /\ ToSet(t) \subseteq ToSet(s \o t)
<1>1. PICK S : s \in Seq(S)
  BY DEF IsSeq
<1>2. PICK T : t \in Seq(T)
  BY DEF IsSeq
<1>3. s \in Seq(S \cup T) /\ t \in Seq(S \cup T)
  BY <1>1, <1>2
<1> QED BY <1>3, JoinedElements DEF IsSeq

\* Where the elements come from.
LEMMA JoinedSets ==
  ASSUME NEW S, NEW a \in Seq(S), NEW b \in Seq(S)
  PROVE  /\ a \o b \in Seq(S)
         /\ \A i \in 1..Len(a \o b) : \/ i <= Len(a) /\ (a \o b)[i] \in ToSet(a)
                                      \/ i > Len(a) /\ (a \o b)[i] \in ToSet(b)
         /\ ToSet(a \o b) = ToSet(a) \cup ToSet(b)
<1> DEFINE w == a \o b
<1>1. /\ w \in Seq(S) /\ Len(w) = Len(a) + Len(b)
      /\ \A i \in 1..Len(a) : w[i] = a[i]
      /\ \A i \in 1..Len(b) : w[Len(a) + i] = b[i]
      /\ Len(a) \in Nat /\ Len(b) \in Nat
  BY Joined, JoinedLength
<1>2. ToSet(a) \subseteq ToSet(w) /\ ToSet(b) \subseteq ToSet(w)
  BY JoinedElements
<1> HIDE DEF w
<1>3. ASSUME NEW i \in 1..Len(w)
      PROVE  \/ i <= Len(a) /\ w[i] \in ToSet(a)
             \/ i > Len(a) /\ w[i] \in ToSet(b)
  <2>1. CASE i \in 1..Len(a)
    BY <1>1, <2>1 DEF ToSet
  <2>2. CASE i \notin 1..Len(a)
    <3> DEFINE k == i - Len(a)
    <3>1. i > Len(a) /\ k \in 1..Len(b) /\ i = Len(a) + k
      BY <1>1, <2>2
    <3> HIDE DEF k
    <3>2. w[i] = b[k]
      BY <1>1, <3>1
    <3> QED BY <3>1, <3>2 DEF ToSet
  <2> QED BY <2>1, <2>2
<1>4. ToSet(w) \subseteq ToSet(a) \cup ToSet(b)
  BY <1>3 DEF ToSet
<1> QED BY <1>1, <1>2, <1>3, <1>4 DEF w

\* Two sequences that have no element twice and none in common.
LEMMA JoinedInjective ==
  ASSUME NEW A, NEW B, NEW a \in Seq(A), NEW b \in Seq(B), A \cap B = {},
         IsInjective(a), IsInjective(b)
  PROVE  IsInjective(a \o b)
<1> DEFINE ab == a \o b
<1>1. /\ ab \in Seq(A \cup B) /\ Len(ab) = Len(a) + Len(b)
      /\ \A i \in 1..Len(a) : ab[i] = a[i]
      /\ \A i \in 1..Len(b) : ab[Len(a) + i] = b[i]
  BY Joined
<1>2. /\ Len(a) \in Nat /\ Len(b) \in Nat /\ DOMAIN a = 1..Len(a) /\ DOMAIN b = 1..Len(b)
      /\ \A i \in 1..Len(a) : a[i] \in A
      /\ \A i \in 1..Len(b) : b[i] \in B
  OBVIOUS
<1>3. /\ \A i, j \in 1..Len(a) : a[i] = a[j] => i = j
      /\ \A i, j \in 1..Len(b) : b[i] = b[j] => i = j
  BY <1>2 DEF IsInjective
<1> HIDE DEF ab
<1>4. \A k \in 1..Len(ab) : \/ k \in 1..Len(a) /\ ab[k] = a[k]
                            \/ \E i \in 1..Len(b) : k = Len(a) + i /\ ab[k] = b[i]
  <2>1. ASSUME NEW k \in 1..Len(ab), k \notin 1..Len(a)
        PROVE  \E i \in 1..Len(b) : k = Len(a) + i /\ ab[k] = b[i]
    <3>1. k - Len(a) \in 1..Len(b) /\ k = Len(a) + (k - Len(a))
      BY <1>1, <1>2, <2>1
    <3>2. ab[Len(a) + (k - Len(a))] = b[k - Len(a)]
      BY <1>1, <3>1
    <3> QED BY <3>1, <3>2
  <2> QED BY <1>1, <2>1
<1>5. ASSUME NEW k \in 1..Len(ab), NEW l \in 1..Len(ab), ab[k] = ab[l] PROVE k = l
  <2>1. \A i \in 1..Len(a), j \in 1..Len(b) : a[i] # b[j]
    BY <1>2
  <2>2. CASE k \in 1..Len(a) /\ ab[k] = a[k]
    BY <1>3, <1>4, <1>5, <2>1, <2>2
  <2>3. ASSUME NEW i \in 1..Len(b), k = Len(a) + i, ab[k] = b[i] PROVE k = l
    BY <1>3, <1>4, <1>5, <2>1, <2>3
  <2> QED BY <1>4, <2>2, <2>3
<1>6. DOMAIN ab = 1..Len(ab)
  BY <1>1
<1> QED BY <1>5, <1>6 DEF IsInjective, ab

\* A sequence behind two elements, and before the first of them again.
LEMMA Framed ==
  ASSUME NEW T, NEW t \in Seq(T), NEW x, NEW y
  PROVE  LET whole == <<x>> \o (<<y>> \o t) \o <<x>>
         IN  /\ Len(whole) = Len(t) + 3
             /\ whole[1] = x /\ whole[2] = y /\ whole[Len(t) + 3] = x
             /\ \A j \in 1..Len(t) : whole[j + 2] = t[j]
<1> DEFINE S == {x, y} \cup T
           n == Len(t)
           back == <<y>> \o t
           start == <<x>> \o back
           whole == start \o <<x>>
<1>1. <<x>> \in Seq(S) /\ <<y>> \in Seq(S) /\ t \in Seq(S) /\ n \in Nat
  OBVIOUS
<1> HIDE DEF S, n
<1>2. /\ back \in Seq(S) /\ Len(back) = n + 1 /\ back[1] = y
      /\ \A j \in 1..n : back[1 + j] = t[j]
  BY <1>1 DEF n
<1> HIDE DEF back
<1>3. /\ start \in Seq(S) /\ Len(start) = n + 2 /\ start[1] = x
      /\ \A j \in 1..n + 1 : start[1 + j] = back[j]
  BY <1>1, <1>2
<1> HIDE DEF start
<1>4. /\ Len(whole) = n + 3 /\ whole[n + 3] = x
      /\ \A j \in 1..n + 2 : whole[j] = start[j]
  BY <1>1, <1>3
<1> HIDE DEF whole
<1>5. whole[1] = x /\ whole[2] = y
  <2>1. 1 \in 1..n + 2 /\ 2 \in 1..n + 2 /\ 1 \in 1..n + 1 /\ 1 + 1 = 2
    BY <1>1
  <2> QED BY <1>2, <1>3, <1>4, <2>1
<1>6. ASSUME NEW j \in 1..n PROVE whole[j + 2] = t[j]
  <2>1. j + 2 \in 1..n + 2 /\ j + 1 \in 1..n + 1 /\ j + 2 = 1 + (j + 1) /\ j + 1 = 1 + j
    BY <1>1
  <2> QED BY <1>2, <1>3, <1>4, <2>1
<1> QED BY <1>4, <1>5, <1>6 DEF whole, start, back, n
=============================================================================
