----------------------- MODULE YieldAccountingProofs -----------------------
(***************************************************************************)
(* Proofs that the accounting promised to the holders is safe: no round     *)
(* gives out more points than the pool earned, and the pot covers every     *)
(* claim, however the rates and the yields were rounded.                    *)
(***************************************************************************)
EXTENDS YieldAccounting, DataTheorems

\* Division rounds down.
LEMMA FloorDivision ==
  ASSUME NEW a \in Nat, NEW b \in Nat \ {0}
  PROVE  a \div b \in Nat /\ b * (a \div b) <= a
OBVIOUS

\* Dropping a positive factor from both sides of an inequality.
LEMMA FactorCancels ==
  ASSUME NEW a \in Nat, NEW b \in Nat, NEW c \in Nat \ {0}, c * a <= c * b
  PROVE  a <= b
OBVIOUS

\* A difference that does not go below zero.
LEMMA Difference ==
  ASSUME NEW a \in Nat, NEW b \in Nat, a <= b
  PROVE  b - a \in Nat
OBVIOUS

\* What is taken from one account and added to another stays in the sum.
LEMMA MovedAmount ==
  ASSUME NEW a \in Nat, NEW b \in Nat, NEW c \in Nat
  PROVE  /\ b = a + (b - a)
         /\ b + (c + (a - b)) = a + c
OBVIOUS

\* Dividing an amount among the points of a round, with the rate and each
\* share rounded down, never hands out more than the amount.
LEMMA SharesWithinAmount ==
  ASSUME AccountingAssumption, NEW amount \in Nat, NEW t \in Nat \ {0},
         NEW p \in [Users -> Nat], SumOver(Users, p) <= t,
         NEW q \in Nat, q = (amount * RAY) \div t,
         NEW share, \A u \in Users : share[u] = (p[u] * q) \div RAY
  PROVE  SumOver(Users, share) <= amount
<1> USE AccountingAssumption DEF AccountingAssumption
<1> DEFINE scaled == [u \in Users |-> RAY * share[u]]
           exact == [u \in Users |-> q * p[u]]
<1>1. \A u \in Users : share[u] \in Nat /\ RAY * share[u] <= q * p[u]
  <2> TAKE u \in Users
  <2>1. p[u] * q \in Nat /\ p[u] * q = q * p[u]
    OBVIOUS
  <2> QED BY <2>1, FloorDivision
<1>2. SumOver(Users, share) \in Nat
  BY <1>1, SumType
<1>3. SumOver(Users, scaled) = RAY * SumOver(Users, share)
  BY <1>1, SumScale
<1>4. SumOver(Users, exact) = q * SumOver(Users, p)
  BY SumScale
<1>5. SumOver(Users, scaled) <= SumOver(Users, exact)
  <2>1. \A u \in Users : scaled[u] \in Nat /\ exact[u] \in Nat /\ scaled[u] <= exact[u]
    BY <1>1
  <2> HIDE DEF scaled, exact
  <2> QED BY <2>1, SumMonotone
<1>6. SumOver(Users, p) \in Nat
  BY SumType
<1>7. q * SumOver(Users, p) <= q * t
  BY <1>6
<1>8. q * t <= RAY * amount
  <2>1. amount * RAY \in Nat /\ amount * RAY = RAY * amount
    OBVIOUS
  <2>2. t * q <= amount * RAY
    BY <2>1, FloorDivision
  <2> QED BY <2>1, <2>2
<1>9. RAY * SumOver(Users, share) <= RAY * amount
  <2> HIDE DEF scaled, exact
  <2>1. RAY * SumOver(Users, share) \in Nat /\ q * SumOver(Users, p) \in Nat
        /\ q * t \in Nat /\ RAY * amount \in Nat
    BY <1>2, <1>6
  <2> QED BY <1>3, <1>4, <1>5, <1>7, <1>8, <2>1
<1> QED BY <1>2, <1>9, FactorCancels

\* What a user may still claim is a natural number.
LEMMA PendingType ==
  ASSUME AccountingAssumption, TypeOK, NEW u \in Users
  PROVE  /\ IsFiniteSet(Claimable(u))
         /\ \A r \in Claimable(u) : r \in Rounds /\ Yield(u, r) \in Nat
         /\ Pending(u) \in Nat
<1> USE AccountingAssumption DEF AccountingAssumption
<1>1. claimed[u] \in Nat /\ round \in 1 .. MaxRound
  BY DEF TypeOK
<1>2. IsFiniteSet(Claimable(u))
  BY <1>1, FS_Interval DEF Claimable
<1>3. \A r \in Claimable(u) : r \in Rounds
  BY <1>1 DEF Claimable, Rounds
<1>4. ASSUME NEW r \in Claimable(u) PROVE Yield(u, r) \in Nat
  <2>1. points[r][u] \in Nat /\ rate[r] \in Nat
    BY <1>3 DEF TypeOK
  <2>2. points[r][u] * rate[r] \in Nat
    BY <2>1
  <2> QED BY <2>2, FloorDivision DEF Yield
<1>5. Pending(u) \in Nat
  <2> DEFINE due == [r \in Claimable(u) |-> Yield(u, r)]
  <2>1. \A r \in Claimable(u) : due[r] \in Nat
    BY <1>4
  <2> HIDE DEF due
  <2>2. SumOver(Claimable(u), due) \in Nat
    BY <1>2, <2>1, SumType
  <2> QED BY <2>2 DEF Pending, due
<1> QED BY <1>2, <1>3, <1>4, <1>5

\* Pending yield depends on the closed rounds only.
LEMMA PendingUnchanged ==
  ASSUME TypeOK, NEW u \in Users, round' = round, claimed'[u] = claimed[u], rate' = rate,
         \A r \in Claimable(u) : points'[r][u] = points[r][u]
  PROVE  Pending(u)' = Pending(u)
<1> DEFINE due == [r \in Claimable(u) |-> Yield(u, r)]
           dueNext == [r \in Claimable(u) |-> Yield(u, r)']
<1>1. Claimable(u)' = Claimable(u)
  BY DEF Claimable
<1>2. \A r \in Claimable(u) : dueNext[r] = due[r]
  BY DEF Yield
<1>3. SumOver(Claimable(u), dueNext) = SumOver(Claimable(u), due)
  <2> HIDE DEF due, dueNext
  <2> QED BY <1>2, SumCongruence
<1> QED BY <1>1, <1>3 DEF Pending

\* Closing a round adds its yield to what a user may claim.
LEMMA PendingGrows ==
  ASSUME AccountingAssumption, TypeOK, NEW u \in Users, claimed[u] < round, round < MaxRound,
         NEW n \in Nat, n = round, round' = n + 1, UNCHANGED <<claimed, points>>,
         NEW q \in Nat, rate' = [rate EXCEPT ![n] = q]
  PROVE  /\ Yield(u, n)' = (points[n][u] * q) \div RAY
         /\ Yield(u, n)' \in Nat
         /\ Pending(u)' = Pending(u) + Yield(u, n)'
<1> USE AccountingAssumption DEF AccountingAssumption
<1> DEFINE C == Claimable(u)
           due == [r \in C |-> Yield(u, r)]
           dueNext == [r \in C \cup {n} |-> Yield(u, r)']
<1>1. claimed[u] \in Nat /\ round \in 1 .. MaxRound
  BY DEF TypeOK
<1>2. Claimable(u)' = C \cup {n} /\ n \notin C /\ C \cap {n} = {}
  BY <1>1 DEF Claimable
<1>3. n \in Rounds /\ rate'[n] = q
  BY <1>1 DEF TypeOK, Rounds
<1>4. points[n][u] * q \in Nat
  <2>1. points[n][u] \in Nat
    BY <1>3 DEF TypeOK
  <2> QED BY <2>1
<1>5. /\ Yield(u, n)' = (points[n][u] * q) \div RAY
      /\ Yield(u, n)' \in Nat
  BY <1>3, <1>4, FloorDivision DEF Yield
<1>6. \A r \in C : Yield(u, r)' = Yield(u, r) /\ Yield(u, r) \in Nat
  <2> TAKE r \in C
  <2>1. r \in Rounds /\ r # n /\ Yield(u, r) \in Nat
    BY <1>2, PendingType
  <2>2. rate'[r] = rate[r]
    BY <2>1 DEF TypeOK
  <2> QED BY <2>1, <2>2 DEF Yield
<1>7. IsFiniteSet(C) /\ IsFiniteSet({n})
  BY PendingType, FS_Singleton
<1>8. \A r \in C \cup {n} : dueNext[r] \in Nat
  BY <1>5, <1>6
<1>9. \A r \in C : dueNext[r] = due[r]
  BY <1>6
<1>10. dueNext[n] = Yield(u, n)'
  OBVIOUS
<1>11. Pending(u)' = SumOver(C \cup {n}, dueNext)
  BY <1>2 DEF Pending
<1>12. Pending(u) = SumOver(C, due)
  BY DEF Pending
<1> HIDE DEF C, due, dueNext
<1>13. SumOver(C \cup {n}, dueNext) = SumOver(C, dueNext) + SumOver({n}, dueNext)
  BY <1>2, <1>7, <1>8, SumDisjoint
<1>14. SumOver(C, dueNext) = SumOver(C, due)
  BY <1>9, SumCongruence
<1>15. SumOver({n}, dueNext) = Yield(u, n)'
  BY <1>5, <1>10, SumSingleton
<1> QED BY <1>5, <1>11, <1>12, <1>13, <1>14, <1>15

-----------------------------------------------------------------------------

LEMMA InitAccountingInv ==
  ASSUME AccountingAssumption
  PROVE  Init => AccountingInv
<1> USE AccountingAssumption DEF AccountingAssumption
<1> SUFFICES ASSUME Init PROVE AccountingInv
  OBVIOUS
<1>1. TypeOK
  BY DEF Init, TypeOK, Rounds, Drifts
<1>2. \A r \in Rounds : points[r] = held /\ total[r] = supply
  BY DEF Init
<1>3. SumOver(Users, held) = 0
  <2>1. Units(Users, held) = {}
    BY DEF Init, Units
  <2> QED BY <2>1, FS_EmptySet DEF SumOver
<1>4. Covered(held, supply, drift) /\ PointsCovered
  BY <1>2, <1>3 DEF Init, Covered, PointsCovered
<1>5. Solvent
  <2> DEFINE pending == [u \in Users |-> Pending(u)]
  <2>1. \A u \in Users : Pending(u) = 0
    <3> TAKE u \in Users
    <3>1. Claimable(u) = {}
      BY DEF Init, Claimable
    <3> QED BY <3>1, SumEmpty DEF Pending
  <2>2. Units(Users, pending) = {}
    BY <2>1 DEF Units
  <2>3. SumOver(Users, pending) = 0
    BY <2>2, FS_EmptySet DEF SumOver
  <2> QED BY <2>3 DEF Init, Solvent
<1> QED BY <1>1, <1>4, <1>5 DEF AccountingInv, Init

\* The type part is inductive by itself.
LEMMA NextTypeOK ==
  ASSUME AccountingAssumption, AccountingInv, [Next]_vars
  PROVE  TypeOK' /\ \A u \in Users : claimed'[u] < round'
<1> USE AccountingAssumption DEF AccountingAssumption, AccountingInv, TypeOK, Rounds
<1>1. CASE Earn
  <2>1. [u \in Users |-> points[round][u] + held[u]] \in [Users -> Nat]
    OBVIOUS
  <2>2. points' \in [Rounds -> [Users -> Nat]]
    BY <1>1, <2>1 DEF Earn
  <2>3. total' \in [Rounds -> Nat]
    BY <1>1 DEF Earn
  <2> QED BY <1>1, <2>2, <2>3 DEF Earn
<1>2. CASE Track
  BY <1>2 DEF Track
<1>3. CASE Distribute
  <2>1. round \in Rounds /\ total[round] \in Nat \ {0}
    BY <1>3 DEF Distribute
  <2>2. pot \in Nat /\ pot' \in Nat /\ pot <= pot'
    BY <1>3 DEF Distribute
  <2> DEFINE q == ((pot' - pot) * RAY) \div total[round]
  <2>3. q \in Nat
    <3>1. pot' - pot \in Nat /\ RAY \in Nat
      BY <2>2, Difference
    <3>2. (pot' - pot) * RAY \in Nat
      BY <3>1
    <3> QED BY <2>1, <3>2, FloorDivision
  <2>4. rate' = [rate EXCEPT ![round] = q]
    BY <1>3 DEF Distribute
  <2> HIDE DEF q
  <2>5. rate' \in [Rounds -> Nat]
    BY <2>3, <2>4
  <2>6. round' = round + 1 /\ round < MaxRound /\ claimed' = claimed
    BY <1>3 DEF Distribute
  <2>7. round' \in 1 .. MaxRound /\ \A u \in Users : claimed'[u] < round'
    BY <2>6
  <2>8. UNCHANGED <<held, supply, points, total, claimed, received, rescued, drift>>
    BY <1>3 DEF Distribute
  <2> QED BY <2>2, <2>5, <2>7, <2>8
<1>4. CASE \E u \in Users : Claim(u)
  <2>1. PICK u \in Users : Claim(u)
    BY <1>4
  <2>2. Pending(u) \in Nat
    BY PendingType
  <2>3. pot' \in Nat
    BY <2>1, <2>2, Difference DEF Claim
  <2>6. received' \in [Users -> Nat]
    <3> DEFINE sum == received[u] + Pending(u)
    <3>1. sum \in Nat
      BY <2>2
    <3>2. received' = [received EXCEPT ![u] = sum]
      BY <2>1 DEF Claim
    <3> HIDE DEF sum
    <3> QED BY <3>1, <3>2
  <2>4. claimed' \in [Users -> Nat] /\ round' = round /\ \A v \in Users : claimed'[v] < round'
    BY <2>1 DEF Claim
  <2>5. UNCHANGED <<round, held, supply, points, total, rate, rescued, drift>>
    BY <2>1 DEF Claim
  <2> QED BY <2>3, <2>4, <2>5, <2>6
<1>5. CASE Rescue
  <2>1. pot' \in Nat /\ pot' <= pot /\ rescued' = rescued + (pot - pot')
    BY <1>5 DEF Rescue
  <2>2. rescued' \in Nat
    <3> DEFINE taken == pot - pot'
    <3>1. taken \in Nat
      BY <2>1, Difference
    <3>2. rescued' = rescued + taken
      BY <2>1
    <3> HIDE DEF taken
    <3> QED BY <3>1, <3>2
  <2>3. UNCHANGED <<round, held, supply, points, total, rate, claimed, received, drift>>
    BY <1>5 DEF Rescue
  <2> QED BY <2>1, <2>2, <2>3
<1>6. CASE UNCHANGED vars
  BY <1>6 DEF vars
<1> QED BY <1>1, <1>2, <1>3, <1>4, <1>5, <1>6 DEF Next

\* In every unit of time the users earn what they hold and the pool earns its
\* supply, so that points stay covered as long as the balances are.
LEMMA NextCovered ==
  ASSUME AccountingAssumption, AccountingInv, [Next]_vars
  PROVE  Covered(held, supply, drift)' /\ PointsCovered'
<1> USE AccountingAssumption DEF AccountingAssumption, AccountingInv
<1>1. CASE Earn
  <2> USE <1>1 DEF Earn
  <2>1. held \in [Users -> Nat] /\ supply \in Nat /\ round \in Rounds
    BY DEF TypeOK, Rounds
  <2>2. points[round] \in [Users -> Nat] /\ total[round] \in Nat
    BY <2>1 DEF TypeOK
  <2>3. /\ points'[round] = [u \in Users |-> points[round][u] + held[u]]
        /\ total'[round] = total[round] + supply
    BY <2>1 DEF TypeOK
  <2>4. SumOver(Users, points'[round]) = SumOver(Users, points[round]) + SumOver(Users, held)
    <3>1. \A u \in Users : points'[round][u] = points[round][u] + held[u]
      BY <2>3
    <3> QED BY <2>1, <2>2, <3>1, SumAdd
  <2>5. SumOver(Users, points[round]) \in Nat /\ SumOver(Users, held) \in Nat
    BY <2>1, <2>2, SumType
  <2>6. Covered(points[round], total[round], drift)
    BY <2>1 DEF PointsCovered
  <2>7. Covered(points'[round], total'[round], drift)
    BY <2>1, <2>2, <2>3, <2>4, <2>5, <2>6 DEF Covered
  <2>8. \A r \in Rounds : r # round => points'[r] = points[r] /\ total'[r] = total[r]
    BY DEF TypeOK
  <2>9. \A r \in Rounds : Covered(points'[r], total'[r], drift)
    BY <2>7, <2>8 DEF PointsCovered
  <2> QED BY <2>9 DEF PointsCovered, Covered
<1>2. CASE Track
  <2>1. \A r \in Rounds : SumOver(Users, points[r]) \in Nat /\ total[r] \in Nat
    BY SumType DEF TypeOK
  <2> QED BY <1>2, <2>1 DEF Track, PointsCovered, Covered, TypeOK, Drifts
<1>3. CASE Distribute
  BY <1>3 DEF Distribute, PointsCovered, Covered
<1>4. CASE \E u \in Users : Claim(u)
  BY <1>4 DEF Claim, PointsCovered, Covered
<1>5. CASE Rescue
  BY <1>5 DEF Rescue, PointsCovered, Covered
<1>6. CASE UNCHANGED vars
  BY <1>6 DEF vars, PointsCovered, Covered
<1> QED BY <1>1, <1>2, <1>3, <1>4, <1>5, <1>6 DEF Next

\* Steps that leave the closed rounds alone leave every claim alone.
LEMMA PendingSumUnchanged ==
  ASSUME TypeOK, round' = round, claimed' = claimed, rate' = rate,
         \A u \in Users : \A r \in Claimable(u) : points'[r][u] = points[r][u]
  PROVE  SumOver(Users, [u \in Users |-> Pending(u)]) = SumOver(Users, [u \in Users |-> Pending(u)])'
<1>1. \A u \in Users : Pending(u)' = Pending(u)
  BY PendingUnchanged
<1> QED BY <1>1

\* Paying in covers the yield of the round it closes, paying out is what the
\* user is owed, and the owner's withdrawals are counted.
LEMMA NextSolvent ==
  ASSUME AccountingAssumption, AccountingInv, [Next]_vars
  PROVE  Solvent'
<1> USE AccountingAssumption DEF AccountingAssumption, AccountingInv
<1> DEFINE pending == [u \in Users |-> Pending(u)]
<1>0. TypeOK' /\ pot \in Nat /\ rescued \in Nat /\ pot' \in Nat /\ rescued' \in Nat
  BY NextTypeOK DEF TypeOK
<1>p. \A u \in Users : Pending(u) \in Nat /\ pending[u] = Pending(u)
  BY PendingType
<1>s. SumOver(Users, pending) \in Nat
  BY <1>p, SumType
<1>d. drift' # "stale" => drift # "stale"
  BY DEF Next, vars, Earn, Track, Distribute, Claim, Rescue
<1>o. drift # "stale" => SumOver(Users, pending) <= pot + rescued
  BY DEF Solvent
<1>1. CASE Earn
  <2>1. \A u \in Users : \A r \in Claimable(u) : points'[r][u] = points[r][u]
    <3> TAKE u \in Users
    <3> TAKE r \in Claimable(u)
    <3>1. r \in Rounds
      BY PendingType
    <3>2. r # round
      BY DEF Claimable, TypeOK
    <3> QED BY <1>1, <3>1, <3>2 DEF Earn, TypeOK
  <2>2. SumOver(Users, pending) = SumOver(Users, pending)'
    BY <1>1, <2>1, PendingSumUnchanged DEF Earn
  <2> QED BY <1>1, <2>2, <1>o DEF Earn, Solvent
<1>2. CASE Track
  <2>1. SumOver(Users, pending) = SumOver(Users, pending)'
    BY <1>2, PendingSumUnchanged DEF Track
  <2> QED BY <1>2, <2>1, <1>o, <1>d DEF Track, Solvent
<1>3. CASE Distribute
  <2>1. PICK n \in Nat : n = round
    BY DEF TypeOK
  <2>2. n \in Rounds /\ total[n] \in Nat \ {0} /\ points[n] \in [Users -> Nat]
    BY <1>3, <2>1 DEF TypeOK, Rounds, Distribute
  <2> DEFINE amount == pot' - pot
             q == (amount * RAY) \div total[n]
             share == [u \in Users |-> Yield(u, n)']
  <2>3. amount \in Nat
    BY <1>3, <1>0, Difference DEF Distribute
  <2>4. q \in Nat
    <3>1. amount * RAY \in Nat
      BY <2>3
    <3> QED BY <2>2, <3>1, FloorDivision
  <2>5. rate' = [rate EXCEPT ![n] = q]
    BY <1>3, <2>1 DEF Distribute
  <2>6. pot' = pot + amount
    BY <1>0, MovedAmount
  <2> HIDE DEF amount
  <2>7. q = (amount * RAY) \div total[n]
    OBVIOUS
  <2> HIDE DEF q
  <2>8. /\ \A u \in Users : claimed[u] < round
        /\ round < MaxRound /\ round' = n + 1 /\ UNCHANGED <<claimed, points>>
    BY <1>3, <2>1 DEF Distribute
  <2>9. \A u \in Users : /\ Yield(u, n)' = (points[n][u] * q) \div RAY
                         /\ Yield(u, n)' \in Nat
                         /\ Pending(u)' = Pending(u) + Yield(u, n)'
    BY <2>1, <2>4, <2>5, <2>8, PendingGrows
  <2>10. \A u \in Users : share[u] = Yield(u, n)' /\ share[u] \in Nat /\ pending'[u] = pending[u] + share[u]
    BY <2>9
  <2>11. ASSUME drift # "stale" PROVE SumOver(Users, share) <= amount
    <3>1. SumOver(Users, points[n]) \in Nat
      BY <2>2, SumType
    <3>2. SumOver(Users, points[n]) <= total[n]
      BY <2>2, <2>11, <3>1 DEF PointsCovered, Covered, TypeOK, Drifts
    <3> DEFINE p == points[n]
               t == total[n]
    <3>3. p \in [Users -> Nat] /\ t \in Nat \ {0} /\ SumOver(Users, p) <= t /\ q = (amount * RAY) \div t
      BY <2>2, <2>7, <3>2
    <3>4. \A u \in Users : share[u] = (p[u] * q) \div RAY
      BY <2>9, <2>10
    <3> HIDE DEF p, t, share, AccountingAssumption
    <3> QED BY <2>3, <2>4, <3>3, <3>4, SharesWithinAmount
  <2> HIDE DEF share, pending
  <2>12. SumOver(Users, pending') = SumOver(Users, pending) + SumOver(Users, share)
    BY <1>p, <2>10, SumAdd
  <2>13. SumOver(Users, share) \in Nat
    BY <2>10, SumType
  <2>14. drift' # "stale" => SumOver(Users, pending') <= pot' + rescued'
    BY <1>0, <1>s, <1>o, <1>d, <1>3, <2>3, <2>6, <2>11, <2>12, <2>13 DEF Distribute
  <2> QED BY <2>14 DEF Solvent, pending
<1>4. CASE \E u \in Users : Claim(u)
  <2>1. PICK u \in Users : Claim(u)
    BY <1>4
  <2>2. Pending(u)' = 0
    <3>1. Claimable(u)' = {}
      BY <2>1 DEF Claim, Claimable, TypeOK
    <3> QED BY <3>1, SumEmpty DEF Pending
  <2>3. \A v \in Users \ {u} : Pending(v)' = Pending(v)
    <3> TAKE v \in Users \ {u}
    <3>1. claimed'[v] = claimed[v]
      BY <2>1 DEF Claim, TypeOK
    <3> QED BY <2>1, <3>1, PendingUnchanged DEF Claim
  <2>4. \A v \in Users : pending'[v] \in Nat
    BY <1>p, <2>2, <2>3
  <2>5. \A v \in Users \ {u} : pending'[v] = pending[v]
    BY <2>3
  <2>6. pending'[u] = 0 /\ pending[u] = Pending(u)
    BY <2>2
  <2> HIDE DEF pending
  <2>7. SumOver(Users, pending') + pending[u] = SumOver(Users, pending) + pending'[u]
    BY <1>p, <2>4, <2>5, SumUpdate
  <2>8. SumOver(Users, pending') \in Nat
    BY <2>4, SumType
  <2>9. pot' = pot - pending[u] /\ rescued' = rescued /\ drift' = drift
    BY <2>1, <2>6 DEF Claim
  <2>10. drift' # "stale" => SumOver(Users, pending') <= pot' + rescued'
    BY <1>0, <1>p, <1>s, <1>o, <2>6, <2>7, <2>8, <2>9
  <2> QED BY <2>10 DEF Solvent, pending
<1>5. CASE Rescue
  <2>1. SumOver(Users, pending) = SumOver(Users, pending)'
    BY <1>5, PendingSumUnchanged DEF Rescue
  <2>2. pot' + rescued' = pot + rescued
    BY <1>0, <1>5, MovedAmount DEF Rescue
  <2> QED BY <1>5, <2>1, <2>2, <1>o DEF Rescue, Solvent
<1>6. CASE UNCHANGED vars
  <2>1. SumOver(Users, pending) = SumOver(Users, pending)'
    BY <1>6, PendingSumUnchanged DEF vars
  <2> QED BY <1>6, <2>1, <1>o DEF vars, Solvent
<1> QED BY <1>1, <1>2, <1>3, <1>4, <1>5, <1>6 DEF Next

\* The accounting invariant holds in every reachable state: points are covered
\* in every round and the pot, with what the owner took, covers every claim.
THEOREM AccountingSafe ==
  ASSUME AccountingAssumption
  PROVE  Spec => []AccountingInv
<1>1. AccountingInv /\ [Next]_vars => AccountingInv'
  <2> SUFFICES ASSUME AccountingInv, [Next]_vars PROVE AccountingInv'
    OBVIOUS
  <2> QED BY NextTypeOK, NextCovered, NextSolvent DEF AccountingInv
<1> QED BY InitAccountingInv, <1>1, PTL DEF Spec
=============================================================================
