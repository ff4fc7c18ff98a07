------------------------- MODULE LendingPoolProofs -------------------------
(***************************************************************************)
(* PoolInv is an inductive invariant of LendingPool, for any markets, users *)
(* and amounts.                                                             *)
(***************************************************************************)
EXTENDS LendingPool, DataTheorems

-----------------------------------------------------------------------------
(* Ledgers *)

LEMMA HoldersFinite == IsFiniteSet(Holders)
BY PoolAssumption, FS_Singleton, FS_Union DEF Holders

\* A credit adds to one balance, and as much to the total of its asset.
LEMMA CreditFacts ==
  ASSUME NEW S, IsFiniteSet(S), NEW f \in [Assets -> [S -> Nat]], NEW a \in Assets,
         NEW u \in S, NEW x \in Nat
  PROVE  /\ Credit(f, a, u, x) \in [Assets -> [S -> Nat]]
         /\ Credit(f, a, u, x)[a][u] = f[a][u] + x
         /\ \A v \in S \ {u} : Credit(f, a, u, x)[a][v] = f[a][v]
         /\ \A b \in Assets \ {a} : Credit(f, a, u, x)[b] = f[b]
         /\ SumOver(S, Credit(f, a, u, x)[a]) = SumOver(S, f[a]) + x
<1> DEFINE g == Credit(f, a, u, x)
<1>1. /\ g \in [Assets -> [S -> Nat]]
      /\ g[a][u] = f[a][u] + x
      /\ \A v \in S \ {u} : g[a][v] = f[a][v]
      /\ \A b \in Assets \ {a} : g[b] = f[b]
  BY DEF Credit
<1> HIDE DEF g
<1>2. f[a] \in [S -> Nat] /\ g[a] \in [S -> Nat]
  BY <1>1
<1>3. SumOver(S, g[a]) + f[a][u] = SumOver(S, f[a]) + g[a][u]
  <2> DEFINE before == f[a]
             after == g[a]
  <2>1. \A i \in S : before[i] \in Nat /\ after[i] \in Nat
    BY <1>2
  <2>2. \A i \in S \ {u} : after[i] = before[i]
    BY <1>1
  <2> HIDE DEF before, after
  <2>3. SumOver(S, after) + before[u] = SumOver(S, before) + after[u]
    BY <2>1, <2>2, SumUpdate
  <2> QED BY <2>3 DEF before, after
<1>4. SumOver(S, g[a]) \in Nat /\ SumOver(S, f[a]) \in Nat /\ f[a][u] \in Nat
  BY <1>2, SumType
<1>5. SumOver(S, g[a]) = SumOver(S, f[a]) + x
  <2> DEFINE before == SumOver(S, f[a])
             after == SumOver(S, g[a])
             balance == f[a][u]
  <2>1. after + balance = before + (balance + x)
    BY <1>1, <1>3
  <2>2. before \in Nat /\ after \in Nat /\ balance \in Nat
    BY <1>4
  <2> HIDE DEF before, after, balance
  <2>3. after = before + x
    BY <2>1, <2>2
  <2> QED BY <2>3 DEF before, after
<1> QED BY <1>1, <1>5 DEF g

\* A debit takes from one balance, and as much from the total of its asset.
LEMMA DebitFacts ==
  ASSUME NEW S, IsFiniteSet(S), NEW f \in [Assets -> [S -> Nat]], NEW a \in Assets,
         NEW u \in S, NEW x \in Nat, x <= f[a][u]
  PROVE  /\ Debit(f, a, u, x) \in [Assets -> [S -> Nat]]
         /\ Debit(f, a, u, x)[a][u] = f[a][u] - x
         /\ \A v \in S \ {u} : Debit(f, a, u, x)[a][v] = f[a][v]
         /\ \A b \in Assets \ {a} : Debit(f, a, u, x)[b] = f[b]
         /\ SumOver(S, f[a]) = SumOver(S, Debit(f, a, u, x)[a]) + x
<1> DEFINE g == Debit(f, a, u, x)
<1>0. f[a][u] \in Nat /\ f[a][u] - x \in Nat
  OBVIOUS
<1>1. /\ g \in [Assets -> [S -> Nat]]
      /\ g[a][u] = f[a][u] - x
      /\ \A v \in S \ {u} : g[a][v] = f[a][v]
      /\ \A b \in Assets \ {a} : g[b] = f[b]
  BY <1>0 DEF Debit
<1> HIDE DEF g
<1>2. f[a] \in [S -> Nat] /\ g[a] \in [S -> Nat]
  BY <1>1
<1>3. SumOver(S, g[a]) + f[a][u] = SumOver(S, f[a]) + g[a][u]
  <2> DEFINE before == f[a]
             after == g[a]
  <2>1. \A i \in S : before[i] \in Nat /\ after[i] \in Nat
    BY <1>2
  <2>2. \A i \in S \ {u} : after[i] = before[i]
    BY <1>1
  <2> HIDE DEF before, after
  <2>3. SumOver(S, after) + before[u] = SumOver(S, before) + after[u]
    BY <2>1, <2>2, SumUpdate
  <2> QED BY <2>3 DEF before, after
<1>4. SumOver(S, g[a]) \in Nat /\ SumOver(S, f[a]) \in Nat
  BY <1>2, SumType
<1>5. SumOver(S, f[a]) = SumOver(S, g[a]) + x
  <2> DEFINE before == SumOver(S, f[a])
             after == SumOver(S, g[a])
             balance == f[a][u]
  <2>1. after + balance = before + (balance - x)
    BY <1>1, <1>3
  <2>2. before \in Nat /\ after \in Nat /\ balance \in Nat
    BY <1>0, <1>4
  <2> HIDE DEF before, after, balance
  <2>3. before = after + x
    BY <2>1, <2>2
  <2> QED BY <2>3 DEF before, after
<1> QED BY <1>1, <1>5 DEF g

\* Ledger g is ledger f with x more of asset a, and all else the same.
Adds(S, f, g, a, x) ==
  /\ g \in [Assets -> [S -> Nat]]
  /\ \A b \in Assets \ {a} : g[b] = f[b]
  /\ SumOver(S, g[a]) = SumOver(S, f[a]) + x

LEMMA CreditAdds ==
  ASSUME NEW S, IsFiniteSet(S), NEW f \in [Assets -> [S -> Nat]], NEW a \in Assets,
         NEW u \in S, NEW x \in Nat
  PROVE  Adds(S, f, Credit(f, a, u, x), a, x)
BY CreditFacts DEF Adds

LEMMA DebitTakes ==
  ASSUME NEW S, IsFiniteSet(S), NEW f \in [Assets -> [S -> Nat]], NEW a \in Assets,
         NEW u \in S, NEW x \in Nat, x <= f[a][u]
  PROVE  /\ Debit(f, a, u, x) \in [Assets -> [S -> Nat]]
         /\ Adds(S, Debit(f, a, u, x), f, a, x)
BY DebitFacts DEF Adds

-----------------------------------------------------------------------------
(* Flags *)

\* SiloedAlone and IsolatedAlone, of one set of flags
SiloedIn(flags) == \A a \in flags : Config[a].siloed => flags = {a}
IsolatedIn(flags) == \A a \in flags : Config[a].debtCeiling # 0 => flags = {a}

LEMMA FlagInvariants ==
  /\ SiloedAlone <=> \A u \in Users : SiloedIn(borrowing[u])
  /\ IsolatedAlone <=> \A u \in Users : IsolatedIn(usingAsCollateral[u])
BY DEF SiloedAlone, IsolatedAlone, SiloedIn, IsolatedIn

\* Clearing a flag keeps the others alone.
LEMMA FlagCleared ==
  ASSUME NEW flags, NEW a
  PROVE  /\ SiloedIn(flags) => SiloedIn(flags \ {a})
         /\ IsolatedIn(flags) => IsolatedIn(flags \ {a})
BY DEF SiloedIn, IsolatedIn

\* A debt that the siloed borrowing rule admits keeps siloed debts alone.
LEMMA SiloLendsAlone ==
  ASSUME NEW flags, SiloedIn(flags), NEW a, SiloLends(flags, a)
  PROVE  SiloedIn(flags \cup {a})
<1>1. CASE flags = {}
  BY <1>1 DEF SiloedIn
<1>2. CASE flags # {} /\ SiloedAsset(flags) # {}
  BY <1>2 DEF SiloedIn, SiloLends, SiloedAsset
<1>3. CASE flags # {} /\ SiloedAsset(flags) = {}
  BY <1>3 DEF SiloedIn, SiloLends, SiloedAsset
<1> QED BY <1>1, <1>2, <1>3

\* A collateral that the isolation rule admits keeps isolated collateral alone.
LEMMA CollateralAlone ==
  ASSUME NEW flags, IsolatedIn(flags), NEW a, MayUseAsCollateral(flags, a)
  PROVE  IsolatedIn(flags \cup {a})
BY DEF IsolatedIn, MayUseAsCollateral, IsolatedCollateral

LEMMA ReceiptAlone ==
  ASSUME NEW callers, NEW flags \in SUBSET Assets, IsolatedIn(flags), NEW a \in Assets, NEW before
  PROVE  /\ FlagsAfterReceipt(callers, flags, a, before) \in SUBSET Assets
         /\ IsolatedIn(FlagsAfterReceipt(callers, flags, a, before))
<1>1. CASE before = 0 /\ AutomaticCollateral(callers, flags, a)
  BY <1>1, CollateralAlone DEF FlagsAfterReceipt, AutomaticCollateral
<1>2. CASE ~ (before = 0 /\ AutomaticCollateral(callers, flags, a))
  BY <1>2 DEF FlagsAfterReceipt
<1> QED BY <1>1, <1>2

-----------------------------------------------------------------------------
(* The debt counted against isolated collateral *)

LEMMA CeilingUnitsNat ==
  ASSUME NEW x \in Nat
  PROVE  CeilingUnits(x) \in Nat
BY PoolAssumption, Quotient DEF CeilingUnits

\* A repayment never raises a counted debt.
LEMMA RepayLowersIsolatedDebt ==
  ASSUME TypeOK, CeilingHeld, NEW flags, NEW repaid \in Nat,
         isolationModeTotalDebt' = IsolatedDebtAfterRepay(flags, repaid)
  PROVE  isolationModeTotalDebt' \in [Assets -> Nat] /\ CeilingHeld'
<1>1. CeilingUnits(repaid) \in Nat
  BY CeilingUnitsNat
<1>2. \A a \in Assets : isolationModeTotalDebt[a] \in Nat
  BY DEF TypeOK
<1>3. \A a \in Assets : Config[a].debtCeiling \in Nat
  BY PoolAssumption DEF ReserveConfig
<1> DEFINE units == CeilingUnits(repaid)
<1> HIDE DEF units
<1>4. units \in Nat
  BY <1>1 DEF units
<1>5. \A a \in Assets :
        /\ isolationModeTotalDebt'[a] \in Nat
        /\ isolationModeTotalDebt'[a] <= isolationModeTotalDebt[a]
  BY <1>2, <1>4 DEF IsolatedDebtAfterRepay, units
<1>6. isolationModeTotalDebt' \in [Assets -> Nat]
  <2>1. isolationModeTotalDebt' = [a \in Assets |-> isolationModeTotalDebt'[a]]
    BY DEF IsolatedDebtAfterRepay
  <2> QED BY <1>5, <2>1
<1>7. ASSUME NEW a \in Assets PROVE isolationModeTotalDebt'[a] <= Config[a].debtCeiling
  BY <1>2, <1>3, <1>5 DEF CeilingHeld
<1> QED BY <1>6, <1>7 DEF CeilingHeld
-----------------------------------------------------------------------------
(* Supplying *)

\* The parts of the invariant that calls without a change of debt keep.
LEMMA DebtsUntouched ==
  ASSUME PoolInv, UNCHANGED <<stableDebt, variableDebt, borrowing, isolationModeTotalDebt>>
  PROVE  BorrowingMatchesDebt' /\ SiloedAlone' /\ CeilingHeld' /\ \A a \in Assets : TotalDebt(a)' = TotalDebt(a)
BY DEF PoolInv, BorrowingMatchesDebt, DebtOf, SiloedAlone, CeilingHeld, TotalDebt

LEMMA TotalsNat ==
  ASSUME TypeOK, NEW a \in Assets
  PROVE  /\ cash[a] \in Nat /\ TotalSupply(a) \in Nat /\ TotalDebt(a) \in Nat
         /\ SumOver(Users, stableDebt[a]) \in Nat
         /\ SumOver(Users, variableDebt[a]) \in Nat
<1>1. /\ aToken[a] \in [Holders -> Nat]
      /\ stableDebt[a] \in [Users -> Nat]
      /\ variableDebt[a] \in [Users -> Nat]
      /\ cash[a] \in Nat
  BY DEF TypeOK
<1>2. IsFiniteSet(Users)
  BY PoolAssumption
<1>3. SumOver(Holders, aToken[a]) \in Nat
  BY <1>1, HoldersFinite, SumType
<1>4. SumOver(Users, stableDebt[a]) \in Nat /\ SumOver(Users, variableDebt[a]) \in Nat
  BY <1>1, <1>2, SumType
<1> QED BY <1>1, <1>3, <1>4 DEF TotalSupply, TotalDebt

LEMMA TotalsPrimedNat ==
  ASSUME TypeOK', NEW a \in Assets
  PROVE  TotalSupply(a)' \in Nat /\ TotalDebt(a)' \in Nat
<1>1. /\ aToken'[a] \in [Holders -> Nat]
      /\ stableDebt'[a] \in [Users -> Nat]
      /\ variableDebt'[a] \in [Users -> Nat]
  BY DEF TypeOK
<1>2. IsFiniteSet(Users)
  BY PoolAssumption
<1>3. SumOver(Holders, aToken'[a]) \in Nat
  BY <1>1, HoldersFinite, SumType
<1>4. SumOver(Users, stableDebt'[a]) \in Nat /\ SumOver(Users, variableDebt'[a]) \in Nat
  BY <1>1, <1>2, SumType
<1> QED BY <1>3, <1>4 DEF TotalSupply, TotalDebt

LEMMA LentNat ==
  ASSUME TypeOK, NEW a \in Assets
  PROVE  Lent(a) \in Nat
<1>1. CASE \E f \in flash : f.asset = a
  <2>1. PICK f \in flash : f.asset = a
    BY <1>1
  <2>2. flash = {f} /\ f.amount \in Nat
    BY <2>1 DEF TypeOK
  <2>3. (CHOOSE g \in flash : TRUE) = f
    BY <2>2
  <2> QED BY <1>1, <2>2, <2>3 DEF Lent
<1>2. CASE ~ \E f \in flash : f.asset = a
  BY <1>2 DEF Lent
<1> QED BY <1>1, <1>2

\* A call that changes what is held, lent and owed of one asset keeps the
\* claims backed when the change of the claims is that of the backing.
LEMMA BackedWhenPaid ==
  ASSUME PoolInv, flash' = flash, NEW a \in Assets,
         \A b \in Assets \ {a} : /\ cash'[b] = cash[b]
                                 /\ TotalSupply(b)' = TotalSupply(b)
                                 /\ TotalDebt(b)' = TotalDebt(b),
         cash'[a] \in Nat, TotalSupply(a)' \in Nat, TotalDebt(a)' \in Nat,
         TotalSupply(a)' + cash[a] + TotalDebt(a) = TotalSupply(a) + cash'[a] + TotalDebt(a)'
  PROVE  Backed'
<1> USE DEF PoolInv
<1> SUFFICES ASSUME NEW b \in Assets
             PROVE  TotalSupply(b)' = cash'[b] + TotalDebt(b)' + Lent(b)'
  BY DEF Backed
<1>1. TotalSupply(b) = cash[b] + TotalDebt(b) + Lent(b)
  BY DEF Backed
<1>2. Lent(b)' = Lent(b)
  BY DEF Lent
<1>3. CASE b = a
  <2>1. /\ cash[a] \in Nat /\ TotalSupply(a) \in Nat /\ TotalDebt(a) \in Nat
        /\ Lent(a) \in Nat
    BY TotalsNat, LentNat
  <2>2. TotalSupply(a) = cash[a] + TotalDebt(a) + Lent(a) /\ Lent(a)' = Lent(a)
    BY <1>1, <1>2, <1>3
  <2>3. TotalSupply(a)' = cash'[a] + TotalDebt(a)' + Lent(a)'
    BY <2>1, <2>2
  <2> QED BY <1>3, <2>3
<1>4. CASE b # a
  BY <1>1, <1>2, <1>4
<1> QED BY <1>3, <1>4

LEMMA SupplyKeeps ==
  ASSUME PoolInv, NEW u \in Users, NEW onBehalfOf \in Users, NEW a \in Assets,
         NEW amount \in Nat, Supply(u, onBehalfOf, a, amount)
  PROVE  PoolInv'
<1> USE DEF PoolInv
<1>1. onBehalfOf \in Holders /\ aToken \in [Assets -> [Holders -> Nat]]
  BY DEF Holders, TypeOK
<1>2. aToken' = Credit(aToken, a, onBehalfOf, amount)
  BY DEF Supply
<1>3. /\ aToken' \in [Assets -> [Holders -> Nat]]
      /\ \A b \in Assets \ {a} : aToken'[b] = aToken[b]
      /\ TotalSupply(a)' = TotalSupply(a) + amount
  BY <1>1, <1>2, HoldersFinite, CreditFacts DEF TotalSupply
<1> DEFINE flags == FlagsAfterReceipt({u}, usingAsCollateral[onBehalfOf], a, aToken[a][onBehalfOf])
<1>4. usingAsCollateral' = [usingAsCollateral EXCEPT ![onBehalfOf] = flags]
  BY DEF Supply
<1>5. flags \in SUBSET Assets /\ IsolatedIn(flags)
  BY ReceiptAlone, FlagInvariants DEF TypeOK
<1> HIDE DEF flags
<1>6. TypeOK'
  <2>1. usingAsCollateral' \in [Users -> SUBSET Assets]
    BY <1>4, <1>5 DEF TypeOK
  <2>2. cash' \in [Assets -> Nat]
    BY TotalsNat DEF TypeOK, Supply
  <2>3. UNCHANGED <<price, status, sequencerUp, stableDebt, variableDebt,
                    isolationModeTotalDebt, borrowing, eMode, flash>>
    BY DEF Supply, marketVars
  <2> QED BY <1>3, <2>1, <2>2, <2>3 DEF TypeOK
<1>7. IsolatedAlone'
  BY <1>4, <1>5 DEF IsolatedAlone, IsolatedIn, TypeOK
<1>8. BorrowingMatchesDebt' /\ SiloedAlone' /\ CeilingHeld' /\ \A b \in Assets : TotalDebt(b)' = TotalDebt(b)
  BY DebtsUntouched DEF Supply
<1>9. Backed'
  <2>1. cash' = [cash EXCEPT ![a] = cash[a] + amount] /\ flash' = flash
    BY DEF Supply
  <2>2. \A b \in Assets \ {a} : cash'[b] = cash[b] /\ TotalSupply(b)' = TotalSupply(b)
    BY <1>3, <2>1 DEF TypeOK, TotalSupply
  <2>3. cash'[a] = cash[a] + amount
    BY <2>1 DEF TypeOK
  <2> QED BY <1>3, <1>8, <2>1, <2>2, <2>3, TotalsNat, BackedWhenPaid
<1> QED BY <1>6, <1>7, <1>8, <1>9
LEMMA WithdrawKeeps ==
  ASSUME PoolInv, NEW u \in Users, NEW a \in Assets, NEW amount \in Nat, Withdraw(u, a, amount)
  PROVE  PoolInv'
<1> USE DEF PoolInv
<1>1. u \in Holders /\ aToken \in [Assets -> [Holders -> Nat]]
  BY DEF Holders, TypeOK
<1>2. aToken' = Debit(aToken, a, u, amount) /\ amount <= aToken[a][u] /\ amount <= cash[a]
  BY DEF Withdraw
<1>3. /\ aToken' \in [Assets -> [Holders -> Nat]]
      /\ \A b \in Assets \ {a} : aToken'[b] = aToken[b]
      /\ TotalSupply(a) = TotalSupply(a)' + amount
  BY <1>1, <1>2, HoldersFinite, DebitFacts DEF TotalSupply
<1>4. \A v \in Users : usingAsCollateral'[v] \in {usingAsCollateral[v], usingAsCollateral[v] \ {a}}
  BY DEF Withdraw, TypeOK
<1>5. usingAsCollateral' \in [Users -> SUBSET Assets]
  BY DEF Withdraw, TypeOK
<1>6. cash'[a] = cash[a] - amount /\ cash' \in [Assets -> Nat]
  BY <1>2, TotalsNat DEF Withdraw, TypeOK
<1>7. TypeOK'
  <2>1. UNCHANGED <<price, status, sequencerUp, stableDebt, variableDebt,
                    isolationModeTotalDebt, borrowing, eMode, flash>>
    BY DEF Withdraw, marketVars
  <2> QED BY <1>3, <1>5, <1>6, <2>1 DEF TypeOK
<1>8. IsolatedAlone'
  BY <1>4, FlagCleared DEF IsolatedAlone, IsolatedIn
<1>9. BorrowingMatchesDebt' /\ SiloedAlone' /\ CeilingHeld' /\ \A b \in Assets : TotalDebt(b)' = TotalDebt(b)
  BY DebtsUntouched DEF Withdraw
<1>10. Backed'
  <2>1. flash' = flash /\ \A b \in Assets \ {a} : cash'[b] = cash[b] /\ TotalSupply(b)' = TotalSupply(b)
    BY <1>3 DEF Withdraw, TypeOK, TotalSupply
  <2>2. TotalSupply(a)' \in Nat
    BY <1>7, TotalsPrimedNat
  <2> QED BY <1>3, <1>6, <1>9, <2>1, <2>2, TotalsNat, BackedWhenPaid
<1> QED BY <1>7, <1>8, <1>9, <1>10

LEMMA TransferKeeps ==
  ASSUME PoolInv, NEW from \in Users, NEW to \in Users, NEW a \in Assets, NEW amount \in Nat,
         Transfer(from, to, a, amount)
  PROVE  PoolInv'
<1> USE DEF PoolInv
<1>1. from \in Holders /\ to \in Holders /\ aToken \in [Assets -> [Holders -> Nat]]
  BY DEF Holders, TypeOK
<1>2. UNCHANGED <<price, status, sequencerUp, cash, stableDebt, variableDebt,
                  isolationModeTotalDebt, borrowing, eMode, flash>>
  BY DEF Transfer, marketVars
<1>3. BorrowingMatchesDebt' /\ SiloedAlone' /\ CeilingHeld' /\ \A b \in Assets : TotalDebt(b)' = TotalDebt(b)
  BY <1>2, DebtsUntouched
<1>4. CASE from = to \/ amount = 0
  <2>1. UNCHANGED <<aToken, usingAsCollateral>>
    BY <1>4 DEF Transfer
  <2>2. TypeOK' /\ IsolatedAlone'
    BY <1>2, <2>1 DEF TypeOK, IsolatedAlone
  <2>3. Backed'
    BY <1>2, <1>3, <2>1 DEF Backed, TotalSupply, Lent
  <2> QED BY <1>3, <2>2, <2>3
<1>5. CASE from # to /\ amount # 0
  <2> DEFINE taken == Debit(aToken, a, from, amount)
             flags == FlagsAfterReceipt({}, usingAsCollateral[to], a, aToken[a][to])
             left == IF amount = aToken[a][from]
                     THEN usingAsCollateral[from] \ {a} ELSE usingAsCollateral[from]
  <2>1. usingAsCollateral' = [usingAsCollateral EXCEPT ![from] = left, ![to] = flags]
    BY <1>5 DEF Transfer
  <2>2. aToken' = Credit(taken, a, to, amount) /\ amount <= aToken[a][from]
    BY <1>5 DEF Transfer
  <2>3. /\ taken \in [Assets -> [Holders -> Nat]]
        /\ \A b \in Assets \ {a} : taken[b] = aToken[b]
        /\ SumOver(Holders, aToken[a]) = SumOver(Holders, taken[a]) + amount
    BY <1>1, <2>2, HoldersFinite, DebitFacts
  <2>4. flags \in SUBSET Assets /\ IsolatedIn(flags)
    BY ReceiptAlone, FlagInvariants DEF TypeOK
  <2>5. left \in {usingAsCollateral[from], usingAsCollateral[from] \ {a}} /\ left \in SUBSET Assets
    BY DEF TypeOK
  <2> HIDE DEF taken, flags, left
  <2>6. usingAsCollateral' \in [Users -> SUBSET Assets]
    BY <2>1, <2>4, <2>5 DEF TypeOK
  <2>7. \A v \in Users :
          usingAsCollateral'[v] \in {usingAsCollateral[v], usingAsCollateral[v] \ {a}, flags}
    BY <2>1, <2>5 DEF TypeOK
  <2>8. /\ aToken' \in [Assets -> [Holders -> Nat]]
        /\ \A b \in Assets \ {a} : aToken'[b] = taken[b]
        /\ SumOver(Holders, aToken'[a]) = SumOver(Holders, taken[a]) + amount
    BY <1>1, <2>2, <2>3, HoldersFinite, CreditFacts
  <2>9. TypeOK'
    BY <1>2, <2>6, <2>8 DEF TypeOK
  <2>10. IsolatedAlone'
    <3>1. \A v \in Users : IsolatedIn(usingAsCollateral[v]) /\ IsolatedIn(usingAsCollateral[v] \ {a})
      BY FlagInvariants, FlagCleared
    <3> QED BY <2>4, <2>7, <3>1 DEF IsolatedAlone, IsolatedIn
  <2>11. \A b \in Assets : TotalSupply(b)' = TotalSupply(b)
    BY <2>3, <2>8 DEF TotalSupply
  <2>12. Backed'
    BY <1>2, <1>3, <2>11 DEF Backed, Lent
  <2> QED BY <1>3, <2>9, <2>10, <2>12
<1> QED BY <1>4, <1>5

LEMMA UseReserveAsCollateralKeeps ==
  ASSUME PoolInv, NEW u \in Users, NEW a \in Assets, NEW use \in BOOLEAN,
         UseReserveAsCollateral(u, a, use)
  PROVE  PoolInv'
<1> USE DEF PoolInv
<1>1. UNCHANGED <<price, status, sequencerUp, cash, aToken, stableDebt, variableDebt,
                  isolationModeTotalDebt, borrowing, eMode, flash>>
  BY DEF UseReserveAsCollateral, marketVars, tokenVars
<1>2. usingAsCollateral' \in [Users -> SUBSET Assets]
  BY DEF UseReserveAsCollateral, TypeOK
<1>3. TypeOK'
  BY <1>1, <1>2 DEF TypeOK
<1>4. ASSUME NEW v \in Users PROVE IsolatedIn(usingAsCollateral'[v])
  <2>1. IsolatedIn(usingAsCollateral[v])
    BY FlagInvariants
  <2>2. CASE v # u
    BY <2>1, <2>2 DEF UseReserveAsCollateral, TypeOK
  <2>3. CASE v = u /\ use
    <3>1. usingAsCollateral'[v] = usingAsCollateral[v] \cup {a} /\ MayUseAsCollateral(usingAsCollateral[v], a)
      BY <2>3 DEF UseReserveAsCollateral, TypeOK
    <3> QED BY <2>1, <3>1, CollateralAlone
  <2>4. CASE v = u /\ ~ use
    <3>1. usingAsCollateral'[v] = usingAsCollateral[v] \ {a}
      BY <2>4 DEF UseReserveAsCollateral, TypeOK
    <3> QED BY <2>1, <3>1, FlagCleared
  <2> QED BY <2>2, <2>3, <2>4
<1>5. IsolatedAlone'
  BY <1>4 DEF IsolatedAlone, IsolatedIn
<1>6. BorrowingMatchesDebt' /\ SiloedAlone' /\ CeilingHeld' /\ Backed'
  BY <1>1, DebtsUntouched DEF Backed, TotalSupply, Lent
<1> QED BY <1>3, <1>5, <1>6
-----------------------------------------------------------------------------
(* Borrowing *)

\* New debt is one debt more, flagged, alone if siloed, and within the ceiling.
LEMMA AddDebtFacts ==
  ASSUME PoolInv, NEW u \in Users, NEW a \in Assets, NEW amount \in Nat,
         NEW mode \in {Stable, Variable}, NEW cat \in Categories,
         AddDebt(u, a, amount, mode, cat)
  PROVE  /\ stableDebt' \in [Assets -> [Users -> Nat]]
         /\ variableDebt' \in [Assets -> [Users -> Nat]]
         /\ borrowing' \in [Users -> SUBSET Assets]
         /\ isolationModeTotalDebt' \in [Assets -> Nat]
         /\ \A b \in Assets \ {a} : TotalDebt(b)' = TotalDebt(b)
         /\ TotalDebt(a)' = TotalDebt(a) + amount
         /\ BorrowingMatchesDebt' /\ SiloedAlone' /\ CeilingHeld'
         /\ DebtOf(u, a)' = DebtOf(u, a) + amount
         /\ \A v \in Users, b \in Assets : v # u \/ b # a => DebtOf(v, b)' = DebtOf(v, b)
<1> USE DEF PoolInv
<1>1. /\ stableDebt \in [Assets -> [Users -> Nat]] /\ variableDebt \in [Assets -> [Users -> Nat]]
      /\ IsFiniteSet(Users)
  BY PoolAssumption DEF TypeOK
<1>2. amount # 0 /\ SiloLends(borrowing[u], a) /\ IsolationLends(u, a, amount)
  BY DEF AddDebt, BorrowAllowed, ReserveLends
<1>3. /\ stableDebt' \in [Assets -> [Users -> Nat]] /\ variableDebt' \in [Assets -> [Users -> Nat]]
      /\ \A b \in Assets \ {a} : stableDebt'[b] = stableDebt[b] /\ variableDebt'[b] = variableDebt[b]
      /\ \A v \in Users \ {u} : DebtOf(v, a)' = DebtOf(v, a)
      /\ DebtOf(u, a)' = DebtOf(u, a) + amount
      /\ TotalDebt(a)' = TotalDebt(a) + amount
  <2>1. CASE mode = Stable
    <3>1. stableDebt' = Credit(stableDebt, a, u, amount) /\ variableDebt' = variableDebt
      BY <2>1 DEF AddDebt
    <3>2. /\ stableDebt' \in [Assets -> [Users -> Nat]]
          /\ \A b \in Assets \ {a} : stableDebt'[b] = stableDebt[b]
          /\ \A v \in Users \ {u} : stableDebt'[a][v] = stableDebt[a][v]
          /\ stableDebt'[a][u] = stableDebt[a][u] + amount
          /\ SumOver(Users, stableDebt'[a]) = SumOver(Users, stableDebt[a]) + amount
      <4>1. stableDebt \in [Assets -> [Users -> Nat]] /\ IsFiniteSet(Users)
        BY <1>1
      <4>2. stableDebt' = Credit(stableDebt, a, u, amount)
        BY <3>1
      <4> QED BY <4>1, <4>2, CreditFacts
    <3>3. DebtOf(u, a)' = DebtOf(u, a) + amount /\ \A v \in Users \ {u} : DebtOf(v, a)' = DebtOf(v, a)
      BY <1>1, <3>1, <3>2 DEF DebtOf
    <3>4. TotalDebt(a)' = TotalDebt(a) + amount
      BY <3>1, <3>2, TotalsNat DEF TotalDebt
    <3> QED BY <1>1, <3>1, <3>2, <3>3, <3>4
  <2>2. CASE mode # Stable
    <3>1. variableDebt' = Credit(variableDebt, a, u, amount) /\ stableDebt' = stableDebt
      BY <2>2 DEF AddDebt
    <3>2. /\ variableDebt' \in [Assets -> [Users -> Nat]]
          /\ \A b \in Assets \ {a} : variableDebt'[b] = variableDebt[b]
          /\ \A v \in Users \ {u} : variableDebt'[a][v] = variableDebt[a][v]
          /\ variableDebt'[a][u] = variableDebt[a][u] + amount
          /\ SumOver(Users, variableDebt'[a]) = SumOver(Users, variableDebt[a]) + amount
      <4>1. variableDebt \in [Assets -> [Users -> Nat]] /\ IsFiniteSet(Users)
        BY <1>1
      <4>2. variableDebt' = Credit(variableDebt, a, u, amount)
        BY <3>1
      <4> QED BY <4>1, <4>2, CreditFacts
    <3>3. DebtOf(u, a)' = DebtOf(u, a) + amount /\ \A v \in Users \ {u} : DebtOf(v, a)' = DebtOf(v, a)
      BY <1>1, <3>1, <3>2 DEF DebtOf
    <3>4. TotalDebt(a)' = TotalDebt(a) + amount
      BY <3>1, <3>2, TotalsNat DEF TotalDebt
    <3> QED BY <1>1, <3>1, <3>2, <3>3, <3>4
  <2> QED BY <2>1, <2>2
<1>4. \A b \in Assets \ {a} : TotalDebt(b)' = TotalDebt(b)
  BY <1>3 DEF TotalDebt
<1>5. borrowing' = [borrowing EXCEPT ![u] = borrowing[u] \cup {a}] /\ borrowing' \in [Users -> SUBSET Assets]
  BY DEF AddDebt, TypeOK
<1>6. BorrowingMatchesDebt'
  <2> SUFFICES ASSUME NEW v \in Users, NEW b \in Assets
               PROVE  b \in borrowing'[v] <=> DebtOf(v, b)' # 0
    BY <1>5 DEF BorrowingMatchesDebt
  <2>1. b \in borrowing[v] <=> DebtOf(v, b) # 0
    BY DEF BorrowingMatchesDebt
  <2>2. DebtOf(u, a) \in Nat
    BY <1>1 DEF DebtOf
  <2>3. CASE v = u /\ b = a
    BY <1>2, <1>3, <1>5, <2>2, <2>3 DEF TypeOK
  <2>4. CASE b # a
    <3>1. DebtOf(v, b)' = DebtOf(v, b)
      BY <1>3, <2>4 DEF DebtOf
    <3> QED BY <1>5, <2>1, <2>4, <3>1 DEF TypeOK
  <2>5. CASE v # u /\ b = a
    BY <1>3, <1>5, <2>1, <2>5 DEF TypeOK
  <2> QED BY <2>3, <2>4, <2>5
<1>7. SiloedAlone'
  <2>1. SiloedIn(borrowing[u] \cup {a})
    BY <1>2, SiloLendsAlone, FlagInvariants
  <2> QED BY <1>5, <2>1 DEF SiloedAlone, SiloedIn, TypeOK
<1>8. isolationModeTotalDebt' \in [Assets -> Nat] /\ CeilingHeld'
  <2> DEFINE units == CeilingUnits(amount)
  <2>1. units \in Nat
    BY CeilingUnitsNat
  <2>2. isolationModeTotalDebt' =
          [i \in Assets |-> IF i \in IsolatedCollateral(usingAsCollateral[u])
                            THEN isolationModeTotalDebt[i] + units ELSE isolationModeTotalDebt[i]]
    BY DEF AddDebt
  <2>3. \A i \in IsolatedCollateral(usingAsCollateral[u]) :
          isolationModeTotalDebt[i] + units <= Config[i].debtCeiling
    BY <1>2 DEF IsolationLends
  <2> HIDE DEF units
  <2> QED BY <2>1, <2>2, <2>3 DEF CeilingHeld, TypeOK
<1>9. \A v \in Users, b \in Assets : v # u \/ b # a => DebtOf(v, b)' = DebtOf(v, b)
  BY <1>3 DEF DebtOf
<1> QED BY <1>3, <1>4, <1>5, <1>6, <1>7, <1>8, <1>9

LEMMA BorrowKeeps ==
  ASSUME PoolInv, NEW u \in Users, NEW a \in Assets, NEW amount \in Nat,
         NEW mode \in {Stable, Variable}, Borrow(u, a, amount, mode)
  PROVE  PoolInv'
<1> USE DEF PoolInv
<1>1. eMode[u] \in Categories
  BY DEF TypeOK
<1>2. AddDebt(u, a, amount, mode, eMode[u]) /\ amount <= cash[a] /\ flash' = flash
      /\ cash' = [cash EXCEPT ![a] = cash[a] - amount]
  BY DEF Borrow
<1>3. /\ stableDebt' \in [Assets -> [Users -> Nat]]
      /\ variableDebt' \in [Assets -> [Users -> Nat]]
      /\ borrowing' \in [Users -> SUBSET Assets]
      /\ isolationModeTotalDebt' \in [Assets -> Nat]
      /\ \A b \in Assets \ {a} : TotalDebt(b)' = TotalDebt(b)
      /\ TotalDebt(a)' = TotalDebt(a) + amount
      /\ BorrowingMatchesDebt' /\ SiloedAlone' /\ CeilingHeld'
  BY <1>1, <1>2, AddDebtFacts
<1>4. UNCHANGED <<price, status, sequencerUp, aToken, usingAsCollateral, eMode>>
  BY <1>2 DEF AddDebt, marketVars
<1>5. cash' \in [Assets -> Nat] /\ cash'[a] = cash[a] - amount
      /\ \A b \in Assets \ {a} : cash'[b] = cash[b]
  BY <1>2, TotalsNat DEF TypeOK
<1>6. TypeOK'
  BY <1>2, <1>3, <1>4, <1>5 DEF TypeOK
<1>7. IsolatedAlone' /\ \A b \in Assets : TotalSupply(b)' = TotalSupply(b)
  BY <1>4 DEF IsolatedAlone, TotalSupply
<1>8. Backed'
  BY <1>2, <1>3, <1>5, <1>6, <1>7, TotalsNat, TotalsPrimedNat, BackedWhenPaid
<1> QED BY <1>3, <1>6, <1>7, <1>8
\* The borrowing bits stay right when u's debt in a falls by `paid`.
LEMMA DebtReduced ==
  ASSUME PoolInv, NEW u \in Users, NEW a \in Assets, NEW paid \in Nat,
         DebtOf(u, a) \in Nat, DebtOf(u, a)' = DebtOf(u, a) - paid,
         \A v \in Users, b \in Assets : v # u \/ b # a => DebtOf(v, b)' = DebtOf(v, b),
         paid # 0, paid <= DebtOf(u, a),
         borrowing' = [borrowing EXCEPT ![u] = BorrowingAfter(u, a, paid)]
  PROVE  borrowing' \in [Users -> SUBSET Assets] /\ BorrowingMatchesDebt' /\ SiloedAlone'
<1> USE DEF PoolInv
<1>1. BorrowingAfter(u, a, paid) \in {borrowing[u], borrowing[u] \ {a}}
  BY DEF BorrowingAfter
<1>2. borrowing' \in [Users -> SUBSET Assets]
  BY <1>1 DEF TypeOK
<1>3. BorrowingMatchesDebt'
  <2> SUFFICES ASSUME NEW v \in Users, NEW b \in Assets
               PROVE  b \in borrowing'[v] <=> DebtOf(v, b)' # 0
    BY <1>2 DEF BorrowingMatchesDebt
  <2>1. b \in borrowing[v] <=> DebtOf(v, b) # 0
    BY DEF BorrowingMatchesDebt
  <2>2. CASE v # u
    BY <2>1, <2>2 DEF TypeOK
  <2>3. CASE v = u /\ b # a
    <3>1. b \in borrowing'[v] <=> b \in borrowing[v]
      BY <1>1, <2>3 DEF TypeOK
    <3> QED BY <2>1, <2>3, <3>1
  <2>4. CASE v = u /\ b = a
    <3>1. borrowing'[u] = BorrowingAfter(u, a, paid)
      BY DEF TypeOK
    <3>2. CASE DebtOf(u, a) = paid
      BY <2>4, <3>1, <3>2 DEF BorrowingAfter
    <3>3. CASE DebtOf(u, a) # paid
      <4>1. DebtOf(u, a) # 0 /\ DebtOf(u, a)' # 0
        BY <3>3
      <4>2. borrowing'[v] = borrowing[v]
        BY <2>4, <3>1, <3>3 DEF BorrowingAfter
      <4> QED BY <2>1, <2>4, <4>1, <4>2
    <3> QED BY <3>2, <3>3
  <2> QED BY <2>2, <2>3, <2>4
<1>4. SiloedAlone'
  <2>1. \A v \in Users : borrowing'[v] \in {borrowing[v], borrowing[v] \ {a}}
    BY <1>1 DEF TypeOK
  <2> QED BY <2>1, FlagCleared DEF SiloedAlone, SiloedIn
<1> QED BY <1>2, <1>3, <1>4

\* What is paid off is gone from the debt, and the rest is flagged.
LEMMA PayOffFacts ==
  ASSUME PoolInv, NEW u \in Users, NEW a \in Assets, NEW paid \in Nat, paid # 0,
         NEW mode \in {Stable, Variable}, paid <= DebtOfMode(u, a, mode),
         PayOff(u, a, paid, mode)
  PROVE  /\ stableDebt' \in [Assets -> [Users -> Nat]]
         /\ variableDebt' \in [Assets -> [Users -> Nat]]
         /\ borrowing' \in [Users -> SUBSET Assets]
         /\ isolationModeTotalDebt' \in [Assets -> Nat]
         /\ \A b \in Assets \ {a} : TotalDebt(b)' = TotalDebt(b)
         /\ TotalDebt(a) = TotalDebt(a)' + paid
         /\ BorrowingMatchesDebt' /\ SiloedAlone' /\ CeilingHeld'
         /\ DebtOf(u, a) \in Nat /\ paid <= DebtOf(u, a)
         /\ DebtOf(u, a)' = DebtOf(u, a) - paid
         /\ \A v \in Users, b \in Assets : v # u \/ b # a => DebtOf(v, b)' = DebtOf(v, b)
<1> USE DEF PoolInv
<1>1. /\ stableDebt \in [Assets -> [Users -> Nat]] /\ variableDebt \in [Assets -> [Users -> Nat]]
      /\ IsFiniteSet(Users)
  BY PoolAssumption DEF TypeOK
<1>2. /\ stableDebt' \in [Assets -> [Users -> Nat]] /\ variableDebt' \in [Assets -> [Users -> Nat]]
      /\ \A b \in Assets \ {a} : stableDebt'[b] = stableDebt[b] /\ variableDebt'[b] = variableDebt[b]
      /\ \A v \in Users \ {u} : DebtOf(v, a)' = DebtOf(v, a)
      /\ DebtOf(u, a)' = DebtOf(u, a) - paid
      /\ TotalDebt(a) = TotalDebt(a)' + paid
  <2>1. CASE mode = Stable
    <3>1. /\ stableDebt' = Debit(stableDebt, a, u, paid) /\ variableDebt' = variableDebt
          /\ paid <= stableDebt[a][u]
      BY <2>1 DEF PayOff, DebtOfMode
    <3>2. /\ stableDebt' \in [Assets -> [Users -> Nat]]
          /\ \A b \in Assets \ {a} : stableDebt'[b] = stableDebt[b]
          /\ \A v \in Users \ {u} : stableDebt'[a][v] = stableDebt[a][v]
          /\ stableDebt'[a][u] = stableDebt[a][u] - paid
          /\ SumOver(Users, stableDebt[a]) = SumOver(Users, stableDebt'[a]) + paid
      <4>1. stableDebt \in [Assets -> [Users -> Nat]] /\ IsFiniteSet(Users)
        BY <1>1
      <4>2. stableDebt' = Debit(stableDebt, a, u, paid) /\ paid <= stableDebt[a][u]
        BY <3>1
      <4> QED BY <4>1, <4>2, DebitFacts
    <3>3. DebtOf(u, a)' = DebtOf(u, a) - paid /\ \A v \in Users \ {u} : DebtOf(v, a)' = DebtOf(v, a)
      BY <1>1, <3>1, <3>2 DEF DebtOf
    <3>4. TotalDebt(a) = TotalDebt(a)' + paid
      <4>1. SumOver(Users, stableDebt'[a]) \in Nat
        BY <1>1, <3>2, SumType
      <4> QED BY <3>1, <3>2, <4>1, TotalsNat DEF TotalDebt
    <3> QED BY <1>1, <3>1, <3>2, <3>3, <3>4
  <2>2. CASE mode # Stable
    <3>1. /\ variableDebt' = Debit(variableDebt, a, u, paid) /\ stableDebt' = stableDebt
          /\ paid <= variableDebt[a][u]
      BY <2>2 DEF PayOff, DebtOfMode
    <3>2. /\ variableDebt' \in [Assets -> [Users -> Nat]]
          /\ \A b \in Assets \ {a} : variableDebt'[b] = variableDebt[b]
          /\ \A v \in Users \ {u} : variableDebt'[a][v] = variableDebt[a][v]
          /\ variableDebt'[a][u] = variableDebt[a][u] - paid
          /\ SumOver(Users, variableDebt[a]) = SumOver(Users, variableDebt'[a]) + paid
      <4>1. variableDebt \in [Assets -> [Users -> Nat]] /\ IsFiniteSet(Users)
        BY <1>1
      <4>2. variableDebt' = Debit(variableDebt, a, u, paid) /\ paid <= variableDebt[a][u]
        BY <3>1
      <4> QED BY <4>1, <4>2, DebitFacts
    <3>3. DebtOf(u, a)' = DebtOf(u, a) - paid /\ \A v \in Users \ {u} : DebtOf(v, a)' = DebtOf(v, a)
      BY <1>1, <3>1, <3>2 DEF DebtOf
    <3>4. TotalDebt(a) = TotalDebt(a)' + paid
      <4>1. SumOver(Users, variableDebt'[a]) \in Nat
        BY <1>1, <3>2, SumType
      <4> QED BY <3>1, <3>2, <4>1, TotalsNat DEF TotalDebt
    <3> QED BY <1>1, <3>1, <3>2, <3>3, <3>4
  <2> QED BY <2>1, <2>2
<1>3. \A b \in Assets \ {a} : TotalDebt(b)' = TotalDebt(b)
  BY <1>2 DEF TotalDebt
<1>4. \A v \in Users, b \in Assets : v # u \/ b # a => DebtOf(v, b)' = DebtOf(v, b)
  BY <1>2 DEF DebtOf
<1>5. DebtOf(u, a) \in Nat /\ paid <= DebtOf(u, a)
  BY <1>1 DEF DebtOf, DebtOfMode
<1>6. borrowing' = [borrowing EXCEPT ![u] = BorrowingAfter(u, a, paid)]
  BY DEF PayOff
<1>7. borrowing' \in [Users -> SUBSET Assets] /\ BorrowingMatchesDebt' /\ SiloedAlone'
  BY <1>2, <1>4, <1>5, <1>6, DebtReduced
<1>8. isolationModeTotalDebt' \in [Assets -> Nat] /\ CeilingHeld'
  BY RepayLowersIsolatedDebt DEF PayOff
<1> QED BY <1>2, <1>3, <1>4, <1>5, <1>7, <1>8

LEMMA RepayKeeps ==
  ASSUME PoolInv, NEW onBehalfOf \in Users, NEW a \in Assets, NEW amount \in Nat,
         NEW mode \in {Stable, Variable}, Repay(onBehalfOf, a, amount, mode)
  PROVE  PoolInv'
<1> USE DEF PoolInv
<1> DEFINE owed == DebtOfMode(onBehalfOf, a, mode)
           paid == IF amount < owed THEN amount ELSE owed
<1>1. owed \in Nat /\ owed # 0 /\ amount # 0
  BY DEF Repay, DebtOfMode, TypeOK
<1>2. /\ PayOff(onBehalfOf, a, paid, mode)
      /\ cash' = [cash EXCEPT ![a] = cash[a] + paid]
      /\ UNCHANGED <<price, status, sequencerUp, aToken, usingAsCollateral, eMode, flash>>
  BY DEF Repay, marketVars
<1>3. paid \in Nat /\ paid # 0 /\ paid <= DebtOfMode(onBehalfOf, a, mode)
  BY <1>1
<1> HIDE DEF paid, owed
<1>4. /\ stableDebt' \in [Assets -> [Users -> Nat]]
      /\ variableDebt' \in [Assets -> [Users -> Nat]]
      /\ borrowing' \in [Users -> SUBSET Assets]
      /\ isolationModeTotalDebt' \in [Assets -> Nat]
      /\ \A b \in Assets \ {a} : TotalDebt(b)' = TotalDebt(b)
      /\ TotalDebt(a) = TotalDebt(a)' + paid
      /\ BorrowingMatchesDebt' /\ SiloedAlone' /\ CeilingHeld'
  BY <1>2, <1>3, PayOffFacts
<1>5. cash' \in [Assets -> Nat] /\ cash'[a] = cash[a] + paid
      /\ \A b \in Assets \ {a} : cash'[b] = cash[b]
  BY <1>2, <1>3, TotalsNat DEF TypeOK
<1>6. TypeOK'
  BY <1>2, <1>4, <1>5 DEF TypeOK
<1>7. IsolatedAlone' /\ \A b \in Assets : TotalSupply(b)' = TotalSupply(b)
  BY <1>2 DEF IsolatedAlone, TotalSupply
<1>8. Backed'
  BY <1>2, <1>3, <1>4, <1>5, <1>6, <1>7, TotalsNat, TotalsPrimedNat, BackedWhenPaid
<1> QED BY <1>4, <1>6, <1>7, <1>8

LEMMA RepayWithATokensKeeps ==
  ASSUME PoolInv, NEW u \in Users, NEW a \in Assets, NEW amount \in Nat,
         NEW mode \in {Stable, Variable}, RepayWithATokens(u, a, amount, mode)
  PROVE  PoolInv'
<1> USE DEF PoolInv
<1> DEFINE owed == DebtOfMode(u, a, mode)
           paid == IF amount < owed THEN amount ELSE owed
<1>1. owed \in Nat /\ owed # 0 /\ amount # 0
  BY DEF RepayWithATokens, DebtOfMode, TypeOK
<1>2. /\ PayOff(u, a, paid, mode)
      /\ paid <= aToken[a][u]
      /\ aToken' = Debit(aToken, a, u, paid)
      /\ UNCHANGED <<price, status, sequencerUp, cash, usingAsCollateral, eMode, flash>>
  BY DEF RepayWithATokens, marketVars
<1>3. paid \in Nat /\ paid # 0 /\ paid <= DebtOfMode(u, a, mode)
  BY <1>1
<1> HIDE DEF paid, owed
<1>4. /\ stableDebt' \in [Assets -> [Users -> Nat]]
      /\ variableDebt' \in [Assets -> [Users -> Nat]]
      /\ borrowing' \in [Users -> SUBSET Assets]
      /\ isolationModeTotalDebt' \in [Assets -> Nat]
      /\ \A b \in Assets \ {a} : TotalDebt(b)' = TotalDebt(b)
      /\ TotalDebt(a) = TotalDebt(a)' + paid
      /\ BorrowingMatchesDebt' /\ SiloedAlone' /\ CeilingHeld'
  BY <1>2, <1>3, PayOffFacts
<1>5. /\ aToken' \in [Assets -> [Holders -> Nat]]
      /\ \A b \in Assets \ {a} : aToken'[b] = aToken[b]
      /\ TotalSupply(a) = TotalSupply(a)' + paid
  <2>1. u \in Holders /\ aToken \in [Assets -> [Holders -> Nat]]
    BY DEF Holders, TypeOK
  <2> QED BY <1>2, <1>3, <2>1, HoldersFinite, DebitFacts DEF TotalSupply
<1>6. TypeOK'
  BY <1>2, <1>4, <1>5 DEF TypeOK
<1>7. IsolatedAlone' /\ \A b \in Assets \ {a} : TotalSupply(b)' = TotalSupply(b)
  BY <1>2, <1>5 DEF IsolatedAlone, TotalSupply
<1>8. cash'[a] = cash[a] /\ cash'[a] \in Nat /\ \A b \in Assets \ {a} : cash'[b] = cash[b]
  BY <1>2, TotalsNat
<1>9. Backed'
  BY <1>2, <1>3, <1>4, <1>5, <1>6, <1>7, <1>8, TotalsNat, TotalsPrimedNat, BackedWhenPaid
<1> QED BY <1>4, <1>6, <1>7, <1>9
LEMMA SwapBorrowRateModeKeeps ==
  ASSUME PoolInv, NEW u \in Users, NEW a \in Assets, NEW mode \in {Stable, Variable},
         SwapBorrowRateMode(u, a, mode)
  PROVE  PoolInv'
<1> USE DEF PoolInv
<1> DEFINE debt == DebtOf(u, a)
           stable == IF mode = Stable THEN 0 ELSE debt
           variable == IF mode = Stable THEN debt ELSE 0
<1>1. /\ debt = stableDebt[a][u] + variableDebt[a][u]
      /\ stableDebt[a][u] \in Nat /\ variableDebt[a][u] \in Nat
  BY DEF DebtOf, TypeOK
<1>2. /\ stableDebt' = [stableDebt EXCEPT ![a] = [stableDebt[a] EXCEPT ![u] = stable]]
      /\ variableDebt' = [variableDebt EXCEPT ![a] = [variableDebt[a] EXCEPT ![u] = variable]]
      /\ UNCHANGED <<price, status, sequencerUp, cash, aToken, isolationModeTotalDebt,
                     usingAsCollateral, borrowing, eMode, flash>>
  BY DEF SwapBorrowRateMode, marketVars, flagVars
<1>3. stable \in Nat /\ variable \in Nat /\ stable + variable = debt
  BY <1>1
<1> HIDE DEF debt, stable, variable
<1>4. /\ stableDebt' \in [Assets -> [Users -> Nat]] /\ variableDebt' \in [Assets -> [Users -> Nat]]
      /\ stableDebt'[a][u] = stable /\ variableDebt'[a][u] = variable
      /\ \A v \in Users \ {u} : stableDebt'[a][v] = stableDebt[a][v] /\ variableDebt'[a][v] = variableDebt[a][v]
      /\ \A b \in Assets \ {a} : stableDebt'[b] = stableDebt[b] /\ variableDebt'[b] = variableDebt[b]
  BY <1>2, <1>3 DEF TypeOK
<1>5. \A v \in Users, b \in Assets : DebtOf(v, b)' = DebtOf(v, b)
  BY <1>1, <1>3, <1>4 DEF DebtOf
<1>6. \A b \in Assets : TotalDebt(b)' = TotalDebt(b)
  <2>1. TotalDebt(a)' = TotalDebt(a)
    <3>1. /\ IsFiniteSet(Users)
          /\ stableDebt[a] \in [Users -> Nat] /\ stableDebt'[a] \in [Users -> Nat]
          /\ variableDebt[a] \in [Users -> Nat] /\ variableDebt'[a] \in [Users -> Nat]
      BY <1>4, PoolAssumption DEF TypeOK
    <3>2. SumOver(Users, stableDebt'[a]) + stableDebt[a][u] = SumOver(Users, stableDebt[a]) + stable
      <4> DEFINE before == stableDebt[a]
                 after == stableDebt'[a]
      <4>1. /\ \A v \in Users : before[v] \in Nat /\ after[v] \in Nat
            /\ \A v \in Users \ {u} : after[v] = before[v]
            /\ after[u] = stable
        BY <1>4, <3>1
      <4> HIDE DEF before, after
      <4>2. SumOver(Users, after) + before[u] = SumOver(Users, before) + stable
        BY <3>1, <4>1, SumUpdate
      <4> QED BY <4>2 DEF before, after
    <3>3. SumOver(Users, variableDebt'[a]) + variableDebt[a][u] = SumOver(Users, variableDebt[a]) + variable
      <4> DEFINE before == variableDebt[a]
                 after == variableDebt'[a]
      <4>1. /\ \A v \in Users : before[v] \in Nat /\ after[v] \in Nat
            /\ \A v \in Users \ {u} : after[v] = before[v]
            /\ after[u] = variable
        BY <1>4, <3>1
      <4> HIDE DEF before, after
      <4>2. SumOver(Users, after) + before[u] = SumOver(Users, before) + variable
        BY <3>1, <4>1, SumUpdate
      <4> QED BY <4>2 DEF before, after
    <3>4. /\ SumOver(Users, stableDebt'[a]) \in Nat /\ SumOver(Users, variableDebt'[a]) \in Nat
          /\ SumOver(Users, stableDebt[a]) \in Nat /\ SumOver(Users, variableDebt[a]) \in Nat
      BY <3>1, SumType
    <3> QED BY <1>1, <1>3, <3>2, <3>3, <3>4 DEF TotalDebt
  <2> QED BY <1>4, <2>1 DEF TotalDebt
<1>7. TypeOK'
  BY <1>2, <1>4 DEF TypeOK
<1>8. BorrowingMatchesDebt' /\ SiloedAlone' /\ IsolatedAlone' /\ CeilingHeld'
  BY <1>2, <1>5 DEF BorrowingMatchesDebt, SiloedAlone, IsolatedAlone, CeilingHeld
<1>9. Backed'
  BY <1>2, <1>6 DEF Backed, TotalSupply, Lent
<1> QED BY <1>7, <1>8, <1>9

\* Calls that change no balance and no flag keep everything.
LEMMA BooksUntouched ==
  ASSUME PoolInv, TypeOK',
         UNCHANGED <<tokenVars, usingAsCollateral, borrowing, isolationModeTotalDebt, flash>>
  PROVE  PoolInv'
BY DEF PoolInv, Backed, TotalSupply, TotalDebt, Lent, BorrowingMatchesDebt, DebtOf, SiloedAlone,
       IsolatedAlone, CeilingHeld, tokenVars

LEMMA SetUserEModeKeeps ==
  ASSUME PoolInv, NEW u \in Users, NEW cat \in Categories, SetUserEMode(u, cat)
  PROVE  PoolInv'
<1>1. TypeOK'
  BY DEF PoolInv, TypeOK, SetUserEMode, marketVars, tokenVars
<1> QED BY <1>1, BooksUntouched DEF SetUserEMode

LEMMA MarketKeeps ==
  ASSUME PoolInv,
         \/ \E m \in PriceMoves : SetPrice(m[1], m[2])
         \/ \E m \in StatusMoves : SetStatus(m[1], m[2])
         \/ \E up \in SequencerMoves : SetSequencer(up)
  PROVE  PoolInv'
<1>1. ASSUME NEW m \in PriceMoves, SetPrice(m[1], m[2]) PROVE PoolInv'
  <2>1. m[1] \in Sources /\ m[2] \in Nat \ {0}
    BY PoolAssumption
  <2>2. TypeOK'
    BY <1>1, <2>1 DEF PoolInv, TypeOK, SetPrice, tokenVars, flagVars
  <2> QED BY <1>1, <2>2, BooksUntouched DEF SetPrice, flagVars
<1>2. ASSUME NEW m \in StatusMoves, SetStatus(m[1], m[2]) PROVE PoolInv'
  <2>1. m[1] \in Assets /\ m[2] \in Statuses
    BY PoolAssumption
  <2>2. TypeOK'
    BY <1>2, <2>1 DEF PoolInv, TypeOK, SetStatus, tokenVars, flagVars
  <2> QED BY <1>2, <2>2, BooksUntouched DEF SetStatus, flagVars
<1>3. ASSUME NEW up \in SequencerMoves, SetSequencer(up) PROVE PoolInv'
  <2>1. up \in BOOLEAN
    BY PoolAssumption
  <2>2. TypeOK'
    BY <1>3, <2>1 DEF PoolInv, TypeOK, SetSequencer, tokenVars, flagVars
  <2> QED BY <1>3, <2>2, BooksUntouched DEF SetSequencer, flagVars
<1> QED BY <1>1, <1>2, <1>3

-----------------------------------------------------------------------------
(* Flash loans *)

LEMMA FlashLoanKeeps ==
  ASSUME PoolInv, NEW u \in Users, NEW a \in Assets, NEW amount \in Nat,
         NEW mode \in {Stable, Variable, "none"}, FlashLoan(u, a, amount, mode)
  PROVE  PoolInv'
<1> USE DEF PoolInv
<1> DEFINE loan == [user |-> u, asset |-> a, amount |-> amount, mode |-> mode, eMode |-> eMode[u]]
<1>1. /\ loan \in [user : Users, asset : Assets, amount : Nat, mode : {Stable, Variable, "none"},
                   eMode : Categories]
      /\ loan.asset = a /\ loan.amount = amount
  BY DEF TypeOK
<1>2. /\ flash = {} /\ flash' = {loan} /\ amount <= cash[a]
      /\ cash' = [cash EXCEPT ![a] = cash[a] - amount]
      /\ UNCHANGED <<price, status, sequencerUp, aToken, stableDebt, variableDebt,
                     usingAsCollateral, borrowing, eMode, isolationModeTotalDebt>>
  BY DEF FlashLoan, marketVars, flagVars
<1> HIDE DEF loan
<1>3. cash' \in [Assets -> Nat] /\ cash'[a] = cash[a] - amount
      /\ \A b \in Assets \ {a} : cash'[b] = cash[b]
  BY <1>2, TotalsNat DEF TypeOK
<1>4. TypeOK'
  BY <1>1, <1>2, <1>3 DEF TypeOK
<1>5. BorrowingMatchesDebt' /\ SiloedAlone' /\ IsolatedAlone' /\ CeilingHeld'
  BY <1>2, DebtsUntouched DEF IsolatedAlone
<1>6. Backed'
  <2> SUFFICES ASSUME NEW b \in Assets
               PROVE  TotalSupply(b)' = cash'[b] + TotalDebt(b)' + Lent(b)'
    BY DEF Backed
  <2>1. TotalSupply(b)' = TotalSupply(b) /\ TotalDebt(b)' = TotalDebt(b)
    BY <1>2 DEF TotalSupply, TotalDebt
  <2>2. Lent(b) = 0
    BY <1>2 DEF Lent
  <2>3. (CHOOSE f \in flash' : TRUE) = loan
    BY <1>2
  <2>4. Lent(b)' = IF b = a THEN amount ELSE 0
    BY <1>1, <1>2, <2>3 DEF Lent
  <2>5. TotalSupply(b) = cash[b] + TotalDebt(b) + Lent(b)
    BY DEF Backed
  <2>6. cash'[b] = IF b = a THEN cash[b] - amount ELSE cash[b]
    BY <1>3
  <2> QED BY <2>1, <2>2, <2>4, <2>5, <2>6, TotalsNat
<1> QED BY <1>4, <1>5, <1>6

LEMMA FlashLoanEndKeeps ==
  ASSUME PoolInv, FlashLoanEnd
  PROVE  PoolInv'
<1> USE DEF PoolInv
<1>1. PICK f \in flash :
        /\ flash' = {}
        /\ \/ /\ f.mode = "none"
              /\ cash' = [cash EXCEPT ![f.asset] = cash[f.asset] + f.amount]
              /\ UNCHANGED <<marketVars, aToken, stableDebt, variableDebt, flagVars,
                             isolationModeTotalDebt>>
           \/ /\ f.mode \in Modes
              /\ AddDebt(f.user, f.asset, f.amount, f.mode, f.eMode)
              /\ UNCHANGED cash
  BY DEF FlashLoanEnd
<1> DEFINE a == f.asset
           amount == f.amount
<1>2. /\ flash = {f}
      /\ f.user \in Users /\ a \in Assets /\ amount \in Nat
      /\ f.mode \in {Stable, Variable, "none"} /\ f.eMode \in Categories
  BY DEF TypeOK
<1>3. \A b \in Assets : Lent(b) = (IF b = a THEN amount ELSE 0) /\ Lent(b)' = 0
  <2>1. (CHOOSE g \in flash : TRUE) = f
    BY <1>2
  <2> QED BY <1>1, <1>2, <2>1 DEF Lent
<1> HIDE DEF a, amount
<1>4. CASE f.mode = "none"
  <2>1. f.mode \notin Modes
    BY <1>4, PoolAssumption DEF Stable, Variable
  <2>2. /\ cash' = [cash EXCEPT ![a] = cash[a] + amount]
        /\ UNCHANGED <<price, status, sequencerUp, aToken, stableDebt, variableDebt,
                       usingAsCollateral, borrowing, eMode, isolationModeTotalDebt>>
    BY <1>1, <2>1 DEF marketVars, flagVars, a, amount
  <2>3. cash' \in [Assets -> Nat] /\ cash'[a] = cash[a] + amount
        /\ \A b \in Assets \ {a} : cash'[b] = cash[b]
    BY <1>2, <2>2, TotalsNat DEF TypeOK
  <2>4. TypeOK'
    BY <1>1, <2>2, <2>3 DEF TypeOK
  <2>5. BorrowingMatchesDebt' /\ SiloedAlone' /\ IsolatedAlone' /\ CeilingHeld'
    BY <2>2, DebtsUntouched DEF IsolatedAlone
  <2>6. Backed'
    <3> SUFFICES ASSUME NEW b \in Assets
                 PROVE  TotalSupply(b)' = cash'[b] + TotalDebt(b)' + Lent(b)'
      BY DEF Backed
    <3>1. TotalSupply(b)' = TotalSupply(b) /\ TotalDebt(b)' = TotalDebt(b)
      BY <2>2 DEF TotalSupply, TotalDebt
    <3>2. TotalSupply(b) = cash[b] + TotalDebt(b) + Lent(b)
      BY DEF Backed
    <3>3. cash'[b] = IF b = a THEN cash[b] + amount ELSE cash[b]
      BY <2>3
    <3> QED BY <1>2, <1>3, <3>1, <3>2, <3>3, TotalsNat
  <2> QED BY <2>4, <2>5, <2>6
<1>5. CASE f.mode # "none"
  <2>1. AddDebt(f.user, a, amount, f.mode, f.eMode) /\ cash' = cash /\ f.mode \in {Stable, Variable}
    BY <1>1, <1>2, <1>5 DEF a, amount
  <2>2. /\ stableDebt' \in [Assets -> [Users -> Nat]]
        /\ variableDebt' \in [Assets -> [Users -> Nat]]
        /\ borrowing' \in [Users -> SUBSET Assets]
        /\ isolationModeTotalDebt' \in [Assets -> Nat]
        /\ \A b \in Assets \ {a} : TotalDebt(b)' = TotalDebt(b)
        /\ TotalDebt(a)' = TotalDebt(a) + amount
        /\ BorrowingMatchesDebt' /\ SiloedAlone' /\ CeilingHeld'
    BY <1>2, <2>1, AddDebtFacts
  <2>3. UNCHANGED <<price, status, sequencerUp, aToken, usingAsCollateral, eMode>>
    BY <2>1 DEF AddDebt, marketVars
  <2>4. TypeOK' /\ IsolatedAlone'
    BY <1>1, <2>1, <2>2, <2>3 DEF TypeOK, IsolatedAlone
  <2>5. Backed'
    <3> SUFFICES ASSUME NEW b \in Assets
                 PROVE  TotalSupply(b)' = cash'[b] + TotalDebt(b)' + Lent(b)'
      BY DEF Backed
    <3>1. TotalSupply(b)' = TotalSupply(b)
      BY <2>3 DEF TotalSupply
    <3>2. TotalSupply(b) = cash[b] + TotalDebt(b) + Lent(b)
      BY DEF Backed
    <3>3. TotalDebt(b)' = IF b = a THEN TotalDebt(b) + amount ELSE TotalDebt(b)
      BY <2>2
    <3> QED BY <1>2, <1>3, <2>1, <3>1, <3>2, <3>3, TotalsNat
  <2> QED BY <2>2, <2>4, <2>5
<1> QED BY <1>4, <1>5
-----------------------------------------------------------------------------
(* Liquidation *)

LEMMA PricesPositive ==
  ASSUME TypeOK, NEW u \in Users, NEW a \in Assets
  PROVE  PriceFor(a, eMode[u]) \in Nat \ {0} /\ LiquidationDebtPrice(u, a) \in Nat \ {0}
<1>1. eMode[u] \in Categories /\ a \in Sources
  BY PoolAssumption DEF TypeOK
<1>2. \A s \in Sources : price[s] \in Nat \ {0}
  BY DEF TypeOK
<1>3. eMode[u] # 0 /\ EModes[eMode[u]].priceSource # NoSource => EModes[eMode[u]].priceSource \in Sources
  BY <1>1, PoolAssumption DEF Categories, EModeConfig
<1> QED BY <1>1, <1>2, <1>3 DEF PriceFor, LiquidationDebtPrice, InEMode

LEMMA BonusAboveOne ==
  ASSUME TypeOK, NEW u \in Users, NEW c \in CollateralOf(u)
  PROVE  LiquidationBonus(u, c) \in Nat \ {0} /\ LiquidationBonus(u, c) >= PERCENTAGE_FACTOR
<1>1. c \in Assets /\ Config[c].threshold # 0 /\ eMode[u] \in Categories
  BY DEF CollateralOf, TypeOK
<1>2. Config[c].bonus \in Nat /\ Config[c].bonus > PERCENTAGE_FACTOR
  BY <1>1, PoolAssumption DEF ReserveConfig
<1>3. InEMode(eMode[u], c) => /\ EModes[eMode[u]].bonus \in Nat
                              /\ EModes[eMode[u]].bonus > PERCENTAGE_FACTOR
  BY <1>1, PoolAssumption DEF InEMode, Categories, EModeConfig
<1> QED BY <1>2, <1>3 DEF LiquidationBonus, PERCENTAGE_FACTOR

LEMMA DebtToLiquidateNat ==
  ASSUME TypeOK, NEW u \in Users, NEW d \in Assets, NEW cover \in Nat
  PROVE  DebtToLiquidate(u, d, cover) \in Nat
<1>1. DebtOf(u, d) \in Nat
  BY DEF TypeOK, DebtOf
<1>2. PercentMul(DebtOf(u, d), DefaultCloseFactor) \in Nat /\ PercentMul(DebtOf(u, d), MaxCloseFactor) \in Nat
  <2>1. DefaultCloseFactor \in Nat /\ MaxCloseFactor \in Nat
    BY DEF DefaultCloseFactor, MaxCloseFactor
  <2> QED BY <1>1, <2>1, PercentMulBounds
<1> QED BY <1>2 DEF DebtToLiquidate

\* Nobody is seized more than he holds.
LEMMA SeizureBounds ==
  ASSUME TypeOK, NEW u \in Users, NEW c \in CollateralOf(u), NEW d \in Assets, NEW debt \in Nat
  PROVE  /\ Seizure(u, c, d, debt).collateral \in Nat
         /\ Seizure(u, c, d, debt).collateral <= aToken[c][u]
         /\ Seizure(u, c, d, debt).debt \in Nat
<1> DEFINE bonus == LiquidationBonus(u, c)
           collateralPrice == PriceFor(c, eMode[u])
           debtPrice == LiquidationDebtPrice(u, d)
           base == (debtPrice * debt) \div collateralPrice
           needed == (collateralPrice * aToken[c][u]) \div debtPrice
           most == PercentMul(base, bonus)
<1>1. c \in Assets /\ aToken[c][u] \in Nat
  BY DEF CollateralOf, TypeOK, Holders
<1>2. collateralPrice \in Nat \ {0} /\ debtPrice \in Nat \ {0} /\ bonus \in Nat \ {0}
  BY <1>1, PricesPositive, BonusAboveOne
<1>3. Seizure(u, c, d, debt) =
        IF most > aToken[c][u]
        THEN [collateral |-> aToken[c][u], debt |-> PercentDiv(needed, bonus)]
        ELSE [collateral |-> most, debt |-> debt]
  BY DEF Seizure
<1> HIDE DEF bonus, collateralPrice, debtPrice
<1>4. debtPrice * debt \in Nat /\ collateralPrice * aToken[c][u] \in Nat
  BY <1>1, <1>2, ProductNat
<1>5. base \in Nat /\ needed \in Nat
  BY <1>2, <1>4, Quotient
<1> HIDE DEF base, needed
<1>6. most \in Nat /\ PercentDiv(needed, bonus) \in Nat
  BY <1>2, <1>5, PercentMulBounds, PercentDivBounds
<1> HIDE DEF most
<1> QED BY <1>1, <1>3, <1>6

\* The fee is a part of what is seized.
LEMMA FeeBounds ==
  ASSUME TypeOK, NEW u \in Users, NEW c \in CollateralOf(u), NEW collateral \in Nat
  PROVE  ProtocolFee(u, c, collateral) \in Nat /\ ProtocolFee(u, c, collateral) <= collateral
<1> DEFINE bonus == LiquidationBonus(u, c)
           without == PercentDiv(collateral, bonus)
           fee == Config[c].protocolFee
<1>1. bonus \in Nat \ {0} /\ bonus >= PERCENTAGE_FACTOR
  BY BonusAboveOne
<1>2. fee \in Nat /\ fee <= PERCENTAGE_FACTOR
  BY PoolAssumption DEF CollateralOf, TypeOK, ReserveConfig
<1>3. without \in Nat /\ without <= collateral
  BY <1>1, PercentDivBounds
<1>4. ProtocolFee(u, c, collateral) = PercentMul(collateral - without, fee)
  BY DEF ProtocolFee
<1> HIDE DEF without, fee
<1>5. collateral - without \in Nat /\ collateral - without <= collateral
  BY <1>3
<1>6. PercentMul(collateral - without, fee) \in Nat /\ PercentMul(collateral - without, fee) <= collateral - without
  BY <1>2, <1>5, PercentMulBounds
<1> QED BY <1>3, <1>4, <1>5, <1>6

LEMMA BurnDebtFacts ==
  ASSUME TypeOK, NEW u \in Users, NEW d \in Assets, NEW paid \in Nat, BurnDebt(u, d, paid)
  PROVE  /\ stableDebt' \in [Assets -> [Users -> Nat]]
         /\ variableDebt' \in [Assets -> [Users -> Nat]]
         /\ \A b \in Assets \ {d} : TotalDebt(b)' = TotalDebt(b)
         /\ TotalDebt(d) = TotalDebt(d)' + paid
         /\ DebtOf(u, d) \in Nat /\ paid <= DebtOf(u, d)
         /\ DebtOf(u, d)' = DebtOf(u, d) - paid
         /\ \A v \in Users, b \in Assets : v # u \/ b # d => DebtOf(v, b)' = DebtOf(v, b)
<1> DEFINE fromVariable == IF variableDebt[d][u] >= paid THEN paid ELSE variableDebt[d][u]
           fromStable == paid - fromVariable
<1>1. /\ stableDebt \in [Assets -> [Users -> Nat]] /\ variableDebt \in [Assets -> [Users -> Nat]]
      /\ IsFiniteSet(Users)
      /\ stableDebt[d][u] \in Nat /\ variableDebt[d][u] \in Nat
  BY PoolAssumption DEF TypeOK
<1>2. /\ paid <= stableDebt[d][u] + variableDebt[d][u]
      /\ variableDebt' = Debit(variableDebt, d, u, fromVariable)
      /\ stableDebt' = Debit(stableDebt, d, u, fromStable)
  BY DEF BurnDebt, DebtOf
<1>3. /\ fromVariable \in Nat /\ fromVariable <= variableDebt[d][u]
      /\ fromStable \in Nat /\ fromStable <= stableDebt[d][u]
      /\ fromVariable + fromStable = paid
  BY <1>1, <1>2
<1> HIDE DEF fromVariable, fromStable
<1>4. /\ variableDebt' \in [Assets -> [Users -> Nat]]
      /\ variableDebt'[d][u] = variableDebt[d][u] - fromVariable
      /\ \A v \in Users \ {u} : variableDebt'[d][v] = variableDebt[d][v]
      /\ \A b \in Assets \ {d} : variableDebt'[b] = variableDebt[b]
      /\ SumOver(Users, variableDebt[d]) = SumOver(Users, variableDebt'[d]) + fromVariable
  BY <1>1, <1>2, <1>3, DebitFacts
<1>5. /\ stableDebt' \in [Assets -> [Users -> Nat]]
      /\ stableDebt'[d][u] = stableDebt[d][u] - fromStable
      /\ \A v \in Users \ {u} : stableDebt'[d][v] = stableDebt[d][v]
      /\ \A b \in Assets \ {d} : stableDebt'[b] = stableDebt[b]
      /\ SumOver(Users, stableDebt[d]) = SumOver(Users, stableDebt'[d]) + fromStable
  <2>1. stableDebt \in [Assets -> [Users -> Nat]] /\ IsFiniteSet(Users)
    BY <1>1
  <2>2. stableDebt' = Debit(stableDebt, d, u, fromStable)
    BY <1>2
  <2>3. fromStable \in Nat /\ fromStable <= stableDebt[d][u]
    BY <1>3
  <2> QED BY <2>1, <2>2, <2>3, DebitFacts
<1>6. TotalDebt(d) = TotalDebt(d)' + paid
  <2>1. SumOver(Users, variableDebt'[d]) \in Nat /\ SumOver(Users, stableDebt'[d]) \in Nat
    BY <1>1, <1>4, <1>5, SumType
  <2> DEFINE stableLeft == SumOver(Users, stableDebt'[d])
             variableLeft == SumOver(Users, variableDebt'[d])
  <2>2. /\ SumOver(Users, stableDebt[d]) = stableLeft + fromStable
        /\ SumOver(Users, variableDebt[d]) = variableLeft + fromVariable
        /\ TotalDebt(d)' = stableLeft + variableLeft
    BY <1>4, <1>5 DEF TotalDebt
  <2>3. stableLeft \in Nat /\ variableLeft \in Nat
    BY <2>1
  <2> HIDE DEF stableLeft, variableLeft
  <2>4. (stableLeft + fromStable) + (variableLeft + fromVariable) = (stableLeft + variableLeft) + paid
    BY <1>3, <2>3
  <2> QED BY <2>2, <2>4 DEF TotalDebt
<1>7. \A b \in Assets \ {d} : TotalDebt(b)' = TotalDebt(b)
  BY <1>4, <1>5 DEF TotalDebt
<1>8. /\ DebtOf(u, d) \in Nat /\ paid <= DebtOf(u, d)
      /\ DebtOf(u, d)' = DebtOf(u, d) - paid
  BY <1>1, <1>2, <1>3, <1>4, <1>5 DEF DebtOf
<1>9. \A v \in Users, b \in Assets : v # u \/ b # d => DebtOf(v, b)' = DebtOf(v, b)
  BY <1>4, <1>5 DEF DebtOf
<1> QED BY <1>4, <1>5, <1>6, <1>7, <1>8, <1>9

LEMMA LiquidationCallKeeps ==
  ASSUME PoolInv, NEW l \in Users, NEW u \in Users, NEW c \in Assets, NEW d \in Assets,
         NEW cover \in Nat, NEW receiveAToken \in BOOLEAN,
         LiquidationCall(l, u, c, d, cover, receiveAToken)
  PROVE  PoolInv'
<1> USE DEF PoolInv
<1> DEFINE seized == Seizure(u, c, d, DebtToLiquidate(u, d, cover))
           amount == seized.collateral
           paid == seized.debt
           fee == ProtocolFee(u, c, amount)
           received == amount - fee
           flags == IF amount = aToken[c][u]
                    THEN usingAsCollateral[u] \ {c} ELSE usingAsCollateral[u]
           flagged == [usingAsCollateral EXCEPT ![u] = flags]
           taken == Debit(aToken, c, u, amount)
           liquidatorFlags == FlagsAfterReceipt({l}, flagged[l], c, aToken[c][l])
           kept == Credit(taken, c, Treasury, fee)
           all == Credit(Credit(taken, c, l, received), c, Treasury, fee)
<1>1. c \in CollateralOf(u) /\ u \in Holders /\ l \in Holders /\ Treasury \in Holders
      /\ aToken \in [Assets -> [Holders -> Nat]]
  BY DEF LiquidationCall, LiquidationAllowed, Holders, TypeOK
<1>2. amount \in Nat /\ amount <= aToken[c][u] /\ paid \in Nat
  <2>1. DebtToLiquidate(u, d, cover) \in Nat
    BY DebtToLiquidateNat
  <2> QED BY <1>1, <2>1, SeizureBounds
<1>3. fee \in Nat /\ fee <= amount
  BY <1>1, <1>2, FeeBounds
<1>4. /\ paid # 0
      /\ BurnDebt(u, d, paid)
      /\ borrowing' = [borrowing EXCEPT ![u] = BorrowingAfter(u, d, paid)]
      /\ isolationModeTotalDebt' = IsolatedDebtAfterRepay(flags, paid)
      /\ UNCHANGED <<price, status, sequencerUp, eMode, flash>>
  BY DEF LiquidationCall, marketVars
<1>5. \/ /\ aToken' = all
         /\ usingAsCollateral' = [flagged EXCEPT ![l] = liquidatorFlags]
         /\ cash' = [cash EXCEPT ![d] = cash[d] + paid]
      \/ /\ received <= cash[c]
         /\ aToken' = kept
         /\ usingAsCollateral' = flagged
         /\ cash' = [a \in Assets |->
              cash[a] - (IF a = c THEN received ELSE 0) + (IF a = d THEN paid ELSE 0)]
  BY DEF LiquidationCall
<1>6. /\ flagged \in [Users -> SUBSET Assets]
      /\ \A v \in Users : IsolatedIn(flagged[v])
  <2>1. flags \in {usingAsCollateral[u], usingAsCollateral[u] \ {c}}
    OBVIOUS
  <2>2. \A v \in Users : IsolatedIn(usingAsCollateral[v]) /\ IsolatedIn(usingAsCollateral[v] \ {c})
    BY FlagInvariants, FlagCleared
  <2> HIDE DEF flags
  <2> QED BY <2>1, <2>2 DEF TypeOK
<1>7. liquidatorFlags \in SUBSET Assets /\ IsolatedIn(liquidatorFlags)
  <2> HIDE DEF flagged
  <2> QED BY <1>6, ReceiptAlone
<1>8. received \in Nat /\ received + fee = amount
  BY <1>2, <1>3
<1>9. /\ kept \in [Assets -> [Holders -> Nat]] /\ all \in [Assets -> [Holders -> Nat]]
      /\ \A b \in Assets \ {c} : kept[b] = aToken[b] /\ all[b] = aToken[b]
      /\ SumOver(Holders, aToken[c]) = SumOver(Holders, kept[c]) + received
      /\ SumOver(Holders, all[c]) = SumOver(Holders, aToken[c])
  <2>1. IsFiniteSet(Holders)
    BY HoldersFinite
  <2> DEFINE given == Credit(taken, c, l, received)
  <2> HIDE DEF amount, fee, received
  <2>2. taken \in [Assets -> [Holders -> Nat]] /\ Adds(Holders, taken, aToken, c, amount)
    BY <1>1, <1>2, <2>1, DebitTakes
  <2> HIDE DEF taken
  <2>3. Adds(Holders, taken, given, c, received) /\ Adds(Holders, taken, kept, c, fee)
    BY <1>1, <1>3, <1>8, <2>1, <2>2, CreditAdds
  <2> HIDE DEF given
  <2>4. given \in [Assets -> [Holders -> Nat]]
    BY <2>3 DEF Adds
  <2>5. Adds(Holders, given, all, c, fee)
    BY <1>1, <1>3, <2>1, <2>4, CreditAdds DEF given
  <2> HIDE DEF kept, all
  <2>6. /\ kept \in [Assets -> [Holders -> Nat]] /\ all \in [Assets -> [Holders -> Nat]]
        /\ \A b \in Assets \ {c} : kept[b] = aToken[b] /\ all[b] = aToken[b]
    BY <2>2, <2>3, <2>5 DEF Adds
  <2> DEFINE left == SumOver(Holders, taken[c])
             whole == SumOver(Holders, aToken[c])
             withKept == SumOver(Holders, kept[c])
             withAll == SumOver(Holders, all[c])
             withGiven == SumOver(Holders, given[c])
  <2>7. /\ whole = left + amount /\ withKept = left + fee
        /\ withGiven = left + received /\ withAll = withGiven + fee
    BY <2>2, <2>3, <2>5 DEF Adds
  <2>8. left \in Nat
    <3>1. taken[c] \in [Holders -> Nat]
      BY <2>2
    <3> QED BY <2>1, <3>1, SumType
  <2>9. amount \in Nat /\ fee \in Nat /\ received \in Nat /\ received + fee = amount
    BY <1>2, <1>3, <1>8
  <2> HIDE DEF left, whole, withKept, withAll, withGiven
  <2>10. whole = withKept + received /\ withAll = whole
    BY <2>7, <2>8, <2>9
  <2> QED BY <2>6, <2>10 DEF whole, withKept, withAll
<1> HIDE DEF seized, amount, paid, fee, flags, flagged, taken, received, liquidatorFlags, kept, all
<1>10. /\ stableDebt' \in [Assets -> [Users -> Nat]]
       /\ variableDebt' \in [Assets -> [Users -> Nat]]
       /\ \A b \in Assets \ {d} : TotalDebt(b)' = TotalDebt(b)
       /\ TotalDebt(d) = TotalDebt(d)' + paid
       /\ DebtOf(u, d) \in Nat /\ paid <= DebtOf(u, d)
       /\ DebtOf(u, d)' = DebtOf(u, d) - paid
       /\ \A v \in Users, b \in Assets : v # u \/ b # d => DebtOf(v, b)' = DebtOf(v, b)
  BY <1>2, <1>4, BurnDebtFacts
<1>11. borrowing' \in [Users -> SUBSET Assets] /\ BorrowingMatchesDebt' /\ SiloedAlone'
  BY <1>2, <1>4, <1>10, DebtReduced
<1>12. isolationModeTotalDebt' \in [Assets -> Nat] /\ CeilingHeld'
  BY <1>2, <1>4, RepayLowersIsolatedDebt
<1>13. usingAsCollateral' \in [Users -> SUBSET Assets] /\ IsolatedAlone'
  <2>1. CASE usingAsCollateral' = [flagged EXCEPT ![l] = liquidatorFlags]
    BY <1>6, <1>7, <2>1 DEF IsolatedAlone, IsolatedIn
  <2>2. CASE usingAsCollateral' = flagged
    BY <1>6, <2>2 DEF IsolatedAlone, IsolatedIn
  <2> QED BY <1>5, <2>1, <2>2
<1>14. \A b \in Assets : cash[b] \in Nat
  BY TotalsNat
<1>15. CASE aToken' = all /\ cash' = [cash EXCEPT ![d] = cash[d] + paid]
  <2>1. aToken' \in [Assets -> [Holders -> Nat]]
    BY <1>9, <1>15
  <2>2. \A b \in Assets : TotalSupply(b)' = TotalSupply(b)
    BY <1>9, <1>15 DEF TotalSupply
  <2>3. cash' \in [Assets -> Nat] /\ cash'[d] = cash[d] + paid
        /\ \A b \in Assets \ {d} : cash'[b] = cash[b]
    BY <1>2, <1>14, <1>15 DEF TypeOK
  <2>4. TypeOK'
    BY <1>4, <1>10, <1>11, <1>12, <1>13, <2>1, <2>3 DEF TypeOK
  <2>5. Backed'
    BY <1>2, <1>4, <1>10, <2>2, <2>3, <2>4, TotalsNat, TotalsPrimedNat, BackedWhenPaid
  <2> QED BY <1>11, <1>12, <1>13, <2>4, <2>5
<1>16. CASE /\ received <= cash[c]
            /\ aToken' = kept
            /\ cash' = [a \in Assets |->
                 cash[a] - (IF a = c THEN received ELSE 0) + (IF a = d THEN paid ELSE 0)]
  <2>1. aToken' \in [Assets -> [Holders -> Nat]]
    BY <1>9, <1>16
  <2>2. cash' \in [Assets -> Nat]
    <3>1. \A b \in Assets :
            cash[b] - (IF b = c THEN received ELSE 0) + (IF b = d THEN paid ELSE 0) \in Nat
      BY <1>2, <1>8, <1>14, <1>16
    <3> QED BY <1>16, <3>1
  <2>3. TypeOK'
    BY <1>4, <1>10, <1>11, <1>12, <1>13, <2>1, <2>2 DEF TypeOK
  <2>4. Backed'
    <3> SUFFICES ASSUME NEW b \in Assets
                 PROVE  TotalSupply(b)' = cash'[b] + TotalDebt(b)' + Lent(b)'
      BY DEF Backed
    <3> DEFINE out == IF b = c THEN received ELSE 0
               in == IF b = d THEN paid ELSE 0
    <3>1. out \in Nat /\ in \in Nat
      BY <1>2, <1>8
    <3>2. TotalSupply(b) = TotalSupply(b)' + out
      <4>1. CASE b = c
        BY <1>9, <1>16, <4>1 DEF TotalSupply
      <4>2. CASE b # c
        <5>1. TotalSupply(b)' = TotalSupply(b)
          BY <1>9, <1>16, <4>2 DEF TotalSupply
        <5> QED BY <4>2, <5>1, TotalsNat
      <4> QED BY <4>1, <4>2
    <3>3. TotalDebt(b) = TotalDebt(b)' + in
      <4>1. CASE b = d
        BY <1>10, <4>1
      <4>2. CASE b # d
        BY <1>10, <4>2, TotalsNat
      <4> QED BY <4>1, <4>2
    <3>4. cash'[b] = cash[b] - out + in
      BY <1>16
    <3>5. TotalSupply(b) = cash[b] + TotalDebt(b) + Lent(b) /\ Lent(b)' = Lent(b)
      BY <1>4 DEF Backed, Lent
    <3>6. /\ cash[b] \in Nat /\ TotalSupply(b)' \in Nat /\ TotalDebt(b)' \in Nat /\ Lent(b) \in Nat
      BY <2>3, TotalsNat, TotalsPrimedNat, LentNat
    <3> HIDE DEF out, in
    <3> QED BY <3>1, <3>2, <3>3, <3>4, <3>5, <3>6
  <2> QED BY <1>11, <1>12, <1>13, <2>3, <2>4
<1> QED BY <1>5, <1>15, <1>16

-----------------------------------------------------------------------------
(* The invariant *)

LEMMA InitInv ==
  ASSUME Init
  PROVE  PoolInv
<1>1. TypeOK
  BY PoolAssumption DEF Init, TypeOK, Statuses, Categories, Holders
<1>2. Backed
  <2> SUFFICES ASSUME NEW a \in Assets
               PROVE  TotalSupply(a) = cash[a] + TotalDebt(a) + Lent(a)
    BY DEF Backed
  <2>1. /\ \A h \in Holders : aToken[a][h] = 0
        /\ \A u \in Users : stableDebt[a][u] = 0 /\ variableDebt[a][u] = 0
        /\ cash[a] = 0 /\ flash = {}
    BY DEF Init
  <2>2. \A S, f : (\A i \in S : f[i] = 0) => SumOver(S, f) = 0
    BY SumAllZero
  <2> QED BY <2>1, <2>2 DEF TotalSupply, TotalDebt, Lent
<1>3. BorrowingMatchesDebt /\ SiloedAlone /\ IsolatedAlone
  BY DEF Init, BorrowingMatchesDebt, DebtOf, SiloedAlone, IsolatedAlone
<1>4. CeilingHeld
  BY PoolAssumption DEF Init, CeilingHeld, ReserveConfig
<1> QED BY <1>1, <1>2, <1>3, <1>4 DEF PoolInv

LEMMA NextInv ==
  ASSUME PoolInv, [Next]_vars
  PROVE  PoolInv'
<1> USE PoolAssumption
<1>0. \A u \in Users, a \in Assets : aToken[a][u] \in Nat
  BY DEF PoolInv, TypeOK, Holders
<1>1. Modes \subseteq {Stable, Variable} /\ Modes \cup {"none"} \subseteq {Stable, Variable, "none"}
  OBVIOUS
<1>2. CASE UNCHANGED vars
  <2>1. TypeOK'
    BY <1>2 DEF PoolInv, TypeOK, vars, marketVars, tokenVars, flagVars
  <2> QED BY <1>2, <2>1, BooksUntouched DEF vars, flagVars
<1>3. CASE \E u, v \in Users, a \in Assets, x \in Amounts : Supply(u, v, a, x)
  BY <1>3, SupplyKeeps
<1>4. CASE \E u \in Users, a \in Assets : \E x \in Amounts \cup {aToken[a][u]} : Withdraw(u, a, x)
  BY <1>0, <1>4, WithdrawKeeps
<1>5. CASE \E u, v \in Users, a \in Assets :
             \E x \in Amounts \cup {aToken[a][u]} : Transfer(u, v, a, x)
  BY <1>0, <1>5, TransferKeeps
<1>6. CASE \E u \in Users, a \in Assets, use \in BOOLEAN : UseReserveAsCollateral(u, a, use)
  BY <1>6, UseReserveAsCollateralKeeps
<1>7. CASE \E u \in Users, a \in Assets, x \in Amounts, m \in Modes : Borrow(u, a, x, m)
  BY <1>1, <1>7, BorrowKeeps
<1>8. CASE \E u \in Users, a \in Assets, m \in Modes :
             \E x \in Amounts \cup {DebtOfMode(u, a, m)} : Repay(u, a, x, m)
  <2>1. \A u \in Users, a \in Assets, m \in Modes : DebtOfMode(u, a, m) \in Nat
    BY DEF PoolInv, TypeOK, DebtOfMode
  <2> QED BY <1>1, <1>8, <2>1, RepayKeeps
<1>9. CASE \E u \in Users, a \in Assets, m \in Modes :
             \E x \in Amounts \cup {aToken[a][u]} : RepayWithATokens(u, a, x, m)
  BY <1>0, <1>1, <1>9, RepayWithATokensKeeps
<1>10. CASE \E u \in Users, a \in Assets, m \in Modes : SwapBorrowRateMode(u, a, m)
  BY <1>1, <1>10, SwapBorrowRateModeKeeps
<1>11. CASE \E u \in Users, cat \in Categories : SetUserEMode(u, cat)
  BY <1>11, SetUserEModeKeeps
<1>12. CASE \E l, u \in Users, c, d \in Assets, x \in CoverAmounts, r \in BOOLEAN :
              LiquidationCall(l, u, c, d, x, r)
  BY <1>12, LiquidationCallKeeps
<1>13. CASE \E u \in Users, a \in Assets, x \in FlashAmounts, m \in Modes \cup {"none"} :
              FlashLoan(u, a, x, m)
  BY <1>1, <1>13, FlashLoanKeeps
<1>14. CASE FlashLoanEnd
  BY <1>14, FlashLoanEndKeeps
<1>15. CASE \/ \E m \in PriceMoves : SetPrice(m[1], m[2])
            \/ \E m \in StatusMoves : SetStatus(m[1], m[2])
            \/ \E up \in SequencerMoves : SetSequencer(up)
  BY <1>15, MarketKeeps
<1> QED BY <1>2, <1>3, <1>4, <1>5, <1>6, <1>7, <1>8, <1>9, <1>10, <1>11, <1>12, <1>13, <1>14,
           <1>15 DEF Next

\* Whatever the accounts call, in any order and inside each other's flash loans:
\* every aToken stays backed, the flags that the validations read tell the truth
\* about debts, siloed debts and isolated collateral stay alone, and no debt
\* ceiling is exceeded.
THEOREM PoolCorrect == Spec => []PoolInv
BY InitInv, NextInv, PTL DEF Spec

\* The claims on a reserve never exceed what it holds, is owed and has lent.
THEOREM PoolBacked == Spec => []Backed
BY PoolCorrect, PTL DEF PoolInv

\* A siloed debt is its borrower's only debt.
THEOREM PoolSiloedAlone == Spec => []SiloedAlone
BY PoolCorrect, PTL DEF PoolInv

\* Isolated collateral is its owner's only collateral.
THEOREM PoolIsolatedAlone == Spec => []IsolatedAlone
BY PoolCorrect, PTL DEF PoolInv

\* No collateral backs more isolated debt than its ceiling.
THEOREM PoolCeilingHeld == Spec => []CeilingHeld
BY PoolCorrect, PTL DEF PoolInv

-----------------------------------------------------------------------------
(* eMode categories *)

\* Paying debts off keeps them in the borrower's category.
LEMMA FewerDebtsStay ==
  ASSUME EModeDebts, TypeOK, \A u \in Users : borrowing'[u] \subseteq borrowing[u],
         UNCHANGED eMode
  PROVE  EModeDebts'
BY DEF EModeDebts, TypeOK

\* So do the operations that open no debt.
LEMMA PaymentsStay ==
  ASSUME EModeDebts, TypeOK, NEW u \in Users, NEW a, NEW paid,
         borrowing' = [borrowing EXCEPT ![u] = BorrowingAfter(u, a, paid)],
         UNCHANGED eMode
  PROVE  EModeDebts'
<1>1. BorrowingAfter(u, a, paid) \subseteq borrowing[u]
  BY DEF BorrowingAfter
<1>2. \A v \in Users : borrowing'[v] \subseteq borrowing[v]
  BY <1>1 DEF TypeOK
<1> QED BY <1>2, FewerDebtsStay

\* A new debt is in the category that is its borrower's at that moment.
LEMMA BorrowStays ==
  ASSUME EModeDebts, TypeOK, NEW u \in Users, NEW a \in Assets, NEW amount, NEW mode,
         Borrow(u, a, amount, mode)
  PROVE  EModeDebts'
<1>1. eMode[u] # 0 => Config[a].eMode = eMode[u]
  BY DEF Borrow, AddDebt, BorrowAllowed
<1>2. borrowing' = [borrowing EXCEPT ![u] = borrowing[u] \cup {a}] /\ eMode' = eMode
  BY DEF Borrow, AddDebt
<1> QED BY <1>1, <1>2 DEF EModeDebts, TypeOK

\* Whoever changes its category takes only debts of the new one along.
LEMMA CategoryChangeStays ==
  ASSUME EModeDebts, TypeOK, NEW u \in Users, NEW cat \in Categories, SetUserEMode(u, cat)
  PROVE  EModeDebts'
<1>1. /\ cat # 0 => \A a \in borrowing[u] : Config[a].eMode = cat
      /\ eMode' = [eMode EXCEPT ![u] = cat] /\ borrowing' = borrowing
  BY DEF SetUserEMode
<1> QED BY <1>1 DEF EModeDebts, TypeOK

\* Without flash loans no call is made between a borrower's category being read
\* and its debt being opened.
LEMMA EModeStep ==
  ASSUME FlashAmounts = {}, EModeDebts, PoolInv, flash = {}, [Next]_vars
  PROVE  EModeDebts' /\ flash' = {}
<1>1. TypeOK
  BY DEF PoolInv
<1>2. CASE \/ UNCHANGED vars
           \/ \E u, v \in Users, a \in Assets, x \in Amounts : Supply(u, v, a, x)
           \/ \E u \in Users, a \in Assets : \E x \in Amounts \cup {aToken[a][u]} : Withdraw(u, a, x)
           \/ \E u, v \in Users, a \in Assets :
                \E x \in Amounts \cup {aToken[a][u]} : Transfer(u, v, a, x)
           \/ \E u \in Users, a \in Assets, use \in BOOLEAN : UseReserveAsCollateral(u, a, use)
           \/ \E u \in Users, a \in Assets, m \in Modes : SwapBorrowRateMode(u, a, m)
           \/ \E m \in PriceMoves : SetPrice(m[1], m[2])
           \/ \E m \in StatusMoves : SetStatus(m[1], m[2])
           \/ \E up \in SequencerMoves : SetSequencer(up)
  <2>1. UNCHANGED <<borrowing, eMode, flash>>
    BY <1>2 DEF vars, flagVars, Supply, Withdraw, Transfer, UseReserveAsCollateral,
       SwapBorrowRateMode, SetPrice, SetStatus, SetSequencer
  <2> QED BY <1>1, <2>1, FewerDebtsStay
<1>3. CASE \E u \in Users, a \in Assets, x \in Amounts, m \in Modes : Borrow(u, a, x, m)
  <2>1. EModeDebts'
    BY <1>1, <1>3, BorrowStays
  <2>2. flash' = flash
    BY <1>3 DEF Borrow
  <2> QED BY <2>1, <2>2
<1>4. CASE \E u \in Users, a \in Assets, m \in Modes :
             \E x \in Amounts \cup {DebtOfMode(u, a, m)} : Repay(u, a, x, m)
  <2>1. PICK u \in Users, a \in Assets, m \in Modes : \E x : Repay(u, a, x, m)
    BY <1>4
  <2>2. PICK paid : borrowing' = [borrowing EXCEPT ![u] = BorrowingAfter(u, a, paid)]
    BY <2>1 DEF Repay, PayOff
  <2>3. UNCHANGED <<eMode, flash>>
    BY <2>1 DEF Repay
  <2> QED BY <1>1, <2>2, <2>3, PaymentsStay
<1>5. CASE \E u \in Users, a \in Assets, m \in Modes :
             \E x \in Amounts \cup {aToken[a][u]} : RepayWithATokens(u, a, x, m)
  <2>1. PICK u \in Users, a \in Assets, m \in Modes : \E x : RepayWithATokens(u, a, x, m)
    BY <1>5
  <2>2. PICK paid : borrowing' = [borrowing EXCEPT ![u] = BorrowingAfter(u, a, paid)]
    BY <2>1 DEF RepayWithATokens, PayOff
  <2>3. UNCHANGED <<eMode, flash>>
    BY <2>1 DEF RepayWithATokens
  <2> QED BY <1>1, <2>2, <2>3, PaymentsStay
<1>6. CASE \E u \in Users, cat \in Categories : SetUserEMode(u, cat)
  <2>1. flash' = flash
    BY <1>6 DEF SetUserEMode
  <2> QED BY <1>1, <1>6, <2>1, CategoryChangeStays
<1>7. CASE \E l, u \in Users, c, d \in Assets, x \in CoverAmounts, r \in BOOLEAN :
             LiquidationCall(l, u, c, d, x, r)
  <2>1. PICK l, u \in Users, c, d \in Assets, x \in CoverAmounts, r \in BOOLEAN :
             LiquidationCall(l, u, c, d, x, r)
    BY <1>7
  <2>2. PICK paid : borrowing' = [borrowing EXCEPT ![u] = BorrowingAfter(u, d, paid)]
    BY <2>1 DEF LiquidationCall
  <2>3. UNCHANGED <<eMode, flash>>
    BY <2>1 DEF LiquidationCall
  <2> QED BY <1>1, <2>2, <2>3, PaymentsStay
<1>8. ~ FlashLoanEnd /\ ~ \E u \in Users, a \in Assets, x \in FlashAmounts, m \in Modes \cup {"none"} :
                            FlashLoan(u, a, x, m)
  BY DEF FlashLoanEnd
<1> QED BY <1>2, <1>3, <1>4, <1>5, <1>6, <1>7, <1>8 DEF Next

\* A borrower in a category owes only assets of it, unless flash loans open
\* debts: the liquidation's pricing of the debt by the category relies on it.
THEOREM PoolEModeDebts ==
  ASSUME FlashAmounts = {}
  PROVE  Spec => []EModeDebts
<1>1. Init => EModeDebts /\ flash = {}
  BY DEF Init, EModeDebts
<1>2. (EModeDebts /\ flash = {}) /\ PoolInv /\ [Next]_vars => (EModeDebts /\ flash = {})'
  BY EModeStep
<1> QED BY <1>1, <1>2, PoolCorrect, PTL DEF Spec

-----------------------------------------------------------------------------
(* The debt counted against isolated collateral, exactly *)

\* The amounts that a debt ceiling counts without rounding.
WholeAmounts == {CEILING_UNIT * n : n \in Nat}

\* ... are the products of the unit and their units.
LEMMA WholeAmount ==
  ASSUME NEW x \in WholeAmounts
  PROVE  x \in Nat /\ CeilingUnits(x) \in Nat /\ x = CEILING_UNIT * CeilingUnits(x)
<1>1. PICK n \in Nat : x = CEILING_UNIT * n
  BY DEF WholeAmounts
<1>2. CEILING_UNIT \in Nat \ {0}
  BY PoolAssumption
<1>3. x \in Nat
  BY <1>1, <1>2, ProductNat
<1>4. CeilingUnits(x) = n
  BY <1>1, <1>2, <1>3, QuotientExact DEF CeilingUnits
<1> QED BY <1>1, <1>3, <1>4

\* They add up and their differences are whole, and so it is of their units.
LEMMA WholeSum ==
  ASSUME NEW x \in WholeAmounts, NEW y \in WholeAmounts
  PROVE  x + y \in WholeAmounts /\ CeilingUnits(x + y) = CeilingUnits(x) + CeilingUnits(y)
<1> DEFINE unit == CEILING_UNIT
           m == CeilingUnits(x)
           n == CeilingUnits(y)
<1>1. unit \in Nat \ {0} /\ m \in Nat /\ n \in Nat /\ x = unit * m /\ y = unit * n
  BY WholeAmount, PoolAssumption
<1> HIDE DEF m, n
<1>2. x + y = unit * (m + n) /\ m + n \in Nat
  BY <1>1
<1>3. (unit * (m + n)) \div unit = m + n
  BY <1>1, <1>2, QuotientExact
<1>4. x + y \in WholeAmounts
  BY <1>2 DEF WholeAmounts
<1>5. CeilingUnits(x + y) = m + n
  BY <1>2, <1>3 DEF CeilingUnits
<1> QED BY <1>4, <1>5 DEF m, n

LEMMA WholeDifference ==
  ASSUME NEW x \in WholeAmounts, NEW y \in WholeAmounts, y <= x
  PROVE  /\ x - y \in WholeAmounts
         /\ CeilingUnits(y) <= CeilingUnits(x)
         /\ CeilingUnits(x - y) = CeilingUnits(x) - CeilingUnits(y)
<1> DEFINE unit == CEILING_UNIT
           m == CeilingUnits(x)
           n == CeilingUnits(y)
<1>1. unit \in Nat \ {0} /\ m \in Nat /\ n \in Nat /\ x = unit * m /\ y = unit * n
  BY WholeAmount, PoolAssumption
<1> HIDE DEF m, n
<1>2. n <= m
  <2> HIDE DEF unit
  <2>1. ~ (unit * m < unit * n)
    <3>1. unit * m \in Nat /\ unit * n \in Nat
      BY <1>1, ProductNat
    <3> QED BY <1>1, <3>1
  <2> QED BY <1>1, <2>1, ProductIncreasing
<1>3. x - y = unit * (m - n) /\ m - n \in Nat
  BY <1>1, <1>2
<1>4. (unit * (m - n)) \div unit = m - n
  BY <1>1, <1>3, QuotientExact
<1>5. x - y \in WholeAmounts
  BY <1>3 DEF WholeAmounts
<1>6. CeilingUnits(x - y) = m - n
  BY <1>3, <1>4 DEF CeilingUnits
<1> QED BY <1>2, <1>5, <1>6 DEF m, n

\* All balances are whole amounts.
Whole ==
  /\ \A a \in Assets, h \in Holders : aToken[a][h] \in WholeAmounts
  /\ \A a \in Assets, u \in Users :
       stableDebt[a][u] \in WholeAmounts /\ variableDebt[a][u] \in WholeAmounts
  /\ \A f \in flash : f.amount \in WholeAmounts

\* Whoever has a debt has collateral.
Secured == \A u \in Users : borrowing[u] # {} => usingAsCollateral[u] # {}

\* What makes IsolatedDebtCounted inductive: rounding loses nothing, and
\* collateral that is or becomes isolated secures no debt that is not counted.
CountInv == Whole /\ Secured /\ IsolatedDebtCounted

\* Without collateral nothing covers a debt.
LEMMA NothingCounts ==
  ASSUME NEW u \in Users, NEW cat, usingAsCollateral[u] = {}
  PROVE  AccountData(u, cat).collateral = 0
<1> DEFINE value == [a \in CollateralOf(u) |-> aToken[a][u] * PriceFor(a, cat)]
<1>1. AccountData(u, cat).collateral = FoldFunction(+, 0, value)
  BY DEF AccountData
<1>2. CollateralOf(u) = {}
  BY DEF CollateralOf
<1>3. value \in [{} -> Nat] /\ IsFiniteSet({})
  BY <1>2, FS_EmptySet
<1> HIDE DEF value
<1>4. FoldFunction(+, 0, value) = SumOver({}, value)
  BY <1>3, FoldIsSum
<1> QED BY <1>1, <1>4, SumEmpty

\* A debt is worth something.
LEMMA DebtWeighs ==
  ASSUME PoolInv, NEW u \in Users, borrowing[u] # {}
  PROVE  AccountData(u, eMode[u]).debt \in Nat \ {0}
<1> DEFINE owed == [a \in borrowing[u] |-> DebtOf(u, a) * PriceFor(a, eMode[u])]
<1>1. AccountData(u, eMode[u]).debt = FoldFunction(+, 0, owed)
  BY DEF AccountData
<1>2. ASSUME NEW a \in borrowing[u] PROVE owed[a] \in Nat \ {0}
  <2>1. a \in Assets /\ DebtOf(u, a) \in Nat \ {0}
    BY DEF PoolInv, TypeOK, BorrowingMatchesDebt, DebtOf
  <2>2. PriceFor(a, eMode[u]) \in Nat \ {0}
    BY <2>1, PricesPositive DEF PoolInv
  <2> QED BY <2>1, <2>2
<1>3. owed \in [borrowing[u] -> Nat]
  BY <1>2
<1>4. IsFiniteSet(borrowing[u])
  BY PoolAssumption, FS_Subset DEF PoolInv, TypeOK
<1> HIDE DEF owed
<1>5. FoldFunction(+, 0, owed) = SumOver(borrowing[u], owed)
  BY <1>3, <1>4, FoldIsSum
<1>6. \A a \in borrowing[u] : owed[a] \in Nat /\ owed[a] # 0
  BY <1>2
<1>7. SumOver(borrowing[u], owed) \in Nat /\ SumOver(borrowing[u], owed) # 0
  BY <1>4, <1>6, SumType, SumZero
<1> QED BY <1>1, <1>5, <1>7

\* Debts without collateral pass no health check.
NakedUnhealthy ==
  \A u \in Users : usingAsCollateral[u] = {} /\ borrowing[u] # {} =>
    \A a \in Assets : ~ HealthyWithout(u, a, eMode[u])

LEMMA NakedDebts == PoolInv => NakedUnhealthy
<1> SUFFICES ASSUME PoolInv, NEW u \in Users, usingAsCollateral[u] = {}, borrowing[u] # {}
             PROVE  ~ (AccountData(u, eMode[u]).health >= WAD)
  BY DEF NakedUnhealthy, HealthyWithout
<1> DEFINE data == AccountData(u, eMode[u])
           debt == data.debt
           mean == IF data.collateral = 0 THEN 0 ELSE
             FoldFunction(+, 0, [a \in CollateralOf(u) |->
               [b \in CollateralOf(u) |-> aToken[b][u] * PriceFor(b, eMode[u])][a]
                 * ThresholdFor(a, eMode[u])]) \div data.collateral
<1>1. data.health = IF debt = 0 THEN MaxUint
                    ELSE UnitDiv(PercentMul(data.collateral, mean), debt, WAD)
  BY DEF AccountData
<1>2. data.collateral = 0
  BY NothingCounts
<1>3. debt \in Nat \ {0} /\ WAD \in Nat \ {0}
  BY DebtWeighs, PoolAssumption
<1>4. PercentMul(0, 0) = 0
  BY DEF PercentMul, PERCENTAGE_FACTOR
<1>5. mean = 0
  BY <1>2
<1> HIDE DEF data, debt, mean
<1>6. data.health = UnitDiv(0, debt, WAD)
  BY <1>1, <1>2, <1>3, <1>4, <1>5
<1>7. UnitDiv(0, debt, WAD) = 0
  <2>1. 0 * WAD + debt \div 2 = debt \div 2 /\ debt \div 2 \in Nat /\ debt \div 2 < debt
    BY <1>3
  <2> DEFINE half == debt \div 2
  <2>2. half \in Nat /\ half < debt
    BY <2>1
  <2> HIDE DEF half
  <2>3. half \div debt \in Nat /\ debt * (half \div debt) <= half
    BY <1>3, <2>2, Quotient
  <2>4. half \div debt = 0
    <3> DEFINE q == half \div debt
    <3>1. q \in Nat /\ debt * q < debt * 1
      BY <1>3, <2>2, <2>3
    <3> HIDE DEF q
    <3>2. q < 1
      BY <1>3, <3>1, ProductIncreasing
    <3> QED BY <3>1, <3>2 DEF q
  <2> QED BY <2>1, <2>4 DEF UnitDiv, half
<1> QED BY <1>3, <1>6, <1>7 DEF data

-----------------------------------------------------------------------------
(* ... when flags change *)

\* The same isolated collateral is flagged.
SameIsolation(flags, after) ==
  \A a \in Assets : Config[a].debtCeiling # 0 => (a \in after <=> a \in flags)

\* What is left, if anything, was not isolated, and neither was what is gone.
LEMMA FlagLost ==
  ASSUME NEW flags \in SUBSET Assets, IsolatedIn(flags), NEW a, flags \ {a} # {}
  PROVE  SameIsolation(flags, flags \ {a})
BY DEF IsolatedIn, SameIsolation

\* Nothing isolated is added to other collateral.
LEMMA FlagGained ==
  ASSUME NEW flags \in SUBSET Assets, NEW a, MayUseAsCollateral(flags, a), flags # {}
  PROVE  flags \cup {a} # {} /\ SameIsolation(flags, flags \cup {a})
BY DEF MayUseAsCollateral, SameIsolation

LEMMA FlagReceived ==
  ASSUME NEW callers, NEW flags \in SUBSET Assets, NEW a \in Assets, NEW before, flags # {}
  PROVE  /\ FlagsAfterReceipt(callers, flags, a, before) # {}
         /\ SameIsolation(flags, FlagsAfterReceipt(callers, flags, a, before))
<1>1. CASE before = 0 /\ AutomaticCollateral(callers, flags, a)
  BY <1>1, FlagGained DEF FlagsAfterReceipt, AutomaticCollateral
<1>2. CASE ~ (before = 0 /\ AutomaticCollateral(callers, flags, a))
  BY <1>2 DEF FlagsAfterReceipt, SameIsolation
<1> QED BY <1>1, <1>2

\* Whoever has debts stays isolated, or not, by the same collateral.
IsolationKept ==
  \A v \in Users : borrowing[v] # {} =>
    usingAsCollateral'[v] # {} /\ SameIsolation(usingAsCollateral[v], usingAsCollateral'[v])

LEMMA SupplyFlags ==
  ASSUME PoolInv, Secured, NEW u \in Users, NEW onBehalfOf \in Users, NEW a \in Assets,
         NEW amount \in Nat, Supply(u, onBehalfOf, a, amount)
  PROVE  IsolationKept
<1> SUFFICES ASSUME NEW v \in Users, borrowing[v] # {}
             PROVE  /\ usingAsCollateral'[v] # {}
                    /\ SameIsolation(usingAsCollateral[v], usingAsCollateral'[v])
  BY DEF IsolationKept
<1> DEFINE flags == FlagsAfterReceipt({u}, usingAsCollateral[onBehalfOf], a, aToken[a][onBehalfOf])
<1>1. usingAsCollateral' = [usingAsCollateral EXCEPT ![onBehalfOf] = flags]
  BY DEF Supply
<1>2. usingAsCollateral[v] # {} /\ usingAsCollateral \in [Users -> SUBSET Assets]
  BY DEF Secured, PoolInv, TypeOK
<1>3. CASE v = onBehalfOf
  <2>1. flags # {} /\ SameIsolation(usingAsCollateral[v], flags)
    BY <1>2, <1>3, FlagReceived
  <2> HIDE DEF flags
  <2> QED BY <1>1, <1>2, <1>3, <2>1
<1>4. CASE v # onBehalfOf
  BY <1>1, <1>2, <1>4 DEF SameIsolation
<1> QED BY <1>3, <1>4

LEMMA WithdrawFlags ==
  ASSUME PoolInv, PoolInv', Secured, NEW u \in Users, NEW a \in Assets, NEW amount \in Nat,
         Withdraw(u, a, amount)
  PROVE  IsolationKept
<1> SUFFICES ASSUME NEW v \in Users, borrowing[v] # {}
             PROVE  /\ usingAsCollateral'[v] # {}
                    /\ SameIsolation(usingAsCollateral[v], usingAsCollateral'[v])
  BY DEF IsolationKept
<1>1. NakedUnhealthy'
  BY NakedDebts, PTL
<1>2. /\ usingAsCollateral' = [usingAsCollateral EXCEPT ![u] =
           IF amount = aToken[a][u] THEN usingAsCollateral[u] \ {a} ELSE usingAsCollateral[u]]
      /\ borrowing' = borrowing
      /\ (a \in usingAsCollateral[u] /\ borrowing[u] # {}) => HealthyWithout(u, a, eMode[u])'
  BY DEF Withdraw
<1>3. /\ usingAsCollateral \in [Users -> SUBSET Assets] /\ usingAsCollateral[v] # {}
      /\ IsolatedIn(usingAsCollateral[v])
  BY FlagInvariants DEF Secured, PoolInv, TypeOK
<1>4. CASE usingAsCollateral'[v] = usingAsCollateral[v]
  BY <1>3, <1>4 DEF SameIsolation
<1>5. CASE usingAsCollateral'[v] # usingAsCollateral[v]
  <2>1. v = u /\ usingAsCollateral'[u] = usingAsCollateral[u] \ {a} /\ a \in usingAsCollateral[u]
    BY <1>2, <1>3, <1>5
  <2>2. usingAsCollateral'[u] # {}
    BY <1>1, <1>2, <2>1 DEF NakedUnhealthy
  <2>3. usingAsCollateral[u] \in SUBSET Assets /\ usingAsCollateral[u] \ {a} # {}
    BY <1>3, <2>1, <2>2
  <2>4. SameIsolation(usingAsCollateral[u], usingAsCollateral[u] \ {a})
    BY <1>3, <2>1, <2>3, FlagLost
  <2> QED BY <2>1, <2>2, <2>4
<1> QED BY <1>4, <1>5

LEMMA TransferFlags ==
  ASSUME PoolInv, PoolInv', Secured, NEW from \in Users, NEW to \in Users, NEW a \in Assets,
         NEW amount \in Nat, Transfer(from, to, a, amount)
  PROVE  IsolationKept
<1> SUFFICES ASSUME NEW v \in Users, borrowing[v] # {}
             PROVE  /\ usingAsCollateral'[v] # {}
                    /\ SameIsolation(usingAsCollateral[v], usingAsCollateral'[v])
  BY DEF IsolationKept
<1>1. NakedUnhealthy'
  BY NakedDebts, PTL
<1>2. /\ usingAsCollateral \in [Users -> SUBSET Assets] /\ usingAsCollateral[v] # {}
      /\ IsolatedIn(usingAsCollateral[v])
  BY FlagInvariants DEF Secured, PoolInv, TypeOK
<1>3. CASE usingAsCollateral'[v] = usingAsCollateral[v]
  BY <1>2, <1>3 DEF SameIsolation
<1>4. CASE usingAsCollateral'[v] # usingAsCollateral[v]
  <2> DEFINE flags == FlagsAfterReceipt({}, usingAsCollateral[to], a, aToken[a][to])
             left == IF amount = aToken[a][from]
                     THEN usingAsCollateral[from] \ {a} ELSE usingAsCollateral[from]
  <2>1. /\ from # to /\ amount # 0 /\ borrowing' = borrowing
        /\ usingAsCollateral' = [usingAsCollateral EXCEPT ![from] = left, ![to] = flags]
    BY <1>4 DEF Transfer
  <2>2. a \in usingAsCollateral[from] /\ borrowing[from] # {} => HealthyWithout(from, a, eMode[from])'
    BY <2>1 DEF Transfer
  <2>3. CASE v = to
    <3>1. flags # {} /\ SameIsolation(usingAsCollateral[v], flags)
      BY <1>2, <2>3, FlagReceived
    <3> HIDE DEF flags, left
    <3> QED BY <1>2, <2>1, <2>3, <3>1
  <2>4. CASE v # to
    <3>1. v = from /\ usingAsCollateral'[from] = left
      <4> HIDE DEF flags, left
      <4> QED BY <1>2, <1>4, <2>1, <2>4
    <3>2. left = usingAsCollateral[from] \ {a} /\ a \in usingAsCollateral[from]
      BY <1>4, <3>1
    <3> HIDE DEF left
    <3>3. usingAsCollateral'[from] # {}
      BY <1>1, <2>1, <2>2, <3>1, <3>2 DEF NakedUnhealthy
    <3> QED BY <1>2, <3>1, <3>2, <3>3, FlagLost
  <2> QED BY <2>3, <2>4
<1> QED BY <1>3, <1>4

LEMMA UseReserveFlags ==
  ASSUME PoolInv, PoolInv', Secured, NEW u \in Users, NEW a \in Assets, NEW use \in BOOLEAN,
         UseReserveAsCollateral(u, a, use)
  PROVE  IsolationKept
<1> SUFFICES ASSUME NEW v \in Users, borrowing[v] # {}
             PROVE  /\ usingAsCollateral'[v] # {}
                    /\ SameIsolation(usingAsCollateral[v], usingAsCollateral'[v])
  BY DEF IsolationKept
<1>1. NakedUnhealthy'
  BY NakedDebts, PTL
<1>2. /\ usingAsCollateral \in [Users -> SUBSET Assets] /\ usingAsCollateral[v] # {}
      /\ IsolatedIn(usingAsCollateral[v])
  BY FlagInvariants DEF Secured, PoolInv, TypeOK
<1>3. CASE v # u
  BY <1>2, <1>3 DEF UseReserveAsCollateral, SameIsolation
<1>4. CASE v = u /\ use
  <2>1. usingAsCollateral'[u] = usingAsCollateral[u] \cup {a} /\ MayUseAsCollateral(usingAsCollateral[u], a)
    BY <1>2, <1>4 DEF UseReserveAsCollateral
  <2> QED BY <1>2, <1>4, <2>1, FlagGained
<1>5. CASE v = u /\ ~ use
  <2>1. /\ usingAsCollateral'[u] = usingAsCollateral[u] \ {a} /\ borrowing' = borrowing
        /\ HealthyWithout(u, a, eMode[u])'
    BY <1>2, <1>5 DEF UseReserveAsCollateral
  <2>2. usingAsCollateral'[u] # {}
    BY <1>1, <1>5, <2>1 DEF NakedUnhealthy
  <2>3. usingAsCollateral[u] \in SUBSET Assets /\ usingAsCollateral[u] \ {a} # {}
    BY <1>2, <2>1, <2>2
  <2>4. SameIsolation(usingAsCollateral[u], usingAsCollateral[u] \ {a})
    BY <1>2, <1>5, <2>3, FlagLost
  <2> QED BY <1>5, <2>1, <2>2, <2>4
<1> QED BY <1>3, <1>4, <1>5

\* What a user without debts owes is nothing, in any units.
LEMMA OwesNothing ==
  ASSUME PoolInv, NEW u \in Users, borrowing[u] = {}
  PROVE  UnitsOwed(u) = 0
<1> DEFINE units == [d \in Assets |-> CeilingUnits(DebtOf(u, d))]
<1>1. ASSUME NEW d \in Assets PROVE units[d] = 0
  <2>1. DebtOf(u, d) = 0
    BY DEF PoolInv, BorrowingMatchesDebt
  <2>2. CEILING_UNIT \in Nat \ {0} /\ CEILING_UNIT * 0 = 0
    BY PoolAssumption
  <2>3. 0 \div CEILING_UNIT = 0
    BY <2>2, QuotientExact
  <2> QED BY <2>1, <2>3 DEF CeilingUnits
<1> HIDE DEF units
<1>2. SumOver(Assets, units) = 0
  BY <1>1, SumAllZero
<1> QED BY <1>2 DEF UnitsOwed, units

LEMMA UnitsOwedNat ==
  ASSUME TypeOK, NEW u \in Users
  PROVE  UnitsOwed(u) \in Nat
<1> DEFINE units == [d \in Assets |-> CeilingUnits(DebtOf(u, d))]
<1>1. \A d \in Assets : DebtOf(u, d) \in Nat
  BY DEF TypeOK, DebtOf
<1>2. \A d \in Assets : units[d] \in Nat
  BY <1>1, CeilingUnitsNat
<1>3. IsFiniteSet(Assets)
  BY PoolAssumption
<1> HIDE DEF units
<1>4. SumOver(Assets, units) \in Nat
  BY <1>2, <1>3, SumType
<1> QED BY <1>4 DEF UnitsOwed, units

LEMMA UnitsPrimedNat ==
  ASSUME TypeOK', NEW u \in Users
  PROVE  UnitsOwed(u)' \in Nat
<1> DEFINE units == [d \in Assets |-> CeilingUnits(DebtOf(u, d)')]
<1>1. \A d \in Assets : DebtOf(u, d)' \in Nat
  BY DEF TypeOK, DebtOf
<1>2. \A d \in Assets : units[d] \in Nat
  BY <1>1, CeilingUnitsNat
<1>3. IsFiniteSet(Assets)
  BY PoolAssumption
<1>4. UnitsOwed(u)' = SumOver(Assets, units)
  BY DEF UnitsOwed, CeilingUnits
<1> HIDE DEF units
<1> QED BY <1>2, <1>3, <1>4, SumType

\* The count stays right when only flags change, and those of debtors stay as
\* isolated as they were.
LEMMA FlagsCounted ==
  ASSUME PoolInv, TypeOK', Secured, IsolatedDebtCounted, IsolationKept,
         UNCHANGED <<stableDebt, variableDebt, borrowing, isolationModeTotalDebt>>
  PROVE  Secured' /\ IsolatedDebtCounted'
<1>1. Secured'
  BY DEF Secured, IsolationKept
<1>2. ASSUME NEW a \in Assets, Config[a].debtCeiling # 0
      PROVE  isolationModeTotalDebt'[a] =
               SumOver({u \in Users : a \in usingAsCollateral'[u]}, [u \in Users |-> UnitsOwed(u)'])
  <2> DEFINE before == {u \in Users : a \in usingAsCollateral[u]}
             after == {u \in Users : a \in usingAsCollateral'[u]}
             owed == [u \in Users |-> UnitsOwed(u)]
  <2>1. isolationModeTotalDebt'[a] = SumOver(before, owed)
    BY <1>2 DEF IsolatedDebtCounted
  <2>2. [u \in Users |-> UnitsOwed(u)'] = owed
    BY DEF UnitsOwed, DebtOf
  <2>3. IsFiniteSet(before) /\ IsFiniteSet(after)
    BY PoolAssumption, FS_Subset
  <2>4. \A u \in Users : owed[u] \in Nat
    BY UnitsOwedNat DEF PoolInv
  <2>5. ASSUME NEW u \in before \cup after, u \notin before \cap after PROVE owed[u] = 0
    <3>1. borrowing[u] = {}
      BY <1>2, <2>5 DEF IsolationKept, SameIsolation
    <3> QED BY <3>1, OwesNothing
  <2>6. before \cup after \subseteq Users
    OBVIOUS
  <2> HIDE DEF before, after, owed
  <2>7. SumOver(before, owed) = SumOver(after, owed)
    BY <2>3, <2>4, <2>5, <2>6, SumSameSupport
  <2> QED BY <2>1, <2>2, <2>7 DEF after
<1>3. IsolatedDebtCounted'
  BY <1>2 DEF IsolatedDebtCounted
<1> QED BY <1>1, <1>3

-----------------------------------------------------------------------------
(* ... when a debt changes *)

\* Crediting or debiting whole amounts leaves whole balances.
LEMMA WholeLedgers ==
  ASSUME NEW S, NEW f \in [Assets -> [S -> Nat]], \A b \in Assets, v \in S : f[b][v] \in WholeAmounts,
         NEW a \in Assets, NEW u \in S, NEW x \in WholeAmounts
  PROVE  /\ \A b \in Assets, v \in S : Credit(f, a, u, x)[b][v] \in WholeAmounts
         /\ x <= f[a][u] => \A b \in Assets, v \in S : Debit(f, a, u, x)[b][v] \in WholeAmounts
<1>1. f[a][u] + x \in WholeAmounts /\ (x <= f[a][u] => f[a][u] - x \in WholeAmounts)
  BY WholeSum, WholeDifference
<1> QED BY <1>1 DEF Credit, Debit

\* What a user owes changes by the units of the one debt that changes.
LEMMA OwedChanged ==
  ASSUME TypeOK, TypeOK', NEW u \in Users, NEW d \in Assets,
         \A v \in Users, b \in Assets : v # u \/ b # d => DebtOf(v, b)' = DebtOf(v, b)
  PROVE  /\ \A v \in Users \ {u} : UnitsOwed(v)' = UnitsOwed(v)
         /\ UnitsOwed(u)' + CeilingUnits(DebtOf(u, d)) = UnitsOwed(u) + CeilingUnits(DebtOf(u, d)')
<1> DEFINE units(v) == [b \in Assets |-> CeilingUnits(DebtOf(v, b))]
           unitsAfter(v) == [b \in Assets |-> CeilingUnits(DebtOf(v, b)')]
<1>1. \A v : UnitsOwed(v) = SumOver(Assets, units(v)) /\ UnitsOwed(v)' = SumOver(Assets, unitsAfter(v))
  BY DEF UnitsOwed, CeilingUnits
<1>2. IsFiniteSet(Assets)
  BY PoolAssumption
<1>3. ASSUME NEW b \in Assets
      PROVE  units(u)[b] \in Nat /\ unitsAfter(u)[b] \in Nat
  <2>1. DebtOf(u, b) \in Nat /\ DebtOf(u, b)' \in Nat
    BY DEF TypeOK, DebtOf
  <2> QED BY <2>1, CeilingUnitsNat
<1>4. \A b \in Assets \ {d} : unitsAfter(u)[b] = units(u)[b]
  OBVIOUS
<1>5. units(u)[d] = CeilingUnits(DebtOf(u, d)) /\ unitsAfter(u)[d] = CeilingUnits(DebtOf(u, d)')
  OBVIOUS
<1>6. \A v \in Users \ {u} : unitsAfter(v) = units(v)
  OBVIOUS
<1> HIDE DEF units, unitsAfter
<1>7. SumOver(Assets, unitsAfter(u)) + units(u)[d] = SumOver(Assets, units(u)) + unitsAfter(u)[d]
  BY <1>2, <1>3, <1>4, SumUpdate
<1> QED BY <1>1, <1>5, <1>6, <1>7

\* How the counted debt must move when u's debt in d does.
CountMoves(u, d) ==
  \A i \in Assets : Config[i].debtCeiling # 0 =>
    IF i \in usingAsCollateral[u]
    THEN isolationModeTotalDebt'[i] + CeilingUnits(DebtOf(u, d))
           = isolationModeTotalDebt[i] + CeilingUnits(DebtOf(u, d)')
    ELSE isolationModeTotalDebt'[i] = isolationModeTotalDebt[i]

LEMMA DebtCounted ==
  ASSUME TypeOK, TypeOK', IsolatedDebtCounted, NEW u \in Users, NEW d \in Assets,
         \A v \in Users, b \in Assets : v # u \/ b # d => DebtOf(v, b)' = DebtOf(v, b),
         usingAsCollateral' = usingAsCollateral, CountMoves(u, d)
  PROVE  IsolatedDebtCounted'
<1> SUFFICES ASSUME NEW i \in Assets, Config[i].debtCeiling # 0
             PROVE  isolationModeTotalDebt'[i] =
               SumOver({v \in Users : i \in usingAsCollateral[v]}, [v \in Users |-> UnitsOwed(v)'])
  BY DEF IsolatedDebtCounted
<1> DEFINE isolated == {v \in Users : i \in usingAsCollateral[v]}
           owed == [v \in Users |-> UnitsOwed(v)]
           owedAfter == [v \in Users |-> UnitsOwed(v)']
           units == CeilingUnits(DebtOf(u, d))
           unitsAfter == CeilingUnits(DebtOf(u, d)')
<1>1. isolationModeTotalDebt[i] = SumOver(isolated, owed)
  BY DEF IsolatedDebtCounted
<1>2. /\ \A v \in Users \ {u} : owedAfter[v] = owed[v]
      /\ owedAfter[u] + units = owed[u] + unitsAfter
  BY OwedChanged
<1>3. \A v \in Users : owed[v] \in Nat
  BY UnitsOwedNat
<1>4. \A v \in Users : owedAfter[v] \in Nat
  BY UnitsPrimedNat
<1>5. IsFiniteSet(isolated) /\ isolated \subseteq Users
  BY PoolAssumption, FS_Subset
<1>6. units \in Nat /\ unitsAfter \in Nat
  <2>1. DebtOf(u, d) \in Nat /\ DebtOf(u, d)' \in Nat
    BY DEF TypeOK, DebtOf
  <2> QED BY <2>1, CeilingUnitsNat
<1>7. isolationModeTotalDebt[i] \in Nat /\ isolationModeTotalDebt'[i] \in Nat
  BY DEF TypeOK
<1>8. CASE i \in usingAsCollateral[u]
  <2>1. isolationModeTotalDebt'[i] + units = isolationModeTotalDebt[i] + unitsAfter
    BY <1>8 DEF CountMoves
  <2>2. u \in isolated
    BY <1>8
  <2> HIDE DEF isolated, owed, owedAfter, units, unitsAfter
  <2>3. SumOver(isolated, owedAfter) + owed[u] = SumOver(isolated, owed) + owedAfter[u]
    BY <1>2, <1>3, <1>4, <1>5, <2>2, SumUpdate
  <2>4. SumOver(isolated, owedAfter) \in Nat /\ SumOver(isolated, owed) \in Nat
    BY <1>3, <1>4, <1>5, SumType
  <2>5. owed[u] \in Nat /\ owedAfter[u] \in Nat
    BY <1>3, <1>4
  <2>6. isolationModeTotalDebt'[i] = SumOver(isolated, owedAfter)
    BY <1>1, <1>2, <1>6, <1>7, <2>1, <2>3, <2>4, <2>5
  <2> QED BY <2>6 DEF isolated, owedAfter
<1>9. CASE i \notin usingAsCollateral[u]
  <2>1. isolationModeTotalDebt'[i] = isolationModeTotalDebt[i]
    BY <1>9 DEF CountMoves
  <2>2. u \notin isolated
    BY <1>9
  <2> HIDE DEF isolated, owed, owedAfter
  <2>3. SumOver(isolated, owed) = SumOver(isolated, owedAfter)
    BY <1>2, <1>5, <2>2, SumCongruence
  <2> QED BY <1>1, <2>1, <2>3 DEF isolated, owedAfter
<1> QED BY <1>8, <1>9

\* The isolated collateral in IsolatedDebtCounted and that of the code agree.
LEMMA IsolatingFlag ==
  ASSUME PoolInv, NEW u \in Users, NEW i \in Assets
  PROVE  i \in IsolatedCollateral(usingAsCollateral[u])
           <=> i \in usingAsCollateral[u] /\ Config[i].debtCeiling # 0
BY DEF PoolInv, IsolatedAlone, IsolatedCollateral

\* A debt is counted in full against its borrower's isolated collateral.
LEMMA CountIncludes ==
  ASSUME TypeOK, IsolatedDebtCounted, NEW i \in Assets, Config[i].debtCeiling # 0,
         NEW u \in Users, i \in usingAsCollateral[u], NEW d \in Assets
  PROVE  CeilingUnits(DebtOf(u, d)) <= isolationModeTotalDebt[i]
<1> DEFINE isolated == {v \in Users : i \in usingAsCollateral[v]}
           owed == [v \in Users |-> UnitsOwed(v)]
           units == [b \in Assets |-> CeilingUnits(DebtOf(u, b))]
<1>1. /\ isolationModeTotalDebt[i] = SumOver(isolated, owed)
      /\ owed[u] = SumOver(Assets, units)
      /\ units[d] = CeilingUnits(DebtOf(u, d))
  BY DEF IsolatedDebtCounted, UnitsOwed
<1>2. \A v \in isolated : owed[v] \in Nat
  BY UnitsOwedNat
<1>3. ASSUME NEW b \in Assets PROVE units[b] \in Nat
  <2>1. DebtOf(u, b) \in Nat
    BY DEF TypeOK, DebtOf
  <2> QED BY <2>1, CeilingUnitsNat
<1>4. u \in isolated /\ IsFiniteSet(isolated) /\ IsFiniteSet(Assets)
  BY PoolAssumption, FS_Subset
<1> HIDE DEF isolated, owed, units
<1>5. SumOver(isolated, owed) = owed[u] + SumOver(isolated \ {u}, owed) /\ SumOver(isolated \ {u}, owed) \in Nat
  BY <1>2, <1>4, SumSplit
<1>6. SumOver(Assets, units) = units[d] + SumOver(Assets \ {d}, units) /\ SumOver(Assets \ {d}, units) \in Nat
  BY <1>3, <1>4, SumSplit
<1>7. units[d] \in Nat /\ owed[u] \in Nat
  BY <1>2, <1>3, <1>4
<1> QED BY <1>1, <1>5, <1>6, <1>7

\* The debts stay whole amounts.
WholeDebts ==
  \A a \in Assets, u \in Users :
    stableDebt[a][u] \in WholeAmounts /\ variableDebt[a][u] \in WholeAmounts

LEMMA DebtWhole ==
  ASSUME WholeDebts, NEW u \in Users, NEW a \in Assets
  PROVE  DebtOf(u, a) \in WholeAmounts
BY WholeSum DEF WholeDebts, DebtOf

\* A new debt is secured and counted.
LEMMA AddDebtCounts ==
  ASSUME PoolInv, PoolInv', CountInv, NEW u \in Users, NEW a \in Assets,
         NEW amount \in WholeAmounts, NEW mode \in {Stable, Variable}, NEW cat \in Categories,
         AddDebt(u, a, amount, mode, cat)
  PROVE  WholeDebts' /\ Secured' /\ IsolatedDebtCounted'
<1>0. amount \in Nat /\ TypeOK /\ TypeOK'
  BY WholeAmount DEF PoolInv
<1>1. /\ DebtOf(u, a)' = DebtOf(u, a) + amount
      /\ \A v \in Users, b \in Assets : v # u \/ b # a => DebtOf(v, b)' = DebtOf(v, b)
  BY <1>0, AddDebtFacts
<1>2. WholeDebts /\ stableDebt \in [Assets -> [Users -> Nat]] /\ variableDebt \in [Assets -> [Users -> Nat]]
  BY <1>0 DEF CountInv, Whole, WholeDebts, TypeOK
<1>3. WholeDebts'
  <2>1. CASE mode = Stable
    <3>1. stableDebt' = Credit(stableDebt, a, u, amount) /\ variableDebt' = variableDebt
      BY <2>1 DEF AddDebt
    <3> QED BY <1>2, <3>1, WholeLedgers DEF WholeDebts
  <2>2. CASE mode # Stable
    <3>1. variableDebt' = Credit(variableDebt, a, u, amount) /\ stableDebt' = stableDebt
      BY <2>2 DEF AddDebt
    <3> QED BY <1>2, <3>1, WholeLedgers DEF WholeDebts
  <2> QED BY <2>1, <2>2
<1>4. /\ borrowing' = [borrowing EXCEPT ![u] = borrowing[u] \cup {a}]
      /\ usingAsCollateral' = usingAsCollateral
      /\ AccountData(u, cat).collateral # 0
      /\ isolationModeTotalDebt' =
           [i \in Assets |->
              IF i \in IsolatedCollateral(usingAsCollateral[u])
              THEN isolationModeTotalDebt[i] + CeilingUnits(amount)
              ELSE isolationModeTotalDebt[i]]
  BY DEF AddDebt, BorrowAllowed, CollateralCovers
<1>5. usingAsCollateral[u] # {}
  BY <1>4, NothingCounts
<1>6. Secured'
  BY <1>0, <1>4, <1>5 DEF Secured, CountInv, TypeOK
<1>7. CeilingUnits(DebtOf(u, a)') = CeilingUnits(DebtOf(u, a)) + CeilingUnits(amount)
  BY <1>1, <1>2, DebtWhole, WholeSum
<1>8. CountMoves(u, a)
  <2> SUFFICES ASSUME NEW i \in Assets, Config[i].debtCeiling # 0
               PROVE  IF i \in usingAsCollateral[u]
                      THEN isolationModeTotalDebt'[i] + CeilingUnits(DebtOf(u, a))
                             = isolationModeTotalDebt[i] + CeilingUnits(DebtOf(u, a)')
                      ELSE isolationModeTotalDebt'[i] = isolationModeTotalDebt[i]
    BY DEF CountMoves
  <2>1. i \in IsolatedCollateral(usingAsCollateral[u]) <=> i \in usingAsCollateral[u]
    BY IsolatingFlag
  <2>2. isolationModeTotalDebt'[i] = IF i \in usingAsCollateral[u]
                                     THEN isolationModeTotalDebt[i] + CeilingUnits(amount)
                                     ELSE isolationModeTotalDebt[i]
    BY <1>4, <2>1
  <2>3. /\ isolationModeTotalDebt[i] \in Nat /\ CeilingUnits(amount) \in Nat
        /\ CeilingUnits(DebtOf(u, a)) \in Nat
    BY <1>0, <1>2, WholeAmount, DebtWhole DEF TypeOK
  <2> QED BY <1>7, <2>2, <2>3
<1>9. IsolatedDebtCounted
  BY DEF CountInv
<1>10. IsolatedDebtCounted'
  BY <1>0, <1>1, <1>4, <1>8, <1>9, DebtCounted
<1> QED BY <1>3, <1>6, <1>10

\* A debt that is paid off is no longer counted.
LEMMA PayOffCounts ==
  ASSUME PoolInv, PoolInv', CountInv, NEW u \in Users, NEW a \in Assets,
         NEW paid \in WholeAmounts, paid # 0, NEW mode \in {Stable, Variable},
         paid <= DebtOfMode(u, a, mode), PayOff(u, a, paid, mode),
         usingAsCollateral' = usingAsCollateral
  PROVE  WholeDebts' /\ Secured' /\ IsolatedDebtCounted'
<1>0. paid \in Nat /\ TypeOK /\ TypeOK'
  BY WholeAmount DEF PoolInv
<1>1. /\ paid <= DebtOf(u, a)
      /\ DebtOf(u, a)' = DebtOf(u, a) - paid
      /\ \A v \in Users, b \in Assets : v # u \/ b # a => DebtOf(v, b)' = DebtOf(v, b)
  BY <1>0, PayOffFacts
<1>2. WholeDebts /\ stableDebt \in [Assets -> [Users -> Nat]] /\ variableDebt \in [Assets -> [Users -> Nat]]
  BY <1>0 DEF CountInv, Whole, WholeDebts, TypeOK
<1>3. WholeDebts'
  <2>1. CASE mode = Stable
    <3>1. /\ stableDebt' = Debit(stableDebt, a, u, paid) /\ variableDebt' = variableDebt
          /\ paid <= stableDebt[a][u]
      BY <2>1 DEF PayOff, DebtOfMode
    <3> QED BY <1>2, <3>1, WholeLedgers DEF WholeDebts
  <2>2. CASE mode # Stable
    <3>1. /\ variableDebt' = Debit(variableDebt, a, u, paid) /\ stableDebt' = stableDebt
          /\ paid <= variableDebt[a][u]
      BY <2>2 DEF PayOff, DebtOfMode
    <3> QED BY <1>2, <3>1, WholeLedgers DEF WholeDebts
  <2> QED BY <2>1, <2>2
<1>4. /\ borrowing' = [borrowing EXCEPT ![u] = BorrowingAfter(u, a, paid)]
      /\ isolationModeTotalDebt' = IsolatedDebtAfterRepay(usingAsCollateral[u], paid)
  BY DEF PayOff
<1>5. \A v \in Users : borrowing'[v] \subseteq borrowing[v]
  <2>1. BorrowingAfter(u, a, paid) \subseteq borrowing[u]
    BY DEF BorrowingAfter
  <2> QED BY <1>0, <1>4, <2>1 DEF TypeOK
<1>6. Secured'
  BY <1>5 DEF Secured, CountInv
<1>7. /\ CeilingUnits(paid) <= CeilingUnits(DebtOf(u, a))
      /\ CeilingUnits(DebtOf(u, a)') = CeilingUnits(DebtOf(u, a)) - CeilingUnits(paid)
  BY <1>1, <1>2, DebtWhole, WholeDifference
<1>8. CountMoves(u, a)
  <2> SUFFICES ASSUME NEW i \in Assets, Config[i].debtCeiling # 0
               PROVE  IF i \in usingAsCollateral[u]
                      THEN isolationModeTotalDebt'[i] + CeilingUnits(DebtOf(u, a))
                             = isolationModeTotalDebt[i] + CeilingUnits(DebtOf(u, a)')
                      ELSE isolationModeTotalDebt'[i] = isolationModeTotalDebt[i]
    BY DEF CountMoves
  <2>1. i \in IsolatedCollateral(usingAsCollateral[u]) <=> i \in usingAsCollateral[u]
    BY IsolatingFlag
  <2>2. /\ isolationModeTotalDebt[i] \in Nat /\ CeilingUnits(paid) \in Nat
        /\ CeilingUnits(DebtOf(u, a)) \in Nat
    BY <1>0, <1>2, WholeAmount, DebtWhole DEF TypeOK
  <2>3. CASE i \in usingAsCollateral[u]
    <3>1. CeilingUnits(DebtOf(u, a)) <= isolationModeTotalDebt[i]
      BY <1>0, <2>3, CountIncludes DEF CountInv
    <3>2. isolationModeTotalDebt'[i] = IF isolationModeTotalDebt[i] <= CeilingUnits(paid) THEN 0
                                       ELSE isolationModeTotalDebt[i] - CeilingUnits(paid)
      BY <1>4, <2>1, <2>3 DEF IsolatedDebtAfterRepay
    <3>3. isolationModeTotalDebt'[i] = isolationModeTotalDebt[i] - CeilingUnits(paid)
      BY <1>7, <2>2, <3>1, <3>2
    <3> QED BY <1>7, <2>2, <2>3, <3>3
  <2>4. CASE i \notin usingAsCollateral[u]
    BY <1>4, <2>1, <2>4 DEF IsolatedDebtAfterRepay
  <2> QED BY <2>3, <2>4
<1>9. IsolatedDebtCounted
  BY DEF CountInv
<1>10. IsolatedDebtCounted'
  BY <1>0, <1>1, <1>8, <1>9, DebtCounted
<1> QED BY <1>3, <1>6, <1>10

-----------------------------------------------------------------------------
(* ... step by step *)

WholeHoldings == \A a \in Assets, h \in Holders : aToken[a][h] \in WholeAmounts
WholeFlash == \A f \in flash : f.amount \in WholeAmounts

LEMMA WholeParts == Whole <=> WholeHoldings /\ WholeDebts /\ WholeFlash
BY DEF Whole, WholeHoldings, WholeDebts, WholeFlash

LEMMA WholePartsPrimed == Whole' <=> WholeHoldings' /\ WholeDebts' /\ WholeFlash'
BY DEF Whole, WholeHoldings, WholeDebts, WholeFlash

\* Calls that change no debt: what they move is whole, and flags are kept.
LEMMA FlagCall ==
  ASSUME PoolInv, PoolInv', CountInv, IsolationKept, WholeHoldings', WholeFlash',
         UNCHANGED <<stableDebt, variableDebt, borrowing, isolationModeTotalDebt>>
  PROVE  CountInv'
<1>1. WholeDebts'
  BY WholeParts DEF CountInv, WholeDebts
<1>2. Secured' /\ IsolatedDebtCounted'
  BY FlagsCounted DEF CountInv, PoolInv
<1> QED BY <1>1, <1>2, WholePartsPrimed DEF CountInv

LEMMA SupplyCounts ==
  ASSUME PoolInv, PoolInv', CountInv, NEW u \in Users, NEW onBehalfOf \in Users, NEW a \in Assets,
         NEW amount \in WholeAmounts, Supply(u, onBehalfOf, a, amount)
  PROVE  CountInv'
<1>1. amount \in Nat /\ onBehalfOf \in Holders /\ aToken \in [Assets -> [Holders -> Nat]]
  BY WholeAmount DEF Holders, PoolInv, TypeOK
<1>2. aToken' = Credit(aToken, a, onBehalfOf, amount) /\ flash' = flash
      /\ UNCHANGED <<stableDebt, variableDebt, borrowing, isolationModeTotalDebt>>
  BY DEF Supply
<1>3. WholeHoldings' /\ WholeFlash'
  BY <1>1, <1>2, WholeLedgers, WholeParts DEF CountInv, WholeHoldings, WholeFlash
<1>4. IsolationKept
  BY <1>1, SupplyFlags DEF CountInv
<1> QED BY <1>2, <1>3, <1>4, FlagCall

LEMMA WithdrawCounts ==
  ASSUME PoolInv, PoolInv', CountInv, NEW u \in Users, NEW a \in Assets,
         NEW amount \in WholeAmounts, Withdraw(u, a, amount)
  PROVE  CountInv'
<1>1. amount \in Nat /\ u \in Holders /\ aToken \in [Assets -> [Holders -> Nat]]
  BY WholeAmount DEF Holders, PoolInv, TypeOK
<1>2. aToken' = Debit(aToken, a, u, amount) /\ amount <= aToken[a][u] /\ flash' = flash
      /\ UNCHANGED <<stableDebt, variableDebt, borrowing, isolationModeTotalDebt>>
  BY DEF Withdraw
<1>3. WholeHoldings' /\ WholeFlash'
  BY <1>1, <1>2, WholeLedgers, WholeParts DEF CountInv, WholeHoldings, WholeFlash
<1>4. IsolationKept
  BY <1>1, WithdrawFlags DEF CountInv
<1> QED BY <1>2, <1>3, <1>4, FlagCall

LEMMA TransferCounts ==
  ASSUME PoolInv, PoolInv', CountInv, NEW from \in Users, NEW to \in Users, NEW a \in Assets,
         NEW amount \in WholeAmounts, Transfer(from, to, a, amount)
  PROVE  CountInv'
<1>1. /\ amount \in Nat /\ from \in Holders /\ to \in Holders
      /\ aToken \in [Assets -> [Holders -> Nat]]
  BY WholeAmount DEF Holders, PoolInv, TypeOK
<1>2. /\ amount <= aToken[a][from] /\ flash' = flash
      /\ aToken' = aToken \/ aToken' = Credit(Debit(aToken, a, from, amount), a, to, amount)
      /\ UNCHANGED <<stableDebt, variableDebt, borrowing, isolationModeTotalDebt>>
  BY DEF Transfer
<1>3. WholeHoldings
  BY WholeParts DEF CountInv
<1>4. WholeHoldings'
  <2> DEFINE taken == Debit(aToken, a, from, amount)
  <2>1. taken \in [Assets -> [Holders -> Nat]]
    BY <1>1, <1>2, HoldersFinite, DebitFacts
  <2>2. \A b \in Assets, h \in Holders : taken[b][h] \in WholeAmounts
    BY <1>1, <1>2, <1>3, WholeLedgers DEF WholeHoldings
  <2> HIDE DEF taken
  <2>3. \A b \in Assets, h \in Holders : Credit(taken, a, to, amount)[b][h] \in WholeAmounts
    BY <1>1, <2>1, <2>2, WholeLedgers
  <2> QED BY <1>2, <1>3, <2>3 DEF WholeHoldings, taken
<1>5. WholeFlash'
  BY <1>2, WholeParts DEF CountInv, WholeFlash
<1>6. IsolationKept
  BY <1>1, TransferFlags DEF CountInv
<1> QED BY <1>2, <1>4, <1>5, <1>6, FlagCall

LEMMA UseReserveCounts ==
  ASSUME PoolInv, PoolInv', CountInv, NEW u \in Users, NEW a \in Assets, NEW use \in BOOLEAN,
         UseReserveAsCollateral(u, a, use)
  PROVE  CountInv'
<1>1. UNCHANGED <<aToken, stableDebt, variableDebt, borrowing, isolationModeTotalDebt, flash>>
  BY DEF UseReserveAsCollateral, tokenVars
<1>2. WholeHoldings' /\ WholeFlash'
  BY <1>1, WholeParts DEF CountInv, WholeHoldings, WholeFlash
<1>3. IsolationKept
  BY UseReserveFlags DEF CountInv
<1> QED BY <1>1, <1>2, <1>3, FlagCall

LEMMA BorrowCounts ==
  ASSUME PoolInv, PoolInv', CountInv, NEW u \in Users, NEW a \in Assets,
         NEW amount \in WholeAmounts, NEW mode \in {Stable, Variable}, Borrow(u, a, amount, mode)
  PROVE  CountInv'
<1>1. AddDebt(u, a, amount, mode, eMode[u]) /\ eMode[u] \in Categories
  BY DEF Borrow, PoolInv, TypeOK
<1>2. aToken' = aToken /\ flash' = flash
  BY DEF Borrow, AddDebt
<1>3. WholeHoldings' /\ WholeFlash'
  BY <1>2, WholeParts DEF CountInv, WholeHoldings, WholeFlash
<1>4. WholeDebts' /\ Secured' /\ IsolatedDebtCounted'
  BY <1>1, AddDebtCounts
<1> QED BY <1>3, <1>4, WholePartsPrimed DEF CountInv

LEMMA RepayCounts ==
  ASSUME PoolInv, PoolInv', CountInv, NEW onBehalfOf \in Users, NEW a \in Assets,
         NEW mode \in {Stable, Variable},
         NEW amount \in WholeAmounts, Repay(onBehalfOf, a, amount, mode)
  PROVE  CountInv'
<1> DEFINE owed == DebtOfMode(onBehalfOf, a, mode)
           paid == IF amount < owed THEN amount ELSE owed
<1>1. owed \in WholeAmounts /\ owed # 0 /\ amount # 0
  BY DEF Repay, DebtOfMode, CountInv, Whole
<1>2. amount \in Nat /\ owed \in Nat
  BY <1>1, WholeAmount
<1>3. /\ PayOff(onBehalfOf, a, paid, mode)
      /\ UNCHANGED <<aToken, usingAsCollateral, flash>>
  BY DEF Repay
<1>4. paid \in WholeAmounts /\ paid # 0 /\ paid <= DebtOfMode(onBehalfOf, a, mode)
  BY <1>1, <1>2
<1> HIDE DEF paid, owed
<1>5. WholeDebts' /\ Secured' /\ IsolatedDebtCounted'
  BY <1>3, <1>4, PayOffCounts
<1>6. WholeHoldings' /\ WholeFlash'
  BY <1>3, WholeParts DEF CountInv, WholeHoldings, WholeFlash
<1> QED BY <1>5, <1>6, WholePartsPrimed DEF CountInv

LEMMA RepayWithATokensCounts ==
  ASSUME PoolInv, PoolInv', CountInv, NEW u \in Users, NEW a \in Assets,
         NEW mode \in {Stable, Variable},
         NEW amount \in WholeAmounts, RepayWithATokens(u, a, amount, mode)
  PROVE  CountInv'
<1> DEFINE owed == DebtOfMode(u, a, mode)
           paid == IF amount < owed THEN amount ELSE owed
<1>1. owed \in WholeAmounts /\ owed # 0 /\ amount # 0
  BY DEF RepayWithATokens, DebtOfMode, CountInv, Whole
<1>2. amount \in Nat /\ owed \in Nat
  BY <1>1, WholeAmount
<1>3. /\ PayOff(u, a, paid, mode)
      /\ paid <= aToken[a][u] /\ aToken' = Debit(aToken, a, u, paid)
      /\ UNCHANGED <<usingAsCollateral, flash>>
  BY DEF RepayWithATokens
<1>4. paid \in WholeAmounts /\ paid # 0 /\ paid <= DebtOfMode(u, a, mode)
  BY <1>1, <1>2
<1> HIDE DEF paid, owed
<1>5. WholeDebts' /\ Secured' /\ IsolatedDebtCounted'
  BY <1>3, <1>4, PayOffCounts
<1>6. u \in Holders /\ aToken \in [Assets -> [Holders -> Nat]]
  BY DEF Holders, PoolInv, TypeOK
<1>7. WholeHoldings' /\ WholeFlash'
  BY <1>3, <1>4, <1>6, WholeLedgers, WholeParts DEF CountInv, WholeHoldings, WholeFlash
<1> QED BY <1>5, <1>7, WholePartsPrimed DEF CountInv

LEMMA SwapBorrowRateModeCounts ==
  ASSUME PoolInv, PoolInv', CountInv, NEW u \in Users, NEW a \in Assets,
         NEW mode \in {Stable, Variable}, SwapBorrowRateMode(u, a, mode)
  PROVE  CountInv'
<1>0. TypeOK /\ TypeOK' /\ WholeDebts /\ IsolatedDebtCounted
  BY WholeParts DEF PoolInv, CountInv
<1> DEFINE debt == DebtOf(u, a)
           stable == IF mode = Stable THEN 0 ELSE debt
           variable == IF mode = Stable THEN debt ELSE 0
<1>1. /\ stableDebt' = [stableDebt EXCEPT ![a] = [stableDebt[a] EXCEPT ![u] = stable]]
      /\ variableDebt' = [variableDebt EXCEPT ![a] = [variableDebt[a] EXCEPT ![u] = variable]]
      /\ UNCHANGED <<aToken, isolationModeTotalDebt, usingAsCollateral, borrowing, flash>>
  BY DEF SwapBorrowRateMode, flagVars
<1>2. /\ debt \in WholeAmounts /\ 0 \in WholeAmounts
  <2>1. CEILING_UNIT * 0 = 0
    BY PoolAssumption
  <2> QED BY <1>0, <2>1, DebtWhole DEF WholeAmounts
<1>3. debt \in Nat /\ stable + variable = debt
  BY <1>2, WholeAmount
<1>4. stable \in WholeAmounts /\ variable \in WholeAmounts
  BY <1>2
<1> HIDE DEF debt, stable, variable
<1>5. WholeDebts'
  BY <1>0, <1>1, <1>4 DEF WholeDebts, TypeOK
<1>6. /\ \A v \in Users, b \in Assets : v # u \/ b # a => DebtOf(v, b)' = DebtOf(v, b)
      /\ DebtOf(u, a)' = debt
  BY <1>0, <1>1, <1>3 DEF DebtOf, TypeOK
<1>7. CountMoves(u, a)
  BY <1>1, <1>6 DEF CountMoves, debt
<1>8. IsolatedDebtCounted'
  BY <1>0, <1>1, <1>6, <1>7, DebtCounted
<1>9. WholeHoldings' /\ WholeFlash' /\ Secured'
  BY <1>1, WholeParts DEF CountInv, WholeHoldings, WholeFlash, Secured
<1> QED BY <1>5, <1>8, <1>9, WholePartsPrimed DEF CountInv

LEMMA FlashLoanCounts ==
  ASSUME PoolInv, PoolInv', CountInv, NEW u, NEW a, NEW amount \in WholeAmounts, NEW mode,
         FlashLoan(u, a, amount, mode)
  PROVE  CountInv'
<1>1. /\ UNCHANGED <<aToken, stableDebt, variableDebt, usingAsCollateral, borrowing,
                     isolationModeTotalDebt>>
      /\ \A f \in flash' : f.amount = amount
  BY DEF FlashLoan, flagVars
<1>2. WholeHoldings' /\ WholeFlash'
  BY <1>1, WholeParts DEF CountInv, WholeHoldings, WholeFlash
<1>3. IsolationKept
  BY <1>1 DEF CountInv, Secured, IsolationKept, SameIsolation
<1> QED BY <1>1, <1>2, <1>3, FlagCall

LEMMA FlashLoanEndCounts ==
  ASSUME PoolInv, PoolInv', CountInv, FlashLoanEnd
  PROVE  CountInv'
<1>1. PICK f \in flash :
        /\ flash' = {}
        /\ \/ /\ f.mode = "none"
              /\ UNCHANGED <<aToken, stableDebt, variableDebt, flagVars, isolationModeTotalDebt>>
           \/ /\ f.mode \in Modes
              /\ AddDebt(f.user, f.asset, f.amount, f.mode, f.eMode)
  BY DEF FlashLoanEnd
<1>2. /\ f.user \in Users /\ f.asset \in Assets /\ f.amount \in WholeAmounts
      /\ f.eMode \in Categories /\ (f.mode \in Modes => f.mode \in {Stable, Variable})
  BY PoolAssumption DEF PoolInv, TypeOK, CountInv, Whole
<1>3. WholeFlash'
  BY <1>1 DEF WholeFlash
<1>4. CASE UNCHANGED <<aToken, stableDebt, variableDebt, flagVars, isolationModeTotalDebt>>
  <2>1. WholeHoldings'
    BY <1>4, WholeParts DEF CountInv, WholeHoldings
  <2>2. IsolationKept
    BY <1>4 DEF CountInv, Secured, IsolationKept, SameIsolation, flagVars
  <2> QED BY <1>3, <1>4, <2>1, <2>2, FlagCall DEF flagVars
<1>5. CASE f.mode \in Modes /\ AddDebt(f.user, f.asset, f.amount, f.mode, f.eMode)
  <2>1. WholeDebts' /\ Secured' /\ IsolatedDebtCounted'
    BY <1>2, <1>5, AddDebtCounts
  <2>2. aToken' = aToken
    BY <1>5 DEF AddDebt
  <2>3. WholeHoldings'
    BY <2>2, WholeParts DEF CountInv, WholeHoldings
  <2> QED BY <1>3, <2>1, <2>3, WholePartsPrimed DEF CountInv
<1> QED BY <1>1, <1>4, <1>5

\* Calls that change no balance and no flag count nothing.
LEMMA QuietCounts ==
  ASSUME PoolInv, PoolInv', CountInv,
         UNCHANGED <<tokenVars, usingAsCollateral, borrowing, isolationModeTotalDebt, flash>>
  PROVE  CountInv'
<1>1. WholeHoldings' /\ WholeFlash'
  BY WholeParts DEF CountInv, WholeHoldings, WholeFlash, tokenVars
<1>2. IsolationKept
  BY DEF CountInv, Secured, IsolationKept, SameIsolation
<1> QED BY <1>1, <1>2, FlagCall DEF tokenVars

LEMMA CountStep ==
  ASSUME CoverAmounts = {}, Amounts \cup FlashAmounts \subseteq WholeAmounts,
         PoolInv, PoolInv', CountInv, [Next]_vars
  PROVE  CountInv'
<1>1. Modes \subseteq {Stable, Variable}
  BY PoolAssumption
<1>2. /\ \A u \in Users, a \in Assets : Amounts \cup {aToken[a][u]} \subseteq WholeAmounts
      /\ \A u \in Users, a \in Assets, m \in Modes :
           Amounts \cup {DebtOfMode(u, a, m)} \subseteq WholeAmounts
  BY DEF CountInv, Whole, Holders, DebtOfMode
<1>3. CASE UNCHANGED vars \/ \E u \in Users, cat \in Categories : SetUserEMode(u, cat)
  <2>1. UNCHANGED <<tokenVars, usingAsCollateral, borrowing, isolationModeTotalDebt, flash>>
    BY <1>3 DEF vars, flagVars, SetUserEMode
  <2> QED BY <2>1, QuietCounts
<1>4. CASE \E u, v \in Users, a \in Assets, x \in Amounts : Supply(u, v, a, x)
  BY <1>4, SupplyCounts
<1>5. CASE \E u \in Users, a \in Assets : \E x \in Amounts \cup {aToken[a][u]} : Withdraw(u, a, x)
  BY <1>2, <1>5, WithdrawCounts
<1>6. CASE \E u, v \in Users, a \in Assets :
             \E x \in Amounts \cup {aToken[a][u]} : Transfer(u, v, a, x)
  BY <1>2, <1>6, TransferCounts
<1>7. CASE \E u \in Users, a \in Assets, use \in BOOLEAN : UseReserveAsCollateral(u, a, use)
  BY <1>7, UseReserveCounts
<1>8. CASE \E u \in Users, a \in Assets, x \in Amounts, m \in Modes : Borrow(u, a, x, m)
  BY <1>1, <1>8, BorrowCounts
<1>9. CASE \E u \in Users, a \in Assets, m \in Modes :
             \E x \in Amounts \cup {DebtOfMode(u, a, m)} : Repay(u, a, x, m)
  BY <1>1, <1>2, <1>9, RepayCounts
<1>10. CASE \E u \in Users, a \in Assets, m \in Modes :
              \E x \in Amounts \cup {aToken[a][u]} : RepayWithATokens(u, a, x, m)
  BY <1>1, <1>2, <1>10, RepayWithATokensCounts
<1>11. CASE \E u \in Users, a \in Assets, m \in Modes : SwapBorrowRateMode(u, a, m)
  BY <1>1, <1>11, SwapBorrowRateModeCounts
<1>12. CASE \E u \in Users, a \in Assets, x \in FlashAmounts, m \in Modes \cup {"none"} :
              FlashLoan(u, a, x, m)
  BY <1>12, FlashLoanCounts
<1>13. CASE FlashLoanEnd
  BY <1>13, FlashLoanEndCounts
<1>14. CASE \/ \E m \in PriceMoves : SetPrice(m[1], m[2])
            \/ \E m \in StatusMoves : SetStatus(m[1], m[2])
            \/ \E up \in SequencerMoves : SetSequencer(up)
  <2>1. UNCHANGED <<tokenVars, usingAsCollateral, borrowing, isolationModeTotalDebt, flash>>
    BY <1>14 DEF flagVars, SetPrice, SetStatus, SetSequencer
  <2> QED BY <2>1, QuietCounts
<1>15. ~ \E l, u \in Users, c, d \in Assets, x \in CoverAmounts, r \in BOOLEAN :
            LiquidationCall(l, u, c, d, x, r)
  OBVIOUS
<1> QED BY <1>3, <1>4, <1>5, <1>6, <1>7, <1>8, <1>9, <1>10, <1>11, <1>12, <1>13, <1>14,
           <1>15 DEF Next

LEMMA InitCounts == Init => CountInv
<1> SUFFICES ASSUME Init PROVE CountInv
  OBVIOUS
<1>1. PoolInv
  BY InitInv
<1>2. /\ \A a \in Assets, h \in Holders : aToken[a][h] = 0
      /\ \A a \in Assets, u \in Users : stableDebt[a][u] = 0 /\ variableDebt[a][u] = 0
      /\ \A u \in Users : borrowing[u] = {}
      /\ \A u \in Users : usingAsCollateral[u] = {}
      /\ \A a \in Assets : isolationModeTotalDebt[a] = 0
      /\ flash = {}
  BY DEF Init
<1>3. 0 \in WholeAmounts
  <2>1. CEILING_UNIT * 0 = 0
    BY PoolAssumption
  <2> QED BY <2>1 DEF WholeAmounts
<1>4. Whole /\ Secured
  BY <1>2, <1>3 DEF Whole, Secured
<1>5. IsolatedDebtCounted
  <2> SUFFICES ASSUME NEW a \in Assets
               PROVE  isolationModeTotalDebt[a] =
                 SumOver({u \in Users : a \in usingAsCollateral[u]}, [u \in Users |-> UnitsOwed(u)])
    BY DEF IsolatedDebtCounted
  <2>1. {u \in Users : a \in usingAsCollateral[u]} = {}
    BY <1>2
  <2> QED BY <1>2, <2>1, SumEmpty
<1> QED BY <1>4, <1>5 DEF CountInv

\* As long as nobody is liquidated and amounts are whole ceiling units, the debt
\* counted against an isolated collateral is exactly what the users that it
\* isolates owe: however collateral is supplied, moved, flagged and unflagged,
\* and however debts are opened, swapped and repaid, inside flash loans too.
THEOREM PoolIsolatedDebtCounted ==
  ASSUME CoverAmounts = {}, Amounts \cup FlashAmounts \subseteq WholeAmounts
  PROVE  Spec => []IsolatedDebtCounted
<1>1. Spec => []PoolInv
  BY PoolCorrect
<1>2. CountInv /\ PoolInv /\ PoolInv' /\ [Next]_vars => CountInv'
  BY CountStep
<1>3. CountInv => IsolatedDebtCounted
  BY DEF CountInv
<1> QED BY <1>1, <1>2, <1>3, InitCounts, PTL DEF Spec
=============================================================================
