------------------------ MODULE PacPoolWrapperProofs ------------------------
(***************************************************************************)
(* Proofs about the wrapper: between transactions it keeps nothing and owes *)
(* nothing, in a transaction only its sender comes to owe, the pool's       *)
(* invariants hold whatever is called through it or reverted, and what is   *)
(* seen between transactions is what WrapperPromise promises.               *)
(***************************************************************************)
EXTENDS PacPoolWrapper, LendingPoolProofs

-----------------------------------------------------------------------------
(* Coins *)

Wallets == [Coins -> [Users -> Nat]]

\* Only the purse of u in one coin differs, by the amount given.
Differs(before, after, coin, u, x) ==
  /\ after[coin][u] = before[coin][u] + x
  /\ \A c \in Coins, v \in Users : c # coin \/ v # u => after[c][v] = before[c][v]

LEMMA ReceiveFacts ==
  ASSUME NEW purses \in Wallets, NEW coin \in Coins, NEW u \in Users, NEW x \in Nat
  PROVE  /\ Receive(purses, coin, u, x) \in Wallets
         /\ Differs(purses, Receive(purses, coin, u, x), coin, u, x)
<1> DEFINE purse == [purses[coin] EXCEPT ![u] = purses[coin][u] + x]
<1>1. /\ purses[coin] \in [Users -> Nat] /\ purses[coin][u] \in Nat
      /\ \A c \in Coins : purses[c] \in [Users -> Nat]
  BY DEF Wallets
<1>2. /\ purse \in [Users -> Nat] /\ purse[u] = purses[coin][u] + x
      /\ \A v \in Users : v # u => purse[v] = purses[coin][v]
  BY <1>1
<1>3. Receive(purses, coin, u, x) = [purses EXCEPT ![coin] = purse]
  BY DEF Receive
<1> HIDE DEF purse
<1> QED BY <1>1, <1>2, <1>3 DEF Wallets, Differs

LEMMA PayFacts ==
  ASSUME NEW purses \in Wallets, NEW coin \in Coins, NEW u \in Users, NEW x \in Nat,
         x <= purses[coin][u]
  PROVE  /\ Pay(purses, coin, u, x) \in Wallets
         /\ Differs(purses, Pay(purses, coin, u, x), coin, u, -x)
<1> DEFINE purse == [purses[coin] EXCEPT ![u] = purses[coin][u] - x]
<1>1. /\ purses[coin] \in [Users -> Nat] /\ purses[coin][u] \in Nat
      /\ \A c \in Coins : purses[c] \in [Users -> Nat]
  BY DEF Wallets
<1>2. /\ purse \in [Users -> Nat] /\ purse[u] = purses[coin][u] + (-x)
      /\ \A v \in Users : v # u => purse[v] = purses[coin][v]
  BY <1>1
<1>3. Pay(purses, coin, u, x) = [purses EXCEPT ![coin] = purse]
  BY DEF Pay
<1> HIDE DEF purse
<1> QED BY <1>1, <1>2, <1>3 DEF Wallets, Differs

\* What the wrapper holds of a coin.
Held(purses, coin) == purses[coin][Wrapper]

\* The wrapper holds x more of a coin and the same of the others.
HoldsMore(before, after, coin, x) ==
  /\ Held(after, coin) = Held(before, coin) + x
  /\ \A c \in Coins \ {coin} : Held(after, c) = Held(before, c)

HoldsSame(before, after) == \A c \in Coins : Held(after, c) = Held(before, c)

LEMMA WrapperReceives ==
  ASSUME NEW purses \in Wallets, NEW coin \in Coins, NEW x \in Nat
  PROVE  /\ Receive(purses, coin, Wrapper, x) \in Wallets
         /\ HoldsMore(purses, Receive(purses, coin, Wrapper, x), coin, x)
BY ReceiveFacts, WrapperAssumption DEF Differs, HoldsMore, Held

LEMMA WrapperPays ==
  ASSUME NEW purses \in Wallets, NEW coin \in Coins, NEW x \in Nat, x <= Held(purses, coin)
  PROVE  /\ Pay(purses, coin, Wrapper, x) \in Wallets
         /\ HoldsMore(purses, Pay(purses, coin, Wrapper, x), coin, -x)
BY PayFacts, WrapperAssumption DEF Differs, HoldsMore, Held

LEMMA OthersReceive ==
  ASSUME NEW purses \in Wallets, NEW coin \in Coins, NEW u \in Senders, NEW x \in Nat
  PROVE  /\ Receive(purses, coin, u, x) \in Wallets
         /\ HoldsSame(purses, Receive(purses, coin, u, x))
<1>1. u \in Users /\ u # Wrapper /\ Wrapper \in Users
  BY WrapperAssumption DEF Senders
<1> QED BY <1>1, ReceiveFacts DEF Differs, HoldsSame, Held

LEMMA OthersPay ==
  ASSUME NEW purses \in Wallets, NEW coin \in Coins, NEW u \in Senders, NEW x \in Nat,
         x <= purses[coin][u]
  PROVE  /\ Pay(purses, coin, u, x) \in Wallets
         /\ HoldsSame(purses, Pay(purses, coin, u, x))
<1>1. u \in Users /\ u # Wrapper /\ Wrapper \in Users
  BY WrapperAssumption DEF Senders
<1> QED BY <1>1, PayFacts DEF Differs, HoldsSame, Held

LEMMA CoinTypes ==
  /\ WETH \in Coins /\ ETH \in Coins /\ WETH # ETH
  /\ \A a \in Assets : a \in Coins
  /\ \A coin \in Coins : AssetOf(coin) \in Assets /\ AssetOf(coin) \in Coins
  /\ \A coin \in Coins : coin # ETH => AssetOf(coin) = coin
  /\ AssetOf(ETH) = WETH
BY WrapperAssumption DEF Coins, AssetOf

\* What a user pays in, the wrapper has as the token.
LEMMA PaidInFacts ==
  ASSUME NEW purses \in Wallets, NEW coin \in Coins, NEW u \in Senders, NEW x \in Nat,
         x <= purses[coin][u]
  PROVE  /\ PaidIn(purses, coin, u, x) \in Wallets
         /\ HoldsMore(purses, PaidIn(purses, coin, u, x), AssetOf(coin), x)
<1> DEFINE p1 == Pay(purses, coin, u, x)
           p2 == Receive(p1, coin, Wrapper, x)
           p3 == Pay(p2, ETH, Wrapper, x)
           p4 == Receive(p3, WETH, Wrapper, x)
<1>1. p1 \in Wallets /\ HoldsSame(purses, p1)
  BY OthersPay
<1>2. p2 \in Wallets /\ HoldsMore(p1, p2, coin, x)
  <2> HIDE DEF p1
  <2> QED BY <1>1, WrapperReceives
<1>3. PaidIn(purses, coin, u, x) = IF coin = ETH THEN p4 ELSE p2
  BY DEF PaidIn, Send, Wrap
<1>4. CASE coin = ETH
  <2>1. x <= Held(p2, ETH)
    <3> HIDE DEF p1, p2
    <3>1. Held(p1, ETH) \in Nat /\ Held(p2, ETH) = Held(p1, ETH) + x
      BY <1>1, <1>2, <1>4, WrapperAssumption DEF Wallets, HoldsMore, Held
    <3> QED BY <3>1
  <2>2. p3 \in Wallets /\ HoldsMore(p2, p3, ETH, -x)
    <3> HIDE DEF p2
    <3> QED BY <1>2, <2>1, CoinTypes, WrapperPays
  <2>3. p4 \in Wallets /\ HoldsMore(p3, p4, WETH, x)
    <3> HIDE DEF p3
    <3> QED BY <2>2, CoinTypes, WrapperReceives
  <2> HIDE DEF p1, p2, p3, p4
  <2>4. \A c \in Coins : Held(purses, c) \in Nat
    BY WrapperAssumption DEF Wallets, Held
  <2>5. HoldsMore(purses, p4, WETH, x)
    BY <1>1, <1>2, <1>4, <2>2, <2>3, <2>4, CoinTypes DEF HoldsSame, HoldsMore
  <2> QED BY <1>3, <1>4, <2>3, <2>5, CoinTypes
<1>5. CASE coin # ETH
  <2> HIDE DEF p1, p2, p3, p4
  <2>1. HoldsMore(purses, p2, coin, x)
    BY <1>1, <1>2 DEF HoldsSame, HoldsMore
  <2> QED BY <1>2, <1>3, <1>5, <2>1, CoinTypes
<1> QED BY <1>4, <1>5

\* What it pays out, it had as the token.
LEMMA PaidOutFacts ==
  ASSUME NEW purses \in Wallets, NEW coin \in Coins, NEW u \in Senders, NEW x \in Nat,
         x <= Held(purses, AssetOf(coin))
  PROVE  /\ PaidOut(purses, coin, u, x) \in Wallets
         /\ HoldsMore(purses, PaidOut(purses, coin, u, x), AssetOf(coin), -x)
<1> DEFINE p1 == Pay(purses, WETH, Wrapper, x)
           p2 == Receive(p1, ETH, Wrapper, x)
           p3 == Pay(p2, ETH, Wrapper, x)
           p4 == Receive(p3, ETH, u, x)
           q1 == Pay(purses, coin, Wrapper, x)
           q2 == Receive(q1, coin, u, x)
<1>1. PaidOut(purses, coin, u, x) = IF coin = ETH THEN p4 ELSE q2
  BY DEF PaidOut, Send, Unwrap
<1>2. \A c \in Coins : Held(purses, c) \in Nat
  BY WrapperAssumption DEF Wallets, Held
<1>3. CASE coin = ETH
  <2>1. p1 \in Wallets /\ HoldsMore(purses, p1, WETH, -x)
    BY <1>3, CoinTypes, WrapperPays
  <2>2. p2 \in Wallets /\ HoldsMore(p1, p2, ETH, x)
    <3> HIDE DEF p1
    <3> QED BY <2>1, CoinTypes, WrapperReceives
  <2>3. x <= Held(p2, ETH)
    <3> HIDE DEF p1, p2
    <3>1. Held(p1, ETH) = Held(purses, ETH) /\ Held(p2, ETH) = Held(p1, ETH) + x
      BY <2>1, <2>2, CoinTypes DEF HoldsMore
    <3> QED BY <1>2, <3>1, CoinTypes
  <2>4. p3 \in Wallets /\ HoldsMore(p2, p3, ETH, -x)
    <3> HIDE DEF p2
    <3> QED BY <2>2, <2>3, CoinTypes, WrapperPays
  <2>5. p4 \in Wallets /\ HoldsSame(p3, p4)
    <3> HIDE DEF p3
    <3> QED BY <2>4, CoinTypes, OthersReceive
  <2> HIDE DEF p1, p2, p3, p4
  <2>6. HoldsMore(purses, p4, WETH, -x)
    BY <1>2, <2>1, <2>2, <2>4, <2>5, CoinTypes DEF HoldsSame, HoldsMore
  <2> QED BY <1>1, <1>3, <2>5, <2>6, CoinTypes
<1>4. CASE coin # ETH
  <2>1. q1 \in Wallets /\ HoldsMore(purses, q1, coin, -x)
    BY <1>4, CoinTypes, WrapperPays
  <2>2. q2 \in Wallets /\ HoldsSame(q1, q2)
    <3> HIDE DEF q1
    <3> QED BY <2>1, OthersReceive
  <2> HIDE DEF q1, q2
  <2>3. HoldsMore(purses, q2, coin, -x)
    BY <2>1, <2>2 DEF HoldsSame, HoldsMore
  <2> QED BY <1>1, <1>4, <2>2, <2>3, CoinTypes
<1> QED BY <1>3, <1>4

-----------------------------------------------------------------------------
(* The inductive invariant *)

\* The wrapper has no coins but those that users send it by mistake.
HoldsNothing(purses) == \A coin \in Coins \ Strays : Held(purses, coin) = 0

\* The state that a revert restores is one of the pool's, with no flash loan
\* and nothing in the wrapper.
SavedInOrder(s) ==
  /\ s.cash \in [Assets -> Nat]
  /\ s.aToken \in [Assets -> [Holders -> Nat]]
  /\ s.stableDebt \in [Assets -> [Users -> Nat]]
  /\ s.variableDebt \in [Assets -> [Users -> Nat]]
  /\ s.isolated \in [Assets -> Nat]
  /\ s.collateral \in [Users -> SUBSET Assets]
  /\ s.borrowing \in [Users -> SUBSET Assets]
  /\ s.flash = {}
  /\ \A a \in Assets :
       /\ SumOver(Holders, s.aToken[a]) =
            s.cash[a] + (SumOver(Users, s.stableDebt[a]) + SumOver(Users, s.variableDebt[a]))
       /\ s.isolated[a] <= Config[a].debtCeiling
  /\ \A u \in Users :
       /\ s.borrowing[u] = {a \in Assets : s.stableDebt[a][u] + s.variableDebt[a][u] # 0}
       /\ SiloedIn(s.borrowing[u]) /\ IsolatedIn(s.collateral[u])
  /\ s.wallet \in Wallets
  /\ HoldsNothing(s.wallet)
  /\ s.borrowing[Wrapper] = {}

\* No debt is less than it was when the transaction began.
DebtsSince(s) ==
  \A u \in Users, a \in Assets : s.stableDebt[a][u] + s.variableDebt[a][u] <= DebtOf(u, a)

Withdrawals == [next : {"withdraw"}, user : Senders, coin : Coins, amount : Nat, to : Senders]

Loops ==
  [next : {"callback", "borrow", "repay"}, sender : Senders, initiator : Users, asset : Assets,
   amount : Nat, user : Senders, cashAmount : Nat, borrowAmount : Nat]

\* What a loop has in the wrapper before its next call of the pool.
InFlight(t) ==
  IF t.next = "callback" THEN t.cashAmount + t.amount
  ELSE IF t.next = "borrow" THEN 0
  ELSE t.amount

Looping(t) ==
  /\ t \in Loops
  /\ \A f \in flash : f.mode = "none" /\ f.asset = t.asset /\ f.amount = t.amount
  /\ t.initiator = Wrapper => t.user = t.sender
  /\ t.next # "callback" => t.initiator = Wrapper /\ t.borrowAmount = t.amount
  /\ \A coin \in Coins \ Strays :
       Held(wallet, coin) = IF coin = t.asset THEN InFlight(t) ELSE 0

Withdrawing(t) == t \in Withdrawals /\ flash = {} /\ HoldsNothing(wallet)

BetweenTransactions == txn = {} /\ saved = {} /\ flash = {} /\ HoldsNothing(wallet)

InTransaction ==
  \E t, s : /\ txn = {t} /\ saved = {s}
            /\ SavedInOrder(s) /\ DebtsSince(s)
            /\ Withdrawing(t) \/ Looping(t)

WrapperIInv ==
  /\ PoolInv
  /\ wallet \in Wallets
  /\ borrowing[Wrapper] = {}
  /\ BetweenTransactions \/ InTransaction

\* It implies what the runs check.
LEMMA InvariantSuffices ==
  ASSUME WrapperIInv
  PROVE  WrapperInv
<1>1. WrapperTypeOK
  <2>1. TypeOK /\ wallet \in [Coins -> [Users -> Nat]]
    BY DEF WrapperIInv, PoolInv, Wallets
  <2>2. Cardinality(txn) <= 1 /\ Cardinality(saved) = Cardinality(txn)
    <3>1. CASE txn = {} /\ saved = {}
      BY <3>1, FS_EmptySet
    <3>2. CASE \E t, s : txn = {t} /\ saved = {s}
      <4>1. PICK t, s : txn = {t} /\ saved = {s}
        BY <3>2
      <4>2. Cardinality({t}) = 1 /\ Cardinality({s}) = 1
        BY FS_Singleton
      <4> QED BY <4>1, <4>2
    <3> QED BY <3>1, <3>2 DEF WrapperIInv, BetweenTransactions, InTransaction
  <2> QED BY <2>1, <2>2 DEF WrapperTypeOK
<1>2. WrapperEmpty
  BY DEF WrapperIInv, BetweenTransactions, InTransaction, WrapperEmpty, HoldsNothing, Held, idle
<1> QED BY <1>1, <1>2 DEF WrapperInv

\* What is saved before a transaction is in order.
LEMMA StateInOrder ==
  ASSUME WrapperIInv, idle
  PROVE  SavedInOrder(State) /\ DebtsSince(State)
<1>1. BetweenTransactions
  BY DEF WrapperIInv, InTransaction, idle
<1>2. /\ State.cash = cash /\ State.aToken = aToken
      /\ State.stableDebt = stableDebt /\ State.variableDebt = variableDebt
      /\ State.isolated = isolationModeTotalDebt /\ State.collateral = usingAsCollateral
      /\ State.borrowing = borrowing /\ State.flash = flash /\ State.wallet = wallet
  BY DEF State
<1>3. \A a \in Assets : Lent(a) = 0
  BY <1>1 DEF BetweenTransactions, Lent
<1>4. \A a \in Assets :
        SumOver(Holders, aToken[a]) =
          cash[a] + (SumOver(Users, stableDebt[a]) + SumOver(Users, variableDebt[a]))
  BY <1>3, TotalsNat DEF WrapperIInv, PoolInv, Backed, TotalSupply, TotalDebt
<1>5. \A a \in Assets, u \in Users : stableDebt[a][u] \in Nat /\ variableDebt[a][u] \in Nat
  BY DEF WrapperIInv, PoolInv, TypeOK
<1>6. DebtsSince(State)
  BY <1>2, <1>5 DEF DebtsSince, DebtOf
<1>7. \A u \in Users : SiloedIn(borrowing[u]) /\ IsolatedIn(usingAsCollateral[u])
  BY FlagInvariants DEF WrapperIInv, PoolInv
<1>8. SavedInOrder(State)
  BY <1>1, <1>2, <1>4, <1>7 DEF SavedInOrder, WrapperIInv, BetweenTransactions, PoolInv, TypeOK,
     BorrowingMatchesDebt, DebtOf, CeilingHeld
<1> QED BY <1>6, <1>8

\* A revert brings the pool's invariants back with what was saved.
LEMMA RevertKeeps ==
  ASSUME WrapperIInv, Revert
  PROVE  WrapperIInv'
<1>1. PICK s \in saved :
        /\ cash' = s.cash /\ aToken' = s.aToken
        /\ stableDebt' = s.stableDebt /\ variableDebt' = s.variableDebt
        /\ isolationModeTotalDebt' = s.isolated
        /\ usingAsCollateral' = s.collateral /\ borrowing' = s.borrowing
        /\ flash' = s.flash /\ wallet' = s.wallet
        /\ txn' = {} /\ saved' = {}
        /\ UNCHANGED <<marketVars, eMode>>
  BY DEF Revert
<1>2. SavedInOrder(s)
  BY DEF WrapperIInv, BetweenTransactions, InTransaction
<1>3. TypeOK'
  BY <1>1, <1>2 DEF SavedInOrder, WrapperIInv, PoolInv, TypeOK, marketVars
<1>4. Backed'
  <2> SUFFICES ASSUME NEW a \in Assets
               PROVE  TotalSupply(a)' = cash'[a] + TotalDebt(a)' + Lent(a)'
    BY DEF Backed
  <2>1. Lent(a)' = 0
    BY <1>1, <1>2 DEF SavedInOrder, Lent
  <2>2. TotalSupply(a)' = cash'[a] + TotalDebt(a)'
    BY <1>1, <1>2 DEF SavedInOrder, TotalSupply, TotalDebt
  <2>3. cash'[a] \in Nat /\ TotalDebt(a)' \in Nat
    BY <1>3, TotalsPrimedNat DEF TypeOK
  <2> QED BY <2>1, <2>2, <2>3
<1>5. BorrowingMatchesDebt'
  BY <1>1, <1>2 DEF SavedInOrder, BorrowingMatchesDebt, DebtOf
<1>6. SiloedAlone' /\ IsolatedAlone'
  BY <1>1, <1>2 DEF SavedInOrder, SiloedAlone, IsolatedAlone, SiloedIn, IsolatedIn
<1>7. CeilingHeld'
  BY <1>1, <1>2 DEF SavedInOrder, CeilingHeld
<1>8. wallet' \in Wallets /\ borrowing'[Wrapper] = {} /\ BetweenTransactions'
  BY <1>1, <1>2 DEF SavedInOrder, BetweenTransactions, HoldsNothing
<1> QED BY <1>3, <1>4, <1>5, <1>6, <1>7, <1>8 DEF WrapperIInv, PoolInv

-----------------------------------------------------------------------------
(* What the pool's operations do to debts *)

LEMMA BorrowChanges ==
  ASSUME PoolInv, NEW u \in Users, NEW a \in Assets, NEW amount \in Nat, NEW mode,
         Borrow(u, a, amount, mode)
  PROVE  /\ UNCHANGED flash
         /\ \A v \in Users : v # u => borrowing'[v] = borrowing[v]
         /\ \A v \in Users, b \in Assets : /\ v # u => DebtOf(v, b)' = DebtOf(v, b)
                                           /\ DebtOf(v, b) <= DebtOf(v, b)'
<1>1. /\ stableDebt \in [Assets -> [Users -> Nat]] /\ variableDebt \in [Assets -> [Users -> Nat]]
      /\ borrowing \in [Users -> SUBSET Assets] /\ IsFiniteSet(Users)
  BY PoolAssumption DEF PoolInv, TypeOK
<1>2. UNCHANGED flash /\ borrowing' = [borrowing EXCEPT ![u] = borrowing[u] \cup {a}]
  BY DEF Borrow, AddDebt
<1>3. CASE stableDebt' = Credit(stableDebt, a, u, amount) /\ UNCHANGED variableDebt
  <2>1. /\ \A v \in Users, b \in Assets : v # u \/ b # a => stableDebt'[b][v] = stableDebt[b][v]
        /\ stableDebt'[a][u] = stableDebt[a][u] + amount
    <3>1. /\ stableDebt \in [Assets -> [Users -> Nat]] /\ IsFiniteSet(Users)
          /\ stableDebt' = Credit(stableDebt, a, u, amount)
      BY <1>1, <1>3
    <3>2. /\ stableDebt'[a][u] = stableDebt[a][u] + amount
          /\ \A v \in Users \ {u} : stableDebt'[a][v] = stableDebt[a][v]
          /\ \A b \in Assets \ {a} : stableDebt'[b] = stableDebt[b]
      BY <3>1, CreditFacts
    <3> QED BY <3>2
  <2>2. \A v \in Users, b \in Assets : stableDebt[b][v] \in Nat /\ variableDebt[b][v] \in Nat
    BY <1>1
  <2> QED BY <1>1, <1>2, <1>3, <2>1, <2>2 DEF DebtOf
<1>4. CASE variableDebt' = Credit(variableDebt, a, u, amount) /\ UNCHANGED stableDebt
  <2>1. /\ \A v \in Users, b \in Assets : v # u \/ b # a => variableDebt'[b][v] = variableDebt[b][v]
        /\ variableDebt'[a][u] = variableDebt[a][u] + amount
    <3>1. /\ variableDebt \in [Assets -> [Users -> Nat]] /\ IsFiniteSet(Users)
          /\ variableDebt' = Credit(variableDebt, a, u, amount)
      BY <1>1, <1>4
    <3>2. /\ variableDebt'[a][u] = variableDebt[a][u] + amount
          /\ \A v \in Users \ {u} : variableDebt'[a][v] = variableDebt[a][v]
          /\ \A b \in Assets \ {a} : variableDebt'[b] = variableDebt[b]
      BY <3>1, CreditFacts
    <3> QED BY <3>2
  <2>2. \A v \in Users, b \in Assets : stableDebt[b][v] \in Nat /\ variableDebt[b][v] \in Nat
    BY <1>1
  <2> QED BY <1>1, <1>2, <1>4, <2>1, <2>2 DEF DebtOf
<1> QED BY <1>3, <1>4 DEF Borrow, AddDebt

LEMMA RepayChanges ==
  ASSUME PoolInv, NEW u \in Users, NEW a, NEW amount, NEW mode, Repay(u, a, amount, mode)
  PROVE  UNCHANGED flash /\ \A v \in Users : v # u => borrowing'[v] = borrowing[v]
BY DEF Repay, PayOff, PoolInv, TypeOK

-----------------------------------------------------------------------------
(* Transactions with one call of the pool *)

\* A transaction that ends leaves the invariant if the wrapper holds nothing.
LEMMA TransactionOver ==
  ASSUME PoolInv', wallet' \in Wallets, HoldsNothing(wallet'), borrowing'[Wrapper] = {},
         txn' = {}, saved' = {}, flash' = {}
  PROVE  WrapperIInv'
BY DEF WrapperIInv, BetweenTransactions, HoldsNothing

LEMMA IdleFacts ==
  ASSUME WrapperIInv, idle
  PROVE  /\ PoolInv /\ wallet \in Wallets /\ HoldsNothing(wallet) /\ borrowing[Wrapper] = {}
         /\ txn = {} /\ saved = {} /\ flash = {}
         /\ \A coin \in Coins : Held(wallet, coin) \in Nat
         /\ Wrapper \in Users /\ \A u \in Senders : u \in Users /\ u # Wrapper
<1>1. Wrapper \in Users /\ \A u \in Senders : u \in Users /\ u # Wrapper
  BY WrapperAssumption DEF Senders
<1> QED BY <1>1 DEF WrapperIInv, BetweenTransactions, InTransaction, idle, Wallets, Held

LEMMA SupplyForKeeps ==
  ASSUME WrapperIInv, NEW u \in Senders, NEW coin \in Coins, NEW x \in Nat, NEW v \in Users,
         SupplyFor(u, coin, x, v)
  PROVE  WrapperIInv'
<1> DEFINE a == AssetOf(coin)
           p == PaidIn(wallet, coin, u, x)
           q == Pay(p, a, Wrapper, x)
<1>1. /\ idle /\ x <= wallet[coin][u] /\ Supply(Wrapper, v, a, x) /\ wallet' = q
      /\ UNCHANGED <<txn, saved>>
  BY DEF SupplyFor
<1>2. a \in Assets /\ a \in Coins
  BY CoinTypes
<1>3. PoolInv'
  BY <1>1, <1>2, IdleFacts, SupplyKeeps
<1>4. UNCHANGED <<borrowing, flash>>
  BY <1>1 DEF Supply
<1>5. p \in Wallets /\ HoldsMore(wallet, p, a, x)
  BY <1>1, IdleFacts, PaidInFacts
<1> HIDE DEF a, p
<1>6. Held(wallet, a) \in Nat /\ Held(p, a) = Held(wallet, a) + x
  BY <1>1, <1>2, <1>5, IdleFacts DEF HoldsMore
<1>7. q \in Wallets /\ HoldsMore(p, q, a, -x)
  BY <1>2, <1>5, <1>6, WrapperPays
<1> HIDE DEF q
<1>8. \A c \in Coins : Held(q, c) = Held(wallet, c)
  BY <1>2, <1>5, <1>6, <1>7 DEF HoldsMore
<1>9. HoldsNothing(q)
  BY <1>1, <1>8, IdleFacts DEF HoldsNothing
<1> QED BY <1>1, <1>3, <1>4, <1>7, <1>9, IdleFacts, TransactionOver

LEMMA BorrowForKeeps ==
  ASSUME WrapperIInv, NEW u \in Senders, NEW coin \in Coins, NEW x \in Nat,
         NEW mode \in {Stable, Variable}, BorrowFor(u, coin, x, mode)
  PROVE  WrapperIInv'
<1> DEFINE a == AssetOf(coin)
           p == Receive(wallet, a, Wrapper, x)
           q == PaidOut(p, coin, u, x)
<1>1. idle /\ Borrow(u, a, x, mode) /\ wallet' = q /\ UNCHANGED <<txn, saved>>
  BY DEF BorrowFor
<1>2. a \in Assets /\ a \in Coins /\ a = AssetOf(coin)
  BY CoinTypes
<1>3. PoolInv'
  BY <1>1, <1>2, IdleFacts, BorrowKeeps
<1>4. borrowing'[Wrapper] = borrowing[Wrapper] /\ UNCHANGED flash
  BY <1>1, <1>2, IdleFacts, BorrowChanges
<1>5. p \in Wallets /\ HoldsMore(wallet, p, a, x)
  BY <1>1, <1>2, IdleFacts, WrapperReceives
<1> HIDE DEF a, p
<1>6. Held(wallet, a) \in Nat /\ Held(p, a) = Held(wallet, a) + x
  BY <1>1, <1>2, <1>5, IdleFacts DEF HoldsMore
<1>7. q \in Wallets /\ HoldsMore(p, q, a, -x)
  BY <1>2, <1>5, <1>6, PaidOutFacts
<1> HIDE DEF q
<1>8. \A c \in Coins : Held(q, c) = Held(wallet, c)
  BY <1>2, <1>5, <1>6, <1>7 DEF HoldsMore
<1>9. HoldsNothing(q)
  BY <1>1, <1>8, IdleFacts DEF HoldsNothing
<1> QED BY <1>1, <1>3, <1>4, <1>7, <1>9, IdleFacts, TransactionOver

LEMMA DebtOfModeNat ==
  ASSUME PoolInv, NEW u \in Users, NEW a \in Assets, NEW mode
  PROVE  DebtOfMode(u, a, mode) \in Nat
BY DEF PoolInv, TypeOK, DebtOfMode

LEMMA RepayERC20Keeps ==
  ASSUME WrapperIInv, NEW u \in Senders, NEW a \in Assets, NEW x \in Nat,
         NEW mode \in {Stable, Variable}, NEW v \in Senders, RepayERC20(u, a, x, mode, v)
  PROVE  WrapperIInv'
<1> DEFINE owed == DebtOfMode(v, a, mode)
           paid == IF x < owed THEN x ELSE owed
           p1 == Pay(wallet, a, u, paid)
           p2 == Receive(p1, a, Wrapper, paid)
           q == Pay(p2, a, Wrapper, paid)
<1>1. /\ idle /\ paid <= wallet[a][u] /\ Repay(v, a, paid, mode) /\ wallet' = q
      /\ UNCHANGED <<txn, saved>>
  BY DEF RepayERC20, Send
<1>2. a \in Coins
  BY CoinTypes
<1>3. paid \in Nat
  BY <1>1, IdleFacts, DebtOfModeNat
<1> HIDE DEF paid
<1>4. PoolInv'
  BY <1>1, <1>3, IdleFacts, RepayKeeps
<1>5. borrowing'[Wrapper] = borrowing[Wrapper] /\ UNCHANGED flash
  BY <1>1, IdleFacts, RepayChanges
<1>6. p1 \in Wallets /\ HoldsSame(wallet, p1)
  BY <1>1, <1>2, <1>3, IdleFacts, OthersPay
<1> HIDE DEF p1
<1>7. p2 \in Wallets /\ HoldsMore(p1, p2, a, paid)
  BY <1>2, <1>3, <1>6, WrapperReceives
<1> HIDE DEF p2
<1>8. Held(wallet, a) \in Nat /\ Held(p2, a) = Held(wallet, a) + paid
  BY <1>1, <1>2, <1>6, <1>7, IdleFacts DEF HoldsMore, HoldsSame
<1>9. q \in Wallets /\ HoldsMore(p2, q, a, -paid)
  BY <1>2, <1>3, <1>7, <1>8, WrapperPays
<1> HIDE DEF q
<1>10. \A c \in Coins : Held(q, c) = Held(wallet, c)
  BY <1>2, <1>3, <1>6, <1>7, <1>8, <1>9 DEF HoldsMore, HoldsSame
<1>11. HoldsNothing(q)
  BY <1>1, <1>10, IdleFacts DEF HoldsNothing
<1> QED BY <1>1, <1>4, <1>5, <1>9, <1>11, IdleFacts, TransactionOver

\* When no wrapped ether is in the wrapper by mistake, the pool can take no more
\* than was wrapped for the repayment.
LEMMA RepayETHKeeps ==
  ASSUME WrapperIInv, NEW u \in Senders, NEW x \in Nat, NEW value \in Nat,
         NEW mode \in {Stable, Variable}, NEW v \in Senders, RepayETH(u, x, value, mode, v)
  PROVE  WrapperIInv'
<1> DEFINE owed == DebtOfMode(v, WETH, mode)
           paid == IF x < owed THEN x ELSE owed
           taken == IF value < owed THEN value ELSE owed
           p == PaidIn(wallet, ETH, u, paid)
           q == Pay(p, WETH, Wrapper, taken)
<1>1. /\ idle /\ value >= paid /\ value <= wallet[ETH][u] /\ taken <= Held(p, WETH)
      /\ Repay(v, WETH, value, mode) /\ wallet' = q /\ UNCHANGED <<txn, saved>>
  BY DEF RepayETH, Held
<1>2. WETH \in Assets /\ WETH \in Coins /\ ETH \in Coins /\ AssetOf(ETH) = WETH
  BY CoinTypes, WrapperAssumption
<1>3. owed \in Nat
  BY <1>1, <1>2, IdleFacts, DebtOfModeNat
<1> HIDE DEF owed
<1>4. paid \in Nat /\ taken \in Nat /\ paid <= taken
  BY <1>1, <1>3
<1>5. paid <= wallet[ETH][u]
  <2>1. wallet[ETH][u] \in Nat
    BY <1>1, <1>2, IdleFacts DEF Wallets
  <2> QED BY <1>1, <1>4, <2>1
<1> HIDE DEF paid, taken
<1>6. PoolInv'
  BY <1>1, <1>2, IdleFacts, RepayKeeps
<1>7. borrowing'[Wrapper] = borrowing[Wrapper] /\ UNCHANGED flash
  BY <1>1, IdleFacts, RepayChanges
<1>8. p \in Wallets /\ HoldsMore(wallet, p, WETH, paid)
  BY <1>1, <1>2, <1>4, <1>5, IdleFacts, PaidInFacts
<1> HIDE DEF p
<1>9. q \in Wallets /\ HoldsMore(p, q, WETH, -taken)
  BY <1>1, <1>2, <1>4, <1>8, WrapperPays
<1> HIDE DEF q
<1>10. \A c \in Coins \ {WETH} : Held(q, c) = Held(wallet, c)
  BY <1>8, <1>9 DEF HoldsMore
<1>11. WETH \notin Strays => Held(q, WETH) = 0
  <2>1. /\ Held(p, WETH) = Held(wallet, WETH) + paid
        /\ Held(q, WETH) = Held(p, WETH) + (-taken)
    BY <1>8, <1>9 DEF HoldsMore
  <2>2. WETH \notin Strays => Held(wallet, WETH) = 0
    BY <1>1, <1>2, IdleFacts DEF HoldsNothing
  <2> QED BY <1>1, <1>4, <2>1, <2>2
<1>12. HoldsNothing(q)
  BY <1>1, <1>10, <1>11, IdleFacts DEF HoldsNothing
<1> QED BY <1>1, <1>6, <1>7, <1>9, <1>12, IdleFacts, TransactionOver

-----------------------------------------------------------------------------
(* Transactions with several *)

\* The transaction that is under way, and what its revert restores.
LEMMA UnderWay ==
  ASSUME WrapperIInv, NEW t \in txn
  PROVE  /\ PoolInv /\ wallet \in Wallets /\ borrowing[Wrapper] = {}
         /\ txn = {t}
         /\ \E s : saved = {s} /\ SavedInOrder(s) /\ DebtsSince(s)
         /\ Withdrawing(t) \/ Looping(t)
         /\ t.next = "withdraw" => Withdrawing(t)
         /\ t.next # "withdraw" => Looping(t)
         /\ \A coin \in Coins : Held(wallet, coin) \in Nat
         /\ Wrapper \in Users /\ \A u \in Senders : u \in Users /\ u # Wrapper
<1>1. Wrapper \in Users /\ \A u \in Senders : u \in Users /\ u # Wrapper
  BY WrapperAssumption DEF Senders
<1>2. PICK r, s : /\ txn = {r} /\ saved = {s} /\ SavedInOrder(s) /\ DebtsSince(s)
                  /\ Withdrawing(r) \/ Looping(r)
  BY DEF WrapperIInv, BetweenTransactions, InTransaction
<1>3. t = r
  BY <1>2
<1>4. Withdrawing(t) => t.next = "withdraw"
  BY DEF Withdrawing, Withdrawals
<1>5. Looping(t) => t.next # "withdraw"
  BY DEF Looping, Loops
<1>6. wallet \in Wallets /\ \A coin \in Coins : Held(wallet, coin) \in Nat
  BY <1>1 DEF WrapperIInv, Wallets, Held
<1> QED BY <1>1, <1>2, <1>3, <1>4, <1>5, <1>6 DEF WrapperIInv

\* A transaction goes on: what is saved stays, and debts do not fall.
LEMMA GoesOn ==
  ASSUME PoolInv', wallet' \in Wallets, borrowing'[Wrapper] = {},
         NEW t, txn' = {t}, (Withdrawing(t) \/ Looping(t))',
         \E s : saved' = {s} /\ SavedInOrder(s) /\ DebtsSince(s)'
  PROVE  WrapperIInv'
BY DEF WrapperIInv, InTransaction

\* What is saved when a transaction begins stays in order.
LEMMA SavedNow ==
  ASSUME WrapperIInv, idle, UNCHANGED <<stableDebt, variableDebt>>, saved' = {State}
  PROVE  \E s : saved' = {s} /\ SavedInOrder(s) /\ DebtsSince(s)'
<1>1. PICK s : s = State
  OBVIOUS
<1>2. SavedInOrder(s) /\ DebtsSince(s)
  BY <1>1, StateInOrder
<1>3. DebtsSince(s)'
  BY <1>2 DEF DebtsSince, DebtOf
<1> QED BY <1>1, <1>2, <1>3

LEMMA WithdrawForKeeps ==
  ASSUME WrapperIInv, NEW u \in Senders, NEW coin \in Coins, NEW x \in Nat, NEW to \in Senders,
         WithdrawFor(u, coin, x, to)
  PROVE  WrapperIInv'
<1> DEFINE t == [next |-> "withdraw", user |-> u, coin |-> coin, amount |-> x, to |-> to]
<1>1. /\ idle /\ Transfer(u, Wrapper, AssetOf(coin), x)
      /\ txn' = {t} /\ saved' = {State} /\ UNCHANGED wallet
  BY DEF WithdrawFor
<1>2. PoolInv'
  BY <1>1, CoinTypes, IdleFacts, TransferKeeps
<1>3. UNCHANGED <<stableDebt, variableDebt, borrowing, flash>>
  BY <1>1 DEF Transfer
<1>4. t \in Withdrawals
  BY DEF Withdrawals
<1>5. Withdrawing(t)'
  BY <1>1, <1>3, <1>4, IdleFacts DEF Withdrawing, HoldsNothing, Held
<1>6. \E s : saved' = {s} /\ SavedInOrder(s) /\ DebtsSince(s)'
  BY <1>1, <1>3, SavedNow
<1> HIDE DEF t
<1> QED BY <1>1, <1>2, <1>3, <1>5, <1>6, IdleFacts, GoesOn

LEMMA WithdrawForEndKeeps ==
  ASSUME WrapperIInv, WithdrawForEnd
  PROVE  WrapperIInv'
<1>1. PICK t \in txn :
        /\ t.next = "withdraw"
        /\ Withdraw(Wrapper, AssetOf(t.coin), t.amount)
        /\ wallet' = IF t.coin = ETH
                     THEN PaidOut(Receive(wallet, WETH, Wrapper, t.amount), ETH, t.to, t.amount)
                     ELSE Receive(wallet, t.coin, t.to, t.amount)
        /\ txn' = {} /\ saved' = {}
  BY DEF WithdrawForEnd
<1>2. Withdrawing(t) /\ PoolInv /\ wallet \in Wallets /\ borrowing[Wrapper] = {}
      /\ \A coin \in Coins : Held(wallet, coin) \in Nat
  BY <1>1, UnderWay
<1>3. /\ t.coin \in Coins /\ t.amount \in Nat /\ t.to \in Senders /\ flash = {}
      /\ HoldsNothing(wallet)
  BY <1>2 DEF Withdrawing, Withdrawals
<1>4. PoolInv'
  BY <1>1, <1>2, <1>3, CoinTypes, WrapperAssumption, WithdrawKeeps
<1>5. UNCHANGED <<borrowing, flash>>
  BY <1>1 DEF Withdraw
<1>6. wallet' \in Wallets /\ HoldsSame(wallet, wallet')
  <2>1. CASE t.coin = ETH
    <3> DEFINE p == Receive(wallet, WETH, Wrapper, t.amount)
               q == PaidOut(p, ETH, t.to, t.amount)
    <3>1. p \in Wallets /\ HoldsMore(wallet, p, WETH, t.amount)
      BY <1>2, <1>3, CoinTypes, WrapperReceives
    <3> HIDE DEF p
    <3>2. Held(wallet, WETH) \in Nat /\ Held(p, WETH) = Held(wallet, WETH) + t.amount
      BY <1>2, <3>1, CoinTypes DEF HoldsMore
    <3>3. t.amount <= Held(p, AssetOf(ETH))
      BY <1>3, <3>2, CoinTypes
    <3>4. q \in Wallets /\ HoldsMore(p, q, AssetOf(ETH), -t.amount)
      BY <1>3, <3>1, <3>3, CoinTypes, PaidOutFacts
    <3> HIDE DEF q
    <3>5. HoldsSame(wallet, q)
      BY <1>3, <3>1, <3>2, <3>4, CoinTypes DEF HoldsMore, HoldsSame
    <3>6. wallet' = q
      BY <1>1, <2>1 DEF p, q
    <3> QED BY <3>4, <3>5, <3>6
  <2>2. CASE t.coin # ETH
    BY <1>1, <1>2, <1>3, <2>2, OthersReceive
  <2> QED BY <2>1, <2>2
<1>7. HoldsNothing(wallet')
  BY <1>3, <1>6 DEF HoldsNothing, HoldsSame
<1> QED BY <1>1, <1>2, <1>3, <1>4, <1>5, <1>6, <1>7, TransactionOver

\* A flash loan to the wrapper begins: from the wrapper itself or from a user.
LEMMA LoopBegins ==
  ASSUME WrapperIInv, idle, NEW a \in Assets, NEW amount \in Nat,
         NEW initiator \in Users, FlashLoan(initiator, a, amount, "none"),
         NEW t \in Loops, t.next = "callback", t.asset = a, t.amount = amount,
         t.initiator = Wrapper => t.user = t.sender,
         txn' = {t}, saved' = {State},
         wallet' \in Wallets, HoldsMore(wallet, wallet', a, t.cashAmount + amount)
  PROVE  WrapperIInv'
<1>1. PoolInv'
  BY IdleFacts, FlashLoanKeeps
<1>2. UNCHANGED <<stableDebt, variableDebt, borrowing>>
  BY DEF FlashLoan, flagVars
<1>3. \A f \in flash' : f.mode = "none" /\ f.asset = t.asset /\ f.amount = t.amount
  BY DEF FlashLoan
<1>4. ASSUME NEW coin \in Coins \ Strays
      PROVE  Held(wallet', coin) = IF coin = t.asset THEN InFlight(t) ELSE 0
  <2>1. Held(wallet, coin) = 0 /\ t.cashAmount \in Nat
    BY IdleFacts DEF HoldsNothing, Loops
  <2>2. a \in Coins
    BY CoinTypes
  <2> QED BY <2>1, <2>2 DEF HoldsMore, InFlight
<1>5. Looping(t)'
  BY <1>3, <1>4 DEF Looping, Held
<1>6. \E s : saved' = {s} /\ SavedInOrder(s) /\ DebtsSince(s)'
  BY <1>2, SavedNow
<1> QED BY <1>1, <1>2, <1>5, <1>6, IdleFacts, GoesOn

LEMMA LeverageDepositKeeps ==
  ASSUME WrapperIInv, NEW u \in Senders, NEW coin \in Coins, NEW x \in Nat, NEW y \in Nat,
         LeverageDeposit(u, coin, x, y)
  PROVE  WrapperIInv'
<1> DEFINE a == AssetOf(coin)
           p == PaidIn(wallet, coin, u, x)
           q == Receive(p, a, Wrapper, y)
           t == [next |-> "callback", sender |-> u, initiator |-> Wrapper, asset |-> a,
                 amount |-> y, user |-> u, cashAmount |-> x, borrowAmount |-> y]
<1>1. /\ idle /\ x <= wallet[coin][u] /\ FlashLoan(Wrapper, a, y, "none")
      /\ wallet' = q /\ txn' = {t} /\ saved' = {State}
  BY DEF LeverageDeposit
<1>2. a \in Assets /\ a \in Coins /\ a = AssetOf(coin) /\ Wrapper \in Users
  BY CoinTypes, WrapperAssumption
<1>3. t \in Loops /\ t.next = "callback" /\ t.asset = a /\ t.amount = y /\ t.cashAmount = x
      /\ t.initiator = Wrapper /\ t.user = t.sender
  BY <1>2 DEF Loops
<1>4. p \in Wallets /\ HoldsMore(wallet, p, a, x)
  BY <1>1, IdleFacts, PaidInFacts
<1> HIDE DEF a, p, t
<1>5. q \in Wallets /\ HoldsMore(p, q, a, y)
  BY <1>2, <1>4, WrapperReceives
<1>6. HoldsMore(wallet, q, a, x + y)
  <2> HIDE DEF q
  <2>1. Held(wallet, a) \in Nat
    BY <1>1, <1>2, IdleFacts
  <2> QED BY <1>2, <1>4, <1>5, <2>1 DEF HoldsMore
<1> HIDE DEF q
<1> QED BY <1>1, <1>2, <1>3, <1>5, <1>6, LoopBegins

LEMMA FlashLoanToWrapperKeeps ==
  ASSUME WrapperIInv, NEW u \in Senders, NEW a \in Assets, NEW x \in Nat, NEW v \in Senders,
         NEW y \in Nat, FlashLoanToWrapper(u, a, x, v, 0, y)
  PROVE  WrapperIInv'
<1> DEFINE q == Receive(wallet, a, Wrapper, x)
           t == [next |-> "callback", sender |-> u, initiator |-> u, asset |-> a, amount |-> x,
                 user |-> v, cashAmount |-> 0, borrowAmount |-> y]
<1>1. /\ idle /\ FlashLoan(u, a, x, "none") /\ wallet' = q /\ txn' = {t} /\ saved' = {State}
  BY DEF FlashLoanToWrapper
<1>2. a \in Coins /\ u \in Users /\ u # Wrapper
  BY <1>1, CoinTypes, IdleFacts
<1>3. t \in Loops /\ t.next = "callback" /\ t.asset = a /\ t.amount = x /\ t.cashAmount = 0
      /\ t.initiator # Wrapper
  BY <1>2 DEF Loops
<1>4. q \in Wallets /\ HoldsMore(wallet, q, a, x)
  BY <1>1, <1>2, IdleFacts, WrapperReceives
<1> HIDE DEF q, t
<1>5. HoldsMore(wallet, q, a, 0 + x)
  BY <1>4
<1> QED BY <1>1, <1>2, <1>3, <1>4, <1>5, LoopBegins

LEMMA ExecuteOperationKeeps ==
  ASSUME WrapperIInv, ExecuteOperation
  PROVE  WrapperIInv'
<1>1. PICK t \in txn :
        /\ t.next = "callback"
        /\ ValidCallback(t)
        /\ SupplyAmount(t) <= wallet[t.asset][Wrapper]
        /\ Supply(Wrapper, t.user, t.asset, SupplyAmount(t))
        /\ wallet' = Pay(wallet, t.asset, Wrapper, SupplyAmount(t))
        /\ txn' = {[t EXCEPT !.next = "borrow"]}
        /\ UNCHANGED saved
  BY DEF ExecuteOperation
<1> DEFINE r == [t EXCEPT !.next = "borrow"]
           x == SupplyAmount(t)
           q == Pay(wallet, t.asset, Wrapper, x)
<1>2. /\ Looping(t) /\ PoolInv /\ wallet \in Wallets /\ borrowing[Wrapper] = {}
      /\ \A coin \in Coins : Held(wallet, coin) \in Nat
      /\ Wrapper \in Users /\ t.user \in Users
      /\ \E s : saved = {s} /\ SavedInOrder(s) /\ DebtsSince(s)
  <2>1. t.next # "withdraw"
    BY <1>1
  <2>2. Looping(t)
    BY <2>1, UnderWay
  <2>3. t.user \in Senders
    BY <2>2 DEF Looping, Loops
  <2> QED BY <2>2, <2>3, UnderWay
<1>3. t \in Loops /\ t.asset \in Assets /\ t.asset \in Coins /\ t.cashAmount \in Nat
      /\ t.borrowAmount \in Nat /\ t.amount \in Nat
  BY <1>2, CoinTypes DEF Looping, Loops
<1>4. t.initiator = Wrapper /\ t.borrowAmount = t.amount /\ t.user = t.sender
  BY <1>1, <1>2 DEF ValidCallback, Looping
<1>5. x \in Nat /\ x = t.cashAmount + t.amount /\ x <= Held(wallet, t.asset)
  BY <1>1, <1>3, <1>4 DEF SupplyAmount, Held
<1>6. r \in Loops /\ r.next = "borrow" /\ r.asset = t.asset /\ r.amount = t.amount
      /\ r.borrowAmount = t.borrowAmount /\ r.initiator = t.initiator /\ r.user = t.user
      /\ r.sender = t.sender
  BY <1>3 DEF Loops
<1> HIDE DEF x, r
<1>7. PoolInv'
  BY <1>1, <1>2, <1>3, <1>5, SupplyKeeps DEF x
<1>8. UNCHANGED <<stableDebt, variableDebt, borrowing, flash>>
  BY <1>1 DEF Supply
<1>9. q \in Wallets /\ HoldsMore(wallet, q, t.asset, -x)
  BY <1>2, <1>3, <1>5, WrapperPays
<1> HIDE DEF q
<1>10. ASSUME NEW coin \in Coins \ Strays
       PROVE  Held(q, coin) = IF coin = r.asset THEN InFlight(r) ELSE 0
  <2>1. InFlight(r) = 0 /\ InFlight(t) = x
    BY <1>1, <1>5, <1>6 DEF InFlight
  <2>2. Held(wallet, coin) = IF coin = t.asset THEN x ELSE 0
    BY <1>2, <2>1 DEF Looping
  <2>3. /\ Held(q, t.asset) = Held(wallet, t.asset) + (-x)
        /\ \A c \in Coins \ {t.asset} : Held(q, c) = Held(wallet, c)
    BY <1>9 DEF HoldsMore
  <2> QED BY <1>5, <1>6, <2>1, <2>2, <2>3
<1>11. wallet' = q /\ txn' = {r}
  BY <1>1 DEF q, r, x
<1>12. Looping(r)'
  <2>1. \A f \in flash' : f.mode = "none" /\ f.asset = r.asset /\ f.amount = r.amount
    BY <1>2, <1>6, <1>8 DEF Looping
  <2>2. \A coin \in Coins \ Strays : Held(wallet', coin) = IF coin = r.asset THEN InFlight(r) ELSE 0
    BY <1>10, <1>11
  <2>3. r \in Loops /\ r.user = r.sender /\ r.initiator = Wrapper /\ r.borrowAmount = r.amount
    BY <1>4, <1>6
  <2> QED BY <2>1, <2>2, <2>3 DEF Looping, Held
<1>13. \E s : saved' = {s} /\ SavedInOrder(s) /\ DebtsSince(s)'
  BY <1>1, <1>2, <1>8 DEF DebtsSince, DebtOf
<1> QED BY <1>2, <1>7, <1>8, <1>9, <1>11, <1>12, <1>13, GoesOn

\* A loop that called back is the wrapper's own, and its loan is what it borrows.
LEMMA LoopFacts ==
  ASSUME WrapperIInv, NEW t \in txn, t.next \in {"borrow", "repay"}
  PROVE  /\ Looping(t) /\ PoolInv /\ wallet \in Wallets /\ borrowing[Wrapper] = {}
         /\ \A coin \in Coins : Held(wallet, coin) \in Nat
         /\ t \in Loops /\ t.asset \in Assets /\ t.asset \in Coins
         /\ t.amount \in Nat /\ t.borrowAmount = t.amount
         /\ t.user \in Users /\ t.user # Wrapper /\ t.user = t.sender
         /\ \E s : saved = {s} /\ SavedInOrder(s) /\ DebtsSince(s)
<1>1. t.next # "withdraw" /\ t.next # "callback"
  OBVIOUS
<1>2. Looping(t)
  BY <1>1, UnderWay
<1>3. t \in Loops /\ t.initiator = Wrapper /\ t.borrowAmount = t.amount /\ t.user = t.sender
  BY <1>1, <1>2 DEF Looping
<1>4. t.asset \in Assets /\ t.amount \in Nat /\ t.user \in Senders
  BY <1>3 DEF Loops
<1> QED BY <1>2, <1>3, <1>4, UnderWay, CoinTypes

LEMMA ExecuteOperationBorrowKeeps ==
  ASSUME WrapperIInv, ExecuteOperationBorrow
  PROVE  WrapperIInv'
<1>1. PICK t \in txn :
        /\ t.next = "borrow"
        /\ Borrow(t.user, t.asset, t.borrowAmount, Variable)
        /\ wallet' = Receive(wallet, t.asset, Wrapper, t.borrowAmount)
        /\ txn' = {[t EXCEPT !.next = "repay"]}
        /\ UNCHANGED saved
  BY DEF ExecuteOperationBorrow
<1> DEFINE r == [t EXCEPT !.next = "repay"]
           q == Receive(wallet, t.asset, Wrapper, t.amount)
<1>2. /\ Looping(t) /\ PoolInv /\ wallet \in Wallets /\ borrowing[Wrapper] = {}
      /\ \A coin \in Coins : Held(wallet, coin) \in Nat
      /\ t \in Loops /\ t.asset \in Assets /\ t.asset \in Coins
      /\ t.amount \in Nat /\ t.borrowAmount = t.amount
      /\ t.user \in Users /\ t.user # Wrapper /\ t.user = t.sender
      /\ \E s : saved = {s} /\ SavedInOrder(s) /\ DebtsSince(s)
  BY <1>1, LoopFacts
<1>3. Borrow(t.user, t.asset, t.amount, Variable)
  BY <1>1, <1>2
<1>4. PoolInv'
  BY <1>2, <1>3, BorrowKeeps
<1>5. /\ UNCHANGED flash /\ borrowing'[Wrapper] = borrowing[Wrapper]
      /\ \A v \in Users, b \in Assets : DebtOf(v, b) <= DebtOf(v, b)'
  BY <1>2, <1>3, BorrowChanges, WrapperAssumption
<1>6. r \in Loops /\ r.next = "repay" /\ r.asset = t.asset /\ r.amount = t.amount
      /\ r.borrowAmount = t.borrowAmount /\ r.initiator = t.initiator /\ r.user = t.user
      /\ r.sender = t.sender
  BY <1>2 DEF Loops
<1>7. q \in Wallets /\ HoldsMore(wallet, q, t.asset, t.amount)
  BY <1>2, WrapperReceives
<1>8. wallet' = q /\ txn' = {r}
  BY <1>1, <1>2
<1> HIDE DEF q, r
<1>9. ASSUME NEW coin \in Coins \ Strays
      PROVE  Held(q, coin) = IF coin = r.asset THEN InFlight(r) ELSE 0
  <2>1. InFlight(r) = t.amount /\ InFlight(t) = 0
    BY <1>1, <1>6 DEF InFlight
  <2>2. Held(wallet, coin) = 0
    BY <1>2, <2>1 DEF Looping
  <2> QED BY <1>2, <1>6, <1>7, <2>1, <2>2 DEF HoldsMore
<1>10. Looping(r)'
  <2>1. \A f \in flash' : f.mode = "none" /\ f.asset = r.asset /\ f.amount = r.amount
    BY <1>2, <1>5, <1>6 DEF Looping
  <2>2. \A coin \in Coins \ Strays : Held(wallet', coin) = IF coin = r.asset THEN InFlight(r) ELSE 0
    BY <1>8, <1>9
  <2>3. r \in Loops /\ r.user = r.sender /\ r.initiator = Wrapper /\ r.borrowAmount = r.amount
    BY <1>1, <1>2, <1>6 DEF Looping
  <2> QED BY <2>1, <2>2, <2>3 DEF Looping, Held
<1>11. \E s : saved' = {s} /\ SavedInOrder(s) /\ DebtsSince(s)'
  <2>1. PICK s : saved = {s} /\ SavedInOrder(s) /\ DebtsSince(s)
    BY <1>2
  <2>2. TypeOK /\ TypeOK'
    BY <1>2, <1>4 DEF PoolInv
  <2>3. ASSUME NEW v \in Users, NEW b \in Assets
        PROVE  s.stableDebt[b][v] + s.variableDebt[b][v] <= DebtOf(v, b)'
    <3>1. /\ DebtOf(v, b) \in Nat /\ DebtOf(v, b)' \in Nat
          /\ s.stableDebt[b][v] \in Nat /\ s.variableDebt[b][v] \in Nat
      BY <2>1, <2>2 DEF SavedInOrder, TypeOK, DebtOf
    <3>2. s.stableDebt[b][v] + s.variableDebt[b][v] <= DebtOf(v, b)
      BY <2>1 DEF DebtsSince
    <3>3. DebtOf(v, b) <= DebtOf(v, b)'
      BY <1>5
    <3> QED BY <3>1, <3>2, <3>3
  <2>4. DebtsSince(s)'
    BY <2>3 DEF DebtsSince
  <2> QED BY <1>1, <2>1, <2>4
<1> QED BY <1>2, <1>4, <1>5, <1>7, <1>8, <1>10, <1>11, GoesOn

LEMMA LeverageDepositEndKeeps ==
  ASSUME WrapperIInv, LeverageDepositEnd
  PROVE  WrapperIInv'
<1>1. PICK t \in txn :
        /\ t.next = "repay"
        /\ t.amount <= wallet[t.asset][Wrapper]
        /\ FlashLoanEnd
        /\ wallet' = Pay(wallet, t.asset, Wrapper, t.amount)
        /\ txn' = {} /\ saved' = {}
  BY DEF LeverageDepositEnd
<1> DEFINE q == Pay(wallet, t.asset, Wrapper, t.amount)
<1>2. /\ Looping(t) /\ PoolInv /\ wallet \in Wallets /\ borrowing[Wrapper] = {}
      /\ \A coin \in Coins : Held(wallet, coin) \in Nat
      /\ t.asset \in Coins /\ t.amount \in Nat
  BY <1>1, LoopFacts
<1>3. PoolInv'
  BY <1>1, <1>2, FlashLoanEndKeeps
<1>4. flash' = {} /\ UNCHANGED borrowing
  <2>1. PICK f \in flash :
          /\ flash' = {}
          /\ \/ f.mode = "none" /\ UNCHANGED borrowing
             \/ f.mode \in Modes
    BY <1>1 DEF FlashLoanEnd, flagVars
  <2>2. f.mode = "none"
    BY <1>2 DEF Looping
  <2>3. "none" \notin Modes
    BY PoolAssumption DEF Stable, Variable
  <2> QED BY <2>1, <2>2, <2>3
<1>5. t.amount <= Held(wallet, t.asset)
  BY <1>1 DEF Held
<1>6. q \in Wallets /\ HoldsMore(wallet, q, t.asset, -t.amount)
  BY <1>2, <1>5, WrapperPays
<1> HIDE DEF q
<1>7. ASSUME NEW coin \in Coins \ Strays PROVE Held(q, coin) = 0
  <2>1. Held(wallet, coin) = IF coin = t.asset THEN t.amount ELSE 0
    BY <1>1, <1>2 DEF Looping, InFlight
  <2> QED BY <1>2, <1>6, <2>1 DEF HoldsMore
<1>8. wallet' = q
  BY <1>1 DEF q
<1>9. HoldsNothing(wallet')
  BY <1>7, <1>8 DEF HoldsNothing
<1> QED BY <1>1, <1>2, <1>3, <1>4, <1>6, <1>8, <1>9, TransactionOver

-----------------------------------------------------------------------------
(* The owner, and users without the wrapper *)

LEMMA RescueTokenKeeps ==
  ASSUME WrapperIInv, NEW coin \in Coins, NEW to \in Senders, NEW x \in Nat,
         RescueToken(coin, to, x)
  PROVE  WrapperIInv'
<1> DEFINE p == Pay(wallet, coin, Wrapper, x)
           q == Receive(p, coin, to, x)
<1>1. idle /\ x <= Held(wallet, coin) /\ wallet' = q /\ UNCHANGED <<vars, txn, saved>>
  BY DEF RescueToken, Send, Held
<1>2. PoolInv' /\ UNCHANGED <<borrowing, flash>>
  <2>1. UNCHANGED vars
    BY <1>1
  <2> QED BY <1>1, <2>1, IdleFacts, NextInv DEF vars, flagVars
<1>3. p \in Wallets /\ HoldsMore(wallet, p, coin, -x)
  BY <1>1, IdleFacts, WrapperPays
<1> HIDE DEF p
<1>4. q \in Wallets /\ HoldsSame(p, q)
  BY <1>3, OthersReceive
<1> HIDE DEF q
<1>5. HoldsNothing(q)
  <2> SUFFICES ASSUME NEW c \in Coins \ Strays PROVE Held(q, c) = 0
    BY DEF HoldsNothing
  <2>1. Held(wallet, c) = 0
    BY <1>1, IdleFacts DEF HoldsNothing
  <2> QED BY <1>1, <1>3, <1>4, <2>1 DEF HoldsMore, HoldsSame
<1> QED BY <1>1, <1>2, <1>4, <1>5, IdleFacts, TransactionOver

\* Only stray coins come to the wrapper by mistake.
LEMMA SendToWrapperKeeps ==
  ASSUME WrapperIInv, NEW u \in Senders, NEW a \in Strays, NEW x \in Nat, SendToWrapper(u, a, x)
  PROVE  WrapperIInv'
<1> DEFINE p == Pay(wallet, a, u, x)
           q == Receive(p, a, Wrapper, x)
<1>1. idle /\ x <= wallet[a][u] /\ wallet' = q /\ UNCHANGED <<vars, txn, saved>>
  BY DEF SendToWrapper, Send
<1>2. PoolInv' /\ UNCHANGED <<borrowing, flash>>
  <2>1. UNCHANGED vars
    BY <1>1
  <2> QED BY <1>1, <2>1, IdleFacts, NextInv DEF vars, flagVars
<1>3. a \in Coins
  BY CoinTypes, WrapperAssumption
<1>4. p \in Wallets /\ HoldsSame(wallet, p)
  BY <1>1, <1>3, IdleFacts, OthersPay
<1> HIDE DEF p
<1>5. q \in Wallets /\ HoldsMore(p, q, a, x)
  BY <1>3, <1>4, WrapperReceives
<1> HIDE DEF q
<1>6. HoldsNothing(q)
  BY <1>1, <1>4, <1>5, IdleFacts DEF HoldsNothing, HoldsMore, HoldsSame
<1> QED BY <1>1, <1>2, <1>5, <1>6, IdleFacts, TransactionOver

LEMMA ATokenMovesKeep ==
  ASSUME WrapperIInv, idle, NEW u \in Users, NEW v \in Users, NEW a \in Assets,
         NEW x \in Nat, NEW use \in BOOLEAN,
         Transfer(u, v, a, x) \/ UseReserveAsCollateral(u, a, use),
         UNCHANGED <<wallet, txn, saved>>
  PROVE  WrapperIInv'
<1>1. PoolInv'
  BY IdleFacts, TransferKeeps, UseReserveAsCollateralKeeps
<1>2. UNCHANGED <<borrowing, flash>>
  BY DEF Transfer, UseReserveAsCollateral
<1> QED BY <1>1, <1>2, IdleFacts, TransactionOver

-----------------------------------------------------------------------------

LEMMA WrapperInitInv ==
  ASSUME WrapperInit
  PROVE  WrapperIInv
<1>1. PoolInv
  BY InitInv DEF WrapperInit
<1>2. wallet \in Wallets
  BY WrapperAssumption DEF WrapperInit, Wallets
<1>3. HoldsNothing(wallet)
  BY WrapperAssumption DEF WrapperInit, HoldsNothing, Held
<1>4. borrowing[Wrapper] = {} /\ flash = {} /\ txn = {} /\ saved = {}
  BY WrapperAssumption DEF WrapperInit, Init
<1> QED BY <1>1, <1>2, <1>3, <1>4 DEF WrapperIInv, BetweenTransactions

LEMMA WrapperNextInv ==
  ASSUME WrapperIInv, [WrapperNext]_wrapperVars
  PROVE  WrapperIInv'
<1>1. /\ \A x \in Amounts : x \in Nat
      /\ \A x \in FlashAmounts : x \in Nat
      /\ \A m \in Modes : m \in {Stable, Variable}
      /\ \A u \in Senders : u \in Users
  BY PoolAssumption DEF Senders
<1>2. \A u \in Users, a \in Assets : aToken[a][u] \in Nat
  BY DEF WrapperIInv, PoolInv, TypeOK, Holders
<1>3. CASE \E u \in Senders, coin \in Coins, x \in Amounts, v \in Users : SupplyFor(u, coin, x, v)
  BY <1>1, <1>3, SupplyForKeeps
<1>4. CASE \E u \in Senders, coin \in Coins, x \in Amounts, m \in Modes : BorrowFor(u, coin, x, m)
  BY <1>1, <1>4, BorrowForKeeps
<1>5. CASE \E u, v \in Senders, a \in Assets, x \in Amounts, m \in Modes : RepayERC20(u, a, x, m, v)
  BY <1>1, <1>5, RepayERC20Keeps
<1>6. CASE \E u, v \in Senders, x, value \in Amounts, m \in Modes : RepayETH(u, x, value, m, v)
  BY <1>1, <1>6, RepayETHKeeps
<1>7. CASE \E u, v \in Senders, coin \in Coins :
             \E x \in Amounts \cup {aToken[AssetOf(coin)][u]} : WithdrawFor(u, coin, x, v)
  <2>1. PICK u \in Senders, v \in Senders, coin \in Coins :
          \E x \in Amounts \cup {aToken[AssetOf(coin)][u]} : WithdrawFor(u, coin, x, v)
    BY <1>7
  <2>2. PICK x \in Amounts \cup {aToken[AssetOf(coin)][u]} : WithdrawFor(u, coin, x, v)
    BY <2>1
  <2>3. x \in Nat
    BY <1>1, <1>2, CoinTypes
  <2> QED BY <2>2, <2>3, WithdrawForKeeps
<1>8. CASE WithdrawForEnd
  BY <1>8, WithdrawForEndKeeps
<1>9. CASE \E u \in Senders, coin \in Coins, x \in Amounts \cup {0}, y \in FlashAmounts :
             LeverageDeposit(u, coin, x, y)
  BY <1>1, <1>9, LeverageDepositKeeps
<1>10. CASE \E u, v \in Senders, a \in Assets, x, y \in FlashAmounts :
              FlashLoanToWrapper(u, a, x, v, 0, y)
  BY <1>1, <1>10, FlashLoanToWrapperKeeps
<1>11. CASE ExecuteOperation
  BY <1>11, ExecuteOperationKeeps
<1>12. CASE ExecuteOperationBorrow
  BY <1>12, ExecuteOperationBorrowKeeps
<1>13. CASE LeverageDepositEnd
  BY <1>13, LeverageDepositEndKeeps
<1>14. CASE Revert
  BY <1>14, RevertKeeps
<1>15. CASE \E coin \in Coins, v \in Senders, x \in Amounts : RescueToken(coin, v, x)
  BY <1>1, <1>15, RescueTokenKeeps
<1>16. CASE \E a \in Assets, v \in Senders, x \in Amounts : RescueAToken(a, v, x)
  BY <1>1, <1>16, ATokenMovesKeep, WrapperAssumption DEF RescueAToken
<1>17. CASE \E u \in Senders, v \in Users, a \in Assets, x \in Amounts : SendAToken(u, v, a, x)
  BY <1>1, <1>17, ATokenMovesKeep DEF SendAToken
<1>18. CASE \E u \in Senders, a \in Strays, x \in Amounts : SendToWrapper(u, a, x)
  BY <1>1, <1>18, SendToWrapperKeeps
<1>19. CASE \E u \in Senders, a \in Assets, use \in BOOLEAN : ChooseCollateral(u, a, use)
  <2>1. PICK u \in Senders, a \in Assets, use \in BOOLEAN : ChooseCollateral(u, a, use)
    BY <1>19
  <2>2. idle /\ UseReserveAsCollateral(u, a, use) /\ UNCHANGED <<wallet, txn, saved>>
    BY <2>1 DEF ChooseCollateral
  <2> QED BY <1>1, <2>2, ATokenMovesKeep
<1>20. CASE UNCHANGED wrapperVars
  <2>1. UNCHANGED vars /\ UNCHANGED <<wallet, txn, saved>>
    BY <1>20 DEF wrapperVars
  <2>2. PoolInv'
    BY <2>1, NextInv DEF WrapperIInv
  <2>3. UNCHANGED <<stableDebt, variableDebt, borrowing, flash>>
    BY <2>1 DEF vars, tokenVars, flagVars
  <2> QED BY <2>1, <2>2, <2>3 DEF WrapperIInv, BetweenTransactions, InTransaction, Withdrawing,
      Looping, HoldsNothing, Held, DebtsSince, DebtOf
<1> QED BY <1>3, <1>4, <1>5, <1>6, <1>7, <1>8, <1>9, <1>10, <1>11, <1>12, <1>13, <1>14, <1>15,
           <1>16, <1>17, <1>18, <1>19, <1>20 DEF WrapperNext

LEMMA WrapperAlways == WrapperSpec => []WrapperIInv
BY WrapperInitInv, WrapperNextInv, PTL DEF WrapperSpec

\* Between transactions the wrapper owes nothing and holds no coin that a user
\* did not send it by mistake, whatever was called, by whom, and reverted where.
THEOREM WrapperCorrect == WrapperSpec => []WrapperInv
BY WrapperAlways, InvariantSuffices, PTL

\* The pool's own invariants hold under everything that is called through the
\* wrapper, in the middle of a transaction and after its revert.
THEOREM WrapperKeepsPool == WrapperSpec => []PoolInv
<1>1. WrapperIInv => PoolInv
  BY DEF WrapperIInv
<1> QED BY <1>1, WrapperAlways, PTL

\* In a transaction of several calls nobody comes to owe but its sender.
THEOREM WrapperOnlySenderBorrows == WrapperSpec => OnlySenderBorrows
<1>1. WrapperIInv /\ [WrapperNext]_wrapperVars =>
        \A t \in txn, u \in Users, a \in Assets : DebtOf(u, a)' > DebtOf(u, a) => t.sender = u
  <2> SUFFICES ASSUME WrapperIInv, [WrapperNext]_wrapperVars, NEW t \in txn, NEW u \in Users,
                      NEW a \in Assets, DebtOf(u, a)' > DebtOf(u, a)
               PROVE  t.sender = u
    OBVIOUS
  <2>1. txn = {t} /\ TypeOK
    BY UnderWay DEF PoolInv
  <2>2. DebtOf(u, a) \in Nat
    BY <2>1 DEF TypeOK, DebtOf
  <2>3. ~ idle
    BY <2>1 DEF idle
  <2>4. CASE WithdrawForEnd \/ ExecuteOperation \/ UNCHANGED wrapperVars
    <3>1. UNCHANGED <<stableDebt, variableDebt>>
      BY <2>4 DEF WithdrawForEnd, ExecuteOperation, Withdraw, Supply, wrapperVars, vars, tokenVars
    <3> QED BY <2>2, <3>1 DEF DebtOf
  <2>5. CASE LeverageDepositEnd
    <3>1. t.next = "repay" /\ FlashLoanEnd
      BY <2>1, <2>5 DEF LeverageDepositEnd
    <3>2. Looping(t)
      BY <3>1, LoopFacts
    <3>3. \A f \in flash : f.mode = "none"
      BY <3>2 DEF Looping
    <3>4. "none" \notin Modes
      BY PoolAssumption DEF Stable, Variable
    <3>5. UNCHANGED <<stableDebt, variableDebt>>
      BY <3>1, <3>3, <3>4 DEF FlashLoanEnd
    <3> QED BY <2>2, <3>5 DEF DebtOf
  <2>6. CASE ExecuteOperationBorrow
    <3>1. t.next = "borrow" /\ Borrow(t.user, t.asset, t.borrowAmount, Variable)
      BY <2>1, <2>6 DEF ExecuteOperationBorrow
    <3>2. /\ t.asset \in Assets /\ t.amount \in Nat /\ t.borrowAmount = t.amount
          /\ t.user \in Users /\ t.user = t.sender /\ PoolInv
      BY <3>1, LoopFacts
    <3>3. u # t.user => DebtOf(u, a)' = DebtOf(u, a)
      BY <3>1, <3>2, BorrowChanges
    <3> QED BY <2>2, <3>2, <3>3
  <2>7. CASE Revert
    <3>1. PICK s : saved = {s} /\ SavedInOrder(s) /\ DebtsSince(s)
      BY UnderWay
    <3>2. stableDebt' = s.stableDebt /\ variableDebt' = s.variableDebt
      BY <2>7, <3>1 DEF Revert
    <3>3. DebtOf(u, a)' <= DebtOf(u, a)
      BY <3>1, <3>2 DEF DebtsSince, DebtOf
    <3>4. DebtOf(u, a)' \in Nat
      BY <3>1, <3>2 DEF SavedInOrder, DebtOf
    <3> QED BY <2>2, <3>3, <3>4
  <2> QED BY <2>3, <2>4, <2>5, <2>6, <2>7 DEF WrapperNext, SupplyFor, BorrowFor, RepayERC20,
      RepayETH, WithdrawFor, LeverageDeposit, FlashLoanToWrapper, RescueToken, RescueAToken,
      SendAToken, SendToWrapper, ChooseCollateral
<1> QED BY <1>1, WrapperAlways, PTL DEF WrapperSpec, OnlySenderBorrows

-----------------------------------------------------------------------------
(* The wrapper implements its promise *)

\* x where account u and coin or asset a are meant, zero elsewhere.
At(b, v, a, u, x) == IF b = a /\ v = u THEN x ELSE 0

Ledgers == [Coins -> [Users -> Int]]

\* What u has of a coin changes by x, and nothing else does.
Moves(before, after, coin, u, x) ==
  /\ after \in Ledgers
  /\ \A c \in Coins, v \in Users : after[c][v] = before[c][v] + At(c, v, coin, u, x)

LEMMA PayMoves ==
  ASSUME NEW purses \in Ledgers, NEW coin \in Coins, NEW u \in Users, NEW x \in Int
  PROVE  Moves(purses, Pay(purses, coin, u, x), coin, u, -x)
<1> DEFINE purse == [purses[coin] EXCEPT ![u] = purses[coin][u] - x]
<1>1. \A c \in Coins : purses[c] \in [Users -> Int] /\ \A v \in Users : purses[c][v] \in Int
  BY DEF Ledgers
<1>2. /\ purse \in [Users -> Int]
      /\ \A v \in Users : purse[v] = purses[coin][v] + (IF v = u THEN -x ELSE 0)
  BY <1>1
<1>3. Pay(purses, coin, u, x) = [purses EXCEPT ![coin] = purse]
  BY DEF Pay
<1> HIDE DEF purse
<1> QED BY <1>1, <1>2, <1>3 DEF Ledgers, Moves, At

LEMMA ReceiveMoves ==
  ASSUME NEW purses \in Ledgers, NEW coin \in Coins, NEW u \in Users, NEW x \in Int
  PROVE  Moves(purses, Receive(purses, coin, u, x), coin, u, x)
<1> DEFINE purse == [purses[coin] EXCEPT ![u] = purses[coin][u] + x]
<1>1. \A c \in Coins : purses[c] \in [Users -> Int] /\ \A v \in Users : purses[c][v] \in Int
  BY DEF Ledgers
<1>2. /\ purse \in [Users -> Int]
      /\ \A v \in Users : purse[v] = purses[coin][v] + (IF v = u THEN x ELSE 0)
  BY <1>1
<1>3. Receive(purses, coin, u, x) = [purses EXCEPT ![coin] = purse]
  BY DEF Receive
<1> HIDE DEF purse
<1> QED BY <1>1, <1>2, <1>3 DEF Ledgers, Moves, At

LEMMA MovesLedger ==
  ASSUME NEW before, NEW after, NEW coin, NEW u, NEW x, Moves(before, after, coin, u, x)
  PROVE  after \in Ledgers
BY DEF Moves

\* What is paid in reaches the wrapper as the token: two moves in all.
LEMMA PaidInMoves ==
  ASSUME NEW purses \in Ledgers, NEW coin \in Coins, NEW u \in Users, NEW x \in Int
  PROVE  /\ PaidIn(purses, coin, u, x) \in Ledgers
         /\ \A c \in Coins, v \in Users :
              PaidIn(purses, coin, u, x)[c][v] =
                purses[c][v] + At(c, v, coin, u, -x) + At(c, v, AssetOf(coin), Wrapper, x)
<1> DEFINE p1 == Pay(purses, coin, u, x)
           p2 == Receive(p1, coin, Wrapper, x)
           p3 == Pay(p2, ETH, Wrapper, x)
           p4 == Receive(p3, WETH, Wrapper, x)
<1>1. PaidIn(purses, coin, u, x) = IF coin = ETH THEN p4 ELSE p2
  BY DEF PaidIn, Send, Wrap
<1>2. Wrapper \in Users /\ WETH \in Coins /\ ETH \in Coins
  BY WrapperAssumption, CoinTypes
<1>3. Moves(purses, p1, coin, u, -x)
  BY PayMoves
<1> HIDE DEF p1
<1>4. Moves(p1, p2, coin, Wrapper, x)
  BY <1>2, <1>3, MovesLedger, ReceiveMoves
<1> HIDE DEF p2
<1>5. Moves(p2, p3, ETH, Wrapper, -x)
  BY <1>2, <1>4, MovesLedger, PayMoves
<1> HIDE DEF p3
<1>6. Moves(p3, p4, WETH, Wrapper, x)
  BY <1>2, <1>5, MovesLedger, ReceiveMoves
<1> HIDE DEF p4
<1>7. ASSUME NEW c \in Coins, NEW v \in Users
      PROVE  PaidIn(purses, coin, u, x)[c][v] =
               purses[c][v] + At(c, v, coin, u, -x) + At(c, v, AssetOf(coin), Wrapper, x)
  <2>1. purses[c][v] \in Int
    BY DEF Ledgers
  <2>2. /\ p1[c][v] = purses[c][v] + At(c, v, coin, u, -x)
        /\ p2[c][v] = p1[c][v] + At(c, v, coin, Wrapper, x)
        /\ p3[c][v] = p2[c][v] + At(c, v, ETH, Wrapper, -x)
        /\ p4[c][v] = p3[c][v] + At(c, v, WETH, Wrapper, x)
    BY <1>3, <1>4, <1>5, <1>6 DEF Moves
  <2> QED BY <1>1, <2>1, <2>2 DEF At, AssetOf
<1> QED BY <1>1, <1>4, <1>6, <1>7, MovesLedger

\* What is paid out leaves the wrapper as the token.
LEMMA PaidOutMoves ==
  ASSUME NEW purses \in Ledgers, NEW coin \in Coins, NEW u \in Users, NEW x \in Int
  PROVE  /\ PaidOut(purses, coin, u, x) \in Ledgers
         /\ \A c \in Coins, v \in Users :
              PaidOut(purses, coin, u, x)[c][v] =
                purses[c][v] + At(c, v, AssetOf(coin), Wrapper, -x) + At(c, v, coin, u, x)
<1> DEFINE p1 == Pay(purses, WETH, Wrapper, x)
           p2 == Receive(p1, ETH, Wrapper, x)
           p3 == IF coin = ETH THEN p2 ELSE purses
           p4 == Pay(p3, coin, Wrapper, x)
           p5 == Receive(p4, coin, u, x)
<1>1. PaidOut(purses, coin, u, x) = p5 /\ p3 = IF coin = ETH THEN p2 ELSE purses
  BY DEF PaidOut, Send, Unwrap
<1>2. Wrapper \in Users /\ WETH \in Coins /\ ETH \in Coins
  BY WrapperAssumption, CoinTypes
<1>3. Moves(purses, p1, WETH, Wrapper, -x)
  BY <1>2, PayMoves
<1> HIDE DEF p1
<1>4. Moves(p1, p2, ETH, Wrapper, x)
  BY <1>2, <1>3, MovesLedger, ReceiveMoves
<1> HIDE DEF p2
<1>5. p3 \in Ledgers
  BY <1>4, MovesLedger
<1> HIDE DEF p3
<1>6. Moves(p3, p4, coin, Wrapper, -x)
  BY <1>2, <1>5, PayMoves
<1> HIDE DEF p4
<1>7. Moves(p4, p5, coin, u, x)
  BY <1>6, MovesLedger, ReceiveMoves
<1> HIDE DEF p5
<1>8. ASSUME NEW c \in Coins, NEW v \in Users
      PROVE  p5[c][v] = purses[c][v] + At(c, v, AssetOf(coin), Wrapper, -x) + At(c, v, coin, u, x)
  <2>1. purses[c][v] \in Int
    BY DEF Ledgers
  <2>2. /\ p1[c][v] = purses[c][v] + At(c, v, WETH, Wrapper, -x)
        /\ p2[c][v] = p1[c][v] + At(c, v, ETH, Wrapper, x)
        /\ p4[c][v] = p3[c][v] + At(c, v, coin, Wrapper, -x)
        /\ p5[c][v] = p4[c][v] + At(c, v, coin, u, x)
    BY <1>3, <1>4, <1>6, <1>7 DEF Moves
  <2> QED BY <1>1, <2>1, <2>2 DEF At, AssetOf
<1> QED BY <1>1, <1>7, <1>8, MovesLedger

-----------------------------------------------------------------------------
(* The pool's operations, entry by entry *)

Books(S) == [Assets -> [S -> Int]]

\* What u has of an asset changes by x in the books, and nothing else does.
Booked(S, before, after, a, u, x) ==
  /\ after \in Books(S)
  /\ \A b \in Assets, w \in S : after[b][w] = before[b][w] + At(b, w, a, u, x)

LEMMA CreditBooked ==
  ASSUME NEW S, NEW f \in Books(S), NEW a \in Assets, NEW u \in S, NEW x \in Int
  PROVE  Booked(S, f, Credit(f, a, u, x), a, u, x)
<1> DEFINE row == [f[a] EXCEPT ![u] = f[a][u] + x]
<1>1. \A b \in Assets : f[b] \in [S -> Int] /\ \A v \in S : f[b][v] \in Int
  BY DEF Books
<1>2. row \in [S -> Int] /\ \A v \in S : row[v] = f[a][v] + (IF v = u THEN x ELSE 0)
  BY <1>1
<1>3. Credit(f, a, u, x) = [f EXCEPT ![a] = row]
  BY DEF Credit
<1> HIDE DEF row
<1> QED BY <1>1, <1>2, <1>3 DEF Books, Booked, At

LEMMA DebitBooked ==
  ASSUME NEW S, NEW f \in Books(S), NEW a \in Assets, NEW u \in S, NEW x \in Int
  PROVE  Booked(S, f, Debit(f, a, u, x), a, u, -x)
<1> DEFINE row == [f[a] EXCEPT ![u] = f[a][u] - x]
<1>1. \A b \in Assets : f[b] \in [S -> Int] /\ \A v \in S : f[b][v] \in Int
  BY DEF Books
<1>2. row \in [S -> Int] /\ \A v \in S : row[v] = f[a][v] + (IF v = u THEN -x ELSE 0)
  BY <1>1
<1>3. Debit(f, a, u, x) = [f EXCEPT ![a] = row]
  BY DEF Debit
<1> HIDE DEF row
<1> QED BY <1>1, <1>2, <1>3 DEF Books, Booked, At

LEMMA BookTypes ==
  ASSUME PoolInv
  PROVE  /\ aToken \in Books(Holders)
         /\ stableDebt \in Books(Users) /\ variableDebt \in Books(Users)
         /\ \A u \in Users : u \in Holders
         /\ \A b \in Assets, w \in Users :
              /\ aToken[b][w] \in Nat /\ DebtOf(w, b) \in Nat
              /\ stableDebt[b][w] \in Nat /\ variableDebt[b][w] \in Nat
<1>1. /\ aToken \in [Assets -> [Holders -> Nat]]
      /\ stableDebt \in [Assets -> [Users -> Nat]] /\ variableDebt \in [Assets -> [Users -> Nat]]
  BY DEF PoolInv, TypeOK
<1>2. \A u \in Users : u \in Holders
  BY DEF Holders
<1>3. \A S : \A f \in [Assets -> [S -> Nat]] :
        f \in Books(S) /\ \A b \in Assets, w \in S : f[b][w] \in Nat
  BY DEF Books
<1>4. \A b \in Assets, w \in Users :
        aToken[b][w] \in Nat /\ stableDebt[b][w] \in Nat /\ variableDebt[b][w] \in Nat
  BY <1>1, <1>2, <1>3
<1>5. \A b \in Assets, w \in Users : DebtOf(w, b) \in Nat
  BY <1>4 DEF DebtOf
<1> QED BY <1>1, <1>2, <1>3, <1>4, <1>5

LEMMA DebtsStay ==
  ASSUME PoolInv, UNCHANGED <<stableDebt, variableDebt>>
  PROVE  \A b \in Assets, w \in Users : DebtOf(w, b)' = DebtOf(w, b)
BY DEF DebtOf

LEMMA SupplyEntries ==
  ASSUME PoolInv, NEW u, NEW v \in Users, NEW a \in Assets, NEW x \in Nat, Supply(u, v, a, x)
  PROVE  \A b \in Assets, w \in Users :
           aToken'[b][w] = aToken[b][w] + At(b, w, a, v, x) /\ DebtOf(w, b)' = DebtOf(w, b)
<1>1. aToken' = Credit(aToken, a, v, x) /\ UNCHANGED <<stableDebt, variableDebt>>
  BY DEF Supply
<1>2. Booked(Holders, aToken, aToken', a, v, x)
  BY <1>1, BookTypes, CreditBooked
<1> QED BY <1>1, <1>2, BookTypes, DebtsStay DEF Booked

LEMMA WithdrawEntries ==
  ASSUME PoolInv, NEW u \in Users, NEW a \in Assets, NEW x \in Nat, Withdraw(u, a, x)
  PROVE  \A b \in Assets, w \in Users :
           aToken'[b][w] = aToken[b][w] + At(b, w, a, u, -x) /\ DebtOf(w, b)' = DebtOf(w, b)
<1>1. aToken' = Debit(aToken, a, u, x) /\ UNCHANGED <<stableDebt, variableDebt>>
  BY DEF Withdraw
<1>2. Booked(Holders, aToken, aToken', a, u, -x)
  BY <1>1, BookTypes, DebitBooked
<1> QED BY <1>1, <1>2, BookTypes, DebtsStay DEF Booked

LEMMA TransferEntries ==
  ASSUME PoolInv, NEW u \in Users, NEW v \in Users, NEW a \in Assets, NEW x \in Nat,
         Transfer(u, v, a, x)
  PROVE  /\ x <= aToken[a][u]
         /\ \A b \in Assets, w \in Users :
              /\ aToken'[b][w] = aToken[b][w] + At(b, w, a, u, -x) + At(b, w, a, v, x)
              /\ DebtOf(w, b)' = DebtOf(w, b)
<1>1. x <= aToken[a][u] /\ UNCHANGED <<stableDebt, variableDebt>>
  BY DEF Transfer
<1>2. CASE u = v \/ x = 0
  <2>1. aToken' = aToken
    BY <1>2 DEF Transfer
  <2> QED BY <1>1, <1>2, <2>1, BookTypes, DebtsStay DEF At
<1>3. CASE ~ (u = v \/ x = 0)
  <2> DEFINE f == Debit(aToken, a, u, x)
  <2>1. aToken' = Credit(f, a, v, x)
    BY <1>3 DEF Transfer
  <2>2. Booked(Holders, aToken, f, a, u, -x)
    BY BookTypes, DebitBooked
  <2> HIDE DEF f
  <2>3. f \in Books(Holders)
    BY <2>2 DEF Booked
  <2>4. Booked(Holders, f, aToken', a, v, x)
    BY <2>1, <2>3, BookTypes, CreditBooked
  <2>5. \A b \in Assets, w \in Users : f[b][w] = aToken[b][w] + At(b, w, a, u, -x)
                                       /\ aToken'[b][w] = f[b][w] + At(b, w, a, v, x)
    BY <2>2, <2>4, BookTypes DEF Booked
  <2> QED BY <1>1, <2>5, DebtsStay
<1> QED BY <1>2, <1>3

LEMMA BorrowEntries ==
  ASSUME PoolInv, NEW u \in Users, NEW a \in Assets, NEW x \in Nat, NEW mode,
         Borrow(u, a, x, mode)
  PROVE  \A b \in Assets, w \in Users :
           aToken'[b][w] = aToken[b][w] /\ DebtOf(w, b)' = DebtOf(w, b) + At(b, w, a, u, x)
<1>1. aToken' = aToken
  BY DEF Borrow, AddDebt
<1>2. CASE stableDebt' = Credit(stableDebt, a, u, x) /\ UNCHANGED variableDebt
  <2>1. Booked(Users, stableDebt, stableDebt', a, u, x)
    BY <1>2, BookTypes, CreditBooked
  <2> QED BY <1>1, <1>2, <2>1, BookTypes DEF Booked, DebtOf, At
<1>3. CASE variableDebt' = Credit(variableDebt, a, u, x) /\ UNCHANGED stableDebt
  <2>1. Booked(Users, variableDebt, variableDebt', a, u, x)
    BY <1>3, BookTypes, CreditBooked
  <2> QED BY <1>1, <1>3, <2>1, BookTypes DEF Booked, DebtOf, At
<1> QED BY <1>2, <1>3 DEF Borrow, AddDebt

\* What a repayment of an amount takes of the debt.
Repaid(v, a, amount, mode) ==
  IF amount < DebtOfMode(v, a, mode) THEN amount ELSE DebtOfMode(v, a, mode)

LEMMA RepayEntries ==
  ASSUME PoolInv, NEW v \in Users, NEW a \in Assets, NEW amount \in Nat,
         NEW mode \in {Stable, Variable}, Repay(v, a, amount, mode)
  PROVE  /\ Repaid(v, a, amount, mode) \in Nat /\ Repaid(v, a, amount, mode) <= DebtOf(v, a)
         /\ \A b \in Assets, w \in Users :
              /\ aToken'[b][w] = aToken[b][w]
              /\ DebtOf(w, b)' = DebtOf(w, b) + At(b, w, a, v, -Repaid(v, a, amount, mode))
<1> DEFINE paid == Repaid(v, a, amount, mode)
<1>1. aToken' = aToken /\ PayOff(v, a, paid, mode)
  BY DEF Repay, Repaid
<1>2. DebtOfMode(v, a, mode) \in Nat /\ DebtOfMode(v, a, mode) <= DebtOf(v, a)
  BY BookTypes DEF DebtOfMode, DebtOf
<1>3. paid \in Nat /\ paid <= DebtOf(v, a)
  <2>1. DebtOf(v, a) \in Nat
    BY BookTypes
  <2> QED BY <1>2, <2>1 DEF Repaid
<1> HIDE DEF paid
<1>4. CASE stableDebt' = Debit(stableDebt, a, v, paid) /\ UNCHANGED variableDebt
  <2>1. Booked(Users, stableDebt, stableDebt', a, v, -paid)
    BY <1>3, <1>4, BookTypes, DebitBooked
  <2>2. \A b \in Assets, w \in Users : DebtOf(w, b)' = DebtOf(w, b) + At(b, w, a, v, -paid)
    BY <1>3, <1>4, <2>1, BookTypes DEF Booked, DebtOf, At
  <2> QED BY <1>1, <1>3, <2>2 DEF paid
<1>5. CASE variableDebt' = Debit(variableDebt, a, v, paid) /\ UNCHANGED stableDebt
  <2>1. Booked(Users, variableDebt, variableDebt', a, v, -paid)
    BY <1>3, <1>5, BookTypes, DebitBooked
  <2>2. \A b \in Assets, w \in Users : DebtOf(w, b)' = DebtOf(w, b) + At(b, w, a, v, -paid)
    BY <1>3, <1>5, <2>1, BookTypes DEF Booked, DebtOf, At
  <2> QED BY <1>1, <1>3, <2>2 DEF paid
<1> QED BY <1>1, <1>4, <1>5 DEF PayOff

-----------------------------------------------------------------------------
(* What the promise sees of the wrapper *)

SeenCoins == IF idle THEN wallet ELSE (CHOOSE s \in saved : TRUE).wallet
SeenClaims ==
  [a \in Assets |-> [u \in Users |->
     IF idle THEN aToken[a][u] ELSE (CHOOSE s \in saved : TRUE).aToken[a][u]]]
SeenDebts ==
  [a \in Assets |-> [u \in Users |->
     IF idle THEN DebtOf(u, a)
     ELSE LET s == CHOOSE s \in saved : TRUE IN s.stableDebt[a][u] + s.variableDebt[a][u]]]

LedgersOf(S) == [S -> [Users -> Nat]]

LEMMA SeenTypes ==
  ASSUME WrapperIInv
  PROVE  /\ SeenCoins \in LedgersOf(Coins)
         /\ SeenClaims \in LedgersOf(Assets) /\ SeenDebts \in LedgersOf(Assets)
<1>1. CASE idle
  <2>1. wallet \in LedgersOf(Coins)
    BY DEF WrapperIInv, Wallets, LedgersOf
  <2>2. \A a \in Assets, u \in Users : aToken[a][u] \in Nat /\ DebtOf(u, a) \in Nat
    BY BookTypes DEF WrapperIInv
  <2> QED BY <1>1, <2>1, <2>2 DEF SeenCoins, SeenClaims, SeenDebts, LedgersOf
<1>2. CASE ~ idle
  <2>1. PICK t \in txn : TRUE
    BY <1>2 DEF idle
  <2>2. PICK s : saved = {s} /\ SavedInOrder(s)
    BY <2>1, UnderWay
  <2>3. (CHOOSE r \in saved : TRUE) = s
    BY <2>2
  <2>4. /\ s.wallet \in LedgersOf(Coins)
        /\ \A a \in Assets, u \in Users :
             /\ s.aToken[a][u] \in Nat
             /\ s.stableDebt[a][u] + s.variableDebt[a][u] \in Nat
    <3>1. \A a \in Assets, u \in Users : s.stableDebt[a][u] \in Nat /\ s.variableDebt[a][u] \in Nat
      BY <2>2 DEF SavedInOrder
    <3>2. \A a \in Assets, u \in Users : s.aToken[a][u] \in Nat
      BY <2>2 DEF SavedInOrder, Holders
    <3> QED BY <2>2, <3>1, <3>2 DEF SavedInOrder, Wallets, LedgersOf
  <2> QED BY <1>2, <2>3, <2>4 DEF SeenCoins, SeenClaims, SeenDebts, LedgersOf
<1> QED BY <1>1, <1>2

\* Between transactions it sees what is, within one what is saved.
LEMMA SeenIdle ==
  ASSUME idle
  PROVE  /\ SeenCoins = wallet
         /\ \A a \in Assets, u \in Users :
              SeenClaims[a][u] = aToken[a][u] /\ SeenDebts[a][u] = DebtOf(u, a)
BY DEF SeenCoins, SeenClaims, SeenDebts

LEMMA SeenIdleNext ==
  ASSUME idle'
  PROVE  /\ SeenCoins' = wallet'
         /\ \A a \in Assets, u \in Users :
              SeenClaims'[a][u] = aToken'[a][u] /\ SeenDebts'[a][u] = DebtOf(u, a)'
BY DEF SeenCoins, SeenClaims, SeenDebts

LEMMA SeenSaved ==
  ASSUME ~ idle, NEW s, saved = {s}
  PROVE  /\ SeenCoins = s.wallet
         /\ \A a \in Assets, u \in Users :
              /\ SeenClaims[a][u] = s.aToken[a][u]
              /\ SeenDebts[a][u] = s.stableDebt[a][u] + s.variableDebt[a][u]
<1>1. (CHOOSE r \in saved : TRUE) = s
  OBVIOUS
<1> QED BY <1>1 DEF SeenCoins, SeenClaims, SeenDebts

LEMMA SeenSavedNext ==
  ASSUME ~ idle', NEW s, saved' = {s}
  PROVE  /\ SeenCoins' = s.wallet
         /\ \A a \in Assets, u \in Users :
              /\ SeenClaims'[a][u] = s.aToken[a][u]
              /\ SeenDebts'[a][u] = s.stableDebt[a][u] + s.variableDebt[a][u]
<1>1. (CHOOSE r \in saved' : TRUE) = s
  OBVIOUS
<1> QED BY <1>1 DEF SeenCoins, SeenClaims, SeenDebts

-----------------------------------------------------------------------------
(* The operations of the promise *)

\* What u has of a changes by x from f to g, and nothing else does; or nothing.
Change(S, f, g, a, u, x) == \A c \in S, w \in Users : g[c][w] = f[c][w] + At(c, w, a, u, x)
Same(S, f, g) == \A c \in S, w \in Users : g[c][w] = f[c][w]

LEMMA ChangedOnce ==
  ASSUME NEW S, NEW f \in LedgersOf(S), NEW g \in LedgersOf(S), NEW a \in S, NEW u \in Users,
         NEW x \in Int, Change(S, f, g, a, u, x)
  PROVE  g = Promise!Changed(f, a, u, x)
<1> DEFINE row == [f[a] EXCEPT ![u] = f[a][u] + x]
<1>1. \A c \in S : /\ f[c] \in [Users -> Nat] /\ g[c] \in [Users -> Nat]
                   /\ \A w \in Users : f[c][w] \in Nat /\ g[c][w] \in Nat
  BY DEF LedgersOf
<1>2. \A w \in Users : row[w] = g[a][w]
  BY <1>1 DEF At, Change
<1>3. row \in [Users -> Int]
  BY <1>1
<1>4. g[a] = row
  <2> HIDE DEF row
  <2>1. g[a] \in [Users -> Int]
    BY <1>1
  <2> QED BY <1>2, <1>3, <2>1
<1>5. \A c \in S : c # a => g[c] = f[c]
  <2> SUFFICES ASSUME NEW c \in S, c # a PROVE g[c] = f[c]
    OBVIOUS
  <2>1. \A w \in Users : g[c][w] = f[c][w]
    BY <1>1 DEF At, Change
  <2> QED BY <1>1, <2>1
<1>6. Promise!Changed(f, a, u, x) = [f EXCEPT ![a] = row]
  BY DEF Promise!Changed
<1> HIDE DEF row
<1> QED BY <1>4, <1>5, <1>6 DEF LedgersOf

LEMMA ChangedTwice ==
  ASSUME NEW S, NEW f \in LedgersOf(S), NEW g \in LedgersOf(S), NEW a \in S, NEW u \in Users,
         NEW v \in Users, NEW x \in Nat, x <= f[a][u],
         \A c \in S, w \in Users : g[c][w] = f[c][w] + At(c, w, a, u, -x) + At(c, w, a, v, x)
  PROVE  g = Promise!Changed(Promise!Changed(f, a, u, -x), a, v, x)
<1> DEFINE h == Promise!Changed(f, a, u, -x)
           row == [f[a] EXCEPT ![u] = f[a][u] + (-x)]
<1>1. \A c \in S : /\ f[c] \in [Users -> Nat]
                   /\ \A w \in Users : f[c][w] \in Nat /\ g[c][w] \in Nat
  BY DEF LedgersOf
<1>2. row \in [Users -> Nat] /\ \A w \in Users : row[w] = f[a][w] + (IF w = u THEN -x ELSE 0)
  BY <1>1
<1>3. h = [f EXCEPT ![a] = row]
  BY DEF Promise!Changed
<1> HIDE DEF row
<1>4. h \in LedgersOf(S)
  BY <1>2, <1>3 DEF LedgersOf
<1>5. \A c \in S : h[c] = IF c = a THEN row ELSE f[c]
  BY <1>3 DEF LedgersOf
<1> HIDE DEF h
<1>6. Change(S, h, g, a, v, x)
  <2> SUFFICES ASSUME NEW c \in S, NEW w \in Users PROVE g[c][w] = h[c][w] + At(c, w, a, v, x)
    BY DEF Change
  <2>1. h[c][w] = f[c][w] + At(c, w, a, u, -x)
    BY <1>1, <1>2, <1>5 DEF At
  <2> QED BY <2>1
<1>7. g = Promise!Changed(h, a, v, x)
  BY <1>4, <1>6, ChangedOnce
<1> QED BY <1>7 DEF h

LEMMA Unchanged ==
  ASSUME NEW S, NEW f \in LedgersOf(S), NEW g \in LedgersOf(S),
         Same(S, f, g)
  PROVE  g = f
<1>1. \A c \in S : f[c] \in [Users -> Nat] /\ g[c] \in [Users -> Nat]
  BY DEF LedgersOf
<1>2. \A c \in S : g[c] = f[c]
  BY <1>1 DEF Same
<1> QED BY <1>2 DEF LedgersOf

\* Its ledgers are ledgers before and after.
LedgersSeen ==
  /\ SeenCoins \in LedgersOf(Coins) /\ SeenCoins' \in LedgersOf(Coins)
  /\ SeenClaims \in LedgersOf(Assets) /\ SeenClaims' \in LedgersOf(Assets)
  /\ SeenDebts \in LedgersOf(Assets) /\ SeenDebts' \in LedgersOf(Assets)

LEMMA CoinOfAsset ==
  /\ Wrapper \in Users /\ \A u \in Senders : u \in Users /\ u # Wrapper
  /\ \A a \in Assets : Promise!CoinsFor(a) \subseteq Coins
  /\ \A coin \in Coins : AssetOf(coin) \in Assets /\ coin \in Promise!CoinsFor(AssetOf(coin))
  /\ \A a \in Assets : a \in Promise!CoinsFor(a)
  /\ Promise!Coins = Coins
BY WrapperAssumption, CoinTypes DEF Promise!CoinsFor, Promise!Coins, AssetOf, Senders, Coins

LEMMA PromisedSupply ==
  ASSUME LedgersSeen, Moved = Nat, NEW u \in Senders, NEW v \in Users, NEW a \in Assets,
         NEW coin \in Promise!CoinsFor(a), NEW x \in Nat, x <= SeenCoins[coin][u],
         Change(Coins, SeenCoins, SeenCoins', coin, u, -x),
         Change(Assets, SeenClaims, SeenClaims', a, v, x), Same(Assets, SeenDebts, SeenDebts')
  PROVE  Promise!Next
<1>1. u \in Users /\ u # Wrapper /\ coin \in Coins
  BY CoinOfAsset
<1>2. SeenCoins' = Promise!Changed(SeenCoins, coin, u, -x)
  BY <1>1, ChangedOnce DEF LedgersSeen
<1>3. SeenClaims' = Promise!Changed(SeenClaims, a, v, x)
  BY ChangedOnce DEF LedgersSeen
<1>4. SeenDebts' = SeenDebts
  BY Unchanged DEF LedgersSeen
<1>5. Promise!Supply(u, v, a, coin, x)
  BY <1>2, <1>3, <1>4 DEF Promise!Supply, SeenCoins, SeenClaims, SeenDebts
<1> QED BY <1>1, <1>5 DEF Promise!Next

LEMMA PromisedWithdraw ==
  ASSUME LedgersSeen, Moved = Nat, NEW u \in Senders, NEW v \in Users, NEW a \in Assets,
         NEW coin \in Promise!CoinsFor(a), NEW x \in Nat, x <= SeenClaims[a][u],
         Change(Coins, SeenCoins, SeenCoins', coin, v, x),
         Change(Assets, SeenClaims, SeenClaims', a, u, -x), Same(Assets, SeenDebts, SeenDebts')
  PROVE  Promise!Next
<1>1. u \in Users /\ u # Wrapper /\ coin \in Coins
  BY CoinOfAsset
<1>2. SeenCoins' = Promise!Changed(SeenCoins, coin, v, x)
  BY <1>1, ChangedOnce DEF LedgersSeen
<1>3. SeenClaims' = Promise!Changed(SeenClaims, a, u, -x)
  BY <1>1, ChangedOnce DEF LedgersSeen
<1>4. SeenDebts' = SeenDebts
  BY Unchanged DEF LedgersSeen
<1>5. Promise!Withdraw(u, v, a, coin, x)
  BY <1>2, <1>3, <1>4 DEF Promise!Withdraw, SeenCoins, SeenClaims, SeenDebts
<1> QED BY <1>1, <1>5 DEF Promise!Next

LEMMA PromisedBorrow ==
  ASSUME LedgersSeen, Moved = Nat, NEW u \in Senders, NEW a \in Assets,
         NEW coin \in Promise!CoinsFor(a), NEW x \in Nat,
         Change(Coins, SeenCoins, SeenCoins', coin, u, x),
         Same(Assets, SeenClaims, SeenClaims'), Change(Assets, SeenDebts, SeenDebts', a, u, x)
  PROVE  Promise!Next
<1>1. u \in Users /\ u # Wrapper /\ coin \in Coins
  BY CoinOfAsset
<1>2. SeenCoins' = Promise!Changed(SeenCoins, coin, u, x)
  BY <1>1, ChangedOnce DEF LedgersSeen
<1>3. SeenClaims' = SeenClaims
  BY Unchanged DEF LedgersSeen
<1>4. SeenDebts' = Promise!Changed(SeenDebts, a, u, x)
  BY <1>1, ChangedOnce DEF LedgersSeen
<1>5. Promise!Borrow(u, a, coin, x)
  BY <1>2, <1>3, <1>4 DEF Promise!Borrow, SeenCoins, SeenClaims, SeenDebts
<1> QED BY <1>1, <1>5 DEF Promise!Next

LEMMA PromisedRepay ==
  ASSUME LedgersSeen, Moved = Nat, NEW u \in Senders, NEW v \in Users, NEW a \in Assets,
         NEW coin \in Promise!CoinsFor(a), NEW x \in Nat,
         x <= SeenDebts[a][v], x <= SeenCoins[coin][u],
         Change(Coins, SeenCoins, SeenCoins', coin, u, -x),
         Same(Assets, SeenClaims, SeenClaims'), Change(Assets, SeenDebts, SeenDebts', a, v, -x)
  PROVE  Promise!Next
<1>1. u \in Users /\ u # Wrapper /\ coin \in Coins
  BY CoinOfAsset
<1>2. SeenCoins' = Promise!Changed(SeenCoins, coin, u, -x)
  BY <1>1, ChangedOnce DEF LedgersSeen
<1>3. SeenClaims' = SeenClaims
  BY Unchanged DEF LedgersSeen
<1>4. SeenDebts' = Promise!Changed(SeenDebts, a, v, -x)
  BY ChangedOnce DEF LedgersSeen
<1>5. Promise!Repay(u, v, a, coin, x)
  BY <1>2, <1>3, <1>4 DEF Promise!Repay, SeenCoins, SeenClaims, SeenDebts
<1> QED BY <1>1, <1>5 DEF Promise!Next

LEMMA PromisedLeverageDeposit ==
  ASSUME LedgersSeen, Moved = Nat, NEW u \in Senders, NEW a \in Assets,
         NEW coin \in Promise!CoinsFor(a), NEW x \in Nat, NEW y \in Nat, x <= SeenCoins[coin][u],
         Change(Coins, SeenCoins, SeenCoins', coin, u, -x),
         Change(Assets, SeenClaims, SeenClaims', a, u, x + y),
         Change(Assets, SeenDebts, SeenDebts', a, u, y)
  PROVE  Promise!Next
<1>1. u \in Users /\ u # Wrapper /\ coin \in Coins
  BY CoinOfAsset
<1>2. SeenCoins' = Promise!Changed(SeenCoins, coin, u, -x)
  BY <1>1, ChangedOnce DEF LedgersSeen
<1>3. SeenClaims' = Promise!Changed(SeenClaims, a, u, x + y)
  BY <1>1, ChangedOnce DEF LedgersSeen
<1>4. SeenDebts' = Promise!Changed(SeenDebts, a, u, y)
  BY <1>1, ChangedOnce DEF LedgersSeen
<1>5. Promise!LeverageDeposit(u, a, coin, x, y)
  BY <1>2, <1>3, <1>4 DEF Promise!LeverageDeposit, SeenCoins, SeenClaims, SeenDebts
<1> QED BY <1>1, <1>5 DEF Promise!Next

LEMMA PromisedSendClaims ==
  ASSUME LedgersSeen, Moved = Nat, NEW u \in Users, NEW v \in Users, NEW a \in Assets,
         NEW x \in Nat, x <= SeenClaims[a][u],
         \A b \in Assets, w \in Users :
           SeenClaims'[b][w] = SeenClaims[b][w] + At(b, w, a, u, -x) + At(b, w, a, v, x),
         Same(Coins, SeenCoins, SeenCoins'), Same(Assets, SeenDebts, SeenDebts')
  PROVE  Promise!Next
<1>1. SeenClaims' = Promise!Changed(Promise!Changed(SeenClaims, a, u, -x), a, v, x)
  BY ChangedTwice DEF LedgersSeen
<1>2. SeenCoins' = SeenCoins /\ SeenDebts' = SeenDebts
  BY Unchanged DEF LedgersSeen
<1>3. Promise!SendClaims(u, v, a, x)
  BY <1>1, <1>2 DEF Promise!SendClaims, SeenCoins, SeenClaims, SeenDebts
<1> QED BY <1>3 DEF Promise!Next

LEMMA PromisedSendCoins ==
  ASSUME LedgersSeen, Moved = Nat, NEW u \in Users, NEW v \in Users, Wrapper \in {u, v},
         NEW coin \in Coins, NEW x \in Nat, x <= SeenCoins[coin][u],
         \A c \in Coins, w \in Users :
           SeenCoins'[c][w] = SeenCoins[c][w] + At(c, w, coin, u, -x) + At(c, w, coin, v, x),
         Same(Assets, SeenClaims, SeenClaims'), Same(Assets, SeenDebts, SeenDebts')
  PROVE  Promise!Next
<1>1. SeenCoins' = Promise!Changed(Promise!Changed(SeenCoins, coin, u, -x), coin, v, x)
  BY ChangedTwice DEF LedgersSeen
<1>2. SeenClaims' = SeenClaims /\ SeenDebts' = SeenDebts
  BY Unchanged DEF LedgersSeen
<1>3. Promise!SendCoins(u, v, coin, x)
  BY <1>1, <1>2 DEF Promise!SendCoins, SeenCoins, SeenClaims, SeenDebts
<1> QED BY <1>3, CoinOfAsset DEF Promise!Next

LEMMA PromisedNothing ==
  ASSUME LedgersSeen, Same(Coins, SeenCoins, SeenCoins'),
         Same(Assets, SeenClaims, SeenClaims'), Same(Assets, SeenDebts, SeenDebts')
  PROVE  UNCHANGED Promise!vars
<1>1. SeenCoins' = SeenCoins /\ SeenClaims' = SeenClaims /\ SeenDebts' = SeenDebts
  BY Unchanged DEF LedgersSeen
<1> QED BY <1>1 DEF Promise!vars, SeenCoins, SeenClaims, SeenDebts

-----------------------------------------------------------------------------
(* A transaction with one call is one operation *)

SeenInOrder ==
  /\ SeenCoins \in LedgersOf(Coins)
  /\ SeenClaims \in LedgersOf(Assets) /\ SeenDebts \in LedgersOf(Assets)

LEMMA AlwaysLedgers == WrapperIInv => SeenInOrder
BY SeenTypes DEF SeenInOrder

LEMMA LedgersBoth == WrapperIInv /\ WrapperIInv' => LedgersSeen
<1>1. WrapperIInv' => SeenInOrder'
  BY AlwaysLedgers, PTL
<1> QED BY <1>1, AlwaysLedgers DEF LedgersSeen, SeenInOrder

LEMMA WalletLedger ==
  ASSUME WrapperIInv
  PROVE  wallet \in Ledgers /\ \A c \in Coins, w \in Users : wallet[c][w] \in Nat
<1>1. wallet \in [Coins -> [Users -> Nat]]
  BY DEF WrapperIInv, Wallets
<1> QED BY <1>1 DEF Ledgers

\* Between transactions, what is seen changes as the books do.
LEMMA OneCall ==
  ASSUME WrapperIInv, WrapperIInv', idle, UNCHANGED txn
  PROVE  /\ LedgersSeen /\ PoolInv
         /\ SeenCoins = wallet /\ SeenCoins' = wallet'
         /\ \A b \in Assets, w \in Users :
              /\ SeenClaims[b][w] = aToken[b][w] /\ SeenClaims'[b][w] = aToken'[b][w]
              /\ SeenDebts[b][w] = DebtOf(w, b) /\ SeenDebts'[b][w] = DebtOf(w, b)'
<1>1. idle'
  BY DEF idle
<1> QED BY <1>1, LedgersBoth, SeenIdle, SeenIdleNext DEF WrapperIInv

LEMMA SupplyForPromised ==
  ASSUME WrapperIInv, WrapperIInv', Moved = Nat, NEW u \in Senders, NEW coin \in Coins,
         NEW x \in Nat, NEW v \in Users, SupplyFor(u, coin, x, v)
  PROVE  Promise!Next
<1> DEFINE a == AssetOf(coin)
           p == PaidIn(wallet, coin, u, x)
           q == Pay(p, a, Wrapper, x)
<1>1. /\ idle /\ x <= wallet[coin][u] /\ Supply(Wrapper, v, a, x) /\ wallet' = q
      /\ UNCHANGED <<txn, saved>>
  BY DEF SupplyFor
<1>2. /\ u \in Users /\ Wrapper \in Users /\ a \in Assets /\ a \in Coins
      /\ coin \in Promise!CoinsFor(a)
  BY CoinOfAsset, CoinTypes
<1>3. p \in Ledgers /\ \A c \in Coins, w \in Users :
        p[c][w] = wallet[c][w] + At(c, w, coin, u, -x) + At(c, w, a, Wrapper, x)
  BY <1>2, WalletLedger, PaidInMoves
<1> HIDE DEF a, p
<1>4. Moves(p, q, a, Wrapper, -x)
  BY <1>2, <1>3, PayMoves
<1> HIDE DEF q
<1>5. Change(Coins, wallet, wallet', coin, u, -x)
  <2> SUFFICES ASSUME NEW c \in Coins, NEW w \in Users
               PROVE  q[c][w] = wallet[c][w] + At(c, w, coin, u, -x)
    BY <1>1 DEF Change
  <2>1. /\ p[c][w] = wallet[c][w] + At(c, w, coin, u, -x) + At(c, w, a, Wrapper, x)
        /\ q[c][w] = p[c][w] + At(c, w, a, Wrapper, -x)
    BY <1>3, <1>4 DEF Moves
  <2>2. wallet[c][w] \in Nat
    BY WalletLedger
  <2> QED BY <2>1, <2>2 DEF At
<1>6. /\ LedgersSeen /\ PoolInv /\ SeenCoins = wallet /\ SeenCoins' = wallet'
      /\ \A b \in Assets, w \in Users :
           /\ SeenClaims[b][w] = aToken[b][w] /\ SeenClaims'[b][w] = aToken'[b][w]
           /\ SeenDebts[b][w] = DebtOf(w, b) /\ SeenDebts'[b][w] = DebtOf(w, b)'
  BY <1>1, OneCall
<1>7. Change(Assets, SeenClaims, SeenClaims', a, v, x) /\ Same(Assets, SeenDebts, SeenDebts')
  <2>1. \A b \in Assets, w \in Users :
          aToken'[b][w] = aToken[b][w] + At(b, w, a, v, x) /\ DebtOf(w, b)' = DebtOf(w, b)
    BY <1>1, <1>2, <1>6, SupplyEntries
  <2> QED BY <1>6, <2>1 DEF Change, Same
<1> QED BY <1>1, <1>2, <1>5, <1>6, <1>7, PromisedSupply

LEMMA BorrowForPromised ==
  ASSUME WrapperIInv, WrapperIInv', Moved = Nat, NEW u \in Senders, NEW coin \in Coins,
         NEW x \in Nat, NEW mode \in {Stable, Variable}, BorrowFor(u, coin, x, mode)
  PROVE  Promise!Next
<1> DEFINE a == AssetOf(coin)
           p == Receive(wallet, a, Wrapper, x)
           q == PaidOut(p, coin, u, x)
<1>1. idle /\ Borrow(u, a, x, mode) /\ wallet' = q /\ UNCHANGED <<txn, saved>>
  BY DEF BorrowFor
<1>2. /\ u \in Users /\ Wrapper \in Users /\ a \in Assets /\ a \in Coins
      /\ coin \in Promise!CoinsFor(a)
      /\ a = AssetOf(coin)
  BY CoinOfAsset, CoinTypes
<1> HIDE DEF a
<1>3. Moves(wallet, p, a, Wrapper, x)
  BY <1>2, WalletLedger, ReceiveMoves
<1> HIDE DEF p
<1>4. \A c \in Coins, w \in Users :
        q[c][w] = p[c][w] + At(c, w, a, Wrapper, -x) + At(c, w, coin, u, x)
  BY <1>2, <1>3, MovesLedger, PaidOutMoves
<1> HIDE DEF q
<1>5. Change(Coins, wallet, wallet', coin, u, x)
  <2> SUFFICES ASSUME NEW c \in Coins, NEW w \in Users
               PROVE  q[c][w] = wallet[c][w] + At(c, w, coin, u, x)
    BY <1>1 DEF Change
  <2>1. /\ p[c][w] = wallet[c][w] + At(c, w, a, Wrapper, x)
        /\ q[c][w] = p[c][w] + At(c, w, a, Wrapper, -x) + At(c, w, coin, u, x)
    BY <1>3, <1>4 DEF Moves
  <2>2. wallet[c][w] \in Nat
    BY WalletLedger
  <2> QED BY <2>1, <2>2 DEF At
<1>6. /\ LedgersSeen /\ PoolInv /\ SeenCoins = wallet /\ SeenCoins' = wallet'
      /\ \A b \in Assets, w \in Users :
           /\ SeenClaims[b][w] = aToken[b][w] /\ SeenClaims'[b][w] = aToken'[b][w]
           /\ SeenDebts[b][w] = DebtOf(w, b) /\ SeenDebts'[b][w] = DebtOf(w, b)'
  BY <1>1, OneCall
<1>7. Same(Assets, SeenClaims, SeenClaims') /\ Change(Assets, SeenDebts, SeenDebts', a, u, x)
  <2>1. \A b \in Assets, w \in Users :
          aToken'[b][w] = aToken[b][w] /\ DebtOf(w, b)' = DebtOf(w, b) + At(b, w, a, u, x)
    BY <1>1, <1>2, <1>6, BorrowEntries
  <2> QED BY <1>6, <2>1 DEF Change, Same
<1> QED BY <1>1, <1>2, <1>5, <1>6, <1>7, PromisedBorrow

LEMMA RepayERC20Promised ==
  ASSUME WrapperIInv, WrapperIInv', Moved = Nat, NEW u \in Senders, NEW a \in Assets,
         NEW x \in Nat, NEW mode \in {Stable, Variable}, NEW v \in Senders,
         RepayERC20(u, a, x, mode, v)
  PROVE  Promise!Next
<1> DEFINE paid == Repaid(v, a, x, mode)
           p1 == Pay(wallet, a, u, paid)
           p2 == Receive(p1, a, Wrapper, paid)
           q == Pay(p2, a, Wrapper, paid)
<1>1. /\ idle /\ paid <= wallet[a][u] /\ Repay(v, a, paid, mode) /\ wallet' = q
      /\ UNCHANGED <<txn, saved>>
  BY DEF RepayERC20, Send, Repaid
<1>2. /\ u \in Users /\ v \in Users /\ Wrapper \in Users /\ a \in Coins
      /\ a \in Promise!CoinsFor(a)
  BY CoinOfAsset, CoinTypes
<1>3. /\ LedgersSeen /\ PoolInv /\ SeenCoins = wallet /\ SeenCoins' = wallet'
      /\ \A b \in Assets, w \in Users :
           /\ SeenClaims[b][w] = aToken[b][w] /\ SeenClaims'[b][w] = aToken'[b][w]
           /\ SeenDebts[b][w] = DebtOf(w, b) /\ SeenDebts'[b][w] = DebtOf(w, b)'
  BY <1>1, OneCall
<1>4. paid \in Nat /\ Repaid(v, a, paid, mode) = paid
  <2>1. DebtOfMode(v, a, mode) \in Nat
    BY <1>2, <1>3, DebtOfModeNat
  <2> QED BY <2>1 DEF Repaid
<1> HIDE DEF paid
<1>5. Moves(wallet, p1, a, u, -paid)
  BY <1>2, <1>4, WalletLedger, PayMoves
<1> HIDE DEF p1
<1>6. Moves(p1, p2, a, Wrapper, paid)
  BY <1>2, <1>4, <1>5, MovesLedger, ReceiveMoves
<1> HIDE DEF p2
<1>7. Moves(p2, q, a, Wrapper, -paid)
  BY <1>2, <1>4, <1>6, MovesLedger, PayMoves
<1> HIDE DEF q
<1>8. Change(Coins, wallet, wallet', a, u, -paid)
  <2> SUFFICES ASSUME NEW c \in Coins, NEW w \in Users
               PROVE  q[c][w] = wallet[c][w] + At(c, w, a, u, -paid)
    BY <1>1 DEF Change
  <2>1. /\ p1[c][w] = wallet[c][w] + At(c, w, a, u, -paid)
        /\ p2[c][w] = p1[c][w] + At(c, w, a, Wrapper, paid)
        /\ q[c][w] = p2[c][w] + At(c, w, a, Wrapper, -paid)
    BY <1>5, <1>6, <1>7 DEF Moves
  <2>2. wallet[c][w] \in Nat
    BY WalletLedger
  <2> QED BY <1>4, <2>1, <2>2 DEF At
<1>9. /\ paid <= SeenDebts[a][v] /\ Same(Assets, SeenClaims, SeenClaims')
      /\ Change(Assets, SeenDebts, SeenDebts', a, v, -paid)
  <2>1. /\ paid <= DebtOf(v, a)
        /\ \A b \in Assets, w \in Users :
             aToken'[b][w] = aToken[b][w] /\ DebtOf(w, b)' = DebtOf(w, b) + At(b, w, a, v, -paid)
    <3>1. /\ Repaid(v, a, paid, mode) <= DebtOf(v, a)
          /\ \A b \in Assets, w \in Users :
               /\ aToken'[b][w] = aToken[b][w]
               /\ DebtOf(w, b)' = DebtOf(w, b) + At(b, w, a, v, -Repaid(v, a, paid, mode))
      BY <1>1, <1>2, <1>3, <1>4, RepayEntries
    <3> QED BY <1>4, <3>1
  <2> QED BY <1>2, <1>3, <2>1 DEF Change, Same
<1> QED BY <1>1, <1>2, <1>3, <1>4, <1>8, <1>9, PromisedRepay

\* The pool is told to take what the sender sent, and cannot take more than was
\* wrapped, because there is no other wrapped ether in the wrapper.
LEMMA RepayETHPromised ==
  ASSUME WrapperIInv, WrapperIInv', Moved = Nat, WETH \notin Strays, NEW u \in Senders,
         NEW x \in Nat, NEW value \in Nat, NEW mode \in {Stable, Variable}, NEW v \in Senders,
         RepayETH(u, x, value, mode, v)
  PROVE  Promise!Next
<1> DEFINE owed == DebtOfMode(v, WETH, mode)
           paid == IF x < owed THEN x ELSE owed
           taken == Repaid(v, WETH, value, mode)
           p == PaidIn(wallet, ETH, u, paid)
           q == Pay(p, WETH, Wrapper, taken)
<1>1. /\ idle /\ value >= paid /\ value <= wallet[ETH][u] /\ taken <= p[WETH][Wrapper]
      /\ Repay(v, WETH, value, mode) /\ wallet' = q /\ UNCHANGED <<txn, saved>>
  BY DEF RepayETH, Repaid
<1>2. /\ u \in Users /\ u # Wrapper /\ v \in Users /\ Wrapper \in Users
      /\ WETH \in Assets /\ WETH \in Coins /\ ETH \in Coins /\ WETH # ETH /\ AssetOf(ETH) = WETH
      /\ ETH \in Promise!CoinsFor(WETH)
  BY CoinOfAsset, CoinTypes, WrapperAssumption
<1>3. /\ LedgersSeen /\ PoolInv /\ SeenCoins = wallet /\ SeenCoins' = wallet'
      /\ \A b \in Assets, w \in Users :
           /\ SeenClaims[b][w] = aToken[b][w] /\ SeenClaims'[b][w] = aToken'[b][w]
           /\ SeenDebts[b][w] = DebtOf(w, b) /\ SeenDebts'[b][w] = DebtOf(w, b)'
  BY <1>1, OneCall
<1>4. owed \in Nat
  BY <1>2, <1>3, DebtOfModeNat
<1>5. paid \in Nat /\ taken \in Nat /\ paid <= taken /\ paid <= value
  <2>1. taken = IF value < owed THEN value ELSE owed
    BY DEF Repaid
  <2> HIDE DEF owed, taken
  <2> QED BY <1>1, <1>4, <2>1
<1> HIDE DEF owed, paid, taken
<1>6. paid <= wallet[ETH][u]
  BY <1>1, <1>2, <1>5, WalletLedger
<1>7. p \in Ledgers /\ \A c \in Coins, w \in Users :
        p[c][w] = wallet[c][w] + At(c, w, ETH, u, -paid) + At(c, w, WETH, Wrapper, paid)
  <2>1. p \in Ledgers /\ \A c \in Coins, w \in Users :
          p[c][w] = wallet[c][w] + At(c, w, ETH, u, -paid) + At(c, w, AssetOf(ETH), Wrapper, paid)
    <3>1. wallet \in Ledgers /\ ETH \in Coins /\ u \in Users /\ paid \in Int
      BY <1>2, <1>5, WalletLedger
    <3> QED BY <3>1, PaidInMoves
  <2> QED BY <1>2, <2>1
<1> HIDE DEF p
<1>8. taken = paid
  <2>1. p[WETH][Wrapper] = wallet[WETH][Wrapper] + At(WETH, Wrapper, ETH, u, -paid)
                             + At(WETH, Wrapper, WETH, Wrapper, paid)
    BY <1>2, <1>7
  <2>2. wallet[WETH][Wrapper] = 0
    BY <1>1, <1>2, IdleFacts DEF HoldsNothing, Held
  <2>3. p[WETH][Wrapper] = paid
    BY <1>2, <1>5, <2>1, <2>2 DEF At
  <2> QED BY <1>1, <1>5, <2>3
<1>9. Moves(p, q, WETH, Wrapper, -paid)
  <2>1. q = Pay(p, WETH, Wrapper, paid)
    BY <1>8
  <2> HIDE DEF q
  <2> QED BY <1>2, <1>5, <1>7, <2>1, PayMoves
<1> HIDE DEF q
<1>10. Change(Coins, wallet, wallet', ETH, u, -paid)
  <2> SUFFICES ASSUME NEW c \in Coins, NEW w \in Users
               PROVE  q[c][w] = wallet[c][w] + At(c, w, ETH, u, -paid)
    BY <1>1 DEF Change
  <2>1. /\ p[c][w] = wallet[c][w] + At(c, w, ETH, u, -paid) + At(c, w, WETH, Wrapper, paid)
        /\ q[c][w] = p[c][w] + At(c, w, WETH, Wrapper, -paid)
    BY <1>7, <1>9 DEF Moves
  <2>2. wallet[c][w] \in Nat
    BY WalletLedger
  <2> QED BY <1>5, <2>1, <2>2 DEF At
<1>11. /\ paid <= SeenDebts[WETH][v] /\ Same(Assets, SeenClaims, SeenClaims')
       /\ Change(Assets, SeenDebts, SeenDebts', WETH, v, -paid)
  <2>1. /\ paid <= DebtOf(v, WETH)
        /\ \A b \in Assets, w \in Users :
             aToken'[b][w] = aToken[b][w] /\ DebtOf(w, b)' = DebtOf(w, b) + At(b, w, WETH, v, -paid)
    <3>1. /\ Repaid(v, WETH, value, mode) <= DebtOf(v, WETH)
          /\ \A b \in Assets, w \in Users :
               /\ aToken'[b][w] = aToken[b][w]
               /\ DebtOf(w, b)' = DebtOf(w, b) + At(b, w, WETH, v, -Repaid(v, WETH, value, mode))
      BY <1>1, <1>2, <1>3, RepayEntries
    <3> QED BY <1>8, <3>1 DEF taken
  <2> QED BY <1>2, <1>3, <2>1 DEF Change, Same
<1> QED BY <1>1, <1>2, <1>3, <1>5, <1>6, <1>10, <1>11, PromisedRepay

LEMMA SendCoinsPromised ==
  ASSUME WrapperIInv, WrapperIInv', Moved = Nat, idle, NEW u \in Users, NEW v \in Users,
         Wrapper \in {u, v}, NEW coin \in Coins, NEW x \in Nat, x <= wallet[coin][u],
         wallet' = Send(wallet, coin, u, v, x), UNCHANGED <<vars, txn, saved>>
  PROVE  Promise!Next
<1> DEFINE p == Pay(wallet, coin, u, x)
           q == Receive(p, coin, v, x)
<1>1. wallet' = q
  BY DEF Send
<1>2. Moves(wallet, p, coin, u, -x)
  BY WalletLedger, PayMoves
<1> HIDE DEF p
<1>3. Moves(p, q, coin, v, x)
  BY <1>2, MovesLedger, ReceiveMoves
<1> HIDE DEF q
<1>4. /\ LedgersSeen /\ PoolInv /\ SeenCoins = wallet /\ SeenCoins' = wallet'
      /\ \A b \in Assets, w \in Users :
           /\ SeenClaims[b][w] = aToken[b][w] /\ SeenClaims'[b][w] = aToken'[b][w]
           /\ SeenDebts[b][w] = DebtOf(w, b) /\ SeenDebts'[b][w] = DebtOf(w, b)'
  BY OneCall
<1>5. \A c \in Coins, w \in Users :
        SeenCoins'[c][w] = SeenCoins[c][w] + At(c, w, coin, u, -x) + At(c, w, coin, v, x)
  <2>1. \A c \in Coins, w \in Users : /\ p[c][w] = wallet[c][w] + At(c, w, coin, u, -x)
                                      /\ q[c][w] = p[c][w] + At(c, w, coin, v, x)
    BY <1>2, <1>3 DEF Moves
  <2> QED BY <1>1, <1>4, <2>1
<1>6. Same(Assets, SeenClaims, SeenClaims') /\ Same(Assets, SeenDebts, SeenDebts')
  <2>1. UNCHANGED <<aToken, stableDebt, variableDebt>>
    BY DEF vars, tokenVars
  <2>2. \A b \in Assets, w \in Users : DebtOf(w, b)' = DebtOf(w, b)
    BY <2>1 DEF DebtOf
  <2> QED BY <1>4, <2>1, <2>2 DEF Same
<1>7. x <= SeenCoins[coin][u]
  BY <1>4
<1> QED BY <1>4, <1>5, <1>6, <1>7, PromisedSendCoins

LEMMA SendClaimsPromised ==
  ASSUME WrapperIInv, WrapperIInv', Moved = Nat, idle, NEW u \in Users, NEW v \in Users,
         NEW a \in Assets, NEW x \in Nat, Transfer(u, v, a, x), UNCHANGED <<wallet, txn, saved>>
  PROVE  Promise!Next
<1>1. /\ LedgersSeen /\ PoolInv /\ SeenCoins = wallet /\ SeenCoins' = wallet'
      /\ \A b \in Assets, w \in Users :
           /\ SeenClaims[b][w] = aToken[b][w] /\ SeenClaims'[b][w] = aToken'[b][w]
           /\ SeenDebts[b][w] = DebtOf(w, b) /\ SeenDebts'[b][w] = DebtOf(w, b)'
  BY OneCall
<1>2. /\ x <= aToken[a][u]
      /\ \A b \in Assets, w \in Users :
           /\ aToken'[b][w] = aToken[b][w] + At(b, w, a, u, -x) + At(b, w, a, v, x)
           /\ DebtOf(w, b)' = DebtOf(w, b)
  BY <1>1, TransferEntries
<1>3. /\ x <= SeenClaims[a][u]
      /\ \A b \in Assets, w \in Users :
           SeenClaims'[b][w] = SeenClaims[b][w] + At(b, w, a, u, -x) + At(b, w, a, v, x)
  BY <1>1, <1>2
<1>4. Same(Coins, SeenCoins, SeenCoins') /\ Same(Assets, SeenDebts, SeenDebts')
  BY <1>1, <1>2 DEF Same
<1> QED BY <1>1, <1>3, <1>4, PromisedSendClaims

LEMMA ChooseCollateralPromised ==
  ASSUME WrapperIInv, WrapperIInv', NEW u, NEW a, NEW use, ChooseCollateral(u, a, use)
  PROVE  UNCHANGED Promise!vars
<1>1. idle /\ UNCHANGED <<wallet, txn, saved, aToken, stableDebt, variableDebt>>
  BY DEF ChooseCollateral, UseReserveAsCollateral, tokenVars
<1>2. /\ LedgersSeen /\ PoolInv /\ SeenCoins = wallet /\ SeenCoins' = wallet'
      /\ \A b \in Assets, w \in Users :
           /\ SeenClaims[b][w] = aToken[b][w] /\ SeenClaims'[b][w] = aToken'[b][w]
           /\ SeenDebts[b][w] = DebtOf(w, b) /\ SeenDebts'[b][w] = DebtOf(w, b)'
  BY <1>1, OneCall
<1>3. \A b \in Assets, w \in Users : DebtOf(w, b)' = DebtOf(w, b)
  BY <1>1 DEF DebtOf
<1> QED BY <1>1, <1>2, <1>3, PromisedNothing DEF Same

-----------------------------------------------------------------------------
(* A transaction with several calls: what has been done since it began *)

\* The debts that were saved.
SavedDebt(s, b, w) == s.stableDebt[b][w] + s.variableDebt[b][w]

\* A withdrawal has moved the aTokens to the wrapper.
WithdrawSince(s, t) ==
  /\ t.amount <= s.aToken[AssetOf(t.coin)][t.user]
  /\ wallet = s.wallet
  /\ \A b \in Assets, w \in Users :
       /\ aToken[b][w] = s.aToken[b][w] + At(b, w, AssetOf(t.coin), t.user, -t.amount)
                                        + At(b, w, AssetOf(t.coin), Wrapper, t.amount)
       /\ DebtOf(w, b) = SavedDebt(s, b, w)

\* What the calls so far have added to the user's aTokens and debt.
ClaimSince(t) == IF t.next = "callback" THEN 0 ELSE t.cashAmount + t.amount
DebtSince(t) == IF t.next = "repay" THEN t.amount ELSE 0

\* A loop has taken the cash, paid in with a coin, and what is in flight is in
\* the wrapper.
LoopCoins(s, t, coin) ==
  /\ t.cashAmount <= s.wallet[coin][t.user]
  /\ \A c \in Coins, w \in Users :
       wallet[c][w] = s.wallet[c][w] + At(c, w, coin, t.user, -t.cashAmount)
                                     + At(c, w, t.asset, Wrapper, InFlight(t))

LoopSince(s, t) ==
  /\ \E coin \in Promise!CoinsFor(t.asset) : LoopCoins(s, t, coin)
  /\ \A b \in Assets, w \in Users :
       /\ aToken[b][w] = s.aToken[b][w] + At(b, w, t.asset, t.user, ClaimSince(t))
       /\ DebtOf(w, b) = SavedDebt(s, b, w) + At(b, w, t.asset, t.user, DebtSince(t))

\* Of a flash loan that another took nothing is needed: it is reverted.
Since(s, t) ==
  IF t.next = "withdraw" THEN WithdrawSince(s, t)
  ELSE t.initiator = Wrapper => LoopSince(s, t)

SinceBegun == \A t \in txn, s \in saved : Since(s, t)

LEMMA StateFields ==
  /\ State.wallet = wallet /\ State.aToken = aToken
  /\ State.stableDebt = stableDebt /\ State.variableDebt = variableDebt
BY DEF State

\* What is seen does not change when a transaction begins or goes on, nor when
\* it is reverted.
LEMMA BeginsUnseen ==
  ASSUME WrapperIInv, WrapperIInv', idle, ~ idle', saved' = {State}
  PROVE  UNCHANGED Promise!vars
<1>1. LedgersSeen
  BY LedgersBoth
<1>2. PICK s : s = State
  OBVIOUS
<1>3. /\ SeenCoins' = s.wallet
      /\ \A a \in Assets, u \in Users :
           /\ SeenClaims'[a][u] = s.aToken[a][u]
           /\ SeenDebts'[a][u] = s.stableDebt[a][u] + s.variableDebt[a][u]
  BY <1>2, SeenSavedNext
<1>4. /\ s.wallet = wallet /\ s.aToken = aToken
      /\ s.stableDebt = stableDebt /\ s.variableDebt = variableDebt
  BY <1>2, StateFields
<1>5. /\ SeenCoins = wallet
      /\ \A a \in Assets, u \in Users :
           /\ SeenClaims[a][u] = aToken[a][u]
           /\ SeenDebts[a][u] = stableDebt[a][u] + variableDebt[a][u]
  BY SeenIdle DEF DebtOf
<1> QED BY <1>1, <1>3, <1>4, <1>5, PromisedNothing DEF Same

LEMMA GoesOnUnseen ==
  ASSUME WrapperIInv, WrapperIInv', ~ idle, ~ idle', saved' = saved
  PROVE  UNCHANGED Promise!vars
<1>1. SeenCoins' = SeenCoins /\ SeenClaims' = SeenClaims /\ SeenDebts' = SeenDebts
  BY DEF SeenCoins, SeenClaims, SeenDebts
<1> QED BY <1>1 DEF Promise!vars, SeenCoins, SeenClaims, SeenDebts

LEMMA RevertUnseen ==
  ASSUME WrapperIInv, WrapperIInv', Revert
  PROVE  UNCHANGED Promise!vars
<1>1. PICK s \in saved :
        /\ aToken' = s.aToken /\ stableDebt' = s.stableDebt /\ variableDebt' = s.variableDebt
        /\ wallet' = s.wallet /\ txn' = {} /\ saved' = {}
  BY DEF Revert
<1>2. saved = {s} /\ ~ idle
  BY DEF WrapperIInv, BetweenTransactions, InTransaction, idle
<1>3. idle'
  BY <1>1 DEF idle
<1>4. /\ SeenCoins = s.wallet
      /\ \A a \in Assets, u \in Users :
           /\ SeenClaims[a][u] = s.aToken[a][u]
           /\ SeenDebts[a][u] = s.stableDebt[a][u] + s.variableDebt[a][u]
  BY <1>2, SeenSaved
<1>5. /\ SeenCoins' = wallet'
      /\ \A a \in Assets, u \in Users :
           SeenClaims'[a][u] = aToken'[a][u] /\ SeenDebts'[a][u] = DebtOf(u, a)'
  BY <1>3, SeenIdleNext
<1>6. \A a \in Assets, u \in Users : DebtOf(u, a)' = s.stableDebt[a][u] + s.variableDebt[a][u]
  BY <1>1 DEF DebtOf
<1>7. LedgersSeen
  BY LedgersBoth
<1> QED BY <1>1, <1>4, <1>5, <1>6, <1>7, PromisedNothing DEF Same

LEMMA WithdrawForSince ==
  ASSUME WrapperIInv, NEW u \in Senders, NEW coin \in Coins, NEW x \in Nat, NEW to,
         WithdrawFor(u, coin, x, to)
  PROVE  SinceBegun' /\ ~ idle' /\ idle /\ saved' = {State}
<1> DEFINE t == [next |-> "withdraw", user |-> u, coin |-> coin, amount |-> x, to |-> to]
           a == AssetOf(coin)
<1>1. /\ idle /\ Transfer(u, Wrapper, a, x)
      /\ txn' = {t} /\ saved' = {State} /\ UNCHANGED wallet
  BY DEF WithdrawFor
<1>2. a \in Assets /\ u \in Users /\ Wrapper \in Users /\ PoolInv
  BY CoinOfAsset DEF WrapperIInv
<1>3. t.next = "withdraw" /\ t.user = u /\ t.coin = coin /\ t.amount = x
  OBVIOUS
<1> HIDE DEF t, a
<1>4. /\ x <= aToken[a][u]
      /\ \A b \in Assets, w \in Users :
           /\ aToken'[b][w] = aToken[b][w] + At(b, w, a, u, -x) + At(b, w, a, Wrapper, x)
           /\ DebtOf(w, b)' = DebtOf(w, b)
  BY <1>1, <1>2, TransferEntries
<1>5. PICK s : s = State
  OBVIOUS
<1>6. /\ s.wallet = wallet /\ s.aToken = aToken
      /\ \A b \in Assets, w \in Users : SavedDebt(s, b, w) = DebtOf(w, b)
  BY <1>5, StateFields DEF SavedDebt, DebtOf
<1>7. WithdrawSince(s, t)'
  BY <1>1, <1>3, <1>4, <1>6 DEF WithdrawSince, a
<1>8. SinceBegun'
  BY <1>1, <1>3, <1>5, <1>7 DEF SinceBegun, Since
<1> QED BY <1>1, <1>8 DEF idle

LEMMA WithdrawForEndPromised ==
  ASSUME WrapperIInv, WrapperIInv', SinceBegun, Moved = Nat, WithdrawForEnd
  PROVE  Promise!Next /\ txn' = {}
<1>1. PICK t \in txn :
        /\ t.next = "withdraw"
        /\ Withdraw(Wrapper, AssetOf(t.coin), t.amount)
        /\ wallet' = IF t.coin = ETH
                     THEN PaidOut(Receive(wallet, WETH, Wrapper, t.amount), ETH, t.to, t.amount)
                     ELSE Receive(wallet, t.coin, t.to, t.amount)
        /\ txn' = {} /\ saved' = {}
  BY DEF WithdrawForEnd
<1> DEFINE a == AssetOf(t.coin)
           x == t.amount
           p == Receive(wallet, WETH, Wrapper, x)
           q == PaidOut(p, ETH, t.to, x)
           r == Receive(wallet, t.coin, t.to, x)
<1>2. Withdrawing(t) /\ PoolInv /\ txn = {t} /\ \E s : saved = {s} /\ SavedInOrder(s)
  BY <1>1, UnderWay
<1>3. PICK s : saved = {s} /\ SavedInOrder(s)
  BY <1>2
<1>4. /\ t.coin \in Coins /\ x \in Nat /\ t.to \in Senders /\ t.user \in Senders
      /\ t.to \in Users /\ t.user \in Users /\ Wrapper \in Users
      /\ a \in Assets /\ t.coin \in Promise!CoinsFor(a)
  <2>1. t.coin \in Coins /\ x \in Nat /\ t.to \in Senders /\ t.user \in Senders
    BY <1>2 DEF Withdrawing, Withdrawals
  <2> QED BY <2>1, CoinOfAsset
<1>5. WithdrawSince(s, t)
  BY <1>1, <1>3 DEF SinceBegun, Since
<1>6. \A b \in Assets, w \in Users :
        aToken'[b][w] = aToken[b][w] + At(b, w, a, Wrapper, -x) /\ DebtOf(w, b)' = DebtOf(w, b)
  BY <1>1, <1>2, <1>4, WithdrawEntries
<1>7. Change(Coins, s.wallet, wallet', t.coin, t.to, x)
  <2>1. CASE t.coin = ETH
    <3>1. WETH \in Coins /\ ETH \in Coins /\ AssetOf(ETH) = WETH
      BY CoinTypes
    <3> HIDE DEF a, x, q
    <3>2. Moves(wallet, p, WETH, Wrapper, x)
      BY <1>4, <3>1, WalletLedger, ReceiveMoves
    <3> HIDE DEF p
    <3>3. \A c \in Coins, w \in Users :
            q[c][w] = p[c][w] + At(c, w, AssetOf(ETH), Wrapper, -x) + At(c, w, ETH, t.to, x)
      <4>1. p \in Ledgers /\ t.to \in Users /\ x \in Int /\ ETH \in Coins
        BY <1>4, <3>1, <3>2, MovesLedger
      <4> QED BY <4>1, PaidOutMoves DEF q
    <3>4. wallet' = q
      BY <1>1, <2>1 DEF p, q, x
    <3>5. ASSUME NEW c \in Coins, NEW w \in Users
          PROVE  q[c][w] = wallet[c][w] + At(c, w, ETH, t.to, x)
      <4>1. /\ p[c][w] = wallet[c][w] + At(c, w, WETH, Wrapper, x)
            /\ q[c][w] = p[c][w] + At(c, w, WETH, Wrapper, -x) + At(c, w, ETH, t.to, x)
        BY <3>1, <3>2, <3>3 DEF Moves
      <4>2. wallet[c][w] \in Nat
        BY WalletLedger
      <4> QED BY <1>4, <4>1, <4>2 DEF At
    <3> QED BY <1>5, <2>1, <3>4, <3>5 DEF Change, WithdrawSince
  <2>2. CASE t.coin # ETH
    <3>1. Moves(wallet, r, t.coin, t.to, x)
      <4> HIDE DEF a, x
      <4> QED BY <1>4, WalletLedger, ReceiveMoves
    <3>2. wallet' = r
      BY <1>1, <2>2
    <3> HIDE DEF r
    <3> QED BY <1>5, <3>1, <3>2 DEF Change, Moves, WithdrawSince
  <2> QED BY <2>1, <2>2
<1>8. /\ SeenCoins = s.wallet
      /\ \A b \in Assets, w \in Users :
           SeenClaims[b][w] = s.aToken[b][w] /\ SeenDebts[b][w] = SavedDebt(s, b, w)
  BY <1>2, <1>3, SeenSaved DEF idle, SavedDebt
<1>9. /\ SeenCoins' = wallet'
      /\ \A b \in Assets, w \in Users :
           SeenClaims'[b][w] = aToken'[b][w] /\ SeenDebts'[b][w] = DebtOf(w, b)'
  BY <1>1, SeenIdleNext DEF idle
<1>10. \A b \in Assets, w \in Users :
         /\ aToken[b][w] = s.aToken[b][w] + At(b, w, a, t.user, -x) + At(b, w, a, Wrapper, x)
         /\ DebtOf(w, b) = SavedDebt(s, b, w)
         /\ s.aToken[b][w] \in Nat
  BY <1>3, <1>5 DEF WithdrawSince, SavedInOrder, Holders
<1>11. x <= SeenClaims[a][t.user]
  BY <1>4, <1>5, <1>8 DEF WithdrawSince
<1> HIDE DEF a, x
<1>12. Change(Assets, SeenClaims, SeenClaims', a, t.user, -x)
  <2> SUFFICES ASSUME NEW b \in Assets, NEW w \in Users
               PROVE  SeenClaims'[b][w] = SeenClaims[b][w] + At(b, w, a, t.user, -x)
    BY DEF Change
  <2>1. /\ SeenClaims'[b][w] = aToken[b][w] + At(b, w, a, Wrapper, -x)
        /\ aToken[b][w] = s.aToken[b][w] + At(b, w, a, t.user, -x) + At(b, w, a, Wrapper, x)
        /\ SeenClaims[b][w] = s.aToken[b][w] /\ s.aToken[b][w] \in Nat
    BY <1>6, <1>8, <1>9, <1>10
  <2> QED BY <1>4, <2>1 DEF At
<1>13. Same(Assets, SeenDebts, SeenDebts')
  BY <1>6, <1>8, <1>9, <1>10 DEF Same
<1>14. Change(Coins, SeenCoins, SeenCoins', t.coin, t.to, x)
  BY <1>7, <1>8, <1>9
<1> QED BY <1>1, <1>4, <1>11, <1>12, <1>13, <1>14, LedgersBoth, PromisedWithdraw

-----------------------------------------------------------------------------
(* The loop *)

\* A loop begins with the cash paid in and the flash loan in the wrapper.
LEMMA LeverageDepositSince ==
  ASSUME WrapperIInv, NEW u \in Senders, NEW coin \in Coins, NEW x \in Nat, NEW y \in Nat,
         LeverageDeposit(u, coin, x, y)
  PROVE  SinceBegun' /\ ~ idle' /\ idle /\ saved' = {State}
<1> DEFINE a == AssetOf(coin)
           p == PaidIn(wallet, coin, u, x)
           q == Receive(p, a, Wrapper, y)
           t == [next |-> "callback", sender |-> u, initiator |-> Wrapper, asset |-> a,
                 amount |-> y, user |-> u, cashAmount |-> x, borrowAmount |-> y]
<1>1. /\ idle /\ x <= wallet[coin][u] /\ wallet' = q /\ txn' = {t} /\ saved' = {State}
      /\ UNCHANGED <<aToken, stableDebt, variableDebt>>
  BY DEF LeverageDeposit, FlashLoan
<1>2. /\ u \in Users /\ Wrapper \in Users /\ a \in Assets /\ a \in Coins /\ a = AssetOf(coin)
      /\ coin \in Promise!CoinsFor(a) /\ PoolInv
  BY CoinOfAsset, CoinTypes DEF WrapperIInv
<1>3. /\ t.next = "callback" /\ t.initiator = Wrapper /\ t.asset = a /\ t.amount = y
      /\ t.user = u /\ t.cashAmount = x
  OBVIOUS
<1> HIDE DEF a, t
<1>4. p \in Ledgers /\ \A c \in Coins, w \in Users :
        p[c][w] = wallet[c][w] + At(c, w, coin, u, -x) + At(c, w, a, Wrapper, x)
  BY <1>2, WalletLedger, PaidInMoves
<1> HIDE DEF p
<1>5. Moves(p, q, a, Wrapper, y)
  BY <1>2, <1>4, ReceiveMoves
<1> HIDE DEF q
<1>6. PICK s : s = State
  OBVIOUS
<1>7. /\ s.wallet = wallet /\ s.aToken = aToken
      /\ \A b \in Assets, w \in Users : SavedDebt(s, b, w) = DebtOf(w, b)
  BY <1>6, StateFields DEF SavedDebt, DebtOf
<1>8. InFlight(t) = x + y /\ ClaimSince(t) = 0 /\ DebtSince(t) = 0
  BY <1>3 DEF InFlight, ClaimSince, DebtSince
<1>9. ASSUME NEW c \in Coins, NEW w \in Users
      PROVE  wallet'[c][w] = s.wallet[c][w] + At(c, w, coin, t.user, -t.cashAmount)
                                            + At(c, w, t.asset, Wrapper, InFlight(t))
  <2>1. /\ p[c][w] = wallet[c][w] + At(c, w, coin, u, -x) + At(c, w, a, Wrapper, x)
        /\ q[c][w] = p[c][w] + At(c, w, a, Wrapper, y)
    BY <1>4, <1>5 DEF Moves
  <2>2. wallet[c][w] \in Nat
    BY WalletLedger
  <2>3. wallet' = q
    BY <1>1
  <2> QED BY <1>3, <1>7, <1>8, <2>1, <2>2, <2>3 DEF At
<1>10. LoopCoins(s, t, coin)'
  BY <1>1, <1>3, <1>7, <1>9 DEF LoopCoins, InFlight
<1>11. ASSUME NEW b \in Assets, NEW w \in Users
       PROVE  /\ aToken'[b][w] = s.aToken[b][w] + At(b, w, t.asset, t.user, ClaimSince(t))
              /\ DebtOf(w, b)' = SavedDebt(s, b, w) + At(b, w, t.asset, t.user, DebtSince(t))
  <2>1. aToken[b][w] \in Nat /\ DebtOf(w, b) \in Nat /\ DebtOf(w, b)' = DebtOf(w, b)
    BY <1>1, <1>2, BookTypes, DebtsStay
  <2> QED BY <1>1, <1>7, <1>8, <2>1 DEF At
<1>12. LoopSince(s, t)'
  BY <1>2, <1>3, <1>10, <1>11 DEF LoopSince, ClaimSince, DebtSince
<1>13. SinceBegun'
  BY <1>1, <1>3, <1>6, <1>12 DEF SinceBegun, Since
<1> QED BY <1>1, <1>13 DEF idle

LEMMA FlashLoanToWrapperSince ==
  ASSUME WrapperIInv, NEW u \in Senders, NEW a \in Assets, NEW x, NEW v, NEW y,
         FlashLoanToWrapper(u, a, x, v, 0, y)
  PROVE  SinceBegun' /\ ~ idle' /\ idle /\ saved' = {State}
<1> DEFINE t == [next |-> "callback", sender |-> u, initiator |-> u, asset |-> a, amount |-> x,
                 user |-> v, cashAmount |-> 0, borrowAmount |-> y]
<1>1. idle /\ txn' = {t} /\ saved' = {State} /\ u # Wrapper
  BY DEF FlashLoanToWrapper, Senders
<1>2. t.next = "callback" /\ t.initiator = u
  OBVIOUS
<1> HIDE DEF t
<1> QED BY <1>1, <1>2 DEF SinceBegun, Since, idle

\* A loop goes on: what its next call does is added to what was done.
LEMMA LoopAdvances ==
  ASSUME WrapperIInv, SinceBegun, NEW t \in txn, t.next # "withdraw", t.initiator = Wrapper,
         NEW r, r.next # "withdraw", r.asset = t.asset, r.user = t.user,
         r.cashAmount = t.cashAmount, NEW x \in Int, NEW y \in Int, NEW z \in Int,
         InFlight(r) = InFlight(t) + x, ClaimSince(r) = ClaimSince(t) + y,
         DebtSince(r) = DebtSince(t) + z,
         InFlight(t) \in Int, ClaimSince(t) \in Int, DebtSince(t) \in Int,
         Moves(wallet, wallet', t.asset, Wrapper, x),
         \A b \in Assets, w \in Users :
           /\ aToken'[b][w] = aToken[b][w] + At(b, w, t.asset, t.user, y)
           /\ DebtOf(w, b)' = DebtOf(w, b) + At(b, w, t.asset, t.user, z),
         txn' = {r}, saved' = saved
  PROVE  SinceBegun'
<1>1. PICK s : saved = {s} /\ SavedInOrder(s)
  BY UnderWay
<1>2. t.cashAmount \in Nat
  BY UnderWay DEF Looping, Loops
<1>3. PICK coin \in Promise!CoinsFor(t.asset) : LoopCoins(s, t, coin)
  BY <1>1 DEF SinceBegun, Since, LoopSince
<1>4. \A b \in Assets, w \in Users :
        /\ aToken[b][w] = s.aToken[b][w] + At(b, w, t.asset, t.user, ClaimSince(t))
        /\ DebtOf(w, b) = SavedDebt(s, b, w) + At(b, w, t.asset, t.user, DebtSince(t))
  BY <1>1 DEF SinceBegun, Since, LoopSince
<1>5. ASSUME NEW c \in Coins, NEW w \in Users
      PROVE  wallet'[c][w] = s.wallet[c][w] + At(c, w, coin, r.user, -r.cashAmount)
                                            + At(c, w, r.asset, Wrapper, InFlight(r))
  <2>1. /\ wallet[c][w] = s.wallet[c][w] + At(c, w, coin, t.user, -t.cashAmount)
                                         + At(c, w, t.asset, Wrapper, InFlight(t))
        /\ wallet'[c][w] = wallet[c][w] + At(c, w, t.asset, Wrapper, x)
    BY <1>3 DEF LoopCoins, Moves
  <2>2. s.wallet[c][w] \in Nat
    BY <1>1 DEF SavedInOrder, Wallets
  <2> HIDE DEF InFlight
  <2> QED BY <1>2, <2>1, <2>2 DEF At
<1>6. LoopCoins(s, r, coin)'
  BY <1>3, <1>5 DEF LoopCoins, InFlight
<1>7. ASSUME NEW b \in Assets, NEW w \in Users
      PROVE  /\ aToken'[b][w] = s.aToken[b][w] + At(b, w, r.asset, r.user, ClaimSince(r))
             /\ DebtOf(w, b)' = SavedDebt(s, b, w) + At(b, w, r.asset, r.user, DebtSince(r))
  <2>1. s.aToken[b][w] \in Nat /\ SavedDebt(s, b, w) \in Nat
    <3>1. s.stableDebt[b][w] \in Nat /\ s.variableDebt[b][w] \in Nat
      BY <1>1 DEF SavedInOrder
    <3>2. s.aToken[b][w] \in Nat
      BY <1>1 DEF SavedInOrder, Holders
    <3> QED BY <3>1, <3>2 DEF SavedDebt
  <2>2. /\ aToken[b][w] = s.aToken[b][w] + At(b, w, t.asset, t.user, ClaimSince(t))
        /\ aToken'[b][w] = aToken[b][w] + At(b, w, t.asset, t.user, y)
        /\ DebtOf(w, b) = SavedDebt(s, b, w) + At(b, w, t.asset, t.user, DebtSince(t))
        /\ DebtOf(w, b)' = DebtOf(w, b) + At(b, w, t.asset, t.user, z)
    BY <1>4
  <2> QED BY <2>1, <2>2 DEF At
<1>8. LoopSince(s, r)'
  BY <1>3, <1>6, <1>7 DEF LoopSince, ClaimSince, DebtSince
<1> QED BY <1>1, <1>8 DEF SinceBegun, Since

LEMMA ExecuteOperationSince ==
  ASSUME WrapperIInv, SinceBegun, ExecuteOperation
  PROVE  SinceBegun' /\ ~ idle' /\ ~ idle /\ saved' = saved
<1>1. PICK t \in txn :
        /\ t.next = "callback" /\ ValidCallback(t)
        /\ Supply(Wrapper, t.user, t.asset, SupplyAmount(t))
        /\ wallet' = Pay(wallet, t.asset, Wrapper, SupplyAmount(t))
        /\ txn' = {[t EXCEPT !.next = "borrow"]} /\ saved' = saved
  BY DEF ExecuteOperation
<1> DEFINE r == [t EXCEPT !.next = "borrow"]
           x == SupplyAmount(t)
<1>2. Looping(t) /\ PoolInv
  BY <1>1, UnderWay
<1>3. /\ t.initiator = Wrapper /\ t.asset \in Assets /\ t.asset \in Coins /\ t.amount \in Nat
      /\ t.cashAmount \in Nat /\ t.borrowAmount = t.amount /\ t.user \in Users /\ t \in Loops
      /\ Wrapper \in Users
  <2>1. t \in Loops
    BY <1>2 DEF Looping
  <2> QED BY <1>1, <2>1, CoinTypes, CoinOfAsset DEF Loops, ValidCallback
<1>4. x = t.cashAmount + t.amount /\ x \in Nat
  BY <1>3 DEF SupplyAmount
<1>5. /\ r.next = "borrow" /\ r.asset = t.asset /\ r.user = t.user /\ r.amount = t.amount
      /\ r.cashAmount = t.cashAmount
  BY <1>3 DEF Loops
<1> HIDE DEF r, x
<1>6. /\ InFlight(t) = x /\ InFlight(r) = 0 /\ ClaimSince(t) = 0 /\ ClaimSince(r) = x
      /\ DebtSince(t) = 0 /\ DebtSince(r) = 0
  BY <1>1, <1>4, <1>5 DEF InFlight, ClaimSince, DebtSince
<1>7. Moves(wallet, wallet', t.asset, Wrapper, -x)
  BY <1>1, <1>3, <1>4, WalletLedger, PayMoves DEF x
<1>8. \A b \in Assets, w \in Users :
        /\ aToken'[b][w] = aToken[b][w] + At(b, w, t.asset, t.user, x)
        /\ DebtOf(w, b)' = DebtOf(w, b) + At(b, w, t.asset, t.user, 0)
  <2>1. \A b \in Assets, w \in Users :
          /\ aToken'[b][w] = aToken[b][w] + At(b, w, t.asset, t.user, x)
          /\ DebtOf(w, b)' = DebtOf(w, b) /\ DebtOf(w, b) \in Nat
    <3>1. Supply(Wrapper, t.user, t.asset, x)
      BY <1>1 DEF x
    <3> QED BY <1>2, <1>3, <1>4, <3>1, SupplyEntries, BookTypes
  <2> QED BY <2>1 DEF At
<1>9. InFlight(r) = InFlight(t) + (-x) /\ ClaimSince(r) = ClaimSince(t) + x
      /\ DebtSince(r) = DebtSince(t) + 0
  BY <1>4, <1>6
<1>10. /\ InFlight(t) \in Int /\ ClaimSince(t) \in Int /\ DebtSince(t) \in Int
       /\ -x \in Int /\ x \in Int
  BY <1>4, <1>6
<1>11. txn' = {r}
  BY <1>1 DEF r
<1>12. SinceBegun'
  BY <1>1, <1>3, <1>5, <1>7, <1>8, <1>9, <1>10, <1>11, LoopAdvances
<1> QED BY <1>1, <1>12 DEF idle

LEMMA ExecuteOperationBorrowSince ==
  ASSUME WrapperIInv, SinceBegun, ExecuteOperationBorrow
  PROVE  SinceBegun' /\ ~ idle' /\ ~ idle /\ saved' = saved
<1>1. PICK t \in txn :
        /\ t.next = "borrow"
        /\ Borrow(t.user, t.asset, t.borrowAmount, Variable)
        /\ wallet' = Receive(wallet, t.asset, Wrapper, t.borrowAmount)
        /\ txn' = {[t EXCEPT !.next = "repay"]} /\ saved' = saved
  BY DEF ExecuteOperationBorrow
<1> DEFINE r == [t EXCEPT !.next = "repay"]
           x == t.amount
<1>2. /\ Looping(t) /\ PoolInv /\ t \in Loops /\ t.asset \in Assets /\ t.asset \in Coins
      /\ x \in Nat /\ t.borrowAmount = x /\ t.user \in Users /\ Wrapper \in Users
      /\ t.initiator = Wrapper /\ t.cashAmount \in Nat
  <2>1. /\ Looping(t) /\ PoolInv /\ t \in Loops /\ t.asset \in Assets /\ t.asset \in Coins
        /\ t.amount \in Nat /\ t.borrowAmount = t.amount /\ t.user \in Users
    BY <1>1, LoopFacts
  <2>2. t.initiator = Wrapper /\ t.cashAmount \in Nat
    BY <1>1, <2>1 DEF Looping, Loops
  <2> QED BY <2>1, <2>2, CoinOfAsset
<1>3. /\ r.next = "repay" /\ r.asset = t.asset /\ r.user = t.user /\ r.amount = t.amount
      /\ r.cashAmount = t.cashAmount
  BY <1>2 DEF Loops
<1>4. txn' = {r}
  BY <1>1 DEF r
<1> HIDE DEF r
<1>5. /\ InFlight(t) = 0 /\ InFlight(r) = x
      /\ ClaimSince(t) = t.cashAmount + x /\ ClaimSince(r) = t.cashAmount + x
      /\ DebtSince(t) = 0 /\ DebtSince(r) = x
  BY <1>1, <1>3 DEF InFlight, ClaimSince, DebtSince
<1> HIDE DEF x
<1>6. /\ InFlight(t) \in Int /\ ClaimSince(t) \in Int /\ DebtSince(t) \in Int
      /\ InFlight(r) = InFlight(t) + x /\ ClaimSince(r) = ClaimSince(t) + 0
      /\ DebtSince(r) = DebtSince(t) + x
  BY <1>2, <1>5
<1>7. Moves(wallet, wallet', t.asset, Wrapper, x)
  BY <1>1, <1>2, WalletLedger, ReceiveMoves
<1>8. \A b \in Assets, w \in Users :
        /\ aToken'[b][w] = aToken[b][w] + At(b, w, t.asset, t.user, 0)
        /\ DebtOf(w, b)' = DebtOf(w, b) + At(b, w, t.asset, t.user, x)
  <2>1. Borrow(t.user, t.asset, x, Variable)
    BY <1>1, <1>2
  <2>2. \A b \in Assets, w \in Users :
          /\ aToken'[b][w] = aToken[b][w] /\ aToken[b][w] \in Nat
          /\ DebtOf(w, b)' = DebtOf(w, b) + At(b, w, t.asset, t.user, x)
    BY <1>2, <2>1, BorrowEntries, BookTypes
  <2> QED BY <2>2 DEF At
<1>9. SinceBegun'
  BY <1>1, <1>2, <1>3, <1>4, <1>6, <1>7, <1>8, LoopAdvances
<1> QED BY <1>1, <1>4, <1>9 DEF idle

LEMMA LeverageDepositEndPromised ==
  ASSUME WrapperIInv, WrapperIInv', SinceBegun, Moved = Nat, LeverageDepositEnd
  PROVE  Promise!Next /\ txn' = {}
<1>1. PICK t \in txn :
        /\ t.next = "repay" /\ FlashLoanEnd
        /\ wallet' = Pay(wallet, t.asset, Wrapper, t.amount)
        /\ txn' = {} /\ saved' = {}
  BY DEF LeverageDepositEnd
<1> DEFINE x == t.cashAmount
           y == t.amount
           u == t.user
           a == t.asset
<1>2. /\ Looping(t) /\ PoolInv /\ a \in Assets /\ a \in Coins /\ y \in Nat /\ u \in Users
      /\ u \in Senders /\ x \in Nat /\ t.initiator = Wrapper /\ Wrapper \in Users
  <2>1. /\ Looping(t) /\ PoolInv /\ t \in Loops /\ t.asset \in Assets /\ t.asset \in Coins
        /\ t.amount \in Nat /\ t.user \in Users
    BY <1>1, LoopFacts
  <2>2. t.initiator = Wrapper /\ t.cashAmount \in Nat /\ t.user \in Senders
    BY <1>1, <2>1 DEF Looping, Loops
  <2> QED BY <2>1, <2>2, CoinOfAsset
<1>3. PICK s : saved = {s} /\ SavedInOrder(s)
  BY UnderWay
<1>4. UNCHANGED <<aToken, stableDebt, variableDebt>>
  <2>1. \A f \in flash : f.mode = "none"
    BY <1>2 DEF Looping
  <2>2. "none" \notin Modes
    BY PoolAssumption DEF Stable, Variable
  <2> QED BY <1>1, <2>1, <2>2 DEF FlashLoanEnd
<1>5. LoopSince(s, t)
  BY <1>1, <1>2, <1>3 DEF SinceBegun, Since
<1>6. InFlight(t) = y /\ ClaimSince(t) = x + y /\ DebtSince(t) = y
  BY <1>1 DEF InFlight, ClaimSince, DebtSince
<1>7. PICK coin \in Promise!CoinsFor(a) : LoopCoins(s, t, coin)
  BY <1>5 DEF LoopSince
<1>8. /\ SeenCoins = s.wallet
      /\ \A b \in Assets, w \in Users :
           SeenClaims[b][w] = s.aToken[b][w] /\ SeenDebts[b][w] = SavedDebt(s, b, w)
  BY <1>3, SeenSaved DEF idle, SavedDebt
<1>9. /\ SeenCoins' = wallet'
      /\ \A b \in Assets, w \in Users :
           SeenClaims'[b][w] = aToken'[b][w] /\ SeenDebts'[b][w] = DebtOf(w, b)'
  BY <1>1, SeenIdleNext DEF idle
<1>10. x <= SeenCoins[coin][u]
  BY <1>7, <1>8 DEF LoopCoins
<1>11. Moves(wallet, wallet', a, Wrapper, -y)
  BY <1>1, <1>2, WalletLedger, PayMoves
<1>12. Change(Coins, SeenCoins, SeenCoins', coin, u, -x)
  <2> SUFFICES ASSUME NEW c \in Coins, NEW w \in Users
               PROVE  wallet'[c][w] = s.wallet[c][w] + At(c, w, coin, u, -x)
    BY <1>8, <1>9 DEF Change
  <2>1. /\ wallet[c][w] = s.wallet[c][w] + At(c, w, coin, u, -x) + At(c, w, a, Wrapper, y)
        /\ wallet'[c][w] = wallet[c][w] + At(c, w, a, Wrapper, -y)
    BY <1>6, <1>7, <1>11 DEF LoopCoins, Moves
  <2>2. s.wallet[c][w] \in Nat
    BY <1>3 DEF SavedInOrder, Wallets
  <2> QED BY <1>2, <2>1, <2>2 DEF At
<1>13. /\ Change(Assets, SeenClaims, SeenClaims', a, u, x + y)
       /\ Change(Assets, SeenDebts, SeenDebts', a, u, y)
  <2>1. \A b \in Assets, w \in Users :
          /\ aToken'[b][w] = s.aToken[b][w] + At(b, w, a, u, x + y)
          /\ DebtOf(w, b)' = SavedDebt(s, b, w) + At(b, w, a, u, y)
    BY <1>2, <1>4, <1>5, <1>6, DebtsStay DEF LoopSince
  <2> QED BY <1>8, <1>9, <2>1 DEF Change
<1> HIDE DEF a, u, x, y
<1> QED BY <1>1, <1>2, <1>7, <1>10, <1>12, <1>13, LedgersBoth, PromisedLeverageDeposit

-----------------------------------------------------------------------------
(* Every step *)

LEMMA SinceBegunWhenOver ==
  ASSUME txn' = {}
  PROVE  SinceBegun'
BY DEF SinceBegun

\* A step of the wrapper is an operation of the promise or is not seen, and what
\* was done since the transaction began stays known.
LEMMA StepPromised ==
  ASSUME Moved = Nat, WETH \notin Strays, WrapperIInv, WrapperIInv', SinceBegun,
         [WrapperNext]_wrapperVars
  PROVE  SinceBegun' /\ [Promise!Next]_(Promise!vars)
<1>1. /\ \A x \in Amounts : x \in Nat
      /\ \A x \in FlashAmounts : x \in Nat
      /\ \A m \in Modes : m \in {Stable, Variable}
      /\ \A u \in Senders : u \in Users
      /\ Wrapper \in Users
  BY PoolAssumption, WrapperAssumption DEF Senders
<1>2. \A u \in Users, a \in Assets : aToken[a][u] \in Nat
  BY DEF WrapperIInv, PoolInv, TypeOK, Holders
<1>3. ASSUME idle, UNCHANGED txn
      PROVE  SinceBegun'
  BY <1>3, SinceBegunWhenOver DEF idle
<1>4. CASE \E u \in Senders, coin \in Coins, x \in Amounts, v \in Users : SupplyFor(u, coin, x, v)
  <2>1. idle /\ UNCHANGED txn
    BY <1>4 DEF SupplyFor
  <2> QED BY <1>1, <1>3, <1>4, <2>1, SupplyForPromised
<1>5. CASE \E u \in Senders, coin \in Coins, x \in Amounts, m \in Modes : BorrowFor(u, coin, x, m)
  <2>1. idle /\ UNCHANGED txn
    BY <1>5 DEF BorrowFor
  <2> QED BY <1>1, <1>3, <1>5, <2>1, BorrowForPromised
<1>6. CASE \E u, v \in Senders, a \in Assets, x \in Amounts, m \in Modes : RepayERC20(u, a, x, m, v)
  <2>1. idle /\ UNCHANGED txn
    BY <1>6 DEF RepayERC20
  <2> QED BY <1>1, <1>3, <1>6, <2>1, RepayERC20Promised
<1>7. CASE \E u, v \in Senders, x, value \in Amounts, m \in Modes : RepayETH(u, x, value, m, v)
  <2>1. idle /\ UNCHANGED txn
    BY <1>7 DEF RepayETH
  <2> QED BY <1>1, <1>3, <1>7, <2>1, RepayETHPromised
<1>8. CASE \E u, v \in Senders, coin \in Coins :
             \E x \in Amounts \cup {aToken[AssetOf(coin)][u]} : WithdrawFor(u, coin, x, v)
  <2>1. PICK u \in Senders, v \in Senders, coin \in Coins :
          \E x \in Amounts \cup {aToken[AssetOf(coin)][u]} : WithdrawFor(u, coin, x, v)
    BY <1>8
  <2>2. PICK x \in Amounts \cup {aToken[AssetOf(coin)][u]} : WithdrawFor(u, coin, x, v)
    BY <2>1
  <2>3. x \in Nat
    BY <1>1, <1>2, CoinTypes
  <2>4. SinceBegun' /\ ~ idle' /\ idle /\ saved' = {State}
    BY <2>2, <2>3, WithdrawForSince
  <2> QED BY <2>4, BeginsUnseen
<1>9. CASE WithdrawForEnd
  BY <1>9, SinceBegunWhenOver, WithdrawForEndPromised
<1>10. CASE \E u \in Senders, coin \in Coins, x \in Amounts \cup {0}, y \in FlashAmounts :
              LeverageDeposit(u, coin, x, y)
  <2>1. SinceBegun' /\ ~ idle' /\ idle /\ saved' = {State}
    BY <1>1, <1>10, LeverageDepositSince
  <2> QED BY <2>1, BeginsUnseen
<1>11. CASE \E u, v \in Senders, a \in Assets, x, y \in FlashAmounts :
              FlashLoanToWrapper(u, a, x, v, 0, y)
  <2>1. SinceBegun' /\ ~ idle' /\ idle /\ saved' = {State}
    BY <1>11, FlashLoanToWrapperSince
  <2> QED BY <2>1, BeginsUnseen
<1>12. CASE ExecuteOperation
  <2>1. SinceBegun' /\ ~ idle' /\ ~ idle /\ saved' = saved
    BY <1>12, ExecuteOperationSince
  <2> QED BY <2>1, GoesOnUnseen
<1>13. CASE ExecuteOperationBorrow
  <2>1. SinceBegun' /\ ~ idle' /\ ~ idle /\ saved' = saved
    BY <1>13, ExecuteOperationBorrowSince
  <2> QED BY <2>1, GoesOnUnseen
<1>14. CASE LeverageDepositEnd
  BY <1>14, SinceBegunWhenOver, LeverageDepositEndPromised
<1>15. CASE Revert
  <2>1. txn' = {}
    BY <1>15 DEF Revert
  <2> QED BY <1>15, <2>1, RevertUnseen, SinceBegunWhenOver
<1>16. CASE \E coin \in Coins, v \in Senders, x \in Amounts : RescueToken(coin, v, x)
  <2>1. PICK coin \in Coins, v \in Senders, x \in Amounts : RescueToken(coin, v, x)
    BY <1>16
  <2>2. /\ idle /\ x <= wallet[coin][Wrapper] /\ wallet' = Send(wallet, coin, Wrapper, v, x)
        /\ UNCHANGED <<vars, txn, saved>>
    BY <2>1 DEF RescueToken
  <2>3. Promise!Next
    BY <1>1, <2>2, SendCoinsPromised
  <2> QED BY <1>3, <2>2, <2>3
<1>17. CASE \E a \in Assets, v \in Senders, x \in Amounts : RescueAToken(a, v, x)
  <2>1. PICK a \in Assets, v \in Senders, x \in Amounts : RescueAToken(a, v, x)
    BY <1>17
  <2>2. idle /\ Transfer(Wrapper, v, a, x) /\ UNCHANGED <<wallet, txn, saved>>
    BY <2>1 DEF RescueAToken
  <2>3. Promise!Next
    BY <1>1, <2>2, SendClaimsPromised
  <2> QED BY <1>3, <2>2, <2>3
<1>18. CASE \E u \in Senders, v \in Users, a \in Assets, x \in Amounts : SendAToken(u, v, a, x)
  <2>1. PICK u \in Senders, v \in Users, a \in Assets, x \in Amounts : SendAToken(u, v, a, x)
    BY <1>18
  <2>2. idle /\ Transfer(u, v, a, x) /\ UNCHANGED <<wallet, txn, saved>>
    BY <2>1 DEF SendAToken
  <2>3. Promise!Next
    BY <1>1, <2>2, SendClaimsPromised
  <2> QED BY <1>3, <2>2, <2>3
<1>19. CASE \E u \in Senders, a \in Strays, x \in Amounts : SendToWrapper(u, a, x)
  <2>1. PICK u \in Senders, a \in Strays, x \in Amounts : SendToWrapper(u, a, x)
    BY <1>19
  <2>2. /\ idle /\ x <= wallet[a][u] /\ wallet' = Send(wallet, a, u, Wrapper, x)
        /\ UNCHANGED <<vars, txn, saved>>
    BY <2>1 DEF SendToWrapper
  <2>3. a \in Coins
    BY CoinTypes, WrapperAssumption
  <2>4. Promise!Next
    BY <1>1, <2>2, <2>3, SendCoinsPromised
  <2> QED BY <1>3, <2>2, <2>4
<1>20. CASE \E u \in Senders, a \in Assets, use \in BOOLEAN : ChooseCollateral(u, a, use)
  <2>1. PICK u \in Senders, a \in Assets, use \in BOOLEAN : ChooseCollateral(u, a, use)
    BY <1>20
  <2>2. idle /\ UNCHANGED txn
    BY <2>1 DEF ChooseCollateral
  <2>3. UNCHANGED Promise!vars
    BY <2>1, ChooseCollateralPromised
  <2> QED BY <1>3, <2>2, <2>3
<1>21. CASE UNCHANGED wrapperVars
  <2>1. UNCHANGED <<wallet, txn, saved, aToken, stableDebt, variableDebt>>
    BY <1>21 DEF wrapperVars, vars, tokenVars
  <2>2. SinceBegun'
    BY <2>1 DEF SinceBegun, Since, WithdrawSince, LoopSince, LoopCoins, InFlight, ClaimSince,
       DebtSince, DebtOf
  <2>3. \A b \in Assets, w \in Users : DebtOf(w, b)' = DebtOf(w, b)
    BY <2>1 DEF DebtOf
  <2>4. SeenCoins' = SeenCoins /\ SeenClaims' = SeenClaims /\ SeenDebts' = SeenDebts
    BY <2>1, <2>3 DEF SeenCoins, SeenClaims, SeenDebts, idle
  <2>5. UNCHANGED Promise!vars
    BY <2>4 DEF Promise!vars, SeenCoins, SeenClaims, SeenDebts
  <2> QED BY <2>2, <2>5
<1> QED BY <1>4, <1>5, <1>6, <1>7, <1>8, <1>9, <1>10, <1>11, <1>12, <1>13, <1>14, <1>15, <1>16,
           <1>17, <1>18, <1>19, <1>20, <1>21 DEF WrapperNext

LEMMA PromiseBegins ==
  ASSUME WrapperInit
  PROVE  Promise!Init /\ SinceBegun
<1>1. /\ idle /\ wallet \in [Coins -> [Users -> Nat]]
      /\ aToken = [a \in Assets |-> [u \in Holders |-> 0]]
      /\ stableDebt = [a \in Assets |-> [u \in Users |-> 0]]
      /\ variableDebt = [a \in Assets |-> [u \in Users |-> 0]]
  BY WrapperAssumption DEF WrapperInit, Init, idle
<1>2. \A a \in Assets, u \in Users : aToken[a][u] = 0 /\ DebtOf(u, a) = 0
  BY <1>1 DEF DebtOf, Holders
<1>3. /\ SeenCoins \in [Coins -> [Users -> Nat]]
      /\ SeenClaims = [a \in Assets |-> [u \in Users |-> 0]]
      /\ SeenDebts = [a \in Assets |-> [u \in Users |-> 0]]
  BY <1>1, <1>2 DEF SeenCoins, SeenClaims, SeenDebts
<1>4. Promise!Init
  BY <1>3, CoinOfAsset DEF Promise!Init, SeenCoins, SeenClaims, SeenDebts
<1>5. SinceBegun
  BY <1>1 DEF SinceBegun, idle
<1> QED BY <1>4, <1>5

\* The wrapper implements direct use of the pool, when no amount is excluded and
\* no wrapped ether is sent to it by mistake: whatever happens between two calls
\* of a transaction, what is seen after it is one operation of its sender, with
\* its own coins, aTokens and debt, or nothing.
THEOREM WrapperImplementsPromise ==
  ASSUME Moved = Nat, WETH \notin Strays
  PROVE  WrapperSpec => WrapperKeepsPromise
<1>1. WrapperInit => Promise!Init /\ SinceBegun
  BY PromiseBegins
<1>2. WrapperIInv /\ WrapperIInv' /\ SinceBegun /\ [WrapperNext]_wrapperVars =>
        SinceBegun' /\ [Promise!Next]_(Promise!vars)
  BY StepPromised
<1> QED BY <1>1, <1>2, WrapperAlways, PTL DEF WrapperSpec, WrapperKeepsPromise, Promise!Spec
=============================================================================
