--------------------------- MODULE PacPoolWrapper ---------------------------
(***************************************************************************)
(* PacPoolWrapper.sol, composed with the lending pool: users deposit,       *)
(* withdraw, borrow and repay through it in ether or tokens, and loop a     *)
(* deposit with a flash loan whose receiver the wrapper is.                 *)
(*                                                                          *)
(* A transaction that calls the pool once is one action.  One that calls it *)
(* several times is several, and nothing comes between them; it may revert  *)
(* at each, which restores what was there when it began.  Ether is sent     *)
(* last, so what its receiver does with it comes after the transaction.     *)
(*                                                                          *)
(* Named abstractions, besides those of LendingPool.  The users have        *)
(* approved the wrapper and delegated borrowing to it without limit, as the *)
(* tests do.  Gas refunds are modelled in GasRefund.                        *)
(***************************************************************************)
EXTENDS LendingPool

CONSTANTS
  Wrapper,      \* this contract, one of the pool's accounts
  WETH,         \* the reserve of wrapped ether
  ETH,          \* ether
  Purse,        \* what each user starts with of each coin
  Strays,       \* coins that users send to the wrapper itself
  Moved         \* the amounts that a transaction may move in all

Coins == Assets \cup {ETH}
Senders == Users \ {Wrapper}

ASSUME WrapperAssumption ==
  /\ Wrapper \in Users
  /\ WETH \in Assets
  /\ ETH \notin Assets
  /\ Purse \in [Coins -> Nat]
  /\ Strays \subseteq Assets
  /\ Moved \subseteq Nat

VARIABLES
  wallet,   \* the coins of each account
  txn,      \* the transaction that is between two calls of the pool: one or none
  saved     \* what its revert restores

wrapperVars == <<vars, wallet, txn, saved>>

idle == txn = {}

-----------------------------------------------------------------------------
(* Coins *)

Pay(purses, coin, u, x) ==
  [purses EXCEPT ![coin] = [purses[coin] EXCEPT ![u] = purses[coin][u] - x]]
Receive(purses, coin, u, x) ==
  [purses EXCEPT ![coin] = [purses[coin] EXCEPT ![u] = purses[coin][u] + x]]
Send(purses, coin, u, v, x) == Receive(Pay(purses, coin, u, x), coin, v, x)

\* WETH.deposit and WETH.withdraw by the wrapper
Wrap(purses, x) == Receive(Pay(purses, ETH, Wrapper, x), WETH, Wrapper, x)
Unwrap(purses, x) == Receive(Pay(purses, WETH, Wrapper, x), ETH, Wrapper, x)

\* Coins that u pays into the wrapper, as the token.
PaidIn(purses, coin, u, x) ==
  IF coin = ETH THEN Wrap(Send(purses, ETH, u, Wrapper, x), x)
  ELSE Send(purses, coin, u, Wrapper, x)

\* The asset that stands for a coin.
AssetOf(coin) == IF coin = ETH THEN WETH ELSE coin

\* The coin in which the wrapper pays out what it got from the pool.
PaidOut(purses, coin, u, x) ==
  IF coin = ETH THEN Send(Unwrap(purses, x), ETH, Wrapper, u, x)
  ELSE Send(purses, coin, Wrapper, u, x)

-----------------------------------------------------------------------------
(* Transactions with one call of the pool *)

\* depositETH and supplyERC20
SupplyFor(u, coin, x, onBehalfOf) ==
  LET a == AssetOf(coin) IN
  /\ idle
  /\ x <= wallet[coin][u]
  /\ Supply(Wrapper, onBehalfOf, a, x)
  /\ wallet' = Pay(PaidIn(wallet, coin, u, x), a, Wrapper, x)
  /\ UNCHANGED <<txn, saved>>

\* borrowETH and borrowERC20
BorrowFor(u, coin, x, mode) ==
  LET a == AssetOf(coin) IN
  /\ idle
  /\ Borrow(u, a, x, mode)
  /\ wallet' = PaidOut(Receive(wallet, a, Wrapper, x), coin, u, x)
  /\ UNCHANGED <<txn, saved>>

\* repayERC20
RepayERC20(u, a, x, mode, onBehalfOf) ==
  LET owed == DebtOfMode(onBehalfOf, a, mode)
      paybackAmount == IF x < owed THEN x ELSE owed
  IN
  /\ idle
  /\ paybackAmount # 0 /\ paybackAmount <= wallet[a][u]
  /\ Repay(onBehalfOf, a, paybackAmount, mode)
  /\ wallet' = Pay(Send(wallet, a, u, Wrapper, paybackAmount), a, Wrapper, paybackAmount)
  /\ UNCHANGED <<txn, saved>>

RepayETH_WrapsAll(u, x, value, mode, onBehalfOf) ==
  LET owed == DebtOfMode(onBehalfOf, WETH, mode)
      paybackAmount == IF x < owed THEN x ELSE owed
      taken == IF value < owed THEN value ELSE owed
  IN
  /\ idle
  /\ value >= paybackAmount /\ value <= wallet[ETH][u]
  /\ Repay(onBehalfOf, WETH, value, mode)
  /\ wallet' = Pay(PaidIn(wallet, ETH, u, value), WETH, Wrapper, taken)
  /\ UNCHANGED <<txn, saved>>

\* repayETH.  The pool is asked to take all of the ether that was sent, of
\* which only the payback amount is wrapped.
RepayETH(u, x, value, mode, onBehalfOf) ==
  LET owed == DebtOfMode(onBehalfOf, WETH, mode)
      paybackAmount == IF x < owed THEN x ELSE owed
      taken == IF value < owed THEN value ELSE owed
      wrapped == PaidIn(wallet, ETH, u, paybackAmount)
  IN
  /\ idle
  /\ value >= paybackAmount /\ value <= wallet[ETH][u]
  /\ taken <= wrapped[WETH][Wrapper]
  /\ Repay(onBehalfOf, WETH, value, mode)
  /\ wallet' = Pay(wrapped, WETH, Wrapper, taken)
  /\ UNCHANGED <<txn, saved>>

-----------------------------------------------------------------------------
(* Transactions with several *)

State ==
  [cash |-> cash, aToken |-> aToken, stableDebt |-> stableDebt, variableDebt |-> variableDebt,
   isolated |-> isolationModeTotalDebt, collateral |-> usingAsCollateral,
   borrowing |-> borrowing, flash |-> flash, wallet |-> wallet]

\* A transaction fails and has not happened.
Revert ==
  \E s \in saved :
    /\ cash' = s.cash /\ aToken' = s.aToken
    /\ stableDebt' = s.stableDebt /\ variableDebt' = s.variableDebt
    /\ isolationModeTotalDebt' = s.isolated
    /\ usingAsCollateral' = s.collateral /\ borrowing' = s.borrowing
    /\ flash' = s.flash /\ wallet' = s.wallet
    /\ txn' = {} /\ saved' = {}
    /\ UNCHANGED <<marketVars, eMode>>

\* withdrawETH and withdrawERC20: the aTokens come to the wrapper ...
WithdrawFor(u, coin, x, to) ==
  /\ idle
  /\ Transfer(u, Wrapper, AssetOf(coin), x)
  /\ txn' = {[next |-> "withdraw", user |-> u, coin |-> coin, amount |-> x, to |-> to]}
  /\ saved' = {State}
  /\ UNCHANGED wallet

\* ... which withdraws the coins, to itself when they are to be ether.
WithdrawForEnd ==
  \E t \in txn :
    /\ t.next = "withdraw"
    /\ Withdraw(Wrapper, AssetOf(t.coin), t.amount)
    /\ wallet' = IF t.coin = ETH
                 THEN PaidOut(Receive(wallet, WETH, Wrapper, t.amount), ETH, t.to, t.amount)
                 ELSE Receive(wallet, t.coin, t.to, t.amount)
    /\ txn' = {} /\ saved' = {}

\* leverageDeposit until the pool calls back
LeverageDeposit(u, coin, cashAmount, borrowAmount) ==
  LET a == AssetOf(coin) IN
  /\ idle
  /\ borrowAmount # 0
  /\ cashAmount <= wallet[coin][u]
  /\ FlashLoan(Wrapper, a, borrowAmount, "none")
  /\ wallet' = Receive(PaidIn(wallet, coin, u, cashAmount), a, Wrapper, borrowAmount)
  /\ txn' = {[next |-> "callback", sender |-> u, initiator |-> Wrapper, asset |-> a,
              amount |-> borrowAmount,
              user |-> u, cashAmount |-> cashAmount, borrowAmount |-> borrowAmount]}
  /\ saved' = {State}

\* Pool.flashLoanSimple by u with the wrapper as the receiver
FlashLoanToWrapper(u, a, amount, user, cashAmount, borrowAmount) ==
  /\ idle
  /\ FlashLoan(u, a, amount, "none")
  /\ wallet' = Receive(wallet, a, Wrapper, amount)
  /\ txn' = {[next |-> "callback", sender |-> u, initiator |-> u, asset |-> a, amount |-> amount,
              user |-> user, cashAmount |-> cashAmount, borrowAmount |-> borrowAmount]}
  /\ saved' = {State}

\* What executeOperation asks of the call.
ValidCallback_AnyInitiator(t) == t.borrowAmount = t.amount

ValidCallback(t) == t.initiator = Wrapper /\ t.borrowAmount = t.amount

\* executeOperation: the supply, with the coins that the wrapper has ...
SupplyAmount_CashOnly(t) == t.cashAmount

SupplyAmount(t) == t.cashAmount + t.borrowAmount

ExecuteOperation ==
  \E t \in txn :
    /\ t.next = "callback"
    /\ ValidCallback(t)
    /\ SupplyAmount(t) <= wallet[t.asset][Wrapper]
    /\ Supply(Wrapper, t.user, t.asset, SupplyAmount(t))
    /\ wallet' = Pay(wallet, t.asset, Wrapper, SupplyAmount(t))
    /\ txn' = {[t EXCEPT !.next = "borrow"]}
    /\ UNCHANGED saved

\* ... and the debt of the user, whose coins repay the flash loan.
ExecuteOperationBorrow ==
  \E t \in txn :
    /\ t.next = "borrow"
    /\ Borrow(t.user, t.asset, t.borrowAmount, Variable)
    /\ wallet' = Receive(wallet, t.asset, Wrapper, t.borrowAmount)
    /\ txn' = {[t EXCEPT !.next = "repay"]}
    /\ UNCHANGED saved

LeverageDepositEnd ==
  \E t \in txn :
    /\ t.next = "repay"
    /\ t.amount <= wallet[t.asset][Wrapper]
    /\ FlashLoanEnd
    /\ wallet' = Pay(wallet, t.asset, Wrapper, t.amount)
    /\ txn' = {} /\ saved' = {}

\* rescueToken, by the owner
RescueToken(coin, to, x) ==
  /\ idle
  /\ x <= wallet[coin][Wrapper]
  /\ wallet' = Send(wallet, coin, Wrapper, to, x)
  /\ UNCHANGED <<vars, txn, saved>>

RescueAToken(a, to, x) ==
  /\ idle
  /\ Transfer(Wrapper, to, a, x)
  /\ UNCHANGED <<wallet, txn, saved>>

-----------------------------------------------------------------------------
(* What users do without the wrapper *)

SendAToken(u, v, a, x) ==
  /\ idle
  /\ Transfer(u, v, a, x)
  /\ UNCHANGED <<wallet, txn, saved>>

SendToWrapper(u, a, x) ==
  /\ idle
  /\ x <= wallet[a][u]
  /\ wallet' = Send(wallet, a, u, Wrapper, x)
  /\ UNCHANGED <<vars, txn, saved>>

\* Pool.setUserUseReserveAsCollateral
ChooseCollateral(u, a, use) ==
  /\ idle
  /\ UseReserveAsCollateral(u, a, use)
  /\ UNCHANGED <<wallet, txn, saved>>

-----------------------------------------------------------------------------

WrapperInit ==
  /\ Init
  /\ wallet = [coin \in Coins |-> [u \in Users |-> IF u = Wrapper THEN 0 ELSE Purse[coin]]]
  /\ txn = {} /\ saved = {}

WrapperNext ==
  \/ \E u \in Senders, coin \in Coins, x \in Amounts, v \in Users : SupplyFor(u, coin, x, v)
  \/ \E u \in Senders, coin \in Coins, x \in Amounts, m \in Modes : BorrowFor(u, coin, x, m)
  \/ \E u, v \in Senders, a \in Assets, x \in Amounts, m \in Modes : RepayERC20(u, a, x, m, v)
  \/ \E u, v \in Senders, x, value \in Amounts, m \in Modes : RepayETH(u, x, value, m, v)
  \/ \E u, v \in Senders, coin \in Coins :
       \E x \in Amounts \cup {aToken[AssetOf(coin)][u]} : WithdrawFor(u, coin, x, v)
  \/ WithdrawForEnd
  \/ \E u \in Senders, coin \in Coins, x \in Amounts \cup {0}, y \in FlashAmounts :
       LeverageDeposit(u, coin, x, y)
  \/ \E u, v \in Senders, a \in Assets, x, y \in FlashAmounts :
       FlashLoanToWrapper(u, a, x, v, 0, y)
  \/ ExecuteOperation
  \/ ExecuteOperationBorrow
  \/ LeverageDepositEnd
  \/ Revert
  \/ \E coin \in Coins, v \in Senders, x \in Amounts : RescueToken(coin, v, x)
  \/ \E a \in Assets, v \in Senders, x \in Amounts : RescueAToken(a, v, x)
  \/ \E u \in Senders, v \in Users, a \in Assets, x \in Amounts : SendAToken(u, v, a, x)
  \/ \E u \in Senders, a \in Strays, x \in Amounts : SendToWrapper(u, a, x)
  \/ \E u \in Senders, a \in Assets, use \in BOOLEAN : ChooseCollateral(u, a, use)

WrapperSpec == WrapperInit /\ [][WrapperNext]_wrapperVars

-----------------------------------------------------------------------------
(* Properties *)

WrapperTypeOK ==
  /\ TypeOK
  /\ wallet \in [Coins -> [Users -> Nat]]
  /\ Cardinality(txn) <= 1 /\ Cardinality(saved) = Cardinality(txn)

\* Between transactions the wrapper owes nothing and holds no coins but those
\* that users sent it: whatever it pulls from a user, it passes on.
WrapperEmpty ==
  idle => /\ borrowing[Wrapper] = {}
          /\ \A coin \in Coins \ Strays : wallet[coin][Wrapper] = 0

WrapperInv == WrapperTypeOK /\ WrapperEmpty

\* The wrapper implements direct use of the pool: seen between transactions,
\* each of them is one operation of its sender, with its own coins, and moves
\* nothing that is the wrapper's.
Promise ==
  INSTANCE WrapperPromise WITH
    Accounts <- Users,
    Amounts <- Moved,
    coins <- IF idle THEN wallet ELSE (CHOOSE s \in saved : TRUE).wallet,
    claims <- [a \in Assets |-> [u \in Users |->
                IF idle THEN aToken[a][u] ELSE (CHOOSE s \in saved : TRUE).aToken[a][u]]],
    debts <- [a \in Assets |-> [u \in Users |->
               IF idle THEN DebtOf(u, a)
               ELSE LET s == CHOOSE s \in saved : TRUE
                    IN s.stableDebt[a][u] + s.variableDebt[a][u]]]

WrapperKeepsPromise == Promise!Spec

\* In a transaction of several calls only its sender comes to owe: the flash
\* loan's callback borrows for the user that its parameters name, and is taken
\* only from a flash loan of the wrapper's own.
OnlySenderBorrows ==
  [][\A t \in txn, u \in Users, a \in Assets : DebtOf(u, a)' > DebtOf(u, a) => t.sender = u]_wrapperVars

\* What PacPoolWrapper.repayETH says of itself: it repays the specified amount,
\* or the whole debt when that is less.
RepaysSpecifiedAmount ==
  [][\A u, v \in Senders, x, value \in Amounts, m \in Modes :
       RepayETH(u, x, value, m, v) => DebtOf(v, WETH) - DebtOf(v, WETH)' <= x]_wrapperVars
=============================================================================
