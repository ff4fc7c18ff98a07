------------------------------ MODULE Reserve ------------------------------
(***************************************************************************)
(* The books of one reserve as interest accrues: the indexes and rates that *)
(* ReserveLogic.sol keeps, the scaled balances of its aToken and variable   *)
(* debt token, the principals and the average rate of its stable debt       *)
(* token, what the treasury is due, and the operations of the pool and of   *)
(* the bridge that change them.                                             *)
(*                                                                          *)
(* Interest is booked lazily.  The first operation at a new timestamp moves *)
(* the indexes; in between, every balance is computed from the last index,  *)
(* the last rate and the time that passed.                                  *)
(*                                                                          *)
(* Named abstractions.  What an account may borrow or withdraw given its    *)
(* collateral, and who may be liquidated, is in LendingPool: here accounts  *)
(* have collateral elsewhere, and the amounts of a liquidation are any.     *)
(* The reserve is active, its configuration does not change, and both kinds *)
(* of debt are enabled.                                                     *)
(***************************************************************************)
EXTENDS InterestMath, FiniteSetsExt

CONSTANTS
  Users,          \* the accounts that call the pool
  Treasury,       \* the account that the reserve factor is minted to
  Amounts,        \* the amounts that calls pass
  FlashAmounts,   \* the amounts of flash loans
  UnbackedAmounts, \* the amounts that the bridge mints and backs
  FeeAmounts,     \* the fees of the bridge and of liquidations
  Liquidations,   \* what this reserve is in a liquidation: "debt", "collateral", "both"
  SUPPLY_CAP,     \* zero: none
  BORROW_CAP,     \* zero: none
  UNBACKED_MINT_CAP,
  MAX_STABLE_LOAN,  \* the share of what is available that a stable loan may take
  FLASH_PREMIUM,  \* the premium of a flash loan, a percentage
  FLASH_PREMIUM_TO_PROTOCOL, \* the treasury's percentage of a premium
  BRIDGE_FEE_TO_PROTOCOL,    \* the treasury's percentage of a bridge fee
  LIQUIDATION_BONUS,      \* what a liquidation seizes for what it pays, a percentage
  MaxTime         \* bound: the last block timestamp

Holders == Users \cup {Treasury}
Stable == "stable"
Variable == "variable"
Modes == {Stable, Variable}

\* type(uint256).max, in the calls that take it: all there is
MaxUint == 2147483647

ASSUME ReserveAssumption ==
  /\ IsFiniteSet(Users)
  /\ Treasury \notin Users
  /\ Amounts \subseteq Nat
  /\ FlashAmounts \subseteq Nat
  /\ UnbackedAmounts \subseteq Nat
  /\ FeeAmounts \subseteq Nat
  /\ Liquidations \subseteq {"debt", "collateral", "both"}
  /\ {SUPPLY_CAP, BORROW_CAP, UNBACKED_MINT_CAP, MaxTime} \subseteq Nat
  /\ {MAX_STABLE_LOAN, FLASH_PREMIUM, FLASH_PREMIUM_TO_PROTOCOL, BRIDGE_FEE_TO_PROTOCOL}
       \subseteq 0 .. PERCENTAGE_FACTOR
  /\ LIQUIDATION_BONUS \in Nat /\ LIQUIDATION_BONUS > PERCENTAGE_FACTOR

VARIABLES
  now,                 \* block.timestamp
  liquidityIndex, variableBorrowIndex,
  rates,               \* currentLiquidityRate, -VariableBorrowRate, -StableBorrowRate
  accruedToTreasury,   \* scaled
  unbacked,
  lastUpdateTimestamp,
  cash,                \* the underlying tokens in the aToken contract
  scaled, scaledSupply,          \* the aToken: scaled balances and their total
  scaledDebt, scaledDebtSupply,  \* the variable debt token: likewise
  stable,              \* the stable debt token: see StableTokenType
  borrowing,           \* the users whose borrowing bit is set
  flash                \* the amounts of flash loans under way: one or none

indexVars == <<liquidityIndex, variableBorrowIndex, accruedToTreasury, lastUpdateTimestamp>>
aTokenVars == <<scaled, scaledSupply>>
variableVars == <<scaledDebt, scaledDebtSupply>>
debtVars == <<variableVars, stable, borrowing>>
vars == <<now, indexVars, rates, unbacked, cash, aTokenVars, debtVars, flash>>

StableTokenType ==
  [principal : [Users -> Nat], rate : [Users -> Nat], timestamp : [Users -> Nat],
   supply : Nat, avgRate : Nat, supplyTimestamp : Nat]

-----------------------------------------------------------------------------
(* Reading the books *)

\* getNormalizedIncome, and the index that updateState stores
NormalizedIncome ==
  IF lastUpdateTimestamp = now THEN liquidityIndex
  ELSE RayMul(LinearInterest(rates.liquidity, now - lastUpdateTimestamp), liquidityIndex)

\* getNormalizedDebt
NormalizedDebt ==
  IF lastUpdateTimestamp = now THEN variableBorrowIndex
  ELSE RayMul(CompoundedInterest(rates.variable, now - lastUpdateTimestamp), variableBorrowIndex)

ATokenOf(u) == RayMul(scaled[u], NormalizedIncome)
VariableDebtOf(u) == RayMul(scaledDebt[u], NormalizedDebt)

\* StableDebtToken.balanceOf
StableBalance(token, u) ==
  RayMul(token.principal[u], CompoundedInterest(token.rate[u], now - token.timestamp[u]))

\* StableDebtToken._calcTotalSupply
StableSupply(token) ==
  RayMul(token.supply, CompoundedInterest(token.avgRate, now - token.supplyTimestamp))

StableDebtOf(u) == StableBalance(stable, u)
DebtOf(u) == StableDebtOf(u) + VariableDebtOf(u)
DebtOfMode(u, mode) == IF mode = Stable THEN StableDebtOf(u) ELSE VariableDebtOf(u)

-----------------------------------------------------------------------------
(* ReserveLogic.updateState *)

\* _updateIndexes: the borrow index stands still while nothing is borrowed.
NextVariableBorrowIndex ==
  IF scaledDebtSupply = 0 THEN variableBorrowIndex ELSE NormalizedDebt

\* _accrueToTreasury
DebtAccrued ==
  RayMul(scaledDebtSupply, NextVariableBorrowIndex) + StableSupply(stable)
    - RayMul(scaledDebtSupply, variableBorrowIndex)
    - RayMul(stable.supply,
             CompoundedInterest(stable.avgRate, lastUpdateTimestamp - stable.supplyTimestamp))

NextAccruedToTreasury_All ==
  IF lastUpdateTimestamp = now THEN accruedToTreasury
  ELSE accruedToTreasury + RayDiv(DebtAccrued, NormalizedIncome)

NextAccruedToTreasury ==
  IF lastUpdateTimestamp = now THEN accruedToTreasury
  ELSE accruedToTreasury + RayDiv(PercentMul(DebtAccrued, RESERVE_FACTOR), NormalizedIncome)

UpdateState_KeepsTimestamp ==
  /\ liquidityIndex' = NormalizedIncome
  /\ variableBorrowIndex' = NextVariableBorrowIndex
  /\ accruedToTreasury' = NextAccruedToTreasury
  /\ UNCHANGED lastUpdateTimestamp

UpdateState ==
  /\ liquidityIndex' = NormalizedIncome
  /\ variableBorrowIndex' = NextVariableBorrowIndex
  /\ accruedToTreasury' = NextAccruedToTreasury
  /\ lastUpdateTimestamp' = now

\* updateState and then cumulateToLiquidityIndex: toHolders is spread over the
\* holders, the treasury's claim included, and toTreasury added to that claim.
UpdateStateWithIncome(toHolders, toTreasury) ==
  LET total == RayMul(scaledSupply, NormalizedIncome)
                 + RayMul(NextAccruedToTreasury, NormalizedIncome)
      index == RayMul(RayDiv(WadToRay(toHolders), WadToRay(total)) + RAY, NormalizedIncome)
  IN
  /\ total # 0
  /\ liquidityIndex' = index
  /\ variableBorrowIndex' = NextVariableBorrowIndex
  /\ accruedToTreasury' = NextAccruedToTreasury + RayDiv(toTreasury, index)
  /\ lastUpdateTimestamp' = now

\* updateInterestRates, for what the reserve will have and the stable debt that
\* the cache was told of.  Tokens move after it, so it counts those that will.
UpdateInterestRates(available, stableDebt, averageStableRate) ==
  /\ available >= 0
  /\ rates' = InterestRates(available, unbacked', stableDebt,
                            RayMul(scaledDebtSupply', variableBorrowIndex'), averageStableRate)

\* ... when no stable debt is minted or burned.
UpdateVariableRates(available) ==
  UpdateInterestRates(available, StableSupply(stable), stable.avgRate)

-----------------------------------------------------------------------------
(* The tokens *)

Add(balances, u, x) == [balances EXCEPT ![u] = balances[u] + x]
Subtract(balances, u, x) == [balances EXCEPT ![u] = balances[u] - x]

\* ScaledBalanceTokenBase._mintScaled and _burnScaled.  They revert when the
\* amount rounds to nothing, and a burn when it takes more than is stored: what is
\* compared is the scaled amount, so one unit more than the balance may pass.
MintAToken(u, amount) ==
  LET x == RayDiv(amount, liquidityIndex') IN
  x # 0 /\ scaled' = Add(scaled, u, x) /\ scaledSupply' = scaledSupply + x

BurnAToken(u, amount) ==
  LET x == RayDiv(amount, liquidityIndex') IN
  /\ x # 0 /\ x <= scaled[u]
  /\ scaled' = Subtract(scaled, u, x)
  /\ scaledSupply' = scaledSupply - x

MintVariableDebt(u, amount) ==
  LET x == RayDiv(amount, variableBorrowIndex') IN
  x # 0 /\ scaledDebt' = Add(scaledDebt, u, x) /\ scaledDebtSupply' = scaledDebtSupply + x

BurnVariableDebt(u, amount) ==
  LET x == RayDiv(amount, variableBorrowIndex') IN
  /\ x # 0
  /\ scaledDebt' = Subtract(scaledDebt, u, x)
  /\ scaledDebtSupply' = scaledDebtSupply - x

\* StableDebtToken.mint.  The rates of the user and of the token become means,
\* weighted by what was owed.
StableMint(token, u, amount, rate) ==
  LET owed == StableBalance(token, u)
      supply == StableSupply(token)
      Mean(rate1, amount1) ==
        RayDiv(RayMul(rate1, WadToRay(amount1)) + RayMul(rate, WadToRay(amount)),
               WadToRay(amount1 + amount))
  IN
  [principal |-> [token.principal EXCEPT ![u] = owed + amount],
   rate |-> [token.rate EXCEPT ![u] = Mean(token.rate[u], owed)],
   timestamp |-> [token.timestamp EXCEPT ![u] = now],
   supply |-> supply + amount,
   avgRate |-> Mean(token.avgRate, supply),
   supplyTimestamp |-> now]

\* StableDebtToken.burn.  The total accrues at its own mean rate and may fall
\* short of what is burned, or its interest of the user's; then it is dropped.
StableBurn(token, u, amount) ==
  LET owed == StableBalance(token, u)
      supply == StableSupply(token)
      interest == RayMul(token.avgRate, WadToRay(supply))
      burned == RayMul(token.rate[u], WadToRay(amount))
      dropped == supply <= amount \/ burned >= interest
  IN
  [principal |-> [token.principal EXCEPT ![u] = owed - amount],
   rate |-> [token.rate EXCEPT ![u] = IF amount = owed THEN 0 ELSE token.rate[u]],
   timestamp |-> [token.timestamp EXCEPT ![u] = IF amount = owed THEN 0 ELSE now],
   supply |-> IF dropped THEN 0 ELSE supply - amount,
   avgRate |-> IF dropped THEN 0 ELSE RayDiv(interest - burned, WadToRay(supply - amount)),
   supplyTimestamp |-> now]

\* The total that burn returns: what was left before the interest was compared.
TotalAfterBurn(token, amount) ==
  IF StableSupply(token) <= amount THEN 0 ELSE StableSupply(token) - amount

-----------------------------------------------------------------------------
(* Supplying *)

\* validateSupply
WithinSupplyCap(amount) ==
  /\ amount # 0
  /\ SUPPLY_CAP # 0 =>
       RayMul(scaledSupply + NextAccruedToTreasury, NormalizedIncome) + amount <= SUPPLY_CAP

\* SupplyLogic.executeSupply
Supply(v, amount) ==
  /\ UpdateState
  /\ WithinSupplyCap(amount)
  /\ UNCHANGED <<now, unbacked, debtVars, flash>>
  /\ UpdateVariableRates(cash + amount)
  /\ cash' = cash + amount
  /\ MintAToken(v, amount)

\* BridgeLogic.executeMintUnbacked
MintUnbacked(v, amount) ==
  /\ UpdateState
  /\ WithinSupplyCap(amount)
  /\ unbacked + amount <= UNBACKED_MINT_CAP
  /\ unbacked' = unbacked + amount
  /\ UNCHANGED <<now, cash, debtVars, flash>>
  /\ UpdateVariableRates(cash)
  /\ MintAToken(v, amount)

\* BridgeLogic.executeBackUnbacked
BackUnbacked(amount, fee) ==
  LET backing == IF amount < unbacked THEN amount ELSE unbacked
      feeToProtocol == PercentMul(fee, BRIDGE_FEE_TO_PROTOCOL)
  IN
  /\ UpdateStateWithIncome(fee - feeToProtocol, feeToProtocol)
  /\ unbacked' = unbacked - backing
  /\ UNCHANGED <<now, aTokenVars, debtVars, flash>>
  /\ UpdateVariableRates(cash + backing + fee)
  /\ cash' = cash + backing + fee

\* SupplyLogic.executeWithdraw
Withdraw(u, asked) ==
  LET balance == ATokenOf(u)
      amount == IF asked = MaxUint THEN balance ELSE asked
  IN
  /\ UpdateState
  /\ amount # 0 /\ amount <= balance
  /\ amount <= cash
  /\ UNCHANGED <<now, unbacked, debtVars, flash>>
  /\ UpdateVariableRates(cash - amount)
  /\ cash' = cash - amount
  /\ BurnAToken(u, amount)

\* AToken._transfer: the amount is scaled by the index of now, which is not
\* stored, and only the scaled amount is compared with what there is.
Transfer(u, v, amount) ==
  LET x == RayDiv(amount, NormalizedIncome) IN
  /\ x <= scaled[u]
  /\ scaled' = Add(Subtract(scaled, u, x), v, x)
  /\ UNCHANGED <<now, indexVars, rates, unbacked, cash, scaledSupply, debtVars, flash>>

\* PoolLogic.executeMintToTreasury, without updateState: what accrued since the
\* last update stays to be accrued.
MintToTreasury ==
  LET amount == RayMul(accruedToTreasury, NormalizedIncome)
      x == RayDiv(amount, NormalizedIncome)
  IN
  /\ accruedToTreasury # 0
  /\ accruedToTreasury' = 0
  /\ scaled' = Add(scaled, Treasury, x)
  /\ scaledSupply' = scaledSupply + x
  /\ UNCHANGED <<now, liquidityIndex, variableBorrowIndex, lastUpdateTimestamp, rates, unbacked,
                 cash, debtVars, flash>>

-----------------------------------------------------------------------------
(* Borrowing *)

\* BorrowLogic.executeBorrow, which releases the tokens unless they were lent
\* by a flash loan
AddDebt(u, amount, mode, released) ==
  /\ UpdateState
  /\ amount # 0
  /\ BORROW_CAP # 0 =>
       StableSupply(stable) + RayMul(scaledDebtSupply, variableBorrowIndex') + amount <= BORROW_CAP
  /\ mode = Stable => amount <= PercentMul(cash, MAX_STABLE_LOAN)
  /\ released <= cash
  /\ borrowing' = IF DebtOfMode(u, mode) = 0 THEN borrowing \cup {u} ELSE borrowing
  /\ IF mode = Stable
     THEN /\ stable' = StableMint(stable, u, amount, rates.stable)
          /\ UNCHANGED variableVars
     ELSE /\ MintVariableDebt(u, amount)
          /\ UNCHANGED stable
  /\ UNCHANGED <<now, unbacked, aTokenVars>>
  /\ UpdateInterestRates(cash - released, StableSupply(stable)', stable'.avgRate)
  /\ cash' = cash - released

Borrow(u, amount, mode) ==
  /\ AddDebt(u, amount, mode, amount)
  /\ UNCHANGED flash

\* The bits of u when `paid` of its debt is burned.
BorrowingAfter_OneMode(u, mode, paid) ==
  IF DebtOfMode(u, mode) = paid THEN borrowing \ {u} ELSE borrowing

BorrowingAfter(u, mode, paid) ==
  IF DebtOf(u) = paid THEN borrowing \ {u} ELSE borrowing

\* Debt of one mode is burned, and available tokens will be left.
BurnDebt(u, mode, amount, available) ==
  IF mode = Stable
  THEN /\ stable' = StableBurn(stable, u, amount)
       /\ UNCHANGED variableVars
       /\ UpdateInterestRates(available, TotalAfterBurn(stable, amount), stable'.avgRate)
  ELSE /\ BurnVariableDebt(u, amount)
       /\ UNCHANGED stable
       /\ UpdateVariableRates(available)

\* BorrowLogic.executeRepay, by anyone, with tokens
Repay(u, asked, mode) ==
  LET owed == DebtOfMode(u, mode)
      amount == IF asked = MaxUint \/ owed < asked THEN owed ELSE asked
  IN
  /\ asked # 0 /\ owed # 0
  /\ UpdateState
  /\ UNCHANGED <<now, unbacked, aTokenVars, flash>>
  /\ BurnDebt(u, mode, amount, cash + amount)
  /\ borrowing' = BorrowingAfter(u, mode, amount)
  /\ cash' = cash + amount

\* BorrowLogic.executeRepay, with aTokens
RepayWithATokens(u, asked, mode) ==
  LET owed == DebtOfMode(u, mode)
      offered == IF asked = MaxUint THEN ATokenOf(u) ELSE asked
      amount == IF offered < owed THEN offered ELSE owed
  IN
  /\ asked # 0 /\ owed # 0
  /\ UpdateState
  /\ UNCHANGED <<now, unbacked, cash, flash>>
  /\ BurnDebt(u, mode, amount, cash)
  /\ borrowing' = BorrowingAfter(u, mode, amount)
  /\ BurnAToken(u, amount)

\* BorrowLogic.executeSwapBorrowRateMode, to the other mode
SwapBorrowRateMode(u, mode) ==
  LET owed == DebtOfMode(u, mode) IN
  /\ owed # 0
  /\ UpdateState
  /\ IF mode = Stable
     THEN /\ stable' = StableBurn(stable, u, owed)
          /\ MintVariableDebt(u, owed)
     ELSE /\ stable' = StableMint(stable, u, owed, rates.stable)
          /\ BurnVariableDebt(u, owed)
  /\ UNCHANGED <<now, unbacked, cash, aTokenVars, borrowing, flash>>
  /\ UpdateInterestRates(cash, IF mode = Stable THEN TotalAfterBurn(stable, owed)
                               ELSE stable'.supply, stable'.avgRate)

\* validateRebalanceStableBorrowRate: the suppliers earn less than nine tenths
\* of what they would if all debt were variable.
MayRebalance ==
  rates.liquidity
    <= PercentMul(InterestRates(cash, unbacked, 0,
                                StableSupply(stable) + RayMul(scaledDebtSupply, NormalizedDebt),
                                0).liquidity, 9000)

\* BorrowLogic.executeRebalanceStableBorrowRate, for anyone, by anyone
RebalanceStableBorrowRate(u) ==
  LET owed == StableDebtOf(u) IN
  /\ owed # 0
  /\ MayRebalance
  /\ UpdateState
  /\ stable' = StableMint(StableBurn(stable, u, owed), u, owed, rates.stable)
  /\ UNCHANGED <<now, unbacked, cash, aTokenVars, variableVars, borrowing, flash>>
  /\ UpdateInterestRates(cash, stable'.supply, stable'.avgRate)

-----------------------------------------------------------------------------
(* Liquidations, in which this reserve is the debt, the collateral, or both *)

\* _burnDebtTokens: the variable debt first
BurnDebtTokens(u, paid) ==
  LET fromVariable == IF paid <= VariableDebtOf(u) THEN paid ELSE VariableDebtOf(u) IN
  /\ IF fromVariable = 0 THEN UNCHANGED variableVars ELSE BurnVariableDebt(u, fromVariable)
  /\ stable' = IF fromVariable = paid THEN stable ELSE StableBurn(stable, u, paid - fromVariable)
  /\ borrowing' = IF paid = DebtOf(u) THEN borrowing \ {u} ELSE borrowing

\* ... and what the cache then takes for the total stable debt.
StableDebtAfter(u, paid) ==
  IF paid <= VariableDebtOf(u) THEN StableSupply(stable)
  ELSE TotalAfterBurn(stable, paid - VariableDebtOf(u))

\* l gets `seized` of u's aTokens, or they are burned, and the treasury gets the
\* fee: at most what u has left.
SeizeATokens(u, l, seized, fee, receiveAToken) ==
  LET x == RayDiv(seized, NormalizedIncome)
      left == IF receiveAToken THEN Add(Subtract(scaled, u, x), l, x) ELSE Subtract(scaled, u, x)
      scaledFee == RayDiv(fee, NormalizedIncome)
      y == IF scaledFee > left[u] THEN left[u] ELSE scaledFee
  IN
  /\ ~ receiveAToken => x # 0
  /\ scaled' = Add(Subtract(left, u, y), Treasury, y)
  /\ scaledSupply' = IF receiveAToken THEN scaledSupply ELSE scaledSupply - x

\* LiquidationLogic.executeLiquidationCall for collateral of another reserve
LiquidateDebt(u, paid) ==
  /\ "debt" \in Liquidations
  /\ paid # 0 /\ paid <= DebtOf(u)
  /\ UpdateState
  /\ BurnDebtTokens(u, paid)
  /\ UNCHANGED <<now, unbacked, aTokenVars, flash>>
  /\ UpdateInterestRates(cash + paid, StableDebtAfter(u, paid), stable'.avgRate)
  /\ cash' = cash + paid

\* ... for debt of another reserve.  A transfer of aTokens updates nothing.
LiquidateCollateral(l, u, seized, fee, receiveAToken) ==
  /\ "collateral" \in Liquidations
  /\ seized # 0 /\ seized + fee <= ATokenOf(u)
  /\ SeizeATokens(u, l, seized, fee, receiveAToken)
  /\ UNCHANGED <<now, unbacked, debtVars, flash>>
  /\ \/ receiveAToken /\ UNCHANGED <<indexVars, rates, cash>>
     \/ /\ ~ receiveAToken
        /\ seized <= cash
        /\ UpdateState
        /\ UpdateVariableRates(cash - seized)
        /\ cash' = cash - seized

\* ... for debt of this reserve.  When the collateral is paid out the rates are
\* computed a second time, before the debt has been paid in.
LiquidateBoth(l, u, asked, fee, receiveAToken) ==
  LET balance == ATokenOf(u)
      most == PercentMul(asked, LIQUIDATION_BONUS)
      paid == IF most > balance THEN PercentDiv(balance, LIQUIDATION_BONUS) ELSE asked
      seized == (IF most > balance THEN balance ELSE most) - fee
  IN
  /\ "both" \in Liquidations
  /\ asked <= DebtOf(u)
  /\ paid # 0 /\ seized > 0
  /\ UpdateState
  /\ BurnDebtTokens(u, paid)
  /\ SeizeATokens(u, l, seized, fee, receiveAToken)
  /\ UNCHANGED <<now, unbacked, flash>>
  /\ \/ /\ receiveAToken
        /\ UpdateInterestRates(cash + paid, StableDebtAfter(u, paid), stable'.avgRate)
        /\ cash' = cash + paid
     \/ /\ ~ receiveAToken
        /\ seized <= cash
        /\ UpdateInterestRates(cash - seized, StableSupply(stable)', stable'.avgRate)
        /\ cash' = cash - seized + paid

-----------------------------------------------------------------------------
(* Flash loans: the receiver may use the pool before it pays back *)

FlashLoan(amount) ==
  /\ flash = {}
  /\ amount <= cash
  /\ flash' = {amount}
  /\ cash' = cash - amount
  /\ UNCHANGED <<now, indexVars, rates, unbacked, aTokenVars, debtVars>>

\* FlashLoanLogic._handleFlashLoanRepayment
FlashLoanRepaid ==
  \E amount \in flash :
    LET premium == PercentMul(amount, FLASH_PREMIUM)
        premiumToProtocol == PercentMul(premium, FLASH_PREMIUM_TO_PROTOCOL)
    IN
    /\ UpdateStateWithIncome(premium - premiumToProtocol, premiumToProtocol)
    /\ UNCHANGED <<now, unbacked, aTokenVars, debtVars>>
    /\ UpdateVariableRates(cash + amount + premium)
    /\ cash' = cash + amount + premium
    /\ flash' = {}

\* ... or leaves the loan to become debt, without a premium.
FlashLoanKept(u, mode) ==
  \E amount \in flash :
    /\ AddDebt(u, amount, mode, 0)
    /\ flash' = {}

\* The next block; flash loans end in the transaction that takes them.
Tick ==
  /\ flash = {}
  /\ now < MaxTime
  /\ now' = now + 1
  /\ UNCHANGED <<indexVars, rates, unbacked, cash, aTokenVars, debtVars, flash>>

-----------------------------------------------------------------------------

NoDebt ==
  LET none == [u \in Users |-> 0] IN
  [principal |-> none, rate |-> none, timestamp |-> none,
   supply |-> 0, avgRate |-> 0, supplyTimestamp |-> 0]

\* ReserveLogic.init
Init ==
  /\ now = 1
  /\ liquidityIndex = RAY
  /\ variableBorrowIndex = RAY
  /\ rates = [liquidity |-> 0, variable |-> 0, stable |-> 0]
  /\ accruedToTreasury = 0
  /\ unbacked = 0
  /\ lastUpdateTimestamp = 0
  /\ cash = 0
  /\ scaled = [u \in Holders |-> 0]
  /\ scaledSupply = 0
  /\ scaledDebt = [u \in Users |-> 0]
  /\ scaledDebtSupply = 0
  /\ stable = NoDebt
  /\ borrowing = {}
  /\ flash = {}

Next ==
  \/ Tick
  \/ \E v \in Users, x \in Amounts : Supply(v, x)
  \/ \E u \in Users, x \in Amounts \cup {MaxUint} : Withdraw(u, x)
  \/ \E u, v \in Users, x \in Amounts : Transfer(u, v, x)
  \/ \E v \in Users, x \in UnbackedAmounts : MintUnbacked(v, x)
  \/ \E x \in UnbackedAmounts, fee \in FeeAmounts : BackUnbacked(x, fee)
  \/ MintToTreasury
  \/ \E u \in Users, x \in Amounts, m \in Modes : Borrow(u, x, m)
  \/ \E u \in Users, x \in Amounts \cup {MaxUint}, m \in Modes : Repay(u, x, m)
  \/ \E u \in Users, x \in Amounts \cup {MaxUint}, m \in Modes : RepayWithATokens(u, x, m)
  \/ \E u \in Users, m \in Modes : SwapBorrowRateMode(u, m)
  \/ \E u \in Users : RebalanceStableBorrowRate(u)
  \/ \E u \in Users : \E x \in Amounts \cup {DebtOf(u)} : LiquidateDebt(u, x)
  \/ \E l, u \in Users, x \in Amounts, fee \in FeeAmounts, r \in BOOLEAN :
       LiquidateCollateral(l, u, x, fee, r)
  \/ \E l, u \in Users, fee \in FeeAmounts, r \in BOOLEAN :
       \E x \in Amounts \cup {DebtOf(u)} : LiquidateBoth(l, u, x, fee, r)
  \/ \E x \in FlashAmounts : FlashLoan(x)
  \/ FlashLoanRepaid
  \/ \E u \in Users, m \in Modes : FlashLoanKept(u, m)

Spec == Init /\ [][Next]_vars

-----------------------------------------------------------------------------
(* Properties *)

TypeOK ==
  /\ now \in Nat
  /\ liquidityIndex \in Nat /\ variableBorrowIndex \in Nat
  /\ rates \in [liquidity : Nat, variable : Nat, stable : Nat]
  /\ accruedToTreasury \in Nat
  /\ unbacked \in Nat
  /\ lastUpdateTimestamp \in Nat
  /\ cash \in Nat
  /\ scaled \in [Holders -> Nat]
  /\ scaledSupply \in Nat
  /\ scaledDebt \in [Users -> Nat]
  /\ scaledDebtSupply \in Nat
  /\ stable \in StableTokenType
  /\ borrowing \subseteq Users
  /\ \A x \in flash : x \in Nat /\ flash = {x}

\* Time and indexes only grow: a difference of timestamps below zero would
\* revert every operation of the reserve, and an index below one ray would
\* burn more than it counts.
BooksInOrder ==
  /\ lastUpdateTimestamp <= now
  /\ liquidityIndex >= RAY /\ variableBorrowIndex >= RAY
  /\ stable.supplyTimestamp <= lastUpdateTimestamp
  /\ \A u \in Users : stable.timestamp[u] <= stable.supplyTimestamp

\* Whoever owes the reserve anything has the borrowing bit set, although debts
\* are computed, rounded, with an index that moves.  Without the bit the debt
\* would count in no health factor and could not be liquidated.
DebtsFlagged == \A u \in Users : DebtOf(u) # 0 => u \in borrowing

ReserveInv == TypeOK /\ BooksInOrder /\ DebtsFlagged

\* Whose balances a transaction does not touch has what it had: booking the
\* interest of the time that passed changes no balance.  Only a premium or fee
\* does, and raises the balances of the holders.
OthersUntouched ==
  [][now' = now =>
       /\ \A u \in Holders : scaled'[u] = scaled[u] =>
            \/ ATokenOf(u)' = ATokenOf(u)
            \/ ATokenOf(u)' > ATokenOf(u) /\ cash' > cash
       /\ \A u \in Users :
            scaledDebt'[u] = scaledDebt[u] => VariableDebtOf(u)' = VariableDebtOf(u)]_vars

\* In units of 1 / RAY: what the reserve has or is owed beyond what its
\* holders and the treasury may claim.
Surplus ==
  RAY * (cash + unbacked + MapThenSumSet(LAMBDA x : x, flash))
    + scaledDebtSupply * NormalizedDebt
    + MapThenSumSet(LAMBDA u :
        stable.principal[u] * CompoundedInterest(stable.rate[u], now - stable.timestamp[u]), Users)
    - (scaledSupply + NextAccruedToTreasury) * NormalizedIncome

\* What a step may lose by rounding: a unit of each token it touches, and for
\* each unit of the balances that it accrues a few units of the last place.
Rounding == 2 * (liquidityIndex' + variableBorrowIndex') + 4 * (scaledSupply + scaledDebtSupply)

\* The rates of the liquidity and of the debts at the last update.
FittingRates ==
  InterestRates(cash, unbacked,
                RayMul(stable.supply,
                       CompoundedInterest(stable.avgRate, lastUpdateTimestamp - stable.supplyTimestamp)),
                RayMul(scaledDebtSupply, variableBorrowIndex), stable.avgRate)

\* Suppliers and treasury are never promised more interest than the borrowers
\* owe: no transaction takes from what the reserve has beyond its obligations,
\* but for rounding, and neither does time while the rate that suppliers earn
\* is at most the one that fits the liquidity.
NothingLost ==
  [][now' = now \/ rates.liquidity <= FittingRates.liquidity =>
       Surplus' >= Surplus - Rounding]_vars

\* What ReserveLogic.updateInterestRates says of itself: the rates are those of
\* the liquidity with what the call adds and without what it takes.
RatesFitLiquidity == [][rates' # rates => rates' = FittingRates']_vars
=============================================================================
