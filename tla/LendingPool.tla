---------------------------- MODULE LendingPool ----------------------------
(***************************************************************************)
(* The lending pool (protocol/pool/Pool.sol with SupplyLogic, BorrowLogic,  *)
(* LiquidationLogic, EModeLogic, IsolationModeLogic, FlashLoanLogic,        *)
(* ValidationLogic and GenericLogic): who holds and owes what, which of it  *)
(* counts as collateral, and what the pool lets each account do.            *)
(*                                                                          *)
(* A transaction is one action, except a flash loan: its receiver is called *)
(* back between FlashLoan and FlashLoanEnd and may use the pool meanwhile.  *)
(* A transaction that reverts is one that never happened, so a flash loan   *)
(* that cannot end is a behaviour that stops before it ends.                *)
(*                                                                          *)
(* Named abstractions.  Interest is left out: both indexes stay at one ray, *)
(* so amounts and scaled amounts coincide, and health factors move with     *)
(* prices.  One unit of each asset is its smallest.  Flash loans are those  *)
(* without a premium.  Caps and the other parameters of a reserve are       *)
(* constants; its status (frozen, paused) is not.                           *)
(***************************************************************************)
EXTENDS FiniteSums, PercentageMath, Functions

CONSTANTS
  Assets,         \* the listed reserves
  Users,          \* the accounts that call the pool
  Treasury,       \* the account that collects the protocol fee
  Config,         \* the parameters of each reserve
  EModes,         \* the parameters of each eMode category
  Sources,        \* the price sources: the assets, and those of eModes
  NoSource,       \* an eMode category without a price source of its own
  IsolatedSuppliers,  \* holders of ISOLATED_COLLATERAL_SUPPLIER_ROLE
  InitialPrice,   \* the price of each source
  PriceMoves,     \* <<source, price>>: the prices that the oracle reports
  StatusMoves,    \* <<asset, status>>: what the admin sets
  SequencerMoves, \* what the sentinel reports: TRUE, up and past the grace period
  Amounts,        \* the amounts that calls pass
  CoverAmounts,   \* the debts that liquidators offer to cover
  FlashAmounts,   \* the amounts of flash loans
  Modes,          \* the rate modes that borrowers choose
  CEILING_UNIT,   \* an asset's units in one unit of a debt ceiling
  WAD             \* one, in health factors

Holders == Users \cup {Treasury}
Stable == "stable"
Variable == "variable"
Statuses == {"open", "frozen", "paused"}
Categories == {0} \cup DOMAIN EModes

ReserveConfig ==
  [ltv : Nat, threshold : Nat, bonus : Nat, protocolFee : Nat,
   debtCeiling : Nat, borrowableInIsolation : BOOLEAN, siloed : BOOLEAN,
   eMode : Categories, borrowing : BOOLEAN, stable : BOOLEAN, flashLoan : BOOLEAN,
   supplyCap : Nat, borrowCap : Nat]

EModeConfig ==
  [ltv : Nat, threshold : Nat \ {0}, bonus : Nat \ {0}, priceSource : Sources \cup {NoSource}]

ASSUME PoolAssumption ==
  /\ IsFiniteSet(Users) /\ IsFiniteSet(Assets)
  /\ Treasury \notin Users
  /\ DOMAIN EModes \subseteq Nat \ {0}
  /\ Config \in [Assets -> ReserveConfig]
  /\ EModes \in [DOMAIN EModes -> EModeConfig]
  \* checked by the pool configurator
  /\ \A a \in Assets : Config[a].threshold # 0 => Config[a].bonus > PERCENTAGE_FACTOR
  /\ \A a \in Assets : Config[a].protocolFee <= PERCENTAGE_FACTOR
  /\ \A cat \in DOMAIN EModes : EModes[cat].bonus > PERCENTAGE_FACTOR
  /\ Assets \subseteq Sources
  /\ NoSource \notin Sources
  /\ IsolatedSuppliers \subseteq Users
  /\ InitialPrice \in [Sources -> Nat \ {0}]
  /\ PriceMoves \subseteq Sources \X (Nat \ {0})
  /\ StatusMoves \subseteq Assets \X Statuses
  /\ SequencerMoves \subseteq BOOLEAN
  /\ Amounts \subseteq Nat
  /\ CoverAmounts \subseteq Nat
  /\ FlashAmounts \subseteq Nat
  /\ Modes \subseteq {Stable, Variable}
  /\ CEILING_UNIT \in Nat \ {0}
  /\ WAD \in Nat \ {0}

\* type(uint256).max, the health factor of an account without debt
MaxUint == 2147483647

\* maxStableRateBorrowSizePercent and the close factors
MaxStableLoanPercent == 2500
DefaultCloseFactor == 5000
MaxCloseFactor == 10000

\* CLOSE_FACTOR_HF_THRESHOLD and MINIMUM_HEALTH_FACTOR_LIQUIDATION_THRESHOLD
CloseFactorThreshold == (95 * WAD) \div 100

VARIABLES
  price, status, sequencerUp,
  cash,                \* the underlying tokens in each aToken contract
  aToken,              \* the aToken balances
  stableDebt, variableDebt,   \* the debt token balances
  isolationModeTotalDebt,     \* debt of isolated borrowers, in ceiling units
  usingAsCollateral, borrowing,  \* the bits of each user's configuration map
  eMode,               \* the category of each user
  flash                \* the flash loans whose receiver is being called: one or none

marketVars == <<price, status, sequencerUp>>
tokenVars == <<cash, aToken, stableDebt, variableDebt>>
flagVars == <<usingAsCollateral, borrowing, eMode>>
vars == <<marketVars, tokenVars, flagVars, isolationModeTotalDebt, flash>>

-----------------------------------------------------------------------------
(* Account data: GenericLogic.calculateUserAccountData *)

\* EModeLogic.isInEModeCategory
InEMode(cat, a) == cat # 0 /\ Config[a].eMode = cat

\* The price of a for an account in category cat.
PriceFor(a, cat) ==
  IF InEMode(cat, a) /\ EModes[cat].priceSource # NoSource
  THEN price[EModes[cat].priceSource]
  ELSE price[a]

LtvFor(a, cat) ==
  IF Config[a].ltv = 0 THEN 0
  ELSE IF InEMode(cat, a) THEN EModes[cat].ltv
  ELSE Config[a].ltv

ThresholdFor(a, cat) ==
  IF InEMode(cat, a) THEN EModes[cat].threshold ELSE Config[a].threshold

\* The flagged reserves that count.
CollateralOf(u) == {a \in usingAsCollateral[u] : Config[a].threshold # 0}

DebtOf(u, a) == stableDebt[a][u] + variableDebt[a][u]

\* GenericLogic.calculateUserAccountData.  The mean ltv and threshold of the
\* collateral are weighted by value and rounded down.
AccountData(u, cat) ==
  LET counted == CollateralOf(u)
      value == [a \in counted |-> aToken[a][u] * PriceFor(a, cat)]
      owed == [a \in borrowing[u] |-> DebtOf(u, a) * PriceFor(a, cat)]
      collateral == FoldFunction(+, 0, value)
      debt == FoldFunction(+, 0, owed)
      Average(Param(_)) ==
        IF collateral = 0 THEN 0
        ELSE FoldFunction(+, 0, [a \in counted |-> value[a] * Param(a)]) \div collateral
  IN
  [collateral |-> collateral,
   debt |-> debt,
   ltv |-> Average(LAMBDA a : LtvFor(a, cat)),
   health |-> IF debt = 0 THEN MaxUint
              ELSE UnitDiv(PercentMul(collateral, Average(LAMBDA a : ThresholdFor(a, cat))),
                           debt, WAD),
   zeroLtv |-> \E a \in counted : Config[a].ltv = 0]

-----------------------------------------------------------------------------
(* Validation *)

\* ValidationLogic.validateHealthFactor
Healthy(u, cat) == borrowing[u] = {} \/ AccountData(u, cat).health >= WAD

\* ValidationLogic.validateHFAndLtv, for a change of u's balance of a
HealthyWithout_LtvOnly(u, a, cat) == AccountData(u, cat).zeroLtv => Config[a].ltv = 0

HealthyWithout(u, a, cat) ==
  LET data == AccountData(u, cat) IN
  /\ data.health >= WAD
  /\ data.zeroLtv => Config[a].ltv = 0

\* UserConfiguration.getIsolationModeState: the isolated collateral, if any
IsolatedCollateral(flags) == {a \in flags : flags = {a} /\ Config[a].debtCeiling # 0}

\* UserConfiguration.getSiloedBorrowingState
SiloedAsset(flags) == {a \in flags : flags = {a} /\ Config[a].siloed}

\* ValidationLogic.validateUseAsCollateral
MayUseAsCollateral_OneWay(flags, a) ==
  Config[a].ltv # 0 /\ (flags # {} => IsolatedCollateral(flags) = {})

MayUseAsCollateral(flags, a) ==
  /\ Config[a].ltv # 0
  /\ flags # {} => IsolatedCollateral(flags) = {} /\ Config[a].debtCeiling = 0

\* ValidationLogic.validateAutomaticUseAsCollateral, for the caller u.  An
\* aToken transfer is finalized by the aToken, which has no role.
AutomaticCollateral(callers, flags, a) ==
  /\ Config[a].debtCeiling # 0 => callers \cap IsolatedSuppliers # {}
  /\ MayUseAsCollateral(flags, a)

\* The flags of an account whose balance of a was `before` when it received
\* more of it in a call from one of callers.
FlagsAfterReceipt(callers, flags, a, before) ==
  IF before = 0 /\ AutomaticCollateral(callers, flags, a) THEN flags \cup {a} ELSE flags

-----------------------------------------------------------------------------
(* Ledger changes *)

Credit(f, a, u, x) == [f EXCEPT ![a] = [f[a] EXCEPT ![u] = f[a][u] + x]]
Debit(f, a, u, x) == [f EXCEPT ![a] = [f[a] EXCEPT ![u] = f[a][u] - x]]

\* An amount of debt in the units of a debt ceiling, rounded down.
CeilingUnits(x) == x \div CEILING_UNIT

\* IsolationModeLogic.updateIsolatedDebtIfIsolated, with the flags of the borrower
IsolatedDebtAfterRepay_Never(flags, repaid) == isolationModeTotalDebt

IsolatedDebtAfterRepay(flags, repaid) ==
  [a \in Assets |->
     IF a \notin IsolatedCollateral(flags) THEN isolationModeTotalDebt[a]
     ELSE IF isolationModeTotalDebt[a] <= CeilingUnits(repaid) THEN 0
     ELSE isolationModeTotalDebt[a] - CeilingUnits(repaid)]

\* The borrowing bits of u once `paid` of its debt in a is burned.
BorrowingAfter_OneMode(u, a, paid) ==
  IF paid \in {stableDebt[a][u], variableDebt[a][u]} THEN borrowing[u] \ {a} ELSE borrowing[u]

BorrowingAfter(u, a, paid) ==
  IF DebtOf(u, a) = paid THEN borrowing[u] \ {a} ELSE borrowing[u]

TotalSupply(a) == SumOver(Holders, aToken[a])
TotalDebt(a) == SumOver(Users, stableDebt[a]) + SumOver(Users, variableDebt[a])

-----------------------------------------------------------------------------
(* Supplying *)

\* SupplyLogic.executeSupply
Supply(u, onBehalfOf, a, amount) ==
  /\ amount # 0
  /\ status[a] = "open"
  /\ Config[a].supplyCap # 0 => TotalSupply(a) + amount <= Config[a].supplyCap
  /\ cash' = [cash EXCEPT ![a] = cash[a] + amount]
  /\ aToken' = Credit(aToken, a, onBehalfOf, amount)
  /\ usingAsCollateral' =
       [usingAsCollateral EXCEPT ![onBehalfOf] =
          FlagsAfterReceipt({u}, usingAsCollateral[onBehalfOf], a, aToken[a][onBehalfOf])]
  /\ UNCHANGED <<marketVars, stableDebt, variableDebt, isolationModeTotalDebt, borrowing,
                 eMode, flash>>

\* SupplyLogic.executeWithdraw, to an account other than the aToken
Withdraw(u, a, amount) ==
  /\ amount # 0
  /\ amount <= aToken[a][u]
  /\ status[a] # "paused"
  /\ amount <= cash[a]
  /\ usingAsCollateral' =
       [usingAsCollateral EXCEPT ![u] =
          IF amount = aToken[a][u] THEN usingAsCollateral[u] \ {a} ELSE usingAsCollateral[u]]
  /\ aToken' = Debit(aToken, a, u, amount)
  /\ cash' = [cash EXCEPT ![a] = cash[a] - amount]
  /\ UNCHANGED <<marketVars, stableDebt, variableDebt, isolationModeTotalDebt, borrowing,
                 eMode, flash>>
  /\ (a \in usingAsCollateral[u] /\ borrowing[u] # {}) => HealthyWithout(u, a, eMode[u])'

\* AToken._transfer and SupplyLogic.executeFinalizeTransfer
Transfer(from, to, a, amount) ==
  /\ amount <= aToken[a][from]
  /\ status[a] # "paused"
  /\ IF from = to \/ amount = 0
     THEN UNCHANGED <<aToken, usingAsCollateral>>
     ELSE /\ aToken' = Credit(Debit(aToken, a, from, amount), a, to, amount)
          /\ usingAsCollateral' =
               [usingAsCollateral EXCEPT
                  ![from] = IF amount = aToken[a][from]
                            THEN usingAsCollateral[from] \ {a} ELSE usingAsCollateral[from],
                  ![to] = FlagsAfterReceipt({}, usingAsCollateral[to], a, aToken[a][to])]
  /\ UNCHANGED <<marketVars, cash, stableDebt, variableDebt, isolationModeTotalDebt, borrowing,
                 eMode, flash>>
  /\ (from # to /\ amount # 0 /\ a \in usingAsCollateral[from] /\ borrowing[from] # {})
       => HealthyWithout(from, a, eMode[from])'

\* SupplyLogic.executeUseReserveAsCollateral, when it changes the flag
UseReserveAsCollateral(u, a, use) ==
  /\ aToken[a][u] # 0
  /\ status[a] # "paused"
  /\ use # (a \in usingAsCollateral[u])
  /\ use => MayUseAsCollateral(usingAsCollateral[u], a)
  /\ usingAsCollateral' =
       [usingAsCollateral EXCEPT ![u] =
          IF use THEN usingAsCollateral[u] \cup {a} ELSE usingAsCollateral[u] \ {a}]
  /\ UNCHANGED <<marketVars, tokenVars, isolationModeTotalDebt, borrowing, eMode, flash>>
  /\ ~ use => HealthyWithout(u, a, eMode[u])'

-----------------------------------------------------------------------------
(* Borrowing *)

\* What ValidationLogic.validateBorrow asks of the reserve ...
ReserveLends(a, amount) ==
  /\ amount # 0
  /\ status[a] = "open"
  /\ Config[a].borrowing
  /\ sequencerUp
  /\ Config[a].borrowCap # 0 => TotalDebt(a) + amount <= Config[a].borrowCap

\* ... of an isolated borrower ...
IsolationLends_Unbounded(u, a, amount) ==
  \A i \in IsolatedCollateral(usingAsCollateral[u]) :
    /\ Config[a].borrowableInIsolation
    /\ isolationModeTotalDebt[i] <= Config[i].debtCeiling

IsolationLends(u, a, amount) ==
  \A i \in IsolatedCollateral(usingAsCollateral[u]) :
    /\ Config[a].borrowableInIsolation
    /\ isolationModeTotalDebt[i] + CeilingUnits(amount) <= Config[i].debtCeiling

\* ... of the collateral, with the category that the call was given ...
CollateralCovers_DebtBefore(u, a, amount, cat) ==
  LET data == AccountData(u, cat) IN
  /\ data.collateral # 0 /\ data.ltv # 0 /\ data.health > WAD
  /\ PercentDiv(data.debt, data.ltv) <= data.collateral

CollateralCovers(u, a, amount, cat) ==
  LET data == AccountData(u, cat)
      unitPrice == IF cat # 0 /\ EModes[cat].priceSource # NoSource
                   THEN price[EModes[cat].priceSource] ELSE price[a]
  IN
  /\ data.collateral # 0 /\ data.ltv # 0 /\ data.health > WAD
  /\ PercentDiv(data.debt + amount * unitPrice, data.ltv) <= data.collateral

\* ... of a debt at the stable rate ...
LendsAtStableRate(u, a, amount) ==
  /\ Config[a].stable
  /\ a \notin usingAsCollateral[u] \/ Config[a].ltv = 0 \/ amount > aToken[a][u]
  /\ amount <= PercentMul(cash[a], MaxStableLoanPercent)

\* ... and of the other debts.
SiloLends_Once(flags, a) ==
  SiloedAsset(flags) # {} => a \in SiloedAsset(flags)

SiloLends(flags, a) ==
  flags # {} =>
    IF SiloedAsset(flags) # {} THEN a \in SiloedAsset(flags) ELSE ~ Config[a].siloed

\* ValidationLogic.validateBorrow
BorrowAllowed(u, a, amount, mode, cat) ==
  /\ ReserveLends(a, amount)
  /\ IsolationLends(u, a, amount)
  /\ cat # 0 => Config[a].eMode = cat
  /\ CollateralCovers(u, a, amount, cat)
  /\ mode = Stable => LendsAtStableRate(u, a, amount)
  /\ SiloLends(borrowing[u], a)

\* BorrowLogic.executeBorrow, but for the release of the underlying
AddDebt(u, a, amount, mode, cat) ==
  /\ BorrowAllowed(u, a, amount, mode, cat)
  /\ IF mode = Stable
     THEN stableDebt' = Credit(stableDebt, a, u, amount) /\ UNCHANGED variableDebt
     ELSE variableDebt' = Credit(variableDebt, a, u, amount) /\ UNCHANGED stableDebt
  /\ borrowing' = [borrowing EXCEPT ![u] = borrowing[u] \cup {a}]
  /\ isolationModeTotalDebt' =
       [i \in Assets |->
          IF i \in IsolatedCollateral(usingAsCollateral[u])
          THEN isolationModeTotalDebt[i] + CeilingUnits(amount)
          ELSE isolationModeTotalDebt[i]]
  /\ UNCHANGED <<marketVars, aToken, usingAsCollateral, eMode>>

\* BorrowLogic.executeBorrow
Borrow(u, a, amount, mode) ==
  /\ AddDebt(u, a, amount, mode, eMode[u])
  /\ amount <= cash[a]
  /\ cash' = [cash EXCEPT ![a] = cash[a] - amount]
  /\ UNCHANGED flash

DebtOfMode(u, a, mode) == IF mode = Stable THEN stableDebt[a][u] ELSE variableDebt[a][u]

\* Takes paid off u's debt of one mode: the burn, the flag and the isolated debt.
PayOff(u, a, paid, mode) ==
  /\ IF mode = Stable
     THEN stableDebt' = Debit(stableDebt, a, u, paid) /\ UNCHANGED variableDebt
     ELSE variableDebt' = Debit(variableDebt, a, u, paid) /\ UNCHANGED stableDebt
  /\ borrowing' = [borrowing EXCEPT ![u] = BorrowingAfter(u, a, paid)]
  /\ isolationModeTotalDebt' = IsolatedDebtAfterRepay(usingAsCollateral[u], paid)

\* BorrowLogic.executeRepay by another account's tokens or the borrower's.  All
\* that is owed is paid when the amount, or type(uint256).max, exceeds it: Next
\* passes what is owed for type(uint256).max.
Repay(onBehalfOf, a, amount, mode) ==
  LET owed == DebtOfMode(onBehalfOf, a, mode)
      paid == IF amount < owed THEN amount ELSE owed
  IN
  /\ amount # 0 /\ owed # 0
  /\ status[a] # "paused"
  /\ PayOff(onBehalfOf, a, paid, mode)
  /\ cash' = [cash EXCEPT ![a] = cash[a] + paid]
  /\ UNCHANGED <<marketVars, aToken, usingAsCollateral, eMode, flash>>

\* BorrowLogic.executeRepay with useATokens
RepayWithATokens(u, a, amount, mode) ==
  LET owed == DebtOfMode(u, a, mode)
      paid == IF amount < owed THEN amount ELSE owed
  IN
  /\ amount # 0 /\ owed # 0
  /\ status[a] # "paused"
  /\ paid <= aToken[a][u]
  /\ PayOff(u, a, paid, mode)
  /\ aToken' = Debit(aToken, a, u, paid)
  /\ UNCHANGED <<marketVars, cash, usingAsCollateral, eMode, flash>>

\* BorrowLogic.executeSwapBorrowRateMode from the given mode to the other
SwapBorrowRateMode(u, a, mode) ==
  /\ status[a] = "open"
  /\ DebtOfMode(u, a, mode) # 0
  /\ mode = Variable =>
       /\ Config[a].stable
       /\ a \notin usingAsCollateral[u] \/ Config[a].ltv = 0 \/ DebtOf(u, a) > aToken[a][u]
  /\ stableDebt' = [stableDebt EXCEPT ![a] =
       [stableDebt[a] EXCEPT ![u] = IF mode = Stable THEN 0 ELSE DebtOf(u, a)]]
  /\ variableDebt' = [variableDebt EXCEPT ![a] =
       [variableDebt[a] EXCEPT ![u] = IF mode = Stable THEN DebtOf(u, a) ELSE 0]]
  /\ UNCHANGED <<marketVars, cash, aToken, flagVars, isolationModeTotalDebt, flash>>

\* EModeLogic.executeSetUserEMode.  The health factor is not checked when the
\* user had no category.
SetUserEMode_AnyDebt(u, cat) ==
  /\ eMode' = [eMode EXCEPT ![u] = cat]
  /\ UNCHANGED <<marketVars, tokenVars, usingAsCollateral, borrowing, isolationModeTotalDebt,
                 flash>>
  /\ eMode[u] # 0 => Healthy(u, cat)'

SetUserEMode_OldCategory(u, cat) ==
  /\ cat # 0 => \A a \in borrowing[u] : Config[a].eMode = cat
  /\ Healthy(u, eMode[u])
  /\ eMode' = [eMode EXCEPT ![u] = cat]
  /\ UNCHANGED <<marketVars, tokenVars, usingAsCollateral, borrowing, isolationModeTotalDebt,
                 flash>>

SetUserEMode(u, cat) ==
  /\ cat # 0 => \A a \in borrowing[u] : Config[a].eMode = cat
  /\ eMode' = [eMode EXCEPT ![u] = cat]
  /\ UNCHANGED <<marketVars, tokenVars, usingAsCollateral, borrowing, isolationModeTotalDebt,
                 flash>>
  /\ eMode[u] # 0 => Healthy(u, cat)'

-----------------------------------------------------------------------------
(* Liquidation *)

\* LiquidationLogic._calculateDebt: at most half the debt while the health
\* factor is above 0.95
DebtToLiquidate(u, d, cover) ==
  LET closeFactor == IF AccountData(u, eMode[u]).health > CloseFactorThreshold
                     THEN DefaultCloseFactor ELSE MaxCloseFactor
      most == PercentMul(DebtOf(u, d), closeFactor)
  IN IF cover > most THEN most ELSE cover

\* LiquidationLogic._getConfigurationData
LiquidationBonus(u, c) ==
  IF InEMode(eMode[u], c) THEN EModes[eMode[u]].bonus ELSE Config[c].bonus

\* The debt is priced by the category's source whatever its own category.
LiquidationDebtPrice(u, d) ==
  IF eMode[u] # 0 /\ EModes[eMode[u]].priceSource # NoSource
  THEN price[EModes[eMode[u]].priceSource] ELSE price[d]

\* LiquidationLogic._calculateAvailableCollateralToLiquidate: the collateral
\* that is seized, fee included, and the debt that it pays for
Seizure_BonusOnTop(u, c, d, debt) ==
  LET bonus == PERCENTAGE_FACTOR + LiquidationBonus(u, c)
      collateralPrice == PriceFor(c, eMode[u])
      debtPrice == LiquidationDebtPrice(u, d)
      most == PercentMul((debtPrice * debt) \div collateralPrice, bonus)
  IN
  IF most > aToken[c][u]
  THEN [collateral |-> aToken[c][u],
        debt |-> PercentDiv((collateralPrice * aToken[c][u]) \div debtPrice, bonus)]
  ELSE [collateral |-> most, debt |-> debt]

Seizure(u, c, d, debt) ==
  LET bonus == LiquidationBonus(u, c)
      collateralPrice == PriceFor(c, eMode[u])
      debtPrice == LiquidationDebtPrice(u, d)
      most == PercentMul((debtPrice * debt) \div collateralPrice, bonus)
  IN
  IF most > aToken[c][u]
  THEN [collateral |-> aToken[c][u],
        debt |-> PercentDiv((collateralPrice * aToken[c][u]) \div debtPrice, bonus)]
  ELSE [collateral |-> most, debt |-> debt]

\* The part of the bonus that goes to the treasury.
ProtocolFee(u, c, collateral) ==
  PercentMul(collateral - PercentDiv(collateral, LiquidationBonus(u, c)), Config[c].protocolFee)

\* ValidationLogic.validateLiquidationCall
LiquidationAllowed(u, c, d) ==
  /\ status[c] # "paused" /\ status[d] # "paused"
  /\ c \in CollateralOf(u)
  /\ DebtOf(u, d) # 0
  /\ LET health == AccountData(u, eMode[u]).health IN
       /\ health < WAD
       /\ sequencerUp \/ health < CloseFactorThreshold

\* LiquidationLogic._burnDebtTokens: the variable debt first
BurnDebt_KeepsStable(u, d, paid) ==
  /\ paid <= DebtOf(u, d)
  /\ variableDebt' = Debit(variableDebt, d, u,
                            IF variableDebt[d][u] >= paid THEN paid ELSE variableDebt[d][u])
  /\ UNCHANGED stableDebt

BurnDebt(u, d, paid) ==
  LET fromVariable == IF variableDebt[d][u] >= paid THEN paid ELSE variableDebt[d][u] IN
  /\ paid <= DebtOf(u, d)
  /\ variableDebt' = Debit(variableDebt, d, u, fromVariable)
  /\ stableDebt' = Debit(stableDebt, d, u, paid - fromVariable)

\* LiquidationLogic.executeLiquidationCall.  The flags change before the
\* isolated debt is updated, and the collateral leaves before the debt is paid.
LiquidationCall(l, u, c, d, cover, receiveAToken) ==
  LET seized == Seizure(u, c, d, DebtToLiquidate(u, d, cover))
      fee == ProtocolFee(u, c, seized.collateral)
      paid == seized.debt
      received == seized.collateral - fee
      flags == IF seized.collateral = aToken[c][u]
               THEN usingAsCollateral[u] \ {c} ELSE usingAsCollateral[u]
      flagged == [usingAsCollateral EXCEPT ![u] = flags]
  IN
  /\ LiquidationAllowed(u, c, d)
  /\ paid # 0
  /\ BurnDebt(u, d, paid)
  /\ borrowing' = [borrowing EXCEPT ![u] = BorrowingAfter(u, d, paid)]
  /\ isolationModeTotalDebt' = IsolatedDebtAfterRepay(flags, paid)
  /\ \/ /\ receiveAToken
        /\ aToken' = Credit(Credit(Debit(aToken, c, u, seized.collateral), c, l, received),
                            c, Treasury, fee)
        /\ usingAsCollateral' =
             [flagged EXCEPT ![l] = FlagsAfterReceipt({l}, flagged[l], c, aToken[c][l])]
        /\ cash' = [cash EXCEPT ![d] = cash[d] + paid]
     \/ /\ ~ receiveAToken
        /\ received # 0
        /\ received <= cash[c]
        /\ aToken' = Credit(Debit(aToken, c, u, seized.collateral), c, Treasury, fee)
        /\ usingAsCollateral' = flagged
        /\ cash' = [a \in Assets |->
             cash[a] - (IF a = c THEN received ELSE 0) + (IF a = d THEN paid ELSE 0)]
  /\ UNCHANGED <<marketVars, eMode, flash>>

-----------------------------------------------------------------------------
(* Flash loans *)

\* The first half of FlashLoanLogic.executeFlashLoan.  The category of the
\* borrower is read here.  Mode "none" pays back, another mode becomes debt.
FlashLoan(u, a, amount, mode) ==
  /\ flash = {}
  /\ status[a] # "paused"
  /\ Config[a].flashLoan
  /\ amount <= cash[a]
  /\ cash' = [cash EXCEPT ![a] = cash[a] - amount]
  /\ flash' = {[user |-> u, asset |-> a, amount |-> amount, mode |-> mode, eMode |-> eMode[u]]}
  /\ UNCHANGED <<marketVars, aToken, stableDebt, variableDebt, flagVars, isolationModeTotalDebt>>

\* The second half, when the receiver has returned.
FlashLoanEnd_ReleasesAgain ==
  \E f \in flash :
    /\ flash' = {}
    /\ \/ /\ f.mode = "none"
          /\ cash' = [cash EXCEPT ![f.asset] = cash[f.asset] + f.amount]
          /\ UNCHANGED <<marketVars, aToken, stableDebt, variableDebt, flagVars,
                         isolationModeTotalDebt>>
       \/ /\ f.mode \in Modes
          /\ AddDebt(f.user, f.asset, f.amount, f.mode, f.eMode)
          /\ f.amount <= cash[f.asset]
          /\ cash' = [cash EXCEPT ![f.asset] = cash[f.asset] - f.amount]

FlashLoanEnd ==
  \E f \in flash :
    /\ flash' = {}
    /\ \/ /\ f.mode = "none"
          /\ cash' = [cash EXCEPT ![f.asset] = cash[f.asset] + f.amount]
          /\ UNCHANGED <<marketVars, aToken, stableDebt, variableDebt, flagVars,
                         isolationModeTotalDebt>>
       \/ /\ f.mode \in Modes
          /\ AddDebt(f.user, f.asset, f.amount, f.mode, f.eMode)
          /\ UNCHANGED cash

-----------------------------------------------------------------------------
(* The environment: oracle, sentinel and pool admin, never inside a flash loan *)

SetPrice(s, p) ==
  /\ flash = {}
  /\ price' = [price EXCEPT ![s] = p]
  /\ UNCHANGED <<status, sequencerUp, tokenVars, flagVars, isolationModeTotalDebt, flash>>

\* PoolConfigurator.setReserveFreeze and setReservePause
SetStatus(a, st) ==
  /\ flash = {}
  /\ status' = [status EXCEPT ![a] = st]
  /\ UNCHANGED <<price, sequencerUp, tokenVars, flagVars, isolationModeTotalDebt, flash>>

\* PriceOracleSentinel.isBorrowAllowed and isLiquidationAllowed
SetSequencer(up) ==
  /\ flash = {}
  /\ sequencerUp' = up
  /\ UNCHANGED <<price, status, tokenVars, flagVars, isolationModeTotalDebt, flash>>

-----------------------------------------------------------------------------

Init ==
  /\ price = InitialPrice
  /\ status = [a \in Assets |-> "open"]
  /\ sequencerUp = TRUE
  /\ cash = [a \in Assets |-> 0]
  /\ aToken = [a \in Assets |-> [h \in Holders |-> 0]]
  /\ stableDebt = [a \in Assets |-> [u \in Users |-> 0]]
  /\ variableDebt = [a \in Assets |-> [u \in Users |-> 0]]
  /\ isolationModeTotalDebt = [a \in Assets |-> 0]
  /\ usingAsCollateral = [u \in Users |-> {}]
  /\ borrowing = [u \in Users |-> {}]
  /\ eMode = [u \in Users |-> 0]
  /\ flash = {}

Next ==
  \/ \E u, v \in Users, a \in Assets, x \in Amounts : Supply(u, v, a, x)
  \/ \E u \in Users, a \in Assets : \E x \in Amounts \cup {aToken[a][u]} : Withdraw(u, a, x)
  \/ \E u, v \in Users, a \in Assets :
       \E x \in Amounts \cup {aToken[a][u]} : Transfer(u, v, a, x)
  \/ \E u \in Users, a \in Assets, use \in BOOLEAN : UseReserveAsCollateral(u, a, use)
  \/ \E u \in Users, a \in Assets, x \in Amounts, m \in Modes : Borrow(u, a, x, m)
  \/ \E u \in Users, a \in Assets, m \in Modes :
       \E x \in Amounts \cup {DebtOfMode(u, a, m)} : Repay(u, a, x, m)
  \/ \E u \in Users, a \in Assets, m \in Modes :
       \E x \in Amounts \cup {aToken[a][u]} : RepayWithATokens(u, a, x, m)
  \/ \E u \in Users, a \in Assets, m \in Modes : SwapBorrowRateMode(u, a, m)
  \/ \E u \in Users, cat \in Categories : SetUserEMode(u, cat)
  \/ \E l, u \in Users, c, d \in Assets, x \in CoverAmounts, r \in BOOLEAN :
       LiquidationCall(l, u, c, d, x, r)
  \/ \E u \in Users, a \in Assets, x \in FlashAmounts, m \in Modes \cup {"none"} :
       FlashLoan(u, a, x, m)
  \/ FlashLoanEnd
  \/ \E m \in PriceMoves : SetPrice(m[1], m[2])
  \/ \E m \in StatusMoves : SetStatus(m[1], m[2])
  \/ \E up \in SequencerMoves : SetSequencer(up)

Spec == Init /\ [][Next]_vars

-----------------------------------------------------------------------------
(* Properties *)

TypeOK ==
  /\ price \in [Sources -> Nat \ {0}]
  /\ status \in [Assets -> Statuses]
  /\ sequencerUp \in BOOLEAN
  /\ cash \in [Assets -> Nat]
  /\ aToken \in [Assets -> [Holders -> Nat]]
  /\ stableDebt \in [Assets -> [Users -> Nat]]
  /\ variableDebt \in [Assets -> [Users -> Nat]]
  /\ isolationModeTotalDebt \in [Assets -> Nat]
  /\ usingAsCollateral \in [Users -> SUBSET Assets]
  /\ borrowing \in [Users -> SUBSET Assets]
  /\ eMode \in [Users -> Categories]
  /\ \A f \in flash :
       /\ flash = {f}
       /\ f \in [user : Users, asset : Assets, amount : Nat,
                 mode : {Stable, Variable, "none"}, eMode : Categories]

\* What flash loans have taken out of the reserve.
Lent(a) == IF \E f \in flash : f.asset = a THEN (CHOOSE f \in flash : TRUE).amount ELSE 0

\* Every aToken is backed: by a token in the reserve, a debt, or a flash loan
\* that has not ended.  No call, liquidations with their fees included, creates
\* or destroys a claim on the reserve.
Backed == \A a \in Assets : TotalSupply(a) = cash[a] + TotalDebt(a) + Lent(a)

\* The borrowing bits tell exactly where the user has debt, of either mode.  The
\* account data and the validations read the bits, not the balances.
BorrowingMatchesDebt == \A u \in Users : borrowing[u] = {a \in Assets : DebtOf(u, a) # 0}

\* Whoever borrows a siloed asset borrows nothing else.
SiloedAlone ==
  \A u \in Users : \A a \in borrowing[u] : Config[a].siloed => borrowing[u] = {a}

\* Isolated collateral is a user's only collateral, however it came to be used:
\* by choice, supply, transfer or liquidation.
IsolatedAlone ==
  \A u \in Users : \A a \in usingAsCollateral[u] :
    Config[a].debtCeiling # 0 => usingAsCollateral[u] = {a}

\* The debt that is counted against an isolated collateral stays in its ceiling.
CeilingHeld == \A a \in Assets : isolationModeTotalDebt[a] <= Config[a].debtCeiling

\* A user in an eMode category borrows only assets of that category.
EModeDebts ==
  \A u \in Users : eMode[u] # 0 => \A a \in borrowing[u] : Config[a].eMode = eMode[u]

PoolInv ==
  /\ TypeOK /\ Backed /\ BorrowingMatchesDebt /\ SiloedAlone /\ IsolatedAlone /\ CeilingHeld

\* All that u owes, in ceiling units.
UnitsOwed(u) == SumOver(Assets, [d \in Assets |-> CeilingUnits(DebtOf(u, d))])

\* The debt counted against an isolated collateral is the debt of the users
\* that it isolates, counted in ceiling units.
IsolatedDebtCounted ==
  \A a \in Assets : Config[a].debtCeiling # 0 =>
    isolationModeTotalDebt[a] =
      SumOver({u \in Users : a \in usingAsCollateral[u]}, [u \in Users |-> UnitsOwed(u)])

\* What IsolationModeLogic.updateIsolatedDebtIfIsolated says of itself: the debt
\* counted against an isolated collateral falls with the debt of a position
\* that it secures, whether that is repaid or liquidated.
IsolatedDebtFollows ==
  [][\A u \in Users : \A i \in IsolatedCollateral(usingAsCollateral[u]) : \A d \in Assets :
       LET repaid == CeilingUnits(DebtOf(u, d) - DebtOf(u, d)') IN
       (repaid > 0 /\ isolationModeTotalDebt[i] > 0)
         => isolationModeTotalDebt'[i] < isolationModeTotalDebt[i]]_vars

\* No call of anyone makes a healthy account unhealthy; only prices do, and the
\* account itself when it enters its first category.
HealthPreserved ==
  [][price' = price
       => \A u \in Users :
            Healthy(u, eMode[u]) /\ (eMode[u] # 0 \/ eMode'[u] = 0)
              => Healthy(u, eMode[u])']_vars

\* The value of u's collateral, weighted by the thresholds and not rounded.
WeightedCollateral(u) ==
  FoldFunction(+, 0, [a \in CollateralOf(u) |->
                        aToken[a][u] * PriceFor(a, eMode[u]) * ThresholdFor(a, eMode[u])])

\* A liquidation makes an account safer.  As long as the collateral c covers
\* the debt with the bonus on top, the quotient of weighted collateral and debt
\* does not fall, except by rounding: by less than a unit of the collateral, and
\* two units of the debt when all of the collateral is seized.  Excepted is an
\* account that liquidates itself and gets all of its aTokens back: they no
\* longer count as collateral.
LiquidationHelps ==
  [][\A u \in Users :
       LET debt == AccountData(u, eMode[u]).debt
           debtLeft == AccountData(u, eMode[u]).debt'
           weighted == WeightedCollateral(u)
           threshold(c) == ThresholdFor(c, eMode[u])
       IN
       (price' = price /\ eMode'[u] = eMode[u] /\ ~ Healthy(u, eMode[u]))
         => \A c \in CollateralOf(u), d \in borrowing[u] :
              /\ aToken'[c][u] < aToken[c][u]
              /\ aToken'[c][u] = 0 \/ c \in usingAsCollateral'[u]
              /\ DebtOf(u, d)' < DebtOf(u, d)
              /\ weighted >= PercentMul(LiquidationBonus(u, c), threshold(c)) * debt
              => LET lost == IF aToken'[c][u] = 0 THEN 2 * PriceFor(d, eMode[u]) ELSE 0 IN
                 weighted * (debtLeft - lost)
                   <= (WeightedCollateral(u)' + PriceFor(c, eMode[u]) * threshold(c)) * debt]_vars
=============================================================================
