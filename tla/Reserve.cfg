SPECIFICATION MCSpec
CONSTANTS
  Users = {alice, bob}
  Treasury = treasury
  RAY = 1000
  WAD_RAY_RATIO = 10
  SECONDS_PER_YEAR = 2
  RESERVE_FACTOR = 2000
  Strategy <- Steep
  Amounts = {1000}
  FlashAmounts = {1000}
  UnbackedAmounts = {500}
  FeeAmounts = {30}
  Liquidations = {"debt", "collateral", "both"}
  SUPPLY_CAP = 2600
  BORROW_CAP = 0
  UNBACKED_MINT_CAP = 1000
  MAX_STABLE_LOAN = 10000
  FLASH_PREMIUM = 100
  FLASH_PREMIUM_TO_PROTOCOL = 4000
  BRIDGE_FEE_TO_PROTOCOL = 4000
  LIQUIDATION_BONUS = 10500
  MaxTime = 3
  MaxSteps = 7
SYMMETRY UserSymmetry
CHECK_DEADLOCK FALSE
INVARIANTS
  ReserveInv
PROPERTIES
  OthersUntouched
  NothingLost
