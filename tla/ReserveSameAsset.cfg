SPECIFICATION MCSpec
CONSTANTS
  Users = {alice, bob}
  Treasury = treasury
  RAY = 1000
  WAD_RAY_RATIO = 10
  SECONDS_PER_YEAR = 2
  RESERVE_FACTOR = 2000
  Strategy <- Steep
  Amounts = {1000}
  FlashAmounts = {}
  UnbackedAmounts = {}
  FeeAmounts = {0}
  Liquidations = {"both"}
  SUPPLY_CAP = 2600
  BORROW_CAP = 0
  UNBACKED_MINT_CAP = 0
  MAX_STABLE_LOAN = 0
  FLASH_PREMIUM = 0
  FLASH_PREMIUM_TO_PROTOCOL = 0
  BRIDGE_FEE_TO_PROTOCOL = 0
  LIQUIDATION_BONUS = 10500
  MaxTime = 2
  MaxSteps = 5
SYMMETRY UserSymmetry
CHECK_DEADLOCK FALSE
PROPERTIES
  RatesFitLiquidity
