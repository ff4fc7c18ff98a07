SPECIFICATION Spec
CONSTANTS
  eth = eth
  usd = usd
  gov = gov
  peg = peg
  none = none
  Assets = {eth, usd, gov}
  Users = {alice, bob}
  Treasury = treasury
  Config <- WideIsolationMarket
  EModes <- NoEModes
  Sources = {eth, usd, gov}
  NoSource = none
  IsolatedSuppliers = {alice}
  InitialPrice <- IsolationPrices
  PriceMoves <- GovFalls
  StatusMoves = {}
  SequencerMoves = {}
  Amounts = {10}
  CoverAmounts = {100}
  FlashAmounts = {}
  Modes = {"variable"}
  CEILING_UNIT = 10
  WAD = 1000
CHECK_DEADLOCK FALSE
PROPERTIES
  IsolatedDebtFollows
