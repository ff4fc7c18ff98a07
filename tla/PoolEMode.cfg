SPECIFICATION Spec
CONSTANTS
  eth = eth
  usd = usd
  gov = gov
  peg = peg
  none = none
  Assets = {eth, usd}
  Users = {alice, bob}
  Treasury = treasury
  Config <- PeggedMarket
  EModes <- TwoEModes
  Sources = {eth, usd, peg}
  NoSource = none
  IsolatedSuppliers = {}
  InitialPrice <- PeggedPrices
  PriceMoves <- EthAndPegMove
  StatusMoves <- Freezes
  SequencerMoves = {TRUE, FALSE}
  Amounts = {10}
  CoverAmounts = {3, 100}
  FlashAmounts = {}
  Modes = {"stable", "variable"}
  CEILING_UNIT = 10
  WAD = 1000
SYMMETRY UserSymmetry
INVARIANTS
  PoolInv
  EModeDebts
PROPERTIES
  HealthPreserved
  LiquidationHelps
