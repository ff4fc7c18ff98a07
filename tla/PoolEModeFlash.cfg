SPECIFICATION Spec
CONSTANTS
  eth = eth
  usd = usd
  gov = gov
  peg = peg
  none = none
  Assets = {eth, usd, gov}
  Users = {alice, bob}
  Treasury = treasury
  Config <- EModeMarket
  EModes <- TwoEModes
  Sources = {eth, usd, gov, peg}
  NoSource = none
  IsolatedSuppliers = {}
  InitialPrice <- EModePrices
  PriceMoves = {}
  StatusMoves = {}
  SequencerMoves = {}
  Amounts = {10}
  CoverAmounts = {}
  FlashAmounts = {10}
  Modes = {"variable"}
  CEILING_UNIT = 10
  WAD = 1000
SYMMETRY UserSymmetry
CHECK_DEADLOCK FALSE
INVARIANTS
  EModeDebts
