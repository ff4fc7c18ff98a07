SPECIFICATION Spec
CONSTANTS
  eth = eth
  usd = usd
  gov = gov
  peg = peg
  none = none
  Assets = {eth, usd, gov}
  Users = {alice, bob}
  Treasury = treasury
  Config <- IsolationMarket
  EModes <- NoEModes
  Sources = {eth, usd, gov}
  NoSource = none
  IsolatedSuppliers = {alice, bob}
  InitialPrice <- IsolationPrices
  PriceMoves = {}
  StatusMoves = {}
  SequencerMoves = {}
  Amounts = {10}
  CoverAmounts = {}
  FlashAmounts = {10}
  Modes = {"stable", "variable"}
  CEILING_UNIT = 10
  WAD = 1000
SYMMETRY UserSymmetry
INVARIANTS
  PoolInv
  IsolatedAlone
  CeilingHeld
  IsolatedDebtCounted
  Backed
  SiloedAlone
PROPERTIES
  HealthPreserved
