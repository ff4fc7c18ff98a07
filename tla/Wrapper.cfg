SPECIFICATION WrapperSpec
CONSTANTS
  weth = weth
  usd = usd
  eth = eth
  none = none
  Assets = {weth, usd}
  Users = {alice, bob, wrapper}
  Treasury = treasury
  Wrapper = wrapper
  WETH = weth
  ETH = eth
  Purse <- Purses
  Strays = {usd}
  Moved = {0, 10, 20, 30, 40}
  Config <- Market
  EModes <- NoEModes
  Sources = {weth, usd}
  NoSource = none
  IsolatedSuppliers = {}
  InitialPrice <- Prices
  PriceMoves = {}
  StatusMoves = {}
  SequencerMoves = {}
  Amounts = {10, 20}
  CoverAmounts = {}
  FlashAmounts = {10}
  Modes = {"variable"}
  CEILING_UNIT = 10
  WAD = 1000
SYMMETRY SenderSymmetry
INVARIANTS
  WrapperInv
PROPERTIES
  OnlySenderBorrows
  HealthPreserved
  WrapperKeepsPromise
