SPECIFICATION WrapperSpec
CONSTANTS
  weth = weth
  usd = usd
  eth = eth
  none = none
  Assets = {weth}
  Users = {alice, bob, wrapper}
  Treasury = treasury
  Wrapper = wrapper
  WETH = weth
  ETH = eth
  Purse <- EtherPurses
  Strays = {weth}
  Moved = {0, 10, 20, 30, 40}
  Config <- WethMarket
  EModes <- NoEModes
  Sources = {weth}
  NoSource = none
  IsolatedSuppliers = {}
  InitialPrice <- WethPrice
  PriceMoves = {}
  StatusMoves = {}
  SequencerMoves = {}
  Amounts = {10, 20}
  CoverAmounts = {}
  FlashAmounts = {10}
  Modes = {"variable"}
  CEILING_UNIT = 10
  WAD = 1000
SYMMETRY SenderSymmetry
CHECK_DEADLOCK FALSE
PROPERTIES
  RepaysSpecifiedAmount
