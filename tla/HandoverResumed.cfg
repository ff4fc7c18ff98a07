SPECIFICATION Spec
CONSTANTS
  Markets <- HandedOverMarkets
  Symbols <- AllSymbols
  Deployer = deployer
  Multisig = multisig
  Guardian = guardian
  SetupHelper = setupHelper
  Nobody = nobody
  MaxCrashes = 1
  DeployCommands = {"all", "market", "acl", "oracle", "oracles", "init-pool", "IncentivesProxy",
    "tokens", "init-reserves", "init-periphery", "periphery-post", "after-deploy"}
  TaskCommands = {"add-new-asset", "update-oracle", "set-fallback-oracle",
    "review-rate-strategies", "review-supply-caps", "review-e-mode",
    "upgrade-atokens-and-review", "upgrade-atokens-and-review --revision other",
    "transfer-protocol-ownership", "renounce-pool-admin", "view-protocol-roles",
    "transfer-ownership", "market-registry:add",
    "deploy-yield-distributor", "deploy-pac-pool-wrapper"}
CHECK_DEADLOCK FALSE
INVARIANTS
  AlreadyTransferred
