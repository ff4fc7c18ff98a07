--------------------------- MODULE DeployScripts ---------------------------
(***************************************************************************)
(* The deploy scripts (deploy/**/*.ts): for each one its steps, and the    *)
(* tags and the dependencies hardhat-deploy schedules it by. A script that *)
(* returns true is recorded under its id and not run again.                *)
(***************************************************************************)
EXTENDS OwnershipHandover

Script(tags, dependencies) == [tags |-> tags, dependencies |-> dependencies]

---------------------------------------------------------------------------
(* 00_core and 01_periphery_pre *)

\* 00-before-deploy.ts only prints balances.
BeforeDeploySteps == <<>>
BeforeDeploy == Script({"before-deploy"}, <<>>)

RegistrySteps ==
  <<Deploy({GetPoolAddressesProviderRegistry}, TRUE),
    TransferOwnership(GetPoolAddressesProviderRegistry)>>
Registry == Script({"core", "registry"}, <<>>)

LibrariesSteps ==
  <<Deploy({<<"SupplyLogic">>, <<"BorrowLogic">>, <<"LiquidationLogic">>, <<"EModeLogic">>,
            <<"BridgeLogic">>, <<"ConfiguratorLogic">>}, TRUE),
    Deploy({<<"FlashLoanLogic">>, <<"PoolLogic">>}, Recorded({<<"BorrowLogic">>}))>>
Libraries == Script({"core", "logic"}, <<>>)

\* A treasury named in the market file is only recorded. A new one is a proxy,
\* a controller and an implementation that is initialized "to prevent other
\* calls" before the proxy is: two calls that succeed once.
TreasurySteps ==
  LET treasury == {<<"TreasuryProxy">>, <<"Treasury-Controller">>, <<"Treasury-Implementation">>}
  IN IF market.treasury
       THEN <<Save(treasury, TRUE)>>
       ELSE <<Deploy(treasury, TRUE), Initialize(<<"Treasury-Implementation">>),
              Initialize(<<"TreasuryProxy">>)>>
Treasury == Script({"periphery-pre", "TreasuryProxy"}, <<>>)

---------------------------------------------------------------------------
(* 02_market *)

\* setupStkAave: three implementations, and the proxy taken from one revision
\* to the next by tests of the revision it is at.
StakedAaveSteps ==
  LET rev(r)  == <<"StakeAave-REV", r>>
      at(r)   == slots[<<"STAKE_AAVE">>] = IF r = 0 THEN Nothing ELSE rev(r)
      take(r) == SetWhen(at(r - 1), <<"STAKE_AAVE">>, rev(r), Recorded({rev(r)}))
  IN <<Deploy({<<"StakeAave-Proxy">>, rev(1), rev(2), rev(3)},
              Recorded({<<"TestnetMintableERC20", "AAVE">>})),
       take(1), take(2), take(3)>>

\* Off a live network: the faucet, a token for every reserve and, with rewards,
\* the reward tokens and the staked token, and the wrapped native token looked up.
TokenSetupSteps ==
  LET token(s)  == <<Deploy({<<"TestnetMintableERC20", s>>}, Recorded({<<"Faucet">>}))>>
      reward(s) == <<Deploy({<<"TestnetMintableERC20-Reward", s>>}, Recorded({<<"Faucet">>}))>>
  IN If(IsTestnetMarket,
        <<Deploy({<<"Faucet">>}, TRUE)>> \o ForEach(market.symbols, Reserves, token)
        \o If(IsIncentivesEnabled /\ Reserves # {},
              ForEach(market.rewardSymbols, Symbols, reward) \o StakedAaveSteps
              \o <<Check(Recorded({<<"TestnetMintableERC20", market.wrappedNative>>}))>>))
TokenSetup ==
  Script({"market", "init-testnet", "token-setup"}, <<"before-deploy", "periphery-pre">>)

\* The market's addresses are checked, then the provider is made, named and
\* entered in the registry, which refuses a second entry.
AddressesProviderSteps ==
  <<Deploy({GetPoolAddressesProvider}, ReserveAddresses = Reserves),
    Set(<<"MARKET_ID">>, GetPoolAddressesProvider, TRUE)>>
  \o AddMarketToRegistry
  \o <<Deploy({GetAaveProtocolDataProvider}, TRUE),
       SetWhen(slots[<<"DATA_PROVIDER">>] # GetAaveProtocolDataProvider,
               <<"DATA_PROVIDER">>, GetAaveProtocolDataProvider, TRUE)>>
AddressesProvider ==
  Script({"market", "provider"},
         <<"before-deploy", "core", "periphery-pre", "token-setup">>)

\* A mock aggregator for every token deployed so far, and for the rewards.
AggregatorsSteps ==
  LET aggregator(s) == <<Deploy({<<"TestnetPriceAggregator", s>>}, s \in market.mockPrices)>>
  IN If(IsTestnetMarket,
        ForEach(market.symbols, Reserves \cap ReserveAddresses, aggregator)
        \o If(IsIncentivesEnabled, ForEach(market.rewardSymbols, Symbols, aggregator)))
\* Its dependency "tokens-setup" is no script's tag, and adds nothing.
Aggregators ==
  Script({"market", "init-testnet", "price-aggregators-setup"},
         <<"before-deploy", "tokens-setup", "periphery-pre">>)

\* Only one of the two pool implementations is made; neither script returns
\* true, so neither is ever recorded as run.
PoolImplSteps ==
  If(~IsL2PoolSupported,
     <<Deploy({PoolImpl}, Recorded(GetPoolLibraries \cup {GetPoolAddressesProvider})),
       Initialize(PoolImpl)>>)
PoolImplementation == Script({"market"}, <<>>)

L2PoolImplSteps ==
  If(IsL2PoolSupported,
     <<Deploy({<<"CalldataLogic">>, PoolImpl},
              Recorded(GetPoolLibraries \cup {GetPoolAddressesProvider})),
       Initialize(PoolImpl)>>)
L2PoolImplementation == Script({"market"}, <<>>)

ConfiguratorSteps ==
  <<Deploy({<<"PoolConfigurator-Implementation">>},
           Recorded({GetPoolAddressesProvider, <<"ConfiguratorLogic">>})),
    Initialize(<<"PoolConfigurator-Implementation">>),
    Deploy({<<"ReservesSetupHelper">>}, TRUE)>>
PoolConfigurator == Script({"market"}, <<>>)

\* The ACL admin is set before the manager whose constructor reads it; the
\* roles are checked once granted.
InitAclSteps ==
  <<Set(<<"ACL_ADMIN">>, Deployer, Recorded({GetPoolAddressesProvider})),
    Deploy({<<"ACLManager">>}, slots[<<"ACL_ADMIN">>] # Nothing),
    Set(<<"ACL_MANAGER">>, <<"ACLManager">>, TRUE),
    AddRole("POOL_ADMIN"),
    AddRole("EMERGENCY_ADMIN"),
    Check(\A r \in {"DEFAULT_ADMIN", "POOL_ADMIN", "EMERGENCY_ADMIN"} : Deployer \in acl[r])>>
InitAcl ==
  Script({"market", "acl"}, <<"before-deploy", "core", "periphery-pre", "provider">>)

DeployOraclesSteps ==
  <<Deploy({GetAaveOracle}, Recorded({GetPoolAddressesProvider}) /\ PairsTokenAggregator)>>
DeployOracles == Script({"market", "oracle"}, <<"before-deploy">>)

InitOraclesSteps ==
  <<SetWhen(slots[<<"PRICE_ORACLE">>] # GetAaveOracle, <<"PRICE_ORACLE">>, GetAaveOracle,
            Recorded({GetPoolAddressesProvider, GetAaveOracle}))>>
InitOracles ==
  Script({"market", "oracles"}, <<"before-deploy", "core", "periphery-pre", "provider">>)

\* Mutant: the records are written by the run that makes the proxies only.
InitPoolSteps_SaveOnce ==
  LET configurator == <<"PoolConfigurator-Implementation">>
  IN <<Remember(slots[<<"POOL">>] = Nothing),
       SetWhen(proc.any, <<"POOL">>, PoolImpl, TRUE), SaveWhen(proc.any, {GetPool}),
       Remember(slots[<<"POOL_CONFIGURATOR">>] = Nothing),
       SetWhen(proc.any, <<"POOL_CONFIGURATOR">>, configurator, TRUE),
       SaveWhen(proc.any, {GetPoolConfiguratorProxy})>>

\* The proxies are made once, their records written every time.
InitPoolSteps ==
  LET configurator == <<"PoolConfigurator-Implementation">>
  IN <<SetWhen(slots[<<"POOL">>] = Nothing, <<"POOL">>, PoolImpl,
               Recorded({PoolImpl, configurator, GetPoolAddressesProvider})),
       Save({GetPool}, TRUE),
       SetWhen(slots[<<"POOL_CONFIGURATOR">>] = Nothing, <<"POOL_CONFIGURATOR">>,
               configurator, TRUE),
       Save({GetPoolConfiguratorProxy}, TRUE)>>
     \o If(IsL2PoolSupported, <<Deploy({<<"L2Encoder">>}, TRUE)>>)
     \o <<Set(<<"FLASHLOAN_PREMIUM_TOTAL">>, GetPoolConfiguratorProxy, TRUE),
          Set(<<"FLASHLOAN_PREMIUM_TO_PROTOCOL">>, GetPoolConfiguratorProxy, TRUE)>>
InitPool ==
  Script({"market", "init-pool"}, <<"before-deploy", "core", "periphery-pre", "provider">>)

\* The rewards proxy is made once, and its record written only by the run that
\* makes it.
IncentivesSteps ==
  LET implementation == <<"IncentivesV2-Implementation">>
  IN <<Deploy({GetEmissionManager, implementation}, Recorded({GetPoolAddressesProvider})),
       Initialize(implementation),
       Remember(slots[<<"INCENTIVES_CONTROLLER">>] = Nothing),
       SetWhen(proc.any, <<"INCENTIVES_CONTROLLER">>, implementation, TRUE),
       SaveWhen(proc.any, {GetIncentivesV2}),
       Set(<<"REWARDS_CONTROLLER">>, GetIncentivesV2, Recorded({GetIncentivesV2}))>>
     \o If(~market.live,
           <<Deploy({<<"PullRewardsTransferStrategy">>}, TRUE)>>
           \o If(Recorded({<<"StakeAave-Proxy">>}),
                 <<Deploy({<<"StakedTokenTransferStrategy">>}, TRUE)>>))
     \o <<TransferOwnership(GetEmissionManager)>>
Incentives == Script({"market", "IncentivesProxy"}, <<>>)

\* Each token implementation is made and initialized with placeholders.
TokensSteps ==
  LET implementation(id) ==
        <<Deploy({id}, Recorded({GetPoolAddressesProvider})), Initialize(id)>>
  IN implementation(<<"AToken">>) \o implementation(<<"DelegationAwareAToken">>)
     \o implementation(<<"StableDebtToken">>) \o implementation(<<"VariableDebtToken">>)
Tokens == Script({"market", "tokens"}, <<>>)

\* A rate strategy for every one the market names, then the three helpers.
InitReservesSteps ==
  LET strategies == {<<"ReserveStrategy", n>> : n \in ToSet(market.strategies)}
  IN <<Deploy(strategies, Recorded({GetPoolAddressesProvider})),
       Check(HasTreasuryAddress /\ Recorded({GetIncentivesV2}))>>
     \o If(ReserveAddresses # {},
           InitReservesByHelper \o ConfigureReservesByHelper \o SavePoolTokens)
InitReserves ==
  Script({"market", "init-reserves"},
         <<"before-deploy", "core", "periphery-pre", "provider", "init-pool", "oracles">>)

InitPeripherySteps ==
  If(~market.live \/ market.testnetMarket,
     <<Deploy({<<"MockFlashLoanReceiver">>}, Recorded({GetPoolAddressesProvider}))>>)
InitPeriphery ==
  Script({"market", "init-periphery"},
         <<"before-deploy", "core", "periphery-pre", "provider", "init-pool", "oracles">>)

---------------------------------------------------------------------------
(* 03_periphery_post and 01-after-deploy *)

\* The wrapped native token: a test token, or a constant of the network.
WrappedNative ==
  IF IsTestnetMarket THEN Recorded({<<"TestnetMintableERC20", market.wrappedNative>>})
                     ELSE market.hasWrapped

GatewaySteps == <<Deploy({GetWrappedTokenGateway}, WrappedNative /\ Recorded({GetPool}))>>
Gateway == Script({"periphery-post", "WrappedTokenGateway"}, <<>>)

WalletBalanceSteps == <<Deploy({<<"WalletBalanceProvider">>}, TRUE)>>
WalletBalance == Script({"periphery-post", "walletProvider"}, <<>>)

UiHelpersSteps ==
  If(market.ui, <<Deploy({<<"UiIncentiveDataProviderV3">>, <<"UiPoolDataProviderV3">>}, TRUE)>>)
UiHelpers == Script({"periphery-post", "ui-helpers"}, <<>>)

\* Returns before it deploys anything: nothing here makes the ParaSwap records.
ParaswapSteps == <<>>
Paraswap == Script({"periphery-post", "paraswap-adapters"}, <<>>)

PoolWrapperSteps ==
  <<Deploy({<<"PacPoolWrapper">>, <<"GasRefund">>}, WrappedNative /\ Recorded({GetPool})),
    Set(<<"GAS_REFUND">>, <<"GasRefund">>, TRUE)>>
PoolWrapper == Script({"periphery-post"}, <<>>)

\* Every entry of ReservesConfig gets a distributor: the test of nativeYield
\* prints that it is skipped and goes on.
NativeYieldSteps == ForEach(market.symbols, Reserves, DistributorFor)
NativeYield == Script({"periphery-post"}, <<>>)

AfterDeploySteps ==
  ReviewStableBorrow \o ReviewRateStrategies(FALSE) \o SetupDebtCeiling
  \o SetupIsolationMode \o SetupEModes \o SetupLiquidationProtocolFee
  \o If(IsTestnetMarket,
        DisableFaucetNativeTestnets
        \o <<Set(<<"UNPAUSED">>, GetPoolConfiguratorProxy, Recorded({GetPoolConfiguratorProxy}))>>)
  \o If(market.transfer,
        TransferProtocolOwnership \o RenouncePoolAdmin \o ViewProtocolRoles)
AfterDeploy == Script({"after-deploy"}, <<>>)
============================================================================
