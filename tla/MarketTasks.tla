---------------------------- MODULE MarketTasks ----------------------------
(***************************************************************************)
(* The helpers that list and configure reserves (helpers/init-helpers.ts)  *)
(* and the hardhat tasks that set a market up, review it and extend it     *)
(* (tasks/misc), each as the sequence of its steps.                        *)
(***************************************************************************)
EXTENDS DeploymentState

Wants(field, s) == market.params[s][field]

PoolImpl == IF IsL2PoolSupported THEN <<"L2Pool-Implementation">>
                                 ELSE <<"Pool-Implementation">>

---------------------------------------------------------------------------
(* helpers/init-helpers.ts *)

\* Mutant: the listed ones again.
ReservesToInit_Again == Filter(market.symbols, Reserves \cap ReserveAddresses)
\* Mutant: none once some are listed.
ReservesToInit_Once ==
  Filter(market.symbols,
         {s \in Reserves \cap ReserveAddresses : \A r \in Symbols : ~reserve[r].listed})

\* The reserves initReservesByHelper lists: those with a known aToken and an
\* address that the pool has not listed yet.
ReservesToInit ==
  Filter(market.symbols,
         {s \in Reserves \cap ReserveAddresses :
            /\ market.params[s].aTokenImpl \in {"AToken", "DelegationAwareAToken"}
            /\ ~reserve[s].listed})

\* They are chosen first, then listed in transactions of initChunks each.
InitReservesByHelper ==
  <<Select(ReservesToInit,
           Recorded({GetPoolAddressesProvider, PoolImpl, <<"StableDebtToken">>,
                     <<"VariableDebtToken">>, <<"AToken">>}
                    \cup {<<market.params[s].aTokenImpl>> :
                          s \in {x \in Reserves : Wants("aTokenImpl", x) # "none"}})),
    Step("initReserves", Nothing, 3,
         Recorded({<<"ReserveStrategy", market.params[s].strategy>> : s \in ToSet(proc.todo)}
                  \cup {GetPoolConfiguratorProxy, <<"PoolConfigurator-Implementation">>}),
         proc.todo # <<>>)>>

\* The reserves configureReservesByHelper configures: those with an address
\* that are not collateral yet, unless the market leaves them as listed.
ReservesToConfigure ==
  Filter(market.symbols,
         {s \in Reserves \cap ReserveAddresses : ~market.params[s].noLTV /\ ~reserve[s].collateral})

\* Mutant: the helper is removed if any reserve is left to configure.
ConfigureReservesByHelper_Stays ==
  <<Select(ReservesToConfigure, TRUE),
    Step("addRiskAdmin", Nothing, Nothing, TRUE, proc.any),
    Step("configureReserves", Nothing, 20, TRUE, proc.todo # <<>>),
    Step("removeRiskAdmin", Nothing, Nothing, TRUE, proc.todo # <<>>)>>

\* ReservesSetupHelper is made risk admin, configures them in transactions of
\* enableChunks each, and is removed.
ConfigureReservesByHelper ==
  <<Select(ReservesToConfigure,
           Recorded({GetPoolAddressesProvider, <<"ACLManager">>, <<"ReservesSetupHelper">>,
                     GetAaveProtocolDataProvider})),
    Step("addRiskAdmin", Nothing, Nothing, TRUE, proc.any),
    Step("configureReserves", Nothing, 20, TRUE, proc.todo # <<>>),
    Step("removeRiskAdmin", Nothing, Nothing, TRUE, proc.any)>>

\* The tokens of every reserve are recorded under its symbol.
SavePoolTokens ==
  LET reserves == Reserves \cap ReserveAddresses
      tokens   == {"-AToken", "-VariableDebtToken", "-StableDebtToken"}
  IN <<Save(tokens \X reserves, Recorded({GetAaveProtocolDataProvider}))>>

\* Mutant: a second entry is accepted.
AddMarketToRegistry_Twice ==
  <<Set(<<"REGISTERED">>, GetPoolAddressesProvider,
        Recorded({GetPoolAddressesProviderRegistry, GetPoolAddressesProvider}))>>

\* The registry refuses an addresses provider it already has.
AddMarketToRegistry ==
  <<Set(<<"REGISTERED">>, GetPoolAddressesProvider,
        /\ Recorded({GetPoolAddressesProviderRegistry, GetPoolAddressesProvider})
        /\ slots[<<"REGISTERED">>] = Nothing)>>

---------------------------------------------------------------------------
(* tasks/misc: setup *)

\* getAllReservesTokens
Listed == {s \in Symbols : reserve[s].listed}

\* The first entry of the market file whose name the token's symbol contains:
\* a task that reviews the listed reserves exits when there is none.
HasNormalizedSymbol(s) == \E n \in Reserves : n \in market.names[s]
NormalizedSymbol(s) == Filter(market.symbols, Reserves \cap market.names[s])[1]

\* review-stable-borrow --fix
ReviewStableBorrow ==
  LET wanted(s) == Wants("stable", NormalizedSymbol(s))
      review(s) == <<Configure("stable", s, wanted(s), HasNormalizedSymbol(s),
                               reserve[s].stable # wanted(s))>>
  IN <<Check(Recorded({GetAaveProtocolDataProvider}))>> \o ForEach(market.symbols, Listed, review)

\* review-rate-strategies: reports, and with --deploy --fix deploys the
\* strategy of the market file again and points the reserve at it.
ReviewRateStrategies(fix) ==
  LET outdated(s) == fix /\ reserve[s].rates # Edition
      strategy(s) ==
        <<"ReserveStrategy", market.params[NormalizedSymbol(s)].strategy, Edition>>
      review(s) == <<SaveWhen(outdated(s), {strategy(s)}),
                     Configure("rates", s, Edition, HasNormalizedSymbol(s), outdated(s))>>
  IN <<Check(Recorded({GetAaveProtocolDataProvider, GetPoolAddressesProvider}))>>
     \o ForEach(market.symbols, Listed, review)

\* Mutant: the ceiling of those borrowable in isolation.
SetupDebtCeiling_Isolation ==
  LET setup(s) == <<Configure("ceiling", s, TRUE, HasReserveAddress(s), Wants("isolation", s))>>
  IN ForEach(market.symbols, Reserves, setup)

\* setup-debt-ceiling: every asset of the market file must have an address,
\* those with a ceiling get it.
SetupDebtCeiling ==
  LET setup(s) == <<Configure("ceiling", s, TRUE, HasReserveAddress(s), Wants("ceiling", s))>>
  IN ForEach(market.symbols, Reserves, setup)

SetupIsolationMode ==
  LET setup(s) ==
        <<Configure("isolation", s, TRUE, HasReserveAddress(s), Wants("isolation", s))>>
  IN ForEach(market.symbols, Reserves, setup)

SetupLiquidationProtocolFee ==
  LET setup(s) == <<Configure("fee", s, TRUE, HasReserveAddress(s), Wants("fee", s))>>
  IN ForEach(market.symbols, Reserves, setup)

\* setup-e-modes: a category and then its assets, which must be listed.
SetupEModes ==
  LET asset(m, s) == Configure("category", s, m.id, HasReserveAddress(s), TRUE)
      category(m) ==
        <<Set(<<"EMODES">>, <<m.id>>, /\ Recorded({GetPoolConfiguratorProxy})
                                      /\ m.oracle = "none" \/ HasOracle(m.oracle))>>
        \o [i \in 1..Len(m.assets) |-> asset(m, m.assets[i])]
  IN FlattenSeq([i \in 1..Len(market.emodes) |-> category(market.emodes[i])])

\* The faucet stops minting the wrapped native token, and the token stops
\* being borrowable, which the pool refuses while its stable rate is on.
DisableFaucetNativeTestnets ==
  <<Set(<<"FAUCET_DISABLED">>, GetFaucet, Recorded({GetFaucet, GetWrappedTokenGateway})),
    Configure("borrowing", market.wrappedNative, FALSE, TRUE, TRUE)>>

---------------------------------------------------------------------------
(* tasks/misc: review and extension of a running market *)

\* review-supply-caps --fix, for the reserves of the market file on the
\* network; without the file's addresses it exits.
ReviewSupplyCaps ==
  LET review(s) == <<Configure("cap", s, Edition, s \in market.assets,
                               reserve[s].cap # Edition)>>
  IN <<Check(market.assets # {} /\ Recorded({GetAaveProtocolDataProvider}))>>
     \o ForEach(market.symbols, Listed, review)

\* review-e-mode --fix compares the category asked for with the entry named
\* StableEMode whatever the category.
ReviewEMode ==
  <<SetWhen(slots[<<"EMODES">>] = Nothing, <<"EMODES">>, <<1>>,
            /\ market.emodes # <<>>
            /\ Recorded({GetPoolConfiguratorProxy, GetPoolAddressesProvider}))>>

\* add-new-asset lists and configures what the market file has gained.
AddNewAsset ==
  <<Check(HasTreasuryAddress /\ Recorded({GetPoolAddressesProvider, GetIncentivesV2}))>>
  \o If(ReserveAddresses # {},
        InitReservesByHelper \o ConfigureReservesByHelper \o SavePoolTokens)

\* update-oracle deploys the oracle for the present reserves under the record
\* of the old one, and leaves the provider with the old one.
UpdateOracle ==
  <<Save({GetAaveOracle}, Recorded({GetPoolAddressesProvider}) /\ PairsTokenAggregator)>>

SetFallbackOracle ==
  <<Set(<<"FALLBACK_ORACLE">>, GetAaveOracle, Recorded({GetAaveOracle}))>>

\* Mutant: the new implementation is not recorded.
UpgradeATokens_Unrecorded(matches) ==
  LET upgrade(s) == <<Configure("revision", s, 2, TRUE, TRUE)>>
  IN If(matches, ForEach(market.symbols, Listed \ market.later, upgrade)
                 \o ForEach(market.symbols, Listed \cap market.later, upgrade))

\* upgrade-atokens: the new implementation is recorded as AToken. If its revision
\* matches the one asked for, every aToken of the pool's list, which has the
\* reserves in the order they came, is taken to it; that reverts for one that is
\* there already. If not, the task returns with the record replaced.
UpgradeATokens(matches) ==
  LET upgrade(s) == <<Configure("revision", s, 2, TRUE, TRUE)>>
  IN <<Save({<<"AToken-REV2">>},
            Recorded({GetPoolAddressesProvider, <<"TreasuryProxy">>, GetIncentivesV2}))>>
     \o If(matches, ForEach(market.symbols, Listed \ market.later, upgrade)
                     \o ForEach(market.symbols, Listed \cap market.later, upgrade))

\* review-atokens reads every aToken before and after the upgrade.
ReviewATokens == <<Check(Recorded({GetPoolAddressesProvider}))>>
UpgradeATokensAndReview(matches) == ReviewATokens \o UpgradeATokens(matches) \o ReviewATokens

\* One NativeYieldDistribute for one aToken, under one record for all of them.
DistributorFor(s) ==
  <<Step("distributor", <<"NativeYieldDistribute", s>>, s, Recorded({GetPool}), TRUE),
    Configure("distributor", s, "current", TRUE, TRUE)>>
DeployATokenYieldDistributor ==
  IF Listed = {} THEN <<Check(FALSE)>> ELSE DistributorFor(Filter(market.symbols, Listed)[1])

DeployPacPoolWrapper == <<Deploy({<<"PacPoolWrapper">>}, Recorded({GetPool}))>>
============================================================================
