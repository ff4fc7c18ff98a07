-------------------------- MODULE DeploymentState --------------------------
(***************************************************************************)
(* The state a deployment of a market works on, and the helpers that read  *)
(* it: what is on chain (it survives everything), what hardhat-deploy      *)
(* keeps on disk under deployments/<network> (it survives a crash), and    *)
(* what the running process has in memory (a crash loses it).              *)
(*                                                                         *)
(* Contracts, deployment records and settings are named by the identifier  *)
(* the code uses, written as a tuple: <<"TreasuryProxy">>, and with the    *)
(* reserve for those named after one: <<"TestnetMintableERC20", s>>.       *)
(***************************************************************************)
EXTENDS Naturals, Sequences, FiniteSets, SequencesExt

CONSTANTS
  Markets,      \* the market configurations: records with the fields below
  Symbols,      \* the token symbols they speak of
  Deployer,     \* account 0: every named account that signs
  Multisig,     \* POOL_ADMIN of the network
  Guardian,     \* EMERGENCY_ADMIN of the network where it is another account
  SetupHelper,  \* the ReservesSetupHelper contract as a role holder
  Nobody,       \* no account; owner of what does not exist
  MaxCrashes    \* bound on the crashes of the deploying process

\* No market is given to the account that deploys it.
ASSUME AccountsAssumption ==
  Deployer # Nobody /\ Multisig # Nobody /\ Deployer # Multisig
ASSUME MaxCrashesAssumption == MaxCrashes \in Nat

VARIABLES
  market,       \* the configuration that MARKET_NAME and the network select
  records,      \* deployments/<network>/*.json: recorded contracts
  executed,     \* deployments/<network>/.migrations.json: scripts not to rerun
  initialized,  \* chain: contracts whose one-off call was made
  slots,        \* chain: settings and the contract each holds
  owner,        \* chain: owner() of every Ownable contract
  acl,          \* chain: the members of the ACLManager's roles
  reserve,      \* chain: what the pool keeps of each reserve
  proc,         \* process: the scripts still to run, the step, its variables
  handover,     \* process: the next step of transfer-protocol-ownership
  finished,     \* history: the scripts that ran to their end
  crashes       \* history: crashes so far

disk    == <<records, executed>>
chain   == <<initialized, slots, owner, acl, reserve>>
history == <<finished, crashes>>
vars    == <<market, disk, chain, proc, handover, history>>

Roles == {"DEFAULT_ADMIN", "POOL_ADMIN", "EMERGENCY_ADMIN", "RISK_ADMIN"}

\* The contracts with an owner() that the scripts and tasks rely on.
Ownables ==
  {<<"PoolAddressesProviderRegistry">>, <<"PoolAddressesProvider">>,
   <<"WrappedTokenGatewayV3">>, <<"EmissionManager">>, <<"PacPoolWrapper">>,
   <<"ParaSwapRepayAdapter">>, <<"ParaSwapLiquiditySwapAdapter">>}

\* What is set once a contract is there: the provider's addresses, the
\* registry's entry, the pool's premiums, the oracle's fallback...
Slots ==
  {<<"MARKET_ID">>, <<"REGISTERED">>, <<"DATA_PROVIDER">>, <<"ACL_ADMIN">>,
   <<"ACL_MANAGER">>, <<"PRICE_ORACLE">>, <<"POOL">>, <<"POOL_CONFIGURATOR">>,
   <<"INCENTIVES_CONTROLLER">>, <<"FLASHLOAN_PREMIUM_TOTAL">>,
   <<"FLASHLOAN_PREMIUM_TO_PROTOCOL">>, <<"REWARDS_CONTROLLER">>,
   <<"GAS_REFUND">>, <<"STAKE_AAVE">>, <<"FAUCET_DISABLED">>, <<"UNPAUSED">>,
   <<"EMODES">>, <<"FALLBACK_ORACLE">>}
Nothing == <<>>

\* IReserveParams: what the market file says of one reserve. Amounts are only
\* set or not: a strategy is its name, "-1" as base LTV is noLTV, collateral a
\* liquidation threshold above zero.
ReserveParams ==
  [strategy : STRING, aTokenImpl : {"AToken", "DelegationAwareAToken", "none"},
   nativeYield : BOOLEAN, noLTV : BOOLEAN, collateral : BOOLEAN, borrowing : BOOLEAN,
   stable : BOOLEAN, ceiling : BOOLEAN, isolation : BOOLEAN, fee : BOOLEAN]

ASSUME MarketsAssumption ==
  \A m \in Markets :
    /\ {"symbols", "later", "extended", "params", "multisig", "transfer", "commands"}
         \subseteq DOMAIN m
    /\ m.symbols \in Seq(Symbols)
    /\ m.multisig \in {Multisig, Nobody}
    /\ \A s \in Symbols : m.params[s] \in ReserveParams

\* The keys of ReservesConfig: an object has each of them once.
ASSUME SymbolsAssumption == \A m \in Markets : IsInjective(m.symbols)

\* What a token's symbol contains, and EModes: categories with the assets that
\* each is to have, and the asset whose feed prices them.
ASSUME CategoriesAssumption ==
  \A m \in Markets :
    /\ {"names", "emodes"} \subseteq DOMAIN m
    /\ m.emodes \in Seq([id : Nat, assets : Seq(Symbols), oracle : Symbols \cup {"none"}])

\* What the pool keeps of one reserve. The edition of the market file that its
\* rate strategy and its supply cap come from is 0 before they are set; it has no
\* suppliers yet, some, or none any more.
NewReserve ==
  [listed |-> FALSE, collateral |-> FALSE, borrowing |-> FALSE,
   stable |-> FALSE, ceiling |-> FALSE, isolation |-> FALSE, fee |-> FALSE,
   category |-> 0, rates |-> 0, cap |-> 0, revision |-> 0, suppliers |-> "none",
   distributor |-> "none"]

\* A process that runs nothing; "todo" and "any" are the local variables of the
\* script it is in.
Idle    == [queue |-> <<>>, pc |-> 1, todo |-> <<>>, any |-> FALSE]
Running == proc.queue # <<>>

---------------------------------------------------------------------------
(* Sequences *)

If(b, seq) == IF b THEN seq ELSE <<>>
\* The elements of a sequence that are in a set, and a group for each of them.
Filter(seq, S) == FlattenSeq([i \in 1..Len(seq) |-> If(seq[i] \in S, <<seq[i]>>)])
ForEach(seq, S, Group(_)) ==
  FlattenSeq([i \in 1..Len(seq) |-> If(seq[i] \in S, Group(seq[i]))])

---------------------------------------------------------------------------
(* helpers/market-config-helpers.ts *)

\* The edition of the market file: it is extended once the market is there.
Edition == IF market.extended THEN 2 ELSE 1

\* A market on a live network, with real tokens and price feeds.
IsProductionMarket  == market.live /\ ~market.testnetMarket
IsTestnetMarket     == ~IsProductionMarket
IsIncentivesEnabled == market.rewards
IsL2PoolSupported   == market.l2

\* Object.keys(ReservesConfig)
Reserves == ToSet(market.symbols) \ (IF market.extended THEN {} ELSE market.later)

\* The reserves that have an address: those of the market file on a live
\* network, those of the test tokens deployed so far elsewhere.
ReserveAddresses ==
  IF IsProductionMarket
    THEN {s \in market.assets : market.extended \/ s \notin market.later}
    ELSE {s \in Reserves : <<"TestnetMintableERC20", s>> \in records}

\* getReserveAddress: the address of one reserve, which throws without one.
HasReserveAddress(s) ==
  IF IsTestnetMarket THEN <<"TestnetMintableERC20", s>> \in records
                     ELSE s \in market.assets

\* The price feeds: the market file's on a live network whatever TestnetMarket
\* says, the mock aggregators deployed so far elsewhere.
ChainlinkOracles ==
  IF market.live
    THEN market.oracles
    ELSE {s \in Symbols : /\ <<"TestnetPriceAggregator", s>> \in records
                          /\ \/ s \in Reserves
                             \/ /\ IsIncentivesEnabled
                                /\ <<"TestnetMintableERC20-Reward", s>> \in records}

\* getOracleByAsset throws without a feed.
HasOracle(s) ==
  IF IsTestnetMarket THEN <<"TestnetPriceAggregator", s>> \in records
                     ELSE s \in market.oracles

\* getTreasuryAddress: the configured one, or the deployed proxy, which must
\* then have a record.
HasTreasuryAddress == market.treasury \/ <<"TreasuryProxy">> \in records

\* getPairsTokenAggregator: every reserve but ETH and USD finds its feed, or
\* the oracle cannot be built.
PairsTokenAggregator == ReserveAddresses \ {"ETH", "USD"} \subseteq ChainlinkOracles

---------------------------------------------------------------------------
(* helpers/contract-getters.ts: the records a contract is found by *)

GetPoolAddressesProvider         == <<"PoolAddressesProvider">>
GetPoolAddressesProviderRegistry == <<"PoolAddressesProviderRegistry">>
GetPool                          == <<"Pool-Proxy">>
GetPoolConfiguratorProxy         == <<"PoolConfigurator-Proxy">>
GetAaveProtocolDataProvider      == <<"PoolDataProvider">>
GetAaveOracle                    == <<"AaveOracle">>
GetFaucet                        == <<"Faucet">>
GetWrappedTokenGateway           == <<"WrappedTokenGatewayV3">>
GetIncentivesV2                  == <<"IncentivesProxy">>
GetEmissionManager               == <<"EmissionManager">>

\* What a pool implementation is linked with.
GetPoolLibraries ==
  {<<"SupplyLogic">>, <<"BorrowLogic">>, <<"LiquidationLogic">>, <<"EModeLogic">>,
   <<"BridgeLogic">>, <<"FlashLoanLogic">>, <<"PoolLogic">>}

---------------------------------------------------------------------------
(* Steps. A script and a task is a sequence of them, and the process can   *)
(* die before any of them. What is looked up or tested without changing    *)
(* anything belongs to the step it comes before, and contracts made one    *)
(* after another to one step: they are not made again. A step is           *)
(* evaluated in the state it is reached in:                                *)
(*   op    the kind of step             needs  the lookups that succeed    *)
(*   id    what it is about             when   the test the code makes     *)
(*   val   what it puts there                  before it                   *)

Step(op, id, val, needs, when) ==
  [op |-> op, id |-> id, val |-> val, needs |-> needs, when |-> when]

\* deployments.get of each
Recorded(ids) == ids \subseteq records

\* deployments.deploy: creates each contract and its record unless recorded.
Deploy(ids, needs) == Step("deploy", ids, Nothing, needs, TRUE)
\* A call that a contract accepts once.
Initialize(id) == Step("initialize", id, Nothing, Recorded({id}), TRUE)
\* A setter, unconditional or behind a test of the current value.
Set(slot, val, needs) == Step("set", slot, val, needs, TRUE)
SetWhen(b, slot, val, needs) == Step("set", slot, val, needs, b)
\* deployments.save
Save(ids, needs) == Step("save", ids, Nothing, needs, TRUE)
SaveWhen(b, ids) == Step("save", ids, Nothing, TRUE, b)
\* transferOwnership, addPoolAdmin and addEmergencyAdmin of a named account:
\* all of them are the deployer's.
TransferOwnership(id) == Step("transfer", id, Nothing, Recorded({id}), TRUE)
AddRole(role) == Step("grant", role, Nothing, Recorded({<<"ACLManager">>}), TRUE)
\* Only lookups and tests that throw.
Check(needs) == Step("check", Nothing, Nothing, needs, TRUE)
\* The local variables of the script get their values.
Remember(b) == Step("local", Nothing, [todo |-> <<>>, any |-> b], TRUE, TRUE)
Select(seq, needs) == Step("local", Nothing, [todo |-> seq, any |-> seq # <<>>], needs, TRUE)
\* A call of the configurator about one reserve.
Configure(field, s, value, needs, when) ==
  Step("configure", <<field, s>>, value, needs /\ Recorded({GetPoolConfiguratorProxy}), when)
============================================================================
