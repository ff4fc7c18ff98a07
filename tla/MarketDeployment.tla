-------------------------- MODULE MarketDeployment --------------------------
(***************************************************************************)
(* A market is deployed by commands the operator gives one after another:  *)
(* the whole deployment, the scripts of a tag, or a task. A command runs   *)
(* its scripts in the order hardhat-deploy gives them, leaves out those    *)
(* recorded as executed, takes one step at a time, and stops at the first  *)
(* that throws. The process can crash before any step; the chain and the   *)
(* records stay. Meanwhile users supply what is listed, and withdraw it.   *)
(* Nobody edits a record, or the market file but to extend the market, and *)
(* the multisig gives nothing back.                                        *)
(***************************************************************************)
EXTENDS DeployScripts

CONSTANTS
  DeployCommands,  \* "all" and the tags the operator deploys with
  TaskCommands     \* the tasks the operator runs on a market that is there

---------------------------------------------------------------------------
(* Scheduling. *)

\* The scripts in the order of their paths, the one that runs at the end last.
ScriptPaths ==
  <<"before_deploy", "registry", "libraries", "treasury", "addresses_provider",
    "token_setup", "aggregators", "pool_impl", "l2_pool_impl", "configurator", "acl",
    "deploy_oracles", "init_oracles", "init_pool", "incentives", "tokens",
    "init_reserves", "init_periphery", "gateway", "wallet_balance", "ui_helpers",
    "paraswap", "pool_wrapper", "native_yield", "after_deploy">>
Scripts == ToSet(ScriptPaths)

\* A task is run by its name; a script of the deployment has only tags.
ASSUME TasksAssumption == TaskCommands \cap Scripts = {}

Definition(c) ==
  CASE c = "before_deploy"      -> BeforeDeploy
    [] c = "registry"           -> Registry
    [] c = "libraries"          -> Libraries
    [] c = "treasury"           -> Treasury
    [] c = "addresses_provider" -> AddressesProvider
    [] c = "token_setup"        -> TokenSetup
    [] c = "aggregators"        -> Aggregators
    [] c = "pool_impl"          -> PoolImplementation
    [] c = "l2_pool_impl"       -> L2PoolImplementation
    [] c = "configurator"       -> PoolConfigurator
    [] c = "acl"                -> InitAcl
    [] c = "deploy_oracles"     -> DeployOracles
    [] c = "init_oracles"       -> InitOracles
    [] c = "init_pool"          -> InitPool
    [] c = "incentives"         -> Incentives
    [] c = "tokens"             -> Tokens
    [] c = "init_reserves"      -> InitReserves
    [] c = "init_periphery"     -> InitPeriphery
    [] c = "gateway"            -> Gateway
    [] c = "wallet_balance"     -> WalletBalance
    [] c = "ui_helpers"         -> UiHelpers
    [] c = "paraswap"           -> Paraswap
    [] c = "pool_wrapper"       -> PoolWrapper
    [] c = "native_yield"       -> NativeYield
    [] c = "after_deploy"       -> AfterDeploy

\* The upgrade asks for the revision of the new implementation, or for another.
StepsOf(c) ==
  CASE c = "before_deploy"      -> BeforeDeploySteps
    [] c = "registry"           -> RegistrySteps
    [] c = "libraries"          -> LibrariesSteps
    [] c = "treasury"           -> TreasurySteps
    [] c = "addresses_provider" -> AddressesProviderSteps
    [] c = "token_setup"        -> TokenSetupSteps
    [] c = "aggregators"        -> AggregatorsSteps
    [] c = "pool_impl"          -> PoolImplSteps
    [] c = "l2_pool_impl"       -> L2PoolImplSteps
    [] c = "configurator"       -> ConfiguratorSteps
    [] c = "acl"                -> InitAclSteps
    [] c = "deploy_oracles"     -> DeployOraclesSteps
    [] c = "init_oracles"       -> InitOraclesSteps
    [] c = "init_pool"          -> InitPoolSteps
    [] c = "incentives"         -> IncentivesSteps
    [] c = "tokens"             -> TokensSteps
    [] c = "init_reserves"      -> InitReservesSteps
    [] c = "init_periphery"     -> InitPeripherySteps
    [] c = "gateway"            -> GatewaySteps
    [] c = "wallet_balance"     -> WalletBalanceSteps
    [] c = "ui_helpers"         -> UiHelpersSteps
    [] c = "paraswap"           -> ParaswapSteps
    [] c = "pool_wrapper"       -> PoolWrapperSteps
    [] c = "native_yield"       -> NativeYieldSteps
    [] c = "after_deploy"       -> AfterDeploySteps
    [] c = "add-new-asset"               -> AddNewAsset
    [] c = "update-oracle"               -> UpdateOracle
    [] c = "set-fallback-oracle"         -> SetFallbackOracle
    [] c = "review-rate-strategies"      -> ReviewRateStrategies(TRUE)
    [] c = "review-supply-caps"          -> ReviewSupplyCaps
    [] c = "review-e-mode"               -> ReviewEMode
    [] c = "upgrade-atokens-and-review"  -> UpgradeATokensAndReview(TRUE)
    [] c = "upgrade-atokens-and-review --revision other" -> UpgradeATokensAndReview(FALSE)
    [] c = "transfer-protocol-ownership" -> TransferProtocolOwnership
    [] c = "renounce-pool-admin"         -> RenouncePoolAdmin
    [] c = "view-protocol-roles"         -> ViewProtocolRoles
    [] c = "transfer-ownership"          -> TransferOwnershipOfWrapper
    [] c = "market-registry:add"         -> AddMarketToRegistry
    [] c = "deploy-yield-distributor" -> DeployATokenYieldDistributor
    [] c = "deploy-pac-pool-wrapper"     -> DeployPacPoolWrapper
    [] OTHER                             -> <<>>

\* The scripts a tag names, in path order; a tag of no script names none.
Tagged(tag) == Filter(ScriptPaths, {c \in Scripts : tag \in Definition(c).tags})

FirstOfEach(seq) ==
  FlattenSeq([i \in 1..Len(seq) |-> If(\A j \in 1..i - 1 : seq[j] # seq[i], <<seq[i]>>)])

\* Each script after the scripts of the tags it depends on, and theirs, four
\* times, which is the longest chain.
AfterDependencies(queued) ==
  [c \in Scripts |->
     LET named == FlattenSeq([i \in 1..Len(Definition(c).dependencies) |->
                                Tagged(Definition(c).dependencies[i])])
     IN FirstOfEach(FlattenSeq([i \in 1..Len(named) |-> queued[named[i]]]) \o <<c>>)]
WithDependencies ==
  AfterDependencies(AfterDependencies(AfterDependencies(AfterDependencies(
    [c \in Scripts |-> <<c>>]))))

\* executeDeployScripts of hardhat-deploy: the scripts that a command names, and
\* what they depend on, once each.
Schedule ==
  [command \in DeployCommands |->
     LET selected == IF command = "all" THEN ScriptPaths ELSE Tagged(command)
     IN FirstOfEach(FlattenSeq([i \in 1..Len(selected) |-> WithDependencies[selected[i]]]))]

\* Those that are not recorded as executed, the one that runs at the end last.
ToRun(command) ==
  Filter(Schedule[command], Scripts \ (executed \cup {"after_deploy"}))
  \o Filter(Schedule[command], {"after_deploy"} \ executed)

\* The scripts that return true, which is what gets a script recorded.
ReturnsTrue(c) ==
  \/ c = "aggregators" /\ IsTestnetMarket
  \/ c = "init_reserves" /\ ReserveAddresses # {}
  \/ c \in {"registry", "libraries", "treasury", "addresses_provider", "configurator", "acl",
            "deploy_oracles", "init_oracles", "init_pool", "incentives", "tokens",
            "init_periphery", "paraswap"}

---------------------------------------------------------------------------
(* The process: one action for each kind of step. *)

ThisScript == Head(proc.queue)
GoTo(i)    == proc' = [proc EXCEPT !.pc = i]
Stopped    == proc' = Idle /\ handover' = "none"

DeployerMay(role) == Deployer \in acl[role]

\* Who may change a setting: the owner of the contract that keeps it, or one of
\* the ACL's roles.
MaySet(slot) ==
  CASE slot \in {<<"STAKE_AAVE">>, <<"FAUCET_DISABLED">>} -> TRUE
    [] slot = <<"REGISTERED">> -> owner[GetPoolAddressesProviderRegistry] = Deployer
    [] slot = <<"REWARDS_CONTROLLER">> -> owner[GetEmissionManager] = Deployer
    [] slot = <<"GAS_REFUND">> -> owner[<<"PacPoolWrapper">>] = Deployer
    [] slot = <<"UNPAUSED">> -> DeployerMay("EMERGENCY_ADMIN")
    [] slot \in {<<"FLASHLOAN_PREMIUM_TOTAL">>, <<"FLASHLOAN_PREMIUM_TO_PROTOCOL">>,
                 <<"EMODES">>, <<"FALLBACK_ORACLE">>} -> DeployerMay("POOL_ADMIN")
    [] OTHER -> owner[GetPoolAddressesProvider] = Deployer

\* What the configurator, and behind it the pool, asks of a reserve.
MayConfigure(field, s, value) ==
  /\ DeployerMay("POOL_ADMIN")
  /\ reserve[s].listed
  /\ field = "stable" /\ value => reserve[s].borrowing
  /\ field = "borrowing" /\ ~value => ~reserve[s].stable
  /\ field = "ceiling" /\ ~reserve[s].ceiling => reserve[s].suppliers # "some"
  /\ field = "revision" => value > reserve[s].revision

\* configureReserveAsCollateral without a threshold is refused while anyone
\* supplies the reserve.
MayBeConfigured(s) == Wants("collateral", s) \/ reserve[s].suppliers # "some"

Chunk(size) == SubSeq(proc.todo, 1, IF Len(proc.todo) < size THEN Len(proc.todo) ELSE size)
Rest(size)  == SubSeq(proc.todo, size + 1, Len(proc.todo))

\* A step that reverts, or a test of the script that fails.
Refused(s) ==
  \/ s.op = "initialize" /\ s.id \in initialized
  \/ s.op = "set" /\ ~MaySet(s.id)
  \/ s.op = "transfer" /\ owner[s.id] # Deployer
  \/ s.op = "handOne" /\ (owner[s.id] # Deployer \/ market.multisig = Nobody)
  \/ s.op = "handover" /\ HandoverExits
  \/ s.op = "grant" /\ ~MayGrant
  \/ s.op = "configure" /\ ~MayConfigure(s.id[1], s.id[2], s.val)
  \/ /\ s.op = "initReserves"
     /\ ~DeployerMay("POOL_ADMIN") \/ \E r \in ToSet(Chunk(s.val)) : reserve[r].listed
  \/ /\ s.op \in {"addRiskAdmin", "removeRiskAdmin"}
     /\ ~MayGrant \/ slots[<<"ACL_ADMIN">>] # Deployer
  \/ /\ s.op = "configureReserves"
     /\ \/ SetupHelper \notin acl["RISK_ADMIN"]
        \/ \E r \in ToSet(Chunk(s.val)) : ~MayBeConfigured(r)

\* deployments.deploy. The deployer owns what it makes; the manager gives
\* DEFAULT_ADMIN to the provider's ACL admin.
DeployContracts(s, i) ==
  /\ s.op = "deploy"
  /\ records' = records \cup s.id
  /\ owner' = [x \in Ownables |-> IF x \in s.id \ records THEN Deployer ELSE owner[x]]
  /\ acl' = IF <<"ACLManager">> \in s.id \ records
              THEN [acl EXCEPT !["DEFAULT_ADMIN"] = @ \cup {slots[<<"ACL_ADMIN">>]}] ELSE acl
  /\ GoTo(i + 1)
  /\ UNCHANGED <<initialized, slots, reserve, handover>>

InitializeContract(s, i) ==
  /\ s.op = "initialize"
  /\ initialized' = initialized \cup {s.id}
  /\ GoTo(i + 1)
  /\ UNCHANGED <<records, slots, owner, acl, reserve, handover>>

SetSlot(s, i) ==
  /\ s.op = "set"
  /\ slots' = [slots EXCEPT ![s.id] = s.val]
  /\ GoTo(i + 1)
  /\ UNCHANGED <<records, initialized, owner, acl, reserve, handover>>

SaveRecords(s, i) ==
  /\ s.op = "save"
  /\ records' = records \cup s.id
  /\ GoTo(i + 1)
  /\ UNCHANGED <<chain, handover>>

\* To an account that is the deployer's as well: nothing changes hands.
TransferToDeployer(s, i) ==
  /\ s.op = "transfer"
  /\ owner' = [owner EXCEPT ![s.id] = Deployer]
  /\ GoTo(i + 1)
  /\ UNCHANGED <<records, initialized, slots, acl, reserve, handover>>

GrantToDeployer(s, i) ==
  /\ s.op = "grant"
  /\ acl' = [acl EXCEPT ![s.id] = @ \cup {Deployer}]
  /\ GoTo(i + 1)
  /\ UNCHANGED <<records, initialized, slots, owner, reserve, handover>>

Pass(s, i) ==
  /\ s.op = "check"
  /\ GoTo(i + 1)
  /\ UNCHANGED <<records, chain, handover>>

AssignLocals(s, i) ==
  /\ s.op = "local"
  /\ proc' = [proc EXCEPT !.todo = s.val.todo, !.any = s.val.any, !.pc = i + 1]
  /\ UNCHANGED <<records, chain, handover>>

ConfigureReserve(s, i) ==
  /\ s.op = "configure"
  /\ reserve' = [reserve EXCEPT ![s.id[2]][s.id[1]] = s.val]
  /\ GoTo(i + 1)
  /\ UNCHANGED <<records, initialized, slots, owner, acl, handover>>

\* The implementation of the aToken that a reserve is listed with: the one recorded
\* by now. An upgrade replaces that of AToken, and no other.
ImplementationOf(r) ==
  IF market.params[r].aTokenImpl = "AToken" /\ <<"AToken-REV2">> \in records THEN 2 ELSE 1

\* One transaction of InitReservesByHelper; the script goes on after the last.
\* The strategy is the one recorded by now, too.
ListReserves(s, i) ==
  /\ s.op = "initReserves"
  /\ reserve' = [r \in Symbols |->
       IF r \in ToSet(Chunk(s.val))
         THEN [reserve[r] EXCEPT
                 !.listed = TRUE,
                 !.revision = ImplementationOf(r),
                 !.rates = IF <<"ReserveStrategy", market.params[r].strategy, 2>> \in records
                             THEN 2 ELSE 1]
         ELSE reserve[r]]
  /\ proc' = [proc EXCEPT !.todo = Rest(s.val), !.pc = IF Rest(s.val) = <<>> THEN i + 1 ELSE i]
  /\ UNCHANGED <<records, initialized, slots, owner, acl, handover>>

MakeSetupHelperRiskAdmin(s, i) ==
  /\ \/ s.op = "addRiskAdmin" /\ acl' = [acl EXCEPT !["RISK_ADMIN"] = @ \cup {SetupHelper}]
     \/ s.op = "removeRiskAdmin" /\ acl' = [acl EXCEPT !["RISK_ADMIN"] = @ \ {SetupHelper}]
  /\ GoTo(i + 1)
  /\ UNCHANGED <<records, initialized, slots, owner, reserve, handover>>

\* One transaction of ReservesSetupHelper. Stable borrowing is set for the
\* reserves that can be borrowed only.
ConfigureReserves(s, i) ==
  /\ s.op = "configureReserves"
  /\ reserve' = [r \in Symbols |->
       IF r \in ToSet(Chunk(s.val))
         THEN [reserve[r] EXCEPT
                 !.collateral = Wants("collateral", r),
                 !.borrowing = @ \/ Wants("borrowing", r),
                 !.stable = IF Wants("borrowing", r) THEN Wants("stable", r) ELSE @,
                 !.cap = Edition]
         ELSE reserve[r]]
  /\ proc' = [proc EXCEPT !.todo = Rest(s.val), !.pc = IF Rest(s.val) = <<>> THEN i + 1 ELSE i]
  /\ UNCHANGED <<records, initialized, slots, owner, acl, handover>>

\* The distributors share one record: that of another aToken is not found
\* again, and an aToken that had one is given a new one.
DeployDistributor(s, i) ==
  /\ s.op = "distributor"
  /\ records' = {id \in records : id[1] # "NativeYieldDistribute"} \cup {s.id}
  /\ reserve' = IF s.id \notin records /\ reserve[s.val].distributor = "current"
                  THEN [reserve EXCEPT ![s.val].distributor = "older"] ELSE reserve
  /\ GoTo(i + 1)
  /\ UNCHANGED <<initialized, slots, owner, acl, handover>>

BeginHandover(s, i) ==
  /\ s.op = "handover"
  /\ handover' = "repayAdapter"
  /\ GoTo(i)
  /\ UNCHANGED <<records, chain>>

Renounce(s, i) ==
  /\ s.op = "renounce"
  /\ acl' = Renounced
  /\ GoTo(i + 1)
  /\ UNCHANGED <<records, initialized, slots, owner, reserve, handover>>

HandOne(s, i) ==
  /\ s.op = "handOne"
  /\ owner' = [owner EXCEPT ![s.id] = market.multisig]
  /\ GoTo(i + 1)
  /\ UNCHANGED <<records, initialized, slots, acl, reserve, handover>>

Perform(s, i) ==
  \/ DeployContracts(s, i) \/ InitializeContract(s, i) \/ SetSlot(s, i) \/ SaveRecords(s, i)
  \/ TransferToDeployer(s, i) \/ GrantToDeployer(s, i) \/ Pass(s, i) \/ AssignLocals(s, i)
  \/ ConfigureReserve(s, i) \/ ListReserves(s, i) \/ MakeSetupHelperRiskAdmin(s, i)
  \/ ConfigureReserves(s, i) \/ DeployDistributor(s, i) \/ BeginHandover(s, i) \/ Renounce(s, i)
  \/ HandOne(s, i)

\* The script is at its end: it is recorded if it returns true.
EndScript ==
  /\ proc' = [Idle EXCEPT !.queue = Tail(proc.queue)]
  /\ finished' = finished \cup ({ThisScript} \cap Scripts)
  /\ executed' = IF ReturnsTrue(ThisScript) THEN executed \cup {ThisScript} ELSE executed
  /\ UNCHANGED <<market, records, chain, handover, crashes>>

\* The next step that is not passed over by the test before it.
StepDue(steps) ==
  LET due == {i \in proc.pc..Len(steps) : steps[i].when \/ ~steps[i].needs}
  IN CHOOSE i \in due \cup {Len(steps) + 1} : \A j \in due : i <= j

ScriptStep ==
  /\ Running /\ handover = "none"
  /\ \E steps \in {StepsOf(ThisScript)} : \E due \in {StepDue(steps)} :
       IF due > Len(steps)
         THEN EndScript
         ELSE /\ IF steps[due].needs /\ ~Refused(steps[due])
                   THEN Perform(steps[due], due)
                   ELSE Stopped /\ UNCHANGED <<records, chain>>
              /\ UNCHANGED <<market, executed, history>>

ProcessStep == ScriptStep \/ HandoverStep

---------------------------------------------------------------------------
(* The operator, crashes and users. *)

Unfinished == {i \in 1..Len(ScriptPaths) : ScriptPaths[i] \notin finished}
FirstUnfinished == ScriptPaths[CHOOSE i \in Unfinished : \A j \in Unfinished : i <= j]
Complete == Scripts \subseteq finished /\ ~Running

Begin(scripts) ==
  /\ ~Running
  /\ proc' = [Idle EXCEPT !.queue = scripts]
  /\ UNCHANGED <<market, disk, chain, handover, history>>

\* The operator deploys in order: a command is for the first script that is not
\* there yet, and those it depends on.
Deploying(command) ==
  /\ Unfinished # {}
  /\ FirstUnfinished \in ToSet(Schedule[command])
  /\ Begin(ToRun(command))

\* Tasks are for a market that has its contracts and its reserves.
RunTask(task) ==
  /\ Scripts \ {"after_deploy"} \subseteq finished
  /\ task \in market.commands
  /\ Begin(<<task>>)

\* The process dies: what it had in memory is gone.
Crash ==
  /\ Running
  /\ crashes < MaxCrashes
  /\ Stopped
  /\ crashes' = crashes + 1
  /\ UNCHANGED <<market, disk, chain, finished>>

\* The reserves that a supply changes the deployment of: a first ceiling, or a
\* threshold of zero, is refused to a reserve with suppliers.
SupplyMatters(s) ==
  \/ Wants("ceiling", s) /\ ~reserve[s].ceiling
  \/ ~Wants("collateral", s)

\* initReserves leaves a reserve open: users do not wait for its configuration.
Supply(s) ==
  /\ reserve[s].listed /\ reserve[s].suppliers # "some" /\ SupplyMatters(s)
  /\ reserve' = [reserve EXCEPT ![s].suppliers = "some"]
  /\ UNCHANGED <<market, disk, initialized, slots, owner, acl, proc, handover, history>>

\* The last supplier of a reserve takes out all it has.
Withdraw(s) ==
  /\ reserve[s].suppliers = "some"
  /\ reserve' = [reserve EXCEPT ![s].suppliers = "left"]
  /\ UNCHANGED <<market, disk, initialized, slots, owner, acl, proc, handover, history>>

\* The market file gains assets, strategies and caps once the market is there.
MarketFileGrows ==
  /\ Complete /\ ~market.extended /\ market.later # {}
  /\ market' = [market EXCEPT !.extended = TRUE]
  /\ UNCHANGED <<disk, chain, proc, handover, history>>

Init ==
  /\ market \in Markets
  /\ records = IF market.paraswap
                 THEN {<<"ParaSwapRepayAdapter">>, <<"ParaSwapLiquiditySwapAdapter">>} ELSE {}
  /\ executed = {} /\ initialized = {}
  /\ slots = [x \in Slots |-> Nothing]
  /\ owner = [x \in Ownables |-> IF x \in records THEN Deployer ELSE Nobody]
  /\ acl = [r \in Roles |-> {}]
  /\ reserve = [s \in Symbols |-> NewReserve]
  /\ proc = Idle /\ handover = "none"
  /\ finished = {} /\ crashes = 0

Next ==
  \/ ProcessStep
  \/ \E command \in DeployCommands : Deploying(command)
  \/ \E task \in TaskCommands : RunTask(task)
  \/ Crash
  \/ \E s \in ToSet(market.symbols) : Supply(s) \/ Withdraw(s)
  \/ MarketFileGrows

\* The tag an operator resumes a deployment with: the one that names the script
\* that is missing, where it has one of its own.
ResumeWith(c) ==
  CASE c = "acl"            -> "acl"
    [] c = "deploy_oracles" -> "oracle"
    [] c = "init_oracles"   -> "oracles"
    [] c = "init_pool"      -> "init-pool"
    [] c = "incentives"     -> "IncentivesProxy"
    [] c = "tokens"         -> "tokens"
    [] c = "init_reserves"  -> "init-reserves"
    [] c = "init_periphery" -> "init-periphery"
    [] c \in {"gateway", "wallet_balance", "ui_helpers", "paraswap", "pool_wrapper",
              "native_yield"} -> "periphery-post"
    [] c = "after_deploy"   -> "after-deploy"
    [] OTHER                -> "all"
Resume ==
  /\ Unfinished # {}
  /\ \E command \in {ResumeWith(FirstUnfinished)} : Deploying(command)

\* The process goes on while it lives; an operator whose deployment keeps
\* stopping comes to resume it with the tag of the missing script.
Spec == Init /\ [][Next]_vars /\ WF_vars(ProcessStep) /\ SF_vars(Resume)

---------------------------------------------------------------------------
(* Properties *)

TypeOK ==
  /\ market \in Markets \cup {[m EXCEPT !.extended = TRUE] : m \in Markets}
  /\ executed \subseteq finished /\ finished \subseteq Scripts
  /\ DOMAIN slots = Slots /\ DOMAIN owner = Ownables /\ DOMAIN acl = Roles /\ DOMAIN reserve = Symbols
  /\ DOMAIN proc = {"queue", "pc", "todo", "any"}
  /\ crashes \in 0..MaxCrashes

\* Nobody gives up what the multisig does not hold yet: the handover only runs
\* where there is a multisig, and takes a role from the deployer only when the
\* multisig has it. What has an owner has a record.
HandoverInOrder ==
  /\ handover # "none" => Running /\ market.multisig # Nobody
  /\ handover = "removeEmergencyAdmin" => market.multisig \in acl["EMERGENCY_ADMIN"]
  /\ handover = "removePoolAdmin" => market.multisig \in acl["POOL_ADMIN"]
  /\ handover = "revokeDefaultAdmin" => market.multisig \in acl["DEFAULT_ADMIN"]
  /\ \A id \in Ownables : owner[id] # Nobody => id \in records

\* The state of a deployment: scripts recorded as executed have run to their
\* end, and the handover is in order, in every interleaving with crashes.
DeploymentInv == TypeOK /\ HandoverInOrder

\* Whoever runs, crashes or retries, a contract that has an owner keeps one, a
\* role that has members is never emptied (but the temporary one of
\* ReservesSetupHelper), and nothing the multisig owns goes back.
NeverOrphaned ==
  [][/\ \A id \in Ownables : owner[id] # Nobody => owner'[id] # Nobody
     /\ \A r \in Roles \ {"RISK_ADMIN"} : acl[r] # {} => acl'[r] # {}
     /\ \A id \in Ownables : owner[id] = Multisig => owner'[id] = Multisig]_vars

\* The records of the proxies, which every later script looks up, are there
\* when the script that makes them is done, although the chain is what it tests
\* and a crash can fall between the two.
RecordsFollowChain ==
  /\ "init_pool" \in finished =>
       /\ slots[<<"POOL">>] # Nothing /\ GetPool \in records
       /\ slots[<<"POOL_CONFIGURATOR">>] # Nothing /\ GetPoolConfiguratorProxy \in records
  /\ "incentives" \in finished =>
       slots[<<"INCENTIVES_CONTROLLER">>] # Nothing /\ GetIncentivesV2 \in records

FirstEdition == {s \in ToSet(market.symbols) : s \notin market.later}

\* When init-reserves is done every reserve of the market file is listed and
\* has its collateral configuration, however many runs that took and whichever
\* transaction the earlier ones stopped at.
ListedAsDeclared ==
  "init_reserves" \in finished =>
    \A s \in FirstEdition :
      /\ reserve[s].listed
      /\ ~Wants("noLTV", s) => reserve[s].collateral = Wants("collateral", s)
                               /\ reserve[s].cap # 0

\* When after-deploy is done the reserves have the stable borrowing, ceiling,
\* isolation, fee and category of the market file, and what the testnet's last
\* task makes unborrowable was borrowable at no stable rate.
AppliedAsDeclared ==
  "after_deploy" \in finished =>
    /\ \A s \in FirstEdition :
         /\ reserve[s].stable = Wants("stable", s)
         /\ reserve[s].stable => reserve[s].borrowing
         /\ \A f \in {"ceiling", "isolation", "fee"} : reserve[s][f] = Wants(f, s)
         /\ reserve[s].distributor # "none"
    /\ \A i \in 1..Len(market.emodes) : \A s \in ToSet(market.emodes[i].assets) :
         reserve[s].category = market.emodes[i].id

\* When after-deploy is done on a market that is handed over, each row of the
\* roles report is as it must be; the emergency admin's is, where the network
\* has no emergency admin besides the multisig.
HandedOver ==
  "after_deploy" \in finished /\ market.transfer =>
    \A row \in DOMAIN RolesReport :
      RolesReport[row] \/ (row = "emergencyAdmin" /\ market.guardian # market.multisig)

\* A reserve that the market file gained and that may be listed with another
\* implementation than the others have: its kind of aToken is one that an upgrade
\* does not record anew, or an upgrade may record its aToken and then, asked for
\* another revision, leave the others as they are.
MayDiffer(s) ==
  /\ s \in market.later
  /\ \/ market.params[s].aTokenImpl # "AToken"
     \/ "upgrade-atokens-and-review --revision other" \in market.commands

\* Without a crash, whenever no command is running, the reserves have the same
\* implementation of their aToken, those of before an upgrade and those listed after
\* it, but for the ones that the helper and the upgrade may leave with another; and
\* that is never one that the market had from the start.
UniformRevision ==
  ~Running /\ crashes = 0 =>
    \A r, s \in Listed :
      reserve[r].revision # reserve[s].revision => MayDiffer(r) \/ MayDiffer(s)

\* Unless the process dies, or a supply makes its transaction revert, the
\* helper contract has its role no longer than the command that gave it.
HelperLeaves ==
  /\ ~Running /\ crashes = 0
  /\ \A s \in Symbols : reserve[s].suppliers # "none" => Wants("collateral", s)
  => SetupHelper \notin acl["RISK_ADMIN"]

\* The calls that succeed once, and what the script that makes them is. A
\* script that stopped behind one of them cannot be run again.
OneOffs(c) ==
  CASE c = "treasury"   -> {<<"Treasury-Implementation">>, <<"TreasuryProxy">>}
    [] c \in {"pool_impl", "l2_pool_impl", "configurator"} ->
         {PoolImpl, <<"PoolConfigurator-Implementation">>}
    [] c = "incentives" -> {<<"IncentivesV2-Implementation">>}
    [] c = "tokens"     -> {<<"AToken">>, <<"DelegationAwareAToken">>,
                            <<"StableDebtToken">>, <<"VariableDebtToken">>}
    [] OTHER            -> {}
Spent ==
  \/ \E c \in Scripts \ finished : OneOffs(c) \cap initialized # {}
  \/ "addresses_provider" \notin finished /\ slots[<<"REGISTERED">>] # Nothing

Misconfigured ==
  IsProductionMarket /\ market.assets # ToSet(market.symbols)

\* Users have supplied a reserve before the transaction that needs it empty.
SuppliedEarly ==
  \E s \in FirstEdition :
    /\ reserve[s].suppliers = "some"
    /\ \/ "after_deploy" \notin finished /\ Wants("ceiling", s) /\ ~reserve[s].ceiling
       \/ "init_reserves" \notin finished /\ ~Wants("collateral", s) /\ ~Wants("noLTV", s)

\* The handover, or its report, has no one or nothing to work with, the
\* provider left before the script was done, or the deployer has no more the
\* role that the script's other tasks need.
HandoverBlocked ==
  /\ market.transfer /\ "after_deploy" \notin finished
  /\ \/ market.multisig = Nobody \/ market.guardian = Nobody \/ ~market.paraswap
     \/ owner[GetPoolAddressesProvider] = Multisig
     \/ "acl" \in finished /\ ~DeployerMay("POOL_ADMIN")

\* Retrying does not help a deployment that stopped here.
Wedged == ~Running /\ (Spent \/ Misconfigured \/ HandoverBlocked)

\* A deployment that keeps being resumed comes to its end, or to a state that
\* is one of the above, once the users who supplied early have withdrawn and stay
\* away: whatever else a crash or a supply interrupts can be resumed.
Recovers == <>[]~SuppliedEarly => <>(Complete \/ Wedged)

\* And one of the above it is for good: no command of the repository completes such
\* a deployment.
WedgedForever == [](Wedged => []~Complete)

\* "This market already transferred the ownership to desired multisig" is what
\* transfer-protocol-ownership prints when the provider is the multisig's: then
\* the deployer has none of what the task hands over.
AlreadyTransferred ==
  ~Running /\ owner[GetPoolAddressesProvider] = Multisig =>
    /\ \A r \in Roles : Deployer \notin acl[r]
    /\ \A id \in HandoverRecords \cap Ownables : owner[id] # Deployer
=============================================================================
