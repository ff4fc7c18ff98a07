----------------------- MODULE MarketDeploymentProofs -----------------------
(* That no step, crash or retry of a deployment leaves a contract or a role *)
(* without a holder, or takes back what the multisig has, for every market, *)
(* every number of crashes, and every set of commands and tasks.            *)
(*                                                                          *)
(* Nothing of this depends on which steps a script is made of: a script may *)
(* hold any of the kinds of step, in any order. That the records follow the *)
(* chain, that the helper loses its role, that the reserves get listed and  *)
(* what the set-up gives them, that the market is handed over and that the  *)
(* aTokens keep one implementation do depend on them, and the other parts   *)
(* say what of each they rely on.                                           *)
EXTENDS DeploymentInvariants, DataTheorems, TLAPS

\* A market is handed over to the multisig or to nobody, extended or not.
LEMMA MarketMultisig ==
  ASSUME TypeOK PROVE market.multisig \in {Multisig, Nobody}
BY MarketsAssumption DEF TypeOK

\* A market has its reserves, and what it asks of each, extended or not.
LEMMA MarketReserves ==
  ASSUME TypeOK
  PROVE  /\ market.symbols \in Seq(Symbols)
         /\ \A s \in Symbols : market.params[s] \in ReserveParams
         /\ {"symbols", "later", "extended", "params", "multisig", "transfer", "commands"}
              \subseteq DOMAIN market
<1>1. CASE market \in Markets
  BY <1>1, MarketsAssumption
<1>2. ASSUME NEW m \in Markets, market = [m EXCEPT !.extended = TRUE]
      PROVE  market.symbols = m.symbols /\ market.params = m.params /\ DOMAIN market = DOMAIN m
  <2>1. {"symbols", "params"} \subseteq DOMAIN m
    BY MarketsAssumption
  <2> QED BY <1>2, <2>1
<1> QED BY <1>1, <1>2, MarketsAssumption DEF TypeOK

\* The names of a market file are symbols.
LEMMA MarketSymbol ==
  ASSUME NEW i \in 1..Len(market.symbols), TypeOK
  PROVE  market.symbols[i] \in Symbols /\ market.symbols[i] \in ToSet(market.symbols)
BY MarketReserves DEF ToSet

\* A market file is extended once, and stays what it was.
LEMMA ExtendedMarket ==
  ASSUME TypeOK, market' = [market EXCEPT !.extended = TRUE]
  PROVE  /\ market' \in {[m EXCEPT !.extended = TRUE] : m \in Markets}
         /\ market'.multisig = market.multisig
<1>1. CASE market \in Markets
  BY <1>1, MarketsAssumption
<1>2. ASSUME NEW m \in Markets, market = [m EXCEPT !.extended = TRUE]
      PROVE  market' = market
  <2>1. {"multisig", "extended"} \subseteq DOMAIN m
    BY MarketsAssumption
  <2> QED BY <1>2, <2>1
<1>3. "multisig" \in DOMAIN market
  BY MarketsAssumption DEF TypeOK
<1> QED BY <1>1, <1>2, <1>3 DEF TypeOK

\* Every script that is recorded as executed is one of the deployment's.
LEMMA RecordedScripts == ASSUME NEW c, ReturnsTrue(c) PROVE c \in Scripts
<1>1. \A i \in 1..25 : ScriptPaths[i] \in Scripts
  BY DEF Scripts, ScriptPaths, ToSet
<1>2. c \in {"aggregators", "init_reserves", "registry", "libraries", "treasury",
             "addresses_provider", "configurator", "acl", "deploy_oracles", "init_oracles",
             "init_pool", "incentives", "tokens", "init_periphery", "paraswap"}
  BY DEF ReturnsTrue
<1>3. /\ ScriptPaths[2] = "registry" /\ ScriptPaths[3] = "libraries"
      /\ ScriptPaths[4] = "treasury" /\ ScriptPaths[5] = "addresses_provider"
      /\ ScriptPaths[7] = "aggregators" /\ ScriptPaths[10] = "configurator"
      /\ ScriptPaths[11] = "acl" /\ ScriptPaths[12] = "deploy_oracles"
      /\ ScriptPaths[13] = "init_oracles" /\ ScriptPaths[14] = "init_pool"
      /\ ScriptPaths[15] = "incentives" /\ ScriptPaths[16] = "tokens"
      /\ ScriptPaths[17] = "init_reserves" /\ ScriptPaths[18] = "init_periphery"
      /\ ScriptPaths[22] = "paraswap"
  BY DEF ScriptPaths
<1> QED BY <1>1, <1>2, <1>3

---------------------------------------------------------------------------
(* The steps of a script *)

\* What a step that is not refused may rely on.
LEMMA NotRefused ==
  ASSUME NEW s, ~Refused(s)
  PROVE  /\ s.op = "transfer" => owner[s.id] = Deployer
         /\ s.op = "handOne"  => owner[s.id] = Deployer /\ market.multisig # Nobody
         /\ s.op = "handover" => market.multisig # Nobody
BY DEF Refused, HandoverExits

\* A contract that is made had no owner; it has the deployer.
LEMMA DeployKeeps ==
  ASSUME DeploymentInv, handover = "none", NEW s, NEW i, DeployContracts(s, i),
         UNCHANGED <<market, executed, history>>
  PROVE  DeploymentInv' /\ Keeps
<1>1. \A id \in Ownables : owner'[id] = IF id \in s.id \ records THEN Deployer ELSE owner[id]
  BY DEF DeployContracts
<1>2. DOMAIN owner' = Ownables /\ DOMAIN acl' = Roles /\ \A r \in Roles : acl[r] \subseteq acl'[r]
  BY DEF DeployContracts, DeploymentInv, TypeOK
<1>3. TypeOK'
  BY <1>2 DEF DeployContracts, DeploymentInv, TypeOK, GoTo, history
<1>4. HandoverInOrder'
  BY <1>1 DEF DeployContracts, DeploymentInv, HandoverInOrder
<1>5. Keeps
  BY <1>1, <1>2, AccountsAssumption DEF DeploymentInv, HandoverInOrder, Keeps
<1> QED BY <1>3, <1>4, <1>5 DEF DeploymentInv

\* A contract is only taken from the deployer.
LEMMA OwnerKeeps ==
  ASSUME DeploymentInv, handover = "none", NEW s, NEW i, ~Refused(s),
         TransferToDeployer(s, i) \/ HandOne(s, i),
         UNCHANGED <<market, executed, history>>
  PROVE  DeploymentInv' /\ Keeps
<1>1. owner[s.id] = Deployer
  BY NotRefused DEF TransferToDeployer, HandOne
<1>2. PICK new \in {Deployer, market.multisig} :
        /\ owner' = [owner EXCEPT ![s.id] = new]
        /\ new # Nobody
  BY NotRefused, AccountsAssumption DEF TransferToDeployer, HandOne
<1>3. /\ UNCHANGED <<market, records, executed, slots, acl, reserve, handover, finished, crashes>>
      /\ DOMAIN proc' = DOMAIN proc
  BY DEF TransferToDeployer, HandOne, GoTo, history
<1>4. DOMAIN owner = Ownables /\ DOMAIN owner' = Ownables
  BY <1>2 DEF DeploymentInv, TypeOK
<1>5. \A id \in Ownables : owner'[id] = IF id = s.id THEN new ELSE owner[id]
  BY <1>2, <1>4
<1>6. TypeOK'
  BY <1>3, <1>4 DEF DeploymentInv, TypeOK
<1>7. HandoverInOrder'
  BY <1>1, <1>3, <1>5, AccountsAssumption DEF DeploymentInv, HandoverInOrder
<1>8. Keeps
  BY <1>1, <1>2, <1>3, <1>5, AccountsAssumption DEF Keeps
<1> QED BY <1>6, <1>7, <1>8 DEF DeploymentInv

\* The roles only lose the setup helper, and a deployer who shares its role.
LEMMA RolesKeep ==
  ASSUME DeploymentInv, handover = "none", NEW s, NEW i,
         GrantToDeployer(s, i) \/ MakeSetupHelperRiskAdmin(s, i) \/ Renounce(s, i),
         UNCHANGED <<market, executed, history>>
  PROVE  DeploymentInv' /\ Keeps
<1>1. /\ UNCHANGED <<market, records, executed, slots, owner, reserve, handover,
                     finished, crashes>>
      /\ DOMAIN proc' = DOMAIN proc
  BY DEF GrantToDeployer, MakeSetupHelperRiskAdmin, Renounce, GoTo, history
<1>2. DOMAIN acl = Roles
  BY DEF DeploymentInv, TypeOK
<1>3. DOMAIN acl' = Roles /\ \A r \in Roles \ {"RISK_ADMIN"} : acl[r] # {} => acl'[r] # {}
  <2>1. CASE GrantToDeployer(s, i)
    BY <1>2, <2>1 DEF GrantToDeployer
  <2>2. CASE MakeSetupHelperRiskAdmin(s, i)
    BY <1>2, <2>2 DEF MakeSetupHelperRiskAdmin
  <2>3. CASE Renounce(s, i)
    <3>1. CASE {Deployer, market.multisig} \subseteq acl["POOL_ADMIN"]
      <4>1. market.multisig # Deployer
        BY MarketMultisig, AccountsAssumption DEF DeploymentInv
      <4>2. acl' = [acl EXCEPT !["POOL_ADMIN"] = acl["POOL_ADMIN"] \ {Deployer}]
        BY <2>3, <3>1 DEF Renounce, Renounced
      <4>3. market.multisig \in acl'["POOL_ADMIN"]
        BY <1>2, <3>1, <4>1, <4>2 DEF Roles
      <4>4. \A r \in Roles \ {"POOL_ADMIN"} : acl'[r] = acl[r]
        BY <1>2, <4>2
      <4> QED BY <1>2, <4>2, <4>3, <4>4
    <3>2. CASE ~({Deployer, market.multisig} \subseteq acl["POOL_ADMIN"])
      BY <1>2, <2>3, <3>2 DEF Renounce, Renounced
    <3> QED BY <3>1, <3>2
  <2> QED BY <2>1, <2>2, <2>3
<1>4. TypeOK'
  BY <1>1, <1>3 DEF DeploymentInv, TypeOK
<1>5. HandoverInOrder'
  BY <1>1 DEF DeploymentInv, HandoverInOrder
<1>6. Keeps
  BY <1>1, <1>3 DEF Keeps
<1> QED BY <1>4, <1>5, <1>6 DEF DeploymentInv

\* The other steps leave owners and roles alone, and lose no record but those of
\* the distributors.
LEMMA OthersKeep ==
  ASSUME DeploymentInv, Running, handover = "none", NEW s, NEW i, ~Refused(s),
         \/ InitializeContract(s, i) \/ SetSlot(s, i) \/ SaveRecords(s, i)
         \/ Pass(s, i) \/ AssignLocals(s, i) \/ ConfigureReserve(s, i) \/ ListReserves(s, i)
         \/ ConfigureReserves(s, i) \/ DeployDistributor(s, i) \/ BeginHandover(s, i),
         UNCHANGED <<market, executed, history>>
  PROVE  DeploymentInv' /\ Keeps
<1>1. UNCHANGED <<market, executed, owner, acl, finished, crashes>>
  BY DEF InitializeContract, SetSlot, SaveRecords, Pass, AssignLocals, ConfigureReserve,
         ListReserves, ConfigureReserves, DeployDistributor, BeginHandover, chain, history
<1>2. DOMAIN proc' = DOMAIN proc /\ proc'.queue = proc.queue
  BY DEF InitializeContract, SetSlot, SaveRecords, Pass, AssignLocals, ConfigureReserve,
         ListReserves, ConfigureReserves, DeployDistributor, BeginHandover, GoTo,
         DeploymentInv, TypeOK
<1>3. DOMAIN slots' = DOMAIN slots
  BY DEF InitializeContract, SetSlot, SaveRecords, Pass, AssignLocals, ConfigureReserve,
         ListReserves, ConfigureReserves, DeployDistributor, BeginHandover, chain
<1>4. DOMAIN reserve' = DOMAIN reserve
  BY DEF InitializeContract, SetSlot, SaveRecords, Pass, AssignLocals, ConfigureReserve,
         ListReserves, ConfigureReserves, DeployDistributor, BeginHandover, chain,
         DeploymentInv, TypeOK
<1>5. \A id \in Ownables : id \in records => id \in records'
  <2>1. \A id \in Ownables : id[1] # "NativeYieldDistribute"
    BY DEF Ownables
  <2> QED
    BY <2>1 DEF InitializeContract, SetSlot, SaveRecords, Pass, AssignLocals, ConfigureReserve,
                ListReserves, ConfigureReserves, DeployDistributor, BeginHandover
<1>6. \/ handover' = "none"
      \/ handover' = "repayAdapter" /\ market.multisig # Nobody
  BY NotRefused DEF InitializeContract, SetSlot, SaveRecords, Pass, AssignLocals,
     ConfigureReserve, ListReserves, ConfigureReserves, DeployDistributor, BeginHandover
<1>7. TypeOK'
  BY <1>1, <1>2, <1>3, <1>4 DEF DeploymentInv, TypeOK
<1>8. HandoverInOrder'
  BY <1>1, <1>2, <1>5, <1>6 DEF DeploymentInv, HandoverInOrder, Running
<1>9. Keeps
  BY <1>1 DEF Keeps
<1> QED BY <1>7, <1>8, <1>9 DEF DeploymentInv

\* A process that stops, or starts on other scripts, changes nothing else.
LEMMA RestKeeps ==
  ASSUME DeploymentInv, UNCHANGED <<market, records, owner, acl>>,
         handover' = "none", DOMAIN proc' = {"queue", "pc", "todo", "any"},
         DOMAIN slots' = Slots, DOMAIN reserve' = Symbols,
         executed' \subseteq finished' /\ finished' \subseteq Scripts,
         crashes' \in 0..MaxCrashes
  PROVE  DeploymentInv' /\ Keeps
BY DEF DeploymentInv, TypeOK, HandoverInOrder, Keeps

LEMMA ScriptStepKeeps ==
  ASSUME DeploymentInv, ScriptStep
  PROVE  DeploymentInv' /\ Keeps
<1>1. Running /\ handover = "none"
  BY DEF ScriptStep
<1>2. PICK steps, due :
        IF due > Len(steps)
          THEN EndScript
          ELSE /\ IF steps[due].needs /\ ~Refused(steps[due])
                    THEN Perform(steps[due], due)
                    ELSE Stopped /\ UNCHANGED <<records, chain>>
               /\ UNCHANGED <<market, executed, history>>
  BY DEF ScriptStep
<1>3. CASE EndScript
  <2>1. executed' \subseteq finished' /\ finished' \subseteq Scripts
    BY <1>3, RecordedScripts DEF EndScript, DeploymentInv, TypeOK
  <2>2. DOMAIN proc' = {"queue", "pc", "todo", "any"}
    BY <1>3 DEF EndScript, Idle
  <2>3. UNCHANGED <<market, records, owner, acl, slots, reserve, handover, crashes>>
    BY <1>3 DEF EndScript, chain
  <2> QED BY <1>1, <2>1, <2>2, <2>3, RestKeeps DEF DeploymentInv, TypeOK
<1>4. CASE Stopped /\ UNCHANGED <<records, chain, market, executed, history>>
  <2>1. DOMAIN proc' = {"queue", "pc", "todo", "any"} /\ handover' = "none"
    BY <1>4 DEF Stopped, Idle
  <2>2. UNCHANGED <<market, records, executed, owner, acl, slots, reserve, finished, crashes>>
    BY <1>4 DEF chain, history
  <2> QED BY <2>1, <2>2, RestKeeps DEF DeploymentInv, TypeOK
<1>5. ASSUME NEW s, ~Refused(s), Perform(s, due), UNCHANGED <<market, executed, history>>
      PROVE  DeploymentInv' /\ Keeps
  BY <1>1, <1>5, DeployKeeps, OwnerKeeps, RolesKeep, OthersKeep DEF Perform
<1> QED BY <1>2, <1>3, <1>4, <1>5

---------------------------------------------------------------------------
(* The steps of the handover *)

\* A contract that is handed over was the deployer's.
LEMMA HandOverKeeps ==
  ASSUME DeploymentInv, handover # "none", NEW id \in Ownables,
         NEW next \in {"swapAdapter", "addEmergencyAdmin", "registry", "gateway",
                       "emissionManager", "grantDefaultAdmin"},
         HandOver(id, next), UNCHANGED <<market, disk, initialized, reserve, history>>
  PROVE  DeploymentInv' /\ Keeps
<1>1. /\ UNCHANGED <<market, records, executed, slots, acl, reserve, proc, finished, crashes>>
      /\ handover' = next
  BY DEF HandOver, disk, history
<1>2. market.multisig = Multisig /\ Running
  BY MarketMultisig DEF DeploymentInv, HandoverInOrder
<1>3. /\ DOMAIN owner' = Ownables
      /\ \A x \in Ownables :
           owner'[x] = IF x = id /\ owner[id] = Deployer THEN Multisig ELSE owner[x]
  BY <1>2 DEF HandOver, DeploymentInv, TypeOK
<1>4. TypeOK'
  BY <1>1, <1>3 DEF DeploymentInv, TypeOK
<1>5. HandoverInOrder'
  BY <1>1, <1>2, <1>3, AccountsAssumption DEF DeploymentInv, HandoverInOrder, Running
<1>6. Keeps
  BY <1>1, <1>3, AccountsAssumption DEF Keeps
<1> QED BY <1>4, <1>5, <1>6 DEF DeploymentInv

\* A role that is about to be taken from the deployer is the multisig's.
LEMMA GiveRoleKeeps ==
  ASSUME DeploymentInv, handover # "none", NEW role, NEW take, NEW next,
         <<role, take>> \in {<<"EMERGENCY_ADMIN", "removeEmergencyAdmin">>,
                             <<"POOL_ADMIN", "removePoolAdmin">>,
                             <<"DEFAULT_ADMIN", "revokeDefaultAdmin">>},
         next \in {"addPoolAdmin", "setACLAdmin", "results"},
         GiveRole(role, take, next), UNCHANGED <<market, disk, initialized, reserve, history>>
  PROVE  DeploymentInv' /\ Keeps
<1>1. UNCHANGED <<market, records, executed, slots, owner, reserve, proc, finished, crashes>>
  BY DEF GiveRole, disk, history
<1>2. role \in Roles /\ DOMAIN acl = Roles
  BY DEF Roles, DeploymentInv, TypeOK
<1>3. DOMAIN acl' = Roles /\ \A r \in Roles : acl[r] \subseteq acl'[r]
  BY <1>2 DEF GiveRole
<1>4. \/ handover' = next
      \/ handover' = take /\ market.multisig \in acl'[role]
  BY <1>2 DEF GiveRole
<1>5. TypeOK'
  BY <1>1, <1>3 DEF DeploymentInv, TypeOK
<1>6. HandoverInOrder'
  BY <1>1, <1>4 DEF DeploymentInv, HandoverInOrder, Running
<1>7. Keeps
  BY <1>1, <1>3 DEF Keeps
<1> QED BY <1>5, <1>6, <1>7 DEF DeploymentInv

\* The multisig, which is not the deployer, keeps the role that is taken.
LEMMA TakeRoleKeeps ==
  ASSUME DeploymentInv, NEW role \in Roles,
         NEW next \in {"addPoolAdmin", "setACLAdmin", "results"},
         handover # "none", market.multisig \in acl[role],
         TakeRole(role, next), UNCHANGED <<market, disk, initialized, reserve, history>>
  PROVE  DeploymentInv' /\ Keeps
<1>1. /\ UNCHANGED <<market, records, executed, slots, owner, reserve, proc, finished, crashes>>
      /\ handover' = next
  BY DEF TakeRole, disk, history
<1>2. market.multisig # Deployer
  BY MarketMultisig, AccountsAssumption DEF DeploymentInv
<1>3. DOMAIN acl = Roles
  BY DEF DeploymentInv, TypeOK
<1>4. /\ DOMAIN acl' = Roles
      /\ market.multisig \in acl'[role]
      /\ \A r \in Roles : r # role => acl'[r] = acl[r]
  BY <1>2, <1>3 DEF TakeRole
<1>5. TypeOK'
  BY <1>1, <1>4 DEF DeploymentInv, TypeOK
<1>6. HandoverInOrder'
  BY <1>1 DEF DeploymentInv, HandoverInOrder, Running
<1>7. Keeps
  BY <1>1, <1>4 DEF Keeps
<1> QED BY <1>5, <1>6, <1>7 DEF DeploymentInv

LEMMA HandoverStepKeeps ==
  ASSUME DeploymentInv, HandoverStep
  PROVE  DeploymentInv' /\ Keeps
<1> USE DEF HandoverStep
<1>1. CASE TransferAdapters
  <2>1. <<"ParaSwapRepayAdapter">> \in Ownables /\ <<"ParaSwapLiquiditySwapAdapter">> \in Ownables
    BY DEF Ownables
  <2>2. handover # "none"
    BY <1>1 DEF TransferAdapters
  <2> QED BY <1>1, <2>1, <2>2, HandOverKeeps DEF TransferAdapters
<1>2. CASE TransferContracts
  <2>1. {GetPoolAddressesProvider, GetPoolAddressesProviderRegistry, GetWrappedTokenGateway,
         GetEmissionManager} \subseteq Ownables
    BY DEF Ownables, GetPoolAddressesProvider, GetPoolAddressesProviderRegistry,
           GetWrappedTokenGateway, GetEmissionManager
  <2>2. handover # "none"
    BY <1>2 DEF TransferContracts
  <2> QED BY <1>2, <2>1, <2>2, HandOverKeeps DEF TransferContracts
<1>3. CASE TransferAdmins
  <2>1. handover # "none" /\ {"EMERGENCY_ADMIN", "POOL_ADMIN"} \subseteq Roles
    BY <1>3 DEF TransferAdmins, Roles
  <2>2. CASE /\ handover = "addEmergencyAdmin"
             /\ GiveRole("EMERGENCY_ADMIN", "removeEmergencyAdmin", "addPoolAdmin")
    BY <2>1, <2>2, GiveRoleKeeps
  <2>3. CASE handover = "removeEmergencyAdmin" /\ TakeRole("EMERGENCY_ADMIN", "addPoolAdmin")
    <3>1. market.multisig \in acl["EMERGENCY_ADMIN"]
      BY <2>3 DEF DeploymentInv, HandoverInOrder
    <3> QED BY <2>1, <2>3, <3>1, TakeRoleKeeps
  <2>4. CASE handover = "addPoolAdmin" /\ GiveRole("POOL_ADMIN", "removePoolAdmin", "setACLAdmin")
    BY <2>1, <2>4, GiveRoleKeeps
  <2>5. CASE handover = "removePoolAdmin" /\ TakeRole("POOL_ADMIN", "setACLAdmin")
    <3>1. market.multisig \in acl["POOL_ADMIN"]
      BY <2>5 DEF DeploymentInv, HandoverInOrder
    <3> QED BY <2>1, <2>5, <3>1, TakeRoleKeeps
  <2> QED BY <1>3, <2>2, <2>3, <2>4, <2>5 DEF TransferAdmins
<1>4. CASE TransferACLAdmin
  <2>1. /\ UNCHANGED <<market, records, executed, owner, acl, reserve, proc, finished, crashes>>
        /\ handover = "setACLAdmin" /\ handover' = "provider"
    BY <1>4 DEF TransferACLAdmin, disk, history
  <2>2. DOMAIN slots' = DOMAIN slots
    BY <1>4 DEF TransferACLAdmin
  <2>3. TypeOK'
    BY <2>1, <2>2 DEF DeploymentInv, TypeOK
  <2>4. HandoverInOrder'
    BY <2>1 DEF DeploymentInv, HandoverInOrder, Running
  <2>5. Keeps
    BY <2>1 DEF Keeps
  <2> QED BY <2>3, <2>4, <2>5 DEF DeploymentInv
<1>5. CASE TransferDefaultAdmin
  <2>1. handover # "none" /\ "DEFAULT_ADMIN" \in Roles
    BY <1>5 DEF TransferDefaultAdmin, Roles
  <2>2. CASE /\ handover = "grantDefaultAdmin"
             /\ GiveRole("DEFAULT_ADMIN", "revokeDefaultAdmin", "results")
    BY <2>1, <2>2, GiveRoleKeeps
  <2>3. CASE handover = "revokeDefaultAdmin" /\ TakeRole("DEFAULT_ADMIN", "results")
    <3>1. market.multisig \in acl["DEFAULT_ADMIN"]
      BY <2>3 DEF DeploymentInv, HandoverInOrder
    <3> QED BY <2>1, <2>3, <3>1, TakeRoleKeeps
  <2>4. CASE /\ handover = "results" /\ handover' = "none"
             /\ proc' = [proc EXCEPT !.pc = @ + 1]
             /\ UNCHANGED <<owner, acl, slots>>
    <3>1. DOMAIN proc' = {"queue", "pc", "todo", "any"}
      BY <2>4 DEF DeploymentInv, TypeOK
    <3>2. UNCHANGED <<market, records, executed, reserve, finished, crashes>>
      BY DEF disk, history
    <3> QED BY <2>4, <3>1, <3>2, RestKeeps DEF DeploymentInv, TypeOK
  <2> QED BY <1>5, <2>2, <2>3, <2>4 DEF TransferDefaultAdmin
<1> QED BY <1>1, <1>2, <1>3, <1>4, <1>5

---------------------------------------------------------------------------
(* The operator, crashes and users *)

LEMMA BeginKeeps ==
  ASSUME DeploymentInv, NEW scripts, Begin(scripts)
  PROVE  DeploymentInv' /\ Keeps
<1>1. handover = "none"
  BY DEF Begin, DeploymentInv, HandoverInOrder
<1>2. DOMAIN proc' = {"queue", "pc", "todo", "any"}
  BY DEF Begin, Idle
<1>3. UNCHANGED <<market, records, executed, owner, acl, slots, reserve, handover,
                  finished, crashes>>
  BY DEF Begin, disk, chain, history
<1> QED BY <1>1, <1>2, <1>3, RestKeeps DEF DeploymentInv, TypeOK

LEMMA CrashKeeps ==
  ASSUME DeploymentInv, Crash
  PROVE  DeploymentInv' /\ Keeps
<1>1. DOMAIN proc' = {"queue", "pc", "todo", "any"} /\ handover' = "none"
  BY DEF Crash, Stopped, Idle
<1>2. UNCHANGED <<market, records, executed, owner, acl, slots, reserve, finished>>
  BY DEF Crash, disk, chain
<1>3. crashes' \in 0..MaxCrashes
  BY MaxCrashesAssumption DEF Crash, DeploymentInv, TypeOK
<1> QED BY <1>1, <1>2, <1>3, RestKeeps DEF DeploymentInv, TypeOK

\* A user changes what the pool keeps of the suppliers of one reserve, only.
LEMMA VisitOnly ==
  ASSUME NEW s, Visit(s)
  PROVE  /\ UNCHANGED <<market, records, executed, initialized, slots, owner, acl, proc,
                        handover, finished, crashes>>
         /\ \E v \in {"some", "left"} : reserve' = [reserve EXCEPT ![s].suppliers = v]
BY DEF Visit, Supply, Withdraw, disk, history

LEMMA VisitKeeps ==
  ASSUME DeploymentInv, NEW s, Visit(s)
  PROVE  DeploymentInv' /\ Keeps
<1>1. UNCHANGED <<market, records, executed, owner, acl, slots, proc, handover, finished, crashes>>
  BY VisitOnly
<1>2. DOMAIN reserve' = DOMAIN reserve
  BY VisitOnly
<1> QED BY <1>1, <1>2 DEF DeploymentInv, TypeOK, HandoverInOrder, Running, Keeps

LEMMA MarketFileGrowsKeeps ==
  ASSUME DeploymentInv, MarketFileGrows
  PROVE  DeploymentInv' /\ Keeps
<1>1. handover = "none"
  BY DEF MarketFileGrows, Complete, DeploymentInv, HandoverInOrder
<1>2. UNCHANGED <<records, executed, owner, acl, slots, reserve, proc, handover, finished, crashes>>
  BY DEF MarketFileGrows, disk, chain, history
<1>3. market' \in {[m EXCEPT !.extended = TRUE] : m \in Markets}
  BY ExtendedMarket DEF MarketFileGrows, DeploymentInv
<1> QED BY <1>1, <1>2, <1>3 DEF DeploymentInv, TypeOK, HandoverInOrder, Keeps

LEMMA InitOrdered == Init => DeploymentInv
<1> SUFFICES ASSUME Init PROVE DeploymentInv
  OBVIOUS
<1>1. TypeOK
  BY MaxCrashesAssumption DEF Init, TypeOK, Idle
<1>2. HandoverInOrder
  BY DEF Init, HandoverInOrder
<1> QED BY <1>1, <1>2 DEF DeploymentInv

LEMMA NextKeeps ==
  ASSUME DeploymentInv, [Next]_vars
  PROVE  DeploymentInv' /\ [Keeps]_vars
<1>1. CASE ProcessStep
  BY <1>1, ScriptStepKeeps, HandoverStepKeeps DEF ProcessStep
<1>2. ASSUME NEW command \in DeployCommands, Deploying(command)
      PROVE  DeploymentInv' /\ Keeps
  BY <1>2, BeginKeeps DEF Deploying
<1>3. ASSUME NEW task \in TaskCommands, RunTask(task)
      PROVE  DeploymentInv' /\ Keeps
  BY <1>3, BeginKeeps DEF RunTask
<1>4. CASE UNCHANGED vars
  BY <1>4 DEF vars, disk, chain, history, DeploymentInv, TypeOK, HandoverInOrder, Running
<1> QED
  BY <1>1, <1>2, <1>3, <1>4, CrashKeeps, VisitKeeps, MarketFileGrowsKeeps DEF Next, Visit

\* The scripts recorded as executed have run to their end, and the handover
\* takes nothing from the deployer that the multisig does not hold.
THEOREM DeploymentCorrect == Spec => []DeploymentInv
<1>1. DeploymentInv /\ [Next]_vars => DeploymentInv'
  BY NextKeeps
<1> QED BY InitOrdered, <1>1, PTL DEF Spec

\* No contract or role is left without a holder, and what the multisig owns
\* stays its own.
THEOREM NothingOrphaned == Spec => NeverOrphaned
<1>1. DeploymentInv /\ [Next]_vars => [Keeps]_vars
  BY NextKeeps
<1>2. Spec => [][Keeps]_vars
  BY DeploymentCorrect, <1>1, PTL DEF Spec
<1> QED BY <1>2 DEF NeverOrphaned, Keeps

---------------------------------------------------------------------------
(* The steps that scripts are made of *)

\* Steps of a set of sound ones are sound.
LEMMA SoundSeq ==
  ASSUME NEW seq, NEW ops, NEW S, seq \in Seq(S), \A s \in S : Sound(s, ops)
  PROVE  SoundSteps(seq, ops)
BY DEF SoundSteps

\* Each step of a sound sequence is sound, and there are finitely many.
LEMMA SoundEach ==
  ASSUME NEW seq, NEW ops, SoundSteps(seq, ops)
  PROVE  /\ Len(seq) \in Nat
         /\ \A i \in 1..Len(seq) : Sound(seq[i], ops)
BY DEF SoundSteps

\* Sound steps followed by sound steps.
LEMMA SoundBoth ==
  ASSUME NEW s, NEW t, NEW ops, SoundSteps(s, ops), SoundSteps(t, ops)
  PROVE  SoundSteps(s \o t, ops)
<1>1. PICK S : s \in Seq(S) /\ \A x \in S : Sound(x, ops)
  BY DEF SoundSteps
<1>2. PICK T : t \in Seq(T) /\ \A x \in T : Sound(x, ops)
  BY DEF SoundSteps
<1>3. s \in Seq(S \cup T) /\ t \in Seq(S \cup T)
  BY <1>1, <1>2
<1>4. s \o t \in Seq(S \cup T)
  BY <1>3
<1>5. \A x \in S \cup T : Sound(x, ops)
  BY <1>1, <1>2
<1> QED BY <1>4, <1>5 DEF SoundSteps

\* No steps are sound.
LEMMA SoundNone == ASSUME NEW ops PROVE SoundSteps(<<>>, ops)
<1> DEFINE seq == <<>>
           S == {}
<1>1. seq \in Seq(S) /\ \A x \in S : Sound(x, ops)
  OBVIOUS
<1> HIDE DEF seq, S
<1>2. SoundSteps(seq, ops)
  BY <1>1, SoundSeq
<1> QED BY <1>2 DEF seq

\* One sound step.
LEMMA SoundOne == ASSUME NEW s, NEW ops, Sound(s, ops) PROVE SoundSteps(<<s>>, ops)
<1> DEFINE seq == <<s>>
           S == {s}
<1>1. seq \in Seq(S) /\ \A x \in S : Sound(x, ops)
  OBVIOUS
<1> HIDE DEF seq, S
<1>2. SoundSteps(seq, ops)
  BY <1>1, SoundSeq
<1> QED BY <1>2 DEF seq

\* Two.
LEMMA SoundTwo ==
  ASSUME NEW s, NEW t, NEW ops, Sound(s, ops), Sound(t, ops)
  PROVE  SoundSteps(<<s, t>>, ops)
<1> DEFINE seq == <<s, t>>
           S == {s, t}
<1>1. seq \in Seq(S) /\ \A x \in S : Sound(x, ops)
  OBVIOUS
<1> HIDE DEF seq, S
<1>2. SoundSteps(seq, ops)
  BY <1>1, SoundSeq
<1> QED BY <1>2 DEF seq

\* Three.
LEMMA SoundThree ==
  ASSUME NEW r, NEW s, NEW t, NEW ops,
         Sound(r, ops), Sound(s, ops), Sound(t, ops)
  PROVE  SoundSteps(<<r, s, t>>, ops)
<1> DEFINE seq == <<r, s, t>>
           S == {r, s, t}
<1>1. seq \in Seq(S) /\ \A x \in S : Sound(x, ops)
  OBVIOUS
<1> HIDE DEF seq, S
<1>2. SoundSteps(seq, ops)
  BY <1>1, SoundSeq
<1> QED BY <1>2 DEF seq

\* Four.
LEMMA SoundFour ==
  ASSUME NEW q, NEW r, NEW s, NEW t, NEW ops,
         Sound(q, ops), Sound(r, ops), Sound(s, ops), Sound(t, ops)
  PROVE  SoundSteps(<<q, r, s, t>>, ops)
<1>1. <<q, r, s, t>> = <<q, r>> \o <<s, t>>
  OBVIOUS
<1>2. SoundSteps(<<q, r>>, ops) /\ SoundSteps(<<s, t>>, ops)
  BY SoundTwo, SoundTwo
<1> QED BY <1>1, <1>2, SoundBoth

\* Six.
LEMMA SoundSix ==
  ASSUME NEW o, NEW p, NEW q, NEW r, NEW s, NEW t, NEW ops,
         Sound(o, ops), Sound(p, ops), Sound(q, ops), Sound(r, ops), Sound(s, ops), Sound(t, ops)
  PROVE  SoundSteps(<<o, p, q, r, s, t>>, ops)
<1>1. <<o, p, q, r, s, t>> = <<o, p, q>> \o <<r, s, t>>
  OBVIOUS
<1>2. SoundSteps(<<o, p, q>>, ops) /\ SoundSteps(<<r, s, t>>, ops)
  BY SoundThree, SoundThree
<1> QED BY <1>1, <1>2, SoundBoth

\* Steps that depend on a condition.
LEMMA SoundIf ==
  ASSUME NEW b, NEW s, NEW ops, b => SoundSteps(s, ops)
  PROVE  SoundSteps(If(b, s), ops)
BY SoundNone DEF If

\* More kinds of steps.
LEMMA SoundMore ==
  ASSUME NEW seq, NEW ops, NEW more, SoundSteps(seq, ops), ops \subseteq more
  PROVE  SoundSteps(seq, more)
<1>1. PICK S : seq \in Seq(S) /\ \A x \in S : Sound(x, ops)
  BY DEF SoundSteps
<1>2. \A x \in S : Sound(x, more)
  BY <1>1 DEF Sound
<1> QED BY <1>1, <1>2 DEF SoundSteps

\* What each kind of step has to be sound: deploying, but for the provider.
LEMMA SoundDeploy ==
  ASSUME NEW ids, NEW needs, NEW ops, GetPoolAddressesProvider \notin ids, NewToken \notin ids
  PROVE  Sound(Deploy(ids, needs), ops)
BY DEF Sound, Deploy, Step, PlainOps

LEMMA SoundDeployOne ==
  ASSUME NEW name, NEW needs, NEW ops, name # "PoolAddressesProvider", name # "AToken-REV2"
  PROVE  Sound(Deploy({<<name>>}, needs), ops)
<1>1. GetPoolAddressesProvider \notin {<<name>>} /\ NewToken \notin {<<name>>}
  BY DEF GetPoolAddressesProvider, NewToken
<1> QED BY <1>1, SoundDeploy

LEMMA OtherNames ==
  /\ "PoolAddressesProviderRegistry" # "PoolAddressesProvider" /\ "PoolAddressesProviderRegistry" # "AToken-REV2"
  /\ "Faucet" # "PoolAddressesProvider" /\ "Faucet" # "AToken-REV2"
  /\ "PoolDataProvider" # "PoolAddressesProvider" /\ "PoolDataProvider" # "AToken-REV2"
  /\ "PoolConfigurator-Implementation" # "PoolAddressesProvider" /\ "PoolConfigurator-Implementation" # "AToken-REV2"
  /\ "ReservesSetupHelper" # "PoolAddressesProvider" /\ "ReservesSetupHelper" # "AToken-REV2"
  /\ "ACLManager" # "PoolAddressesProvider" /\ "ACLManager" # "AToken-REV2"
  /\ "L2Encoder" # "PoolAddressesProvider" /\ "L2Encoder" # "AToken-REV2"
  /\ "PullRewardsTransferStrategy" # "PoolAddressesProvider" /\ "PullRewardsTransferStrategy" # "AToken-REV2"
  /\ "StakedTokenTransferStrategy" # "PoolAddressesProvider" /\ "StakedTokenTransferStrategy" # "AToken-REV2"
  /\ "WalletBalanceProvider" # "PoolAddressesProvider" /\ "WalletBalanceProvider" # "AToken-REV2"
OBVIOUS

\* A one-off call, always.
LEMMA SoundInitialize == ASSUME NEW id, NEW ops PROVE Sound(Initialize(id), ops)
BY DEF Sound, Initialize, Step, PlainOps

\* A setter, when it keeps a proxy and makes nobody else the ACL's admin.
LEMMA SoundSetWhen ==
  ASSUME NEW b, NEW slot, NEW val, NEW needs, NEW ops,
         slot \in ProxySlots => val # Nothing,
         slot = <<"ACL_ADMIN">> => val = Deployer
  PROVE  Sound(SetWhen(b, slot, val, needs), ops)
BY DEF Sound, SetWhen, Step, PlainOps

\* The same without a test.
LEMMA SoundSet ==
  ASSUME NEW slot, NEW val, NEW needs, NEW ops,
         slot \in ProxySlots => val # Nothing,
         slot = <<"ACL_ADMIN">> => val = Deployer
  PROVE  Sound(Set(slot, val, needs), ops)
BY DEF Sound, Set, Step, PlainOps

\* A record that is saved, when no contract with an owner is found by it.
LEMMA SoundSave ==
  ASSUME NEW ids, NEW needs, NEW ops, ids \cap Ownables = {}, NewToken \notin ids
  PROVE  Sound(Save(ids, needs), ops)
BY DEF Sound, Save, Step, PlainOps

\* The same behind a test.
LEMMA SoundSaveWhen ==
  ASSUME NEW b, NEW ids, NEW ops, ids \cap Ownables = {}, NewToken \notin ids
  PROVE  Sound(SaveWhen(b, ids), ops)
BY DEF Sound, SaveWhen, Step, PlainOps

\* A transfer to a named account, always.
LEMMA SoundTransfer == ASSUME NEW id, NEW ops PROVE Sound(TransferOwnership(id), ops)
BY DEF Sound, TransferOwnership, Step, PlainOps

\* A role given to a named account, when it is one of the two.
LEMMA SoundGrant ==
  ASSUME NEW role \in {"POOL_ADMIN", "EMERGENCY_ADMIN"}, NEW ops, "grant" \in ops
  PROVE  Sound(AddRole(role), ops)
BY DEF Sound, AddRole, Step, PlainOps

\* Lookups, always.
LEMMA SoundCheck == ASSUME NEW needs, NEW ops PROVE Sound(Check(needs), ops)
BY DEF Sound, Check, Step, PlainOps

\* Local variables: a test's result, and a choice of the market's reserves.
LEMMA SoundRemember == ASSUME NEW b, NEW ops PROVE Sound(Remember(b), ops)
<1>1. Remember(b).op = "local" /\ Remember(b).val.todo = <<>>
  BY DEF Remember, Step
<1>2. ToSet(Remember(b).val.todo) = {}
  BY <1>1 DEF ToSet
<1> QED BY <1>1, <1>2 DEF Sound, PlainOps

LEMMA SoundSelect ==
  ASSUME NEW seq \in Seq(Symbols), ToSet(seq) \subseteq ToSet(market.symbols), NEW needs, NEW ops
  PROVE  Sound(Select(seq, needs), ops)
<1>1. Select(seq, needs).op = "local" /\ Select(seq, needs).val.todo = seq
  BY DEF Select, Step
<1> QED BY <1>1 DEF Sound, PlainOps

\* A call of the configurator, when it is for a setting that is changed alone.
\* These are none of them.
LEMMA FieldsApart == AppliedFields \cap {"borrowing", "rates", "cap", "revision"} = {}
BY DEF AppliedFields, Flags

LEMMA FieldsSet ==
  {"stable", "borrowing", "ceiling", "isolation", "fee", "category", "rates",
   "distributor"} \subseteq PlainFields \ {"cap"}
BY DEF PlainFields, SetFields

LEMMA SoundConfigure ==
  ASSUME NEW field \in PlainFields, NEW s, NEW value, NEW needs, NEW when, NEW ops,
         field = "cap" => value # 0, field = "borrowing" => value = FALSE,
         field \notin AppliedFields
  PROVE  Sound(Configure(field, s, value, needs, when), ops)
BY DEF Sound, Configure, Step, PlainOps, PlainFields, Apt

\* A step that sets what the market file asks for.
LEMMA SoundApplied ==
  ASSUME NEW field \in AppliedFields, NEW s, NEW value, NEW needs, NEW when, NEW ops,
         TypeOK /\ NamesAgree /\ needs =>
           IF when THEN Wanted(field, s, value)
                   ELSE Applied(field, s) \/ (field \in Flags /\ Wants(field, s) = FALSE)
  PROVE  Sound(Configure(field, s, value, needs, when), ops)
<1>1. field \in PlainFields /\ field \notin {"cap", "borrowing"}
  BY DEF PlainFields, SetFields, AppliedFields, Flags
<1> DEFINE step == Configure(field, s, value, needs, when)
<1>2. /\ step.op = "configure" /\ step.id[1] = field /\ step.id[2] = s /\ step.val = value
      /\ step.needs = (needs /\ Recorded({GetPoolConfiguratorProxy})) /\ step.when = when
  BY DEF Configure, Step
<1> HIDE DEF step
<1>3. TypeOK /\ NamesAgree => Apt(step)
  BY <1>1, <1>2 DEF Apt
<1>4. Sound(step, ops)
  BY <1>1, <1>2, <1>3 DEF Sound, PlainOps, PlainFields
<1> QED BY <1>4 DEF step

\* A flag, set where the market file asks for it.
LEMMA SoundFlag ==
  ASSUME NEW f \in Flags, NEW s, NEW needs, NEW ops, TypeOK => s \in Symbols
  PROVE  Sound(Configure(f, s, TRUE, needs, Wants(f, s)), ops)
<1>1. ASSUME TypeOK PROVE Wants(f, s) \in BOOLEAN
  BY <1>1, MarketReserves DEF Wants, ReserveParams, Flags
<1>2. ASSUME TypeOK, Wants(f, s) PROVE Wanted(f, s, TRUE)
  BY <1>1, <1>2 DEF Wanted, Flags
<1>3. f \in AppliedFields
  BY DEF AppliedFields
<1> QED BY <1>1, <1>2, <1>3, SoundApplied

\* The kinds that only some scripts have.
LEMMA SoundOther ==
  ASSUME NEW op, NEW id, NEW val, NEW needs, NEW when, NEW ops, op \in ops,
         op \in {"initReserves", "addRiskAdmin", "configureReserves", "removeRiskAdmin",
                 "handover", "renounce", "handOne"}
  PROVE  Sound(Step(op, id, val, needs, when), ops)
BY DEF Sound, Step

\* What is left of a sequence of a set is one too.
LEMMA FilterType ==
  ASSUME NEW S, NEW seq \in Seq(S), NEW T
  PROVE  Filter(seq, T) \in Seq(S)
<1> DEFINE parts == [i \in 1..Len(seq) |-> If(seq[i] \in T, <<seq[i]>>)]
<1>1. Len(seq) \in Nat
  OBVIOUS
<1>2. \A i \in 1..Len(seq) : If(seq[i] \in T, <<seq[i]>>) \in Seq(S)
  BY DEF If
<1>3. parts \in [1..Len(seq) -> Seq(S)]
  BY <1>2
<1> HIDE DEF parts
<1>4. FlattenSeq(parts) \in Seq(S)
  BY <1>1, <1>3, FlattenType
<1> QED BY <1>4 DEF Filter, parts

\* What is left by a filter is what it lets through.
LEMMA FilterWithin ==
  ASSUME NEW S, NEW seq \in Seq(S), NEW T
  PROVE  ToSet(Filter(seq, T)) \subseteq T \cap ToSet(seq)
<1> DEFINE parts == [i \in 1..Len(seq) |-> If(seq[i] \in T, <<seq[i]>>)]
<1>1. Len(seq) \in Nat
  OBVIOUS
<1>2. parts \in [1..Len(seq) -> Seq(S)]
  BY DEF If
<1>3. ASSUME NEW i \in 1..Len(seq), NEW x \in ToSet(parts[i]) PROVE x \in T \cap ToSet(seq)
  BY <1>3 DEF If, ToSet
<1> HIDE DEF parts
<1>4. \A x \in ToSet(FlattenSeq(parts)) : \E i \in 1..Len(seq) : x \in ToSet(parts[i])
  BY <1>1, <1>2, FlattenWithin
<1> QED BY <1>3, <1>4 DEF Filter, parts

\* What a filter lets through is in what is left.
LEMMA FilterElement ==
  ASSUME NEW S, NEW seq \in Seq(S), NEW T, NEW x \in ToSet(seq), x \in T
  PROVE  x \in ToSet(Filter(seq, T))
<1> DEFINE parts == [i \in 1..Len(seq) |-> If(seq[i] \in T, <<seq[i]>>)]
<1>1. Len(seq) \in Nat
  OBVIOUS
<1>2. parts \in [1..Len(seq) -> Seq(S)]
  BY DEF If
<1>3. PICK i \in 1..Len(seq) : x = seq[i]
  BY DEF ToSet
<1>4. parts[i] = <<x>>
  BY <1>3 DEF If
<1> HIDE DEF parts
<1>5. 1 \in 1..Len(parts[i]) /\ parts[i][1] = x
  BY <1>4
<1>6. x \in ToSet(FlattenSeq(parts))
  BY <1>1, <1>2, <1>5, FlattenElement
<1> QED BY <1>6 DEF Filter, parts

\* Sound sequences, one after another, are sound.
LEMMA SoundFlat ==
  ASSUME NEW n \in Nat, NEW parts, NEW ops, parts = [i \in 1..n |-> parts[i]],
         \A i \in 1..n : SoundSteps(parts[i], ops)
  PROVE  SoundSteps(FlattenSeq(parts), ops)
<1> DEFINE S == UNION {{parts[i][j] : j \in 1..Len(parts[i])} : i \in 1..n}
<1>1. ASSUME NEW i \in 1..n PROVE parts[i] \in Seq(S)
  <2>1. PICK T : parts[i] \in Seq(T)
    BY DEF SoundSteps
  <2>2. \A j \in 1..Len(parts[i]) : parts[i][j] \in S
    OBVIOUS
  <2> HIDE DEF S
  <2> QED BY <2>1, <2>2
<1>2. ASSUME NEW s \in S PROVE Sound(s, ops)
  <2>1. PICK i \in 1..n : s \in {parts[i][j] : j \in 1..Len(parts[i])}
    OBVIOUS
  <2> QED BY <2>1, SoundEach
<1> HIDE DEF S
<1>3. parts \in [1..n -> Seq(S)]
  BY <1>1
<1>4. FlattenSeq(parts) \in Seq(S)
  BY <1>3, FlattenType
<1> QED BY <1>2, <1>4, SoundSeq

---------------------------------------------------------------------------
(* The scripts and the tasks *)

\* A market has the names and the categories of its file, extended or not.
LEMMA MarketCategories ==
  ASSUME TypeOK
  PROVE  \E m \in Markets : /\ market.symbols = m.symbols /\ market.params = m.params
                            /\ market.names = m.names /\ market.emodes = m.emodes
<1>1. CASE market \in Markets
  BY <1>1
<1>2. ASSUME NEW m \in Markets, market = [m EXCEPT !.extended = TRUE]
      PROVE  /\ market.symbols = m.symbols /\ market.params = m.params
             /\ market.names = m.names /\ market.emodes = m.emodes
  <2>1. {"symbols", "params", "names", "emodes"} \subseteq DOMAIN m
    BY MarketsAssumption, CategoriesAssumption
  <2> QED BY <1>2, <2>1
<1> QED BY <1>1, <1>2 DEF TypeOK

\* The entry a token is taken for asks what the token's own entry asks.
LEMMA NormalizedWants ==
  ASSUME TypeOK, NamesAgree, NEW s \in ToSet(market.symbols), HasNormalizedSymbol(s)
  PROVE  Wants("stable", NormalizedSymbol(s)) = Wants("stable", s)
<1> DEFINE T == Reserves \cap market.names[s]
           left == Filter(market.symbols, T)
<1>1. market.symbols \in Seq(Symbols) /\ Reserves \subseteq ToSet(market.symbols)
  BY MarketReserves DEF Reserves
<1>2. PICK n : n \in T
  BY DEF HasNormalizedSymbol
<1>3. left \in Seq(Symbols) /\ n \in ToSet(left) /\ ToSet(left) \subseteq T
  BY <1>1, <1>2, FilterType, FilterElement, FilterWithin
<1>4. left[1] \in T
  <2> HIDE DEF left, T
  <2>1. 1 \in 1..Len(left)
    BY <1>3 DEF ToSet
  <2> QED BY <1>3, <2>1 DEF ToSet
<1>5. PICK m \in Markets : /\ market.symbols = m.symbols /\ market.params = m.params
                           /\ market.names = m.names
  BY MarketCategories
<1>6. left[1] \in m.names[s] \cap ToSet(m.symbols) /\ s \in ToSet(m.symbols)
  BY <1>1, <1>4, <1>5
<1>7. m.params[left[1]].stable = m.params[s].stable
  <2> HIDE DEF left
  <2> QED BY <1>6 DEF NamesAgree
<1> QED BY <1>5, <1>7 DEF NormalizedSymbol, Wants

\* What review-stable-borrow does to one reserve.
LEMMA SoundStable ==
  ASSUME NEW i \in 1..Len(market.symbols), NEW s, s = market.symbols[i], NEW ops
  PROVE  Sound(Configure("stable", s, Wants("stable", NormalizedSymbol(s)),
                         HasNormalizedSymbol(s),
                         reserve[s].stable # Wants("stable", NormalizedSymbol(s))), ops)
<1>1. "stable" \in AppliedFields /\ "stable" \notin {"distributor", "category"}
  BY DEF AppliedFields
<1>2. ASSUME TypeOK, NamesAgree, HasNormalizedSymbol(s)
      PROVE  Wants("stable", NormalizedSymbol(s)) = Wants("stable", s)
  BY <1>2, MarketSymbol, NormalizedWants
<1>3. TypeOK /\ NamesAgree /\ HasNormalizedSymbol(s) =>
        IF reserve[s].stable # Wants("stable", NormalizedSymbol(s))
          THEN Wanted("stable", s, Wants("stable", NormalizedSymbol(s)))
          ELSE Applied("stable", s) \/ ("stable" \in Flags /\ Wants("stable", s) = FALSE)
  BY <1>2 DEF Wanted, Applied
<1> DEFINE value == Wants("stable", NormalizedSymbol(s))
           needs == HasNormalizedSymbol(s)
           when == reserve[s].stable # value
<1>4. TypeOK /\ NamesAgree /\ needs =>
        IF when THEN Wanted("stable", s, value)
                ELSE Applied("stable", s) \/ ("stable" \in Flags /\ Wants("stable", s) = FALSE)
  BY <1>3
<1> HIDE DEF value, needs, when
<1> DEFINE step == Configure("stable", s, value, needs, when)
<1>5. /\ step.op = "configure" /\ step.id[1] = "stable" /\ step.id[2] = s /\ step.val = value
      /\ step.needs = (needs /\ Recorded({GetPoolConfiguratorProxy})) /\ step.when = when
  BY DEF Configure, Step
<1> HIDE DEF step
<1>6. "stable" \in PlainFields /\ "stable" \notin {"cap", "borrowing"}
  BY DEF PlainFields, SetFields, Flags
<1>7. TypeOK /\ NamesAgree => Apt(step)
  BY <1>4, <1>5, <1>6 DEF Apt
<1>8. Sound(step, ops)
  BY <1>1, <1>5, <1>6, <1>7 DEF Sound, PlainOps, PlainFields
<1> QED BY <1>8 DEF step, value, needs, when

\* A script of one kind of group for each symbol of a sequence.
LEMMA SoundGroups ==
  ASSUME NEW seq, NEW parts, NEW ops, parts = [i \in 1..Len(seq) |-> parts[i]],
         \A i \in 1..Len(seq) : SoundSteps(parts[i], ops)
  PROVE  SoundSteps(FlattenSeq(parts), ops)
<1>1. Len(seq) \in Nat
  OBVIOUS
<1> QED BY <1>1, SoundFlat

LEMMA RegistrySound == SoundSteps(RegistrySteps, {})
<1>1. Sound(Deploy({<<"PoolAddressesProviderRegistry">>}, TRUE), {})
  BY SoundDeployOne, OtherNames
<1> QED BY <1>1, SoundTwo, SoundTransfer DEF RegistrySteps, GetPoolAddressesProviderRegistry

LEMMA LibrariesSound == SoundSteps(LibrariesSteps, {})
<1> DEFINE first  == {<<"SupplyLogic">>, <<"BorrowLogic">>, <<"LiquidationLogic">>, <<"EModeLogic">>,
                      <<"BridgeLogic">>, <<"ConfiguratorLogic">>}
           second == {<<"FlashLoanLogic">>, <<"PoolLogic">>}
<1>1. GetPoolAddressesProvider \notin first /\ NewToken \notin first /\ GetPoolAddressesProvider \notin second /\ NewToken \notin second
  BY DEF GetPoolAddressesProvider, NewToken
<1> HIDE DEF first, second
<1>2. /\ Sound(Deploy(first, TRUE), {})
      /\ Sound(Deploy(second, Recorded({<<"BorrowLogic">>})), {})
  BY <1>1, SoundDeploy
<1> QED BY <1>2, SoundTwo DEF LibrariesSteps, first, second

LEMMA TreasurySound == SoundSteps(TreasurySteps, {})
<1> DEFINE treasury == {<<"TreasuryProxy">>, <<"Treasury-Controller">>, <<"Treasury-Implementation">>}
<1>1. treasury \cap Ownables = {} /\ GetPoolAddressesProvider \notin treasury /\ NewToken \notin treasury
  BY DEF Ownables, GetPoolAddressesProvider, NewToken
<1> HIDE DEF treasury
<1>2. SoundSteps(<<Save(treasury, TRUE)>>, {})
  BY <1>1, SoundOne, SoundSave
<1>3. SoundSteps(<<Deploy(treasury, TRUE), Initialize(<<"Treasury-Implementation">>),
                   Initialize(<<"TreasuryProxy">>)>>, {})
  BY <1>1, SoundThree, SoundDeploy, SoundInitialize
<1> QED BY <1>2, <1>3 DEF TreasurySteps, treasury

LEMMA StakedAaveSound == SoundSteps(StakedAaveSteps, {})
<1>1. <<"STAKE_AAVE">> \notin ProxySlots /\ <<"STAKE_AAVE">> # <<"ACL_ADMIN">>
  BY DEF ProxySlots
<1> DEFINE rev(r)  == <<"StakeAave-REV", r>>
           at(r)   == slots[<<"STAKE_AAVE">>] = IF r = 0 THEN Nothing ELSE rev(r)
           take(r) == SetWhen(at(r - 1), <<"STAKE_AAVE">>, rev(r), Recorded({rev(r)}))
<1>2. Sound(take(1), {}) /\ Sound(take(2), {}) /\ Sound(take(3), {})
  BY <1>1, SoundSetWhen
<1> HIDE DEF take
<1> QED BY <1>2, SoundFour, SoundDeploy DEF StakedAaveSteps, take, GetPoolAddressesProvider, NewToken

LEMMA TokenSetupSound == SoundSteps(TokenSetupSteps, {})
<1> DEFINE token(s)  == <<Deploy({<<"TestnetMintableERC20", s>>}, Recorded({<<"Faucet">>}))>>
           reward(s) == <<Deploy({<<"TestnetMintableERC20-Reward", s>>}, Recorded({<<"Faucet">>}))>>
           tokens    == [i \in 1..Len(market.symbols) |->
                           If(market.symbols[i] \in Reserves, token(market.symbols[i]))]
           rewards   == [i \in 1..Len(market.rewardSymbols) |->
                           If(market.rewardSymbols[i] \in Symbols, reward(market.rewardSymbols[i]))]
<1>1. SoundSteps(FlattenSeq(tokens), {})
  <2>1. \A i \in 1..Len(market.symbols) : SoundSteps(tokens[i], {})
    BY SoundOne, SoundDeploy, SoundIf DEF GetPoolAddressesProvider, NewToken
  <2> QED BY <2>1, SoundGroups
<1>2. SoundSteps(FlattenSeq(rewards), {})
  <2>1. \A i \in 1..Len(market.rewardSymbols) : SoundSteps(rewards[i], {})
    BY SoundOne, SoundDeploy, SoundIf DEF GetPoolAddressesProvider, NewToken
  <2> QED BY <2>1, SoundGroups
<1>3. SoundSteps(<<Deploy({<<"Faucet">>}, TRUE)>>, {})
  BY SoundOne, SoundDeployOne, OtherNames
<1> DEFINE b == IsIncentivesEnabled /\ Reserves # {}
           last == <<Check(Recorded({<<"TestnetMintableERC20", market.wrappedNative>>}))>>
<1>4. SoundSteps(If(b, FlattenSeq(rewards) \o StakedAaveSteps \o last), {})
  <2>1. SoundSteps(last, {})
    BY SoundOne, SoundCheck
  <2> QED BY <1>2, <2>1, StakedAaveSound, SoundBoth, SoundIf
<1>5. SoundSteps(<<Deploy({<<"Faucet">>}, TRUE)>> \o FlattenSeq(tokens)
                 \o If(b, FlattenSeq(rewards) \o StakedAaveSteps \o last), {})
  BY <1>1, <1>3, <1>4, SoundBoth
<1> QED BY <1>5, SoundIf DEF TokenSetupSteps, ForEach

LEMMA RegisterSound == SoundSteps(AddMarketToRegistry, {})
<1>1. <<"REGISTERED">> \notin ProxySlots /\ <<"REGISTERED">> # <<"ACL_ADMIN">>
  BY DEF ProxySlots
<1> QED BY <1>1, SoundOne, SoundSet DEF AddMarketToRegistry

LEMMA AddressesProviderSound == SoundSteps(AddressesProviderSteps, {})
<1>1. /\ <<"MARKET_ID">> \notin ProxySlots /\ <<"MARKET_ID">> # <<"ACL_ADMIN">>
      /\ <<"DATA_PROVIDER">> \notin ProxySlots /\ <<"DATA_PROVIDER">> # <<"ACL_ADMIN">>
  BY DEF ProxySlots
<1>2. SoundSteps(<<Deploy({GetPoolAddressesProvider}, ReserveAddresses = Reserves),
                   Set(<<"MARKET_ID">>, GetPoolAddressesProvider, TRUE)>>, {})
  <2>1. /\ Sound(Deploy({GetPoolAddressesProvider}, ReserveAddresses = Reserves), {})
        /\ Sound(Set(<<"MARKET_ID">>, GetPoolAddressesProvider, TRUE), {})
    <3>1. Sound(Deploy({GetPoolAddressesProvider}, ReserveAddresses = Reserves), {})
      <4>1. NewToken \notin {GetPoolAddressesProvider}
        BY DEF NewToken, GetPoolAddressesProvider
      <4> QED BY <4>1 DEF Sound, Deploy, Step, PlainOps
    <3> QED BY <1>1, <3>1, SoundSet
  <2> QED BY <2>1, SoundTwo
<1>3. SoundSteps(<<Deploy({GetAaveProtocolDataProvider}, TRUE),
                   SetWhen(slots[<<"DATA_PROVIDER">>] # GetAaveProtocolDataProvider,
                           <<"DATA_PROVIDER">>, GetAaveProtocolDataProvider, TRUE)>>, {})
  <2>1. /\ Sound(Deploy({GetAaveProtocolDataProvider}, TRUE), {})
        /\ Sound(SetWhen(slots[<<"DATA_PROVIDER">>] # GetAaveProtocolDataProvider,
                      <<"DATA_PROVIDER">>, GetAaveProtocolDataProvider, TRUE), {})
    <3>1. Sound(Deploy({GetAaveProtocolDataProvider}, TRUE), {})
      BY SoundDeployOne, OtherNames DEF GetAaveProtocolDataProvider
    <3> QED BY <1>1, <3>1, SoundSetWhen
  <2> QED BY <2>1, SoundTwo
<1> QED BY <1>2, <1>3, RegisterSound, SoundBoth DEF AddressesProviderSteps

LEMMA AggregatorsSound == SoundSteps(AggregatorsSteps, {})
<1> DEFINE aggregator(s) == <<Deploy({<<"TestnetPriceAggregator", s>>}, s \in market.mockPrices)>>
           reserves == [i \in 1..Len(market.symbols) |->
                          If(market.symbols[i] \in Reserves \cap ReserveAddresses,
                             aggregator(market.symbols[i]))]
           rewards  == [i \in 1..Len(market.rewardSymbols) |->
                          If(market.rewardSymbols[i] \in Symbols, aggregator(market.rewardSymbols[i]))]
<1>1. SoundSteps(FlattenSeq(reserves), {})
  <2>1. \A i \in 1..Len(market.symbols) : SoundSteps(reserves[i], {})
    BY SoundOne, SoundDeploy, SoundIf DEF GetPoolAddressesProvider, NewToken
  <2> QED BY <2>1, SoundGroups
<1>2. SoundSteps(FlattenSeq(rewards), {})
  <2>1. \A i \in 1..Len(market.rewardSymbols) : SoundSteps(rewards[i], {})
    BY SoundOne, SoundDeploy, SoundIf DEF GetPoolAddressesProvider, NewToken
  <2> QED BY <2>1, SoundGroups
<1> QED BY <1>1, <1>2, SoundIf, SoundBoth DEF AggregatorsSteps, ForEach

LEMMA PoolImplSound == SoundSteps(PoolImplSteps, {})
BY SoundTwo, SoundDeploy, SoundInitialize, SoundIf DEF PoolImplSteps, PoolImpl,
   GetPoolAddressesProvider, NewToken

LEMMA L2PoolImplSound == SoundSteps(L2PoolImplSteps, {})
BY SoundTwo, SoundDeploy, SoundInitialize, SoundIf DEF L2PoolImplSteps, PoolImpl,
   GetPoolAddressesProvider, NewToken

LEMMA ConfiguratorSound == SoundSteps(ConfiguratorSteps, {})
<1>1. /\ Sound(Deploy({<<"PoolConfigurator-Implementation">>},
                    Recorded({GetPoolAddressesProvider, <<"ConfiguratorLogic">>})), {})
      /\ Sound(Initialize(<<"PoolConfigurator-Implementation">>), {})
      /\ Sound(Deploy({<<"ReservesSetupHelper">>}, TRUE), {})
  BY SoundDeployOne, OtherNames, SoundInitialize
<1> QED BY <1>1, SoundThree DEF ConfiguratorSteps

LEMMA InitAclSound == SoundSteps(InitAclSteps, {"grant"})
<1>1. /\ <<"ACL_ADMIN">> \notin ProxySlots
      /\ <<"ACL_MANAGER">> \notin ProxySlots /\ <<"ACL_MANAGER">> # <<"ACL_ADMIN">>
  BY DEF ProxySlots
<1>2. /\ Sound(Set(<<"ACL_ADMIN">>, Deployer, Recorded({GetPoolAddressesProvider})), {"grant"})
      /\ Sound(Set(<<"ACL_MANAGER">>, <<"ACLManager">>, TRUE), {"grant"})
  BY <1>1, SoundSet
<1>3. /\ Sound(Deploy({<<"ACLManager">>}, slots[<<"ACL_ADMIN">>] # Nothing), {"grant"})
      /\ Sound(AddRole("POOL_ADMIN"), {"grant"}) /\ Sound(AddRole("EMERGENCY_ADMIN"), {"grant"})
      /\ Sound(Check(\A r \in {"DEFAULT_ADMIN", "POOL_ADMIN", "EMERGENCY_ADMIN"} :
                       Deployer \in acl[r]), {"grant"})
  BY SoundDeployOne, OtherNames, SoundGrant, SoundCheck
<1> QED BY <1>2, <1>3, SoundSix DEF InitAclSteps

LEMMA DeployOraclesSound == SoundSteps(DeployOraclesSteps, {})
BY SoundOne, SoundDeploy DEF DeployOraclesSteps, GetAaveOracle, GetPoolAddressesProvider, NewToken

LEMMA InitOraclesSound == SoundSteps(InitOraclesSteps, {})
<1>1. <<"PRICE_ORACLE">> \notin ProxySlots /\ <<"PRICE_ORACLE">> # <<"ACL_ADMIN">>
  BY DEF ProxySlots
<1> QED BY <1>1, SoundOne, SoundSetWhen DEF InitOraclesSteps

LEMMA InitPoolSound == SoundSteps(InitPoolSteps, {})
<1> DEFINE configurator == <<"PoolConfigurator-Implementation">>
<1>1. PoolImpl # Nothing /\ configurator # Nothing
  BY DEF PoolImpl, Nothing
<1>2. /\ {GetPool} \cap Ownables = {} /\ {GetPoolConfiguratorProxy} \cap Ownables = {}
      /\ NewToken \notin {GetPool} /\ NewToken \notin {GetPoolConfiguratorProxy}
  BY DEF GetPool, GetPoolConfiguratorProxy, Ownables, NewToken
<1>3. /\ <<"POOL">> # <<"ACL_ADMIN">> /\ <<"POOL_CONFIGURATOR">> # <<"ACL_ADMIN">>
      /\ <<"FLASHLOAN_PREMIUM_TOTAL">> \notin ProxySlots
      /\ <<"FLASHLOAN_PREMIUM_TOTAL">> # <<"ACL_ADMIN">>
      /\ <<"FLASHLOAN_PREMIUM_TO_PROTOCOL">> \notin ProxySlots
      /\ <<"FLASHLOAN_PREMIUM_TO_PROTOCOL">> # <<"ACL_ADMIN">>
  BY DEF ProxySlots
<1> HIDE DEF configurator
<1>4. SoundSteps(<<SetWhen(slots[<<"POOL">>] = Nothing, <<"POOL">>, PoolImpl,
                           Recorded({PoolImpl, configurator, GetPoolAddressesProvider})),
                   Save({GetPool}, TRUE),
                   SetWhen(slots[<<"POOL_CONFIGURATOR">>] = Nothing, <<"POOL_CONFIGURATOR">>,
                           configurator, TRUE),
                   Save({GetPoolConfiguratorProxy}, TRUE)>>, {})
  <2>1. Sound(SetWhen(slots[<<"POOL">>] = Nothing, <<"POOL">>, PoolImpl,
                      Recorded({PoolImpl, configurator, GetPoolAddressesProvider})), {})
    BY <1>1, <1>3, SoundSetWhen
  <2>3. Sound(SetWhen(slots[<<"POOL_CONFIGURATOR">>] = Nothing, <<"POOL_CONFIGURATOR">>,
                      configurator, TRUE), {})
    BY <1>1, <1>3 DEF Sound, SetWhen, Step, PlainOps
  <2>2. Sound(Save({GetPool}, TRUE), {}) /\ Sound(Save({GetPoolConfiguratorProxy}, TRUE), {})
    BY <1>2, SoundSave
  <2> QED BY <2>1, <2>2, <2>3, SoundFour
<1>5. SoundSteps(If(IsL2PoolSupported, <<Deploy({<<"L2Encoder">>}, TRUE)>>), {})
  <2>1. SoundSteps(<<Deploy({<<"L2Encoder">>}, TRUE)>>, {})
    BY SoundOne, SoundDeployOne, OtherNames
  <2> QED BY <2>1, SoundIf
<1>6. SoundSteps(<<Set(<<"FLASHLOAN_PREMIUM_TOTAL">>, GetPoolConfiguratorProxy, TRUE),
                   Set(<<"FLASHLOAN_PREMIUM_TO_PROTOCOL">>, GetPoolConfiguratorProxy, TRUE)>>, {})
  BY <1>3, SoundTwo, SoundSet
<1> QED BY <1>4, <1>5, <1>6, SoundBoth DEF InitPoolSteps, configurator

LEMMA IncentivesSound == SoundSteps(IncentivesSteps, {})
<1> DEFINE implementation == <<"IncentivesV2-Implementation">>
<1>1. implementation # Nothing /\ {GetIncentivesV2} \cap Ownables = {} /\ NewToken \notin {GetIncentivesV2}
  BY DEF Nothing, GetIncentivesV2, Ownables, NewToken
<1>2. /\ <<"INCENTIVES_CONTROLLER">> # <<"ACL_ADMIN">>
      /\ <<"REWARDS_CONTROLLER">> \notin ProxySlots /\ <<"REWARDS_CONTROLLER">> # <<"ACL_ADMIN">>
  BY DEF ProxySlots
<1> HIDE DEF implementation
<1>3. SoundSteps(<<Deploy({GetEmissionManager, implementation}, Recorded({GetPoolAddressesProvider})),
                   Initialize(implementation),
                   Remember(slots[<<"INCENTIVES_CONTROLLER">>] = Nothing),
                   SetWhen(proc.any, <<"INCENTIVES_CONTROLLER">>, implementation, TRUE),
                   SaveWhen(proc.any, {GetIncentivesV2}),
                   Set(<<"REWARDS_CONTROLLER">>, GetIncentivesV2, Recorded({GetIncentivesV2}))>>, {})
  <2>1. /\ Sound(Deploy({GetEmissionManager, implementation}, Recorded({GetPoolAddressesProvider})), {})
        /\ Sound(Initialize(implementation), {})
        /\ Sound(Remember(slots[<<"INCENTIVES_CONTROLLER">>] = Nothing), {})
    BY SoundDeploy, SoundInitialize, SoundRemember DEF GetPoolAddressesProvider, NewToken, GetEmissionManager, implementation
  <2>2. Sound(SetWhen(proc.any, <<"INCENTIVES_CONTROLLER">>, implementation, TRUE), {})
    BY <1>1, <1>2 DEF Sound, SetWhen, Step, PlainOps
  <2>4. Sound(Set(<<"REWARDS_CONTROLLER">>, GetIncentivesV2, Recorded({GetIncentivesV2})), {})
    BY <1>2, SoundSet
  <2>3. Sound(SaveWhen(proc.any, {GetIncentivesV2}), {})
    BY <1>1, SoundSaveWhen
  <2> QED BY <2>1, <2>2, <2>3, <2>4, SoundSix
<1>4. SoundSteps(<<Deploy({<<"PullRewardsTransferStrategy">>}, TRUE)>>
                 \o If(Recorded({<<"StakeAave-Proxy">>}),
                       <<Deploy({<<"StakedTokenTransferStrategy">>}, TRUE)>>), {})
  <2>1. /\ SoundSteps(<<Deploy({<<"PullRewardsTransferStrategy">>}, TRUE)>>, {})
        /\ SoundSteps(<<Deploy({<<"StakedTokenTransferStrategy">>}, TRUE)>>, {})
    BY SoundOne, SoundDeployOne, OtherNames
  <2> QED BY <2>1, SoundIf, SoundBoth
<1>5. SoundSteps(<<TransferOwnership(GetEmissionManager)>>, {})
  BY SoundOne, SoundTransfer
<1> QED BY <1>3, <1>4, <1>5, SoundIf, SoundBoth DEF IncentivesSteps, implementation

LEMMA TokensSound == SoundSteps(TokensSteps, {})
<1> DEFINE implementation(id) == <<Deploy({id}, Recorded({GetPoolAddressesProvider})), Initialize(id)>>
<1>1. ASSUME NEW name, name # "PoolAddressesProvider", name # "AToken-REV2"
      PROVE  SoundSteps(implementation(<<name>>), {})
  BY <1>1, SoundTwo, SoundDeployOne, OtherNames, SoundInitialize
<1> HIDE DEF implementation
<1>2. /\ SoundSteps(implementation(<<"AToken">>), {})
      /\ SoundSteps(implementation(<<"DelegationAwareAToken">>), {})
      /\ SoundSteps(implementation(<<"StableDebtToken">>), {})
      /\ SoundSteps(implementation(<<"VariableDebtToken">>), {})
  BY <1>1
<1> QED BY <1>2, SoundBoth DEF TokensSteps, implementation

LEMMA ListingSound ==
  ASSUME TypeOK
  PROVE  SoundSteps(InitReservesByHelper \o ConfigureReservesByHelper \o SavePoolTokens, ListingOps)
<1>1. SoundSteps(InitReservesByHelper, ListingOps)
  <2>1. "initReserves" \in ListingOps
    BY DEF ListingOps
  <2>2. ReservesToInit \in Seq(Symbols) /\ ToSet(ReservesToInit) \subseteq ToSet(market.symbols)
    BY MarketReserves, FilterType, FilterWithin DEF ReservesToInit
  <2> QED BY <2>1, <2>2, SoundTwo, SoundSelect, SoundOther DEF InitReservesByHelper
<1>2. SoundSteps(ConfigureReservesByHelper, ListingOps)
  <2>1. {"addRiskAdmin", "configureReserves", "removeRiskAdmin"} \subseteq ListingOps
    BY DEF ListingOps
  <2>2. /\ Sound(Step("addRiskAdmin", Nothing, Nothing, TRUE, proc.any), ListingOps)
        /\ Sound(Step("configureReserves", Nothing, 20, TRUE, proc.todo # <<>>), ListingOps)
        /\ Sound(Step("removeRiskAdmin", Nothing, Nothing, TRUE, proc.any), ListingOps)
    BY <2>1, SoundOther
  <2> DEFINE first == Select(ReservesToConfigure,
                        Recorded({GetPoolAddressesProvider, <<"ACLManager">>,
                                  <<"ReservesSetupHelper">>, GetAaveProtocolDataProvider}))
  <2>3. Sound(first, ListingOps)
    <3>1. /\ ReservesToConfigure \in Seq(Symbols)
          /\ ToSet(ReservesToConfigure) \subseteq ToSet(market.symbols)
      BY MarketReserves, FilterType, FilterWithin DEF ReservesToConfigure
    <3> QED BY <3>1, SoundSelect
  <2> QED BY <2>2, <2>3, SoundFour DEF ConfigureReservesByHelper
<1>3. SoundSteps(SavePoolTokens, ListingOps)
  <2> DEFINE reserves == Reserves \cap ReserveAddresses
             tokens   == {"-AToken", "-VariableDebtToken", "-StableDebtToken"}
  <2>1. (tokens \X reserves) \cap Ownables = {} /\ NewToken \notin tokens \X reserves
    BY DEF Ownables, NewToken
  <2> QED BY <2>1, SoundOne, SoundSave DEF SavePoolTokens
<1> QED BY <1>1, <1>2, <1>3, SoundBoth

\* init-reserves lists and configures.
LEMMA InitReservesSound == ASSUME TypeOK PROVE SoundSteps(InitReservesSteps, ListingOps)
<1> DEFINE strategies == {<<"ReserveStrategy", n>> : n \in ToSet(market.strategies)}
<1>1. GetPoolAddressesProvider \notin strategies /\ NewToken \notin strategies
  BY DEF GetPoolAddressesProvider, NewToken
<1> HIDE DEF strategies
<1>2. SoundSteps(<<Deploy(strategies, Recorded({GetPoolAddressesProvider})),
                   Check(HasTreasuryAddress /\ Recorded({GetIncentivesV2}))>>, ListingOps)
  BY <1>1, SoundTwo, SoundDeploy, SoundCheck
<1> QED BY <1>2, ListingSound, SoundIf, SoundBoth DEF InitReservesSteps, strategies

LEMMA AddNewAssetSound == ASSUME TypeOK PROVE SoundSteps(AddNewAsset, ListingOps)
<1>1. SoundSteps(<<Check(HasTreasuryAddress /\ Recorded({GetPoolAddressesProvider,
                                                         GetIncentivesV2}))>>, ListingOps)
  BY SoundOne, SoundCheck
<1> QED BY <1>1, ListingSound, SoundIf, SoundBoth DEF AddNewAsset

LEMMA InitPeripherySound == SoundSteps(InitPeripherySteps, {})
BY SoundOne, SoundDeploy, SoundIf DEF InitPeripherySteps, GetPoolAddressesProvider, NewToken

LEMMA GatewaySound == SoundSteps(GatewaySteps, {})
BY SoundOne, SoundDeploy DEF GatewaySteps, GetWrappedTokenGateway, GetPoolAddressesProvider, NewToken

LEMMA WalletBalanceSound == SoundSteps(WalletBalanceSteps, {})
BY SoundOne, SoundDeployOne, OtherNames DEF WalletBalanceSteps

LEMMA UiHelpersSound == SoundSteps(UiHelpersSteps, {})
<1> DEFINE ids == {<<"UiIncentiveDataProviderV3">>, <<"UiPoolDataProviderV3">>}
<1>1. GetPoolAddressesProvider \notin ids /\ NewToken \notin ids
  BY DEF GetPoolAddressesProvider, NewToken
<1> HIDE DEF ids
<1>2. SoundSteps(<<Deploy(ids, TRUE)>>, {})
  BY <1>1, SoundOne, SoundDeploy
<1> QED BY <1>2, SoundIf DEF UiHelpersSteps, ids

LEMMA PoolWrapperSound == SoundSteps(PoolWrapperSteps, {})
<1>1. <<"GAS_REFUND">> \notin ProxySlots /\ <<"GAS_REFUND">> # <<"ACL_ADMIN">>
  BY DEF ProxySlots
<1> DEFINE ids == {<<"PacPoolWrapper">>, <<"GasRefund">>}
<1>2. GetPoolAddressesProvider \notin ids /\ NewToken \notin ids
  BY DEF GetPoolAddressesProvider, NewToken
<1> HIDE DEF ids
<1>3. /\ Sound(Deploy(ids, WrappedNative /\ Recorded({GetPool})), {})
      /\ Sound(Set(<<"GAS_REFUND">>, <<"GasRefund">>, TRUE), {})
  BY <1>1, <1>2, SoundDeploy, SoundSet
<1> QED BY <1>3, SoundTwo DEF PoolWrapperSteps, ids

LEMMA DistributorSound == ASSUME NEW s PROVE SoundSteps(DistributorFor(s), {"distributor"})
<1>1. Sound(Step("distributor", <<"NativeYieldDistribute", s>>, s, Recorded({GetPool}), TRUE),
            {"distributor"})
  BY DEF Sound, Step
<1>2. Sound(Configure("distributor", s, "current", TRUE, TRUE), {"distributor"})
  <2>1. "distributor" \in AppliedFields /\ Wanted("distributor", s, "current")
    BY DEF AppliedFields, Wanted
  <2> QED BY <2>1, SoundApplied
<1> QED BY <1>1, <1>2, SoundTwo DEF DistributorFor

LEMMA NativeYieldSound == SoundSteps(NativeYieldSteps, {"distributor"})
<1> DEFINE parts == [i \in 1..Len(market.symbols) |->
                      If(market.symbols[i] \in Reserves, DistributorFor(market.symbols[i]))]
<1>1. SoundSteps(FlattenSeq(parts), {"distributor"})
  <2>1. \A i \in 1..Len(market.symbols) : SoundSteps(parts[i], {"distributor"})
    BY DistributorSound, SoundIf
  <2> QED BY <2>1, SoundGroups
<1> QED BY <1>1 DEF NativeYieldSteps, ForEach

LEMMA ReviewStableBorrowSound == SoundSteps(ReviewStableBorrow, {})
<1> DEFINE wanted(s) == Wants("stable", NormalizedSymbol(s))
           review(s) == <<Configure("stable", s, wanted(s), HasNormalizedSymbol(s),
                                    reserve[s].stable # wanted(s))>>
           parts == [i \in 1..Len(market.symbols) |->
                      If(market.symbols[i] \in Listed, review(market.symbols[i]))]
<1>1. SoundSteps(FlattenSeq(parts), {})
  <2>1. \A i \in 1..Len(market.symbols) : SoundSteps(parts[i], {})
    <3>1. \A i \in 1..Len(market.symbols) : SoundSteps(review(market.symbols[i]), {})
      <4> SUFFICES ASSUME NEW i \in 1..Len(market.symbols)
                   PROVE  SoundSteps(review(market.symbols[i]), {})
        OBVIOUS
      <4> QED BY SoundOne, SoundStable
    <3> HIDE DEF review
    <3> QED BY <3>1, SoundIf
  <2> QED BY <2>1, SoundGroups
<1>2. SoundSteps(<<Check(Recorded({GetAaveProtocolDataProvider}))>>, {})
  BY SoundOne, SoundCheck
<1> QED BY <1>1, <1>2, SoundBoth DEF ReviewStableBorrow, ForEach

LEMMA ReviewRateStrategiesSound ==
  ASSUME NEW fix PROVE SoundSteps(ReviewRateStrategies(fix), {})
<1> DEFINE outdated(s) == fix /\ reserve[s].rates # Edition
           strategy(s) ==
             <<"ReserveStrategy", market.params[NormalizedSymbol(s)].strategy, Edition>>
           review(s) == <<SaveWhen(outdated(s), {strategy(s)}),
                          Configure("rates", s, Edition, HasNormalizedSymbol(s), outdated(s))>>
           parts == [i \in 1..Len(market.symbols) |->
                      If(market.symbols[i] \in Listed, review(market.symbols[i]))]
<1>1. SoundSteps(FlattenSeq(parts), {})
  <2>1. ASSUME NEW s PROVE SoundSteps(review(s), {})
    <3>1. {strategy(s)} \cap Ownables = {} /\ NewToken \notin {strategy(s)}
      BY DEF Ownables, NewToken
    <3>2. Sound(SaveWhen(outdated(s), {strategy(s)}), {})
      BY <3>1, SoundSaveWhen
    <3>3. Sound(Configure("rates", s, Edition, HasNormalizedSymbol(s), outdated(s)), {})
      BY SoundConfigure, FieldsSet, FieldsApart
    <3> QED BY <3>2, <3>3, SoundTwo
  <2> HIDE DEF review
  <2>2. \A i \in 1..Len(market.symbols) : SoundSteps(parts[i], {})
    BY <2>1, SoundIf
  <2> QED BY <2>2, SoundGroups
<1>2. SoundSteps(<<Check(Recorded({GetAaveProtocolDataProvider, GetPoolAddressesProvider}))>>, {})
  BY SoundOne, SoundCheck
<1> QED BY <1>1, <1>2, SoundBoth DEF ReviewRateStrategies, ForEach

LEMMA SetupDebtCeilingSound == SoundSteps(SetupDebtCeiling, {})
<1> DEFINE setup(s) == <<Configure("ceiling", s, TRUE, HasReserveAddress(s), Wants("ceiling", s))>>
           parts == [i \in 1..Len(market.symbols) |->
                      If(market.symbols[i] \in Reserves, setup(market.symbols[i]))]
<1>1. ASSUME NEW i \in 1..Len(market.symbols) PROVE SoundSteps(setup(market.symbols[i]), {})
  BY SoundOne, SoundFlag, MarketSymbol DEF Flags
<1> HIDE DEF setup
<1>2. SoundSteps(FlattenSeq(parts), {})
  BY <1>1, SoundIf, SoundGroups
<1> QED BY <1>2 DEF SetupDebtCeiling, ForEach, setup

LEMMA SetupIsolationModeSound == SoundSteps(SetupIsolationMode, {})
<1> DEFINE setup(s) ==
             <<Configure("isolation", s, TRUE, HasReserveAddress(s), Wants("isolation", s))>>
           parts == [i \in 1..Len(market.symbols) |->
                      If(market.symbols[i] \in Reserves, setup(market.symbols[i]))]
<1>1. ASSUME NEW i \in 1..Len(market.symbols) PROVE SoundSteps(setup(market.symbols[i]), {})
  BY SoundOne, SoundFlag, MarketSymbol DEF Flags
<1> HIDE DEF setup
<1>2. SoundSteps(FlattenSeq(parts), {})
  BY <1>1, SoundIf, SoundGroups
<1> QED BY <1>2 DEF SetupIsolationMode, ForEach, setup

LEMMA SetupFeeSound == SoundSteps(SetupLiquidationProtocolFee, {})
<1> DEFINE setup(s) == <<Configure("fee", s, TRUE, HasReserveAddress(s), Wants("fee", s))>>
           parts == [i \in 1..Len(market.symbols) |->
                      If(market.symbols[i] \in Reserves, setup(market.symbols[i]))]
<1>1. ASSUME NEW i \in 1..Len(market.symbols) PROVE SoundSteps(setup(market.symbols[i]), {})
  BY SoundOne, SoundFlag, MarketSymbol DEF Flags
<1> HIDE DEF setup
<1>2. SoundSteps(FlattenSeq(parts), {})
  BY <1>1, SoundIf, SoundGroups
<1> QED BY <1>2 DEF SetupLiquidationProtocolFee, ForEach, setup

LEMMA SetupEModesSound == SoundSteps(SetupEModes, {})
<1> DEFINE asset(m, s) == Configure("category", s, m.id, HasReserveAddress(s), TRUE)
           category(m) ==
             <<Set(<<"EMODES">>, <<m.id>>, /\ Recorded({GetPoolConfiguratorProxy})
                                           /\ m.oracle = "none" \/ HasOracle(m.oracle))>>
             \o [i \in 1..Len(m.assets) |-> asset(m, m.assets[i])]
           parts == [i \in 1..Len(market.emodes) |-> category(market.emodes[i])]
<1>1. ASSUME NEW j \in 1..Len(market.emodes), NEW m, m = market.emodes[j]
      PROVE  SoundSteps(category(m), {})
  <2>1. <<"EMODES">> \notin ProxySlots /\ <<"EMODES">> # <<"ACL_ADMIN">>
    BY DEF ProxySlots
  <2> DEFINE first == Set(<<"EMODES">>, <<m.id>>, /\ Recorded({GetPoolConfiguratorProxy})
                                                  /\ m.oracle = "none" \/ HasOracle(m.oracle))
             rest == [i \in 1..Len(m.assets) |-> asset(m, m.assets[i])]
             S == {asset(m, m.assets[i]) : i \in 1..Len(m.assets)}
  <2>2. Sound(first, {})
    BY <2>1, SoundSet
  <2>3. ASSUME NEW i \in 1..Len(m.assets) PROVE Sound(asset(m, m.assets[i]), {})
    <3>1. Wanted("category", m.assets[i], m.id)
      BY <1>1 DEF Wanted, ToSet
    <3> QED BY <3>1, SoundApplied DEF AppliedFields
  <2> HIDE DEF first, asset
  <2>4. rest \in Seq(S) /\ \A s \in S : Sound(s, {})
    <3>1. Len(m.assets) \in Nat
      OBVIOUS
    <3> QED BY <2>3, <3>1
  <2> HIDE DEF rest, S
  <2>5. SoundSteps(rest, {})
    BY <2>4, SoundSeq
  <2> QED BY <2>2, <2>5, SoundOne, SoundBoth DEF first, rest
<1> HIDE DEF category
<1>2. SoundSteps(FlattenSeq(parts), {})
  BY <1>1, SoundIf, SoundGroups
<1> QED BY <1>2 DEF SetupEModes, category

LEMMA DisableFaucetSound == SoundSteps(DisableFaucetNativeTestnets, {})
<1>1. <<"FAUCET_DISABLED">> \notin ProxySlots /\ <<"FAUCET_DISABLED">> # <<"ACL_ADMIN">>
  BY DEF ProxySlots
<1>2. Sound(Set(<<"FAUCET_DISABLED">>, GetFaucet, Recorded({GetFaucet, GetWrappedTokenGateway})), {})
  BY <1>1, SoundSet
<1>3. Sound(Configure("borrowing", market.wrappedNative, FALSE, TRUE, TRUE), {})
  BY SoundConfigure, FieldsSet, FieldsApart
<1> QED BY <1>2, <1>3, SoundTwo DEF DisableFaucetNativeTestnets

LEMMA TransferOwnershipSound == SoundSteps(TransferProtocolOwnership, {"handover"})
BY SoundOne, SoundOther DEF TransferProtocolOwnership

LEMMA RenouncePoolAdminSound == SoundSteps(RenouncePoolAdmin, {"renounce"})
<1>1. Sound(Step("renounce", Nothing, Nothing,
                 market.multisig # Nobody /\ Recorded({GetPoolAddressesProvider}), TRUE), {"renounce"})
  BY SoundOther
<1> QED BY <1>1, SoundOne DEF RenouncePoolAdmin

LEMMA ViewProtocolRolesSound == SoundSteps(ViewProtocolRoles, {})
BY SoundOne, SoundCheck DEF ViewProtocolRoles

LEMMA TransferWrapperSound == SoundSteps(TransferOwnershipOfWrapper, {"handOne"})
<1>1. Sound(Step("handOne", <<"PacPoolWrapper">>, Nothing, Recorded({<<"PacPoolWrapper">>}),
                 owner[<<"PacPoolWrapper">>] # market.multisig), {"handOne"})
  BY SoundOther
<1> QED BY <1>1, SoundOne DEF TransferOwnershipOfWrapper

LEMMA AfterDeploySound == SoundSteps(AfterDeploySteps, HandoverOps)
<1> DEFINE unpause == <<Set(<<"UNPAUSED">>, GetPoolConfiguratorProxy,
                            Recorded({GetPoolConfiguratorProxy}))>>
<1>1. SoundSteps(unpause, {})
  <2>1. <<"UNPAUSED">> \notin ProxySlots /\ <<"UNPAUSED">> # <<"ACL_ADMIN">>
    BY DEF ProxySlots
  <2> QED BY <2>1, SoundOne, SoundSet
<1> HIDE DEF unpause
<1>2. SoundSteps(If(IsTestnetMarket, DisableFaucetNativeTestnets \o unpause), {})
  BY <1>1, DisableFaucetSound, SoundBoth, SoundIf
<1>3. SoundSteps(If(market.transfer,
                    TransferProtocolOwnership \o RenouncePoolAdmin \o ViewProtocolRoles), HandoverOps)
  <2>1. /\ SoundSteps(TransferProtocolOwnership, HandoverOps)
        /\ SoundSteps(RenouncePoolAdmin, HandoverOps)
        /\ SoundSteps(ViewProtocolRoles, HandoverOps)
    <3>1. {"handover"} \subseteq HandoverOps /\ {"renounce"} \subseteq HandoverOps
          /\ {} \subseteq HandoverOps
      BY DEF HandoverOps
    <3> QED BY <3>1, TransferOwnershipSound, RenouncePoolAdminSound, ViewProtocolRolesSound, SoundMore
  <2> QED BY <2>1, SoundBoth, SoundIf
<1> DEFINE setup == ReviewStableBorrow \o ReviewRateStrategies(FALSE) \o SetupDebtCeiling
                    \o SetupIsolationMode \o SetupEModes \o SetupLiquidationProtocolFee
                    \o If(IsTestnetMarket, DisableFaucetNativeTestnets \o unpause)
<1>4. SoundSteps(setup, {})
  BY <1>2, ReviewStableBorrowSound, ReviewRateStrategiesSound, SetupDebtCeilingSound,
     SetupIsolationModeSound, SetupEModesSound, SetupFeeSound, SoundBoth
<1> HIDE DEF setup
<1>5. SoundSteps(setup, HandoverOps)
  BY <1>4, SoundMore
<1> QED BY <1>3, <1>5, SoundBoth DEF AfterDeploySteps, setup, unpause

LEMMA ReviewSupplyCapsSound == SoundSteps(ReviewSupplyCaps, {})
<1> DEFINE review(s) == <<Configure("cap", s, Edition, s \in market.assets,
                                    reserve[s].cap # Edition)>>
           parts == [i \in 1..Len(market.symbols) |->
                      If(market.symbols[i] \in Listed, review(market.symbols[i]))]
<1>1. ASSUME NEW s PROVE SoundSteps(review(s), {})
  <2>1. "cap" \in PlainFields /\ "cap" \notin AppliedFields /\ "cap" # "borrowing" /\ Edition # 0
    BY FieldsApart DEF PlainFields, SetFields, Edition
  <2> DEFINE needs == s \in market.assets
             when == reserve[s].cap # Edition
             value == Edition
  <2>2. value # 0
    BY <2>1
  <2> HIDE DEF needs, when, value
  <2>3. Sound(Configure("cap", s, value, needs, when), {})
    BY <2>1, <2>2, SoundConfigure
  <2>4. SoundSteps(<<Configure("cap", s, value, needs, when)>>, {})
    BY <2>3, SoundOne
  <2> QED BY <2>4 DEF value, needs, when
<1>2. SoundSteps(<<Check(market.assets # {} /\ Recorded({GetAaveProtocolDataProvider}))>>, {})
  BY SoundOne, SoundCheck
<1> HIDE DEF review
<1>3. SoundSteps(FlattenSeq(parts), {})
  BY <1>1, SoundIf, SoundGroups
<1> QED BY <1>2, <1>3, SoundBoth DEF ReviewSupplyCaps, ForEach, review

LEMMA ReviewEModeSound == SoundSteps(ReviewEMode, {})
<1>1. <<"EMODES">> \notin ProxySlots /\ <<"EMODES">> # <<"ACL_ADMIN">>
  BY DEF ProxySlots
<1> QED BY <1>1, SoundOne, SoundSetWhen DEF ReviewEMode

LEMMA UpdateOracleSound == SoundSteps(UpdateOracle, {})
<1>1. {GetAaveOracle} \cap Ownables = {} /\ NewToken \notin {GetAaveOracle}
  BY DEF GetAaveOracle, Ownables, NewToken
<1> QED BY <1>1, SoundOne, SoundSave DEF UpdateOracle

LEMMA FallbackOracleSound == SoundSteps(SetFallbackOracle, {})
<1>1. <<"FALLBACK_ORACLE">> \notin ProxySlots /\ <<"FALLBACK_ORACLE">> # <<"ACL_ADMIN">>
  BY DEF ProxySlots
<1> QED BY <1>1, SoundOne, SoundSet DEF SetFallbackOracle

LEMMA UpgradeATokensSound ==
  ASSUME NEW matches PROVE SoundSteps(UpgradeATokensAndReview(matches), {"upgrade"})
<1> DEFINE upgrade(s) == <<Configure("revision", s, 2, TRUE, TRUE)>>
           parts(T) == [i \in 1..Len(market.symbols) |->
                         If(market.symbols[i] \in T, upgrade(market.symbols[i]))]
<1>1. ASSUME NEW s PROVE SoundSteps(upgrade(s), {"upgrade"})
  <2>1. Sound(Configure("revision", s, 2, TRUE, TRUE), {"upgrade"})
    BY FieldsApart DEF Sound, Configure, Step, PlainOps, SetFields, Apt
  <2> QED BY <2>1, SoundOne
<1>2. {<<"AToken-REV2">>} \cap Ownables = {}
  BY DEF Ownables
<1>3. SoundSteps(<<Save({<<"AToken-REV2">>},
                        Recorded({GetPoolAddressesProvider, <<"TreasuryProxy">>, GetIncentivesV2}))>>, {"upgrade"})
  <2>1. Sound(Save({<<"AToken-REV2">>},
                   Recorded({GetPoolAddressesProvider, <<"TreasuryProxy">>, GetIncentivesV2})),
              {"upgrade"})
    BY <1>2 DEF Sound, Save, Step, PlainOps
  <2> QED BY <2>1, SoundOne
<1> HIDE DEF upgrade
<1>4. ASSUME NEW T PROVE SoundSteps(FlattenSeq(parts(T)), {"upgrade"})
  BY <1>1, SoundIf, SoundGroups
<1> DEFINE a == FlattenSeq(parts(Listed \ market.later))
           b == FlattenSeq(parts(Listed \cap market.later))
<1>7. SoundSteps(a, {"upgrade"}) /\ SoundSteps(b, {"upgrade"})
  BY <1>4
<1>8. UpgradeATokens(matches) =
        <<Save({<<"AToken-REV2">>},
               Recorded({GetPoolAddressesProvider, <<"TreasuryProxy">>, GetIncentivesV2}))>>
        \o If(matches, a \o b)
  BY DEF UpgradeATokens, ForEach, upgrade
<1> HIDE DEF a, b, parts
<1>5. SoundSteps(UpgradeATokens(matches), {"upgrade"})
  BY <1>3, <1>7, <1>8, SoundBoth, SoundIf
<1>6. SoundSteps(ReviewATokens, {"upgrade"})
  BY SoundOne, SoundCheck DEF ReviewATokens
<1> QED BY <1>5, <1>6, SoundBoth DEF UpgradeATokensAndReview

LEMMA YieldDistributorSound == SoundSteps(DeployATokenYieldDistributor, {"distributor"})
<1>1. SoundSteps(<<Check(FALSE)>>, {"distributor"})
  BY SoundOne, SoundCheck
<1> QED BY <1>1, DistributorSound DEF DeployATokenYieldDistributor

LEMMA DeployWrapperSound == SoundSteps(DeployPacPoolWrapper, {})
BY SoundOne, SoundDeploy DEF DeployPacPoolWrapper, GetPoolAddressesProvider, NewToken

\* Every script and task is made of sound steps, and of the kinds it may have.
LEMMA StepsSound == ASSUME TypeOK, NEW c PROVE SoundSteps(StepsOf(c), OpsOf(c))
<1>1. CASE c \in {"before_deploy", "registry", "libraries", "treasury", "addresses_provider",
    "token_setup", "aggregators", "pool_impl", "l2_pool_impl", "configurator", "acl",
    "deploy_oracles", "init_oracles", "init_pool", "incentives", "tokens"}
  BY <1>1, SoundNone, RegistrySound, LibrariesSound, TreasurySound, AddressesProviderSound,
     TokenSetupSound, AggregatorsSound, PoolImplSound, L2PoolImplSound, ConfiguratorSound,
     InitAclSound, DeployOraclesSound, InitOraclesSound, InitPoolSound, IncentivesSound, TokensSound
     DEF StepsOf, OpsOf, BeforeDeploySteps
<1>2. CASE c \in {"init_reserves", "init_periphery", "gateway", "wallet_balance", "ui_helpers",
    "paraswap", "pool_wrapper", "native_yield", "after_deploy"}
  BY <1>2, SoundNone, InitReservesSound, InitPeripherySound, GatewaySound, WalletBalanceSound,
     UiHelpersSound, PoolWrapperSound, NativeYieldSound, AfterDeploySound
     DEF StepsOf, OpsOf, ParaswapSteps
<1>3. CASE c \in {"add-new-asset", "update-oracle", "set-fallback-oracle",
                 "review-rate-strategies", "review-supply-caps", "review-e-mode",
                 "upgrade-atokens-and-review", "upgrade-atokens-and-review --revision other"}
  BY <1>3, AddNewAssetSound, UpdateOracleSound, FallbackOracleSound, ReviewRateStrategiesSound,
     ReviewSupplyCapsSound, ReviewEModeSound, UpgradeATokensSound DEF StepsOf, OpsOf
<1>4. CASE c \in {"transfer-protocol-ownership", "renounce-pool-admin",
                 "view-protocol-roles", "transfer-ownership", "market-registry:add",
                 "deploy-yield-distributor", "deploy-pac-pool-wrapper"}
  BY <1>4, TransferOwnershipSound, RenouncePoolAdminSound, ViewProtocolRolesSound,
     TransferWrapperSound, RegisterSound, YieldDistributorSound, DeployWrapperSound DEF StepsOf, OpsOf
<1>5. ASSUME c \notin {"before_deploy", "registry", "libraries", "treasury", "addresses_provider",
    "token_setup", "aggregators", "pool_impl", "l2_pool_impl", "configurator", "acl",
    "deploy_oracles", "init_oracles", "init_pool", "incentives", "tokens",
    "init_reserves", "init_periphery", "gateway", "wallet_balance", "ui_helpers",
    "paraswap", "pool_wrapper", "native_yield", "after_deploy", "add-new-asset", "update-oracle",
    "set-fallback-oracle", "review-rate-strategies", "review-supply-caps", "review-e-mode",
    "upgrade-atokens-and-review", "upgrade-atokens-and-review --revision other",
    "transfer-protocol-ownership", "renounce-pool-admin",
    "view-protocol-roles", "transfer-ownership", "market-registry:add",
    "deploy-yield-distributor", "deploy-pac-pool-wrapper"}
      PROVE SoundSteps(StepsOf(c), OpsOf(c))
  BY <1>5, SoundNone DEF StepsOf, OpsOf
<1> QED BY <1>1, <1>2, <1>3, <1>4, <1>5

---------------------------------------------------------------------------
(* How a script goes on *)

\* The step that is due is the first that the test before it lets through, or
\* whose lookups fail.
LEMMA DueStep ==
  ASSUME NEW steps, Len(steps) \in Nat, proc.pc \in Nat
  PROVE  /\ StepDue(steps) \in proc.pc..Len(steps) \cup {Len(steps) + 1}
         /\ Passed(steps, StepDue(steps))
         /\ StepDue(steps) \in proc.pc..Len(steps) =>
              steps[StepDue(steps)].when \/ ~steps[StepDue(steps)].needs
<1> DEFINE due == {i \in proc.pc..Len(steps) : steps[i].when \/ ~steps[i].needs}
<1>1. \E i \in due \cup {Len(steps) + 1} : \A j \in due : i <= j
  <2>1. CASE due = {}
    BY <2>1
  <2>2. CASE due # {}
    <3>1. due \subseteq Nat
      OBVIOUS
    <3> HIDE DEF due
    <3> QED BY <2>2, <3>1, LeastNatural
  <2> QED BY <2>1, <2>2
<1>2. /\ StepDue(steps) \in due \cup {Len(steps) + 1}
      /\ \A j \in due : StepDue(steps) <= j
  BY <1>1 DEF StepDue
<1>3. ASSUME NEW j \in proc.pc..Len(steps), j < StepDue(steps)
      PROVE  steps[j].needs /\ ~steps[j].when
  <2>1. ~ (StepDue(steps) <= j)
    BY <1>2, <1>3
  <2>2. j \notin due
    BY <1>2, <2>1
  <2> QED BY <2>2
<1> QED BY <1>2, <1>3 DEF Passed

\* What a script does next: it ends, performs a step, or stops.
LEMMA ScriptStepCases ==
  ASSUME TypeOK, ScriptStep, proc.pc \in Nat \ {0}
  PROVE  \/ Passed(StepsOf(ThisScript), Len(StepsOf(ThisScript)) + 1) /\ EndScript
         \/ \E i \in proc.pc..Len(StepsOf(ThisScript)) :
              /\ Passed(StepsOf(ThisScript), i)
              /\ StepsOf(ThisScript)[i].needs /\ StepsOf(ThisScript)[i].when
              /\ ~Refused(StepsOf(ThisScript)[i])
              /\ Perform(StepsOf(ThisScript)[i], i)
              /\ UNCHANGED <<market, executed, history>>
         \/ /\ Stopped /\ UNCHANGED <<records, chain, market, executed, history>>
            /\ \E i \in proc.pc..Len(StepsOf(ThisScript)) :
                 /\ Passed(StepsOf(ThisScript), i)
                 /\ StepsOf(ThisScript)[i].needs => Refused(StepsOf(ThisScript)[i])
<1> DEFINE steps == StepsOf(ThisScript)
           n == StepDue(steps)
<1>1. Len(steps) \in Nat
  BY StepsSound, SoundEach
<1>2. /\ n \in proc.pc..Len(steps) \cup {Len(steps) + 1}
      /\ Passed(steps, n)
      /\ n \in proc.pc..Len(steps) => steps[n].when \/ ~steps[n].needs
  BY <1>1, DueStep
<1>3. IF n > Len(steps)
        THEN EndScript
        ELSE /\ IF steps[n].needs /\ ~Refused(steps[n])
                  THEN Perform(steps[n], n)
                  ELSE Stopped /\ UNCHANGED <<records, chain>>
             /\ UNCHANGED <<market, executed, history>>
  BY DEF ScriptStep
<1> HIDE DEF n, steps
<1>4. CASE n = Len(steps) + 1
  <2>1. n > Len(steps)
    BY <1>1, <1>4
  <2> QED BY <1>2, <1>3, <1>4, <2>1 DEF steps
<1>5. CASE n \in proc.pc..Len(steps)
  <2>1. ~ (n > Len(steps))
    BY <1>1, <1>5
  <2> QED BY <1>2, <1>3, <1>5, <2>1 DEF steps
<1> QED BY <1>2, <1>4, <1>5

\* What performing a step leaves alone.
LEMMA PerformFrame ==
  ASSUME TypeOK, handover = "none", NEW s, NEW i, Perform(s, i)
  PROVE  /\ UNCHANGED handover \/ s.op = "handover"
         /\ s.op \notin {"handover", "initReserves", "configureReserves"} => proc'.pc = i + 1
         /\ proc'.pc \in {i, i + 1} /\ proc'.queue = proc.queue
         /\ s.op = "set" => slots' = [slots EXCEPT ![s.id] = s.val]
         /\ s.op # "set" => UNCHANGED slots
         /\ s.op = "local" => proc'.any = s.val.any /\ proc'.todo = s.val.todo
         /\ s.op # "local" => proc'.any = proc.any
         /\ \A id \in records : id[1] # "NativeYieldDistribute" => id \in records'
         /\ s.op = "save" => s.id \subseteq records'
<1>1. DOMAIN proc = {"queue", "pc", "todo", "any"}
  BY DEF TypeOK
<1>2. CASE ListReserves(s, i) \/ ConfigureReserves(s, i)
  BY <1>1, <1>2 DEF ListReserves, ConfigureReserves
<1>3. CASE AssignLocals(s, i)
  BY <1>1, <1>3 DEF AssignLocals, chain
<1>4. CASE DeployContracts(s, i) \/ DeployDistributor(s, i) \/ SaveRecords(s, i) \/ Pass(s, i)
  BY <1>1, <1>4 DEF DeployContracts, DeployDistributor, SaveRecords, Pass, chain, GoTo
<1>5. CASE \/ InitializeContract(s, i) \/ TransferToDeployer(s, i) \/ GrantToDeployer(s, i)
           \/ ConfigureReserve(s, i) \/ HandOne(s, i) \/ Renounce(s, i)
           \/ MakeSetupHelperRiskAdmin(s, i) 
  BY <1>1, <1>5 DEF InitializeContract, TransferToDeployer, GrantToDeployer, ConfigureReserve,
     HandOne, Renounce, MakeSetupHelperRiskAdmin, GoTo
<1>6. CASE SetSlot(s, i) \/ BeginHandover(s, i)
  BY <1>1, <1>6 DEF SetSlot, BeginHandover, chain, GoTo
<1> QED BY <1>2, <1>3, <1>4, <1>5, <1>6 DEF Perform

---------------------------------------------------------------------------
(* The records follow the chain *)

\* A script that is done with what it must have made keeps the promise.
LEMMA FollowChainKept ==
  ASSUME RecordsFollowChain, ChainGrows, proc.pc \in Nat,
         "init_pool" \in finished' => "init_pool" \in finished \/ (PoolProgress /\ proc.pc > 4),
         "incentives" \in finished' => "incentives" \in finished \/ (IncentivesProgress /\ proc.pc > 6)
  PROVE  RecordsFollowChain'
<1>1. /\ GetPool[1] # "NativeYieldDistribute" /\ GetPoolConfiguratorProxy[1] # "NativeYieldDistribute"
      /\ GetIncentivesV2[1] # "NativeYieldDistribute"
  BY DEF GetPool, GetPoolConfiguratorProxy, GetIncentivesV2
<1>2. "init_pool" \in finished' =>
        /\ slots[<<"POOL">>] # Nothing /\ GetPool \in records
        /\ slots[<<"POOL_CONFIGURATOR">>] # Nothing /\ GetPoolConfiguratorProxy \in records
  <2>1. proc.pc > 4 => proc.pc > 1 /\ proc.pc > 2 /\ proc.pc > 3
    OBVIOUS
  <2> QED BY <2>1 DEF RecordsFollowChain, PoolProgress
<1>3. "incentives" \in finished' =>
        slots[<<"INCENTIVES_CONTROLLER">>] # Nothing /\ GetIncentivesV2 \in records
  <2>1. proc.pc > 6 => proc.pc > 4
    OBVIOUS
  <2> QED BY <2>1 DEF RecordsFollowChain, IncentivesProgress
<1>4. \A p \in {<<"POOL">>, <<"POOL_CONFIGURATOR">>, <<"INCENTIVES_CONTROLLER">>} :
         slots[p] # Nothing => slots'[p] # Nothing
  BY DEF ChainGrows, ProxySlots
<1>5. \A id \in {GetPool, GetPoolConfiguratorProxy, GetIncentivesV2} :
         id \in records => id \in records'
  BY <1>1 DEF ChainGrows
<1> QED BY <1>2, <1>3, <1>4, <1>5 DEF RecordsFollowChain

\* A process that is idle, or about to start a script, has come nowhere.
LEMMA AtFirstStep ==
  ASSUME proc'.pc = 1, handover' = "none", RecordsFollowChain'
  PROVE  ChainInv'
BY DEF ChainInv, ProcessInv, PoolProgress, IncentivesProgress

\* No sound step unmakes a proxy, or loses a record but a distributor's.
LEMMA PerformGrows ==
  ASSUME TypeOK, handover = "none", NEW s, NEW i, NEW ops, Sound(s, ops), Perform(s, i)
  PROVE  ChainGrows
<1>1. \A p \in ProxySlots : slots[p] # Nothing => slots'[p] # Nothing
  <2>1. DOMAIN slots = Slots /\ ProxySlots \subseteq Slots
    BY DEF TypeOK, ProxySlots, Slots
  <2>2. CASE s.op = "set"
    <3>1. slots' = [slots EXCEPT ![s.id] = s.val]
      BY <2>2, PerformFrame
    <3>2. s.id \in ProxySlots => s.val # Nothing
      BY <2>2 DEF Sound
    <3> QED BY <2>1, <3>1, <3>2
  <2>3. CASE s.op # "set"
    BY <2>3, PerformFrame
  <2> QED BY <2>2, <2>3
<1> QED BY <1>1, PerformFrame DEF ChainGrows

\* The first four steps of init-pool: a proxy is made unless it is there, its
\* record is saved either way.
LEMMA InitPoolShape ==
  /\ Len(InitPoolSteps) \in Nat /\ Len(InitPoolSteps) >= 6
  /\ InitPoolSteps[1].op = "set" /\ InitPoolSteps[1].id = <<"POOL">>
  /\ InitPoolSteps[1].val # Nothing
  /\ ~InitPoolSteps[1].when => slots[<<"POOL">>] # Nothing
  /\ InitPoolSteps[2].op = "save" /\ InitPoolSteps[2].id = {GetPool} /\ InitPoolSteps[2].when
  /\ InitPoolSteps[3].op = "set" /\ InitPoolSteps[3].id = <<"POOL_CONFIGURATOR">>
  /\ InitPoolSteps[3].val # Nothing
  /\ ~InitPoolSteps[3].when => slots[<<"POOL_CONFIGURATOR">>] # Nothing
  /\ InitPoolSteps[4].op = "save" /\ InitPoolSteps[4].id = {GetPoolConfiguratorProxy}
  /\ InitPoolSteps[4].when
<1> DEFINE configurator == <<"PoolConfigurator-Implementation">>
           a == SetWhen(slots[<<"POOL">>] = Nothing, <<"POOL">>, PoolImpl,
                        Recorded({PoolImpl, configurator, GetPoolAddressesProvider}))
           b == Save({GetPool}, TRUE)
           c == SetWhen(slots[<<"POOL_CONFIGURATOR">>] = Nothing, <<"POOL_CONFIGURATOR">>,
                        configurator, TRUE)
           d == Save({GetPoolConfiguratorProxy}, TRUE)
           e == If(IsL2PoolSupported, <<Deploy({<<"L2Encoder">>}, TRUE)>>)
           f == Set(<<"FLASHLOAN_PREMIUM_TOTAL">>, GetPoolConfiguratorProxy, TRUE)
           g == Set(<<"FLASHLOAN_PREMIUM_TO_PROTOCOL">>, GetPoolConfiguratorProxy, TRUE)
<1>1. /\ a.op = "set" /\ a.id = <<"POOL">> /\ a.val # Nothing /\ (~a.when => slots[<<"POOL">>] # Nothing)
      /\ b.op = "save" /\ b.id = {GetPool} /\ b.when
      /\ c.op = "set" /\ c.id = <<"POOL_CONFIGURATOR">> /\ c.val # Nothing
      /\ (~c.when => slots[<<"POOL_CONFIGURATOR">>] # Nothing)
      /\ d.op = "save" /\ d.id = {GetPoolConfiguratorProxy} /\ d.when
  BY DEF Set, SetWhen, Save, Step, PoolImpl, Nothing
<1>2. InitPoolSteps = <<a, b, c, d>> \o e \o <<f, g>>
  BY DEF InitPoolSteps
<1>3. e = <<>> \/ \E x : e = <<x>>
  BY DEF If
<1> HIDE DEF a, b, c, d, e, f, g
<1>4. /\ Len(InitPoolSteps) \in Nat /\ Len(InitPoolSteps) >= 6
      /\ InitPoolSteps[1] = a /\ InitPoolSteps[2] = b /\ InitPoolSteps[3] = c /\ InitPoolSteps[4] = d
  BY <1>2, <1>3
<1> QED BY <1>1, <1>4

\* What init-pool has behind it at a step that it comes to.
LEMMA PoolPassed ==
  ASSUME proc.pc \in Nat \ {0}, PoolProgress, NEW n \in Nat, proc.pc <= n,
         n <= Len(InitPoolSteps) + 1, Passed(InitPoolSteps, n)
  PROVE  /\ n > 1 => slots[<<"POOL">>] # Nothing
         /\ n > 2 => GetPool \in records
         /\ n > 3 => slots[<<"POOL_CONFIGURATOR">>] # Nothing
         /\ n > 4 => GetPoolConfiguratorProxy \in records
<1>1. ASSUME NEW j \in 1..6, j >= proc.pc, j < n PROVE ~InitPoolSteps[j].when
  <2>1. j \in proc.pc..Len(InitPoolSteps)
    BY <1>1, InitPoolShape
  <2> QED BY <1>1, <2>1 DEF Passed
<1>2. proc.pc > 2 \/ n <= 2
  BY <1>1, InitPoolShape
<1>3. proc.pc > 4 \/ n <= 4
  BY <1>1, InitPoolShape
<1>4. n > 1 => proc.pc > 1 \/ slots[<<"POOL">>] # Nothing
  BY <1>1, InitPoolShape
<1>5. n > 3 => proc.pc > 3 \/ slots[<<"POOL_CONFIGURATOR">>] # Nothing
  BY <1>1, InitPoolShape
<1> QED BY <1>2, <1>3, <1>4, <1>5 DEF PoolProgress

\* A step of init-pool leaves behind it what it must.
LEMMA PoolProgressKept ==
  ASSUME TypeOK, handover = "none", proc.pc \in Nat \ {0}, PoolProgress,
         NEW i \in proc.pc..Len(InitPoolSteps), Passed(InitPoolSteps, i),
         Perform(InitPoolSteps[i], i), ChainGrows
  PROVE  PoolProgress'
<1> DEFINE s == InitPoolSteps[i]
<1>1. i \in Nat \ {0} /\ proc.pc <= i /\ i <= Len(InitPoolSteps) + 1
  BY InitPoolShape
<1>2. /\ i > 1 => slots[<<"POOL">>] # Nothing
      /\ i > 2 => GetPool \in records
      /\ i > 3 => slots[<<"POOL_CONFIGURATOR">>] # Nothing
      /\ i > 4 => GetPoolConfiguratorProxy \in records
  BY <1>1, PoolPassed
<1>3. \A p \in {<<"POOL">>, <<"POOL_CONFIGURATOR">>} : slots[p] # Nothing => slots'[p] # Nothing
  BY DEF ChainGrows, ProxySlots
<1>4. \A id \in {GetPool, GetPoolConfiguratorProxy} : id \in records => id \in records'
  <2>1. GetPool[1] # "NativeYieldDistribute" /\ GetPoolConfiguratorProxy[1] # "NativeYieldDistribute"
    BY DEF GetPool, GetPoolConfiguratorProxy
  <2> QED BY <2>1 DEF ChainGrows
<1>5. proc'.pc \in {i, i + 1}
  BY PerformFrame
<1>6. DOMAIN slots = Slots /\ <<"POOL">> \in Slots /\ <<"POOL_CONFIGURATOR">> \in Slots
  BY DEF TypeOK, Slots
<1>7. i = 1 => slots'[<<"POOL">>] # Nothing
  <2> SUFFICES ASSUME i = 1 PROVE slots'[<<"POOL">>] # Nothing
    OBVIOUS
  <2>1. s.op = "set" /\ s.id = <<"POOL">> /\ s.val # Nothing
    BY InitPoolShape
  <2>2. slots' = [slots EXCEPT ![s.id] = s.val]
    BY <2>1, PerformFrame
  <2> QED BY <1>6, <2>1, <2>2
<1>8. i = 3 => slots'[<<"POOL_CONFIGURATOR">>] # Nothing
  <2> SUFFICES ASSUME i = 3 PROVE slots'[<<"POOL_CONFIGURATOR">>] # Nothing
    OBVIOUS
  <2>1. s.op = "set" /\ s.id = <<"POOL_CONFIGURATOR">> /\ s.val # Nothing
    BY InitPoolShape
  <2>2. slots' = [slots EXCEPT ![s.id] = s.val]
    BY <2>1, PerformFrame
  <2> QED BY <1>6, <2>1, <2>2
<1>9. /\ i = 2 => GetPool \in records'
      /\ i = 4 => GetPoolConfiguratorProxy \in records'
  <2>1. /\ i = 2 => s.op = "save" /\ GetPool \in s.id
        /\ i = 4 => s.op = "save" /\ GetPoolConfiguratorProxy \in s.id
    BY InitPoolShape
  <2>2. s.op = "save" => s.id \subseteq records'
    BY PerformFrame
  <2> QED BY <2>1, <2>2
<1> HIDE DEF s
<1>10. /\ proc'.pc > 1 => slots'[<<"POOL">>] # Nothing
       /\ proc'.pc > 2 => GetPool \in records'
  <2>1. proc'.pc > 1 => i = 1 \/ i > 1
    BY <1>1
  <2>2. proc'.pc > 2 => i = 2 \/ i > 2
    BY <1>1, <1>5
  <2> QED BY <1>2, <1>3, <1>4, <1>7, <1>9, <2>1, <2>2
<1>11. /\ proc'.pc > 3 => slots'[<<"POOL_CONFIGURATOR">>] # Nothing
       /\ proc'.pc > 4 => GetPoolConfiguratorProxy \in records'
  <2>1. proc'.pc > 3 => i = 3 \/ i > 3
    BY <1>1, <1>5
  <2>2. proc'.pc > 4 => i = 4 \/ i > 4
    BY <1>1, <1>5
  <2> QED BY <1>2, <1>3, <1>4, <1>8, <1>9, <2>1, <2>2
<1> QED BY <1>10, <1>11 DEF PoolProgress, GetPool, GetPoolConfiguratorProxy, Nothing

\* At its end init-pool has come behind its records.
LEMMA PoolComplete ==
  ASSUME proc.pc \in Nat \ {0}, PoolProgress, Passed(InitPoolSteps, Len(InitPoolSteps) + 1)
  PROVE  proc.pc > 4
<1>1. CASE 4 \in proc.pc..Len(InitPoolSteps)
  BY <1>1, InitPoolShape DEF Passed
<1> QED BY <1>1, InitPoolShape

\* The first six steps of the incentives script: the record is saved by the run
\* that makes the proxy, and looked up by every run.
LEMMA IncentivesShape ==
  /\ Len(IncentivesSteps) \in Nat /\ Len(IncentivesSteps) >= 7
  /\ IncentivesSteps[1].op = "deploy" /\ IncentivesSteps[2].op = "initialize"
  /\ IncentivesSteps[3].op = "local" /\ IncentivesSteps[3].when
  /\ IncentivesSteps[3].val.any \/ slots[<<"INCENTIVES_CONTROLLER">>] # Nothing
  /\ IncentivesSteps[4].op = "set" /\ IncentivesSteps[4].id = <<"INCENTIVES_CONTROLLER">>
  /\ IncentivesSteps[4].val # Nothing
  /\ ~IncentivesSteps[4].when => ~proc.any
  /\ IncentivesSteps[5].op = "save"
  /\ IncentivesSteps[6].op = "set" /\ IncentivesSteps[6].when
  /\ IncentivesSteps[6].id # <<"INCENTIVES_CONTROLLER">>
  /\ IncentivesSteps[6].needs => GetIncentivesV2 \in records
<1> DEFINE implementation == <<"IncentivesV2-Implementation">>
           a == Deploy({GetEmissionManager, implementation}, Recorded({GetPoolAddressesProvider}))
           b == Initialize(implementation)
           c == Remember(slots[<<"INCENTIVES_CONTROLLER">>] = Nothing)
           d == SetWhen(proc.any, <<"INCENTIVES_CONTROLLER">>, implementation, TRUE)
           e == SaveWhen(proc.any, {GetIncentivesV2})
           f == Set(<<"REWARDS_CONTROLLER">>, GetIncentivesV2, Recorded({GetIncentivesV2}))
           r == <<Deploy({<<"PullRewardsTransferStrategy">>}, TRUE)>>
                \o If(Recorded({<<"StakeAave-Proxy">>}),
                      <<Deploy({<<"StakedTokenTransferStrategy">>}, TRUE)>>)
           g == If(~market.live, r)
           h == TransferOwnership(GetEmissionManager)
<1>1. /\ a.op = "deploy" /\ b.op = "initialize" /\ c.op = "local" /\ c.when
      /\ d.op = "set" /\ d.id = <<"INCENTIVES_CONTROLLER">> /\ d.val # Nothing
      /\ (~d.when => ~proc.any)
      /\ e.op = "save" /\ f.op = "set" /\ f.when /\ f.id # <<"INCENTIVES_CONTROLLER">>
      /\ (f.needs => GetIncentivesV2 \in records)
  BY DEF Set, SetWhen, SaveWhen, Deploy, Initialize, Remember, Step, Nothing, Recorded
<1>2. c.val.any \/ slots[<<"INCENTIVES_CONTROLLER">>] # Nothing
  BY DEF Remember, Step
<1>3. IncentivesSteps = <<a, b, c, d, e, f>> \o g \o <<h>>
  BY DEF IncentivesSteps
<1>4. SoundSteps(r, {})
  <2>1. /\ SoundSteps(<<Deploy({<<"PullRewardsTransferStrategy">>}, TRUE)>>, {})
        /\ SoundSteps(<<Deploy({<<"StakedTokenTransferStrategy">>}, TRUE)>>, {})
    BY SoundOne, SoundDeployOne, OtherNames
  <2> QED BY <2>1, SoundIf, SoundBoth
<1> DEFINE first == <<a, b, c, d, e, f>>
           last  == <<h>>
<1> HIDE DEF r
<1>5. \E T : g \in Seq(T)
  BY <1>4, SoundIf DEF SoundSteps
<1> HIDE DEF a, b, c, d, e, f, g, h
<1>6. /\ first \in Seq({a, b, c, d, e, f}) /\ last \in Seq({h})
      /\ Len(first) = 6 /\ first[1] = a /\ first[2] = b /\ first[3] = c
      /\ first[4] = d /\ first[5] = e /\ first[6] = f /\ Len(last) = 1
  OBVIOUS
<1> DEFINE F == {a, b, c, d, e, f}
           H == {h}
<1>7. first \in Seq(F) /\ last \in Seq(H)
  BY <1>6
<1>8. /\ Len(IncentivesSteps) \in Nat /\ Len(IncentivesSteps) >= 7
      /\ \A i \in 1..6 : IncentivesSteps[i] = first[i]
  <2>1. IncentivesSteps = (first \o g) \o last
    BY <1>3
  <2> HIDE DEF first, last, F, H
  <2>2. PICK T : g \in Seq(T)
    BY <1>5
  <2>3. /\ first \o g \in Seq(F \cup T) /\ Len(first \o g) = Len(first) + Len(g)
        /\ \A i \in 1..Len(first) : (first \o g)[i] = first[i]
    BY <1>7, <2>2, Joined
  <2>4. /\ Len(IncentivesSteps) = Len(first \o g) + Len(last)
        /\ \A i \in 1..Len(first \o g) : IncentivesSteps[i] = (first \o g)[i]
    BY <1>7, <2>1, <2>3, Joined
  <2>5. Len(g) \in Nat
    BY <2>2
  <2> QED BY <1>6, <2>3, <2>4, <2>5
<1>9. /\ IncentivesSteps[1] = a /\ IncentivesSteps[2] = b /\ IncentivesSteps[3] = c
      /\ IncentivesSteps[4] = d /\ IncentivesSteps[5] = e /\ IncentivesSteps[6] = f
  BY <1>6, <1>8
<1> QED BY <1>1, <1>2, <1>8, <1>9

\* What the incentives script has behind it at a step that it comes to.
LEMMA IncentivesPassed ==
  ASSUME proc.pc \in Nat \ {0}, IncentivesProgress, NEW n \in Nat, proc.pc <= n,
         n <= Len(IncentivesSteps) + 1, Passed(IncentivesSteps, n)
  PROVE  /\ n > 3 => proc.any \/ slots[<<"INCENTIVES_CONTROLLER">>] # Nothing
         /\ n > 4 => slots[<<"INCENTIVES_CONTROLLER">>] # Nothing
         /\ n > 6 => GetIncentivesV2 \in records
<1>1. ASSUME NEW j \in 1..7, j >= proc.pc, j < n PROVE ~IncentivesSteps[j].when
  <2>1. j \in proc.pc..Len(IncentivesSteps)
    BY <1>1, IncentivesShape
  <2> QED BY <1>1, <2>1 DEF Passed
<1>2. proc.pc > 3 \/ n <= 3
  BY <1>1, IncentivesShape
<1>3. proc.pc > 6 \/ n <= 6
  BY <1>1, IncentivesShape
<1>4. n > 4 => proc.pc > 4 \/ ~proc.any
  BY <1>1, <1>2, IncentivesShape
<1> QED BY <1>2, <1>3, <1>4 DEF IncentivesProgress

\* A step of the incentives script leaves behind it what it must.
LEMMA IncentivesProgressKept ==
  ASSUME TypeOK, handover = "none", proc.pc \in Nat \ {0}, IncentivesProgress,
         NEW i \in proc.pc..Len(IncentivesSteps), Passed(IncentivesSteps, i),
         IncentivesSteps[i].needs, Perform(IncentivesSteps[i], i), ChainGrows
  PROVE  IncentivesProgress'
<1> DEFINE s == IncentivesSteps[i]
<1>1. i \in Nat \ {0} /\ proc.pc <= i /\ i <= Len(IncentivesSteps) + 1
  BY IncentivesShape
<1>2. /\ i > 3 => proc.any \/ slots[<<"INCENTIVES_CONTROLLER">>] # Nothing
      /\ i > 4 => slots[<<"INCENTIVES_CONTROLLER">>] # Nothing
      /\ i > 6 => GetIncentivesV2 \in records
  BY <1>1, IncentivesPassed
<1>3. slots[<<"INCENTIVES_CONTROLLER">>] # Nothing => slots'[<<"INCENTIVES_CONTROLLER">>] # Nothing
  BY DEF ChainGrows, ProxySlots
<1>4. GetIncentivesV2 \in records => GetIncentivesV2 \in records'
  <2>1. GetIncentivesV2[1] # "NativeYieldDistribute"
    BY DEF GetIncentivesV2
  <2> QED BY <2>1 DEF ChainGrows
<1>5. proc'.pc \in {i, i + 1}
  BY PerformFrame
<1>6. DOMAIN slots = Slots /\ <<"INCENTIVES_CONTROLLER">> \in Slots
  BY DEF TypeOK, Slots
<1>7. i = 3 => proc'.any \/ slots'[<<"INCENTIVES_CONTROLLER">>] # Nothing
  <2> SUFFICES ASSUME i = 3
               PROVE  proc'.any \/ slots'[<<"INCENTIVES_CONTROLLER">>] # Nothing
    OBVIOUS
  <2>1. s.op = "local" /\ (s.val.any \/ slots[<<"INCENTIVES_CONTROLLER">>] # Nothing)
    BY IncentivesShape
  <2>2. proc'.any = s.val.any
    BY <2>1, PerformFrame
  <2> QED BY <1>3, <2>1, <2>2
<1>8. i = 4 => slots'[<<"INCENTIVES_CONTROLLER">>] # Nothing
  <2> SUFFICES ASSUME i = 4 PROVE slots'[<<"INCENTIVES_CONTROLLER">>] # Nothing
    OBVIOUS
  <2>1. s.op = "set" /\ s.id = <<"INCENTIVES_CONTROLLER">> /\ s.val # Nothing
    BY IncentivesShape
  <2>2. slots' = [slots EXCEPT ![s.id] = s.val]
    BY <2>1, PerformFrame
  <2> QED BY <1>6, <2>1, <2>2
<1>9. i = 6 => GetIncentivesV2 \in records
  BY IncentivesShape
<1> HIDE DEF s
<1>10. proc'.pc > 3 => proc'.any \/ slots'[<<"INCENTIVES_CONTROLLER">>] # Nothing
  <2>1. proc'.pc > 3 => i = 3 \/ i = 4 \/ i > 4
    BY <1>1, <1>5
  <2> QED BY <1>2, <1>3, <1>7, <1>8, <2>1
<1>11. proc'.pc > 4 => slots'[<<"INCENTIVES_CONTROLLER">>] # Nothing
  <2>1. proc'.pc > 4 => i = 4 \/ i > 4
    BY <1>1, <1>5
  <2> QED BY <1>2, <1>3, <1>8, <2>1
<1>12. proc'.pc > 6 => GetIncentivesV2 \in records'
  <2>1. proc'.pc > 6 => i = 6 \/ i > 6
    BY <1>1, <1>5
  <2> QED BY <1>2, <1>4, <1>9, <2>1
<1> QED BY <1>10, <1>11, <1>12 DEF IncentivesProgress, GetIncentivesV2, Nothing

\* At its end the incentives script has come behind the step that looks its
\* record up.
LEMMA IncentivesComplete ==
  ASSUME proc.pc \in Nat \ {0}, Passed(IncentivesSteps, Len(IncentivesSteps) + 1)
  PROVE  proc.pc > 6
<1>1. CASE 6 \in proc.pc..Len(IncentivesSteps)
  BY <1>1, IncentivesShape DEF Passed
<1> QED BY <1>1, IncentivesShape

\* Nothing is lost where nothing is written.
LEMMA NothingWritten == UNCHANGED <<slots, records>> => ChainGrows
BY DEF ChainGrows

\* The promise stays while no script ends.
LEMMA FollowChainStays ==
  ASSUME RecordsFollowChain, ChainGrows, proc.pc \in Nat, UNCHANGED finished
  PROVE  RecordsFollowChain'
<1>1. /\ "init_pool" \in finished' => "init_pool" \in finished \/ (PoolProgress /\ proc.pc > 4)
      /\ "incentives" \in finished' => "incentives" \in finished \/ (IncentivesProgress /\ proc.pc > 6)
  OBVIOUS
<1> QED BY <1>1, FollowChainKept

\* A step of a script keeps the proxies and says how far the script has come.
LEMMA PerformChain ==
  ASSUME TypeOK, Running, handover = "none", ChainInv,
         NEW i \in proc.pc..Len(StepsOf(ThisScript)), Passed(StepsOf(ThisScript), i),
         StepsOf(ThisScript)[i].needs, Perform(StepsOf(ThisScript)[i], i),
         UNCHANGED <<market, executed, history>>
  PROVE  ChainInv'
<1> DEFINE steps == StepsOf(ThisScript)
           s == steps[i]
<1>1. proc.pc \in Nat \ {0}
  BY DEF ChainInv, ProcessInv
<1>2. Len(steps) \in Nat /\ Sound(s, OpsOf(ThisScript))
  BY <1>1, StepsSound, SoundEach
<1>3. ChainGrows
  BY <1>2, PerformGrows
<1>4. /\ proc'.pc \in {i, i + 1} /\ proc'.queue = proc.queue
      /\ handover' = "none" \/ s.op = "handover"
  BY PerformFrame
<1>5. proc'.pc \in Nat \ {0} /\ ThisScript' = ThisScript /\ Running' = Running
  BY <1>1, <1>2, <1>4 DEF ThisScript, Running
<1>6. ProcessInv'
  <2>1. s.op = "handover" => "handover" \in OpsOf(ThisScript)
    BY <1>2 DEF Sound, PlainOps
  <2>2. OpsOf(ThisScript)' = OpsOf(ThisScript)
    BY <1>5 DEF OpsOf, ListingOps, HandoverOps
  <2> QED BY <1>4, <1>5, <2>1, <2>2 DEF ProcessInv
<1>7. At("init_pool")' => PoolProgress'
  <2> SUFFICES ASSUME At("init_pool") PROVE PoolProgress'
    BY <1>5 DEF At
  <2>1. steps = InitPoolSteps
    BY DEF At, StepsOf
  <2> HIDE DEF steps
  <2> QED BY <1>1, <1>3, <2>1, PoolProgressKept DEF ChainInv, steps
<1>8. At("incentives")' => IncentivesProgress'
  <2> SUFFICES ASSUME At("incentives") PROVE IncentivesProgress'
    BY <1>5 DEF At
  <2>1. steps = IncentivesSteps
    BY DEF At, StepsOf
  <2> HIDE DEF steps
  <2> QED BY <1>1, <1>3, <2>1, IncentivesProgressKept DEF ChainInv, steps
<1>9. RecordsFollowChain'
  <2>1. RecordsFollowChain /\ UNCHANGED finished
    BY DEF ChainInv, history
  <2> QED BY <1>1, <1>3, <2>1, FollowChainStays
<1> QED BY <1>6, <1>7, <1>8, <1>9 DEF ChainInv

\* A script that ends has all its steps behind it.
LEMMA EndScriptChain ==
  ASSUME Running, handover = "none", ChainInv, EndScript,
         Passed(StepsOf(ThisScript), Len(StepsOf(ThisScript)) + 1)
  PROVE  ChainInv'
<1>1. proc.pc \in Nat \ {0} /\ RecordsFollowChain
  BY DEF ChainInv, ProcessInv
<1>2. /\ UNCHANGED <<slots, records, handover>> /\ proc'.pc = 1
      /\ finished' \subseteq finished \cup {ThisScript}
  BY DEF EndScript, chain, Idle
<1>3. ThisScript = "init_pool" => PoolProgress /\ proc.pc > 4
  <2> SUFFICES ASSUME ThisScript = "init_pool" PROVE PoolProgress /\ proc.pc > 4
    OBVIOUS
  <2>1. PoolProgress
    BY DEF ChainInv, At
  <2>2. StepsOf(ThisScript) = InitPoolSteps
    BY DEF StepsOf
  <2> QED BY <1>1, <2>1, <2>2, PoolComplete
<1>4. ThisScript = "incentives" => IncentivesProgress /\ proc.pc > 6
  <2> SUFFICES ASSUME ThisScript = "incentives" PROVE IncentivesProgress /\ proc.pc > 6
    OBVIOUS
  <2>1. IncentivesProgress
    BY DEF ChainInv, At
  <2>2. StepsOf(ThisScript) = IncentivesSteps
    BY DEF StepsOf
  <2> QED BY <1>1, <2>1, <2>2, IncentivesComplete
<1>5. RecordsFollowChain'
  <2>1. /\ "init_pool" \in finished' => "init_pool" \in finished \/ (PoolProgress /\ proc.pc > 4)
        /\ "incentives" \in finished' =>
             "incentives" \in finished \/ (IncentivesProgress /\ proc.pc > 6)
    BY <1>2, <1>3, <1>4
  <2>2. ChainGrows
    BY <1>2, NothingWritten
  <2> QED BY <1>1, <2>1, <2>2, FollowChainKept
<1> QED BY <1>2, <1>5, AtFirstStep

\* What a script does next keeps the invariant.
LEMMA ScriptStepChain ==
  ASSUME TypeOK, ChainInv, ScriptStep
  PROVE  ChainInv'
<1>1. Running /\ handover = "none" /\ proc.pc \in Nat \ {0} /\ RecordsFollowChain
  BY DEF ScriptStep, ChainInv, ProcessInv
<1>2. CASE Stopped /\ UNCHANGED <<records, chain, market, executed, history>>
  <2>1. UNCHANGED <<slots, records, finished>> /\ proc'.pc = 1 /\ handover' = "none"
    BY <1>2 DEF chain, history, Stopped, Idle
  <2>2. RecordsFollowChain'
    BY <1>1, <2>1, NothingWritten, FollowChainStays
  <2> QED BY <2>1, <2>2, AtFirstStep
<1>3. CASE Passed(StepsOf(ThisScript), Len(StepsOf(ThisScript)) + 1) /\ EndScript
  BY <1>1, <1>3, EndScriptChain
<1>4. ASSUME NEW i \in proc.pc..Len(StepsOf(ThisScript)),
             Passed(StepsOf(ThisScript), i), StepsOf(ThisScript)[i].needs,
             Perform(StepsOf(ThisScript)[i], i), UNCHANGED <<market, executed, history>>
      PROVE  ChainInv'
  BY <1>1, <1>4, PerformChain
<1> QED BY <1>1, <1>2, <1>3, <1>4, ScriptStepCases

\* A step of the handover is one of a script that hands over.
LEMMA HandoverStepChain ==
  ASSUME TypeOK, ChainInv, HandoverStep
  PROVE  ChainInv'
<1>1. handover # "none" /\ proc.pc \in Nat \ {0} /\ RecordsFollowChain
  BY DEF HandoverStep, TransferAdapters, TransferAdmins, TransferACLAdmin, TransferContracts,
         TransferDefaultAdmin, ChainInv, ProcessInv
<1>2. UNCHANGED <<records, history, market>>
  BY DEF HandoverStep, disk
<1>3. \A p \in ProxySlots : slots'[p] = slots[p]
  <2>1. \A p \in ProxySlots : p # <<"ACL_ADMIN">> /\ p \in Slots
    BY DEF ProxySlots, Slots
  <2>2. slots' = slots \/ slots' = [slots EXCEPT ![<<"ACL_ADMIN">>] = market.multisig]
    BY DEF HandoverStep, TransferAdapters, TransferAdmins, TransferACLAdmin, TransferContracts,
         TransferDefaultAdmin, HandOver, GiveRole, TakeRole
  <2>3. DOMAIN slots = Slots
    BY DEF TypeOK
  <2> QED BY <2>1, <2>2, <2>3
<1>4. proc' = proc \/ proc' = [proc EXCEPT !.pc = @ + 1]
  BY DEF HandoverStep, TransferAdapters, TransferAdmins, TransferACLAdmin, TransferContracts,
         TransferDefaultAdmin, HandOver, GiveRole, TakeRole
<1>5. DOMAIN proc = {"queue", "pc", "todo", "any"}
  BY DEF TypeOK
<1>6. proc'.queue = proc.queue /\ proc'.pc \in Nat \ {0}
  BY <1>1, <1>4, <1>5
<1>7. ThisScript' = ThisScript /\ Running' = Running
  BY <1>6 DEF ThisScript, Running
<1>8. ~At("init_pool") /\ ~At("incentives") /\ "handover" \in OpsOf(ThisScript)
  BY <1>1 DEF ChainInv, ProcessInv, At, OpsOf
<1>9. OpsOf(ThisScript)' = OpsOf(ThisScript)
  BY <1>7 DEF OpsOf, ListingOps, HandoverOps
<1>10. ChainGrows
  BY <1>2, <1>3 DEF ChainGrows
<1>11. RecordsFollowChain'
  BY <1>1, <1>2, <1>10, FollowChainStays DEF history
<1> QED BY <1>6, <1>7, <1>8, <1>9, <1>11 DEF ChainInv, ProcessInv, At

\* So does every step of the deployment.
LEMMA NextChain ==
  ASSUME DeploymentInv, ChainInv, [Next]_vars
  PROVE  ChainInv'
<1>1. TypeOK /\ proc.pc \in Nat \ {0} /\ RecordsFollowChain
  BY DEF DeploymentInv, ChainInv, ProcessInv
<1>2. CASE ProcessStep
  BY <1>1, <1>2, ScriptStepChain, HandoverStepChain DEF ProcessStep
<1>3. ASSUME NEW scripts, Begin(scripts) PROVE ChainInv'
  <2>1. UNCHANGED <<slots, records, finished>> /\ proc'.pc = 1 /\ handover' = "none"
    BY <1>3 DEF Begin, disk, chain, history, Idle, DeploymentInv, HandoverInOrder
  <2>2. RecordsFollowChain'
    BY <1>1, <2>1, NothingWritten, FollowChainStays
  <2> QED BY <2>1, <2>2, AtFirstStep
<1>4. CASE Crash
  <2>1. UNCHANGED <<slots, records, finished>> /\ proc'.pc = 1 /\ handover' = "none"
    BY <1>4 DEF Crash, disk, chain, Stopped, Idle
  <2>2. RecordsFollowChain'
    BY <1>1, <2>1, NothingWritten, FollowChainStays
  <2> QED BY <2>1, <2>2, AtFirstStep
<1>5. CASE UNCHANGED <<slots, records, finished, proc, handover>>
  BY <1>5 DEF ChainInv, ProcessInv, At, Running, ThisScript, OpsOf, ListingOps, HandoverOps,
              PoolProgress, IncentivesProgress, RecordsFollowChain, GetPool,
              GetPoolConfiguratorProxy, GetIncentivesV2, Nothing
<1>6. ASSUME NEW s, Visit(s) PROVE ChainInv'
  BY <1>5, <1>6, VisitOnly
<1>7. CASE MarketFileGrows \/ UNCHANGED vars
  BY <1>5, <1>7 DEF MarketFileGrows, vars, disk, chain, history
<1> QED BY <1>2, <1>3, <1>4, <1>6, <1>7 DEF Next, Visit, Deploying, RunTask

\* No script has begun.
LEMMA InitChain == Init => ChainInv
<1> SUFFICES ASSUME Init PROVE ChainInv
  OBVIOUS
<1>1. ~Running /\ proc.pc = 1 /\ handover = "none" /\ finished = {}
  BY DEF Init, Running, Idle
<1> QED BY <1>1 DEF ChainInv, ProcessInv, At, RecordsFollowChain

\* When init-pool and the incentives script are done, the proxies they made are
\* there and so are their records, wherever the process died in between.
THEOREM RecordsKept == Spec => []RecordsFollowChain
<1>1. ChainInv /\ DeploymentInv /\ [Next]_vars => ChainInv'
  BY NextChain
<1>2. ChainInv => RecordsFollowChain
  BY DEF ChainInv
<1> QED BY DeploymentCorrect, InitChain, <1>1, <1>2, PTL DEF Spec

---------------------------------------------------------------------------
(* The helper has its role no longer than its command *)

\* What is left of a sequence after a chunk of it is a sequence of the same.
LEMMA RestType ==
  ASSUME proc.todo \in Seq(Symbols), NEW size \in Nat
  PROVE  Rest(size) \in Seq(Symbols)
BY DEF Rest

\* A chunk is part of it.
LEMMA ChunkPart ==
  ASSUME proc.todo \in Seq(Symbols), NEW size \in Nat
  PROVE  ToSet(Chunk(size)) \subseteq ToSet(proc.todo) /\ ToSet(proc.todo) \subseteq Symbols
BY DEF Chunk, ToSet

LEMMA ListingShape ==
  /\ Len(Listing) = 7
  /\ Listing[1].op = "local" /\ Listing[1].when /\ Listing[1].val.todo = ReservesToInit
  /\ Listing[2].op = "initReserves" /\ Listing[2].val = 3
  /\ ~Listing[2].when => proc.todo = <<>>
  /\ Listing[3].op = "local" /\ Listing[3].when /\ Listing[3].val.todo = ReservesToConfigure
  /\ Listing[4].op = "addRiskAdmin" /\ (Listing[4].when => proc.any)
  /\ Listing[5].op = "configureReserves" /\ Listing[5].val = 20 /\ Listing[5].needs
  /\ ~Listing[5].when => proc.todo = <<>>
  /\ Listing[6].op = "removeRiskAdmin" /\ Listing[6].needs /\ (proc.any => Listing[6].when)
  /\ Listing[7].op = "save"
<1> DEFINE a == InitReservesByHelper
           b == ConfigureReservesByHelper
           c == SavePoolTokens
<1>1. /\ \E x, y : a = <<x, y>>
      /\ \E x, y, z, w : b = <<x, y, z, w>>
      /\ \E x : c = <<x>>
  BY DEF InitReservesByHelper, ConfigureReservesByHelper, SavePoolTokens
<1>2. /\ a[1].op = "local" /\ a[1].when /\ a[1].val.todo = ReservesToInit
      /\ a[2].op = "initReserves" /\ a[2].val = 3 /\ (~a[2].when => proc.todo = <<>>)
  BY DEF InitReservesByHelper, Select, Step
<1>3. /\ b[1].op = "local" /\ b[1].when /\ b[1].val.todo = ReservesToConfigure
      /\ b[2].op = "addRiskAdmin" /\ (b[2].when => proc.any)
      /\ b[3].op = "configureReserves" /\ b[3].val = 20 /\ b[3].needs
      /\ (~b[3].when => proc.todo = <<>>)
      /\ b[4].op = "removeRiskAdmin" /\ b[4].needs /\ (proc.any => b[4].when)
  BY DEF ConfigureReservesByHelper, Select, Step
<1>4. c[1].op = "save"
  BY DEF SavePoolTokens, Save, Step
<1>5. Listing = a \o b \o c
  BY DEF Listing
<1> HIDE DEF a, b, c
<1>6. /\ Len(Listing) = 7
      /\ Listing[1] = a[1] /\ Listing[2] = a[2] /\ Listing[3] = b[1] /\ Listing[4] = b[2]
      /\ Listing[5] = b[3] /\ Listing[6] = b[4] /\ Listing[7] = c[1]
  BY <1>1, <1>5
<1> QED BY <1>2, <1>3, <1>4, <1>6

\* Where they are in a script that has some steps before them.
LEMMA ListingAfter ==
  ASSUME TypeOK, NEW P, NEW p \in Seq(P), NEW steps,
         steps = p \o If(ReserveAddresses # {}, Listing)
  PROVE  /\ ReserveAddresses = {} => Len(steps) = Len(p)
         /\ ReserveAddresses # {} => /\ Len(steps) = Len(p) + 7
                                     /\ \A i \in 1..7 : steps[Len(p) + i] = Listing[i]
         /\ \A i \in 1..Len(p) : steps[i] = p[i]
<1>1. PICK S : Listing \in Seq(S)
  BY ListingSound DEF SoundSteps, Listing
<1>2. Len(Listing) = 7
  BY ListingShape
<1>3. CASE ReserveAddresses = {}
  <2>1. steps = p
    BY <1>3 DEF If
  <2> QED BY <1>3, <2>1
<1>4. CASE ReserveAddresses # {}
  <2>1. steps = p \o Listing
    BY <1>4 DEF If
  <2>2. /\ Len(p \o Listing) = Len(p) + Len(Listing)
        /\ \A i \in 1..Len(p) : (p \o Listing)[i] = p[i]
        /\ \A i \in 1..Len(Listing) : (p \o Listing)[Len(p) + i] = Listing[i]
    BY ONLY <1>1, p \in Seq(P), Joined
  <2> QED BY <1>2, <1>4, <2>1, <2>2
<1> QED BY <1>3, <1>4

\* The two that have them.
LEMMA ListerShape ==
  ASSUME TypeOK, NEW c \in Listers
  PROVE  /\ Before(c) \in {1, 2}
         /\ ReserveAddresses = {} => Len(StepsOf(c)) = Before(c)
         /\ ReserveAddresses # {} => /\ Len(StepsOf(c)) = Before(c) + 7
                                     /\ \A i \in 1..7 : StepsOf(c)[Before(c) + i] = Listing[i]
         /\ \A i \in 1..Before(c) : StepsOf(c)[i].op \in {"deploy", "check"}
<1> DEFINE strategies == {<<"ReserveStrategy", n>> : n \in ToSet(market.strategies)}
           a == Deploy(strategies, Recorded({GetPoolAddressesProvider}))
           b == Check(HasTreasuryAddress /\ Recorded({GetIncentivesV2}))
           d == Check(HasTreasuryAddress /\ Recorded({GetPoolAddressesProvider, GetIncentivesV2}))
<1>1. a.op = "deploy" /\ b.op = "check" /\ d.op = "check"
  BY DEF Deploy, Check, Step
<1>2. InitReservesSteps = <<a, b>> \o If(ReserveAddresses # {}, Listing)
  BY DEF InitReservesSteps, Listing
<1>3. AddNewAsset = <<d>> \o If(ReserveAddresses # {}, Listing)
  BY DEF AddNewAsset, Listing
<1> HIDE DEF a, b, d
<1>4. \E P, p : p \in Seq(P) /\
        /\ Len(p) = Before(c) /\ Before(c) \in {1, 2}
        /\ \A i \in 1..Before(c) : p[i].op \in {"deploy", "check"}
        /\ StepsOf(c) = p \o If(ReserveAddresses # {}, Listing)
  <2>1. CASE c = "init_reserves"
    <3> DEFINE p == <<a, b>>
               P == {a, b}
    <3>1. p \in Seq(P) /\ Len(p) = 2 /\ p[1] = a /\ p[2] = b
      OBVIOUS
    <3>2. StepsOf(c) = p \o If(ReserveAddresses # {}, Listing) /\ Before(c) = 2
      BY <1>2, <2>1 DEF StepsOf, Before
    <3> HIDE DEF p, P
    <3>3. \A i \in 1..2 : p[i].op \in {"deploy", "check"}
      <4>1. \A i \in 1..2 : i = 1 \/ i = 2
        OBVIOUS
      <4> QED BY <1>1, <3>1, <4>1
    <3> QED BY <3>1, <3>2, <3>3
  <2>2. CASE c = "add-new-asset"
    <3> DEFINE p == <<d>>
               P == {d}
    <3>1. p \in Seq(P) /\ Len(p) = 1 /\ p[1] = d
      OBVIOUS
    <3>2. StepsOf(c) = p \o If(ReserveAddresses # {}, Listing) /\ Before(c) = 1
      BY <1>3, <2>2 DEF StepsOf, Before
    <3> HIDE DEF p, P
    <3>3. \A i \in 1..1 : p[i].op \in {"deploy", "check"}
      <4>1. \A i \in 1..1 : i = 1
        OBVIOUS
      <4> QED BY <1>1, <3>1, <4>1
    <3> QED BY <3>1, <3>2, <3>3
  <2> QED BY <2>1, <2>2 DEF Listers
<1>6. PICK P, p : p \in Seq(P) /\
        /\ Len(p) = Before(c) /\ Before(c) \in {1, 2}
        /\ \A i \in 1..Before(c) : p[i].op \in {"deploy", "check"}
        /\ StepsOf(c) = p \o If(ReserveAddresses # {}, Listing)
  BY <1>4
<1>7. /\ ReserveAddresses = {} => Len(StepsOf(c)) = Len(p)
      /\ ReserveAddresses # {} => /\ Len(StepsOf(c)) = Len(p) + 7
                                  /\ \A i \in 1..7 : StepsOf(c)[Len(p) + i] = Listing[i]
      /\ \A i \in 1..Len(p) : StepsOf(c)[i] = p[i]
  BY <1>6, ListingAfter
<1> QED BY <1>6, <1>7

\* Which steps change the reserves, and which the roles.
LEMMA ReserveMoves ==
  ASSUME NEW s, NEW i, Perform(s, i)
  PROVE  \/ UNCHANGED reserve /\ s.op \notin {"configure", "initReserves"}
         \/ ConfigureReserve(s, i) \/ ListReserves(s, i)
         \/ ConfigureReserves(s, i) \/ DeployDistributor(s, i)
BY DEF Perform, DeployContracts, InitializeContract, SetSlot, SaveRecords, TransferToDeployer,
       GrantToDeployer, Pass, AssignLocals, MakeSetupHelperRiskAdmin, BeginHandover, Renounce,
       HandOne, chain

LEMMA RoleMoves ==
  ASSUME NEW s, NEW i, Perform(s, i)
  PROVE  \/ /\ UNCHANGED acl /\ s.op # "addRiskAdmin" /\ s.op # "removeRiskAdmin"
            /\ s.op = "configureReserves" => UNCHANGED records
         \/ DeployContracts(s, i) \/ GrantToDeployer(s, i) \/ MakeSetupHelperRiskAdmin(s, i)
         \/ Renounce(s, i)
BY DEF Perform, InitializeContract, SetSlot, SaveRecords, TransferToDeployer,
       Pass, AssignLocals, BeginHandover, ConfigureReserve, ListReserves, ConfigureReserves,
       DeployDistributor, HandOne, chain

\* Which step is made, by what it is for, and which move the script elsewhere.
LEMMA OpMoves ==
  ASSUME NEW s, NEW i, Perform(s, i)
  PROVE  /\ s.op = "initReserves" => ListReserves(s, i)
         /\ s.op = "configureReserves" => ConfigureReserves(s, i)
         /\ s.op = "configure" => ConfigureReserve(s, i)
         /\ s.op = "addRiskAdmin" => MakeSetupHelperRiskAdmin(s, i)
         /\ s.op = "handover" => BeginHandover(s, i)
BY DEF Perform, DeployContracts, InitializeContract, SetSlot, SaveRecords, TransferToDeployer,
       GrantToDeployer, Pass, AssignLocals, MakeSetupHelperRiskAdmin, BeginHandover, Renounce,
       HandOne, ConfigureReserve, ListReserves, ConfigureReserves, DeployDistributor

LEMMA ProcMoves ==
  ASSUME NEW s, NEW i, Perform(s, i)
  PROVE  \/ ListReserves(s, i) \/ ConfigureReserves(s, i) \/ AssignLocals(s, i)
         \/ \E j : proc' = [proc EXCEPT !.pc = j]
BY DEF Perform, DeployContracts, InitializeContract, SetSlot, SaveRecords, TransferToDeployer,
       GrantToDeployer, Pass, MakeSetupHelperRiskAdmin, BeginHandover, Renounce,
       HandOne, ConfigureReserve, DeployDistributor, GoTo

\* What performing a step does with the reserves, the roles and the choice.
LEMMA PerformReserve ==
  ASSUME TypeOK, NEW s, NEW i, NEW ops, Sound(s, ops), Perform(s, i),
         \A r \in Symbols : DOMAIN reserve[r] = DOMAIN NewReserve
  PROVE  \A r \in Symbols : /\ DOMAIN reserve'[r] = DOMAIN NewReserve
                            /\ reserve'[r].suppliers = reserve[r].suppliers
<1>1. DOMAIN reserve = Symbols
  BY DEF TypeOK
<1>2. ASSUME NEW r \in Symbols
      PROVE  "suppliers" \in DOMAIN reserve[r]
  BY DEF NewReserve
<1>3. CASE UNCHANGED reserve
  BY <1>3
<1>4. CASE ConfigureReserve(s, i)
  <2>1. s.id[1] \in SetFields /\ reserve' = [reserve EXCEPT ![s.id[2]][s.id[1]] = s.val]
    BY <1>4 DEF ConfigureReserve, Sound
  <2>2. "suppliers" \notin SetFields
    BY DEF SetFields
  <2>3. s.id[1] # "suppliers"
    BY <2>1, <2>2
  <2> QED BY <1>1, <1>2, <2>1, <2>3
<1>5. CASE ListReserves(s, i)
  <2>1. ASSUME NEW r \in Symbols
        PROVE  /\ DOMAIN reserve'[r] = DOMAIN reserve[r]
               /\ reserve'[r].suppliers = reserve[r].suppliers
    BY <1>2, <1>5 DEF ListReserves
  <2> QED BY <2>1
<1>6. CASE ConfigureReserves(s, i)
  <2>1. ASSUME NEW r \in Symbols
        PROVE  /\ DOMAIN reserve'[r] = DOMAIN reserve[r]
               /\ reserve'[r].suppliers = reserve[r].suppliers
    BY <1>2, <1>6 DEF ConfigureReserves
  <2> QED BY <2>1
<1>7. CASE DeployDistributor(s, i)
  <2>1. UNCHANGED reserve \/ reserve' = [reserve EXCEPT ![s.val].distributor = "older"]
    BY <1>7 DEF DeployDistributor
  <2> QED BY <1>1, <1>2, <2>1
<1> QED BY <1>3, <1>4, <1>5, <1>6, <1>7, ReserveMoves

LEMMA PerformTodo ==
  ASSUME TypeOK, NEW s, NEW i, NEW ops, Sound(s, ops), Perform(s, i), proc.todo \in Seq(Symbols),
         s.op = "initReserves" => s.val \in Nat, s.op = "configureReserves" => s.val \in Nat
  PROVE  proc'.todo \in Seq(Symbols)
<1>1. DOMAIN proc = {"queue", "pc", "todo", "any"}
  BY DEF TypeOK
<1>2. CASE ListReserves(s, i) \/ ConfigureReserves(s, i)
  <2>1. s.val \in Nat
    BY <1>2 DEF ListReserves, ConfigureReserves
  <2>2. proc'.todo = Rest(s.val)
    BY <1>1, <1>2 DEF ListReserves, ConfigureReserves
  <2> QED BY <2>1, <2>2, RestType
<1>3. CASE AssignLocals(s, i)
  <2>1. proc'.todo = s.val.todo /\ s.op = "local"
    BY <1>1, <1>3 DEF AssignLocals
  <2> QED BY <2>1 DEF Sound
<1>4. CASE proc'.todo = proc.todo
  BY <1>4
<1>6. (\E j : proc' = [proc EXCEPT !.pc = j]) => proc'.todo = proc.todo
  BY <1>1
<1> QED BY <1>2, <1>3, <1>4, <1>6, ProcMoves

LEMMA PerformRiskAdmin ==
  ASSUME TypeOK, NEW s, NEW i, NEW ops, Sound(s, ops), Perform(s, i)
  PROVE  /\ s.op # "addRiskAdmin" /\ SetupHelper \in acl'["RISK_ADMIN"] => SetupHelper \in acl["RISK_ADMIN"]
         /\ s.op = "removeRiskAdmin" => SetupHelper \notin acl'["RISK_ADMIN"]
         /\ s.op \in {"addRiskAdmin", "configureReserves"} =>
              acl'["DEFAULT_ADMIN"] = acl["DEFAULT_ADMIN"] /\ UNCHANGED records
<1>1. DOMAIN acl = Roles /\ "RISK_ADMIN" \in Roles
  BY DEF TypeOK, Roles
<1>2. CASE UNCHANGED acl /\ s.op # "addRiskAdmin" /\ s.op # "removeRiskAdmin"
           /\ (s.op = "configureReserves" => UNCHANGED records)
  BY <1>2
<1>3. CASE DeployContracts(s, i)
  <2>1. acl' = acl \/ acl' = [acl EXCEPT !["DEFAULT_ADMIN"] = @ \cup {slots[<<"ACL_ADMIN">>]}]
    BY <1>3 DEF DeployContracts
  <2>2. acl'["RISK_ADMIN"] = acl["RISK_ADMIN"] /\ s.op = "deploy"
    BY <1>1, <1>3, <2>1 DEF DeployContracts
  <2> QED BY <2>2
<1>4. CASE GrantToDeployer(s, i)
  <2>1. s.op = "grant" /\ s.id # "RISK_ADMIN" /\ acl' = [acl EXCEPT ![s.id] = @ \cup {Deployer}]
    BY <1>4 DEF GrantToDeployer, Sound
  <2> QED BY <1>1, <2>1
<1>5. CASE MakeSetupHelperRiskAdmin(s, i)
  <2>1. UNCHANGED records
    BY <1>5 DEF MakeSetupHelperRiskAdmin
  <2>2. CASE s.op = "addRiskAdmin" /\ acl' = [acl EXCEPT !["RISK_ADMIN"] = @ \cup {SetupHelper}]
    BY <1>1, <2>1, <2>2
  <2>3. CASE s.op = "removeRiskAdmin" /\ acl' = [acl EXCEPT !["RISK_ADMIN"] = @ \ {SetupHelper}]
    <3>1. SetupHelper \notin acl'["RISK_ADMIN"]
      BY <1>1, <2>3
    <3> QED BY <2>3, <3>1
  <2> QED BY <1>5, <2>2, <2>3 DEF MakeSetupHelperRiskAdmin
<1>6. CASE Renounce(s, i)
  <2>1. acl'["RISK_ADMIN"] = acl["RISK_ADMIN"] /\ s.op = "renounce"
    BY <1>1, <1>6 DEF Renounce, Renounced
  <2> QED BY <2>1
<1> QED BY <1>2, <1>3, <1>4, <1>5, <1>6, RoleMoves

\* Which of its steps is one that lists or configures.
LEMMA ListerStep ==
  ASSUME TypeOK, NEW c \in Listers, NEW i \in 1..Len(StepsOf(c))
  PROVE  /\ StepsOf(c)[i].op = "initReserves" => StepsOf(c)[i].val = 3
         /\ StepsOf(c)[i].op = "configureReserves" => StepsOf(c)[i].val = 20
         /\ StepsOf(c)[i].op = "addRiskAdmin" =>
              i = Before(c) + 4 /\ ReserveAddresses # {} /\ (StepsOf(c)[i].when => proc.any)
<1>1. Before(c) \in {1, 2}
  BY ListerShape
<1>2. CASE i \in 1..Before(c)
  <2>1. StepsOf(c)[i].op \in {"deploy", "check"}
    BY <1>2, ListerShape
  <2> QED BY <2>1
<1>3. CASE i \notin 1..Before(c)
  <2>1. ReserveAddresses # {} /\ Len(StepsOf(c)) = Before(c) + 7
    BY <1>1, <1>3, ListerShape
  <2>2. i - Before(c) \in 1..7 /\ i = Before(c) + (i - Before(c))
    BY <1>1, <1>3, <2>1
  <2>3. PICK j \in 1..7 : i = Before(c) + j
    BY <2>2
  <2>4. StepsOf(c)[i] = Listing[j]
    BY <2>1, <2>3, ListerShape
  <2>5. /\ Listing[j].op = "initReserves" => Listing[j].val = 3
        /\ Listing[j].op = "configureReserves" => Listing[j].val = 20
        /\ Listing[j].op = "addRiskAdmin" => j = 4 /\ (Listing[j].when => proc.any)
    <3>1. j = 1 \/ j = 2 \/ j = 3 \/ j = 4 \/ j = 5 \/ j = 6 \/ j = 7
      OBVIOUS
    <3> QED BY <3>1, ListingShape
  <2> QED BY <2>1, <2>3, <2>4, <2>5
<1> QED BY <1>2, <1>3

\* Only they have such a step.
LEMMA OnlyListers ==
  ASSUME NEW s, NEW c, Sound(s, OpsOf(c)), s.op \in ListingOps
  PROVE  c \in Listers
<1>1. s.op \notin PlainOps
  BY DEF ListingOps, PlainOps
<1>2. s.op \in OpsOf(c)
  BY <1>1 DEF Sound
<1> QED BY <1>2 DEF OpsOf, Listers, ListingOps, HandoverOps

\* While it leaves soon, the process comes to one of the two steps, and neither
\* is refused.
LEMMA LeavesNext ==
  ASSUME TypeOK, HelperInv, Untroubled, LeavesSoon, SetupHelper \in acl["RISK_ADMIN"],
         NEW n \in Nat, proc.pc <= n, n <= Len(StepsOf(ThisScript)) + 1,
         Passed(StepsOf(ThisScript), n)
  PROVE  LET s == StepsOf(ThisScript)[n]
         IN /\ n \in {Before(ThisScript) + 5, Before(ThisScript) + 6}
            /\ n <= Len(StepsOf(ThisScript))
            /\ n = Before(ThisScript) + 5 => s.op = "configureReserves"
            /\ n = Before(ThisScript) + 6 => s.op = "removeRiskAdmin"
            /\ s.needs /\ ~Refused(s)
<1> DEFINE c == ThisScript
           b == Before(c)
           s == StepsOf(c)[n]
<1>1. /\ c \in Listers /\ proc.any /\ proc.pc \in {b + 5, b + 6}
      /\ MayGrant /\ slots[<<"ACL_ADMIN">>] = Deployer /\ proc.todo \in Seq(Symbols)
  BY DEF LeavesSoon, HelperInv
<1>2. /\ b \in {1, 2} /\ Len(StepsOf(c)) = b + 7
      /\ StepsOf(c)[b + 5] = Listing[5] /\ StepsOf(c)[b + 6] = Listing[6]
  BY <1>1, ListerShape DEF LeavesSoon
<1> HIDE DEF b
<1>3. n \in {b + 5, b + 6}
  <2>1. CASE n > b + 6
    <3>1. b + 6 \in proc.pc..Len(StepsOf(c)) /\ b + 6 < n
      BY <1>1, <1>2, <2>1
    <3>2. ~StepsOf(c)[b + 6].when
      BY <3>1 DEF Passed
    <3> QED BY <1>1, <1>2, <3>2, ListingShape
  <2> QED BY <1>1, <1>2, <2>1
<1>4. CASE n = b + 5
  <2>1. s.op = "configureReserves" /\ s.needs /\ s.val = 20
    BY <1>2, <1>4, ListingShape
  <2>2. ASSUME NEW r \in ToSet(Chunk(20)) PROVE MayBeConfigured(r)
    <3>1. r \in Symbols
      BY <1>1, ChunkPart
    <3> QED BY <3>1 DEF MayBeConfigured, Untroubled
  <2>3. ~Refused(s)
    BY <2>1, <2>2 DEF Refused
  <2>4. n <= Len(StepsOf(c)) /\ n # b + 6
    BY <1>2, <1>4
  <2> QED BY <1>3, <1>4, <2>1, <2>3, <2>4 DEF b
<1>5. CASE n = b + 6
  <2>1. s.op = "removeRiskAdmin" /\ s.needs
    BY <1>2, <1>5, ListingShape
  <2>2. ~Refused(s)
    BY <1>1, <2>1 DEF Refused
  <2>3. n <= Len(StepsOf(c)) /\ n # b + 5
    BY <1>2, <1>5
  <2> QED BY <1>3, <1>5, <2>1, <2>2, <2>3 DEF b
<1> QED BY <1>3, <1>4, <1>5

\* A step of a script keeps the invariant.
LEMMA PerformHelper ==
  ASSUME TypeOK, Running, handover = "none", proc.pc \in Nat \ {0}, HelperInv,
         NEW i \in proc.pc..Len(StepsOf(ThisScript)), Passed(StepsOf(ThisScript), i),
         StepsOf(ThisScript)[i].when, ~Refused(StepsOf(ThisScript)[i]),
         Perform(StepsOf(ThisScript)[i], i), UNCHANGED <<market, executed, history>>
  PROVE  HelperInv'
<1> DEFINE c == ThisScript
           s == StepsOf(c)[i]
<1>1. Len(StepsOf(c)) \in Nat /\ i \in 1..Len(StepsOf(c))
  BY StepsSound, SoundEach
<1>2. Sound(s, OpsOf(c))
  BY <1>1, StepsSound, SoundEach
<1>3. proc.todo \in Seq(Symbols) /\ \A r \in Symbols : DOMAIN reserve[r] = DOMAIN NewReserve
  BY DEF HelperInv
<1>4. \A r \in Symbols : /\ DOMAIN reserve'[r] = DOMAIN NewReserve
                         /\ reserve'[r].suppliers = reserve[r].suppliers
  BY <1>2, <1>3, PerformReserve
<1>5. proc'.todo \in Seq(Symbols)
  <2>1. s.op \in ListingOps => c \in Listers
    BY <1>2, OnlyListers
  <2>2. s.op \in {"initReserves", "configureReserves"} => s.val \in Nat
    <3>1. s.op \in {"initReserves", "configureReserves"} => s.val = 3 \/ s.val = 20
      BY <1>1, <2>1, ListerStep DEF ListingOps
    <3> QED BY <3>1
  <2> QED BY <1>2, <1>3, <2>2, PerformTodo
<1>6. /\ s.op # "addRiskAdmin" /\ SetupHelper \in acl'["RISK_ADMIN"] => SetupHelper \in acl["RISK_ADMIN"]
      /\ s.op = "removeRiskAdmin" => SetupHelper \notin acl'["RISK_ADMIN"]
      /\ s.op \in {"addRiskAdmin", "configureReserves"} =>
              acl'["DEFAULT_ADMIN"] = acl["DEFAULT_ADMIN"] /\ UNCHANGED records
  BY <1>2, PerformRiskAdmin
<1>7. /\ s.op # "set" => UNCHANGED slots
      /\ s.op # "local" => proc'.any = proc.any
      /\ s.op = "addRiskAdmin" => proc'.pc = i + 1
      /\ proc'.pc \in {i, i + 1} /\ proc'.queue = proc.queue
  BY PerformFrame
<1>8. ThisScript' = ThisScript /\ Running'
  BY <1>7 DEF ThisScript, Running
<1>9. s.op \in {"addRiskAdmin", "configureReserves"} =>
        UNCHANGED <<ReserveAddresses, slots>> /\ proc'.any = proc.any /\ MayGrant' = MayGrant
  BY <1>6, <1>7 DEF ReserveAddresses, IsProductionMarket, Reserves, MayGrant
<1>10. ASSUME SetupHelper \in acl'["RISK_ADMIN"], Untroubled'
       PROVE  LeavesSoon'
  <2>1. Untroubled
    <3>1. crashes = 0 /\ \A r \in Symbols : reserve'[r].suppliers # "none" => Wants("collateral", r)'
      BY <1>10 DEF Untroubled, history
    <3>2. \A r \in Symbols : Wants("collateral", r)' = Wants("collateral", r)
      BY DEF Wants
    <3> QED BY <1>4, <3>1, <3>2 DEF Untroubled
  <2>2. CASE s.op = "addRiskAdmin"
    <3>1. c \in Listers
      BY <1>2, <2>2, OnlyListers DEF ListingOps
    <3>2. i = Before(c) + 4 /\ ReserveAddresses # {} /\ proc.any
      BY <1>1, <2>2, <3>1, ListerStep
    <3>3. MayGrant /\ slots[<<"ACL_ADMIN">>] = Deployer
      BY <2>2 DEF Refused
    <3>4. proc'.pc = Before(c) + 5
      BY <1>7, <2>2, <3>1, <3>2, ListerShape
    <3>5. ReserveAddresses' # {} /\ proc'.any /\ MayGrant' /\ slots'[<<"ACL_ADMIN">>] = Deployer
      BY <1>9, <2>2, <3>2, <3>3
    <3> QED BY <1>8, <3>1, <3>4, <3>5 DEF LeavesSoon, Before
  <2>3. CASE s.op # "addRiskAdmin"
    <3>1. SetupHelper \in acl["RISK_ADMIN"] /\ LeavesSoon
      BY <1>6, <1>10, <2>1, <2>3 DEF HelperInv
    <3>2. /\ i \in {Before(c) + 5, Before(c) + 6}
          /\ i = Before(c) + 5 => s.op = "configureReserves"
          /\ i = Before(c) + 6 => s.op = "removeRiskAdmin"
      BY <1>1, <2>1, <3>1, LeavesNext
    <3>3. s.op # "removeRiskAdmin"
      BY <1>6, <1>10
    <3>4. i = Before(c) + 5 /\ s.op = "configureReserves"
      BY <3>2, <3>3
    <3>5. c \in Listers /\ ReserveAddresses # {} /\ proc.any /\ MayGrant /\ slots[<<"ACL_ADMIN">>] = Deployer
      BY <3>1 DEF LeavesSoon
    <3>6. ReserveAddresses' # {} /\ proc'.any /\ MayGrant' /\ slots'[<<"ACL_ADMIN">>] = Deployer
      BY <1>9, <3>4, <3>5
    <3>7. proc'.pc \in {Before(c) + 5, Before(c) + 6}
      BY <1>7, <3>4, <3>5, ListerShape
    <3> QED BY <1>8, <3>5, <3>6, <3>7 DEF LeavesSoon, Before
  <2> QED BY <2>2, <2>3
<1> QED BY <1>4, <1>5, <1>10 DEF HelperInv

\* A step that leaves the reserves, the roles and the choice alone does, when the
\* helper has lost its role by then.
LEMMA HelperStays ==
  ASSUME HelperInv, UNCHANGED <<reserve, market, crashes>>, proc'.todo \in Seq(Symbols),
         acl'["RISK_ADMIN"] = acl["RISK_ADMIN"],
         ~ (SetupHelper \in acl["RISK_ADMIN"] /\ Untroubled)
  PROVE  HelperInv'
BY DEF HelperInv, Untroubled, Wants

\* What a script does next.
LEMMA ScriptStepHelper ==
  ASSUME TypeOK, ProcessInv, HelperInv, ScriptStep
  PROVE  HelperInv'
<1>1. Running /\ handover = "none" /\ proc.pc \in Nat \ {0} /\ Len(StepsOf(ThisScript)) \in Nat
  BY StepsSound, SoundEach DEF ScriptStep, ProcessInv
<1>2. CASE Passed(StepsOf(ThisScript), Len(StepsOf(ThisScript)) + 1) /\ EndScript
  <2>1. UNCHANGED <<reserve, market, crashes, acl>> /\ proc'.todo = <<>>
    BY <1>2 DEF EndScript, chain, Idle
  <2>2. ASSUME SetupHelper \in acl["RISK_ADMIN"], Untroubled PROVE FALSE
    <3>1. LeavesSoon /\ proc.pc <= Len(StepsOf(ThisScript)) + 1
      <4>1. LeavesSoon
        BY <2>2 DEF HelperInv
      <4> QED BY <1>1, <4>1, ListerShape DEF LeavesSoon
    <3>2. Len(StepsOf(ThisScript)) + 1 <= Len(StepsOf(ThisScript))
      BY <1>1, <1>2, <2>2, <3>1, LeavesNext
    <3> QED BY <1>1, <3>2
  <2> QED BY <2>1, <2>2, HelperStays
<1>3. ASSUME NEW i \in proc.pc..Len(StepsOf(ThisScript)),
             Passed(StepsOf(ThisScript), i),
             StepsOf(ThisScript)[i].needs /\ StepsOf(ThisScript)[i].when,
             ~Refused(StepsOf(ThisScript)[i]),
             Perform(StepsOf(ThisScript)[i], i),
             UNCHANGED <<market, executed, history>>
      PROVE  HelperInv'
  BY <1>1, <1>3, PerformHelper
<1>4. ASSUME Stopped, UNCHANGED <<records, chain, market, executed, history>>,
             NEW i \in proc.pc..Len(StepsOf(ThisScript)),
             Passed(StepsOf(ThisScript), i),
             StepsOf(ThisScript)[i].needs => Refused(StepsOf(ThisScript)[i])
      PROVE  HelperInv'
  <2>1. UNCHANGED <<reserve, market, crashes, acl>> /\ proc'.todo = <<>>
    BY <1>4 DEF Stopped, chain, history, Idle
  <2>2. ASSUME SetupHelper \in acl["RISK_ADMIN"], Untroubled PROVE FALSE
    <3>1. LeavesSoon
      BY <2>2 DEF HelperInv
    <3>2. i \in Nat /\ proc.pc <= i /\ i <= Len(StepsOf(ThisScript)) + 1
      BY <1>1
    <3> QED BY <1>4, <2>2, <3>1, <3>2, LeavesNext
  <2> QED BY <2>1, <2>2, HelperStays
<1> QED BY <1>1, <1>2, <1>3, <1>4, ScriptStepCases

\* Every step does.
LEMMA NextHelper ==
  ASSUME DeploymentInv, ProcessInv, HelperInv, [Next]_vars
  PROVE  HelperInv'
<1>1. TypeOK
  BY DEF DeploymentInv
<1>2. CASE ScriptStep
  BY <1>1, <1>2, ScriptStepHelper
<1>3. CASE HandoverStep
  <2>1. /\ UNCHANGED <<reserve, market, crashes>>
        /\ proc' = proc \/ proc' = [proc EXCEPT !.pc = @ + 1]
        /\ handover # "none"
    BY <1>3 DEF HandoverStep, TransferAdapters, TransferAdmins, TransferACLAdmin, TransferContracts,
         TransferDefaultAdmin, HandOver, GiveRole, TakeRole, history
  <2>2. acl'["RISK_ADMIN"] = acl["RISK_ADMIN"]
    <3>1. DOMAIN acl = Roles
      BY <1>1 DEF TypeOK
    <3>2. ASSUME NEW role \in {"EMERGENCY_ADMIN", "POOL_ADMIN", "DEFAULT_ADMIN"}, NEW take, NEW next,
                 GiveRole(role, take, next) \/ TakeRole(role, next)
          PROVE  acl'["RISK_ADMIN"] = acl["RISK_ADMIN"]
      <4>1. \/ UNCHANGED acl \/ acl' = [acl EXCEPT ![role] = @ \cup {market.multisig}]
            \/ acl' = [acl EXCEPT ![role] = @ \ {Deployer}]
        BY <3>2 DEF GiveRole, TakeRole
      <4>2. role # "RISK_ADMIN" /\ "RISK_ADMIN" \in DOMAIN acl
        BY <3>1 DEF Roles
      <4> QED BY <4>1, <4>2
    <3>3. CASE TransferAdmins \/ TransferDefaultAdmin
      BY <3>2, <3>3 DEF TransferAdmins, TransferDefaultAdmin
    <3>4. CASE TransferAdapters \/ TransferACLAdmin \/ TransferContracts
      <4>1. UNCHANGED acl
        BY <3>4 DEF TransferAdapters, TransferACLAdmin, TransferContracts, HandOver
      <4> QED BY <4>1
    <3> QED BY <1>3, <3>3, <3>4 DEF HandoverStep
  <2>3. DOMAIN proc = {"queue", "pc", "todo", "any"}
    BY <1>1 DEF TypeOK
  <2>4. proc'.todo = proc.todo
    BY <2>1, <2>3
  <2>5. ~LeavesSoon
    BY <2>1 DEF ProcessInv, LeavesSoon, Listers, OpsOf, ListingOps
  <2> QED BY <2>1, <2>2, <2>4, <2>5, HelperStays DEF HelperInv
<1>4. ASSUME NEW scripts, Begin(scripts) PROVE HelperInv'
  <2>1. UNCHANGED <<reserve, market, crashes, acl>> /\ proc'.todo = <<>> /\ ~LeavesSoon
    BY <1>4 DEF Begin, chain, history, Idle, LeavesSoon
  <2> QED BY <2>1, HelperStays DEF HelperInv
<1>5. CASE Crash
  <2>1. UNCHANGED reserve /\ proc'.todo = <<>> /\ crashes' = crashes + 1 /\ crashes \in Nat
    BY <1>1, <1>5, MaxCrashesAssumption DEF Crash, Stopped, chain, Idle, TypeOK
  <2>2. crashes' # 0
    BY <2>1
  <2> QED BY <2>1, <2>2 DEF HelperInv, Untroubled
<1>6. ASSUME NEW s, Visit(s) PROVE HelperInv'
  <2>1. DOMAIN reserve = Symbols
    BY <1>1 DEF TypeOK
  <2>2. PICK v \in {"some", "left"} : reserve' = [reserve EXCEPT ![s].suppliers = v]
    BY <1>6, VisitOnly
  <2>3. \A r \in Symbols : /\ DOMAIN reserve'[r] = DOMAIN reserve[r]
                           /\ reserve[r].suppliers # "none" => reserve'[r].suppliers # "none"
    <3>1. ASSUME NEW r \in Symbols
          PROVE  "suppliers" \in DOMAIN reserve[r]
      BY DEF HelperInv, NewReserve
    <3> QED BY <2>1, <2>2, <3>1
  <2>4. UNCHANGED <<market, crashes, acl, slots, proc, records>>
    BY <1>6, VisitOnly
  <2>5. Untroubled' => Untroubled
    BY <2>3, <2>4 DEF Untroubled, Wants
  <2>6. LeavesSoon' = LeavesSoon
    BY <2>4 DEF LeavesSoon, Running, ThisScript, Before, ReserveAddresses, IsProductionMarket,
                Reserves, MayGrant
  <2> QED BY <2>3, <2>4, <2>5, <2>6 DEF HelperInv
<1>7. CASE MarketFileGrows
  <2>1. UNCHANGED <<reserve, crashes, acl, proc>> /\ ~LeavesSoon
    BY <1>7 DEF MarketFileGrows, chain, history, Complete, LeavesSoon
  <2>2. market'.params = market.params
    BY <1>7 DEF MarketFileGrows
  <2>3. Untroubled' = Untroubled
    BY <2>1, <2>2 DEF Untroubled, Wants
  <2> QED BY <2>1, <2>3 DEF HelperInv
<1>8. CASE UNCHANGED vars
  BY <1>8 DEF vars, disk, chain, history, HelperInv, Untroubled, Wants, LeavesSoon, Running,
              ThisScript, Before, ReserveAddresses, IsProductionMarket, Reserves, MayGrant
<1> QED BY <1>2, <1>3, <1>4, <1>5, <1>6, <1>7, <1>8 DEF Next, Visit, ProcessStep, Deploying, RunTask

\* Nothing has been listed yet.
LEMMA InitHelper == Init => HelperInv
BY DEF Init, HelperInv, Roles, Idle

\* Unless the process dies, or a supply makes its transaction revert, the helper
\* contract has its role no longer than the command that gave it.
THEOREM HelperGone == Spec => []HelperLeaves
<1>1. DeploymentInv /\ ChainInv /\ HelperInv /\ [Next]_vars => HelperInv'
  BY NextHelper DEF ChainInv
<1>2. ChainInv /\ DeploymentInv /\ [Next]_vars => ChainInv'
  BY NextChain
<1>3. HelperInv => HelperLeaves
  BY DEF HelperInv, HelperLeaves, LeavesSoon, Untroubled
<1> QED BY DeploymentCorrect, InitChain, InitHelper, <1>1, <1>2, <1>3, PTL DEF Spec

---------------------------------------------------------------------------
(* What init-reserves lists and configures *)

\* What is to do is a chunk and the rest.
LEMMA ChunkOrRest ==
  ASSUME proc.todo \in Seq(Symbols), NEW size \in Nat, NEW x \in ToSet(proc.todo)
  PROVE  x \in ToSet(Chunk(size)) \/ x \in ToSet(Rest(size))
<1>1. PICK i \in 1..Len(proc.todo) : x = proc.todo[i]
  BY DEF ToSet
<1>2. CASE i <= size
  <2>1. i \in 1..Len(Chunk(size)) /\ Chunk(size)[i] = x
    BY <1>1, <1>2 DEF Chunk
  <2> QED BY <2>1 DEF ToSet
<1>3. CASE i > size
  <2>1. i - size \in 1..Len(Rest(size)) /\ Rest(size)[i - size] = x
    BY <1>1, <1>3 DEF Rest
  <2> QED BY <2>1 DEF ToSet
<1> QED BY <1>2, <1>3

LEMMA PerformListed ==
  ASSUME TypeOK, NEW s, NEW i, NEW ops, Sound(s, ops), Perform(s, i),
         \A r \in Symbols : DOMAIN reserve[r] = DOMAIN NewReserve
  PROVE  \A r \in Symbols : ReserveKept(r)
<1>1. DOMAIN reserve = Symbols
  BY DEF TypeOK
<1>2. ASSUME NEW r \in Symbols
      PROVE  {"listed", "collateral", "cap"} \subseteq DOMAIN reserve[r]
  BY DEF NewReserve
<1>3. CASE UNCHANGED reserve
  BY <1>3 DEF ReserveKept
<1>4. CASE ConfigureReserve(s, i)
  <2>1. /\ s.id[1] \in SetFields /\ (s.id[1] = "cap" => s.val # 0)
        /\ reserve' = [reserve EXCEPT ![s.id[2]][s.id[1]] = s.val]
    BY <1>4 DEF ConfigureReserve, Sound
  <2>2. "listed" \notin SetFields /\ "collateral" \notin SetFields
    BY DEF SetFields
  <2>3. s.id[1] # "listed" /\ s.id[1] # "collateral"
    BY <2>1, <2>2
  <2>4. ASSUME NEW r \in Symbols
        PROVE  /\ reserve'[r].listed = reserve[r].listed
               /\ reserve'[r].collateral = reserve[r].collateral
               /\ reserve'[r].cap = reserve[r].cap \/ reserve'[r].cap # 0
    BY <1>1, <1>2, <2>1, <2>3
  <2> QED BY <2>4 DEF ReserveKept
<1>5. CASE ListReserves(s, i)
  <2>1. ASSUME NEW r \in Symbols
        PROVE  /\ reserve[r].listed => reserve'[r].listed
               /\ reserve'[r].collateral = reserve[r].collateral
               /\ reserve'[r].cap = reserve[r].cap
    BY <1>2, <1>5 DEF ListReserves
  <2> QED BY <2>1 DEF ReserveKept
<1>6. CASE ConfigureReserves(s, i)
  <2>1. Edition # 0
    BY DEF Edition
  <2>2. ASSUME NEW r \in Symbols
        PROVE  /\ reserve'[r].listed = reserve[r].listed
               /\ \/ /\ reserve'[r].collateral = reserve[r].collateral
                     /\ reserve'[r].cap = reserve[r].cap
                  \/ reserve'[r].collateral = Wants("collateral", r) /\ reserve'[r].cap = Edition
    BY <1>2, <1>6 DEF ConfigureReserves
  <2> QED BY <2>1, <2>2 DEF ReserveKept
<1>7. CASE DeployDistributor(s, i)
  <2>1. UNCHANGED reserve \/ reserve' = [reserve EXCEPT ![s.val].distributor = "older"]
    BY <1>7 DEF DeployDistributor
  <2>2. ASSUME NEW r \in Symbols
        PROVE  /\ reserve'[r].listed = reserve[r].listed
               /\ reserve'[r].collateral = reserve[r].collateral
               /\ reserve'[r].cap = reserve[r].cap
    BY <1>1, <1>2, <2>1
  <2> QED BY <2>2 DEF ReserveKept
<1> QED BY <1>3, <1>4, <1>5, <1>6, <1>7, ReserveMoves

\* What the two that list and configure do to the reserves they have come to.
LEMMA PerformChunk ==
  ASSUME TypeOK, NEW s, NEW i, NEW ops, Sound(s, ops), Perform(s, i), proc.todo \in Seq(Symbols),
         \A r \in Symbols : DOMAIN reserve[r] = DOMAIN NewReserve,
         s.val \in Nat, NEW x \in ToSet(proc.todo)
  PROVE  /\ s.op = "initReserves" =>
              reserve'[x].listed \/ (x \in ToSet(proc'.todo) /\ proc'.pc = i)
         /\ s.op = "configureReserves" =>
              \/ reserve'[x].collateral = Wants("collateral", x) /\ reserve'[x].cap # 0
              \/ x \in ToSet(proc'.todo) /\ proc'.pc = i
<1>1. DOMAIN proc = {"queue", "pc", "todo", "any"}
  BY DEF TypeOK
<1>2. /\ x \in Symbols /\ {"listed", "collateral", "cap"} \subseteq DOMAIN reserve[x]
      /\ x \in ToSet(Chunk(s.val)) \/ x \in ToSet(Rest(s.val))
  BY ChunkOrRest, ChunkPart DEF NewReserve
<1>3. x \in ToSet(Rest(s.val)) => Rest(s.val) # <<>>
  BY DEF ToSet
<1>4. s.op = "initReserves" => ListReserves(s, i)
  BY OpMoves
<1>5. s.op = "configureReserves" => ConfigureReserves(s, i)
  BY OpMoves
<1>6. ASSUME ListReserves(s, i) \/ ConfigureReserves(s, i), x \in ToSet(Rest(s.val))
      PROVE  x \in ToSet(proc'.todo) /\ proc'.pc = i
  BY <1>1, <1>3, <1>6 DEF ListReserves, ConfigureReserves
<1>7. ASSUME ListReserves(s, i), x \in ToSet(Chunk(s.val)) PROVE reserve'[x].listed
  BY <1>2, <1>7 DEF ListReserves
<1>8. ASSUME ConfigureReserves(s, i), x \in ToSet(Chunk(s.val))
      PROVE  reserve'[x].collateral = Wants("collateral", x) /\ reserve'[x].cap # 0
  <2>1. reserve'[x].collateral = Wants("collateral", x) /\ reserve'[x].cap = Edition
    BY <1>2, <1>8 DEF ConfigureReserves
  <2> QED BY <2>1 DEF Edition
<1> QED BY <1>2, <1>4, <1>5, <1>6, <1>7, <1>8

\* When a contract with an owner gets its record.
LEMMA PerformRecords ==
  ASSUME TypeOK, NEW s, NEW i, NEW ops, Sound(s, ops), Perform(s, i),
         GetPoolAddressesProvider \in records'
  PROVE  \/ GetPoolAddressesProvider \in records
         \/ s.op = "deploy" /\ GetPoolAddressesProvider \in s.id
<1>1. CASE UNCHANGED records
  BY <1>1
<1>2. CASE DeployContracts(s, i)
  BY <1>2 DEF DeployContracts
<1>3. CASE SaveRecords(s, i)
  <2>1. GetPoolAddressesProvider \notin s.id
    <3>1. GetPoolAddressesProvider \in Ownables
      BY DEF GetPoolAddressesProvider, Ownables
    <3> QED BY <1>3, <3>1 DEF SaveRecords, Sound
  <2> QED BY <1>3, <2>1 DEF SaveRecords
<1>4. CASE DeployDistributor(s, i)
  <2>1. s.id # GetPoolAddressesProvider
    BY <1>4 DEF DeployDistributor, Sound, GetPoolAddressesProvider
  <2> QED BY <1>4, <2>1 DEF DeployDistributor
<1> QED BY <1>1, <1>2, <1>3, <1>4
        DEF Perform, InitializeContract, SetSlot, TransferToDeployer,
         GrantToDeployer, Pass, AssignLocals, MakeSetupHelperRiskAdmin, BeginHandover, Renounce,
         HandOne, ConfigureReserve, ListReserves, ConfigureReserves, chain

\* The reserves of the first edition are among those of the market.
LEMMA FirstReserves ==
  ASSUME TypeOK
  PROVE  FirstEdition \subseteq Reserves \cap Symbols /\ Reserves \subseteq ToSet(market.symbols)
<1>1. ToSet(market.symbols) \subseteq Symbols
  BY MarketReserves DEF ToSet
<1> QED BY <1>1 DEF FirstEdition, Reserves

LEMMA TokensKnown ==
  ASSUME TypeOK, KnownTokens
  PROVE  \A s \in FirstEdition :
           market.params[s].aTokenImpl \in {"AToken", "DelegationAwareAToken"}
<1>1. \E m \in Markets : market.symbols = m.symbols /\ market.params = m.params
  <2>1. CASE market \in Markets
    BY <2>1
  <2>2. ASSUME NEW m \in Markets, market = [m EXCEPT !.extended = TRUE]
        PROVE  market.symbols = m.symbols /\ market.params = m.params
    <3>1. {"symbols", "params"} \subseteq DOMAIN m
      BY MarketsAssumption
    <3> QED BY <2>2, <3>1
  <2> QED BY <2>1, <2>2 DEF TypeOK
<1>2. ASSUME NEW s \in FirstEdition
      PROVE  s \in ToSet(market.symbols) /\ market.params[s] \in ReserveParams
  BY FirstReserves, MarketReserves
<1>3. ASSUME NEW s \in FirstEdition PROVE market.params[s].aTokenImpl # "none"
  BY <1>1, <1>2 DEF KnownTokens
<1> QED BY <1>2, <1>3 DEF ReserveParams

\* Reserves that have all their addresses keep them.
LEMMA AddressesKept ==
  ASSUME UNCHANGED market, ReserveAddresses = Reserves,
         \A id \in records : id[1] # "NativeYieldDistribute" => id \in records'
  PROVE  ReserveAddresses' = Reserves'
<1>1. Reserves' = Reserves /\ IsProductionMarket' = IsProductionMarket
  BY DEF Reserves, IsProductionMarket
<1>2. CASE IsProductionMarket
  BY <1>1, <1>2 DEF ReserveAddresses
<1>3. CASE ~IsProductionMarket
  <2>1. \A s \in Reserves : <<"TestnetMintableERC20", s>> \in records
    BY <1>3 DEF ReserveAddresses
  <2>2. \A s \in Reserves : <<"TestnetMintableERC20", s>> \in records'
    BY <2>1
  <2> QED BY <1>1, <1>3, <2>2 DEF ReserveAddresses
<1> QED BY <1>2, <1>3

\* The steps of init-reserves.
LEMMA InitReservesShape ==
  ASSUME TypeOK
  PROVE  LET steps == StepsOf("init_reserves")
         IN /\ Len(steps) \in {2, 9} /\ (ReserveAddresses # {} => Len(steps) = 9)
            /\ ReserveAddresses = {} => Len(steps) = 2
            /\ steps[1].op = "deploy" /\ steps[1].when
            /\ steps[1].needs => GetPoolAddressesProvider \in records
            /\ steps[2].op \in {"deploy", "check"}
            /\ ReserveAddresses # {} => \A i \in 1..7 : steps[2 + i] = Listing[i]
<1> DEFINE strategies == {<<"ReserveStrategy", n>> : n \in ToSet(market.strategies)}
           a == Deploy(strategies, Recorded({GetPoolAddressesProvider}))
           b == Check(HasTreasuryAddress /\ Recorded({GetIncentivesV2}))
           p == <<a, b>>
           P == {a, b}
           steps == StepsOf("init_reserves")
<1>1. a.op = "deploy" /\ a.when /\ (a.needs => GetPoolAddressesProvider \in records)
  BY DEF Deploy, Step, Recorded
<1>2. steps = p \o If(ReserveAddresses # {}, Listing)
  BY DEF InitReservesSteps, Listing, StepsOf
<1>3. p \in Seq(P) /\ Len(p) = 2 /\ p[1] = a
  OBVIOUS
<1> HIDE DEF p, P, a, b, steps
<1>4. steps[1] = a
  <2>1. \A i \in 1..Len(p) : steps[i] = p[i]
    BY <1>2, <1>3, ListingAfter
  <2> QED BY <1>3, <2>1
<1>5. "init_reserves" \in Listers /\ Before("init_reserves") = 2
  BY DEF Listers, Before
<1>6. /\ ReserveAddresses = {} => Len(steps) = 2
      /\ ReserveAddresses # {} => /\ Len(steps) = 2 + 7
                                  /\ \A i \in 1..7 : steps[2 + i] = Listing[i]
      /\ \A i \in 1..2 : steps[i].op \in {"deploy", "check"}
  BY <1>5, ListerShape DEF steps
<1>7. steps[2].op \in {"deploy", "check"}
  BY <1>6
<1> QED BY <1>1, <1>4, <1>6, <1>7 DEF steps

\* What it has behind it at a step that it comes to.
LEMMA ReservesPassed ==
  ASSUME TypeOK, proc.pc \in Nat \ {0}, ReservesProgress(proc.pc), NEW n \in Nat, proc.pc <= n,
         n <= Len(StepsOf("init_reserves")) + 1, Passed(StepsOf("init_reserves"), n)
  PROVE  ReservesProgress(n)
<1> DEFINE steps == StepsOf("init_reserves")
<1>1. /\ Len(steps) \in {2, 9} /\ (ReserveAddresses # {} => Len(steps) = 9) /\ steps[1].when
      /\ ReserveAddresses = {} => Len(steps) = 2
      /\ ReserveAddresses # {} => \A i \in 1..7 : steps[2 + i] = Listing[i]
  BY InitReservesShape
<1>2. ASSUME NEW j \in 1..9, j >= proc.pc, j < n, j = 1 \/ ReserveAddresses # {}
      PROVE ~steps[j].when
  <2>1. j \in proc.pc..Len(steps)
    BY <1>1, <1>2
  <2> QED BY <1>2, <2>1 DEF Passed
<1>3. n > 1 => proc.pc > 1
  BY <1>1, <1>2
<1>4. n > 3 => ReserveAddresses # {}
  <2> SUFFICES ASSUME ReserveAddresses = {} PROVE ~ (n > 3)
    OBVIOUS
  <2>1. Len(steps) = 2
    BY <1>1
  <2>2. n <= Len(steps) + 1
    OBVIOUS
  <2> HIDE DEF steps
  <2> QED BY <2>1, <2>2
<1>5. n > 3 => /\ steps[3].when /\ steps[5].when
               /\ ~steps[4].when => proc.todo = <<>>
               /\ ~steps[7].when => proc.todo = <<>>
  <2> SUFFICES ASSUME n > 3
               PROVE  /\ steps[3].when /\ steps[5].when
                      /\ ~steps[4].when => proc.todo = <<>>
                      /\ ~steps[7].when => proc.todo = <<>>
    OBVIOUS
  <2>1. \A i \in 1..7 : steps[2 + i] = Listing[i]
    BY <1>1, <1>4
  <2> HIDE DEF steps
  <2>2. steps[3] = Listing[1] /\ steps[5] = Listing[3] /\ steps[4] = Listing[2] /\ steps[7] = Listing[5]
    <3>1. steps[2 + 1] = Listing[1] /\ steps[2 + 3] = Listing[3] /\ steps[2 + 2] = Listing[2]
          /\ steps[2 + 5] = Listing[5]
      BY <2>1
    <3> QED BY <3>1
  <2> QED BY <2>2, ListingShape
<1> HIDE DEF steps
<1>6. n > 3 => proc.pc > 3
  BY <1>2, <1>4, <1>5
<1>7. n > 5 => proc.pc > 5
  BY <1>2, <1>4, <1>5
<1>8. n > 4 /\ proc.pc = 4 => proc.todo = <<>>
  BY <1>2, <1>4, <1>5
<1>9. n > 7 /\ proc.pc \in {6, 7} => proc.todo = <<>>
  BY <1>2, <1>4, <1>5
<1>10. proc.todo = <<>> => ToSet(proc.todo) = {}
  BY DEF ToSet
<1>11. ASSUME NEW s \in FirstEdition, n > 3
       PROVE  reserve[s].listed \/ (n = 4 /\ s \in ToSet(proc.todo))
  BY <1>6, <1>8, <1>10, <1>11 DEF ReservesProgress
<1>12. ASSUME NEW s \in FirstEdition, n > 5, ~Wants("noLTV", s)
       PROVE  Declared(s) \/ (n \in {6, 7} /\ s \in ToSet(proc.todo))
  <2>1. Declared(s) \/ (proc.pc \in {6, 7} /\ s \in ToSet(proc.todo))
    BY <1>7, <1>12 DEF ReservesProgress
  <2>2. n > 7 \/ n \in {6, 7}
    BY <1>12
  <2> QED BY <1>9, <1>10, <2>1, <2>2
<1> QED BY <1>3, <1>11, <1>12 DEF ReservesProgress

\* What the helper leaves out is listed, or configured as declared, already.
LEMMA InitChoice ==
  ASSUME TypeOK, KnownTokens, ReserveAddresses = Reserves, NEW x \in FirstEdition
  PROVE  reserve[x].listed \/ x \in ToSet(ReservesToInit)
<1>1. x \in ToSet(market.symbols) /\ x \in Reserves \cap ReserveAddresses
  BY FirstReserves
<1>2. market.params[x].aTokenImpl \in {"AToken", "DelegationAwareAToken"}
  BY TokensKnown
<1> DEFINE T == {s \in Reserves \cap ReserveAddresses :
                   /\ market.params[s].aTokenImpl \in {"AToken", "DelegationAwareAToken"}
                   /\ ~reserve[s].listed}
<1>3. reserve[x].listed \/ x \in T
  BY <1>1, <1>2
<1> HIDE DEF T
<1>4. x \in T => x \in ToSet(Filter(market.symbols, T))
  BY <1>1, MarketReserves, FilterElement
<1> QED BY <1>3, <1>4 DEF ReservesToInit, T

LEMMA ConfigureChoice ==
  ASSUME TypeOK, ReserveAddresses = Reserves, NEW x \in FirstEdition, ~Wants("noLTV", x)
  PROVE  reserve[x].collateral \/ x \in ToSet(ReservesToConfigure)
<1>1. x \in ToSet(market.symbols) /\ x \in Reserves \cap ReserveAddresses
  BY FirstReserves
<1> DEFINE T == {s \in Reserves \cap ReserveAddresses :
                   ~market.params[s].noLTV /\ ~reserve[s].collateral}
<1>2. reserve[x].collateral \/ x \in T
  BY <1>1 DEF Wants
<1> HIDE DEF T
<1>3. x \in T => x \in ToSet(Filter(market.symbols, T))
  BY <1>1, MarketReserves, FilterElement
<1> QED BY <1>2, <1>3 DEF ReservesToConfigure, T

\* What is kept of a reserve keeps what is declared of it.
LEMMA DeclaredKept ==
  ASSUME NEW s, ReserveKept(s), UNCHANGED market, Declared(s)
  PROVE  Declared(s)'
BY DEF ReserveKept, Declared, Wants

\* A step of init-reserves leaves behind it what it must.
LEMMA ReservesProgressKept ==
  ASSUME TypeOK, HelperInv, KnownTokens, handover = "none", proc.pc \in Nat \ {0},
         ReserveAddresses = Reserves \/ GetPoolAddressesProvider \notin records,
         \A s \in Symbols : reserve[s].collateral => Declared(s),
         ReservesProgress(proc.pc), UNCHANGED market,
         NEW i \in proc.pc..Len(StepsOf("init_reserves")), Passed(StepsOf("init_reserves"), i),
         StepsOf("init_reserves")[i].needs, Perform(StepsOf("init_reserves")[i], i)
  PROVE  ReservesProgress(proc.pc)'
<1> DEFINE steps == StepsOf("init_reserves")
           s == steps[i]
<1>1. Len(steps) \in Nat /\ i \in 1..Len(steps) /\ i \in Nat
  BY StepsSound, SoundEach
<1>2. Sound(s, OpsOf("init_reserves"))
  BY <1>1, StepsSound, SoundEach
<1>3. ReservesProgress(i)
  BY <1>1, ReservesPassed
<1>4. /\ proc.todo \in Seq(Symbols) /\ \A r \in Symbols : DOMAIN reserve[r] = DOMAIN NewReserve
  BY DEF HelperInv
<1>5. \A r \in Symbols : ReserveKept(r)
  BY <1>2, <1>4, PerformListed
<1>6. /\ proc'.pc \in {i, i + 1}
      /\ s.op \notin {"handover", "initReserves", "configureReserves"} => proc'.pc = i + 1
      /\ s.op = "local" => proc'.todo = s.val.todo
      /\ GetPoolAddressesProvider \in records => GetPoolAddressesProvider \in records'
  BY PerformFrame DEF GetPoolAddressesProvider
<1>7. FirstEdition' = FirstEdition /\ FirstEdition \subseteq Symbols
  BY FirstReserves DEF FirstEdition
<1>8. \A r \in FirstEdition : Wants("noLTV", r)' = Wants("noLTV", r)
  BY DEF Wants
<1>9. /\ Len(steps) \in {2, 9} /\ (ReserveAddresses # {} => Len(steps) = 9)
      /\ ReserveAddresses = {} => Len(steps) = 2
      /\ steps[1].op = "deploy" /\ steps[1].when
      /\ steps[1].needs => GetPoolAddressesProvider \in records
      /\ steps[2].op \in {"deploy", "check"}
      /\ ReserveAddresses # {} => \A j \in 1..7 : steps[2 + j] = Listing[j]
  BY InitReservesShape
<1>10. ASSUME i > 2
       PROVE  /\ i = 3 => s.op = "local" /\ s.val.todo = ReservesToInit
              /\ i = 4 => s.op = "initReserves" /\ s.val = 3
              /\ i = 5 => s.op = "local" /\ s.val.todo = ReservesToConfigure
              /\ i = 6 => s.op = "addRiskAdmin"
              /\ i = 7 => s.op = "configureReserves" /\ s.val = 20
  <2>1. ReserveAddresses # {}
    <3> SUFFICES ASSUME ReserveAddresses = {} PROVE FALSE
      OBVIOUS
    <3>1. Len(steps) = 2
      BY <1>9
    <3>2. i <= Len(steps)
      BY <1>1
    <3> HIDE DEF steps
    <3> QED BY <1>10, <3>1, <3>2
  <2>2. \A j \in 1..7 : steps[2 + j] = Listing[j]
    BY <1>9, <2>1
  <2> HIDE DEF steps
  <2>3. /\ steps[2 + 1] = Listing[1] /\ steps[2 + 2] = Listing[2] /\ steps[2 + 3] = Listing[3]
        /\ steps[2 + 4] = Listing[4] /\ steps[2 + 5] = Listing[5]
    BY <2>2
  <2>4. /\ steps[3] = Listing[1] /\ steps[4] = Listing[2] /\ steps[5] = Listing[3]
        /\ steps[6] = Listing[4] /\ steps[7] = Listing[5]
    BY <2>3
  <2> QED BY <2>4, ListingShape
<1>11. proc'.pc > 1 => GetPoolAddressesProvider \in records'
  <2>1. CASE i = 1
    BY <1>6, <1>9, <2>1
  <2>2. CASE i # 1
    <3>1. i > 1
      BY <1>1, <2>2
    <3> QED BY <1>3, <1>6, <3>1 DEF ReservesProgress
  <2> QED BY <2>1, <2>2
<1>12. i > 1 => ReserveAddresses = Reserves
  BY <1>3 DEF ReservesProgress
<1> HIDE DEF steps, s
<1>13. ASSUME NEW x \in FirstEdition, proc'.pc > 3
       PROVE  reserve'[x].listed \/ (proc'.pc = 4 /\ x \in ToSet(proc'.todo))
  <2>1. reserve[x].listed => reserve'[x].listed
    BY <1>5, <1>7 DEF ReserveKept
  <2>2. i > 2
    BY <1>1, <1>6, <1>13
  <2>3. CASE i = 3
    <3>1. proc'.pc = 4 /\ proc'.todo = ReservesToInit
      BY <1>6, <1>10, <2>2, <2>3
    <3>2. reserve[x].listed \/ x \in ToSet(ReservesToInit)
      BY <1>12, <2>2, <2>3, InitChoice
    <3> QED BY <2>1, <3>1, <3>2
  <2>4. CASE i = 4
    <3>1. s.op = "initReserves" /\ s.val \in Nat
      BY <1>10, <2>2, <2>4
    <3>2. reserve[x].listed \/ x \in ToSet(proc.todo)
      BY <1>3, <2>4 DEF ReservesProgress
    <3>3. x \in ToSet(proc.todo) => reserve'[x].listed \/ (x \in ToSet(proc'.todo) /\ proc'.pc = i)
      BY <1>2, <1>4, <3>1, PerformChunk DEF s, steps
    <3> QED BY <2>1, <2>4, <3>2, <3>3
  <2>5. CASE i > 4
    <3>1. reserve[x].listed
      BY <1>3, <2>5 DEF ReservesProgress
    <3> QED BY <2>1, <3>1
  <2> QED BY <1>1, <2>2, <2>3, <2>4, <2>5
<1>14. ASSUME NEW x \in FirstEdition, proc'.pc > 5, ~Wants("noLTV", x)
       PROVE  Declared(x)' \/ (proc'.pc \in {6, 7} /\ x \in ToSet(proc'.todo))
  <2>1. Declared(x) => Declared(x)'
    BY <1>5, <1>7, DeclaredKept
  <2>2. i > 4 /\ i > 2
    BY <1>1, <1>6, <1>14
  <2>3. CASE i = 5
    <3>1. proc'.pc = 6 /\ proc'.todo = ReservesToConfigure
      BY <1>6, <1>10, <2>2, <2>3
    <3>2. reserve[x].collateral \/ x \in ToSet(ReservesToConfigure)
      BY <1>12, <1>14, <2>2, <2>3, ConfigureChoice
    <3>3. reserve[x].collateral => Declared(x)
      BY <1>7
    <3> QED BY <2>1, <3>1, <3>2, <3>3
  <2>4. CASE i = 6
    <3>1. s.op = "addRiskAdmin"
      BY <1>10, <2>2, <2>4
    <3>2. proc'.pc = 7 /\ proc'.todo = proc.todo
      <4>1. MakeSetupHelperRiskAdmin(s, i)
        BY <3>1, OpMoves DEF s, steps
      <4> QED BY <2>4, <4>1 DEF MakeSetupHelperRiskAdmin, GoTo, TypeOK
    <3>3. Declared(x) \/ x \in ToSet(proc.todo)
      BY <1>3, <1>14, <2>4 DEF ReservesProgress
    <3> QED BY <2>1, <3>2, <3>3
  <2>5. CASE i = 7
    <3>1. s.op = "configureReserves" /\ s.val \in Nat
      BY <1>10, <2>2, <2>5
    <3>2. Declared(x) \/ x \in ToSet(proc.todo)
      BY <1>3, <1>14, <2>5 DEF ReservesProgress
    <3>3. x \in ToSet(proc.todo) =>
             \/ reserve'[x].collateral = Wants("collateral", x) /\ reserve'[x].cap # 0
             \/ x \in ToSet(proc'.todo) /\ proc'.pc = i
      BY <1>2, <1>4, <3>1, PerformChunk DEF s, steps
    <3>4. reserve'[x].collateral = Wants("collateral", x) /\ reserve'[x].cap # 0 => Declared(x)'
      BY DEF Declared, Wants
    <3> QED BY <2>1, <2>5, <3>2, <3>3, <3>4
  <2>6. CASE i > 7
    <3>1. Declared(x)
      <4>1. i > 5 /\ i \notin {6, 7}
        BY <2>6
      <4> QED BY <1>3, <1>14, <4>1 DEF ReservesProgress
    <3> QED BY <2>1, <3>1
  <2> QED BY <1>1, <2>2, <2>3, <2>4, <2>5, <2>6
<1> QED BY <1>7, <1>8, <1>11, <1>13, <1>14 DEF ReservesProgress

\* What is listed and configured stays so while init-reserves is not ended.
LEMMA ListedKept ==
  ASSUME TypeOK, ListedInv, UNCHANGED <<market, finished>>, \A r \in Symbols : ReserveKept(r)
  PROVE  ListedAsDeclared' /\ \A s \in Symbols : reserve'[s].collateral => Declared(s)'
<1>1. FirstEdition' = FirstEdition /\ FirstEdition \subseteq Symbols
  BY FirstReserves DEF FirstEdition
<1>2. ASSUME NEW s \in Symbols, reserve'[s].collateral PROVE Declared(s)'
  <2>1. CASE reserve'[s].collateral = reserve[s].collateral
    <3>1. Declared(s)
      BY <1>2, <2>1 DEF ListedInv
    <3> QED BY <3>1, DeclaredKept
  <2>2. CASE reserve'[s].collateral = Wants("collateral", s) /\ reserve'[s].cap # 0
    BY <2>2 DEF Declared, Wants
  <2> QED BY <2>1, <2>2 DEF ReserveKept
<1>3. ListedAsDeclared'
  <2> SUFFICES ASSUME "init_reserves" \in finished, NEW s \in FirstEdition
               PROVE  reserve'[s].listed /\ (~Wants("noLTV", s) => Declared(s)')
    BY <1>1 DEF ListedAsDeclared, Declared, Wants
  <2>1. reserve[s].listed /\ (~Wants("noLTV", s) => Declared(s))
    BY DEF ListedInv, ListedAsDeclared, Declared
  <2> QED BY <1>1, <2>1, DeclaredKept DEF ReserveKept
<1> QED BY <1>2, <1>3

\* A step of a script keeps the invariant.
LEMMA PerformListedInv ==
  ASSUME TypeOK, Running, handover = "none", proc.pc \in Nat \ {0}, HelperInv, KnownTokens,
         ListedInv,
         NEW i \in proc.pc..Len(StepsOf(ThisScript)), Passed(StepsOf(ThisScript), i),
         StepsOf(ThisScript)[i].needs,
         Perform(StepsOf(ThisScript)[i], i), UNCHANGED <<market, executed, history>>
  PROVE  ListedInv'
<1> DEFINE c == ThisScript
           s == StepsOf(c)[i]
<1>1. Len(StepsOf(c)) \in Nat /\ i \in 1..Len(StepsOf(c))
  BY StepsSound, SoundEach
<1>2. Sound(s, OpsOf(c))
  BY <1>1, StepsSound, SoundEach
<1>3. \A r \in Symbols : ReserveKept(r)
  BY <1>2, PerformListed DEF HelperInv
<1>4. UNCHANGED finished
  BY DEF history
<1>5. ListedAsDeclared' /\ \A r \in Symbols : reserve'[r].collateral => Declared(r)'
  BY <1>3, <1>4, ListedKept
<1>6. \A id \in records : id[1] # "NativeYieldDistribute" => id \in records'
  BY PerformFrame
<1>7. GetPoolAddressesProvider \in records' =>
        "init_reserves" \in finished' \/ ReserveAddresses' = Reserves'
  <2> SUFFICES ASSUME GetPoolAddressesProvider \in records', "init_reserves" \notin finished
               PROVE  ReserveAddresses' = Reserves'
    BY <1>4
  <2>1. ReserveAddresses = Reserves
    <3>1. s.op = "deploy" /\ GetPoolAddressesProvider \in s.id => ReserveAddresses = Reserves
      BY <1>2 DEF Sound
    <3>2. GetPoolAddressesProvider \in records => ReserveAddresses = Reserves
      BY DEF ListedInv
    <3> QED BY <1>2, <3>1, <3>2, PerformRecords
  <2> QED BY <1>6, <2>1, AddressesKept
<1>8. ThisScript' = ThisScript /\ Running' = Running
  BY PerformFrame DEF ThisScript, Running
<1>9. At("init_reserves")' => "init_reserves" \in finished' \/ ReservesProgress(proc.pc)'
  <2> SUFFICES ASSUME At("init_reserves"), "init_reserves" \notin finished
               PROVE  ReservesProgress(proc.pc)'
    BY <1>4, <1>8 DEF At
  <2>1. c = "init_reserves"
    BY DEF At
  <2>2. /\ ReservesProgress(proc.pc)
        /\ ReserveAddresses = Reserves \/ GetPoolAddressesProvider \notin records
        /\ \A r \in Symbols : reserve[r].collateral => Declared(r)
    BY DEF ListedInv
  <2> HIDE DEF c, s
  <2> QED BY <2>1, <2>2, ReservesProgressKept DEF c, s
<1> QED BY <1>5, <1>7, <1>9 DEF ListedInv

\* So does the end of init-reserves, and of every other script.
LEMMA EndScriptListed ==
  ASSUME TypeOK, Running, handover = "none", proc.pc \in Nat \ {0}, ListedInv, EndScript,
         Passed(StepsOf(ThisScript), Len(StepsOf(ThisScript)) + 1)
  PROVE  ListedInv'
<1>1. /\ UNCHANGED <<records, reserve, market>> /\ proc'.pc = 1
      /\ finished' \subseteq finished \cup {ThisScript} /\ finished \subseteq finished'
  BY DEF EndScript, chain, Idle
<1>2. /\ ReserveAddresses' = ReserveAddresses /\ Reserves' = Reserves
      /\ FirstEdition' = FirstEdition /\ FirstEdition \subseteq Symbols /\ FirstEdition \subseteq Reserves
  BY <1>1, FirstReserves DEF ReserveAddresses, Reserves, IsProductionMarket, FirstEdition
<1>3. \A s \in Symbols : reserve'[s].collateral => Declared(s)'
  BY <1>1 DEF ListedInv, Declared, Wants
<1>4. ASSUME "init_reserves" \notin finished, "init_reserves" \in finished', NEW s \in FirstEdition
      PROVE  reserve[s].listed /\ (~Wants("noLTV", s) => Declared(s))
  <2>1. ThisScript = "init_reserves"
    BY <1>1, <1>4
  <2>2. ReservesProgress(proc.pc)
    BY <1>4, <2>1 DEF ListedInv, At
  <2> DEFINE steps == StepsOf("init_reserves")
  <2>3. /\ Len(steps) \in Nat /\ (ReserveAddresses # {} => Len(steps) = 9)
        /\ ReserveAddresses = {} => Len(steps) = 2
        /\ steps[1].when
    BY InitReservesShape
  <2>4. Passed(steps, Len(steps) + 1)
    BY <2>1
  <2> HIDE DEF steps
  <2>5. proc.pc # 1
    <3>1. ASSUME proc.pc = 1 PROVE 1 \in proc.pc..Len(steps)
      BY <2>3, <3>1
    <3>2. proc.pc = 1 => ~steps[1].when
      BY <2>3, <2>4, <3>1 DEF Passed
    <3> QED BY <2>3, <3>2
  <2>6. ReserveAddresses = Reserves
    <3>1. GetPoolAddressesProvider \in records
      BY <2>2, <2>5 DEF ReservesProgress
    <3> QED BY <1>4, <3>1 DEF ListedInv
  <2>7. Len(steps) = 9
    BY <1>2, <2>3, <2>6
  <2>8. \E n \in Nat : n > 9 /\ ReservesProgress(n)
    <3>1. CASE proc.pc <= 10
      <4>1. Passed(steps, 10) /\ 10 <= Len(steps) + 1
        BY <2>4, <2>7
      <4>2. ReservesProgress(10)
        BY <2>2, <3>1, <4>1, ReservesPassed DEF steps
      <4> QED BY <4>2
    <3>2. CASE proc.pc > 10
      BY <2>2, <3>2
    <3> QED BY <3>1, <3>2
  <2>9. PICK n \in Nat : n > 9 /\ ReservesProgress(n)
    BY <2>8
  <2>10. n > 3 /\ n # 4 /\ n > 5 /\ n \notin {6, 7}
    BY <2>9
  <2> QED BY <2>9, <2>10 DEF ReservesProgress
<1>5. ListedAsDeclared'
  <2> SUFFICES ASSUME "init_reserves" \in finished', NEW s \in FirstEdition
               PROVE  reserve[s].listed /\ (~Wants("noLTV", s) => Declared(s))
    BY <1>1, <1>2 DEF ListedAsDeclared, Declared, Wants
  <2>1. CASE "init_reserves" \in finished
    BY <2>1 DEF ListedInv, ListedAsDeclared, Declared
  <2> QED BY <1>4, <2>1
<1>6. ReservesProgress(proc.pc)' <=> ReservesProgress(1)'
  BY <1>1
<1>7. At("init_reserves")' => "init_reserves" \in finished' \/ ReservesProgress(proc.pc)'
  BY <1>1 DEF ReservesProgress
<1> QED BY <1>1, <1>2, <1>3, <1>5, <1>7 DEF ListedInv

\* A process that starts a script, or stops, has come nowhere in it.
LEMMA ListedStays ==
  ASSUME ListedInv, UNCHANGED <<records, market, finished, reserve>>, proc'.pc = 1
  PROVE  ListedInv'
<1>1. ReservesProgress(proc.pc)'
  BY DEF ReservesProgress
<1> QED BY <1>1 DEF ListedInv, ReserveAddresses, Reserves, IsProductionMarket, FirstEdition,
          ListedAsDeclared, Declared, Wants, GetPoolAddressesProvider

\* Every step does.
LEMMA NextListed ==
  ASSUME DeploymentInv, ProcessInv, HelperInv, KnownTokens, ListedInv, [Next]_vars
  PROVE  ListedInv'
<1>1. TypeOK /\ proc.pc \in Nat \ {0}
  BY DEF DeploymentInv, ProcessInv
<1>2. CASE ScriptStep
  <2>1. Running /\ handover = "none"
    BY <1>2 DEF ScriptStep
  <2>2. CASE Stopped /\ UNCHANGED <<records, chain, market, executed, history>>
    <3>1. UNCHANGED <<records, market, finished, reserve>> /\ proc'.pc = 1
      BY <2>2 DEF Stopped, chain, history, Idle
    <3> QED BY <3>1, ListedStays
  <2>3. CASE Passed(StepsOf(ThisScript), Len(StepsOf(ThisScript)) + 1) /\ EndScript
    BY <1>1, <2>1, <2>3, EndScriptListed
  <2>4. ASSUME NEW i \in proc.pc..Len(StepsOf(ThisScript)),
               Passed(StepsOf(ThisScript), i), StepsOf(ThisScript)[i].needs,
               Perform(StepsOf(ThisScript)[i], i), UNCHANGED <<market, executed, history>>
        PROVE  ListedInv'
    BY <1>1, <2>1, <2>4, PerformListedInv
  <2> QED BY <1>1, <1>2, <2>2, <2>3, <2>4, ScriptStepCases
<1>3. CASE HandoverStep
  <2>1. UNCHANGED <<records, market, finished, reserve>> /\ handover # "none"
        /\ (proc' = proc \/ proc' = [proc EXCEPT !.pc = @ + 1])
    BY <1>3 DEF HandoverStep, disk, history, TransferAdapters, TransferAdmins, TransferACLAdmin,
         TransferContracts, TransferDefaultAdmin, HandOver, GiveRole, TakeRole
  <2>2. proc'.queue = proc.queue
    BY <1>1, <2>1 DEF TypeOK
  <2>3. ~At("init_reserves")'
    <3>1. ThisScript' = ThisScript
      BY <2>2 DEF ThisScript
    <3>2. ThisScript # "init_reserves"
      BY <2>1 DEF ProcessInv, OpsOf, ListingOps
    <3> QED BY <3>1, <3>2 DEF At
  <2> QED BY <2>1, <2>3 DEF ListedInv, ReserveAddresses, Reserves, IsProductionMarket, FirstEdition,
          ListedAsDeclared, Declared, Wants, GetPoolAddressesProvider
<1>4. ASSUME NEW scripts, Begin(scripts) PROVE ListedInv'
  <2>1. UNCHANGED <<records, market, finished, reserve>> /\ proc'.pc = 1
    BY <1>4 DEF Begin, disk, chain, history, Idle
  <2> QED BY <2>1, ListedStays
<1>5. CASE Crash
  <2>1. UNCHANGED <<records, market, finished, reserve>> /\ proc'.pc = 1
    BY <1>5 DEF Crash, Stopped, disk, chain, Idle
  <2> QED BY <2>1, ListedStays
<1>6. ASSUME NEW x, Visit(x) PROVE ListedInv'
  <2>1. DOMAIN reserve = Symbols
    BY <1>1 DEF TypeOK
  <2>2. PICK v : reserve' = [reserve EXCEPT ![x].suppliers = v]
    BY <1>6, VisitOnly
  <2>3. \A r \in Symbols : ReserveKept(r) /\ reserve'[r].listed = reserve[r].listed
                           /\ reserve'[r].collateral = reserve[r].collateral
                           /\ reserve'[r].cap = reserve[r].cap
    <3>1. ASSUME NEW r \in Symbols
          PROVE  {"suppliers", "listed", "collateral", "cap"} \subseteq DOMAIN reserve[r]
      BY DEF HelperInv, NewReserve
    <3>2. \A r \in Symbols : reserve'[r].listed = reserve[r].listed
                           /\ reserve'[r].collateral = reserve[r].collateral
                           /\ reserve'[r].cap = reserve[r].cap
      BY <2>1, <2>2, <3>1
    <3> QED BY <3>2 DEF ReserveKept
  <2>4. UNCHANGED <<market, proc, records, finished>>
    BY <1>6, VisitOnly
  <2>5. ListedAsDeclared' /\ \A s \in Symbols : reserve'[s].collateral => Declared(s)'
    BY <1>1, <2>3, <2>4, ListedKept
  <2>6. FirstEdition' = FirstEdition /\ FirstEdition \subseteq Symbols
    BY <1>1, <2>4, FirstReserves DEF FirstEdition
  <2>7. \A s \in FirstEdition : /\ reserve'[s].listed = reserve[s].listed
                                /\ Declared(s)' = Declared(s) /\ Wants("noLTV", s)' = Wants("noLTV", s)
    BY <2>3, <2>4, <2>6 DEF Declared, Wants
  <2>8. ReservesProgress(proc.pc)' = ReservesProgress(proc.pc)
    BY <2>4, <2>6, <2>7 DEF ReservesProgress, GetPoolAddressesProvider
  <2>9. At("init_reserves")' = At("init_reserves")
    BY <2>4 DEF At, Running, ThisScript
  <2>10. ReserveAddresses' = ReserveAddresses /\ Reserves' = Reserves
    BY <2>4 DEF ReserveAddresses, Reserves, IsProductionMarket
  <2> QED BY <2>4, <2>5, <2>8, <2>9, <2>10 DEF ListedInv
<1>7. CASE MarketFileGrows
  <2>1. UNCHANGED <<reserve, records, finished, proc>> /\ Complete
    BY <1>7 DEF MarketFileGrows, chain, history, disk
  <2>2. market'.params = market.params /\ market'.symbols = market.symbols
        /\ market'.later = market.later
    BY <1>7 DEF MarketFileGrows
  <2>3. "init_reserves" \in finished' /\ ~At("init_reserves")'
    <3>1. "init_reserves" \in Scripts
      <4>1. ScriptPaths[17] = "init_reserves" /\ 17 \in DOMAIN ScriptPaths
        BY DEF ScriptPaths
      <4> QED BY <4>1 DEF Scripts, ToSet
    <3> QED BY <2>1, <3>1 DEF Complete, At, Running
  <2>4. FirstEdition' = FirstEdition
    BY <2>2 DEF FirstEdition
  <2> QED BY <2>1, <2>2, <2>3, <2>4 DEF ListedInv, ListedAsDeclared, Declared, Wants
<1>8. CASE UNCHANGED vars
  BY <1>8 DEF vars, disk, chain, history, ListedInv, ReserveAddresses, Reserves,
          IsProductionMarket, FirstEdition, ListedAsDeclared, Declared, Wants, ReservesProgress,
          GetPoolAddressesProvider, At, Running, ThisScript
<1> QED BY <1>2, <1>3, <1>4, <1>5, <1>6, <1>7, <1>8 DEF Next, Visit, ProcessStep, Deploying, RunTask

\* Nothing has been listed yet.
LEMMA InitListed == Init => ListedInv
<1> SUFFICES ASSUME Init PROVE ListedInv
  OBVIOUS
<1>1. GetPoolAddressesProvider \notin records
  BY DEF Init, GetPoolAddressesProvider
<1>2. ~At("init_reserves") /\ finished = {}
  BY DEF Init, At, Running, Idle
<1>3. \A s \in Symbols : ~reserve[s].collateral
  BY DEF Init, NewReserve
<1> QED BY <1>1, <1>2, <1>3 DEF ListedInv, ListedAsDeclared

\* When init-reserves is done every reserve of the market file is listed and has
\* its collateral configuration, wherever earlier runs stopped, for market files
\* whose aTokens the helper knows.
THEOREM ReservesListed ==
  ASSUME KnownTokens
  PROVE  Spec => []ListedAsDeclared
<1>1. DeploymentInv /\ ChainInv /\ HelperInv /\ [Next]_vars => HelperInv'
  BY NextHelper DEF ChainInv
<1>2. ChainInv /\ DeploymentInv /\ [Next]_vars => ChainInv'
  BY NextChain
<1>3. DeploymentInv /\ ChainInv /\ HelperInv /\ ListedInv /\ [Next]_vars => ListedInv'
  BY NextListed DEF ChainInv
<1>4. ListedInv => ListedAsDeclared
  BY DEF ListedInv
<1> QED BY DeploymentCorrect, InitChain, InitHelper, InitListed, <1>1, <1>2, <1>3, <1>4, PTL DEF Spec

---------------------------------------------------------------------------
(* The order of the scripts *)

\* Once each, the elements of a sequence are the same.
LEMMA FirstOfEachElements ==
  ASSUME NEW S, NEW seq \in Seq(S)
  PROVE  FirstOfEach(seq) \in Seq(S) /\ ToSet(FirstOfEach(seq)) = ToSet(seq)
<1> DEFINE parts == [i \in 1..Len(seq) |-> If(\A j \in 1..i - 1 : seq[j] # seq[i], <<seq[i]>>)]
<1>1. Len(seq) \in Nat
  OBVIOUS
<1>2. parts \in [1..Len(seq) -> Seq(S)]
  BY DEF If
<1>3. ASSUME NEW i \in 1..Len(seq), NEW x \in ToSet(parts[i]) PROVE x \in ToSet(seq)
  BY <1>3 DEF If, ToSet
<1>4. ASSUME NEW x \in ToSet(seq)
      PROVE  \E i \in 1..Len(seq) : parts[i] = <<x>>
  <2> DEFINE T == {i \in 1..Len(seq) : seq[i] = x}
  <2>1. T \subseteq Nat /\ T # {}
    BY DEF ToSet
  <2> HIDE DEF T
  <2>2. PICK i \in T : \A j \in T : i <= j
    BY <2>1, LeastNatural
  <2>3. i \in 1..Len(seq) /\ seq[i] = x
    BY DEF T
  <2>4. \A j \in 1..i - 1 : seq[j] # seq[i]
    BY <2>2, <2>3, <1>1 DEF T
  <2>5. parts[i] = <<x>>
    BY <2>3, <2>4 DEF If
  <2> QED BY <2>3, <2>5
<1>5. FirstOfEach(seq) = FlattenSeq(parts)
  BY DEF FirstOfEach
<1> HIDE DEF parts
<1>6. \A x \in ToSet(FlattenSeq(parts)) : \E i \in 1..Len(seq) : x \in ToSet(parts[i])
  BY <1>1, <1>2, FlattenWithin
<1>7. ASSUME NEW x \in ToSet(seq) PROVE x \in ToSet(FlattenSeq(parts))
  <2>1. PICK i \in 1..Len(seq) : parts[i] = <<x>>
    BY <1>4
  <2>2. 1 \in 1..Len(parts[i]) /\ parts[i][1] = x
    BY <2>1
  <2> QED BY <1>1, <1>2, <2>2, FlattenElement
<1>8. FlattenSeq(parts) \in Seq(S)
  BY <1>1, <1>2, FlattenType
<1> QED BY <1>3, <1>5, <1>6, <1>7, <1>8

\* The order of the scripts: after-deploy is the last.
LEMMA ScriptOrder ==
  /\ ScriptPaths \in Seq(Scripts) /\ Len(ScriptPaths) = 25 /\ ScriptPaths[25] = "after_deploy"
  /\ \A i \in 1..25 : ScriptPaths[i] \in Scripts
  /\ \A c \in Scripts : \E i \in 1..25 : ScriptPaths[i] = c
  /\ ToSet(ScriptPaths) = Scripts
<1>1. Len(ScriptPaths) = 25 /\ ScriptPaths[25] = "after_deploy"
  BY DEF ScriptPaths
<1>2. \A i \in 1..25 : ScriptPaths[i] \in Scripts
  BY <1>1 DEF Scripts, ToSet
<1>3. \A c \in Scripts : \E i \in 1..25 : ScriptPaths[i] = c
  BY <1>1 DEF Scripts, ToSet
<1>4. ScriptPaths \in Seq(Scripts)
  <2> DEFINE S == Scripts
  <2>1. \A i \in 1..25 : ScriptPaths[i] \in S
    BY <1>2
  <2> HIDE DEF S
  <2>2. ScriptPaths \in Seq(S)
    BY <2>1 DEF ScriptPaths
  <2> QED BY <2>2 DEF S
<1> QED BY <1>1, <1>2, <1>3, <1>4 DEF Scripts

\* The scripts, by name.
LEMMA ScriptNames ==
  Scripts = {"before_deploy", "registry", "libraries", "treasury", "addresses_provider",
             "token_setup", "aggregators", "pool_impl", "l2_pool_impl", "configurator", "acl",
             "deploy_oracles", "init_oracles", "init_pool", "incentives", "tokens",
             "init_reserves", "init_periphery", "gateway", "wallet_balance", "ui_helpers",
             "paraswap", "pool_wrapper", "native_yield", "after_deploy"}
<1>1. Scripts = {ScriptPaths[i] : i \in 1..25}
  BY ScriptOrder
<1> QED BY <1>1 DEF ScriptPaths

\* after-deploy has a tag of its own, on which no script depends.
LEMMA AfterDeployApart ==
  /\ \A c \in Scripts : "after-deploy" \in Definition(c).tags => c = "after_deploy"
  /\ Definition("after_deploy").tags = {"after-deploy"}
  /\ Definition("after_deploy").dependencies = <<>>
  /\ \A c \in Scripts : /\ Len(Definition(c).dependencies) \in Nat
                        /\ \A i \in 1..Len(Definition(c).dependencies) :
                             Definition(c).dependencies[i] # "after-deploy"
<1> USE DEF Definition, Script, BeforeDeploy, Registry, Libraries, Treasury, AddressesProvider,
     TokenSetup, Aggregators, PoolImplementation, L2PoolImplementation, PoolConfigurator, InitAcl,
     DeployOracles, InitOracles, InitPool, Incentives, Tokens, InitReserves, InitPeriphery, Gateway,
     WalletBalance, UiHelpers, Paraswap, PoolWrapper, NativeYield, AfterDeploy
<1>1. \A c \in Scripts : "after-deploy" \in Definition(c).tags => c = "after_deploy"
  BY ScriptNames
<1>2. ASSUME NEW c \in Scripts
      PROVE  /\ Len(Definition(c).dependencies) \in Nat
             /\ \A i \in 1..Len(Definition(c).dependencies) :
                  Definition(c).dependencies[i] # "after-deploy"
  <2>1. CASE c \in {"before_deploy", "registry", "libraries", "treasury", "pool_impl", "l2_pool_impl",
                    "configurator", "incentives", "tokens", "gateway", "wallet_balance",
                    "ui_helpers", "paraswap", "pool_wrapper", "native_yield", "after_deploy"}
    BY <2>1
  <2>2. CASE c \in {"addresses_provider", "token_setup", "aggregators", "acl", "deploy_oracles"}
    BY <2>2
  <2>3. CASE c \in {"init_oracles", "init_pool", "init_reserves", "init_periphery"}
    BY <2>3
  <2> QED BY <2>1, <2>2, <2>3, ScriptNames
<1> QED BY <1>1, <1>2

\* The scripts of a tag: after-deploy has none in common with others.
LEMMA TaggedApart ==
  ASSUME NEW tag
  PROVE  /\ Tagged(tag) \in Seq(Scripts)
         /\ tag # "after-deploy" => ToSet(Tagged(tag)) \subseteq Earlier
         /\ tag = "after-deploy" => ToSet(Tagged(tag)) \subseteq {"after_deploy"}
<1> DEFINE T == {c \in Scripts : tag \in Definition(c).tags}
<1>1. T \subseteq Scripts
      /\ (tag # "after-deploy" => T \subseteq Earlier)
      /\ (tag = "after-deploy" => T \subseteq {"after_deploy"})
  BY AfterDeployApart DEF Earlier
<1>2. Tagged(tag) = Filter(ScriptPaths, T)
  BY DEF Tagged
<1> HIDE DEF T
<1>3. Filter(ScriptPaths, T) \in Seq(Scripts) /\ ToSet(Filter(ScriptPaths, T)) \subseteq T
  BY ScriptOrder, FilterType, FilterWithin
<1> QED BY <1>1, <1>2, <1>3

\* The queues of the scripts that one depends on, and itself.
LEMMA AfterApart ==
  ASSUME NEW queued, Apart(queued)
  PROVE  Apart(AfterDependencies(queued))
<1> DEFINE deps(c) == Definition(c).dependencies
           groups(c) == [i \in 1..Len(deps(c)) |-> Tagged(deps(c)[i])]
           named(c) == FlattenSeq(groups(c))
           queues(c) == [i \in 1..Len(named(c)) |-> queued[named(c)[i]]]
           before(c) == FlattenSeq(queues(c))
           new(c) == FirstOfEach(before(c) \o <<c>>)
<1>1. AfterDependencies(queued) = [c \in Scripts |-> new(c)]
  BY DEF AfterDependencies
<1>2. ASSUME NEW c \in Scripts
      PROVE  named(c) \in Seq(Earlier) /\ (c = "after_deploy" => named(c) = <<>>)
  <2> DEFINE n == Len(deps(c))
  <2>1. n \in Nat /\ \A i \in 1..n : Tagged(deps(c)[i]) \in Seq(Earlier)
    <3>1. n \in Nat
      BY AfterDeployApart
    <3>2. ASSUME NEW i \in 1..n PROVE Tagged(deps(c)[i]) \in Seq(Earlier)
      <4> DEFINE t == Tagged(deps(c)[i])
      <4>1. t \in Seq(Scripts) /\ ToSet(t) \subseteq Earlier
        BY TaggedApart, AfterDeployApart
      <4> HIDE DEF t
      <4>2. t \in Seq(Earlier)
        BY <4>1 DEF ToSet
      <4> QED BY <4>2 DEF t
    <3> QED BY <3>1, <3>2
  <2>2. groups(c) \in [1..n -> Seq(Earlier)]
    BY <2>1
  <2>3. named(c) \in Seq(Earlier)
    <3> DEFINE g == groups(c)
    <3>1. g \in [1..n -> Seq(Earlier)]
      BY <2>2
    <3> HIDE DEF g, n
    <3>2. FlattenSeq(g) \in Seq(Earlier)
      BY <2>1, <3>1, FlattenType
    <3> QED BY <3>2 DEF g, n
  <2>4. ASSUME c = "after_deploy" PROVE named(c) = <<>>
    <3>1. n = 0
      BY <2>4, AfterDeployApart
    <3>2. groups(c) = <<>>
      BY <3>1
    <3>3. FlattenSeq(<<>>) \in Seq({})
      <4>1. <<>> \in [1..0 -> Seq({})]
        OBVIOUS
      <4> QED BY <4>1, FlattenType
    <3> QED BY <3>2, <3>3
  <2> QED BY <2>3, <2>4
<1> HIDE DEF named
<1>3. ASSUME NEW c \in Scripts
      PROVE  before(c) \in Seq(Earlier) /\ (c = "after_deploy" => before(c) = <<>>)
  <2>1. named(c) \in Seq(Earlier) /\ Len(named(c)) \in Nat
    BY <1>2
  <2>2. ASSUME NEW i \in 1..Len(named(c)) PROVE queued[named(c)[i]] \in Seq(Earlier)
    <3>1. named(c)[i] \in Earlier
      BY <2>1
    <3> DEFINE q == queued[named(c)[i]]
    <3>2. q \in Seq(Scripts) /\ "after_deploy" \notin ToSet(q)
      BY <3>1 DEF Apart, Earlier
    <3> HIDE DEF q
    <3>3. q \in Seq(Earlier)
      BY <3>2 DEF ToSet, Earlier
    <3> QED BY <3>3 DEF q
  <2>3. queues(c) \in [1..Len(named(c)) -> Seq(Earlier)]
    BY <2>2
  <2>4. before(c) \in Seq(Earlier)
    BY <2>1, <2>3, FlattenType
  <2>5. ASSUME c = "after_deploy" PROVE before(c) = <<>>
    <3>1. queues(c) = <<>>
      BY <1>2, <2>5
    <3>2. <<>> \in [1..0 -> Seq({})]
      OBVIOUS
    <3>3. FlattenSeq(<<>>) \in Seq({})
      BY <3>2, FlattenType
    <3> QED BY <3>1, <3>3
  <2> QED BY <2>4, <2>5
<1> HIDE DEF before
<1>4. ASSUME NEW c \in Scripts
      PROVE  /\ new(c) \in Seq(Scripts) /\ c \in ToSet(new(c))
             /\ c \in Earlier => "after_deploy" \notin ToSet(new(c))
             /\ c = "after_deploy" => ToSet(new(c)) \subseteq {"after_deploy"}
  <2> DEFINE b == before(c)
             whole == b \o <<c>>
  <2>1. b \in Seq(Earlier) /\ (c = "after_deploy" => b = <<>>) /\ Earlier \subseteq Scripts
    BY <1>3 DEF Earlier
  <2> HIDE DEF b
  <2>2. whole \in Seq(Scripts) /\ ToSet(whole) = ToSet(b) \cup ToSet(<<c>>)
    <3>1. b \in Seq(Scripts) /\ <<c>> \in Seq(Scripts)
      BY <2>1
    <3> QED BY <3>1, JoinedSets
  <2> HIDE DEF whole
  <2>3. /\ ToSet(<<c>>) = {c} /\ ToSet(b) \subseteq Earlier
        /\ c = "after_deploy" => ToSet(b) = {}
    BY <2>1 DEF ToSet
  <2>4. FirstOfEach(whole) \in Seq(Scripts) /\ ToSet(FirstOfEach(whole)) = ToSet(whole)
    BY <2>2, FirstOfEachElements
  <2>5. new(c) = FirstOfEach(whole)
    BY DEF whole, b
  <2> QED BY <2>1, <2>2, <2>3, <2>4, <2>5 DEF Earlier
<1> HIDE DEF new
<1>5. "after_deploy" \in Scripts
  BY ScriptOrder
<1> QED BY <1>1, <1>4, <1>5 DEF Apart, Earlier

\* A command for after-deploy alone, or one that has all the other scripts too.
LEMMA ScheduleApart ==
  ASSUME NEW command \in DeployCommands
  PROVE  /\ Schedule[command] \in Seq(Scripts)
         /\ "after_deploy" \in ToSet(Schedule[command]) =>
              \/ Scripts \subseteq ToSet(Schedule[command])
              \/ ToSet(Schedule[command]) \subseteq {"after_deploy"}
<1> DEFINE selected == IF command = "all" THEN ScriptPaths ELSE Tagged(command)
           queues == [i \in 1..Len(selected) |-> WithDependencies[selected[i]]]
           whole == FlattenSeq(queues)
<1>1. Schedule[command] = FirstOfEach(whole)
  BY DEF Schedule
<1>2. Apart(WithDependencies)
  <2>1. Apart([c \in Scripts |-> <<c>>])
    <3> DEFINE own == [c \in Scripts |-> <<c>>]
    <3>1. ASSUME NEW c \in Scripts PROVE own[c] \in Seq(Scripts) /\ ToSet(own[c]) = {c}
      BY DEF ToSet
    <3>2. own \in [Scripts -> Seq(Scripts)]
      BY <3>1
    <3> HIDE DEF own
    <3>3. "after_deploy" \in Scripts /\ Earlier \subseteq Scripts /\ "after_deploy" \notin Earlier
      BY ScriptOrder DEF Earlier
    <3>4. Apart(own)
      BY <3>1, <3>2, <3>3 DEF Apart
    <3> QED BY <3>4 DEF own
  <2> QED BY <2>1, AfterApart DEF WithDependencies
<1>3. selected \in Seq(Scripts) /\ Len(selected) \in Nat
  BY ScriptOrder, TaggedApart
<1>4. /\ command = "all" => ToSet(selected) = Scripts
      /\ command # "all" => ToSet(selected) \subseteq Earlier \/ ToSet(selected) \subseteq {"after_deploy"}
  BY ScriptOrder, TaggedApart
<1> HIDE DEF selected
<1>5. queues \in [1..Len(selected) -> Seq(Scripts)]
  <2>1. ASSUME NEW i \in 1..Len(selected) PROVE WithDependencies[selected[i]] \in Seq(Scripts)
    <3>1. selected[i] \in Scripts
      BY <1>3
    <3> QED BY <1>2, <3>1 DEF Apart
  <2> QED BY <2>1
<1>6. \A i \in 1..Len(selected) : queues[i] = WithDependencies[selected[i]]
  OBVIOUS
<1> HIDE DEF queues
<1>7. whole \in Seq(Scripts)
  BY <1>3, <1>5, FlattenType
<1>8. ASSUME NEW c \in ToSet(selected) PROVE c \in ToSet(whole)
  <2>1. PICK i \in 1..Len(selected) : selected[i] = c
    BY DEF ToSet
  <2>2. c \in ToSet(queues[i])
    <3>1. c \in Scripts
      BY <1>3, <2>1
    <3> QED BY <1>2, <1>6, <2>1, <3>1 DEF Apart
  <2>3. PICK k \in 1..Len(queues[i]) : queues[i][k] = c
    BY <2>2 DEF ToSet
  <2> QED BY <1>3, <1>5, <2>3, FlattenElement
<1>9. ASSUME NEW x \in ToSet(whole)
      PROVE  \E c \in ToSet(selected) : x \in ToSet(WithDependencies[c])
  <2>1. PICK i \in 1..Len(selected) : x \in ToSet(queues[i])
    BY <1>3, <1>5, FlattenWithin
  <2> QED BY <1>6, <2>1 DEF ToSet
<1> HIDE DEF whole
<1>10. Schedule[command] \in Seq(Scripts) /\ ToSet(Schedule[command]) = ToSet(whole)
  BY <1>1, <1>7, FirstOfEachElements
<1>11. CASE command = "all"
  BY <1>4, <1>8, <1>10, <1>11
<1>12. CASE ToSet(selected) \subseteq Earlier
  <2>1. "after_deploy" \notin ToSet(whole)
    BY <1>2, <1>9, <1>12 DEF Apart
  <2> QED BY <1>10, <2>1
<1>13. CASE ToSet(selected) \subseteq {"after_deploy"}
  <2>1. ToSet(whole) \subseteq {"after_deploy"}
    BY <1>2, <1>9, <1>13 DEF Apart
  <2> QED BY <1>10, <2>1
<1> QED BY <1>4, <1>11, <1>12, <1>13

\* What a command runs is what it has that is not recorded, after-deploy last.
LEMMA ToRunApart ==
  ASSUME NEW command \in DeployCommands
  PROVE  /\ ToRun(command) \in Seq(Scripts)
         /\ \A i, j \in 1..Len(ToRun(command)) :
              i < j /\ ToRun(command)[i] = "after_deploy" => ToRun(command)[j] = "after_deploy"
         /\ ToSet(ToRun(command)) \subseteq ToSet(Schedule[command])
         /\ ToSet(Schedule[command]) \subseteq ToSet(ToRun(command)) \cup executed
         /\ ToSet(ToRun(command)) \subseteq Scripts \ executed
<1> DEFINE seq == Schedule[command]
           S == Scripts \ (executed \cup {"after_deploy"})
           T == {"after_deploy"} \ executed
           a == Filter(seq, S)
           b == Filter(seq, T)
<1>1. seq \in Seq(Scripts)
  BY ScheduleApart
<1>2. ToRun(command) = a \o b
  BY DEF ToRun
<1>3. "after_deploy" \notin S /\ T \subseteq {"after_deploy"} /\ Scripts \subseteq S \cup T \cup executed
  OBVIOUS
<1> HIDE DEF seq, S, T
<1>4. /\ a \in Seq(Scripts) /\ ToSet(a) \subseteq S \cap ToSet(seq)
      /\ b \in Seq(Scripts) /\ ToSet(b) \subseteq T \cap ToSet(seq)
  BY <1>1, FilterType, FilterWithin
<1>5. \A x \in ToSet(seq) : x \in S => x \in ToSet(a)
  BY <1>1, FilterElement
<1>6. \A x \in ToSet(seq) : x \in T => x \in ToSet(b)
  BY <1>1, FilterElement
<1> HIDE DEF a, b
<1> DEFINE w == a \o b
<1>7. /\ w \in Seq(Scripts) /\ ToSet(w) = ToSet(a) \cup ToSet(b)
      /\ \A i \in 1..Len(w) : \/ i <= Len(a) /\ w[i] \in ToSet(a)
                              \/ i > Len(a) /\ w[i] \in ToSet(b)
      /\ Len(a) \in Nat /\ Len(w) \in Nat
  BY <1>4, JoinedSets
<1> HIDE DEF w
<1>9. ASSUME NEW i \in 1..Len(w), NEW j \in 1..Len(w), i < j, w[i] = "after_deploy"
      PROVE  w[j] = "after_deploy"
  <2>1. w[i] \notin ToSet(a)
    BY <1>3, <1>4, <1>9
  <2>2. j > Len(a)
    BY <1>7, <1>9, <2>1
  <2>3. w[j] \in ToSet(b)
    BY <1>7, <2>2
  <2> QED BY <1>3, <1>4, <2>3
<1>11. ToSet(seq) \subseteq Scripts
  BY <1>1 DEF ToSet
<1>12. ToRun(command) = w
  BY <1>2 DEF w
<1>13. ToSet(w) \subseteq ToSet(seq) /\ ToSet(seq) \subseteq ToSet(w) \cup executed
  BY <1>3, <1>4, <1>5, <1>6, <1>7, <1>11
<1>14. ToSet(w) \subseteq Scripts \ executed
  BY <1>4, <1>7, ScriptNames DEF S, T
<1> QED BY <1>7, <1>9, <1>12, <1>13, <1>14 DEF seq

\* The operator comes to after-deploy when the others are done.
LEMMA FirstOfAll ==
  ASSUME Unfinished # {}
  PROVE  /\ FirstUnfinished \in Scripts \ finished
         /\ FirstUnfinished = "after_deploy" => Earlier \subseteq finished
<1> DEFINE first == CHOOSE i \in Unfinished : \A j \in Unfinished : i <= j
<1>1. Unfinished = {i \in 1..25 : ScriptPaths[i] \notin finished}
  BY ScriptOrder DEF Unfinished
<1>2. first \in Unfinished /\ \A j \in Unfinished : first <= j
  <2>1. Unfinished \subseteq Nat
    BY <1>1
  <2> QED BY <2>1, LeastNatural
<1>3. FirstUnfinished = ScriptPaths[first]
  BY DEF FirstUnfinished
<1> HIDE DEF first
<1>4. FirstUnfinished \in Scripts \ finished
  <2>1. first \in 1..25 /\ ScriptPaths[first] \notin finished
    BY <1>1, <1>2
  <2>2. \A i \in 1..25 : ScriptPaths[i] \in Scripts
    BY ScriptOrder
  <2> QED BY <1>3, <2>1, <2>2
<1>5. ASSUME FirstUnfinished = "after_deploy" PROVE Earlier \subseteq finished
  <2>1. first = 25
    <3>1. \A i \in 1..24 : ScriptPaths[i] # "after_deploy"
      BY DEF ScriptPaths
    <3>2. first \in 1..25 /\ ScriptPaths[first] = "after_deploy"
      BY <1>1, <1>2, <1>3, <1>5
    <3>3. first \notin 1..24
      BY <3>1, <3>2
    <3> QED BY <3>2, <3>3
  <2>2. \A i \in 1..24 : ScriptPaths[i] \in finished
    BY <1>1, <1>2, <2>1
  <2>3. \A c \in Earlier : \E i \in 1..24 : ScriptPaths[i] = c
    BY ScriptOrder DEF Earlier
  <2> QED BY <2>2, <2>3
<1> QED BY <1>4, <1>5

\* When it is its turn they are done.
LEMMA AfterTheOthers ==
  ASSUME QueueInv, At("after_deploy")
  PROVE  Earlier \subseteq finished
<1>1. /\ Len(proc.queue) \in Nat /\ 1 \in 1..Len(proc.queue) /\ proc.queue[1] = "after_deploy"
  BY DEF QueueInv, At, Running, ThisScript
<1>2. \A x \in ToSet(proc.queue) : x = "after_deploy"
  <2>1. ASSUME NEW j \in 1..Len(proc.queue) PROVE proc.queue[j] = "after_deploy"
    <3>1. j = 1 \/ 1 < j
      BY <1>1
    <3> QED BY <1>1, <3>1 DEF QueueInv
  <2> QED BY <2>1 DEF ToSet
<1>3. "after_deploy" \in ToSet(proc.queue)
  BY <1>1 DEF ToSet
<1> QED BY <1>2, <1>3 DEF QueueInv, Earlier

\* A script that ends leaves the queue.
LEMMA EndScriptQueue ==
  ASSUME QueueInv, Running, EndScript
  PROVE  QueueInv'
<1> DEFINE q == proc.queue
           t == Tail(q)
           S == Scripts \cup TaskCommands
<1>1. q \in Seq(S) /\ q # <<>>
  BY DEF QueueInv, Running
<1>2. proc'.queue = t /\ finished' = finished \cup ({Head(q)} \cap Scripts)
  BY DEF EndScript, ThisScript, Idle
<1> HIDE DEF S
<1>3. /\ t \in Seq(S) /\ Len(t) = Len(q) - 1 /\ Len(q) \in Nat \ {0} /\ Head(q) = q[1]
      /\ \A i \in 1..Len(t) : t[i] = q[i + 1]
  BY <1>1
<1>4. ASSUME NEW i \in 1..Len(t), NEW j \in 1..Len(t), i < j, t[i] = "after_deploy"
      PROVE  t[j] = "after_deploy"
  <2> HIDE DEF q, t
  <2>1. i + 1 \in 1..Len(q) /\ j + 1 \in 1..Len(q) /\ i + 1 < j + 1
    BY <1>3, <1>4
  <2>2. \A m, n \in 1..Len(q) : m < n /\ q[m] = "after_deploy" => q[n] = "after_deploy"
    BY DEF QueueInv, q
  <2> QED BY <1>3, <1>4, <2>1, <2>2
<1>5. ToSet(q) = ToSet(t) \cup {Head(q)}
  <2> HIDE DEF q, t
  <2>1. \A j \in 1..Len(q) : j = 1 \/ \E i \in 1..Len(t) : j = i + 1
    <3>1. ASSUME NEW j \in 1..Len(q), j # 1 PROVE j - 1 \in 1..Len(t) /\ j = (j - 1) + 1
      BY <1>3, <3>1
    <3> QED BY <3>1
  <2>2. ToSet(q) \subseteq ToSet(t) \cup {Head(q)}
    <3>1. ASSUME NEW j \in 1..Len(q) PROVE q[j] = Head(q) \/ \E i \in 1..Len(t) : q[j] = t[i]
      BY <1>3, <2>1
    <3> QED BY <3>1 DEF ToSet
  <2>3. ASSUME NEW x \in ToSet(t) PROVE x \in ToSet(q)
    <3>1. PICK i \in 1..Len(t) : t[i] = x
      BY DEF ToSet
    <3> DEFINE j == i + 1
    <3>2. j \in 1..Len(q) /\ q[j] = x
      BY <1>3, <3>1
    <3> HIDE DEF j
    <3> QED BY <3>2 DEF ToSet
  <2>4. Head(q) \in ToSet(q)
    <3>1. 1 \in 1..Len(q)
      BY <1>3
    <3> QED BY <1>3, <3>1 DEF ToSet
  <2> QED BY <2>2, <2>3, <2>4
<1>6. /\ "after_deploy" \in ToSet(q) => Earlier \subseteq finished \cup ToSet(q)
      /\ "after_deploy" \in finished => Earlier \subseteq finished
  BY DEF QueueInv
<1>7. Head(q) = "after_deploy" => Earlier \subseteq finished
  BY AfterTheOthers DEF At, ThisScript
<1>8. Earlier \subseteq Scripts
  BY DEF Earlier
<1> HIDE DEF q, t
<1>9. "after_deploy" \in ToSet(t) => Earlier \subseteq finished' \cup ToSet(t)
  BY <1>2, <1>5, <1>6, <1>8
<1>10. "after_deploy" \in finished' => Earlier \subseteq finished'
  BY <1>2, <1>6, <1>7
<1> QED BY <1>2, <1>3, <1>4, <1>9, <1>10 DEF QueueInv, S, Earlier

\* Nothing in the queue.
LEMMA QueueEmpty ==
  ASSUME proc'.queue = <<>>, UNCHANGED finished, QueueInv
  PROVE  QueueInv'
BY DEF QueueInv, ToSet, Earlier

\* A command for the script that is missing brings what is before it.
LEMMA DeployingQueue ==
  ASSUME TypeOK, QueueInv, NEW command \in DeployCommands, Deploying(command)
  PROVE  QueueInv'
<1> DEFINE run == ToRun(command)
           due == ToSet(Schedule[command])
<1>1. proc'.queue = run /\ UNCHANGED finished /\ Unfinished # {} /\ FirstUnfinished \in due
  BY DEF Deploying, Begin, Idle, history
<1>2. /\ run \in Seq(Scripts)
      /\ \A i, j \in 1..Len(run) : i < j /\ run[i] = "after_deploy" => run[j] = "after_deploy"
      /\ ToSet(run) \subseteq due /\ due \subseteq ToSet(run) \cup executed
  BY ToRunApart
<1>3. "after_deploy" \in due => Scripts \subseteq due \/ due \subseteq {"after_deploy"}
  BY ScheduleApart
<1> HIDE DEF run, due
<1>4. executed \subseteq finished
  BY DEF TypeOK
<1>5. ASSUME "after_deploy" \in ToSet(run) PROVE Earlier \subseteq finished \cup ToSet(run)
  <2>1. CASE Scripts \subseteq due
    BY <1>2, <1>4, <2>1 DEF Earlier
  <2>2. CASE due \subseteq {"after_deploy"}
    <3>1. FirstUnfinished = "after_deploy"
      BY <1>1, <2>2
    <3> QED BY <1>1, <3>1, FirstOfAll
  <2> QED BY <1>2, <1>3, <1>5, <2>1, <2>2
<1>6. run \in Seq(Scripts \cup TaskCommands)
  BY <1>2
<1> QED BY <1>1, <1>2, <1>5, <1>6 DEF QueueInv, Earlier

\* A task is for a market that is there.
LEMMA RunTaskQueue ==
  ASSUME QueueInv, NEW task \in TaskCommands, RunTask(task)
  PROVE  QueueInv'
<1>1. proc'.queue = <<task>> /\ UNCHANGED finished /\ Earlier \subseteq finished
  BY DEF RunTask, Begin, Idle, history, Earlier
<1>2. /\ <<task>> \in Seq(Scripts \cup TaskCommands) /\ Len(<<task>>) = 1
      /\ \A i, j \in 1..Len(<<task>>) : ~(i < j)
  OBVIOUS
<1> QED BY <1>1, <1>2 DEF QueueInv, Earlier

\* Every step keeps the order.
LEMMA NextQueue ==
  ASSUME DeploymentInv, ProcessInv, QueueInv, [Next]_vars
  PROVE  QueueInv'
<1>1. TypeOK
  BY DEF DeploymentInv
<1>2. CASE ScriptStep
  <2>1. Running /\ handover = "none" /\ proc.pc \in Nat \ {0}
    BY <1>2 DEF ScriptStep, ProcessInv
  <2>2. CASE EndScript
    BY <2>1, <2>2, EndScriptQueue
  <2>3. CASE Stopped /\ UNCHANGED <<records, chain, market, executed, history>>
    BY <2>3, QueueEmpty DEF Stopped, Idle, history
  <2>4. ASSUME NEW s, NEW i, Perform(s, i), UNCHANGED <<market, executed, history>>
        PROVE  QueueInv'
    <3>1. proc'.queue = proc.queue /\ UNCHANGED finished
      BY <1>1, <2>1, <2>4, PerformFrame DEF history
    <3> QED BY <3>1 DEF QueueInv, Earlier
  <2> QED BY <1>1, <1>2, <2>1, <2>2, <2>3, <2>4, ScriptStepCases
<1>3. CASE HandoverStep
  <2>1. /\ UNCHANGED finished
        /\ proc' = proc \/ proc' = [proc EXCEPT !.pc = @ + 1]
    BY <1>3 DEF HandoverStep, TransferAdapters, TransferAdmins, TransferACLAdmin, TransferContracts,
         TransferDefaultAdmin, HandOver, GiveRole, TakeRole, history
  <2>2. proc'.queue = proc.queue
    BY <1>1, <2>1 DEF TypeOK
  <2> QED BY <2>1, <2>2 DEF QueueInv, Earlier
<1>4. CASE Crash
  BY <1>4, QueueEmpty DEF Crash, Stopped, Idle
<1>5. CASE UNCHANGED <<proc, finished>>
  BY <1>5 DEF QueueInv, Earlier
<1>6. CASE MarketFileGrows \/ UNCHANGED vars \/ \E s \in ToSet(market.symbols) : Visit(s)
  BY <1>5, <1>6, VisitOnly DEF MarketFileGrows, vars, history
<1> QED BY <1>1, <1>2, <1>3, <1>4, <1>6, DeployingQueue, RunTaskQueue DEF Next, Visit, ProcessStep

\* No script is done or selected yet.
LEMMA InitQueue == Init => QueueInv
BY DEF Init, QueueInv, Idle, ToSet

---------------------------------------------------------------------------
(* Who owns the contracts and has the roles *)

\* What performing a step does with the roles.
LEMMA PerformRoles ==
  ASSUME TypeOK, NEW s, NEW i, NEW ops, Sound(s, ops), ~Refused(s), Perform(s, i)
  PROVE  \/ UNCHANGED acl
         \/ acl' = [acl EXCEPT !["DEFAULT_ADMIN"] = @ \cup {slots[<<"ACL_ADMIN">>]}]
         \/ \E r \in {"POOL_ADMIN", "EMERGENCY_ADMIN"} :
              MayGrant /\ acl' = [acl EXCEPT ![r] = @ \cup {Deployer}]
         \/ \E H : acl' = [acl EXCEPT !["RISK_ADMIN"] = H]
         \/ /\ {Deployer, market.multisig} \subseteq acl["POOL_ADMIN"]
            /\ acl' = [acl EXCEPT !["POOL_ADMIN"] = @ \ {Deployer}]
<1>1. CASE DeployContracts(s, i)
  BY <1>1 DEF DeployContracts
<1>2. CASE GrantToDeployer(s, i)
  BY <1>2 DEF GrantToDeployer, Sound, Refused
<1>3. CASE MakeSetupHelperRiskAdmin(s, i)
  BY <1>3 DEF MakeSetupHelperRiskAdmin
<1>4. CASE Renounce(s, i)
  BY <1>4 DEF Renounce, Renounced
<1> QED BY <1>1, <1>2, <1>3, <1>4, RoleMoves

\* What performing a step does with the ACL's admin: only the provider's owner
\* sets it, to the deployer.
LEMMA PerformAdmin ==
  ASSUME TypeOK, handover = "none", NEW s, NEW i, NEW ops, Sound(s, ops), ~Refused(s), Perform(s, i)
  PROVE  \/ slots'[<<"ACL_ADMIN">>] = slots[<<"ACL_ADMIN">>]
         \/ owner[GetPoolAddressesProvider] = Deployer /\ slots'[<<"ACL_ADMIN">>] = Deployer
<1>1. CASE s.op = "set"
  <2>1. slots' = [slots EXCEPT ![s.id] = s.val] /\ DOMAIN slots = Slots /\ <<"ACL_ADMIN">> \in Slots
    BY <1>1, PerformFrame DEF TypeOK, Slots
  <2>2. CASE s.id = <<"ACL_ADMIN">>
    <3>1. s.val = Deployer /\ MaySet(s.id)
      BY <1>1, <2>2 DEF Sound, Refused
    <3>2. owner[GetPoolAddressesProvider] = Deployer
      BY <2>2, <3>1 DEF MaySet
    <3> QED BY <2>1, <2>2, <3>1, <3>2
  <2>3. CASE s.id # <<"ACL_ADMIN">>
    BY <2>1, <2>3
  <2> QED BY <2>2, <2>3
<1>2. CASE s.op # "set"
  BY <1>2, PerformFrame
<1> QED BY <1>1, <1>2

\* So it keeps them.
LEMMA PerformHolders ==
  ASSUME DeploymentInv, DeploymentInv', Keeps, handover = "none",
         NEW s, NEW i, NEW ops, Sound(s, ops), ~Refused(s),
         Perform(s, i), acl["POOL_ADMIN"] \subseteq Holders
  PROVE  HoldersKept
<1>1. TypeOK /\ DOMAIN acl = Roles /\ Deployer # Multisig /\ Nobody \notin Holders
      /\ market.multisig \in {Multisig, Nobody}
  BY MarketMultisig, AccountsAssumption DEF DeploymentInv, TypeOK, Holders
<1>2. \/ slots'[<<"ACL_ADMIN">>] = slots[<<"ACL_ADMIN">>]
      \/ owner[GetPoolAddressesProvider] = Deployer /\ slots'[<<"ACL_ADMIN">>] = Deployer
  BY <1>1, PerformAdmin
<1>3. \/ UNCHANGED acl
      \/ acl' = [acl EXCEPT !["DEFAULT_ADMIN"] = @ \cup {slots[<<"ACL_ADMIN">>]}]
      \/ \E r \in {"POOL_ADMIN", "EMERGENCY_ADMIN"} :
           MayGrant /\ acl' = [acl EXCEPT ![r] = @ \cup {Deployer}]
      \/ \E H : acl' = [acl EXCEPT !["RISK_ADMIN"] = H]
      \/ /\ Multisig \in acl["POOL_ADMIN"]
         /\ acl' = [acl EXCEPT !["POOL_ADMIN"] = @ \ {Deployer}]
  <2>1. {Deployer, market.multisig} \subseteq acl["POOL_ADMIN"] => Multisig \in acl["POOL_ADMIN"]
    BY <1>1
  <2> QED BY <1>1, <2>1, PerformRoles
<1>4. \A r \in Admins : /\ Multisig \in acl[r] => Multisig \in acl'[r]
                        /\ RoleHeld(r) => RoleHeld(r)'
  <2> SUFFICES ASSUME NEW r \in Admins
               PROVE  /\ Multisig \in acl[r] => Multisig \in acl'[r]
                      /\ RoleHeld(r) => RoleHeld(r)'
    OBVIOUS
  <2>1. r \in Roles /\ r # "RISK_ADMIN"
    BY DEF Roles, Admins
  <2>2. acl[r] \subseteq acl'[r] \/ (Multisig \in acl[r] /\ acl'[r] = acl[r] \ {Deployer})
    BY <1>1, <1>3, <2>1
  <2> QED BY <1>1, <2>2 DEF RoleHeld, Holders
<1>5. AdminHeld => AdminHeld'
  BY <1>2 DEF AdminHeld, Holders
<1>6. DeployerOut => DeployerOut'
  <2> SUFFICES ASSUME DeployerOut PROVE DeployerOut'
    OBVIOUS
  <2>1. slots'[<<"ACL_ADMIN">>] = Multisig
    BY <1>1, <1>2 DEF DeployerOut
  <2>2. owner'[GetPoolAddressesProvider] = Multisig
    <3>1. GetPoolAddressesProvider \in Ownables
      BY DEF GetPoolAddressesProvider, Ownables
    <3> QED BY <3>1 DEF Keeps, DeployerOut
  <2>3. \A r \in {"DEFAULT_ADMIN", "POOL_ADMIN"} : acl'[r] \subseteq acl[r] \cup {Multisig}
    <3>1. ~MayGrant /\ slots[<<"ACL_ADMIN">>] = Multisig
      BY DEF DeployerOut, MayGrant
    <3>2. {"DEFAULT_ADMIN", "POOL_ADMIN"} \subseteq DOMAIN acl
      BY <1>1 DEF Roles
    <3> QED BY <1>3, <3>1, <3>2
  <2> QED BY <1>1, <2>1, <2>2, <2>3 DEF DeployerOut, GetPoolAddressesProvider
<1>7. acl'["POOL_ADMIN"] \subseteq Holders
  <2>1. "POOL_ADMIN" \in DOMAIN acl
    BY <1>1 DEF Roles
  <2>2. acl'["POOL_ADMIN"] \subseteq acl["POOL_ADMIN"] \cup {Deployer}
    BY <1>3, <2>1
  <2> QED BY <2>2 DEF Holders
<1> QED BY <1>4, <1>5, <1>6, <1>7 DEF HoldersKept

\* A step of the handover gives the multisig what it takes from the deployer.
LEMMA HandoverHolders ==
  ASSUME DeploymentInv, Keeps, HandoverStep, acl["POOL_ADMIN"] \subseteq Holders
  PROVE  HoldersKept
<1>1. /\ TypeOK /\ DOMAIN acl = Roles /\ DOMAIN slots = Slots /\ <<"ACL_ADMIN">> \in Slots
      /\ Deployer # Multisig
  BY AccountsAssumption DEF DeploymentInv, TypeOK, Slots
<1>2. market.multisig = Multisig
  <2>1. handover # "none"
    BY DEF HandoverStep, TransferAdapters, TransferAdmins, TransferACLAdmin, TransferContracts,
         TransferDefaultAdmin
  <2> QED BY <1>1, <2>1, MarketMultisig DEF DeploymentInv, HandoverInOrder
<1>3. \/ UNCHANGED acl
      \/ \E r \in Admins : acl' = [acl EXCEPT ![r] = @ \cup {Multisig}]
      \/ \E r \in Admins : Multisig \in acl[r] /\ acl' = [acl EXCEPT ![r] = @ \ {Deployer}]
  <2>1. CASE TransferAdmins \/ TransferDefaultAdmin
    BY <1>2, <2>1 DEF TransferAdmins, TransferDefaultAdmin, GiveRole, TakeRole, Admins,
                      DeploymentInv, HandoverInOrder
  <2>2. CASE TransferAdapters \/ TransferACLAdmin \/ TransferContracts
    BY <2>2 DEF TransferAdapters, TransferACLAdmin, TransferContracts, HandOver
  <2> QED BY <2>1, <2>2 DEF HandoverStep
<1>4. \/ slots'[<<"ACL_ADMIN">>] = slots[<<"ACL_ADMIN">>]
      \/ slots'[<<"ACL_ADMIN">>] = Multisig
  <2>1. UNCHANGED slots \/ slots' = [slots EXCEPT ![<<"ACL_ADMIN">>] = Multisig]
    BY <1>2 DEF HandoverStep, TransferAdapters, TransferAdmins, TransferACLAdmin,
         TransferContracts, TransferDefaultAdmin, HandOver, GiveRole, TakeRole
  <2> QED BY <1>1, <2>1
<1>5. \A r \in Admins : /\ Multisig \in acl[r] => Multisig \in acl'[r]
                        /\ RoleHeld(r) => RoleHeld(r)'
  <2> SUFFICES ASSUME NEW r \in Admins
               PROVE  /\ Multisig \in acl[r] => Multisig \in acl'[r]
                      /\ RoleHeld(r) => RoleHeld(r)'
    OBVIOUS
  <2>1. r \in Roles
    BY DEF Roles, Admins
  <2>2. acl[r] \subseteq acl'[r] \/ (Multisig \in acl[r] /\ acl'[r] = acl[r] \ {Deployer})
    BY <1>1, <1>3, <2>1
  <2> QED BY <1>1, <2>2 DEF RoleHeld, Holders
<1>6. \A r \in {"DEFAULT_ADMIN", "POOL_ADMIN"} : acl'[r] \subseteq acl[r] \cup {Multisig}
  <2>1. {"DEFAULT_ADMIN", "POOL_ADMIN"} \subseteq DOMAIN acl
    BY <1>1 DEF Roles
  <2> QED BY <1>3, <2>1
<1>7. AdminHeld => AdminHeld'
  BY <1>4 DEF AdminHeld, Holders
<1>8. DeployerOut => DeployerOut'
  <2> SUFFICES ASSUME DeployerOut PROVE DeployerOut'
    OBVIOUS
  <2>1. slots'[<<"ACL_ADMIN">>] = Multisig
    BY <1>4 DEF DeployerOut
  <2>2. owner'[GetPoolAddressesProvider] = Multisig
    <3>1. GetPoolAddressesProvider \in Ownables
      BY DEF GetPoolAddressesProvider, Ownables
    <3> QED BY <3>1 DEF Keeps, DeployerOut
  <2> QED BY <1>1, <1>6, <2>1, <2>2 DEF DeployerOut, GetPoolAddressesProvider
<1>9. acl'["POOL_ADMIN"] \subseteq Holders
  BY <1>6 DEF Holders
<1> QED BY <1>5, <1>7, <1>8, <1>9 DEF HoldersKept

\* A step that changes neither the roles nor the ACL's admin.
LEMMA SameHolders ==
  ASSUME Keeps, UNCHANGED <<acl, slots>>, acl["POOL_ADMIN"] \subseteq Holders
  PROVE  HoldersKept
<1>1. GetPoolAddressesProvider \in Ownables
  BY DEF GetPoolAddressesProvider, Ownables
<1> QED BY <1>1 DEF Keeps, HoldersKept, RoleHeld, AdminHeld, DeployerOut, GetPoolAddressesProvider

\* A step of a script keeps that.
LEMMA PerformOwned ==
  ASSUME DeploymentInv, handover = "none", Owned, NEW s, NEW i, NEW ops, Sound(s, ops), ~Refused(s),
         Perform(s, i)
  PROVE  Owned'
<1>1. DOMAIN owner = Ownables /\ Nobody \notin Holders /\ Deployer \in Holders
      /\ market.multisig \in Holders \cup {Nobody}
  BY MarketMultisig, AccountsAssumption DEF DeploymentInv, TypeOK, Holders
<1>2. CASE DeployContracts(s, i)
  BY <1>1, <1>2 DEF DeployContracts, Owned
<1>3. CASE TransferToDeployer(s, i) \/ HandOne(s, i)
  <2>1. PICK new \in Holders : owner' = [owner EXCEPT ![s.id] = new]
    BY <1>1, <1>3, NotRefused DEF TransferToDeployer, HandOne
  <2>2. UNCHANGED records
    BY <1>3 DEF TransferToDeployer, HandOne
  <2> QED BY <1>1, <2>1, <2>2 DEF Owned
<1>4. CASE UNCHANGED owner /\ \A id \in Ownables : id \in records' => id \in records
  BY <1>4 DEF Owned
<1>5. CASE SaveRecords(s, i)
  <2>1. s.id \cap Ownables = {} /\ UNCHANGED owner /\ records' = records \cup s.id
    BY <1>5 DEF SaveRecords, Sound, chain
  <2> QED BY <1>4, <2>1
<1>6. CASE DeployDistributor(s, i)
  <2>1. s.id \notin Ownables
    BY <1>6 DEF DeployDistributor, Sound, Ownables
  <2>2. UNCHANGED owner /\ records' \subseteq records \cup {s.id}
    BY <1>6 DEF DeployDistributor
  <2> QED BY <1>4, <2>1, <2>2
<1>7. \/ UNCHANGED <<owner, records>>
      \/ DeployContracts(s, i) \/ TransferToDeployer(s, i) \/ HandOne(s, i) \/ SaveRecords(s, i)
      \/ DeployDistributor(s, i)
  BY DEF Perform, InitializeContract, SetSlot, GrantToDeployer, Renounce, MakeSetupHelperRiskAdmin,
         Pass, AssignLocals, BeginHandover, ConfigureReserve, ListReserves, ConfigureReserves, chain
<1> QED BY <1>2, <1>3, <1>4, <1>5, <1>6, <1>7

\* So does one of the handover.
LEMMA HandoverOwned ==
  ASSUME DeploymentInv, Owned, HandoverStep
  PROVE  Owned'
<1>1. DOMAIN owner = Ownables /\ Nobody \notin Holders /\ UNCHANGED records
  BY AccountsAssumption DEF DeploymentInv, TypeOK, Holders, HandoverStep, disk
<1>2. market.multisig \in Holders
  <2>1. handover # "none"
    BY DEF HandoverStep, TransferAdapters, TransferAdmins, TransferACLAdmin, TransferContracts,
         TransferDefaultAdmin
  <2> QED BY <2>1, MarketMultisig DEF DeploymentInv, HandoverInOrder, Holders
<1>3. UNCHANGED owner \/ \E id : owner' = [owner EXCEPT ![id] = market.multisig]
  BY DEF HandoverStep, TransferAdapters, TransferAdmins, TransferACLAdmin,
         TransferContracts, TransferDefaultAdmin, HandOver, GiveRole, TakeRole
<1> QED BY <1>1, <1>2, <1>3 DEF Owned

\* The ACL is set up in six steps: its admin first, a check of the roles last.
LEMMA InitAclShape ==
  /\ Len(InitAclSteps) = 6
  /\ InitAclSteps[1].op = "set" /\ InitAclSteps[1].id = <<"ACL_ADMIN">>
  /\ InitAclSteps[1].val = Deployer
  /\ \A i \in 1..6 : InitAclSteps[i].when
                     /\ InitAclSteps[i].op \notin {"handover", "initReserves", "configureReserves"}
  /\ InitAclSteps[6].needs =>
       \A r \in {"DEFAULT_ADMIN", "POOL_ADMIN", "EMERGENCY_ADMIN"} : Deployer \in acl[r]
<1> DEFINE a == Set(<<"ACL_ADMIN">>, Deployer, Recorded({GetPoolAddressesProvider}))
           b == Deploy({<<"ACLManager">>}, slots[<<"ACL_ADMIN">>] # Nothing)
           c == Set(<<"ACL_MANAGER">>, <<"ACLManager">>, TRUE)
           d == AddRole("POOL_ADMIN")
           e == AddRole("EMERGENCY_ADMIN")
           f == Check(\A r \in {"DEFAULT_ADMIN", "POOL_ADMIN", "EMERGENCY_ADMIN"} : Deployer \in acl[r])
           ops == {"set", "deploy", "grant", "check"}
<1>1. /\ a.op = "set" /\ a.id = <<"ACL_ADMIN">> /\ a.val = Deployer /\ a.when
      /\ b.op = "deploy" /\ b.when /\ c.op = "set" /\ c.when /\ d.op = "grant" /\ d.when
      /\ e.op = "grant" /\ e.when /\ f.op = "check" /\ f.when
      /\ f.needs => \A r \in {"DEFAULT_ADMIN", "POOL_ADMIN", "EMERGENCY_ADMIN"} : Deployer \in acl[r]
  BY DEF Set, Deploy, AddRole, Check, Step
<1>2. InitAclSteps = <<a, b, c, d, e, f>>
  BY DEF InitAclSteps
<1> HIDE DEF a, b, c, d, e, f
<1>3. /\ Len(InitAclSteps) = 6 /\ InitAclSteps[1] = a /\ InitAclSteps[2] = b /\ InitAclSteps[3] = c
      /\ InitAclSteps[4] = d /\ InitAclSteps[5] = e /\ InitAclSteps[6] = f
  BY <1>2
<1>4. \A i \in 1..6 : i = 1 \/ i = 2 \/ i = 3 \/ i = 4 \/ i = 5 \/ i = 6
  OBVIOUS
<1> QED BY <1>1, <1>3, <1>4

\* A step of it leaves behind it what it must.
LEMMA AclProgressKept ==
  ASSUME TypeOK, handover = "none", proc.pc \in Nat \ {0}, AclProgress, HoldersKept,
         NEW i \in proc.pc..6, Passed(InitAclSteps, i), InitAclSteps[i].needs,
         Perform(InitAclSteps[i], i)
  PROVE  AclProgress'
<1> DEFINE s == InitAclSteps[i]
<1>1. i \in 1..6 /\ s.op \notin {"handover", "initReserves", "configureReserves"}
  BY InitAclShape
<1>2. proc'.pc = i + 1
  BY <1>1, PerformFrame
<1>3. proc.pc = i
  <2> SUFFICES ASSUME proc.pc < i PROVE FALSE
    OBVIOUS
  <2>1. proc.pc \in proc.pc..Len(InitAclSteps) /\ proc.pc \in 1..6
    BY <1>1, InitAclShape
  <2> QED BY <2>1, InitAclShape DEF Passed
<1>4. AdminHeld'
  <2>1. CASE i = 1
    <3>1. slots' = [slots EXCEPT ![s.id] = s.val] /\ s.id = <<"ACL_ADMIN">> /\ s.val = Deployer
      BY <2>1, InitAclShape, PerformFrame
    <3>2. DOMAIN slots = Slots /\ <<"ACL_ADMIN">> \in Slots
      BY DEF TypeOK, Slots
    <3> QED BY <3>1, <3>2 DEF AdminHeld, Holders
  <2>2. CASE i # 1
    BY <1>1, <1>3, <2>2 DEF AclProgress, HoldersKept
  <2> QED BY <2>1, <2>2
<1>5. proc'.pc > 6 => \A r \in Admins : RoleHeld(r)'
  <2> SUFFICES ASSUME i = 6 PROVE \A r \in Admins : RoleHeld(r)'
    BY <1>1, <1>2
  <2>1. \A r \in Admins : Deployer \in acl[r]
    BY InitAclShape DEF Admins
  <2>2. \A r \in Admins : RoleHeld(r)
    BY <2>1 DEF RoleHeld, Holders
  <2> QED BY <2>2 DEF HoldersKept
<1> QED BY <1>4, <1>5 DEF AclProgress, Admins

\* The roles stay held when no script ends, wherever the process is.
LEMMA HeldStays ==
  ASSUME HeldInv, HoldersKept, Owned', UNCHANGED finished, At("acl")' => AclProgress'
  PROVE  HeldInv'
<1>1. acl'["POOL_ADMIN"] \subseteq Holders
  BY DEF HoldersKept
<1>2. "acl" \in finished => AdminHeld' /\ \A r \in Admins : RoleHeld(r)'
  BY DEF HeldInv, HoldersKept
<1> QED BY <1>1, <1>2 DEF HeldInv, Admins, Holders

\* A process at its first step has not come far.
LEMMA AclFirst == ASSUME proc'.pc = 1 PROVE AclProgress'
BY DEF AclProgress

\* What a script does next.
LEMMA ScriptStepHeld ==
  ASSUME DeploymentInv, DeploymentInv', Keeps, ProcessInv, HeldInv, ScriptStep
  PROVE  HoldersKept /\ HeldInv'
<1>1. /\ Running /\ handover = "none" /\ proc.pc \in Nat \ {0} /\ TypeOK
      /\ acl["POOL_ADMIN"] \subseteq Holders /\ Owned
  BY DEF ScriptStep, ProcessInv, DeploymentInv, HeldInv
<1>2. CASE Passed(StepsOf(ThisScript), Len(StepsOf(ThisScript)) + 1) /\ EndScript
  <2>1. /\ UNCHANGED <<acl, slots, owner, records>> /\ proc'.pc = 1
        /\ finished' \subseteq finished \cup {ThisScript}
    BY <1>2 DEF EndScript, chain, Idle
  <2>2. HoldersKept
    BY <1>1, <2>1, SameHolders
  <2>3. Owned'
    BY <1>1, <2>1 DEF Owned, Holders
  <2>4. ThisScript = "acl" => AdminHeld /\ \A r \in Admins : RoleHeld(r)
    <3> SUFFICES ASSUME ThisScript = "acl" PROVE AdminHeld /\ \A r \in Admins : RoleHeld(r)
      OBVIOUS
    <3>1. StepsOf(ThisScript) = InitAclSteps /\ AclProgress
      BY <1>1 DEF StepsOf, HeldInv, At
    <3>2. proc.pc > 6
      <4> SUFFICES ASSUME proc.pc <= 6 PROVE FALSE
        BY <1>1
      <4>1. proc.pc \in 1..6 /\ Len(InitAclSteps) = 6
        BY <1>1, InitAclShape
      <4>2. Passed(InitAclSteps, 7)
        <5>1. Passed(StepsOf(ThisScript), Len(StepsOf(ThisScript)) + 1)
          BY <1>2
        <5>2. Passed(InitAclSteps, Len(InitAclSteps) + 1)
          BY <3>1, <5>1 DEF Passed
        <5>3. Len(InitAclSteps) + 1 = 7
          BY <4>1
        <5> QED BY <5>2, <5>3
      <4>3. InitAclSteps[proc.pc].when
        BY <4>1, InitAclShape
      <4>4. proc.pc \in proc.pc..Len(InitAclSteps) /\ proc.pc < 7
        BY <4>1
      <4> QED BY <4>2, <4>3, <4>4 DEF Passed
    <3> QED BY <1>1, <3>1, <3>2 DEF AclProgress
  <2>5. "acl" \in finished' => AdminHeld /\ \A r \in Admins : RoleHeld(r)
    BY <2>1, <2>4 DEF HeldInv
  <2>6. "acl" \in finished' => AdminHeld' /\ \A r \in Admins : RoleHeld(r)'
    BY <2>2, <2>5 DEF HoldersKept
  <2>7. acl'["POOL_ADMIN"] \subseteq Holders
    BY <2>2 DEF HoldersKept
  <2>8. AclProgress'
    BY <2>1, AclFirst
  <2> QED BY <2>2, <2>3, <2>6, <2>7, <2>8 DEF HeldInv, Admins, Holders
<1>3. CASE Stopped /\ UNCHANGED <<records, chain, market, executed, history>>
  <2>1. UNCHANGED <<acl, slots, owner, records, finished>> /\ proc'.pc = 1
    BY <1>3 DEF Stopped, chain, history, Idle
  <2>2. HoldersKept
    BY <1>1, <2>1, SameHolders
  <2>3. Owned'
    BY <1>1, <2>1 DEF Owned, Holders
  <2> QED BY <2>1, <2>2, <2>3, HeldStays, AclFirst
<1>4. ASSUME NEW i \in proc.pc..Len(StepsOf(ThisScript)),
             Passed(StepsOf(ThisScript), i), StepsOf(ThisScript)[i].needs,
             ~Refused(StepsOf(ThisScript)[i]),
             Perform(StepsOf(ThisScript)[i], i), UNCHANGED <<market, executed, history>>
      PROVE  HoldersKept /\ HeldInv'
  <2>1. Len(StepsOf(ThisScript)) \in Nat /\ Sound(StepsOf(ThisScript)[i], OpsOf(ThisScript))
    BY <1>1, StepsSound, SoundEach
  <2>2. HoldersKept
    BY <1>1, <1>4, <2>1, PerformHolders
  <2>3. Owned'
    BY <1>1, <1>4, <2>1, PerformOwned
  <2>4. proc'.queue = proc.queue
    BY <1>1, <1>4, PerformFrame
  <2>5. At("acl")' => AclProgress'
    <3> SUFFICES ASSUME At("acl") PROVE AclProgress'
      BY <2>4 DEF At, Running, ThisScript
    <3>1. StepsOf(ThisScript) = InitAclSteps /\ AclProgress /\ Len(InitAclSteps) = 6
      BY InitAclShape DEF StepsOf, HeldInv, At
    <3>2. i \in proc.pc..6
      BY <1>4, <3>1
    <3>3. /\ Passed(InitAclSteps, i) /\ InitAclSteps[i].needs
          /\ Perform(InitAclSteps[i], i)
      BY <1>4, <3>1
    <3> QED BY <1>1, <2>2, <3>1, <3>2, <3>3, AclProgressKept
  <2>6. UNCHANGED finished
    BY <1>4 DEF history
  <2> QED BY <2>2, <2>3, <2>5, <2>6, HeldStays
<1> QED BY <1>1, <1>2, <1>3, <1>4, ScriptStepCases

\* Every step keeps owners and roles in the two hands.
LEMMA NextHeld ==
  ASSUME DeploymentInv, DeploymentInv', [Keeps]_vars, ProcessInv, HeldInv, [Next]_vars
  PROVE  HoldersKept /\ HeldInv'
<1>1. TypeOK /\ acl["POOL_ADMIN"] \subseteq Holders /\ Owned
  BY DEF DeploymentInv, HeldInv
<1>2. Keeps
  BY DEF Keeps, vars, chain
<1>3. CASE ScriptStep
  BY <1>2, <1>3, ScriptStepHeld
<1>4. CASE HandoverStep
  <2>1. HoldersKept /\ Owned'
    BY <1>1, <1>2, <1>4, HandoverHolders, HandoverOwned
  <2>2. UNCHANGED finished /\ ~At("acl") /\ (proc' = proc \/ proc' = [proc EXCEPT !.pc = @ + 1])
    <3>1. handover # "none"
      BY <1>4 DEF HandoverStep, TransferAdapters, TransferAdmins, TransferACLAdmin,
         TransferContracts, TransferDefaultAdmin
    <3>2. ~At("acl")
      BY <3>1 DEF ProcessInv, At, OpsOf
    <3> QED BY <1>4, <3>2 DEF HandoverStep, TransferAdapters, TransferAdmins, TransferACLAdmin,
         TransferContracts, TransferDefaultAdmin, HandOver, GiveRole, TakeRole, history
  <2>3. proc'.queue = proc.queue
    BY <1>1, <2>2 DEF TypeOK
  <2>4. ~At("acl")'
    BY <2>2, <2>3 DEF At, Running, ThisScript
  <2> QED BY <2>1, <2>2, <2>4, HeldStays
<1>5. ASSUME UNCHANGED <<acl, slots, owner, records, finished>>, proc'.pc = 1
      PROVE  HoldersKept /\ HeldInv'
  <2>1. HoldersKept
    BY <1>1, <1>2, <1>5, SameHolders
  <2>2. Owned'
    BY <1>1, <1>5 DEF Owned, Holders
  <2> QED BY <1>5, <2>1, <2>2, HeldStays, AclFirst
<1>6. ASSUME NEW scripts, Begin(scripts) PROVE HoldersKept /\ HeldInv'
  BY <1>5, <1>6 DEF Begin, disk, chain, history, Idle
<1>7. CASE Crash
  BY <1>5, <1>7 DEF Crash, disk, chain, Stopped, Idle
<1>8. CASE UNCHANGED <<acl, slots, owner, records, finished, proc>>
  <2>1. HoldersKept
    BY <1>1, <1>2, <1>8, SameHolders
  <2>2. Owned'
    BY <1>1, <1>8 DEF Owned, Holders
  <2>3. At("acl")' => AclProgress'
    BY <1>8 DEF HeldInv, At, Running, ThisScript, AclProgress, AdminHeld, RoleHeld, Admins, Holders
  <2> QED BY <1>8, <2>1, <2>2, <2>3, HeldStays
<1>9. CASE MarketFileGrows \/ UNCHANGED vars \/ \E s \in ToSet(market.symbols) : Visit(s)
  BY <1>8, <1>9, VisitOnly DEF MarketFileGrows, vars, disk, chain, history
<1> QED BY <1>3, <1>4, <1>6, <1>7, <1>9 DEF Next, Visit, ProcessStep, Deploying, RunTask

\* The deployer has what there is.
LEMMA InitHeld == Init => HeldInv
<1> SUFFICES ASSUME Init PROVE HeldInv
  OBVIOUS
<1>1. Owned
  BY AccountsAssumption DEF Init, Owned, Holders
<1>2. ~Running /\ finished = {} /\ acl["POOL_ADMIN"] = {}
  BY DEF Init, Running, Idle, Roles
<1> QED BY <1>1, <1>2 DEF HeldInv, At

---------------------------------------------------------------------------
(* How many steps the set-up has *)

\* As many steps as there are such elements.
LEMMA Singles ==
  ASSUME NEW seq, NEW T, NEW one, NEW parts,
         parts = [i \in 1..Len(seq) |-> If(seq[i] \in T, <<one[i]>>)]
  PROVE  Len(FlattenSeq(parts)) = Len(Groups(seq, T, <<0>>))
<1> DEFINE n == Len(seq)
           S == {one[i] : i \in 1..n}
           zeros == [i \in 1..n |-> If(seq[i] \in T, <<0>>)]
<1>1. n \in Nat
  OBVIOUS
<1>2. ASSUME NEW i \in 1..n PROVE parts[i] \in Seq(S) /\ zeros[i] \in Seq({0})
  <2>1. parts[i] = <<>> \/ parts[i] = <<one[i]>>
    BY DEF If
  <2>2. zeros[i] = <<>> \/ zeros[i] = <<0>>
    BY DEF If
  <2>3. <<one[i]>> \in Seq(S) /\ <<>> \in Seq(S) /\ <<0>> \in Seq({0}) /\ <<>> \in Seq({0})
    <3>1. one[i] \in S
      OBVIOUS
    <3> HIDE DEF S
    <3> QED BY <3>1
  <2> QED BY <2>1, <2>2, <2>3
<1>3. SameLengths(n, parts, zeros)
  BY DEF If, SameLengths
<1>4. parts = [i \in 1..n |-> parts[i]] /\ zeros = [i \in 1..n |-> zeros[i]]
  OBVIOUS
<1>5. Groups(seq, T, <<0>>) = FlattenSeq(zeros)
  BY DEF Groups
<1> HIDE DEF n, S, zeros
<1>6. parts \in [1..n -> Seq(S)] /\ zeros \in [1..n -> Seq({0})]
  BY <1>2, <1>4
<1>7. Len(FlattenSeq(parts)) = Len(FlattenSeq(zeros))
  BY <1>1, <1>3, <1>6, FlattenLengths
<1> QED BY <1>5, <1>7

\* Their steps are two for each element of the set.
LEMMA Pairs ==
  ASSUME NEW seq, NEW T, NEW one, NEW two, NEW parts, PairParts(seq, T, one, two, parts)
  PROVE  Len(FlattenSeq(parts)) = Len(Groups(seq, T, <<0, 0>>))
<1> USE DEF PairParts
<1> DEFINE n == Len(seq)
           S == {one[i] : i \in 1..n} \cup {two[i] : i \in 1..n}
           zeros == [i \in 1..n |-> If(seq[i] \in T, <<0, 0>>)]
<1>1. n \in Nat
  OBVIOUS
<1>2. ASSUME NEW i \in 1..n PROVE parts[i] \in Seq(S) /\ zeros[i] \in Seq({0})
  <2>1. parts[i] = <<>> \/ parts[i] = <<one[i], two[i]>>
    BY DEF If
  <2>2. zeros[i] = <<>> \/ zeros[i] = <<0, 0>>
    BY DEF If
  <2>3. <<one[i], two[i]>> \in Seq(S) /\ <<>> \in Seq(S) /\ <<0, 0>> \in Seq({0}) /\ <<>> \in Seq({0})
    <3>1. one[i] \in S /\ two[i] \in S
      OBVIOUS
    <3> HIDE DEF S
    <3> QED BY <3>1
  <2> QED BY <2>1, <2>2, <2>3
<1>3. SameLengths(n, parts, zeros)
  BY DEF If, SameLengths
<1>4. parts = [i \in 1..n |-> parts[i]] /\ zeros = [i \in 1..n |-> zeros[i]]
  OBVIOUS
<1>5. Groups(seq, T, <<0, 0>>) = FlattenSeq(zeros)
  BY DEF Groups
<1> HIDE DEF n, S, zeros
<1>6. parts \in [1..n -> Seq(S)] /\ zeros \in [1..n -> Seq({0})]
  BY <1>2, <1>4
<1>7. Len(FlattenSeq(parts)) = Len(FlattenSeq(zeros))
  BY <1>1, <1>3, <1>6, FlattenLengths
<1> QED BY <1>5, <1>7

\* Sound steps, one after another, are as many as both.
LEMMA SoundLength ==
  ASSUME NEW s, NEW t, NEW ops, SoundSteps(s, ops), SoundSteps(t, ops)
  PROVE  Len(s \o t) = Len(s) + Len(t)
<1>1. PICK S : s \in Seq(S)
  BY DEF SoundSteps
<1>2. PICK T : t \in Seq(T)
  BY DEF SoundSteps
<1> QED BY <1>1, <1>2

\* A step for each listed reserve, behind the first.
LEMMA ReviewStableBorrowLength ==
  Len(ReviewStableBorrow) = 1 + Len(Groups(market.symbols, Listed, <<0>>))
<1> DEFINE wanted(s) == Wants("stable", NormalizedSymbol(s))
           step(s) == Configure("stable", s, wanted(s), HasNormalizedSymbol(s),
                                reserve[s].stable # wanted(s))
           one == [i \in 1..Len(market.symbols) |-> step(market.symbols[i])]
           parts == [i \in 1..Len(market.symbols) |->
                      If(market.symbols[i] \in Listed, <<step(market.symbols[i])>>)]
           first == <<Check(Recorded({GetAaveProtocolDataProvider}))>>
<1>1. SoundSteps(FlattenSeq(parts), {})
  <2>1. ASSUME NEW i \in 1..Len(market.symbols) PROVE SoundSteps(<<step(market.symbols[i])>>, {})
    BY SoundOne, SoundStable
  <2> DEFINE group(s) == <<step(s)>>
  <2> HIDE DEF group
  <2>2. \A i \in 1..Len(market.symbols) :
           SoundSteps(If(market.symbols[i] \in Listed, group(market.symbols[i])), {})
    BY <2>1, SoundIf DEF group
  <2>3. parts = [i \in 1..Len(market.symbols) |->
                   If(market.symbols[i] \in Listed, group(market.symbols[i]))]
    BY DEF group
  <2> HIDE DEF parts
  <2> QED BY <2>2, <2>3, SoundGroups
<1>2. SoundSteps(first, {})
  BY SoundOne, SoundCheck
<1>3. Len(FlattenSeq(parts)) = Len(Groups(market.symbols, Listed, <<0>>))
  <2> HIDE DEF step
  <2>1. parts = [i \in 1..Len(market.symbols) |-> If(market.symbols[i] \in Listed, <<one[i]>>)]
    OBVIOUS
  <2> HIDE DEF one, parts
  <2> QED BY <2>1, Singles
<1>4. Len(first) = 1
  OBVIOUS
<1>5. ReviewStableBorrow = first \o FlattenSeq(parts)
  BY DEF ReviewStableBorrow, ForEach
<1> HIDE DEF first, parts
<1> QED BY <1>1, <1>2, <1>3, <1>4, <1>5, SoundLength

\* Two steps for each listed reserve, behind the first.
LEMMA ReviewRateStrategiesLength ==
  Len(ReviewRateStrategies(FALSE)) = 1 + Len(Groups(market.symbols, Listed, <<0, 0>>))
<1> DEFINE outdated(s) == FALSE /\ reserve[s].rates # Edition
           strategy(s) ==
             <<"ReserveStrategy", market.params[NormalizedSymbol(s)].strategy, Edition>>
           save(s) == SaveWhen(outdated(s), {strategy(s)})
           step(s) == Configure("rates", s, Edition, HasNormalizedSymbol(s), outdated(s))
           one == [i \in 1..Len(market.symbols) |-> save(market.symbols[i])]
           two == [i \in 1..Len(market.symbols) |-> step(market.symbols[i])]
           parts == [i \in 1..Len(market.symbols) |->
                      If(market.symbols[i] \in Listed,
                         <<save(market.symbols[i]), step(market.symbols[i])>>)]
           first == <<Check(Recorded({GetAaveProtocolDataProvider, GetPoolAddressesProvider}))>>
<1>1. SoundSteps(FlattenSeq(parts), {})
  <2>1. ASSUME NEW s PROVE SoundSteps(<<save(s), step(s)>>, {})
    <3>1. {strategy(s)} \cap Ownables = {} /\ NewToken \notin {strategy(s)}
      BY DEF Ownables, NewToken
    <3>2. Sound(save(s), {})
      BY <3>1, SoundSaveWhen
    <3>3. Sound(step(s), {})
      BY SoundConfigure, FieldsSet, FieldsApart
    <3> QED BY <3>2, <3>3, SoundTwo
  <2> DEFINE group(s) == <<save(s), step(s)>>
  <2>0. \A s : SoundSteps(group(s), {})
    BY <2>1
  <2> HIDE DEF group
  <2>2. \A i \in 1..Len(market.symbols) :
           SoundSteps(If(market.symbols[i] \in Listed, group(market.symbols[i])), {})
    BY <2>0, SoundIf
  <2>3. parts = [i \in 1..Len(market.symbols) |->
                   If(market.symbols[i] \in Listed, group(market.symbols[i]))]
    BY DEF group
  <2> HIDE DEF parts
  <2> QED BY <2>2, <2>3, SoundGroups
<1>2. SoundSteps(first, {})
  BY SoundOne, SoundCheck
<1>3. Len(FlattenSeq(parts)) = Len(Groups(market.symbols, Listed, <<0, 0>>))
  <2> HIDE DEF save, step
  <2>1. PairParts(market.symbols, Listed, one, two, parts)
    BY DEF PairParts
  <2> HIDE DEF one, two, parts
  <2> QED BY <2>1, Pairs
<1>4. Len(first) = 1
  OBVIOUS
<1>5. ReviewRateStrategies(FALSE) = first \o FlattenSeq(parts)
  BY DEF ReviewRateStrategies, ForEach
<1> HIDE DEF first, parts
<1> QED BY <1>1, <1>2, <1>3, <1>4, <1>5, SoundLength

\* A step for each reserve of the market file, for its ceiling, its isolation mode
\* and its fee.
LEMMA SetupEachLength ==
  LET n == Len(Groups(market.symbols, Reserves, <<0>>))
  IN  Len(SetupDebtCeiling) = n /\ Len(SetupIsolationMode) = n /\ Len(SetupLiquidationProtocolFee) = n
<1> DEFINE step(f, s) == Configure(f, s, TRUE, HasReserveAddress(s), Wants(f, s))
           parts(f) == [i \in 1..Len(market.symbols) |->
                         If(market.symbols[i] \in Reserves, <<step(f, market.symbols[i])>>)]
<1>1. /\ SetupDebtCeiling = FlattenSeq(parts("ceiling"))
      /\ SetupIsolationMode = FlattenSeq(parts("isolation"))
      /\ SetupLiquidationProtocolFee = FlattenSeq(parts("fee"))
  BY DEF SetupDebtCeiling, SetupIsolationMode, SetupLiquidationProtocolFee, ForEach
<1> HIDE DEF step
<1>2. ASSUME NEW f
      PROVE  Len(FlattenSeq(parts(f))) = Len(Groups(market.symbols, Reserves, <<0>>))
  <2> DEFINE one == [i \in 1..Len(market.symbols) |-> step(f, market.symbols[i])]
             each == parts(f)
  <2>1. each = [i \in 1..Len(market.symbols) |-> If(market.symbols[i] \in Reserves, <<one[i]>>)]
    OBVIOUS
  <2> HIDE DEF one, each
  <2>2. Len(FlattenSeq(each)) = Len(Groups(market.symbols, Reserves, <<0>>))
    BY <2>1, Singles
  <2> QED BY <2>2 DEF each
<1> HIDE DEF parts
<1> QED BY <1>1, <1>2

\* That is what the categories take.
LEMMA SetupEModesLength == Len(SetupEModes) = Len(CategoryGroups(market.emodes))
<1> DEFINE asset(m, s) == Configure("category", s, m.id, HasReserveAddress(s), TRUE)
           first(m) == Set(<<"EMODES">>, <<m.id>>, /\ Recorded({GetPoolConfiguratorProxy})
                                                   /\ m.oracle = "none" \/ HasOracle(m.oracle))
           rest(m) == [i \in 1..Len(m.assets) |-> asset(m, m.assets[i])]
           category(m) == <<first(m)>> \o rest(m)
           zeros(m) == <<0>> \o [i \in 1..Len(m.assets) |-> 0]
           n == Len(market.emodes)
           parts == [i \in 1..n |-> category(market.emodes[i])]
           others == [i \in 1..n |-> zeros(market.emodes[i])]
           S == UNION {{parts[i][j] : j \in 1..Len(parts[i])} : i \in 1..n}
<1>1. SetupEModes = FlattenSeq(parts) /\ CategoryGroups(market.emodes) = FlattenSeq(others)
  BY DEF SetupEModes, CategoryGroups
<1>2. ASSUME NEW m
      PROVE  /\ \E T : category(m) \in Seq(T)
             /\ zeros(m) \in Seq({0}) /\ Len(category(m)) = Len(zeros(m))
  <2> DEFINE k == Len(m.assets)
             a == first(m)
             r == rest(m)
             z == [i \in 1..k |-> 0]
             T == {a} \cup {asset(m, m.assets[i]) : i \in 1..k}
  <2> HIDE DEF asset, first
  <2>1. k \in Nat /\ r \in Seq(T) /\ Len(r) = k /\ z \in Seq({0}) /\ Len(z) = k
    OBVIOUS
  <2>2. a \in T
    OBVIOUS
  <2> HIDE DEF a, r, z, T, k
  <2>3. <<a>> \o r \in Seq(T) /\ <<0>> \o z \in Seq({0}) /\ Len(<<a>> \o r) = Len(<<0>> \o z)
    BY <2>1, <2>2
  <2> QED BY <2>3 DEF a, r, z, k
<1> HIDE DEF category, zeros
<1>3. ASSUME NEW i \in 1..n PROVE parts[i] \in Seq(S)
  <2>1. PICK T : parts[i] \in Seq(T)
    BY <1>2
  <2>2. \A j \in 1..Len(parts[i]) : parts[i][j] \in S
    OBVIOUS
  <2> HIDE DEF S, parts
  <2> QED BY <2>1, <2>2
<1>4. n \in Nat /\ DOMAIN parts = 1..n /\ parts = [i \in 1..n |-> parts[i]]
  OBVIOUS
<1>5. SameLengths(n, parts, others)
  BY <1>2 DEF SameLengths
<1>6. others \in [1..n -> Seq({0})]
  BY <1>2
<1> HIDE DEF S, parts, others, n
<1>7. parts \in [1..n -> Seq(S)]
  BY <1>3, <1>4
<1> QED BY <1>1, <1>4, <1>5, <1>6, <1>7, FlattenLengths

\* The set-up has that many steps.
LEMMA SetupLength ==
  SoundSteps(Setup, {}) /\ Len(Setup) = SetupSteps /\ SetupSteps \in Nat
<1> DEFINE set == Set(<<"UNPAUSED">>, GetPoolConfiguratorProxy, Recorded({GetPoolConfiguratorProxy}))
           last == If(IsTestnetMarket, DisableFaucetNativeTestnets \o <<set>>)
           a == ReviewStableBorrow
           b == ReviewRateStrategies(FALSE)
           c == SetupDebtCeiling
           d == SetupIsolationMode
           e == SetupEModes
           f == SetupLiquidationProtocolFee
<1>1. SoundSteps(last, {}) /\ Len(last) = IF IsTestnetMarket THEN 3 ELSE 0
  <2>1. SoundSteps(<<set>>, {}) /\ Len(<<set>>) = 1
    <3>1. <<"UNPAUSED">> \notin ProxySlots /\ <<"UNPAUSED">> # <<"ACL_ADMIN">>
      BY DEF ProxySlots
    <3> QED BY <3>1, SoundOne, SoundSet
  <2>2. SoundSteps(DisableFaucetNativeTestnets, {}) /\ Len(DisableFaucetNativeTestnets) = 2
    BY DisableFaucetSound DEF DisableFaucetNativeTestnets
  <2> DEFINE one == <<set>>
             two == DisableFaucetNativeTestnets
  <2> HIDE DEF one, two
  <2>3. SoundSteps(two \o one, {}) /\ Len(two \o one) = 3
    <3>1. SoundSteps(one, {}) /\ SoundSteps(two, {}) /\ Len(one) = 1 /\ Len(two) = 2
      BY <2>1, <2>2 DEF one, two
    <3>2. SoundSteps(two \o one, {}) /\ Len(two \o one) = Len(two) + Len(one)
      BY <3>1, SoundBoth, SoundLength
    <3> QED BY <3>1, <3>2
  <2>4. SoundSteps(last, {})
    BY <2>3, SoundIf DEF one, two
  <2> QED BY <2>3, <2>4 DEF If, one, two
<1>2. /\ SoundSteps(a, {}) /\ SoundSteps(b, {}) /\ SoundSteps(c, {})
      /\ SoundSteps(d, {}) /\ SoundSteps(e, {}) /\ SoundSteps(f, {})
  BY ReviewStableBorrowSound, ReviewRateStrategiesSound, SetupDebtCeilingSound,
     SetupIsolationModeSound, SetupEModesSound, SetupFeeSound
<1>3. Setup = a \o b \o c \o d \o e \o f \o last
  BY DEF Setup
<1>4. SetupSteps = Len(a) + Len(b) + Len(c) + Len(d) + Len(e) + Len(f) + Len(last)
  <2> DEFINE listed == Len(Groups(market.symbols, Listed, <<0>>))
             twice  == Len(Groups(market.symbols, Listed, <<0, 0>>))
             each   == Len(Groups(market.symbols, Reserves, <<0>>))
             groups == Len(CategoryGroups(market.emodes))
  <2>1. /\ Len(a) = 1 + listed /\ Len(b) = 1 + twice /\ Len(c) = each /\ Len(d) = each
        /\ Len(e) = groups /\ Len(f) = each
    BY ReviewStableBorrowLength, ReviewRateStrategiesLength, SetupEachLength, SetupEModesLength
  <2>2. SetupSteps = 1 + listed + 1 + twice + each + each + groups + each
                     + IF IsTestnetMarket THEN 3 ELSE 0
    BY DEF SetupSteps
  <2>3. listed \in Nat /\ twice \in Nat /\ each \in Nat /\ groups \in Nat
    OBVIOUS
  <2> HIDE DEF listed, twice, each, groups, a, b, c, d, e, f, last
  <2> QED BY <1>1, <2>1, <2>2, <2>3
<1> HIDE DEF a, b, c, d, e, f, last
<1>5. SoundSteps(a \o b, {}) /\ Len(a \o b) = Len(a) + Len(b)
  BY <1>2, SoundBoth, SoundLength
<1>6. SoundSteps(a \o b \o c, {}) /\ Len(a \o b \o c) = Len(a \o b) + Len(c)
  BY <1>2, <1>5, SoundBoth, SoundLength
<1>7. SoundSteps(a \o b \o c \o d, {}) /\ Len(a \o b \o c \o d) = Len(a \o b \o c) + Len(d)
  BY <1>2, <1>6, SoundBoth, SoundLength
<1>8. /\ SoundSteps(a \o b \o c \o d \o e, {})
      /\ Len(a \o b \o c \o d \o e) = Len(a \o b \o c \o d) + Len(e)
  BY <1>2, <1>7, SoundBoth, SoundLength
<1>9. /\ SoundSteps(a \o b \o c \o d \o e \o f, {})
      /\ Len(a \o b \o c \o d \o e \o f) = Len(a \o b \o c \o d \o e) + Len(f)
  BY <1>2, <1>8, SoundBoth, SoundLength
<1>10. /\ SoundSteps(Setup, {})
       /\ Len(Setup) = Len(a \o b \o c \o d \o e \o f) + Len(last)
  BY <1>1, <1>3, <1>9, SoundBoth, SoundLength
<1>11. Len(Setup) \in Nat
  BY <1>10, SoundEach
<1> QED BY <1>4, <1>5, <1>6, <1>7, <1>8, <1>9, <1>10, <1>11

\* As long as nothing is listed that is as many.
LEMMA SetupStays ==
  ASSUME UNCHANGED market, Listed' = Listed
  PROVE  SetupSteps' = SetupSteps
BY DEF SetupSteps, Reserves, IsTestnetMarket, IsProductionMarket

\* It is a number after a step, too.
LEMMA SetupNat == SetupSteps' \in Nat
BY DEF SetupSteps

\* The market is handed over by the step behind them, which is always made.
LEMMA AfterDeployShape ==
  ASSUME market.transfer
  PROVE  /\ Len(AfterDeploySteps) = SetupSteps + 3
         /\ AfterDeploySteps[SetupSteps + 1].op = "handover"
         /\ AfterDeploySteps[SetupSteps + 1].when
<1> DEFINE a == Step("handover", Nothing, Nothing, Recorded(HandoverRecords), TRUE)
           b == Step("renounce", Nothing, Nothing,
                     market.multisig # Nobody /\ Recorded({GetPoolAddressesProvider}), TRUE)
           c == Check(/\ market.multisig # Nobody /\ market.guardian # Nobody
                      /\ Recorded(HandoverRecords \cup {GetIncentivesV2, <<"TreasuryProxy">>,
                                                       <<"Treasury-Controller">>}))
           S == {a, b, c}
           after == <<a>> \o <<b>> \o <<c>>
<1>1. a.op = "handover" /\ a.when
  BY DEF Step
<1>2. AfterDeploySteps = Setup \o after
  BY DEF AfterDeploySteps, Setup, TransferProtocolOwnership, RenouncePoolAdmin, ViewProtocolRoles, If
<1> HIDE DEF a, b, c
<1>4. after \in Seq(S) /\ Len(after) = 3 /\ after[1] = a
  BY ThreeJoined
<1> HIDE DEF after, S
<1>5. PICK T : Setup \in Seq(T)
  BY SetupLength DEF SoundSteps
<1> DEFINE whole == Setup \o after
<1>6. Len(whole) = SetupSteps + 3 /\ whole[SetupSteps + 1] = a
  <2>1. /\ Len(whole) = Len(Setup) + Len(after)
        /\ \A i \in 1..Len(after) : whole[Len(Setup) + i] = after[i]
    <3> DEFINE first == Setup
    <3>1. first \in Seq(T)
      BY <1>5
    <3> HIDE DEF first
    <3>2. /\ Len(first \o after) = Len(first) + Len(after)
          /\ \A i \in 1..Len(after) : (first \o after)[Len(first) + i] = after[i]
      BY <1>4, <3>1, Joined
    <3> QED BY <3>2 DEF first
  <2> HIDE DEF whole
  <2>2. 1 \in 1..Len(after) /\ Len(Setup) = SetupSteps
    BY <1>4, SetupLength
  <2> QED BY <1>4, <2>1, <2>2
<1> QED BY <1>1, <1>2, <1>6

---------------------------------------------------------------------------
(* The stages of the handover *)

\* The contracts that are handed over, by their names.
LEMMA HandoverNames ==
  /\ HandoverRecords =
       {<<"PoolAddressesProvider">>, <<"PoolAddressesProviderRegistry">>, <<"WrappedTokenGatewayV3">>,
        <<"EmissionManager">>, <<"ParaSwapLiquiditySwapAdapter">>, <<"ParaSwapRepayAdapter">>}
  /\ HandoverRecords \subseteq Ownables
BY DEF HandoverRecords, Ownables, GetPoolAddressesProvider, GetPoolAddressesProviderRegistry,
       GetWrappedTokenGateway, GetEmissionManager

\* What is handed over stays that.
LEMMA HandedKept ==
  ASSUME Handed, Keeps, HoldersKept, market'.multisig = market.multisig
  PROVE  Handed'
<1>1. \A id \in HandoverRecords : owner'[id] = Multisig
  BY HandoverNames DEF Handed, Keeps
<1>2. DeployerOut
  <2>1. GetPoolAddressesProvider \in HandoverRecords
    BY DEF HandoverRecords
  <2> QED BY <2>1 DEF Handed, DeployerOut
<1>3. DeployerOut'
  BY <1>2 DEF HoldersKept
<1>4. \A r \in Admins : Multisig \in acl'[r]
  BY DEF Handed, HoldersKept
<1> QED BY <1>1, <1>3, <1>4 DEF Handed, DeployerOut, HandoverRecords, Admins

\* A contract that is the deployer's or the multisig's becomes the multisig's.
LEMMA HandOverDone ==
  ASSUME TypeOK, Owned, market.multisig = Multisig, NEW id \in Ownables, id \in records, NEW next,
         HandOver(id, next)
  PROVE  owner'[id] = Multisig /\ handover' = next /\ UNCHANGED <<acl, slots, proc>>
<1>1. DOMAIN owner = Ownables
  BY DEF TypeOK
<1>2. owner[id] \in {Deployer, Multisig}
  BY AccountsAssumption DEF Owned, Holders
<1> QED BY <1>1, <1>2 DEF HandOver

\* The multisig gets a role, if only because the deployer has it not.
LEMMA GiveRoleDone ==
  ASSUME TypeOK, market.multisig = Multisig, NEW role \in Admins, RoleHeld(role),
         NEW take, NEW next, take # next, GiveRole(role, take, next)
  PROVE  /\ Multisig \in acl'[role]
         /\ handover' = take \/ (handover' = next /\ Deployer \notin acl'[role])
         /\ UNCHANGED <<owner, slots, proc>>
<1>1. role \in DOMAIN acl
  BY DEF TypeOK, Roles, Admins
<1>2. CASE Deployer \in acl[role]
  BY <1>1, <1>2 DEF GiveRole
<1>3. CASE Deployer \notin acl[role]
  BY <1>1, <1>3 DEF GiveRole, RoleHeld, Holders
<1> QED BY <1>2, <1>3

\* The deployer loses it.
LEMMA TakeRoleDone ==
  ASSUME TypeOK, NEW role \in Admins, Multisig \in acl[role], NEW next, TakeRole(role, next)
  PROVE  /\ Multisig \in acl'[role] /\ Deployer \notin acl'[role]
         /\ handover' = next /\ UNCHANGED <<owner, slots, proc>>
BY AccountsAssumption DEF TypeOK, Roles, Admins, TakeRole

\* No step of the handover takes back what the multisig has by then.
LEMMA HandoverKeepsUpTo ==
  ASSUME TypeOK, market.multisig = Multisig, Keeps, HoldersKept, HandoverStep,
         NEW n \in Nat, HandedUpTo(n)
  PROVE  HandedUpTo(n)'
<1>1. \A id \in HandoverRecords : owner[id] = Multisig => owner'[id] = Multisig
  BY HandoverNames DEF Keeps
<1>2. \A r \in Admins : Multisig \in acl[r] => Multisig \in acl'[r]
  BY DEF HoldersKept
<1>3. \A r \in Admins : Deployer \notin acl[r] => Deployer \notin acl'[r]
  <2>1. \/ UNCHANGED acl
        \/ \E r \in Roles : acl' = [acl EXCEPT ![r] = @ \cup {Multisig}]
        \/ \E r \in Roles : acl' = [acl EXCEPT ![r] = @ \ {Deployer}]
    BY DEF HandoverStep, TransferAdapters, TransferAdmins, TransferACLAdmin, TransferContracts,
           TransferDefaultAdmin, HandOver, GiveRole, TakeRole, Roles
  <2>2. DOMAIN acl = Roles /\ Admins \subseteq Roles /\ Deployer # Multisig
    BY AccountsAssumption DEF TypeOK, Admins, Roles
  <2> QED BY <2>1, <2>2
<1>4. slots[<<"ACL_ADMIN">>] = Multisig => slots'[<<"ACL_ADMIN">>] = Multisig
  <2>1. UNCHANGED slots \/ slots' = [slots EXCEPT ![<<"ACL_ADMIN">>] = Multisig]
    BY DEF HandoverStep, TransferAdapters, TransferAdmins, TransferACLAdmin,
           TransferContracts, TransferDefaultAdmin, HandOver, GiveRole, TakeRole
  <2>2. <<"ACL_ADMIN">> \in DOMAIN slots
    BY DEF TypeOK, Slots
  <2> QED BY <2>1, <2>2
<1>5. {"DEFAULT_ADMIN", "POOL_ADMIN", "EMERGENCY_ADMIN"} \subseteq Admins
  BY DEF Admins
<1> QED BY <1>1, <1>2, <1>3, <1>4, <1>5 DEF HandedUpTo, HandoverRecords

\* Their order.
LEMMA Stages ==
  /\ StageOf("repayAdapter") = 1 /\ StageOf("swapAdapter") = 2
  /\ StageOf("addEmergencyAdmin") = 3 /\ StageOf("removeEmergencyAdmin") = 4
  /\ StageOf("addPoolAdmin") = 5 /\ StageOf("removePoolAdmin") = 6 /\ StageOf("setACLAdmin") = 7
  /\ StageOf("provider") = 8 /\ StageOf("registry") = 9 /\ StageOf("gateway") = 10
  /\ StageOf("emissionManager") = 11 /\ StageOf("grantDefaultAdmin") = 12
  /\ StageOf("revokeDefaultAdmin") = 13 /\ StageOf("results") = 14
BY DEF StageOf

\* A stage does its part.
LEMMA HandoverAdvances ==
  ASSUME DeploymentInv, HeldInv, "acl" \in finished, HandoverProgress, Keeps, HoldersKept,
         HandoverStep
  PROVE  /\ handover # "none"
         /\ \/ handover' # "none" /\ HandedUpTo(StageOf(handover))' /\ UNCHANGED proc
            \/ handover' = "none" /\ HandedUpTo(14)'
               /\ proc' = [proc EXCEPT !.pc = @ + 1]
<1>1. handover # "none"
  BY DEF HandoverStep, TransferAdapters, TransferAdmins, TransferACLAdmin, TransferContracts,
         TransferDefaultAdmin
<1>2. TypeOK /\ Owned /\ market.multisig = Multisig
  BY <1>1, MarketMultisig DEF DeploymentInv, HandoverInOrder, HeldInv
<1>3. /\ HandoverRecords \subseteq records /\ HandedUpTo(StageOf(handover))
      /\ \A r \in Admins : RoleHeld(r)
      /\ AdminHeld
  BY <1>1 DEF HandoverProgress, HeldInv
<1>4. ASSUME NEW n \in Nat, StageOf(handover) = n PROVE HandedUpTo(n)'
  BY <1>2, <1>3, <1>4, HandoverKeepsUpTo
<1>5. ASSUME NEW id \in HandoverRecords, NEW next, HandOver(id, next)
      PROVE  owner'[id] = Multisig /\ handover' = next /\ UNCHANGED <<acl, slots, proc>>
  BY <1>2, <1>3, <1>5, HandoverNames, HandOverDone
<1>6. {"DEFAULT_ADMIN", "POOL_ADMIN", "EMERGENCY_ADMIN"} \subseteq Admins
  BY DEF Admins
<1>7. CASE handover = "repayAdapter" /\ HandOver(<<"ParaSwapRepayAdapter">>, "swapAdapter")
  <2>1. HandedUpTo(1)'
    BY <1>4, <1>7, Stages
  <2>2. /\ owner'[<<"ParaSwapRepayAdapter">>] = Multisig
        /\ handover' = "swapAdapter" /\ UNCHANGED proc
    BY <1>5, <1>7 DEF HandoverRecords
  <2>3. HandedUpTo(2)'
    BY <2>1, <2>2 DEF HandedUpTo
  <2> QED BY <1>1, <2>1, <2>2, <2>3, Stages DEF HandedUpTo
<1>8. CASE handover = "swapAdapter"
           /\ HandOver(<<"ParaSwapLiquiditySwapAdapter">>, "addEmergencyAdmin")
  <2>1. HandedUpTo(2)'
    BY <1>4, <1>8, Stages
  <2>2. /\ owner'[<<"ParaSwapLiquiditySwapAdapter">>] = Multisig
        /\ handover' = "addEmergencyAdmin" /\ UNCHANGED proc
    BY <1>5, <1>8 DEF HandoverRecords
  <2>3. HandedUpTo(3)'
    BY <2>1, <2>2 DEF HandedUpTo
  <2> QED BY <1>1, <2>1, <2>2, <2>3, Stages DEF HandedUpTo
<1>9. CASE handover = "addEmergencyAdmin"
           /\ GiveRole("EMERGENCY_ADMIN", "removeEmergencyAdmin", "addPoolAdmin")
  <2>1. HandedUpTo(3)'
    BY <1>4, <1>9, Stages
  <2>2. /\ Multisig \in acl'["EMERGENCY_ADMIN"] /\ UNCHANGED proc
        /\ \/ handover' = "removeEmergencyAdmin"
           \/ handover' = "addPoolAdmin" /\ Deployer \notin acl'["EMERGENCY_ADMIN"]
    BY <1>2, <1>3, <1>6, <1>9, GiveRoleDone
  <2>3. CASE handover' = "removeEmergencyAdmin"
    <3>1. HandedUpTo(4)'
      BY <2>1, <2>2 DEF HandedUpTo
    <3> QED BY <1>1, <2>1, <2>2, <2>3, <3>1, Stages DEF HandedUpTo
  <2>4. CASE handover' = "addPoolAdmin" /\ Deployer \notin acl'["EMERGENCY_ADMIN"]
    <3>1. HandedUpTo(5)'
      BY <2>1, <2>2, <2>4 DEF HandedUpTo
    <3> QED BY <1>1, <2>1, <2>2, <2>4, <3>1, Stages DEF HandedUpTo
  <2> QED BY <2>1, <2>2, <2>3, <2>4
<1>10. CASE handover = "removeEmergencyAdmin" /\ TakeRole("EMERGENCY_ADMIN", "addPoolAdmin")
  <2>1. HandedUpTo(4)'
    BY <1>4, <1>10, Stages
  <2>2. Multisig \in acl["EMERGENCY_ADMIN"]
    BY <1>2, <1>10 DEF DeploymentInv, HandoverInOrder
  <2>3. /\ Multisig \in acl'["EMERGENCY_ADMIN"] /\ Deployer \notin acl'["EMERGENCY_ADMIN"]
        /\ handover' = "addPoolAdmin" /\ UNCHANGED proc
    BY <1>2, <1>6, <1>10, <2>2, TakeRoleDone
  <2>4. HandedUpTo(5)'
    BY <2>1, <2>2, <2>3 DEF HandedUpTo
  <2> QED BY <1>1, <2>1, <2>2, <2>3, <2>4, Stages DEF HandedUpTo
<1>11. CASE handover = "addPoolAdmin"
           /\ GiveRole("POOL_ADMIN", "removePoolAdmin", "setACLAdmin")
  <2>1. HandedUpTo(5)'
    BY <1>4, <1>11, Stages
  <2>2. /\ Multisig \in acl'["POOL_ADMIN"] /\ UNCHANGED proc
        /\ \/ handover' = "removePoolAdmin"
           \/ handover' = "setACLAdmin" /\ Deployer \notin acl'["POOL_ADMIN"]
    BY <1>2, <1>3, <1>6, <1>11, GiveRoleDone
  <2>3. CASE handover' = "removePoolAdmin"
    <3>1. HandedUpTo(6)'
      BY <2>1, <2>2 DEF HandedUpTo
    <3> QED BY <1>1, <2>1, <2>2, <2>3, <3>1, Stages DEF HandedUpTo
  <2>4. CASE handover' = "setACLAdmin" /\ Deployer \notin acl'["POOL_ADMIN"]
    <3>1. HandedUpTo(7)'
      BY <2>1, <2>2, <2>4 DEF HandedUpTo
    <3> QED BY <1>1, <2>1, <2>2, <2>4, <3>1, Stages DEF HandedUpTo
  <2> QED BY <2>1, <2>2, <2>3, <2>4
<1>12. CASE handover = "removePoolAdmin" /\ TakeRole("POOL_ADMIN", "setACLAdmin")
  <2>1. HandedUpTo(6)'
    BY <1>4, <1>12, Stages
  <2>2. Multisig \in acl["POOL_ADMIN"]
    BY <1>2, <1>12 DEF DeploymentInv, HandoverInOrder
  <2>3. /\ Multisig \in acl'["POOL_ADMIN"] /\ Deployer \notin acl'["POOL_ADMIN"]
        /\ handover' = "setACLAdmin" /\ UNCHANGED proc
    BY <1>2, <1>6, <1>12, <2>2, TakeRoleDone
  <2>4. HandedUpTo(7)'
    BY <2>1, <2>2, <2>3 DEF HandedUpTo
  <2> QED BY <1>1, <2>1, <2>2, <2>3, <2>4, Stages DEF HandedUpTo
<1>13. CASE handover = "setACLAdmin" /\ TransferACLAdmin
  <2>1. HandedUpTo(7)'
    BY <1>4, <1>13, Stages
  <2>2. slots'[<<"ACL_ADMIN">>] = Multisig /\ handover' = "provider" /\ UNCHANGED proc
    <3>1. <<"ACL_ADMIN">> \in DOMAIN slots
      BY <1>2 DEF TypeOK, Slots
    <3>2. slots[<<"ACL_ADMIN">>] \in {Deployer, Multisig}
      BY <1>3 DEF AdminHeld, Holders
    <3> QED BY <1>2, <1>13, <3>1, <3>2 DEF TransferACLAdmin
  <2>3. HandedUpTo(8)'
    BY <2>1, <2>2 DEF HandedUpTo
  <2> QED BY <1>1, <2>1, <2>2, <2>3, Stages DEF HandedUpTo
<1>14. CASE handover = "provider" /\ HandOver(GetPoolAddressesProvider, "registry")
  <2>1. HandedUpTo(8)'
    BY <1>4, <1>14, Stages
  <2>2. /\ owner'[GetPoolAddressesProvider] = Multisig
        /\ handover' = "registry" /\ UNCHANGED proc
    BY <1>5, <1>14 DEF HandoverRecords
  <2>3. HandedUpTo(9)'
    BY <2>1, <2>2 DEF HandedUpTo
  <2> QED BY <1>1, <2>1, <2>2, <2>3, Stages DEF HandedUpTo
<1>15. CASE handover = "registry" /\ HandOver(GetPoolAddressesProviderRegistry, "gateway")
  <2>1. HandedUpTo(9)'
    BY <1>4, <1>15, Stages
  <2>2. /\ owner'[GetPoolAddressesProviderRegistry] = Multisig
        /\ handover' = "gateway" /\ UNCHANGED proc
    BY <1>5, <1>15 DEF HandoverRecords
  <2>3. HandedUpTo(10)'
    BY <2>1, <2>2 DEF HandedUpTo
  <2> QED BY <1>1, <2>1, <2>2, <2>3, Stages DEF HandedUpTo
<1>16. CASE handover = "gateway" /\ HandOver(GetWrappedTokenGateway, "emissionManager")
  <2>1. HandedUpTo(10)'
    BY <1>4, <1>16, Stages
  <2>2. /\ owner'[GetWrappedTokenGateway] = Multisig
        /\ handover' = "emissionManager" /\ UNCHANGED proc
    BY <1>5, <1>16 DEF HandoverRecords
  <2>3. HandedUpTo(11)'
    BY <2>1, <2>2 DEF HandedUpTo
  <2> QED BY <1>1, <2>1, <2>2, <2>3, Stages DEF HandedUpTo
<1>17. CASE handover = "emissionManager" /\ HandOver(GetEmissionManager, "grantDefaultAdmin")
  <2>1. HandedUpTo(11)'
    BY <1>4, <1>17, Stages
  <2>2. /\ owner'[GetEmissionManager] = Multisig
        /\ handover' = "grantDefaultAdmin" /\ UNCHANGED proc
    BY <1>5, <1>17 DEF HandoverRecords
  <2>3. HandedUpTo(12)'
    BY <2>1, <2>2 DEF HandedUpTo
  <2> QED BY <1>1, <2>1, <2>2, <2>3, Stages DEF HandedUpTo
<1>18. CASE handover = "grantDefaultAdmin"
           /\ GiveRole("DEFAULT_ADMIN", "revokeDefaultAdmin", "results")
  <2>1. HandedUpTo(12)'
    BY <1>4, <1>18, Stages
  <2>2. /\ Multisig \in acl'["DEFAULT_ADMIN"] /\ UNCHANGED proc
        /\ \/ handover' = "revokeDefaultAdmin"
           \/ handover' = "results" /\ Deployer \notin acl'["DEFAULT_ADMIN"]
    BY <1>2, <1>3, <1>6, <1>18, GiveRoleDone
  <2>3. CASE handover' = "revokeDefaultAdmin"
    <3>1. HandedUpTo(13)'
      BY <2>1, <2>2 DEF HandedUpTo
    <3> QED BY <1>1, <2>1, <2>2, <2>3, <3>1, Stages DEF HandedUpTo
  <2>4. CASE handover' = "results" /\ Deployer \notin acl'["DEFAULT_ADMIN"]
    <3>1. HandedUpTo(14)'
      BY <2>1, <2>2, <2>4 DEF HandedUpTo
    <3> QED BY <1>1, <2>1, <2>2, <2>4, <3>1, Stages DEF HandedUpTo
  <2> QED BY <2>1, <2>2, <2>3, <2>4
<1>19. CASE handover = "revokeDefaultAdmin" /\ TakeRole("DEFAULT_ADMIN", "results")
  <2>1. HandedUpTo(13)'
    BY <1>4, <1>19, Stages
  <2>2. Multisig \in acl["DEFAULT_ADMIN"]
    BY <1>2, <1>19 DEF DeploymentInv, HandoverInOrder
  <2>3. /\ Multisig \in acl'["DEFAULT_ADMIN"] /\ Deployer \notin acl'["DEFAULT_ADMIN"]
        /\ handover' = "results" /\ UNCHANGED proc
    BY <1>2, <1>6, <1>19, <2>2, TakeRoleDone
  <2>4. HandedUpTo(14)'
    BY <2>1, <2>2, <2>3 DEF HandedUpTo
  <2> QED BY <1>1, <2>1, <2>2, <2>3, <2>4, Stages DEF HandedUpTo
<1>20. CASE handover = "results" /\ handover' = "none" /\ proc' = [proc EXCEPT !.pc = @ + 1]
  <2>1. HandedUpTo(14)'
    BY <1>4, <1>20, Stages
  <2> QED BY <1>20, <2>1
<1> QED
  BY <1>1, <1>7, <1>8, <1>9, <1>10, <1>11, <1>12, <1>13, <1>14, <1>15, <1>16, <1>17, <1>18,
     <1>19, <1>20
     DEF HandoverStep, TransferAdapters, TransferAdmins, TransferACLAdmin, TransferContracts,
         TransferDefaultAdmin

\* Only listing lists.
LEMMA PerformLeavesListed ==
  ASSUME TypeOK, NEW s, NEW i, NEW ops, Sound(s, ops), Perform(s, i), s.op # "initReserves",
         \A r \in Symbols : DOMAIN reserve[r] = DOMAIN NewReserve
  PROVE  Listed' = Listed
<1>1. DOMAIN reserve = Symbols
  BY DEF TypeOK
<1>2. ASSUME NEW r \in Symbols PROVE "listed" \in DOMAIN reserve[r]
  BY DEF NewReserve
<1>3. ASSUME \A r \in Symbols : reserve'[r].listed = reserve[r].listed PROVE Listed' = Listed
  BY <1>3 DEF Listed
<1>4. CASE UNCHANGED reserve
  BY <1>3, <1>4
<1>5. CASE ConfigureReserve(s, i)
  <2>1. s.id[1] \in SetFields /\ reserve' = [reserve EXCEPT ![s.id[2]][s.id[1]] = s.val]
    BY <1>5 DEF ConfigureReserve, Sound
  <2>2. "listed" \notin SetFields
    BY DEF SetFields
  <2>3. \A r \in Symbols : reserve'[r].listed = reserve[r].listed
    BY <1>1, <1>2, <2>1, <2>2
  <2> QED BY <1>3, <2>3
<1>6. CASE ConfigureReserves(s, i)
  <2>1. \A r \in Symbols : reserve'[r].listed = reserve[r].listed
    BY <1>2, <1>6 DEF ConfigureReserves
  <2> QED BY <1>3, <2>1
<1>7. CASE DeployDistributor(s, i)
  <2>1. UNCHANGED reserve \/ reserve' = [reserve EXCEPT ![s.val].distributor = "older"]
    BY <1>7 DEF DeployDistributor
  <2>2. \A r \in Symbols : reserve'[r].listed = reserve[r].listed
    BY <1>1, <1>2, <2>1
  <2> QED BY <1>3, <2>2
<1> QED BY <1>4, <1>5, <1>6, <1>7, ReserveMoves DEF ListReserves

\* The handover looks its contracts up.
LEMMA HandoverNeeds ==
  ASSUME TypeOK, NEW c, NEW i \in 1..Len(StepsOf(c)), StepsOf(c)[i].op = "handover",
         StepsOf(c)[i].needs
  PROVE  HandoverRecords \subseteq records
<1> DEFINE a == Step("handover", Nothing, Nothing, Recorded(HandoverRecords), TRUE)
<1>1. a.needs => HandoverRecords \subseteq records
  BY DEF Step, Recorded
<1>2. c \in {"after_deploy", "transfer-protocol-ownership"}
  <2>1. "handover" \in PlainOps \cup OpsOf(c)
    BY StepsSound, SoundEach DEF Sound
  <2> QED BY <2>1 DEF PlainOps, OpsOf, ListingOps
<1>3. CASE c = "transfer-protocol-ownership"
  <2>1. StepsOf(c) = <<a>>
    BY <1>3 DEF StepsOf, TransferProtocolOwnership
  <2> HIDE DEF a
  <2> QED BY <1>1, <2>1
<1>4. CASE c = "after_deploy"
  <2> DEFINE b == Step("renounce", Nothing, Nothing,
                       market.multisig # Nobody /\ Recorded({GetPoolAddressesProvider}), TRUE)
             d == Check(/\ market.multisig # Nobody /\ market.guardian # Nobody
                        /\ Recorded(HandoverRecords \cup {GetIncentivesV2, <<"TreasuryProxy">>,
                                                         <<"Treasury-Controller">>}))
             after == If(market.transfer, <<a>> \o <<b>> \o <<d>>)
  <2>1. StepsOf(c) = Setup \o after
    BY <1>4 DEF StepsOf, AfterDeploySteps, Setup, TransferProtocolOwnership, RenouncePoolAdmin,
                ViewProtocolRoles
  <2>2. b.op # "handover" /\ d.op # "handover"
    BY DEF Step, Check
  <2>3. PICK S : Setup \in Seq(S) /\ \A s \in S : Sound(s, {})
    BY SetupLength DEF SoundSteps
  <2> HIDE DEF a, b, d
  <2>4. after \in Seq({a, b, d})
    <3> DEFINE three == <<a>> \o <<b>> \o <<d>>
    <3>1. three \in Seq({a, b, d}) /\ <<>> \in Seq({a, b, d})
      BY ThreeJoined
    <3>2. after = three \/ after = <<>>
      BY DEF If
    <3> HIDE DEF three
    <3> QED BY <3>1, <3>2
  <2> HIDE DEF after
  <2>5. Setup \o after \in Seq(S \cup {a, b, d})
    BY <2>3, <2>4, Joined
  <2>6. StepsOf(c)[i] \in S \cup {a, b, d}
    BY <2>1, <2>5
  <2>7. \A s \in S : s.op # "handover"
    BY <2>3 DEF Sound, PlainOps
  <2> QED BY <1>1, <2>2, <2>6, <2>7
<1> QED BY <1>2, <1>3, <1>4

\* An idle process, or one that begins, is behind nothing.
LEMMA AfterFirst == ASSUME proc'.pc = 1 PROVE AfterProgress'
<1>1. ~(proc'.pc > SetupSteps' + 1)
  <2>1. SetupSteps' \in Nat
    BY SetupNat
  <2> DEFINE n == SetupSteps' p == proc'.pc
  <2>2. n \in Nat /\ p = 1
    BY <2>1
  <2>3. ~(p > n + 1)
    <3> HIDE DEF n, p
    <3> QED BY <2>2
  <2> QED BY <2>3
<1> QED BY <1>1 DEF AfterProgress

\* Nothing to be handed over.
LEMMA NoHandover == ASSUME handover' = "none" PROVE HandoverProgress'
BY DEF HandoverProgress

\* What is handed over stays so when no script ends.
LEMMA DoneStays ==
  ASSUME HandedInv, Keeps, HoldersKept, UNCHANGED <<finished, market>>
  PROVE  ("after_deploy" \in finished /\ market.transfer => Handed)'
BY HandedKept DEF HandedInv

\* After-deploy passes its handover only by handing over.
LEMMA PassedHandover ==
  ASSUME HandedInv, At("after_deploy"), market.transfer, handover = "none",
         proc.pc \in Nat \ {0},
         NEW n \in Nat, Passed(AfterDeploySteps, n), n > SetupSteps + 1
  PROVE  Handed
<1>1. SUFFICES ASSUME proc.pc <= SetupSteps + 1 PROVE FALSE
  BY SetupLength DEF HandedInv, AfterProgress
<1>2. /\ SetupSteps \in Nat /\ Len(AfterDeploySteps) = SetupSteps + 3
      /\ AfterDeploySteps[SetupSteps + 1].when
  BY SetupLength, AfterDeployShape
<1> DEFINE h == SetupSteps + 1
<1>3. h \in proc.pc..Len(AfterDeploySteps) /\ h < n
  BY <1>1, <1>2
<1>4. AfterDeploySteps[h].when
  BY <1>2
<1> HIDE DEF h
<1> QED BY <1>3, <1>4 DEF Passed

\* What a script does next.
LEMMA ScriptStepHanded ==
  ASSUME DeploymentInv, Keeps, HoldersKept, ProcessInv, HandedInv, ScriptStep,
         \A r \in Symbols : DOMAIN reserve[r] = DOMAIN NewReserve
  PROVE  HandedInv'
<1>1. Running /\ handover = "none" /\ proc.pc \in Nat \ {0} /\ TypeOK
  BY DEF ScriptStep, ProcessInv, DeploymentInv
<1>2. CASE Passed(StepsOf(ThisScript), Len(StepsOf(ThisScript)) + 1) /\ EndScript
  <2>1. /\ UNCHANGED <<market, handover>> /\ proc'.pc = 1
        /\ finished' \subseteq finished \cup {ThisScript}
    BY <1>2 DEF EndScript, Idle
  <2>2. ASSUME ThisScript = "after_deploy", market.transfer PROVE Handed
    <3>1. StepsOf(ThisScript) = AfterDeploySteps /\ At("after_deploy")
      BY <1>1, <2>2 DEF StepsOf, At
    <3> DEFINE n == Len(AfterDeploySteps) + 1
    <3>2. n \in Nat /\ n > SetupSteps + 1
      BY <2>2, SetupLength, AfterDeployShape
    <3>3. Passed(AfterDeploySteps, n)
      <4>1. Passed(StepsOf(ThisScript), Len(StepsOf(ThisScript)) + 1)
        BY <1>2
      <4> QED BY <3>1, <4>1 DEF Passed
    <3> HIDE DEF n
    <3> QED BY <1>1, <2>2, <3>1, <3>2, <3>3, PassedHandover
  <2>3. ASSUME "after_deploy" \in finished', market'.transfer PROVE Handed'
    <3>1. market.transfer /\ market'.multisig = market.multisig
      BY <2>1, <2>3
    <3>2. Handed
      BY <2>1, <2>2, <2>3, <3>1 DEF HandedInv
    <3> QED BY <3>1, <3>2, HandedKept
  <2> QED BY <1>1, <2>1, <2>3, AfterFirst, NoHandover DEF HandedInv
<1>3. CASE Stopped /\ UNCHANGED <<records, chain, market, executed, history>>
  <2>1. UNCHANGED <<market, finished>> /\ handover' = "none" /\ proc'.pc = 1
    BY <1>3 DEF Stopped, history, Idle
  <2>2. ("after_deploy" \in finished /\ market.transfer => Handed)'
    BY <2>1, DoneStays
  <2> QED BY <2>1, <2>2, AfterFirst, NoHandover DEF HandedInv
<1>4. ASSUME NEW i \in proc.pc..Len(StepsOf(ThisScript)),
             Passed(StepsOf(ThisScript), i), StepsOf(ThisScript)[i].needs,
             ~Refused(StepsOf(ThisScript)[i]),
             Perform(StepsOf(ThisScript)[i], i), UNCHANGED <<market, executed, history>>
      PROVE  HandedInv'
  <2> DEFINE s == StepsOf(ThisScript)[i]
  <2>1. Len(StepsOf(ThisScript)) \in Nat /\ Sound(s, OpsOf(ThisScript))
    BY <1>1, StepsSound, SoundEach
  <2>2. UNCHANGED <<market, finished>>
    BY <1>4 DEF history
  <2>3. ("after_deploy" \in finished /\ market.transfer => Handed)'
    BY <2>2, DoneStays
  <2>4. i \in 1..Len(StepsOf(ThisScript))
    BY <1>1, <2>1
  <2>5. CASE s.op = "handover"
    <3>1. HandoverRecords \subseteq records
      BY <1>1, <1>4, <2>4, <2>5, HandoverNeeds
    <3>2. handover' = "repayAdapter" /\ UNCHANGED records
      BY <1>4, <2>5, OpMoves DEF BeginHandover
    <3>3. (HandedUpTo(StageOf(handover)))'
      BY <3>2, Stages DEF HandedUpTo
    <3>4. HandoverProgress'
      BY <3>1, <3>2, <3>3 DEF HandoverProgress, HandoverRecords
    <3>5. AfterProgress'
      BY <3>2 DEF AfterProgress
    <3> QED BY <2>3, <3>4, <3>5 DEF HandedInv
  <2>6. CASE s.op # "handover"
    <3>1. handover' = "none" /\ proc'.pc \in {i, i + 1} /\ proc'.queue = proc.queue
      BY <1>1, <1>4, <2>6, PerformFrame
    <3>2. ASSUME At("after_deploy")', market'.transfer, proc'.pc > SetupSteps' + 1 PROVE Handed'
      <4>1. At("after_deploy") /\ market.transfer
        BY <2>2, <3>1, <3>2 DEF At, Running, ThisScript
      <4>2. StepsOf(ThisScript) = AfterDeploySteps /\ OpsOf(ThisScript) = HandoverOps
        BY <4>1 DEF At, StepsOf, OpsOf
      <4>3. s.op # "initReserves"
        BY <2>1, <4>2 DEF Sound, PlainOps, HandoverOps
      <4>4. SetupSteps' = SetupSteps /\ SetupSteps \in Nat
        <5>1. Listed' = Listed
          BY <1>1, <1>4, <2>1, <4>3, PerformLeavesListed
        <5> QED BY <2>2, <5>1, SetupStays, SetupLength
      <4>5. i > SetupSteps + 1
        <5>1. i >= SetupSteps + 1 /\ i \in Nat
          BY <1>1, <2>1, <3>1, <3>2, <4>4
        <5>2. i # SetupSteps + 1
          BY <2>6, <4>1, <4>2, AfterDeployShape
        <5> QED BY <4>4, <5>1, <5>2
      <4>6. Passed(AfterDeploySteps, i) /\ i \in Nat
        <5>1. Passed(StepsOf(ThisScript), i) /\ i \in Nat
          BY <1>1, <1>4, <2>1
        <5> QED BY <4>2, <5>1 DEF Passed
      <4>7. Handed
        BY <1>1, <4>1, <4>5, <4>6, PassedHandover
      <4> QED BY <2>2, <4>7, HandedKept
    <3>3. AfterProgress'
      BY <3>2 DEF AfterProgress
    <3> QED BY <2>3, <3>1, <3>3, NoHandover DEF HandedInv
  <2> QED BY <2>5, <2>6
<1> QED BY <1>1, <1>2, <1>3, <1>4, ScriptStepCases

\* The market file grows, and it is the multisig's that is to have it.
LEMMA GrownMarket ==
  ASSUME TypeOK, MarketFileGrows
  PROVE  market'.multisig = market.multisig /\ market'.transfer = market.transfer
<1>1. {"multisig", "transfer", "commands"}
              \subseteq DOMAIN market
  BY MarketReserves
<1> QED BY <1>1 DEF MarketFileGrows

\* Every step keeps the invariant.
LEMMA NextHanded ==
  ASSUME DeploymentInv, [Keeps]_vars, HoldersKept, ProcessInv, QueueInv, HeldInv, HandedInv,
         [Next]_vars,
         \A r \in Symbols : DOMAIN reserve[r] = DOMAIN NewReserve
  PROVE  HandedInv'
<1>1. TypeOK /\ Keeps
  BY DEF DeploymentInv, Keeps, vars, chain
<1>2. CASE ScriptStep
  BY <1>1, <1>2, ScriptStepHanded
<1>3. CASE HandoverStep
  <2>1. UNCHANGED <<market, finished, reserve>>
    BY <1>3 DEF HandoverStep, history
  <2>2. ("after_deploy" \in finished /\ market.transfer => Handed)'
    BY <1>1, <2>1, DoneStays
  <2>3. ASSUME "acl" \in finished
        PROVE  \/ handover' # "none" /\ HandedUpTo(StageOf(handover))'
               \/ handover' = "none" /\ Handed'
    <3>1. handover # "none"
          /\ \/ handover' # "none" /\ HandedUpTo(StageOf(handover))' /\ UNCHANGED proc
             \/ handover' = "none" /\ HandedUpTo(14)'
                /\ proc' = [proc EXCEPT !.pc = @ + 1]
      BY <1>1, <1>3, <2>3, HandoverAdvances DEF HandedInv
    <3>2. market'.multisig = Multisig
      BY <1>1, <2>1, <3>1, MarketMultisig DEF DeploymentInv, HandoverInOrder
    <3>3. HandedUpTo(14)' => Handed'
      BY <3>2 DEF HandedUpTo, Handed, HandoverRecords, Admins
    <3> QED BY <3>1, <3>3
  <2>4. handover # "none" /\ UNCHANGED records
        /\ (proc' = proc \/ proc' = [proc EXCEPT !.pc = @ + 1])
    BY <1>3 DEF HandoverStep, TransferAdapters, TransferAdmins, TransferACLAdmin,
         TransferContracts, TransferDefaultAdmin, HandOver, GiveRole, TakeRole, disk
  <2>5. HandoverProgress'
    <3>1. "acl" \in finished => HandoverRecords \subseteq records
      BY <2>4 DEF HandedInv, HandoverProgress
    <3>2. "acl" \in finished /\ handover' # "none" => HandedUpTo(StageOf(handover))'
      BY <2>3
    <3> QED BY <2>1, <2>4, <3>1, <3>2 DEF HandoverProgress, HandoverRecords
  <2>6. AfterProgress'
    <3> SUFFICES ASSUME At("after_deploy")', handover' = "none" PROVE Handed'
      BY DEF AfterProgress
    <3>1. proc'.queue = proc.queue
      BY <1>1, <2>4 DEF TypeOK
    <3>2. At("after_deploy")
      BY <3>1 DEF At, Running, ThisScript
    <3>3. "acl" \in finished
      <4>1. "acl" \in Earlier
        BY ScriptNames DEF Earlier
      <4> QED BY <3>2, <4>1, AfterTheOthers
    <3> QED BY <2>3, <3>3
  <2> QED BY <2>2, <2>5, <2>6 DEF HandedInv
<1>4. ASSUME handover' = "none", proc'.pc = 1, UNCHANGED <<market, finished>>
      PROVE  HandedInv'
  <2>1. ("after_deploy" \in finished /\ market.transfer => Handed)'
    BY <1>1, <1>4, DoneStays
  <2> QED BY <1>4, <2>1, AfterFirst, NoHandover DEF HandedInv
<1>5. ASSUME NEW scripts, Begin(scripts) PROVE HandedInv'
  <2>1. handover = "none"
    BY <1>5 DEF Begin, DeploymentInv, HandoverInOrder
  <2> QED BY <1>4, <1>5, <2>1 DEF Begin, history, Idle
<1>6. CASE Crash
  BY <1>4, <1>6 DEF Crash, Stopped, Idle
<1>7. CASE MarketFileGrows
  <2>1. ~Running /\ UNCHANGED <<proc, handover, finished>>
    BY <1>7 DEF MarketFileGrows, Complete, history
  <2>2. handover' = "none" /\ ~At("after_deploy")'
    BY <2>1 DEF DeploymentInv, HandoverInOrder, At, Running
  <2>3. ("after_deploy" \in finished /\ market.transfer => Handed)'
    <3>1. market'.multisig = market.multisig /\ market'.transfer = market.transfer
      BY <1>1, <1>7, GrownMarket
    <3>2. Handed => Handed'
      BY <1>1, <3>1, HandedKept
    <3> QED BY <2>1, <3>1, <3>2 DEF HandedInv
  <2>4. AfterProgress'
    BY <2>2 DEF AfterProgress
  <2> QED BY <2>2, <2>3, <2>4, NoHandover DEF HandedInv
<1>8. CASE UNCHANGED vars \/ \E s \in ToSet(market.symbols) : Visit(s)
  <2>1. /\ UNCHANGED <<market, proc, handover, finished, records, owner, acl, slots>>
        /\ \A r \in Symbols : reserve'[r].listed = reserve[r].listed
    <3>1. CASE UNCHANGED vars
      BY <3>1 DEF vars, disk, chain, history
    <3>2. ASSUME NEW s, Visit(s)
          PROVE  /\ UNCHANGED <<market, proc, handover, finished, records, owner, acl, slots>>
                 /\ \A r \in Symbols : reserve'[r].listed = reserve[r].listed
      <4>1. \A r \in Symbols : "listed" \in DOMAIN reserve[r]
        BY DEF NewReserve
      <4>2. PICK v : reserve' = [reserve EXCEPT ![s].suppliers = v]
        BY <3>2, VisitOnly
      <4>3. \A r \in Symbols : reserve'[r].listed = reserve[r].listed
        BY <1>1, <4>1, <4>2 DEF TypeOK
      <4> QED BY <3>2, <4>3, VisitOnly
    <3> QED BY <1>8, <3>1, <3>2
  <2>2. ("after_deploy" \in finished /\ market.transfer => Handed)'
    BY <1>1, <2>1, DoneStays
  <2>3. HandoverProgress'
    BY <2>1 DEF HandedInv, HandoverProgress, HandedUpTo, HandoverRecords
  <2>4. AfterProgress'
    <3>1. Listed' = Listed
      BY <2>1 DEF Listed
    <3>2. SetupSteps' = SetupSteps
      BY <2>1, <3>1, SetupStays
    <3>3. Handed => Handed'
      BY <1>1, <2>1, HandedKept
    <3>4. At("after_deploy")' => At("after_deploy")
      BY <2>1 DEF At, Running, ThisScript
    <3> QED BY <2>1, <3>2, <3>3, <3>4 DEF HandedInv, AfterProgress
  <2> QED BY <2>2, <2>3, <2>4 DEF HandedInv
<1> QED BY <1>2, <1>3, <1>5, <1>6, <1>7, <1>8 DEF Next, Visit, ProcessStep, Deploying, RunTask

\* Nothing is handed over, and nothing has to be.
LEMMA InitHanded == Init => HandedInv
<1> SUFFICES ASSUME Init PROVE HandedInv
  OBVIOUS
<1>1. ~Running /\ handover = "none" /\ finished = {}
  BY DEF Init, Running, Idle
<1> QED BY <1>1 DEF HandedInv, HandoverProgress, AfterProgress, At

\* What the report asks of a market that is the multisig's.
LEMMA ReportHolds ==
  ASSUME HandedInv, QueueInv, RecordsFollowChain
  PROVE  HandedOver
<1> SUFFICES ASSUME "after_deploy" \in finished, market.transfer, NEW row \in DOMAIN RolesReport
             PROVE  RolesReport[row] \/ (row = "emergencyAdmin" /\ market.guardian # market.multisig)
  BY DEF HandedOver
<1>1. Handed
  BY DEF HandedInv
<1>2. slots[<<"INCENTIVES_CONTROLLER">>] # Nothing
  <2>1. "incentives" \in Earlier
    BY ScriptNames DEF Earlier
  <2>2. "incentives" \in finished
    BY <2>1 DEF QueueInv
  <2> QED BY <2>2 DEF RecordsFollowChain
<1>3. row \in {"providerOwner", "registryOwner", "aclAdmin", "defaultAdmin", "deployerNoDefault",
               "gatewayOwner", "poolAdmin", "deployerNoPool", "emergencyAdmin", "emissionOwner",
               "incentives", "repayAdapter", "swapAdapter"}
  BY DEF RolesReport
<1>4. CASE row = "providerOwner"
  BY <1>1, <1>4 DEF RolesReport, Handed, HandoverRecords
<1>5. CASE row = "registryOwner"
  BY <1>1, <1>5 DEF RolesReport, Handed, HandoverRecords
<1>6. CASE row = "gatewayOwner"
  BY <1>1, <1>6 DEF RolesReport, Handed, HandoverRecords
<1>7. CASE row = "emissionOwner"
  BY <1>1, <1>7 DEF RolesReport, Handed, HandoverRecords
<1>8. CASE row = "repayAdapter"
  BY <1>1, <1>8 DEF RolesReport, Handed, HandoverRecords
<1>9. CASE row = "swapAdapter"
  BY <1>1, <1>9 DEF RolesReport, Handed, HandoverRecords
<1>10. CASE row = "aclAdmin"
  BY <1>1, <1>10 DEF RolesReport, Handed
<1>11. CASE row = "deployerNoDefault"
  BY <1>1, <1>11 DEF RolesReport, Handed
<1>12. CASE row = "deployerNoPool"
  BY <1>1, <1>12 DEF RolesReport, Handed
<1>13. CASE row = "defaultAdmin"
  BY <1>1, <1>13 DEF RolesReport, Handed, Admins
<1>14. CASE row = "poolAdmin"
  BY <1>1, <1>14 DEF RolesReport, Handed, Admins
<1>15. CASE row = "emergencyAdmin"
  BY <1>1, <1>15 DEF RolesReport, Handed, Admins
<1>16. CASE row = "incentives"
  BY <1>2, <1>16 DEF RolesReport
<1> QED BY <1>3, <1>4, <1>5, <1>6, <1>7, <1>8, <1>9, <1>10, <1>11, <1>12, <1>13, <1>14, <1>15, <1>16

\* When after-deploy is done on a market that is to be handed over, each row of
\* the roles report is as it must be, however often the deployment stopped and was
\* resumed and whatever tasks were run in between.
THEOREM MarketHandedOver == Spec => []HandedOver
<1>1. ChainInv /\ DeploymentInv /\ [Next]_vars => ChainInv'
  BY NextChain
<1>2. DeploymentInv /\ ChainInv /\ HelperInv /\ [Next]_vars => HelperInv'
  BY NextHelper DEF ChainInv
<1>3. DeploymentInv /\ ChainInv /\ QueueInv /\ [Next]_vars => QueueInv'
  BY NextQueue DEF ChainInv
<1>4. DeploymentInv /\ DeploymentInv' /\ ChainInv /\ HeldInv /\ [Next]_vars => HeldInv'
  BY NextKeeps, NextHeld DEF ChainInv
<1>5. DeploymentInv /\ DeploymentInv' /\ ChainInv /\ HelperInv /\ QueueInv /\ HeldInv /\ HandedInv
        /\ [Next]_vars => HandedInv'
  <2>1. DeploymentInv /\ [Next]_vars => [Keeps]_vars
    BY NextKeeps
  <2> QED BY <2>1, NextHeld, NextHanded DEF ChainInv, HelperInv
<1>6. HandedInv /\ QueueInv /\ ChainInv => HandedOver
  BY ReportHolds DEF ChainInv
<1> QED
  BY DeploymentCorrect, InitChain, InitHelper, InitQueue, InitHeld, InitHanded,
     <1>1, <1>2, <1>3, <1>4, <1>5, <1>6, PTL DEF Spec

---------------------------------------------------------------------------
(* One revision of the aTokens *)

\* A market has each of its reserves once, extended or not.
LEMMA SymbolsOnce == ASSUME TypeOK PROVE IsInjective(market.symbols)
<1>1. ASSUME NEW m \in Markets, market = [m EXCEPT !.extended = TRUE]
      PROVE  market.symbols = m.symbols
  <2>1. "symbols" \in DOMAIN m
    BY MarketsAssumption
  <2> QED BY <1>1, <2>1
<1> QED BY <1>1, SymbolsAssumption DEF TypeOK

\* The upgrades of two reserves are two steps.
LEMMA UpgradeApart == ASSUME NEW s, NEW t, UpgradeStep(s) = UpgradeStep(t) PROVE s = t
<1>1. UpgradeStep(s).id = <<"revision", s>> /\ UpgradeStep(t).id = <<"revision", t>>
  BY DEF UpgradeStep, Configure, Step
<1>2. <<"revision", s>> = <<"revision", t>>
  BY <1>1
<1> QED BY <1>2

\* Each reserve of a set has one of them.
LEMMA StepsForOf ==
  ASSUME TypeOK, NEW T, T \subseteq ToSet(market.symbols)
  PROVE  /\ StepsFor(T) \in Seq({UpgradeStep(s) : s \in T})
         /\ \A s \in T : \E j \in 1..Len(StepsFor(T)) : StepsFor(T)[j] = UpgradeStep(s)
         /\ IsInjective(StepsFor(T))
<1> DEFINE n == Len(market.symbols)
           S == {UpgradeStep(s) : s \in T}
           parts == [i \in 1..n |->
                      If(market.symbols[i] \in T, <<UpgradeStep(market.symbols[i])>>)]
<1>1. n \in Nat /\ market.symbols \in Seq(Symbols)
  BY MarketReserves
<1>2. ASSUME NEW i \in 1..n
      PROVE  /\ market.symbols[i] \in T => parts[i] = <<UpgradeStep(market.symbols[i])>>
             /\ market.symbols[i] \notin T => parts[i] = <<>>
  BY DEF If
<1>3. ASSUME NEW i \in 1..n PROVE parts[i] \in Seq(S)
  <2>1. CASE market.symbols[i] \in T
    <3> DEFINE u == UpgradeStep(market.symbols[i])
    <3>1. u \in S /\ parts[i] = <<u>>
      BY <1>2, <2>1
    <3> HIDE DEF S, parts, u
    <3> QED BY <3>1
  <2>2. CASE market.symbols[i] \notin T
    <3>1. parts[i] = <<>>
      BY <1>2, <2>2
    <3> HIDE DEF S, parts
    <3> QED BY <3>1
  <2> QED BY <2>1, <2>2
<1>4. parts \in [1..n -> Seq(S)]
  BY <1>3
<1>5. FlattenSeq(parts) = StepsFor(T)
  BY DEF StepsFor
<1>7. \A i, j \in 1..n : market.symbols[i] = market.symbols[j] => i = j
  BY <1>1, SymbolsOnce DEF IsInjective
<1>8. OnceEach(n, parts)
  <2> HIDE DEF n, parts
  <2>1. ASSUME NEW i \in 1..n
        PROVE  /\ Len(parts[i]) \in {0, 1}
               /\ Len(parts[i]) = 1 => parts[i][1] = UpgradeStep(market.symbols[i])
    <3>1. CASE market.symbols[i] \in T
      <4>1. parts[i] = <<UpgradeStep(market.symbols[i])>>
        BY <1>2, <3>1
      <4> QED BY <4>1
    <3>2. CASE market.symbols[i] \notin T
      <4>1. parts[i] = <<>>
        BY <1>2, <3>2
      <4> QED BY <4>1
    <3> QED BY <3>1, <3>2
  <2> QED BY <1>7, <2>1, UpgradeApart DEF OnceEach
<1>9. ASSUME NEW s \in T
      PROVE  \E j \in 1..Len(StepsFor(T)) : StepsFor(T)[j] = UpgradeStep(s)
  <2>1. PICK i \in 1..n : market.symbols[i] = s
    BY <1>1 DEF ToSet
  <2>2. parts[i] = <<UpgradeStep(s)>>
    BY <1>2, <2>1
  <2> HIDE DEF n, S, parts
  <2>3. 1 \in 1..Len(parts[i]) /\ parts[i][1] = UpgradeStep(s)
    BY <2>2
  <2>4. UpgradeStep(s) \in ToSet(FlattenSeq(parts))
    BY <1>1, <1>4, <2>3, FlattenElement
  <2> QED BY <1>5, <2>4 DEF ToSet
<1> HIDE DEF n, S, parts
<1>10. StepsFor(T) \in Seq(S)
  BY <1>1, <1>4, <1>5, FlattenType
<1>11. IsInjective(StepsFor(T))
  BY <1>1, <1>4, <1>5, <1>8, FlattenInjective
<1> QED BY <1>9, <1>10, <1>11 DEF S

\* Each leading reserve has one among the first steps of the task.
LEMMA TokenStepsOf ==
  ASSUME TypeOK, Listed \subseteq ToSet(market.symbols)
  PROVE  /\ AllSteps \in Seq({UpgradeStep(s) : s \in Listed})
         /\ TokenSteps \in Seq({UpgradeStep(s) : s \in Leading})
         /\ \A s \in Leading : \E j \in 1..Len(TokenSteps) : TokenSteps[j] = UpgradeStep(s)
         /\ IsInjective(TokenSteps)
         /\ Len(TokenSteps) <= Len(AllSteps)
         /\ \A j \in 1..Len(TokenSteps) : AllSteps[j] = TokenSteps[j]
<1> DEFINE P == Listed \ market.later
           Q == Listed \cap market.later
           A == {UpgradeStep(s) : s \in P}
           B == {UpgradeStep(s) : s \in Q}
           C == {UpgradeStep(s) : s \in Listed}
           a == StepsFor(P)
           b == StepsFor(Q)
           ab == a \o b
<1>1. P \cup Q = Listed /\ P \cap Q = {} /\ P \subseteq ToSet(market.symbols)
      /\ Q \subseteq ToSet(market.symbols)
  OBVIOUS
<1>2. AllSteps = ab /\ TokenSteps = IF MayMisnumber THEN a ELSE ab
  BY DEF AllSteps, TokenSteps
<1>3. Leading = IF MayMisnumber THEN P ELSE Listed
  BY DEF Leading
<1>4. A \cup B = C
  BY <1>1
<1> HIDE DEF P, Q
<1>5. /\ a \in Seq(A) /\ IsInjective(a)
      /\ \A s \in P : \E j \in 1..Len(a) : a[j] = UpgradeStep(s)
  BY <1>1, StepsForOf
<1>6. /\ b \in Seq(B) /\ IsInjective(b)
      /\ \A s \in Q : \E j \in 1..Len(b) : b[j] = UpgradeStep(s)
  BY <1>1, StepsForOf
<1>7. A \cap B = {}
  BY <1>1, UpgradeApart
<1> HIDE DEF a, b, A, B, C
<1>8. /\ ab \in Seq(A \cup B) /\ Len(ab) = Len(a) + Len(b) /\ Len(a) \in Nat /\ Len(b) \in Nat
      /\ \A i \in 1..Len(a) : ab[i] = a[i]
      /\ \A i \in 1..Len(b) : ab[Len(a) + i] = b[i]
  BY <1>5, <1>6, Joined
<1>12. IsInjective(ab)
  BY <1>5, <1>6, <1>7, JoinedInjective
<1> HIDE DEF ab
<1>13. \A s \in Listed : \E j \in 1..Len(ab) : ab[j] = UpgradeStep(s)
  <2>1. ASSUME NEW s \in P PROVE \E j \in 1..Len(ab) : ab[j] = UpgradeStep(s)
    BY <1>5, <1>8
  <2>2. ASSUME NEW s \in Q PROVE \E j \in 1..Len(ab) : ab[j] = UpgradeStep(s)
    <3>1. PICK j \in 1..Len(b) : b[j] = UpgradeStep(s)
      BY <1>6
    <3>2. Len(a) + j \in 1..Len(ab) /\ ab[Len(a) + j] = b[j]
      BY <1>8
    <3> QED BY <3>1, <3>2
  <2> QED BY <1>1, <2>1, <2>2
<1>14. AllSteps \in Seq(C)
  BY <1>2, <1>4, <1>8
<1>15. CASE MayMisnumber
  <2>1. TokenSteps = a /\ Leading = P /\ AllSteps = ab
    BY <1>2, <1>3, <1>15
  <2> QED BY <1>5, <1>8, <1>14, <2>1 DEF A, C
<1>16. CASE ~MayMisnumber
  <2>1. TokenSteps = ab /\ Leading = Listed /\ AllSteps = ab
    BY <1>2, <1>3, <1>16
  <2>2. ab \in Seq(C) /\ Len(ab) \in Nat
    BY <1>14, <2>1
  <2> QED BY <1>12, <1>13, <2>1, <2>2 DEF C
<1> QED BY <1>15, <1>16

\* It looks up, records the new implementation, upgrades, and looks up again.
LEMMA UpgradeShape ==
  ASSUME TypeOK, Listed \subseteq ToSet(market.symbols)
  PROVE  /\ Len(TokenSteps) \in Nat /\ Len(StepsOf(Upgrade)) \in Nat
         /\ Len(StepsOf(Upgrade)) >= Len(TokenSteps) + 3
         /\ StepsOf(Upgrade)[1].op = "check" /\ StepsOf(Upgrade)[1].when
         /\ StepsOf(Upgrade)[2].op = "save" /\ StepsOf(Upgrade)[2].when
         /\ StepsOf(Upgrade)[2].id = {NewToken}
         /\ \A j \in 1..Len(TokenSteps) : StepsOf(Upgrade)[j + 2] = TokenSteps[j]
         /\ \A k \in 3..Len(StepsOf(Upgrade)) : \/ StepsOf(Upgrade)[k].op = "check"
                                                \/ \E s \in Listed : StepsOf(Upgrade)[k] = UpgradeStep(s)
<1> DEFINE check == Check(Recorded({GetPoolAddressesProvider}))
           save  == Save({NewToken},
                         Recorded({GetPoolAddressesProvider, <<"TreasuryProxy">>, GetIncentivesV2}))
           t == AllSteps
           T == {UpgradeStep(s) : s \in Listed}
           whole == <<check>> \o (<<save>> \o t) \o <<check>>
           n == Len(t)
<1>1. /\ check.op = "check" /\ check.when
      /\ save.op = "save" /\ save.when /\ save.id = {NewToken}
  BY DEF Check, Save, Step
<1>2. StepsOf(Upgrade) = whole
  <2> DEFINE upgrade == <<save>> \o t
             ends == <<check>>
  <2>1. UpgradeATokens(TRUE) = upgrade
    BY DEF UpgradeATokens, NewToken, AllSteps, StepsFor, ForEach, UpgradeStep, If
  <2>2. ReviewATokens = ends
    BY DEF ReviewATokens
  <2> HIDE DEF upgrade, ends
  <2>3. UpgradeATokensAndReview(TRUE) = ends \o upgrade \o ends
    BY <2>1, <2>2 DEF UpgradeATokensAndReview
  <2>4. StepsOf(Upgrade) = UpgradeATokensAndReview(TRUE)
    BY DEF StepsOf, Upgrade
  <2> QED BY <2>3, <2>4 DEF upgrade, ends
<1>3. t \in Seq(T) /\ n \in Nat
  BY TokenStepsOf
<1> HIDE DEF check, save, t, T
<1>8. /\ Len(whole) = n + 3 /\ whole[1] = check /\ whole[2] = save /\ whole[n + 3] = check
      /\ \A j \in 1..n : whole[j + 2] = t[j]
  BY <1>3, Framed
<1> HIDE DEF n, whole
<1>11. ASSUME NEW k \in 3..n + 3 PROVE whole[k].op = "check" \/ \E s \in Listed : whole[k] = UpgradeStep(s)
  <2>1. CASE k = n + 3
    BY <1>1, <1>8, <2>1
  <2>2. CASE k # n + 3
    <3> DEFINE j == k - 2
    <3>1. j \in 1..n /\ j + 2 = k
      BY <1>3, <2>2
    <3> HIDE DEF j
    <3>2. t[j] \in T
      BY <1>3, <3>1 DEF n
    <3> QED BY <1>8, <3>1, <3>2 DEF T
  <2> QED BY <2>1, <2>2
<1> DEFINE l == Len(TokenSteps)
<1>12. l \in Nat /\ l <= n /\ \A j \in 1..l : t[j] = TokenSteps[j]
  BY TokenStepsOf DEF n, t
<1> HIDE DEF l
<1>13. n + 3 >= l + 3 /\ \A j \in 1..l : j \in 1..n
  BY <1>3, <1>12
<1>14. \A j \in 1..l : whole[j + 2] = TokenSteps[j]
  BY <1>8, <1>12, <1>13
<1> QED BY <1>1, <1>2, <1>3, <1>8, <1>11, <1>12, <1>13, <1>14 DEF l

\* Only configuring a revision and listing change them.
LEMMA PerformRevision ==
  ASSUME TypeOK, NEW s, NEW i, NEW ops, Sound(s, ops), Perform(s, i),
         \A r \in Symbols : DOMAIN reserve[r] = DOMAIN NewReserve
  PROVE  /\ s.op \notin {"configure", "initReserves"} => \A r \in Symbols : Revised(r)
         /\ s.op = "configure" =>
              \A r \in Symbols : \/ Revised(r)
                                 \/ /\ s.id[1] = "revision" /\ s.id[2] = r
                                    /\ reserve'[r].listed = reserve[r].listed
                                    /\ reserve'[r].revision = s.val
         /\ s.op = "configure" /\ s.id[1] = "revision" =>
              \A r \in Symbols : s.id[2] = r => reserve'[r].revision = s.val
         /\ s.op = "initReserves" =>
              \A r \in Symbols : \/ Revised(r)
                                 \/ r \in ToSet(Chunk(s.val)) /\ reserve'[r].revision = ImplementationOf(r)
<1>1. DOMAIN reserve = Symbols
  BY DEF TypeOK
<1>2. ASSUME NEW r \in Symbols
      PROVE  {"listed", "revision", "distributor", "stable", "cap"} \subseteq DOMAIN reserve[r]
  BY DEF NewReserve
<1>3. CASE UNCHANGED reserve /\ s.op \notin {"configure", "initReserves"}
  BY <1>3 DEF Revised
<1>4. CASE ConfigureReserve(s, i)
  <2>1. /\ s.op = "configure" /\ s.id[1] \in SetFields
        /\ reserve' = [reserve EXCEPT ![s.id[2]][s.id[1]] = s.val]
    BY <1>4 DEF ConfigureReserve, Sound
  <2>2. s.id[1] # "listed"
    BY <2>1 DEF SetFields
  <2> DEFINE f == s.id[1]
             x == s.id[2]
             v == s.val
  <2>3. reserve' = [reserve EXCEPT ![x][f] = v] /\ f # "listed"
    BY <2>1, <2>2
  <2> HIDE DEF f, x, v
  <2>4. ASSUME NEW r \in Symbols
        PROVE  /\ reserve'[r].listed = reserve[r].listed
               /\ r # x \/ f # "revision" => reserve'[r].revision = reserve[r].revision
               /\ r = x /\ f = "revision" => reserve'[r].revision = v
    BY <1>1, <1>2, <2>3
  <2> QED BY <2>1, <2>4 DEF Revised, f, x, v
<1>5. CASE ListReserves(s, i)
  <2>1. s.op = "initReserves"
    BY <1>5 DEF ListReserves
  <2>2. ASSUME NEW r \in Symbols
        PROVE  \/ Revised(r)
               \/ r \in ToSet(Chunk(s.val)) /\ reserve'[r].revision = ImplementationOf(r)
    <3>1. CASE r \in ToSet(Chunk(s.val))
      BY <1>2, <1>5, <3>1 DEF ListReserves
    <3>2. CASE r \notin ToSet(Chunk(s.val))
      BY <1>5, <3>2 DEF ListReserves, Revised
    <3> QED BY <3>1, <3>2
  <2> QED BY <2>1, <2>2
<1>6. CASE ConfigureReserves(s, i)
  <2>1. s.op = "configureReserves"
    BY <1>6 DEF ConfigureReserves
  <2>2. ASSUME NEW r \in Symbols PROVE Revised(r)
    BY <1>2, <1>6 DEF ConfigureReserves, Revised
  <2> QED BY <2>1, <2>2
<1>7. CASE DeployDistributor(s, i)
  <2>1. /\ s.op = "distributor"
        /\ UNCHANGED reserve \/ reserve' = [reserve EXCEPT ![s.val].distributor = "older"]
    BY <1>7 DEF DeployDistributor
  <2>2. ASSUME NEW r \in Symbols PROVE Revised(r)
    BY <1>1, <1>2, <2>1 DEF Revised
  <2> QED BY <2>1, <2>2
<1> QED BY <1>3, <1>4, <1>5, <1>6, <1>7, ReserveMoves

\* Only the upgrade records the new implementation.
LEMMA PerformNewToken ==
  ASSUME NEW s, NEW i, NEW ops, Sound(s, ops), Perform(s, i), "upgrade" \notin ops,
         NewToken \in records'
  PROVE  NewToken \in records
<1>1. CASE DeployContracts(s, i) \/ SaveRecords(s, i)
  BY <1>1 DEF DeployContracts, SaveRecords, Sound
<1>2. CASE DeployDistributor(s, i)
  <2>1. s.id # NewToken
    BY <1>2 DEF DeployDistributor, Sound, NewToken
  <2> QED BY <1>2, <2>1 DEF DeployDistributor
<1> QED BY <1>1, <1>2
        DEF Perform, InitializeContract, SetSlot, TransferToDeployer,
         GrantToDeployer, Pass, AssignLocals, MakeSetupHelperRiskAdmin, BeginHandover, Renounce,
         HandOne, ConfigureReserve, ListReserves, ConfigureReserves, chain

\* Only the script that sets the ACL up makes the deployer an admin of the pool.
LEMMA PerformPoolAdmin ==
  ASSUME TypeOK, NEW s, NEW i, NEW ops, Sound(s, ops), Perform(s, i), "grant" \notin ops
  PROVE  /\ Deployer \notin acl["POOL_ADMIN"] => Deployer \notin acl'["POOL_ADMIN"]
         /\ s.op \in {"configure", "save"} => UNCHANGED acl
<1>1. DOMAIN acl = Roles
  BY DEF TypeOK
<1>2. CASE DeployContracts(s, i)
  BY <1>1, <1>2 DEF DeployContracts, Roles
<1>3. CASE GrantToDeployer(s, i)
  BY <1>3 DEF GrantToDeployer, Sound, PlainOps
<1>4. CASE MakeSetupHelperRiskAdmin(s, i)
  BY <1>1, <1>4 DEF MakeSetupHelperRiskAdmin, Roles
<1>5. CASE Renounce(s, i)
  BY <1>1, <1>5 DEF Renounce, Renounced, Roles
<1>6. s.op \in {"configure", "save"} => UNCHANGED acl
  BY RoleMoves DEF DeployContracts, GrantToDeployer, MakeSetupHelperRiskAdmin, Renounce
<1> QED BY <1>2, <1>3, <1>4, <1>5, <1>6, RoleMoves

\* A step that looks up or configures records nothing.
LEMMA PerformNoRecord ==
  ASSUME NEW s, NEW i, Perform(s, i), s.op \in {"check", "configure"}
  PROVE  UNCHANGED records
BY DEF Perform, DeployContracts, InitializeContract, SetSlot, SaveRecords, TransferToDeployer,
         GrantToDeployer, Pass, AssignLocals, ConfigureReserve, ListReserves,
         MakeSetupHelperRiskAdmin, ConfigureReserves, DeployDistributor, BeginHandover, Renounce,
         HandOne, chain

\* Every step of the task is made, up to the last of the leading reserves.
LEMMA UpgradeDue ==
  ASSUME TypeOK, Listed \subseteq ToSet(market.symbols), proc.pc \in Nat \ {0},
         proc.pc <= Len(TokenSteps) + 2, NEW i \in Nat, proc.pc <= i, Passed(StepsOf(Upgrade), i)
  PROVE  i = proc.pc
<1> DEFINE steps == StepsOf(Upgrade)
           n == Len(TokenSteps)
           p == proc.pc
<1>1. /\ n \in Nat /\ Len(steps) \in Nat /\ Len(steps) >= n + 3 /\ steps[1].when /\ steps[2].when
      /\ \A j \in 1..n : steps[j + 2] = TokenSteps[j]
  BY UpgradeShape
<1>2. \A j \in 1..n : TokenSteps[j].when
  <2>1. ASSUME NEW j \in 1..n PROVE TokenSteps[j].when
    <3>1. TokenSteps[j] \in {UpgradeStep(s) : s \in Leading}
      BY TokenStepsOf
    <3>2. PICK s \in Leading : TokenSteps[j] = UpgradeStep(s)
      BY <3>1
    <3> QED BY <3>2 DEF UpgradeStep, Configure, Step
  <2> QED BY <2>1
<1>3. p \in Nat \ {0} /\ p <= n + 2
  BY <1>1
<1> HIDE DEF steps, n, p
<1>4. steps[p].when
  <2>1. CASE p = 1 \/ p = 2
    BY <1>1, <2>1
  <2>2. CASE ~(p = 1 \/ p = 2)
    <3> DEFINE j == p - 2
    <3>1. j \in 1..n /\ j + 2 = p
      BY <1>1, <1>3, <2>2
    <3> HIDE DEF j
    <3> QED BY <1>1, <1>2, <3>1
  <2> QED BY <2>1, <2>2
<1>5. p \in p..Len(steps)
  BY <1>1, <1>3
<1>6. ~(p < i)
  BY <1>4, <1>5 DEF Passed, steps, p
<1> QED BY <1>3, <1>6 DEF p

\* Among the upgrades, the next is of a reserve that has the old implementation.
LEMMA UpgradeNext ==
  ASSUME TypeOK, Listed \subseteq ToSet(market.symbols), Upgrading
  PROVE  \E x \in Leading :
           /\ StepsOf(Upgrade)[proc.pc] = UpgradeStep(x)
           /\ reserve[x].revision = 1
           /\ proc.pc <= Len(StepsOf(Upgrade))
           /\ \A r \in Leading : reserve[r].revision =
                IF r = x \/ r \in Pending(proc.pc + 1) THEN 1 ELSE 2
           /\ x \notin Pending(proc.pc + 1)
<1> DEFINE n == Len(TokenSteps)
           p == proc.pc
           j == p - 2
<1>1. /\ n \in Nat /\ Len(StepsOf(Upgrade)) \in Nat /\ n + 3 <= Len(StepsOf(Upgrade))
      /\ \A k \in 1..n : StepsOf(Upgrade)[k + 2] = TokenSteps[k]
  BY UpgradeShape
<1>2. p \in 3..n + 2
  BY DEF Upgrading
<1>3. j \in 1..n /\ j + 2 = p /\ p \in Nat /\ p <= Len(StepsOf(Upgrade))
  BY <1>1, <1>2
<1>4. /\ TokenSteps \in Seq({UpgradeStep(s) : s \in Leading}) /\ IsInjective(TokenSteps)
  BY TokenStepsOf
<1>5. PICK x \in Leading : TokenSteps[j] = UpgradeStep(x)
  <2>1. TokenSteps[j] \in {UpgradeStep(s) : s \in Leading}
    BY <1>3, <1>4
  <2> QED BY <2>1
<1>6. \A k \in 1..n : TokenSteps[k] = TokenSteps[j] => k = j
  BY <1>3, <1>4 DEF IsInjective
<1>8. Leading \subseteq Symbols
  BY DEF Leading, Listed
<1> DEFINE Due(m, r) == \E k \in 1..n : k + 2 >= m /\ TokenSteps[k] = UpgradeStep(r)
<1>9. \A r \in Leading : /\ r \in Pending(p) <=> Due(p, r)
                         /\ r \in Pending(p + 1) <=> Due(p + 1, r)
  BY <1>8 DEF Pending
<1> HIDE DEF n, p, j
<1>10. Due(p, x)
  BY <1>3, <1>5
<1>11. ~Due(p + 1, x)
  <2>1. ASSUME NEW k \in 1..n, k + 2 >= p + 1, TokenSteps[k] = UpgradeStep(x) PROVE FALSE
    <3>1. k = j
      BY <1>5, <1>6, <2>1
    <3> QED BY <1>3, <2>1, <3>1
  <2> QED BY <2>1
<1>12. ASSUME NEW r, r # x PROVE Due(p, r) <=> Due(p + 1, r)
  <2>1. ASSUME NEW k \in 1..n, k + 2 >= p, TokenSteps[k] = UpgradeStep(r) PROVE k + 2 >= p + 1
    <3>1. k # j
      BY <1>5, <1>12, <2>1, UpgradeApart
    <3> QED BY <1>3, <2>1, <3>1
  <2>2. ASSUME NEW k \in 1..n, k + 2 >= p + 1 PROVE k + 2 >= p
    BY <1>3, <2>2
  <2> QED BY <2>1, <2>2
<1> HIDE DEF Due
<1>13. \A r \in Leading : reserve[r].revision = IF r \in Pending(p) THEN 1 ELSE 2
  BY DEF Upgrading, p
<1>14. \A r \in Leading : reserve[r].revision = IF r = x \/ r \in Pending(p + 1) THEN 1 ELSE 2
  BY <1>9, <1>10, <1>12, <1>13
<1>15. x \notin Pending(p + 1) /\ reserve[x].revision = 1
  BY <1>5, <1>9, <1>11, <1>14
<1>16. StepsOf(Upgrade)[p] = UpgradeStep(x)
  <2>1. StepsOf(Upgrade)[j + 2] = TokenSteps[j]
    BY <1>1, <1>3
  <2> QED BY <1>3, <1>5, <2>1
<1> QED BY <1>1, <1>3, <1>5, <1>14, <1>15, <1>16 DEF p

\* What is alike leads, and as long as nothing is listed these are the same.
LEMMA SameGroups ==
  /\ Alike \subseteq Leading /\ Leading \subseteq Listed /\ Listed \subseteq Symbols
  /\ Listed' = Listed /\ market'.later = market.later /\ market'.params = market.params
       /\ market'.commands = market.commands
     => Leading' = Leading /\ Alike' = Alike /\ MayMisnumber' = MayMisnumber
<1>1. Alike \subseteq Leading /\ Leading \subseteq Listed /\ Listed \subseteq Symbols
  BY DEF Alike, Leading, Listed, MayDiffer, MayMisnumber, Misnumbered
<1>2. ASSUME Listed' = Listed, market'.later = market.later, market'.params = market.params,
             market'.commands = market.commands
      PROVE  Leading' = Leading /\ Alike' = Alike /\ MayMisnumber' = MayMisnumber
  <2>1. MayMisnumber' = MayMisnumber
    BY <1>2 DEF MayMisnumber, Misnumbered
  <2>2. \A s : MayDiffer(s)' = MayDiffer(s)
    BY <1>2 DEF MayDiffer
  <2> QED BY <1>2, <2>1, <2>2 DEF Leading, Alike
<1> QED BY <1>1, <1>2

\* Where nothing is listed or upgraded the revisions stay what they are.
LEMMA OneKept ==
  ASSUME OneRevision, ~Upgrading, \A r \in Symbols : Revised(r),
         NewToken \in records' <=> NewToken \in records,
         market'.later = market.later, market'.params = market.params,
         market'.commands = market.commands, Among' => Among,
         NewToken \in records /\ Deployer \notin acl["POOL_ADMIN"] => Deployer \notin acl'["POOL_ADMIN"]
  PROVE  OneRevision'
<1>1. Listed' = Listed /\ \A r \in Listed : reserve'[r].revision = reserve[r].revision
  BY DEF Listed, Revised
<1>2. /\ Leading' = Leading /\ Alike' = Alike /\ (MayMisnumber' <=> MayMisnumber)
      /\ Leading \subseteq Listed /\ Alike \subseteq Listed
  BY <1>1, SameGroups
<1>3. AllAt(Leading, 1) => AllAt(Leading, 1)'
  BY <1>1, <1>2 DEF AllAt
<1>4. AllAt(Alike, 2) => AllAt(Alike, 2)'
  BY <1>1, <1>2 DEF AllAt
<1>5. NewToken' = NewToken
  BY DEF NewToken
<1>6. CASE NewToken \notin records
  BY <1>3, <1>5, <1>6 DEF OneRevision
<1>7. CASE NewToken \in records /\ AllAt(Alike, 2)
  BY <1>4, <1>5, <1>7 DEF OneRevision
<1>8. CASE /\ NewToken \in records /\ AllAt(Leading, 1)
           /\ (MayMisnumber /\ ~Among) \/ Deployer \notin acl["POOL_ADMIN"]
  BY <1>2, <1>3, <1>5, <1>8 DEF OneRevision
<1> QED BY <1>6, <1>7, <1>8 DEF OneRevision

\* What is no upgrade keeps the one revision: what it lists has it too, or may differ.
LEMMA PerformOthers ==
  ASSUME TypeOK, handover = "none", OneRevision, NEW c, c \notin {Upgrade, Misnumbered}, ~Upgrading,
         ~Among', UNCHANGED market, NewToken \in records => c # "acl" /\ FirstEdition \subseteq Listed,
         Listed' \subseteq ToSet(market.symbols),
         NEW s, NEW i, Sound(s, OpsOf(c)), ~Refused(s), Perform(s, i),
         \A r \in Symbols : DOMAIN reserve[r] = DOMAIN NewReserve
  PROVE  OneRevision'
<1>1. "upgrade" \notin OpsOf(c) /\ (c # "acl" => "grant" \notin OpsOf(c))
  BY DEF OpsOf, ListingOps, HandoverOps, Upgrade, Misnumbered
<1>2. NewToken \in records' <=> NewToken \in records
  <2>1. NewToken \in records => NewToken \in records'
    <3>1. NewToken[1] # "NativeYieldDistribute"
      BY DEF NewToken
    <3> QED BY <3>1, PerformFrame
  <2> QED BY <1>1, <2>1, PerformNewToken
<1>3. NewToken \in records /\ Deployer \notin acl["POOL_ADMIN"] => Deployer \notin acl'["POOL_ADMIN"]
  BY <1>1, PerformPoolAdmin
<1>4. CASE s.op # "initReserves"
  <2>1. s.op = "configure" => s.id[1] # "revision"
    BY <1>1 DEF Sound, PlainFields
  <2>2. \A r \in Symbols : Revised(r)
    BY <1>4, <2>1, PerformRevision
  <2> QED BY <1>2, <1>3, <2>2, OneKept
<1>5. CASE s.op = "initReserves"
  <2>1. DeployerMay("POOL_ADMIN") /\ \A r \in ToSet(Chunk(s.val)) : ~reserve[r].listed
    BY <1>5 DEF Refused
  <2>2. \A r \in Symbols : Revised(r) \/ (~reserve[r].listed /\ reserve'[r].revision = ImplementationOf(r))
    BY <1>5, <2>1, PerformRevision
  <2>3. ASSUME NEW r \in Listed'
        PROVE  \/ r \in Listed /\ reserve'[r].revision = reserve[r].revision
               \/ r \notin Listed /\ reserve'[r].revision = ImplementationOf(r)
    <3>1. r \in Symbols /\ reserve'[r].listed
      BY DEF Listed
    <3> QED BY <2>2, <3>1 DEF Revised, Listed
  <2>4. /\ Leading' = IF MayMisnumber THEN Listed' \ market.later ELSE Listed'
        /\ Alike' = {r \in Listed' : ~MayDiffer(r)}
    BY DEF Leading, Alike, MayMisnumber, Misnumbered, MayDiffer
  <2>5. CASE NewToken \notin records
    <3>1. AllAt(Leading, 1)
      BY <2>5 DEF OneRevision
    <3>2. ASSUME NEW r \in Leading' PROVE reserve'[r].revision = 1
      <4>1. r \in Listed' /\ (r \in Listed => r \in Leading)
        BY <2>4 DEF Leading
      <4>2. ImplementationOf(r) = 1
        BY <2>5 DEF ImplementationOf, NewToken
      <4> QED BY <2>3, <3>1, <4>1, <4>2 DEF AllAt
    <3>3. AllAt(Leading, 1)'
      BY <3>2 DEF AllAt
    <3> QED BY <1>2, <2>5, <3>3 DEF OneRevision, NewToken
  <2>6. CASE NewToken \in records
    <3>1. ASSUME NEW r \in Listed', r \notin Listed PROVE r \in market.later
      BY <2>6, <3>1 DEF FirstEdition
    <3>2. CASE AllAt(Alike, 2)
      <4>1. ASSUME NEW r \in Alike' PROVE reserve'[r].revision = 2
        <5>1. r \in Listed' /\ ~MayDiffer(r) /\ (r \in Listed => r \in Alike)
          BY <2>4 DEF Alike
        <5>2. r \notin Listed => ImplementationOf(r) = 2
          BY <2>6, <3>1, <5>1 DEF MayDiffer, ImplementationOf, NewToken
        <5> QED BY <2>3, <3>2, <5>1, <5>2 DEF AllAt
      <4>2. AllAt(Alike, 2)'
        BY <4>1 DEF AllAt
      <4> QED BY <1>2, <2>6, <4>2 DEF OneRevision, NewToken
    <3>3. CASE AllAt(Leading, 1) /\ MayMisnumber
      <4>1. ASSUME NEW r \in Leading' PROVE reserve'[r].revision = 1
        <5>1. r \in Listed' /\ r \notin market.later /\ (r \in Listed => r \in Leading)
          BY <2>4, <3>3 DEF Leading
        <5> QED BY <2>3, <3>1, <3>3, <5>1 DEF AllAt
      <4>2. AllAt(Leading, 1)'
        BY <4>1 DEF AllAt
      <4>3. MayMisnumber'
        BY <3>3 DEF MayMisnumber, Misnumbered
      <4> QED BY <1>2, <2>6, <4>2, <4>3 DEF OneRevision, NewToken
    <3> QED BY <2>1, <2>6, <3>2, <3>3 DEF OneRevision, DeployerMay
  <2> QED BY <2>5, <2>6
<1> QED BY <1>4, <1>5

\* The steps of the task are those while nothing is listed.
LEMMA TokenStepsStay ==
  ASSUME UNCHANGED market, Listed' = Listed,
         GetPoolConfiguratorProxy \in records, (GetPoolConfiguratorProxy \in records)'
  PROVE  TokenSteps' = TokenSteps /\ \A n : Pending(n)' = Pending(n)
<1>1. Recorded({GetPoolConfiguratorProxy}) = TRUE /\ Recorded({GetPoolConfiguratorProxy})' = TRUE
  BY DEF Recorded, GetPoolConfiguratorProxy
<1>2. ASSUME NEW s PROVE UpgradeStep(s)' = UpgradeStep(s)
  <2>1. UpgradeStep(s) = [op |-> "configure", id |-> <<"revision", s>>, val |-> 2,
                          needs |-> TRUE, when |-> TRUE]
    BY <1>1 DEF UpgradeStep, Configure, Step
  <2>2. UpgradeStep(s)' = [op |-> "configure", id |-> <<"revision", s>>, val |-> 2,
                           needs |-> TRUE, when |-> TRUE]
    BY <1>1 DEF UpgradeStep, Configure, Step
  <2> QED BY <2>1, <2>2
<1>3. TokenSteps' = TokenSteps
  <2> DEFINE a == [i \in 1..Len(market.symbols) |->
                    If(market.symbols[i] \in Listed \ market.later, <<UpgradeStep(market.symbols[i])>>)]
             b == [i \in 1..Len(market.symbols) |->
                    If(market.symbols[i] \in Listed \cap market.later, <<UpgradeStep(market.symbols[i])>>)]
  <2>1. a' = a /\ b' = b
    BY <1>2 DEF If
  <2>2. TokenSteps = IF MayMisnumber THEN FlattenSeq(a) ELSE FlattenSeq(a) \o FlattenSeq(b)
    BY DEF TokenSteps, AllSteps, StepsFor
  <2>3. TokenSteps' = IF MayMisnumber' THEN FlattenSeq(a') ELSE FlattenSeq(a') \o FlattenSeq(b')
    BY DEF TokenSteps, AllSteps, StepsFor
  <2>4. MayMisnumber' = MayMisnumber
    BY DEF MayMisnumber, Misnumbered
  <2> QED BY <2>1, <2>2, <2>3, <2>4
<1>4. ASSUME NEW n PROVE Pending(n)' = Pending(n)
  BY <1>2, <1>3 DEF Pending
<1> QED BY <1>3, <1>4

\* Once the new implementation is recorded the upgrades begin, if an admin of the
\* pool makes them and there are any.
LEMMA UpgradeBegins ==
  ASSUME TypeOK, TypeOK', Listed \subseteq ToSet(market.symbols), OneRevision,
         \A r \in Symbols : Revised(r), At(Upgrade)', proc'.pc = 3, UNCHANGED <<market, acl>>,
         NewToken \in records', ~Upgrading,
         GetPoolConfiguratorProxy \in records, (GetPoolConfiguratorProxy \in records)'
  PROVE  OneRevision'
<1>1. Listed' = Listed /\ \A r \in Listed : reserve'[r].revision = reserve[r].revision
  BY DEF Listed, Revised
<1>2. /\ Leading' = Leading /\ Alike' = Alike /\ Alike \subseteq Leading /\ Leading \subseteq Listed
      /\ Listed \subseteq Symbols /\ NewToken' = NewToken
  BY <1>1, SameGroups DEF NewToken
<1>3. AllAt(Leading, 1) => AllAt(Leading, 1)'
  BY <1>1, <1>2 DEF AllAt
<1>4. AllAt(Alike, 2) => AllAt(Alike, 2)'
  BY <1>1, <1>2 DEF AllAt
<1>5. CASE AllAt(Leading, 1) /\ Deployer \in acl["POOL_ADMIN"]
  <2> DEFINE n == Len(TokenSteps)
  <2>1. TokenSteps' = TokenSteps /\ Pending(3)' = Pending(3)
    BY <1>1, TokenStepsStay
  <2>2. n \in Nat /\ \A s \in Leading : \E j \in 1..n : TokenSteps[j] = UpgradeStep(s)
    BY TokenStepsOf, UpgradeShape
  <2>3. CASE n = 0
    <3>1. Alike' = {}
      BY <1>2, <2>2, <2>3
    <3>2. AllAt(Alike, 2)'
      BY <3>1 DEF AllAt
    <3> QED BY <1>2, <3>2 DEF OneRevision
  <2>4. CASE n # 0
    <3>1. 3 \in 3..n + 2
      BY <2>2, <2>4
    <3>2. \A s \in Leading : s \in Pending(3)
      <4>1. ASSUME NEW s \in Leading PROVE s \in Pending(3)
        <5>1. PICK j \in 1..n : TokenSteps[j] = UpgradeStep(s)
          BY <2>2
        <5>2. j + 2 >= 3 /\ s \in Symbols
          BY <1>2, <2>2
        <5> QED BY <5>1, <5>2 DEF Pending
      <4> QED BY <4>1
    <3>3. Pending(3)' = Pending(3)
      BY <2>1
    <3>4. \A s \in Leading : reserve'[s].revision = 1
      BY <1>1, <1>2, <1>5 DEF AllAt
    <3>5. Upgrading'
      <4>1. (Deployer \in acl["POOL_ADMIN"])' /\ (proc.pc \in 3..Len(TokenSteps) + 2)'
        BY <1>5, <2>1, <3>1
      <4>2. (\A s \in Leading : reserve[s].revision = IF s \in Pending(proc.pc) THEN 1 ELSE 2)'
        BY <1>2, <3>2, <3>3, <3>4
      <4> QED BY <4>1, <4>2 DEF Upgrading
    <3> QED BY <1>2, <3>5 DEF OneRevision
  <2> QED BY <2>3, <2>4
<1>6. CASE AllAt(Leading, 1) /\ Deployer \notin acl["POOL_ADMIN"]
  BY <1>2, <1>3, <1>6 DEF OneRevision
<1>7. CASE AllAt(Alike, 2)
  BY <1>2, <1>4, <1>7 DEF OneRevision
<1> QED BY <1>5, <1>6, <1>7 DEF OneRevision

\* An upgrade is refused where there is nothing to upgrade, and to who is no admin.
LEMMA UpgradeRefused ==
  ASSUME NEW x \in Listed, ~Refused(UpgradeStep(x))
  PROVE  Deployer \in acl["POOL_ADMIN"] /\ 2 > reserve[x].revision
<1>1. /\ UpgradeStep(x).op = "configure" /\ UpgradeStep(x).val = 2
      /\ UpgradeStep(x).id[1] = "revision" /\ UpgradeStep(x).id[2] = x
  BY DEF UpgradeStep, Configure, Step
<1>2. MayConfigure("revision", x, 2)
  BY <1>1 DEF Refused
<1> QED BY <1>2 DEF MayConfigure, DeployerMay

\* One upgrade after another, to the last.
LEMMA UpgradeGoesOn ==
  ASSUME TypeOK, Listed \subseteq ToSet(market.symbols), Upgrading, UNCHANGED <<market, acl>>,
         At(Upgrade)', proc'.pc = proc.pc + 1, NewToken \in records',
         GetPoolConfiguratorProxy \in records, (GetPoolConfiguratorProxy \in records)',
         NEW x \in Leading, reserve'[x].revision = 2, x \notin Pending(proc.pc + 1),
         \A r \in Symbols : r # x => Revised(r),
         \A r \in Symbols : reserve'[r].listed = reserve[r].listed,
         \A r \in Leading : reserve[r].revision = IF r = x \/ r \in Pending(proc.pc + 1) THEN 1 ELSE 2
  PROVE  OneRevision'
<1> DEFINE n == Len(TokenSteps)
           p == proc.pc
<1>1. /\ Listed' = Listed /\ Leading' = Leading /\ Alike' = Alike /\ NewToken' = NewToken
      /\ Leading \subseteq Symbols /\ Alike \subseteq Leading
  <2>1. Listed' = Listed
    BY DEF Listed
  <2> QED BY <2>1, SameGroups DEF NewToken
<1>2. TokenSteps' = TokenSteps /\ \A m : Pending(m)' = Pending(m)
  BY <1>1, TokenStepsStay
<1>3. n \in Nat /\ p \in 3..n + 2
  BY UpgradeShape DEF Upgrading
<1>4. \A r \in Leading : reserve'[r].revision = IF r \in Pending(p + 1) THEN 1 ELSE 2
  <2>1. ASSUME NEW r \in Leading PROVE reserve'[r].revision = IF r \in Pending(p + 1) THEN 1 ELSE 2
    <3>1. CASE r = x
      BY <3>1
    <3>2. CASE r # x
      BY <1>1, <3>2 DEF Revised
    <3> QED BY <3>1, <3>2
  <2> QED BY <2>1
<1>5. CASE p = n + 2
  <2>1. Pending(p + 1) = {}
    <3>1. \A j \in 1..n : ~(j + 2 >= p + 1)
      BY <1>3, <1>5
    <3> QED BY <3>1 DEF Pending
  <2>2. AllAt(Alike, 2)'
    BY <1>1, <1>4, <2>1 DEF AllAt
  <2> QED BY <1>1, <2>2 DEF OneRevision
<1>6. CASE p # n + 2
  <2>1. p + 1 \in 3..n + 2
    BY <1>3, <1>6
  <2>3. Pending(proc.pc)' = Pending(p + 1)
    <3>1. PICK m : m = p + 1
      OBVIOUS
    <3>2. Pending(proc.pc)' = Pending(m)'
      BY <3>1 DEF Pending
    <3> QED BY <1>2, <3>1, <3>2
  <2>4. Upgrading'
    <3>1. (Deployer \in acl["POOL_ADMIN"])'
      BY DEF Upgrading
    <3>2. (proc.pc \in 3..Len(TokenSteps) + 2)'
      BY <1>2, <2>1
    <3>3. (\A s \in Leading : reserve[s].revision = IF s \in Pending(proc.pc) THEN 1 ELSE 2)'
      BY <1>1, <1>4, <2>3
    <3> QED BY <3>1, <3>2, <3>3 DEF Upgrading
  <2> QED BY <1>1, <2>4 DEF OneRevision
<1> QED BY <1>5, <1>6


\* The upgrade records the new implementation before it goes on.
LEMMA UpgradeRecords ==
  ASSUME TypeOK, handover = "none", Listed \subseteq ToSet(market.symbols),
         proc.pc \in Nat \ {0}, proc.pc > 2 => NewToken \in records,
         NEW i \in proc.pc..Len(StepsOf(Upgrade)), Passed(StepsOf(Upgrade), i),
         Perform(StepsOf(Upgrade)[i], i)
  PROVE  proc'.pc > 2 => NewToken \in records'
<1> DEFINE s == StepsOf(Upgrade)[i]
<1>1. /\ Len(TokenSteps) \in Nat /\ Len(StepsOf(Upgrade)) \in Nat
      /\ StepsOf(Upgrade)[1].op = "check" /\ StepsOf(Upgrade)[2].op = "save"
      /\ StepsOf(Upgrade)[2].id = {NewToken}
  BY UpgradeShape
<1>2. NewToken \in records => NewToken \in records'
  <2>1. NewToken[1] # "NativeYieldDistribute"
    BY DEF NewToken
  <2> QED BY <2>1, PerformFrame
<1>3. CASE proc.pc > 2
  BY <1>2, <1>3
<1>4. CASE ~(proc.pc > 2)
  <2>1. i = proc.pc /\ i \in {1, 2}
    BY <1>1, <1>4, UpgradeDue
  <2>2. CASE i = 1
    <3>1. proc'.pc = 2
      BY <1>1, <2>2, PerformFrame
    <3> QED BY <3>1
  <2>3. CASE i = 2
    BY <1>1, <2>3, PerformFrame
  <2> QED BY <2>1, <2>2, <2>3
<1> QED BY <1>3, <1>4

\* The upgrade keeps to one revision, or is on its way to it.
LEMMA PerformUpgrade ==
  ASSUME TypeOK, TypeOK', handover = "none", At(Upgrade), At(Upgrade)', OneRevision,
         Listed \subseteq ToSet(market.symbols), proc.pc \in Nat \ {0},
         Among => NewToken \in records, UNCHANGED market,
         GetPoolConfiguratorProxy \in records, (GetPoolConfiguratorProxy \in records)',
         NEW i \in proc.pc..Len(StepsOf(Upgrade)), Passed(StepsOf(Upgrade), i),
         ~Refused(StepsOf(Upgrade)[i]), Perform(StepsOf(Upgrade)[i], i),
         \A r \in Symbols : DOMAIN reserve[r] = DOMAIN NewReserve
  PROVE  OneRevision'
<1> DEFINE n == Len(TokenSteps)
           s == StepsOf(Upgrade)[i]
           c == Upgrade
<1>1. /\ n \in Nat /\ Len(StepsOf(Upgrade)) \in Nat /\ Len(StepsOf(Upgrade)) >= n + 3
      /\ StepsOf(Upgrade)[1].op = "check" /\ StepsOf(Upgrade)[2].op = "save"
      /\ StepsOf(Upgrade)[2].id = {NewToken}
      /\ \A k \in 3..Len(StepsOf(Upgrade)) : \/ StepsOf(Upgrade)[k].op = "check"
                                             \/ \E x \in Listed : StepsOf(Upgrade)[k] = UpgradeStep(x)
  BY UpgradeShape
<1>2. /\ proc.pc <= n + 2 => i = proc.pc
      /\ i \in 1..Len(StepsOf(Upgrade)) /\ (proc.pc > 2 => i \in 3..Len(StepsOf(Upgrade)))
  <2>1. i \in Nat /\ proc.pc <= i /\ i <= Len(StepsOf(Upgrade))
    BY <1>1
  <2>2. proc.pc <= n + 2 => i = proc.pc
    BY <2>1, UpgradeDue
  <2> QED BY <1>1, <2>1, <2>2
<1>3. Sound(s, OpsOf(c))
  BY <1>2, StepsSound, SoundEach
<1>4. "grant" \notin OpsOf(c)
  BY DEF OpsOf, Upgrade
<1>5. NewToken \in records => NewToken \in records'
  <2>1. NewToken[1] # "NativeYieldDistribute"
    BY DEF NewToken
  <2> QED BY <2>1, PerformFrame
<1>6. Upgrading => proc.pc \in 3..n + 2
  BY DEF Upgrading
<1> HIDE DEF n
<1>7. ASSUME s.op = "check", ~Upgrading, Among' => Among PROVE OneRevision'
  <2>1. \A r \in Symbols : Revised(r)
    BY <1>3, <1>7, PerformRevision
  <2>2. UNCHANGED records
    BY <1>7, PerformNoRecord
  <2>3. Deployer \notin acl["POOL_ADMIN"] => Deployer \notin acl'["POOL_ADMIN"]
    BY <1>3, <1>4, PerformPoolAdmin
  <2>4. NewToken \in records' <=> NewToken \in records
    BY <2>2
  <2> HIDE DEF s
  <2> QED BY <1>7, <2>1, <2>3, <2>4, OneKept
<1>8. CASE proc.pc = 1
  <2>1. s.op = "check" /\ i = 1
    BY <1>1, <1>2, <1>8
  <2>2. proc'.pc = 2
    BY <2>1, PerformFrame
  <2>3. ~Upgrading /\ ~Among'
    BY <1>8, <2>2 DEF Upgrading, Among
  <2> QED BY <1>7, <2>1, <2>3
<1>9. CASE proc.pc = 2
  <2>0. i = 2
    BY <1>1, <1>2, <1>9
  <2>1. s.op = "save" /\ s.id = {NewToken}
    BY <1>1, <2>0
  <2>2. \A r \in Symbols : Revised(r)
    BY <1>3, <2>1, PerformRevision
  <2>3. NewToken \in records' /\ proc'.pc = 3
    BY <2>0, <2>1, PerformFrame
  <2>4. UNCHANGED acl
    BY <1>3, <1>4, <2>1, PerformPoolAdmin
  <2>5. ~Upgrading
    BY <1>9 DEF Upgrading
  <2> QED BY <2>2, <2>3, <2>4, <2>5, UpgradeBegins
<1>10. CASE proc.pc > 2 /\ Upgrading
  <2>1. i = proc.pc /\ Among
    BY <1>2, <1>6, <1>10 DEF Among
  <2>2. NewToken \in records'
    BY <1>5, <2>1
  <2>6. PICK y \in Leading :
           /\ StepsOf(Upgrade)[proc.pc] = UpgradeStep(y)
           /\ \A r \in Leading : reserve[r].revision =
                IF r = y \/ r \in Pending(proc.pc + 1) THEN 1 ELSE 2
           /\ y \notin Pending(proc.pc + 1)
    BY <1>10, UpgradeNext
  <2>7. s = UpgradeStep(y)
    BY <2>1, <2>6
  <2>8. /\ s.op = "configure" /\ s.id[1] = "revision" /\ s.id[2] = y /\ s.val = 2
    BY <2>7 DEF UpgradeStep, Configure, Step
  <2>9. /\ reserve'[y].revision = 2
        /\ \A r \in Symbols : r # y => Revised(r)
        /\ \A r \in Symbols : reserve'[r].listed = reserve[r].listed
    <3>1. y \in Symbols
      BY SameGroups
    <3>2. \A r \in Symbols : \/ Revised(r)
                             \/ r = y /\ reserve'[r].listed = reserve[r].listed
      BY <1>3, <2>8, PerformRevision
    <3>3. reserve'[y].revision = 2
      BY <1>3, <2>8, <3>1, PerformRevision
    <3> QED BY <3>2, <3>3 DEF Revised
  <2>10. UNCHANGED acl /\ proc'.pc = proc.pc + 1
    BY <1>3, <1>4, <2>1, <2>8, PerformPoolAdmin, PerformFrame
  <2> HIDE DEF s
  <2> QED BY <1>10, <2>2, <2>6, <2>9, <2>10, UpgradeGoesOn
<1>11. CASE proc.pc > 2 /\ ~Upgrading
  <2>1. Among /\ NewToken \in records /\ NewToken \in records'
    BY <1>5, <1>11 DEF Among
  <2>2. CASE s.op = "check"
    BY <1>7, <1>11, <2>1, <2>2
  <2>3. ASSUME NEW x \in Listed, s = UpgradeStep(x) PROVE OneRevision'
    <3>1. Deployer \in acl["POOL_ADMIN"]
      BY <2>3, UpgradeRefused
    <3>2. AllAt(Alike, 2)
      BY <1>11, <2>1, <3>1 DEF OneRevision
    <3>3. /\ s.op = "configure" /\ s.id[1] = "revision" /\ s.id[2] = x /\ s.val = 2
      BY <2>3 DEF UpgradeStep, Configure, Step
    <3>4. \A r \in Symbols : \/ Revised(r)
                             \/ reserve'[r].listed = reserve[r].listed /\ reserve'[r].revision = 2
      BY <1>3, <3>3, PerformRevision
    <3>5. Listed' = Listed
      BY <3>4 DEF Listed, Revised
    <3>6. Alike' = Alike /\ Alike \subseteq Symbols /\ NewToken' = NewToken
      BY <3>5, SameGroups DEF NewToken
    <3>7. AllAt(Alike, 2)'
      BY <3>2, <3>4, <3>6 DEF AllAt, Revised
    <3> QED BY <2>1, <3>6, <3>7 DEF OneRevision
  <2> QED BY <1>1, <1>2, <1>11, <2>2, <2>3
<1> QED BY <1>8, <1>9, <1>10, <1>11

\* Asked for another revision, the task looks up, records the new implementation,
\* and looks up again.
LEMMA MisnumberedShape ==
  \A k \in 1..Len(StepsOf(Misnumbered)) :
    \/ StepsOf(Misnumbered)[k].op = "check"
    \/ StepsOf(Misnumbered)[k].op = "save" /\ StepsOf(Misnumbered)[k].id = {NewToken}
<1> DEFINE check == Check(Recorded({GetPoolAddressesProvider}))
           save  == Save({NewToken},
                         Recorded({GetPoolAddressesProvider, <<"TreasuryProxy">>, GetIncentivesV2}))
<1>1. check.op = "check" /\ save.op = "save" /\ save.id = {NewToken}
  BY DEF Check, Save, Step
<1>2. UpgradeATokens(FALSE) = <<save>> \o <<>>
  BY DEF UpgradeATokens, NewToken, If
<1>3. ReviewATokens = <<check>>
  BY DEF ReviewATokens
<1> DEFINE S == {check, save}
<1> HIDE DEF check, save
<1>4. <<check>> \in Seq(S) /\ <<save>> \in Seq(S) /\ <<>> \in Seq(S)
  OBVIOUS
<1> HIDE DEF S
<1>5. UpgradeATokensAndReview(FALSE) \in Seq(S)
  <2>1. UpgradeATokens(FALSE) \in Seq(S)
    BY <1>2, <1>4, JoinedLength
  <2>2. <<check>> \o UpgradeATokens(FALSE) \in Seq(S)
    BY <1>4, <2>1, JoinedLength
  <2>3. (<<check>> \o UpgradeATokens(FALSE)) \o <<check>> \in Seq(S)
    BY <1>4, <2>2, JoinedLength
  <2> QED BY <1>3, <2>3 DEF UpgradeATokensAndReview
<1>6. StepsOf(Misnumbered) \in Seq(S)
  BY <1>5 DEF StepsOf, Misnumbered
<1> QED BY <1>1, <1>6 DEF S

\* It upgrades nothing: the leading reserves may be left at the old revision.
LEMMA PerformMisnumbered ==
  ASSUME TypeOK, handover = "none", At(Misnumbered), OneRevision, MayMisnumber, ~Upgrading,
         ~Among', UNCHANGED market, NEW i \in 1..Len(StepsOf(Misnumbered)),
         Perform(StepsOf(Misnumbered)[i], i),
         \A r \in Symbols : DOMAIN reserve[r] = DOMAIN NewReserve
  PROVE  OneRevision'
<1> DEFINE s == StepsOf(Misnumbered)[i]
           c == Misnumbered
<1>1. s.op = "check" \/ (s.op = "save" /\ s.id = {NewToken})
  BY MisnumberedShape
<1>2. Sound(s, OpsOf(c))
  BY StepsSound, SoundEach
<1>3. \A r \in Symbols : Revised(r)
  BY <1>1, <1>2, PerformRevision
<1>4. Listed' = Listed /\ \A r \in Listed : reserve'[r].revision = reserve[r].revision
  BY <1>3 DEF Listed, Revised
<1>5. /\ Leading' = Leading /\ Alike' = Alike /\ MayMisnumber' /\ NewToken' = NewToken
      /\ Alike \subseteq Leading /\ Leading \subseteq Listed
  BY <1>4, SameGroups DEF NewToken
<1>6. AllAt(Leading, 1) => AllAt(Leading, 1)'
  BY <1>4, <1>5 DEF AllAt
<1>7. AllAt(Alike, 2) => AllAt(Alike, 2)'
  BY <1>4, <1>5 DEF AllAt
<1>8. CASE s.op = "check"
  <2>1. UNCHANGED records
    BY <1>8, PerformNoRecord
  <2>2. CASE NewToken \notin records
    BY <1>5, <1>6, <2>1, <2>2 DEF OneRevision
  <2>3. CASE NewToken \in records
    BY <1>5, <1>6, <1>7, <2>1, <2>3 DEF OneRevision
  <2> QED BY <2>2, <2>3
<1>9. CASE s.op = "save" /\ s.id = {NewToken}
  <2>1. NewToken \in records'
    BY <1>9, PerformFrame
  <2> QED BY <1>5, <1>6, <1>7, <2>1 DEF OneRevision
<1> QED BY <1>1, <1>8, <1>9

\* What is to do, and what is listed, are reserves of the market file.
LEMMA RestPart ==
  ASSUME proc.todo \in Seq(Symbols), NEW size \in Nat
  PROVE  ToSet(Rest(size)) \subseteq ToSet(proc.todo)
<1>1. ASSUME NEW k \in 1..Len(Rest(size)) PROVE Rest(size)[k] \in ToSet(proc.todo)
  <2>1. k + size \in 1..Len(proc.todo) /\ Rest(size)[k] = proc.todo[k + size]
    BY DEF Rest
  <2> QED BY <2>1 DEF ToSet
<1> QED BY <1>1 DEF ToSet

\* A step lists, and puts among what is to do, only reserves of the market file.
LEMMA PerformTokens ==
  ASSUME TypeOK, NEW s, NEW i, NEW ops, Sound(s, ops), Perform(s, i), proc.todo \in Seq(Symbols),
         s.op = "initReserves" => s.val \in Nat, s.op = "configureReserves" => s.val \in Nat,
         \A r \in Symbols : DOMAIN reserve[r] = DOMAIN NewReserve,
         Listed \cup ToSet(proc.todo) \subseteq ToSet(market.symbols)
  PROVE  Listed' \cup ToSet(proc'.todo) \subseteq ToSet(market.symbols)
<1>1. DOMAIN proc = {"queue", "pc", "todo", "any"}
  BY DEF TypeOK
<1>2. ToSet(proc'.todo) \subseteq ToSet(market.symbols)
  <2>1. CASE ListReserves(s, i) \/ ConfigureReserves(s, i)
    <3>1. s.val \in Nat
      BY <2>1 DEF ListReserves, ConfigureReserves
    <3>2. proc'.todo = Rest(s.val)
      BY <1>1, <2>1 DEF ListReserves, ConfigureReserves
    <3> QED BY <3>1, <3>2, RestPart
  <2>2. CASE AssignLocals(s, i)
    <3>1. proc'.todo = s.val.todo /\ s.op = "local"
      BY <1>1, <2>2 DEF AssignLocals
    <3> QED BY <3>1 DEF Sound
  <2>3. CASE proc'.todo = proc.todo
    BY <2>3
  <2>5. (\E j : proc' = [proc EXCEPT !.pc = j]) => proc'.todo = proc.todo
    BY <1>1
  <2> QED BY <2>1, <2>2, <2>3, <2>5, ProcMoves
<1>3. ASSUME NEW r \in Listed' PROVE r \in ToSet(market.symbols)
  <2>1. r \in Symbols /\ reserve'[r].listed
    BY DEF Listed
  <2>2. CASE reserve'[r].listed = reserve[r].listed
    BY <2>1, <2>2 DEF Listed
  <2>3. CASE s.op = "initReserves" /\ r \in ToSet(Chunk(s.val))
    BY <2>3, ChunkPart
  <2>4. \/ reserve'[r].listed = reserve[r].listed
        \/ s.op = "initReserves" /\ r \in ToSet(Chunk(s.val))
    <3>1. CASE s.op = "configure"
      BY <2>1, <3>1, PerformRevision DEF Revised
    <3>2. CASE s.op = "initReserves"
      BY <2>1, <3>2, PerformRevision DEF Revised
    <3>3. CASE s.op \notin {"configure", "initReserves"}
      BY <2>1, <3>3, PerformRevision DEF Revised
    <3> QED BY <3>1, <3>2, <3>3
  <2> QED BY <2>2, <2>3, <2>4
<1> QED BY <1>2, <1>3

\* The script that runs is in the queue, and what is left when it ends was.
LEMMA QueueHead ==
  ASSUME QueueInv, Running
  PROVE  /\ ThisScript \in ToSet(proc.queue)
         /\ ToSet(Tail(proc.queue)) \subseteq ToSet(proc.queue)
<1> DEFINE q == proc.queue
           t == Tail(q)
<1>1. q \in Seq(Scripts \cup TaskCommands) /\ q # <<>>
  BY DEF QueueInv, Running
<1>2. Head(q) = q[1] /\ 1 \in 1..Len(q)
  BY <1>1
<1>3. ASSUME NEW k \in 1..Len(t) PROVE t[k] \in ToSet(q)
  <2>1. k + 1 \in 1..Len(q) /\ t[k] = q[k + 1]
    BY <1>1
  <2> QED BY <2>1 DEF ToSet
<1> HIDE DEF q, t
<1> QED BY <1>2, <1>3 DEF ToSet, ThisScript, q, t

\* When the upgrade runs, the market has its configurator, its ACL and its reserves.
LEMMA UpgradeLate ==
  ASSUME TypeOK, ChainInv, QueueInv, ListedInv, RevisionInv,
         NEW task \in {Upgrade, Misnumbered}, At(task)
  PROVE  /\ GetPoolConfiguratorProxy \in records
         /\ "acl" \in executed /\ "acl" \notin ToSet(proc.queue)
         /\ FirstEdition \subseteq Listed /\ task \in market.commands
<1>1. Earlier \subseteq finished /\ "acl" \notin ToSet(proc.queue) /\ task \in market.commands
  <2>1. task \in ToSet(proc.queue)
    BY QueueHead DEF At
  <2> QED BY <2>1 DEF RevisionInv
<1>2. {"acl", "init_pool", "init_reserves"} \subseteq Earlier
  BY ScriptNames DEF Earlier
<1>3. FirstEdition \subseteq Listed
  <2>1. "init_reserves" \in finished
    BY <1>1, <1>2
  <2> QED BY <2>1, FirstReserves DEF ListedInv, ListedAsDeclared, Listed
<1> QED BY <1>1, <1>2, <1>3 DEF RevisionInv, ChainInv, RecordsFollowChain

\* A step that is performed keeps the invariant.
LEMMA PerformOne ==
  ASSUME DeploymentInv, DeploymentInv', ChainInv, HelperInv, QueueInv, ListedInv, RevisionInv,
         Running, handover = "none",
         NEW i \in proc.pc..Len(StepsOf(ThisScript)), Passed(StepsOf(ThisScript), i),
         ~Refused(StepsOf(ThisScript)[i]), Perform(StepsOf(ThisScript)[i], i),
         UNCHANGED <<market, executed, history>>
  PROVE  RevisionInv'
<1> DEFINE c == ThisScript
           s == StepsOf(c)[i]
<1>1. TypeOK /\ TypeOK' /\ proc.pc \in Nat \ {0} /\ proc.todo \in Seq(Symbols)
      /\ \A r \in Symbols : DOMAIN reserve[r] = DOMAIN NewReserve
  BY DEF DeploymentInv, ChainInv, ProcessInv, HelperInv
<1>2. i \in 1..Len(StepsOf(c)) /\ Sound(s, OpsOf(c))
  <2>1. Len(StepsOf(c)) \in Nat
    BY <1>1, StepsSound, SoundEach
  <2>2. i \in 1..Len(StepsOf(c))
    BY <1>1, <2>1
  <2> QED BY <1>1, <2>2, StepsSound, SoundEach
<1>3. /\ s.op = "initReserves" => s.val \in Nat
      /\ s.op = "configureReserves" => s.val \in Nat
  <2>1. ASSUME s.op \in {"initReserves", "configureReserves"} PROVE s.val \in Nat
    <3>1. c \in Listers
      BY <1>2, <2>1, OnlyListers DEF ListingOps
    <3>2. s.val = 3 \/ s.val = 20
      BY <1>1, <1>2, <2>1, <3>1, ListerStep
    <3> QED BY <3>2
  <2> QED BY <2>1
<1>4. proc'.queue = proc.queue /\ UNCHANGED <<finished, crashes, executed, market>>
  BY <1>1, PerformFrame DEF history
<1>5. c \in ToSet(proc.queue)
  BY QueueHead
<1>6. \A task : At(task)' <=> c = task
  BY <1>4 DEF At, Running, ThisScript
<1>7. (Listed \cup ToSet(proc.todo) \subseteq ToSet(market.symbols))'
  <2>1. Listed' \cup ToSet(proc'.todo) \subseteq ToSet(market.symbols)
    BY <1>1, <1>2, <1>3, PerformTokens DEF RevisionInv
  <2> QED BY <1>4, <2>1
<1>8. Listed \subseteq Listed'
  <2>1. ASSUME NEW r \in Listed PROVE r \in Listed'
    <3>1. r \in Symbols /\ reserve[r].listed
      BY DEF Listed
    <3>2. reserve'[r].listed = reserve[r].listed
      <4>1. CASE s.op = "initReserves"
        <5>1. r \notin ToSet(Chunk(s.val))
          BY <3>1, <4>1 DEF Refused
        <5> QED BY <1>1, <1>2, <3>1, <4>1, <5>1, PerformRevision DEF Revised
      <4>2. CASE s.op = "configure"
        BY <1>1, <1>2, <3>1, <4>2, PerformRevision DEF Revised
      <4>3. CASE s.op \notin {"initReserves", "configure"}
        BY <1>1, <1>2, <3>1, <4>3, PerformRevision DEF Revised
      <4> QED BY <4>1, <4>2, <4>3
    <3> QED BY <3>1, <3>2 DEF Listed
  <2> QED BY <2>1
<1>9. (NewToken \in records)' =>
        /\ "acl" \in executed /\ "acl" \notin ToSet(proc.queue)
        /\ FirstEdition \subseteq Listed
  <2>1. CASE c \in {Upgrade, Misnumbered}
    <3>1. At(c)
      BY DEF At
    <3> QED BY <1>1, <2>1, <3>1, UpgradeLate
  <2>2. CASE c \notin {Upgrade, Misnumbered}
    <3>1. "upgrade" \notin OpsOf(c)
      BY <2>2 DEF OpsOf, ListingOps, HandoverOps, Upgrade, Misnumbered
    <3>2. (NewToken \in records)' => NewToken \in records
      BY <1>2, <3>1, PerformNewToken
    <3> QED BY <3>2 DEF RevisionInv
  <2> QED BY <2>1, <2>2
<1>10. (Among => NewToken \in records)' /\ (crashes = 0 => OneRevision)'
  <2>1. CASE c = Upgrade
    <3>1. At(Upgrade) /\ At(Upgrade)'
      BY <1>6, <2>1 DEF At
    <3>2. GetPoolConfiguratorProxy \in records
      BY <1>1, <3>1, UpgradeLate
    <3>3. (GetPoolConfiguratorProxy \in records)'
      <4>1. GetPoolConfiguratorProxy[1] # "NativeYieldDistribute"
        BY DEF GetPoolConfiguratorProxy
      <4>2. GetPoolConfiguratorProxy' = GetPoolConfiguratorProxy
        BY DEF GetPoolConfiguratorProxy
      <4> QED BY <1>1, <3>2, <4>1, <4>2, PerformFrame
    <3>4. proc.pc > 2 => NewToken \in records
      BY <3>1 DEF RevisionInv, Among
    <3>5. Listed \subseteq ToSet(market.symbols) /\ (Among => NewToken \in records)
      BY DEF RevisionInv
    <3>6. proc'.pc > 2 => NewToken \in records'
      BY <1>1, <2>1, <3>4, <3>5, UpgradeRecords
    <3>7. ASSUME crashes = 0 PROVE OneRevision'
      <4>1. OneRevision
        BY <3>7 DEF RevisionInv
      <4> HIDE DEF s
      <4> QED BY <1>1, <1>4, <2>1, <3>1, <3>2, <3>3, <3>5, <4>1, PerformUpgrade DEF s
    <3>8. (Among => NewToken \in records)'
      BY <3>6 DEF Among, NewToken
    <3> QED BY <1>4, <3>7, <3>8
  <2>2. CASE c # Upgrade
    <3>1. ~Among' /\ (Among => NewToken \in records)'
      BY <1>6, <2>2 DEF Among
    <3>2. ~Upgrading
      BY <2>2 DEF Upgrading, At
    <3>3. ASSUME crashes = 0 PROVE OneRevision'
      <4>1. OneRevision
        BY <3>3 DEF RevisionInv
      <4>2. CASE c = Misnumbered
        <5>1. At(Misnumbered)
          BY <4>2 DEF At
        <5>2. MayMisnumber
          BY <1>1, <5>1, UpgradeLate DEF MayMisnumber
        <5> HIDE DEF s
        <5> QED BY <1>1, <1>2, <1>4, <3>1, <3>2, <4>1, <4>2, <5>1, <5>2, PerformMisnumbered DEF s
      <4>3. CASE c # Misnumbered
        <5>1. NewToken \in records => c # "acl" /\ FirstEdition \subseteq Listed
          BY <1>5 DEF RevisionInv
        <5>2. Listed' \subseteq ToSet(market.symbols)
          BY <1>4, <1>7
        <5> HIDE DEF c, s
        <5> QED BY <1>1, <1>2, <1>4, <2>2, <3>1, <3>2, <4>1, <4>3, <5>1, <5>2, PerformOthers DEF c, s
      <4> QED BY <4>2, <4>3
    <3> QED BY <1>4, <3>1, <3>3
  <2> QED BY <2>1, <2>2
<1>11. FirstEdition' = FirstEdition
  BY <1>4 DEF FirstEdition
<1> HIDE DEF c, s
<1> QED BY <1>4, <1>7, <1>8, <1>9, <1>10, <1>11
        DEF RevisionInv, Earlier, Upgrade, Misnumbered

\* Among the upgrades the process neither ends nor stops.
LEMMA UpgradeRuns ==
  ASSUME TypeOK, ChainInv, QueueInv, ListedInv, RevisionInv, Upgrading
  PROVE  /\ ~Passed(StepsOf(Upgrade), Len(StepsOf(Upgrade)) + 1)
         /\ ~\E i \in proc.pc..Len(StepsOf(Upgrade)) :
              /\ Passed(StepsOf(Upgrade), i)
              /\ StepsOf(Upgrade)[i].needs => Refused(StepsOf(Upgrade)[i])
<1>1. /\ Listed \subseteq ToSet(market.symbols) /\ proc.pc \in Nat \ {0} /\ At(Upgrade)
      /\ Deployer \in acl["POOL_ADMIN"] /\ Len(StepsOf(Upgrade)) \in Nat
      /\ proc.pc <= Len(TokenSteps) + 2
  BY UpgradeShape DEF RevisionInv, ChainInv, ProcessInv, Upgrading
<1>2. PICK x \in Leading : /\ StepsOf(Upgrade)[proc.pc] = UpgradeStep(x)
                           /\ reserve[x].revision = 1
                           /\ proc.pc <= Len(StepsOf(Upgrade))
  BY <1>1, UpgradeNext
<1>3. UpgradeStep(x).needs /\ ~Refused(UpgradeStep(x))
  <2>1. /\ UpgradeStep(x).op = "configure" /\ UpgradeStep(x).val = 2
        /\ UpgradeStep(x).id[1] = "revision" /\ UpgradeStep(x).id[2] = x
        /\ UpgradeStep(x).needs <=> Recorded({GetPoolConfiguratorProxy})
    BY DEF UpgradeStep, Configure, Step
  <2>2. UpgradeStep(x).needs
    BY <1>1, <2>1, UpgradeLate DEF Recorded
  <2>3. MayConfigure("revision", x, 2)
    <3>1. reserve[x].listed /\ 2 > reserve[x].revision
      BY <1>2, SameGroups DEF Listed
    <3>2. "revision" # "stable" /\ "revision" # "borrowing" /\ "revision" # "ceiling"
      OBVIOUS
    <3> QED BY <1>1, <3>1, <3>2, Zenon DEF MayConfigure, DeployerMay
  <2>4. ~Refused(UpgradeStep(x))
    BY <2>1, <2>3 DEF Refused
  <2> QED BY <2>2, <2>4
<1>4. ~Passed(StepsOf(Upgrade), Len(StepsOf(Upgrade)) + 1)
  <2> SUFFICES ASSUME Passed(StepsOf(Upgrade), Len(StepsOf(Upgrade)) + 1) PROVE FALSE
    OBVIOUS
  <2> DEFINE l == Len(StepsOf(Upgrade))
  <2>1. l \in Nat /\ l + 1 \in Nat /\ proc.pc <= l + 1 /\ l + 1 # proc.pc
    BY <1>1, <1>2
  <2>2. l + 1 = proc.pc
    BY <1>1, <2>1, UpgradeDue
  <2> QED BY <2>1, <2>2
<1>5. ASSUME NEW i \in proc.pc..Len(StepsOf(Upgrade)), Passed(StepsOf(Upgrade), i),
             StepsOf(Upgrade)[i].needs => Refused(StepsOf(Upgrade)[i])
      PROVE  FALSE
  <2>1. i = proc.pc
    BY <1>1, <1>5, UpgradeDue
  <2> QED BY <1>2, <1>3, <1>5, <2>1
<1> QED BY <1>4, <1>5

\* The names of the invariant do not move.
LEMMA NamesKept ==
  Upgrade' = Upgrade /\ Misnumbered' = Misnumbered /\ NewToken' = NewToken /\ Earlier' = Earlier
BY DEF Upgrade, Misnumbered, NewToken, Earlier

\* A step that lists, records and upgrades nothing keeps the invariant: what it has
\* in the queue was there, or is a command that comes after the upgrade is allowed.
LEMMA RevisionStays ==
  ASSUME RevisionInv, ~Upgrading, UNCHANGED records,
         \A r \in Symbols : Revised(r), UNCHANGED <<market, acl>>,
         proc'.pc = 1, proc'.todo = <<>>, finished \subseteq finished', executed \subseteq executed',
         "acl" \in finished' => "acl" \in executed',
         crashes' = 0 => crashes = 0,
         \A task \in {Upgrade, Misnumbered} \cap ToSet(proc'.queue) :
           Earlier \subseteq finished' /\ "acl" \notin ToSet(proc'.queue) /\ task \in market.commands,
         "acl" \in ToSet(proc'.queue) => "acl" \in ToSet(proc.queue) \/ "acl" \notin executed
  PROVE  RevisionInv'
<1>1. Listed' = Listed /\ FirstEdition' = FirstEdition
  BY DEF Listed, Revised, FirstEdition
<1>2. ToSet(proc'.todo) = {}
  BY DEF ToSet
<1>3. ~Among'
  BY DEF Among
<1>4. (crashes = 0 => OneRevision)'
  <2>1. ASSUME crashes' = 0 PROVE OneRevision'
    <3>1. OneRevision
      BY <2>1 DEF RevisionInv
    <3>2. NewToken \in records' <=> NewToken \in records
      OBVIOUS
    <3> QED BY <1>3, <3>1, <3>2, OneKept
  <2> QED BY <2>1
<1> QED BY <1>1, <1>2, <1>3, <1>4, NamesKept DEF RevisionInv

\* A script that ends, or stops, does.
LEMMA ScriptStepRevision ==
  ASSUME DeploymentInv, DeploymentInv', ChainInv, HelperInv, QueueInv, ListedInv, RevisionInv,
         ScriptStep
  PROVE  RevisionInv'
<1>1. TypeOK /\ Running /\ handover = "none" /\ proc.pc \in Nat \ {0}
  BY DEF ScriptStep, DeploymentInv, ChainInv, ProcessInv
<1>2. Upgrading => ThisScript = Upgrade
  BY DEF Upgrading, At
<1>3. CASE Passed(StepsOf(ThisScript), Len(StepsOf(ThisScript)) + 1) /\ EndScript
  <2>1. ~Upgrading
    BY <1>1, <1>2, <1>3, UpgradeRuns
  <2>2. /\ UNCHANGED <<market, records, acl, reserve, crashes>>
        /\ proc'.pc = 1 /\ proc'.todo = <<>> /\ proc'.queue = Tail(proc.queue)
        /\ finished' = finished \cup ({ThisScript} \cap Scripts)
        /\ executed' = IF ReturnsTrue(ThisScript) THEN executed \cup {ThisScript} ELSE executed
    BY <1>3 DEF EndScript, chain, Idle
  <2>3. "acl" \in finished' => "acl" \in executed'
    <3>1. CASE "acl" \in finished
      BY <2>2, <3>1 DEF RevisionInv
    <3>2. CASE ThisScript = "acl"
      <4>1. ReturnsTrue(ThisScript)
        BY <3>2 DEF ReturnsTrue
      <4> QED BY <2>2, <3>2, <4>1
    <3> QED BY <2>2, <3>1, <3>2
  <2>4. ToSet(proc'.queue) \subseteq ToSet(proc.queue)
    BY <1>1, <2>2, QueueHead
  <2>5. \A r \in Symbols : Revised(r)
    BY <2>2 DEF Revised
  <2>6. finished \subseteq finished' /\ executed \subseteq executed'
    BY <2>2
  <2>7. \A task \in {Upgrade, Misnumbered} \cap ToSet(proc'.queue) :
          Earlier \subseteq finished' /\ "acl" \notin ToSet(proc'.queue) /\ task \in market.commands
    BY <2>4, <2>6 DEF RevisionInv
  <2> QED BY <2>1, <2>2, <2>3, <2>4, <2>5, <2>6, <2>7, RevisionStays
<1>4. CASE /\ Stopped /\ UNCHANGED <<records, chain, market, executed, history>>
           /\ \E i \in proc.pc..Len(StepsOf(ThisScript)) :
                /\ Passed(StepsOf(ThisScript), i)
                /\ StepsOf(ThisScript)[i].needs => Refused(StepsOf(ThisScript)[i])
  <2>1. ~Upgrading
    BY <1>1, <1>2, <1>4, UpgradeRuns
  <2>2. /\ UNCHANGED <<market, records, acl, reserve, crashes, finished, executed>>
        /\ proc'.pc = 1 /\ proc'.todo = <<>> /\ proc'.queue = <<>>
    BY <1>4 DEF Stopped, chain, history, Idle
  <2>3. ToSet(proc'.queue) = {}
    BY <2>2 DEF ToSet
  <2>4. \A r \in Symbols : Revised(r)
    BY <2>2 DEF Revised
  <2>5. "acl" \in finished' => "acl" \in executed'
    BY <2>2 DEF RevisionInv
  <2> QED BY <2>1, <2>2, <2>3, <2>4, <2>5, RevisionStays
<1>5. ASSUME NEW i \in proc.pc..Len(StepsOf(ThisScript)), Passed(StepsOf(ThisScript), i),
             ~Refused(StepsOf(ThisScript)[i]), Perform(StepsOf(ThisScript)[i], i),
             UNCHANGED <<market, executed, history>>
      PROVE  RevisionInv'
  BY <1>1, <1>5, PerformOne
<1> QED BY <1>1, <1>3, <1>4, <1>5, ScriptStepCases

\* The handover makes nobody but the multisig an admin of the pool.
LEMMA HandoverStepRevision ==
  ASSUME DeploymentInv, ChainInv, QueueInv, RevisionInv, HandoverStep
  PROVE  RevisionInv'
<1>1. TypeOK /\ DOMAIN acl = Roles
  BY DEF DeploymentInv, TypeOK
<1>2. /\ UNCHANGED <<market, records, executed, reserve, finished, crashes>>
      /\ proc' = proc \/ proc' = [proc EXCEPT !.pc = @ + 1]
      /\ handover # "none"
  BY DEF HandoverStep, TransferAdapters, TransferAdmins, TransferACLAdmin, TransferContracts,
         TransferDefaultAdmin, HandOver, GiveRole, TakeRole, history, disk
<1>3. proc'.queue = proc.queue /\ proc'.todo = proc.todo
  BY <1>1, <1>2 DEF TypeOK
<1>4. ~At(Upgrade) /\ ~At(Upgrade)'
  <2>1. ThisScript # Upgrade
    BY <1>2 DEF ChainInv, ProcessInv, OpsOf, Upgrade
  <2> QED BY <1>3, <2>1 DEF At, ThisScript
<1>5. Deployer \notin acl["POOL_ADMIN"] => Deployer \notin acl'["POOL_ADMIN"]
  <2>1. market.multisig # Deployer
    BY <1>1, MarketMultisig, AccountsAssumption
  <2>2. ASSUME NEW role, NEW take, NEW next, GiveRole(role, take, next) \/ TakeRole(role, next)
        PROVE  Deployer \notin acl["POOL_ADMIN"] => Deployer \notin acl'["POOL_ADMIN"]
    <3>1. \/ UNCHANGED acl \/ acl' = [acl EXCEPT ![role] = @ \cup {market.multisig}]
          \/ acl' = [acl EXCEPT ![role] = @ \ {Deployer}]
      BY <2>2 DEF GiveRole, TakeRole
    <3>2. "POOL_ADMIN" \in DOMAIN acl
      BY <1>1 DEF Roles
    <3> QED BY <2>1, <3>1, <3>2
  <2>3. CASE TransferAdmins \/ TransferDefaultAdmin
    BY <2>2, <2>3 DEF TransferAdmins, TransferDefaultAdmin
  <2>4. CASE ~(TransferAdmins \/ TransferDefaultAdmin)
    BY <2>4 DEF HandoverStep, TransferAdapters, TransferACLAdmin, TransferContracts, HandOver
  <2> QED BY <2>3, <2>4
<1>6. \A r \in Symbols : Revised(r)
  BY <1>2 DEF Revised
<1>7. ~Among'
  BY <1>4 DEF Among
<1>8. (crashes = 0 => OneRevision)'
  <2>1. ASSUME crashes = 0 PROVE OneRevision'
    <3>1. OneRevision /\ ~Upgrading
      BY <1>4, <2>1 DEF RevisionInv, Upgrading
    <3>2. NewToken \in records' <=> NewToken \in records
      BY <1>2
    <3> QED BY <1>2, <1>5, <1>6, <1>7, <3>1, <3>2, OneKept
  <2> QED BY <1>2, <2>1
<1>9. Listed' = Listed /\ FirstEdition' = FirstEdition
  BY <1>2 DEF Listed, FirstEdition
<1> QED BY <1>2, <1>3, <1>7, <1>8, <1>9, NamesKept DEF RevisionInv

\* A user's visit changes nothing that the invariant is about.
LEMMA VisitRevision ==
  ASSUME DeploymentInv, ChainInv, HelperInv, QueueInv, ListedInv, RevisionInv, NEW x, Visit(x)
  PROVE  RevisionInv'
<1>1. /\ UNCHANGED <<market, records, executed, acl, finished, crashes, proc>> /\ TypeOK
      /\ \E v \in {"some", "left"} : reserve' = [reserve EXCEPT ![x].suppliers = v]
      /\ DOMAIN reserve = Symbols
  BY VisitOnly DEF DeploymentInv, TypeOK
<1>2. \A r \in Symbols : Revised(r)
  <2>1. \A r \in Symbols : {"suppliers", "listed", "revision"} \subseteq DOMAIN reserve[r]
    BY DEF HelperInv, NewReserve
  <2> QED BY <1>1, <2>1 DEF Revised
<1>3. Listed' = Listed /\ FirstEdition' = FirstEdition
  BY <1>1, <1>2 DEF Listed, Revised, FirstEdition
<1>5. (At(Upgrade)' <=> At(Upgrade)) /\ (Among' <=> Among)
  BY <1>1 DEF At, Running, ThisScript, Among, Upgrade
<1>6. ASSUME crashes = 0 PROVE OneRevision'
  <2>1. OneRevision
    BY <1>6 DEF RevisionInv
  <2>2. CASE ~Upgrading
    BY <1>1, <1>2, <1>5, <2>1, <2>2, OneKept
  <2>3. CASE Upgrading
    <3>1. At(Upgrade) /\ GetPoolConfiguratorProxy \in records /\ NewToken \in records
      <4>1. At(Upgrade) /\ Among
        BY <1>1, <2>3, UpgradeShape DEF Upgrading, RevisionInv, Among
      <4> QED BY <1>1, <4>1, UpgradeLate DEF RevisionInv
    <3>2. (GetPoolConfiguratorProxy \in records)'
      BY <1>1, <3>1 DEF GetPoolConfiguratorProxy
    <3>3. TokenSteps' = TokenSteps /\ \A n : Pending(n)' = Pending(n)
      BY <1>1, <1>3, <3>1, <3>2, TokenStepsStay
    <3>4. PICK m : m = proc.pc
      OBVIOUS
    <3>5. Pending(proc.pc)' = Pending(m)'
      BY <1>1, <3>4 DEF Pending
    <3>6. Pending(proc.pc)' = Pending(proc.pc)
      BY <3>3, <3>4, <3>5
    <3>7. Leading' = Leading /\ Leading \subseteq Symbols
      BY <1>1, <1>3, SameGroups
    <3>8. (\A s \in Leading : reserve[s].revision = IF s \in Pending(proc.pc) THEN 1 ELSE 2)'
      BY <1>2, <2>3, <3>6, <3>7 DEF Upgrading, Revised
    <3>9. Upgrading'
      BY <1>1, <1>5, <2>3, <3>3, <3>8 DEF Upgrading
    <3> QED BY <1>1, <3>1, <3>9 DEF OneRevision, NewToken
  <2> QED BY <2>2, <2>3
<1> QED BY <1>1, <1>3, NamesKept, <1>5, <1>6 DEF RevisionInv

\* Every step keeps the invariant.
LEMMA NextRevision ==
  ASSUME DeploymentInv, DeploymentInv', ChainInv, HelperInv, QueueInv, ListedInv, RevisionInv,
         [Next]_vars
  PROVE  RevisionInv'
<1>1. TypeOK
  BY DEF DeploymentInv
<1>2. CASE ProcessStep
  BY <1>2, ScriptStepRevision, HandoverStepRevision DEF ProcessStep
<1>3. ASSUME NEW scripts, Begin(scripts),
             \A task \in {Upgrade, Misnumbered} \cap ToSet(scripts) :
               Earlier \subseteq finished /\ "acl" \notin ToSet(scripts) /\ task \in market.commands,
             "acl" \in ToSet(scripts) => "acl" \notin executed
      PROVE  RevisionInv'
  <2>1. /\ UNCHANGED <<market, records, executed, acl, reserve, finished, crashes>> /\ ~Running
        /\ proc'.pc = 1 /\ proc'.todo = <<>> /\ proc'.queue = scripts
    BY <1>3 DEF Begin, disk, chain, history, Idle
  <2>2. ~Upgrading
    BY <2>1 DEF Upgrading, At
  <2>3. \A r \in Symbols : Revised(r)
    BY <2>1 DEF Revised
  <2>4. "acl" \in finished' => "acl" \in executed'
    BY <2>1 DEF RevisionInv
  <2> QED BY <1>3, <2>1, <2>2, <2>3, <2>4, RevisionStays
<1>4. ASSUME NEW command \in DeployCommands, Deploying(command) PROVE RevisionInv'
  <2>1. ToSet(ToRun(command)) \subseteq Scripts \ executed
    BY ToRunApart
  <2>2. Upgrade \notin Scripts /\ Misnumbered \notin Scripts
    BY ScriptNames DEF Upgrade, Misnumbered
  <2> QED BY <1>3, <1>4, <2>1, <2>2 DEF Deploying
<1>5. ASSUME NEW task \in TaskCommands, RunTask(task) PROVE RevisionInv'
  <2>1. ToSet(<<task>>) = {task}
    BY DEF ToSet
  <2>2. task # "acl"
    <3>1. "acl" \in Scripts
      BY ScriptNames
    <3> QED BY <3>1, TasksAssumption
  <2>3. Begin(<<task>>) /\ Earlier \subseteq finished /\ task \in market.commands
    BY <1>5 DEF RunTask, Earlier
  <2> QED BY <1>3, <2>1, <2>2, <2>3
<1>6. CASE Crash
  <2>1. /\ UNCHANGED <<market, records, executed, acl, reserve, finished>> /\ crashes' # 0
        /\ proc'.pc = 1 /\ proc'.todo = <<>> /\ proc'.queue = <<>>
    BY <1>1, <1>6, MaxCrashesAssumption DEF Crash, disk, chain, Stopped, Idle, TypeOK
  <2>2. ToSet(proc'.queue) = {} /\ ToSet(proc'.todo) = {} /\ Listed' = Listed /\ ~Among'
        /\ FirstEdition' = FirstEdition /\ NewToken' = NewToken
    BY <2>1 DEF ToSet, Listed, Among, FirstEdition, NewToken
  <2> QED BY <2>1, <2>2 DEF RevisionInv
<1>7. ASSUME NEW x, Visit(x) PROVE RevisionInv'
  BY <1>7, VisitRevision
<1>8. CASE MarketFileGrows
  <2>1. /\ UNCHANGED <<records, executed, acl, reserve, finished, crashes, proc>> /\ ~Running
        /\ market' = [market EXCEPT !.extended = TRUE]
    BY <1>8 DEF MarketFileGrows, disk, chain, history, Complete
  <2>2. {"symbols", "later", "extended", "params", "commands"} \subseteq DOMAIN market
    BY <1>1, MarketReserves
  <2>3. /\ market'.symbols = market.symbols /\ market'.later = market.later
        /\ market'.params = market.params /\ market'.commands = market.commands
    BY <2>1, <2>2
  <2>4. Listed' = Listed /\ FirstEdition' = FirstEdition /\ ~Upgrading /\ ~Among'
    BY <2>1, <2>3 DEF Listed, FirstEdition, Upgrading, Among, At, Running
  <2>5. \A r \in Symbols : Revised(r)
    BY <2>1 DEF Revised
  <2>6. (crashes = 0 => OneRevision)'
    <3>1. ASSUME crashes = 0 PROVE OneRevision'
      <4>1. OneRevision
        BY <3>1 DEF RevisionInv
      <4> QED BY <2>1, <2>3, <2>4, <2>5, <4>1, OneKept
    <3> QED BY <2>1, <3>1
  <2> QED BY <2>1, <2>3, <2>4, <2>6, NamesKept DEF RevisionInv
<1>9. CASE UNCHANGED vars
  <2>1. UNCHANGED <<market, records, executed, acl, reserve, finished, crashes, proc>>
    BY <1>9 DEF vars, disk, chain, history
  <2>2. /\ Listed' = Listed /\ At(Upgrade)' = At(Upgrade) /\ Among' = Among
        /\ Leading' = Leading /\ Alike' = Alike /\ MayMisnumber' = MayMisnumber
        /\ FirstEdition' = FirstEdition
    <3>1. Listed' = Listed
      BY <2>1 DEF Listed
    <3> QED BY <2>1, <3>1, SameGroups DEF At, Running, ThisScript, Among, FirstEdition, Upgrade
  <2>3. Pending(proc.pc)' = Pending(proc.pc) /\ TokenSteps' = TokenSteps
    BY <2>1, <2>2 DEF AllSteps, TokenSteps, StepsFor, UpgradeStep, Configure, Step, Recorded,
         GetPoolConfiguratorProxy, Pending, If
  <2>4. OneRevision' = OneRevision
    BY <2>1, <2>2, <2>3 DEF OneRevision, Upgrading, AllAt, NewToken
  <2> QED BY <2>1, <2>2, <2>4, NamesKept DEF RevisionInv
<1> QED BY <1>2, <1>4, <1>5, <1>6, <1>7, <1>8, <1>9 DEF Next, Visit

\* Nothing is listed or recorded yet.
LEMMA InitRevision == Init => RevisionInv
<1> SUFFICES ASSUME Init PROVE RevisionInv
  OBVIOUS
<1>1. Listed = {} /\ NewToken \notin records
  BY DEF Init, NewReserve, Listed, NewToken
<1>2. ToSet(proc.todo) = {} /\ ToSet(proc.queue) = {} /\ ~At(Upgrade) /\ finished = {}
  BY DEF Init, Idle, ToSet, At, Running
<1>3. OneRevision
  BY <1>1 DEF OneRevision, AllAt, Leading
<1> QED BY <1>1, <1>2, <1>3 DEF RevisionInv, Among

\* Without a crash, whenever no command is running, two reserves have different
\* implementations of their aToken only where one of them was added later and is a
\* delegation-aware aToken, which gets the record that no upgrade renews, or where
\* the market's operator may run an upgrade that asks for another revision and one
\* of them was added later: for market files whose aTokens the helper knows.
THEOREM OneImplementation ==
  ASSUME KnownTokens
  PROVE  Spec => []UniformRevision
<1>1. ChainInv /\ DeploymentInv /\ [Next]_vars => ChainInv'
  BY NextChain
<1>2. DeploymentInv /\ ChainInv /\ HelperInv /\ [Next]_vars => HelperInv'
  BY NextHelper DEF ChainInv
<1>3. DeploymentInv /\ ChainInv /\ QueueInv /\ [Next]_vars => QueueInv'
  BY NextQueue DEF ChainInv
<1>4. DeploymentInv /\ ChainInv /\ HelperInv /\ ListedInv /\ [Next]_vars => ListedInv'
  BY NextListed DEF ChainInv
<1>5. DeploymentInv /\ DeploymentInv' /\ ChainInv /\ HelperInv /\ QueueInv /\ ListedInv
        /\ RevisionInv /\ [Next]_vars => RevisionInv'
  BY NextRevision
<1>6. RevisionInv => UniformRevision
  <2> SUFFICES ASSUME RevisionInv, ~Running, crashes = 0, NEW r \in Listed, NEW s \in Listed,
                      ~MayDiffer(r), ~MayDiffer(s)
               PROVE  reserve[r].revision = reserve[s].revision
    BY DEF UniformRevision
  <2>1. AllAt(Leading, 1) \/ AllAt(Alike, 2)
    BY DEF RevisionInv, OneRevision, Upgrading, At
  <2>2. {r, s} \subseteq Alike /\ {r, s} \subseteq Leading
    BY SameGroups DEF Alike
  <2> QED BY <2>1, <2>2 DEF AllAt
<1> QED
  BY DeploymentCorrect, InitChain, InitHelper, InitQueue, InitListed, InitRevision,
     <1>1, <1>2, <1>3, <1>4, <1>5, <1>6, PTL DEF Spec

---------------------------------------------------------------------------
(* What the set-up and the distributors apply *)

\* An outline has an entry for each step.
LEMMA OutlineSeq ==
  ASSUME NEW S, NEW seq \in Seq(S)
  PROVE  /\ Outline(seq) \in Seq({About(x) : x \in S})
         /\ Len(Outline(seq)) = Len(seq)
         /\ \A k \in 1..Len(seq) : Outline(seq)[k] = About(seq[k])
<1>1. Len(seq) \in Nat /\ \A k \in 1..Len(seq) : seq[k] \in S
  OBVIOUS
<1>2. \A k \in 1..Len(seq) : About(seq[k]) \in {About(x) : x \in S}
  BY <1>1
<1> DEFINE T == {About(x) : x \in S}
<1> HIDE DEF T
<1>3. Outline(seq) \in [1..Len(seq) -> T]
  BY <1>2 DEF Outline, T
<1>4. Outline(seq) \in Seq(T) /\ Len(Outline(seq)) = Len(seq)
  BY <1>1, <1>3
<1> QED BY <1>4 DEF Outline, T

\* The outline of two sequences, one after the other.
LEMMA OutlineBoth ==
  ASSUME NEW S, NEW s \in Seq(S), NEW t \in Seq(S)
  PROVE  Outline(s \o t) = Outline(s) \o Outline(t)
<1> DEFINE T == {About(x) : x \in S}
           st == s \o t
           a == Outline(s)
           b == Outline(t)
           c == Outline(st)
<1>1. /\ st \in Seq(S) /\ Len(st) = Len(s) + Len(t)
      /\ \A i \in 1..Len(s) : st[i] = s[i]
      /\ \A i \in 1..Len(t) : st[Len(s) + i] = t[i]
  BY Joined, JoinedLength
<1> HIDE DEF st
<1>2. /\ a \in Seq(T) /\ Len(a) = Len(s) /\ \A k \in 1..Len(s) : a[k] = About(s[k])
      /\ b \in Seq(T) /\ Len(b) = Len(t) /\ \A k \in 1..Len(t) : b[k] = About(t[k])
      /\ c \in Seq(T) /\ Len(c) = Len(st) /\ \A k \in 1..Len(st) : c[k] = About(st[k])
  BY <1>1, OutlineSeq
<1> HIDE DEF a, b, c, T
<1>3. /\ a \o b \in Seq(T) /\ Len(a \o b) = Len(a) + Len(b)
      /\ \A i \in 1..Len(a) : (a \o b)[i] = a[i]
      /\ \A i \in 1..Len(b) : (a \o b)[Len(a) + i] = b[i]
  <2>1. a \in Seq(T) /\ b \in Seq(T)
    BY <1>2
  <2>2. a \o b \in Seq(T) /\ Len(a \o b) = Len(a) + Len(b)
    BY <2>1, JoinedLength
  <2> QED BY <2>1, <2>2, Joined
<1> DEFINE d == a \o b
<1>4. /\ d \in Seq(T) /\ Len(d) = Len(a) + Len(b)
      /\ \A i \in 1..Len(a) : d[i] = a[i]
      /\ \A i \in 1..Len(b) : d[Len(a) + i] = b[i]
  BY <1>3
<1> HIDE DEF d
<1>5. ASSUME NEW k \in 1..Len(c) PROVE c[k] = d[k]
  <2>1. CASE k <= Len(s)
    <3>1. k \in 1..Len(s) /\ k \in 1..Len(a) /\ k \in 1..Len(st)
      BY <1>2, <1>5, <2>1
    <3>2. c[k] = About(st[k]) /\ st[k] = s[k] /\ d[k] = a[k] /\ a[k] = About(s[k])
      BY <1>1, <1>2, <1>4, <3>1
    <3> QED BY <3>2
  <2>2. CASE k > Len(s)
    <3> DEFINE j == k - Len(s)
    <3>1. j \in 1..Len(t) /\ j \in 1..Len(b) /\ Len(s) + j = k /\ Len(a) + j = k
          /\ k \in 1..Len(st)
      BY <1>1, <1>2, <1>5, <2>2
    <3> HIDE DEF j
    <3>2. c[k] = About(st[k]) /\ st[Len(s) + j] = t[j] /\ d[Len(a) + j] = b[j]
          /\ b[j] = About(t[j])
      BY <1>1, <1>2, <1>4, <3>1
    <3> QED BY <3>1, <3>2
  <2> QED BY <2>1, <2>2
<1>6. Len(c) = Len(d) /\ Len(c) \in Nat
  BY <1>1, <1>2, <1>4
<1>7. c = d
  BY <1>2, <1>4, <1>5, <1>6
<1> QED BY <1>7 DEF c, d, a, b, st

\* The outline of sequences, one after another.
LEMMA OutlineFlat ==
  ASSUME NEW n \in Nat, NEW S, NEW parts \in [1..n -> Seq(S)]
  PROVE  Outline(FlattenSeq(parts)) = FlattenSeq([i \in 1..n |-> Outline(parts[i])])
<1> DEFINE T == {About(x) : x \in S}
           outlines == [i \in 1..n |-> Outline(parts[i])]
<1>1. outlines \in [1..n -> Seq(T)] /\ \A i \in 1..n : outlines[i] = Outline(parts[i])
  <2>1. \A i \in 1..n : Outline(parts[i]) \in Seq(T)
    BY OutlineSeq
  <2> HIDE DEF T
  <2> QED BY <2>1
<1> HIDE DEF outlines, T
<1>2. DOMAIN parts = 1..n /\ Len(parts) = n /\ DOMAIN outlines = 1..n /\ Len(outlines) = n
  BY <1>1
<1>3. CASE n = 0
  <2>1. parts = <<>> /\ outlines = <<>>
    BY <1>1, <1>2, <1>3
  <2>2. Outline(<<>>) = <<>>
    BY DEF Outline
  <2>3. FlattenSeq(parts) = parts /\ FlattenSeq(outlines) = outlines
    BY <1>2, <1>3, FlattenEquations
  <2> QED BY <2>1, <2>2, <2>3 DEF outlines
<1>4. CASE n # 0
  <2>1. PICK f : Flattens(f, parts, n) /\ FlattenSeq(parts) = f[n]
    BY <1>2, <1>4, FlattenEquations
  <2>2. PICK g : Flattens(g, outlines, n) /\ FlattenSeq(outlines) = g[n]
    BY <1>2, <1>4, FlattenEquations
  <2> DEFINE Good(m) == f[m] \in Seq(S) /\ g[m] = Outline(f[m])
             Bad == {m \in 1..n : ~Good(m)}
  <2>3. ASSUME NEW m \in Bad, \A k \in Bad : m <= k PROVE FALSE
    <3>1. /\ f[m] = IF m = 1 THEN parts[m] ELSE f[m - 1] \o parts[m]
          /\ g[m] = IF m = 1 THEN outlines[m] ELSE g[m - 1] \o outlines[m]
      BY <2>1, <2>2 DEF Flattens
    <3>2. parts[m] \in Seq(S) /\ outlines[m] = Outline(parts[m])
      BY <1>1
    <3>3. CASE m = 1
      BY <3>1, <3>2, <3>3
    <3>4. CASE m # 1
      <4>1. m - 1 \in 1..n /\ ~(m <= m - 1)
        BY <3>4
      <4>2. Good(m - 1)
        BY <2>3, <4>1
      <4> DEFINE p == f[m - 1]
                 x == parts[m]
      <4>3. p \in Seq(S) /\ x \in Seq(S)
        BY <3>2, <4>2
      <4>4. f[m] = p \o x /\ g[m] = Outline(p) \o Outline(x)
        BY <3>1, <3>2, <3>4, <4>2
      <4> HIDE DEF p, x
      <4>5. p \o x \in Seq(S) /\ Outline(p \o x) = Outline(p) \o Outline(x)
        BY <4>3, OutlineBoth, JoinedLength
      <4> QED BY <4>4, <4>5
    <3> QED BY <3>3, <3>4
  <2>4. Bad = {}
    <3>1. Bad \subseteq Nat
      OBVIOUS
    <3> HIDE DEF Bad
    <3> QED BY <2>3, <3>1, LeastNatural
  <2>5. n \in 1..n
    BY <1>4
  <2>6. Good(n)
    BY <2>4, <2>5
  <2> QED BY <2>1, <2>2, <2>6 DEF outlines
<1> QED BY <1>3, <1>4

\* The same, of sound steps.
LEMMA OutlineJoined ==
  ASSUME NEW s, NEW t, NEW ops, SoundSteps(s, ops), SoundSteps(t, ops)
  PROVE  Outline(s \o t) = Outline(s) \o Outline(t)
<1>1. PICK S : s \in Seq(S)
  BY DEF SoundSteps
<1>2. PICK T : t \in Seq(T)
  BY DEF SoundSteps
<1>3. s \in Seq(S \cup T) /\ t \in Seq(S \cup T)
  BY <1>1, <1>2
<1> QED BY <1>3, OutlineBoth

\* And of parts.
LEMMA OutlineParts ==
  ASSUME NEW n \in Nat, NEW parts, NEW ops, parts = [i \in 1..n |-> parts[i]],
         \A i \in 1..n : SoundSteps(parts[i], ops)
  PROVE  Outline(FlattenSeq(parts)) = FlattenSeq([i \in 1..n |-> Outline(parts[i])])
<1> DEFINE S == UNION {{parts[i][j] : j \in 1..Len(parts[i])} : i \in 1..n}
<1>1. ASSUME NEW i \in 1..n PROVE parts[i] \in Seq(S)
  <2>1. PICK T : parts[i] \in Seq(T)
    BY DEF SoundSteps
  <2>2. \A j \in 1..Len(parts[i]) : parts[i][j] \in S
    OBVIOUS
  <2> HIDE DEF S
  <2> QED BY <2>1, <2>2
<1> HIDE DEF S
<1>2. parts \in [1..n -> Seq(S)]
  BY <1>1
<1> QED BY <1>2, OutlineFlat

\* Its outline.
LEMMA OutlineChosen ==
  ASSUME NEW seq, NEW T, NEW group, NEW ops, AllSound(Len(seq), group, ops)
  PROVE  /\ SoundSteps(Chosen(seq, T, group), ops)
         /\ Outline(Chosen(seq, T, group))
              = Chosen(seq, T, [i \in 1..Len(seq) |-> Outline(group[i])])
<1> DEFINE n == Len(seq)
           parts == [i \in 1..n |-> If(seq[i] \in T, group[i])]
           outlines == [i \in 1..n |-> Outline(group[i])]
<1>1. n \in Nat /\ parts = [i \in 1..n |-> parts[i]]
  OBVIOUS
<1>2. ASSUME NEW i \in 1..n
      PROVE  /\ SoundSteps(parts[i], ops)
             /\ Outline(parts[i]) = If(seq[i] \in T, outlines[i])
  <2>1. SoundSteps(group[i], ops)
    BY DEF AllSound
  <2>2. SoundSteps(parts[i], ops)
    BY <2>1, SoundIf
  <2>3. Outline(<<>>) = <<>>
    BY DEF Outline
  <2> QED BY <2>2, <2>3 DEF If
<1>3. Chosen(seq, T, group) = FlattenSeq(parts)
  BY DEF Chosen
<1>4. Chosen(seq, T, outlines) = FlattenSeq([i \in 1..n |-> If(seq[i] \in T, outlines[i])])
  BY DEF Chosen
<1> HIDE DEF parts, outlines, n
<1>5. SoundSteps(FlattenSeq(parts), ops)
  BY <1>1, <1>2, SoundFlat
<1>6. Outline(FlattenSeq(parts)) = FlattenSeq([i \in 1..n |-> Outline(parts[i])])
  BY <1>1, <1>2, OutlineParts
<1>7. [i \in 1..n |-> Outline(parts[i])] = [i \in 1..n |-> If(seq[i] \in T, outlines[i])]
  BY <1>2
<1> QED BY <1>3, <1>4, <1>5, <1>6, <1>7 DEF outlines, n

\* As long as nothing is listed they stay what they are.
LEMMA OutlinesStay ==
  ASSUME UNCHANGED market
  PROVE  /\ NativeYieldOutline' = NativeYieldOutline
         /\ Listed' = Listed => AfterDeployOutline' = AfterDeployOutline
<1>1. Reserves' = Reserves /\ IsTestnetMarket' = IsTestnetMarket
  BY DEF Reserves, IsTestnetMarket, IsProductionMarket
<1>2. NativeYieldOutline' = NativeYieldOutline /\ CategoryOutline' = CategoryOutline
  BY <1>1 DEF NativeYieldOutline, CategoryOutline
<1>3. TestnetOutline' = TestnetOutline /\ TransferOutline' = TransferOutline
  BY <1>1 DEF TestnetOutline, TransferOutline
<1>4. \A f, T : FieldOutline(f, T)' = FieldOutline(f, T)
  BY DEF FieldOutline
<1>5. Listed' = Listed => StrategyOutline' = StrategyOutline
  BY DEF StrategyOutline
<1> QED BY <1>1, <1>2, <1>3, <1>4, <1>5 DEF AfterDeployOutline

\* One step and two, and what they are about.
LEMMA OutlineOne == ASSUME NEW x PROVE Outline(<<x>>) = <<About(x)>>
BY DEF Outline

\* Two of them.
LEMMA OutlineTwo == ASSUME NEW x, NEW y PROVE Outline(<<x, y>>) = <<About(x), About(y)>>
BY DEF Outline

\* What each kind of step is about.
LEMMA AboutSteps ==
  /\ \A f, s, v, n, w : About(Configure(f, s, v, n, w)) = <<f, s>>
  /\ \A n : About(Check(n)) = <<"step", "check">>
  /\ \A b, ids : About(SaveWhen(b, ids)) = <<"step", "save">>
  /\ \A x, v, n : About(Set(x, v, n)) = <<"step", "set">>
BY DEF About, Configure, Check, SaveWhen, Set, Step

\* A distributor and its address for each reserve.
LEMMA OutlineNativeYield == Outline(NativeYieldSteps) = NativeYieldOutline
<1> DEFINE symbols == market.symbols
           n == Len(symbols)
           group == [i \in 1..n |-> DistributorFor(symbols[i])]
           outlines == [i \in 1..n |->
                          <<<<"step", "distributor">>, <<"distributor", symbols[i]>>>>]
<1>1. ASSUME NEW i \in 1..n
      PROVE  SoundSteps(group[i], {"distributor"}) /\ Outline(group[i]) = outlines[i]
  <2> DEFINE s == symbols[i]
             a == Step("distributor", <<"NativeYieldDistribute", s>>, s, Recorded({GetPool}), TRUE)
             b == Configure("distributor", s, "current", TRUE, TRUE)
  <2>1. group[i] = <<a, b>> /\ SoundSteps(group[i], {"distributor"})
    BY DistributorSound DEF DistributorFor
  <2>2. About(a) = <<"step", "distributor">>
    BY DEF About, Step
  <2>3. About(b) = <<"distributor", s>>
    BY AboutSteps
  <2> HIDE DEF a, b, group
  <2>4. Outline(<<a, b>>) = <<About(a), About(b)>>
    BY OutlineTwo
  <2> QED BY <2>1, <2>2, <2>3, <2>4
<1>2. NativeYieldSteps = Chosen(symbols, Reserves, group)
  BY DEF NativeYieldSteps, ForEach, Chosen
<1>3. NativeYieldOutline = Chosen(symbols, Reserves, outlines)
  BY DEF NativeYieldOutline
<1> HIDE DEF group, symbols, outlines
<1>4. AllSound(n, group, {"distributor"})
  BY <1>1 DEF AllSound
<1>5. Outline(Chosen(symbols, Reserves, group))
        = Chosen(symbols, Reserves, [i \in 1..n |-> Outline(group[i])])
  BY <1>4, OutlineChosen
<1>6. [i \in 1..n |-> Outline(group[i])] = outlines
  BY <1>1 DEF outlines
<1> QED BY <1>2, <1>3, <1>5, <1>6

\* The steps that set one field of each reserve of a set.
LEMMA OutlineField ==
  ASSUME NEW f, NEW T, NEW step, NEW seq,
         \A i \in 1..Len(market.symbols) :
           Sound(step[i], {}) /\ About(step[i]) = <<f, market.symbols[i]>>,
         seq = FlattenSeq([i \in 1..Len(market.symbols) |->
                             If(market.symbols[i] \in T, <<step[i]>>)])
  PROVE  SoundSteps(seq, {}) /\ Outline(seq) = FieldOutline(f, T)
<1> DEFINE symbols == market.symbols
           n == Len(symbols)
           group == [i \in 1..n |-> <<step[i]>>]
           outlines == [i \in 1..n |-> <<<<f, symbols[i]>>>>]
<1>1. ASSUME NEW i \in 1..n PROVE SoundSteps(group[i], {}) /\ Outline(group[i]) = outlines[i]
  BY SoundOne, OutlineOne
<1>2. seq = Chosen(symbols, T, group) /\ FieldOutline(f, T) = Chosen(symbols, T, outlines)
  BY DEF Chosen, FieldOutline
<1> HIDE DEF group, symbols, outlines
<1>3. AllSound(n, group, {})
  BY <1>1 DEF AllSound
<1>4. /\ SoundSteps(Chosen(symbols, T, group), {})
      /\ Outline(Chosen(symbols, T, group))
           = Chosen(symbols, T, [i \in 1..n |-> Outline(group[i])])
  BY <1>3, OutlineChosen
<1>5. [i \in 1..n |-> Outline(group[i])] = outlines
  BY <1>1 DEF outlines
<1> QED BY <1>2, <1>4, <1>5

\* The stable rates, the flags and the strategies.
LEMMA OutlineStable ==
  Outline(ReviewStableBorrow) = <<<<"step", "check">>>> \o FieldOutline("stable", Listed)
<1> DEFINE wanted(s) == Wants("stable", NormalizedSymbol(s))
           one(s) == Configure("stable", s, wanted(s), HasNormalizedSymbol(s),
                               reserve[s].stable # wanted(s))
           step == [i \in 1..Len(market.symbols) |-> one(market.symbols[i])]
           rest == FlattenSeq([i \in 1..Len(market.symbols) |->
                                 If(market.symbols[i] \in Listed, <<step[i]>>)])
           first == Check(Recorded({GetAaveProtocolDataProvider}))
<1>1. ASSUME NEW i \in 1..Len(market.symbols)
      PROVE  Sound(step[i], {}) /\ About(step[i]) = <<"stable", market.symbols[i]>>
  <2>1. Sound(one(market.symbols[i]), {})
    BY SoundStable
  <2>2. About(one(market.symbols[i])) = <<"stable", market.symbols[i]>>
    BY AboutSteps
  <2> HIDE DEF one
  <2> QED BY <2>1, <2>2
<1>2. ReviewStableBorrow = <<first>> \o rest
  BY DEF ReviewStableBorrow, ForEach
<1>3. SoundSteps(<<first>>, {}) /\ Outline(<<first>>) = <<<<"step", "check">>>>
  BY SoundOne, SoundCheck, OutlineOne, AboutSteps
<1> HIDE DEF step, first
<1>4. SoundSteps(rest, {}) /\ Outline(rest) = FieldOutline("stable", Listed)
  BY <1>1, OutlineField
<1> HIDE DEF rest
<1> QED BY <1>2, <1>3, <1>4, OutlineJoined

\* The flags.
LEMMA OutlineFlags ==
  /\ Outline(SetupDebtCeiling) = FieldOutline("ceiling", Reserves)
  /\ Outline(SetupIsolationMode) = FieldOutline("isolation", Reserves)
  /\ Outline(SetupLiquidationProtocolFee) = FieldOutline("fee", Reserves)
<1> DEFINE one(f, s) == Configure(f, s, TRUE, HasReserveAddress(s), Wants(f, s))
           step(f) == [i \in 1..Len(market.symbols) |-> one(f, market.symbols[i])]
           setup(f) == FlattenSeq([i \in 1..Len(market.symbols) |->
                                     If(market.symbols[i] \in Reserves, <<step(f)[i]>>)])
<1>1. ASSUME NEW f \in Flags, NEW i \in 1..Len(market.symbols)
      PROVE  Sound(step(f)[i], {}) /\ About(step(f)[i]) = <<f, market.symbols[i]>>
  <2>1. Sound(one(f, market.symbols[i]), {})
    BY SoundFlag, MarketSymbol
  <2>2. About(one(f, market.symbols[i])) = <<f, market.symbols[i]>>
    BY AboutSteps
  <2> HIDE DEF one
  <2> QED BY <2>1, <2>2
<1>2. /\ SetupDebtCeiling = setup("ceiling") /\ SetupIsolationMode = setup("isolation")
      /\ SetupLiquidationProtocolFee = setup("fee")
  BY DEF SetupDebtCeiling, SetupIsolationMode, SetupLiquidationProtocolFee, ForEach
<1> HIDE DEF step
<1>3. ASSUME NEW f \in Flags PROVE Outline(setup(f)) = FieldOutline(f, Reserves)
  BY <1>1, OutlineField
<1> HIDE DEF setup
<1> QED BY <1>2, <1>3 DEF Flags

\* The strategies.
LEMMA OutlineStrategies ==
  Outline(ReviewRateStrategies(FALSE)) = <<<<"step", "check">>>> \o StrategyOutline
<1> DEFINE symbols == market.symbols
           n == Len(symbols)
           outdated(s) == FALSE /\ reserve[s].rates # Edition
           strategy(s) ==
             <<"ReserveStrategy", market.params[NormalizedSymbol(s)].strategy, Edition>>
           save(s) == SaveWhen(outdated(s), {strategy(s)})
           point(s) == Configure("rates", s, Edition, HasNormalizedSymbol(s), outdated(s))
           group == [i \in 1..n |-> <<save(symbols[i]), point(symbols[i])>>]
           outlines == [i \in 1..n |-> <<<<"step", "save">>, <<"rates", symbols[i]>>>>]
           first == Check(Recorded({GetAaveProtocolDataProvider, GetPoolAddressesProvider}))
<1>1. ASSUME NEW s
      PROVE  /\ Sound(save(s), {}) /\ About(save(s)) = <<"step", "save">>
             /\ Sound(point(s), {}) /\ About(point(s)) = <<"rates", s>>
  <2>1. {strategy(s)} \cap Ownables = {} /\ NewToken \notin {strategy(s)}
    BY DEF Ownables, NewToken
  <2>2. Sound(save(s), {})
    BY <2>1, SoundSaveWhen
  <2>3. Sound(point(s), {})
    BY SoundConfigure, FieldsSet, FieldsApart
  <2>4. About(save(s)) = <<"step", "save">>
    BY AboutSteps
  <2>5. About(point(s)) = <<"rates", s>>
    BY AboutSteps
  <2> QED BY <2>2, <2>3, <2>4, <2>5
<1>2. ReviewRateStrategies(FALSE) = <<first>> \o Chosen(symbols, Listed, group)
  BY DEF ReviewRateStrategies, ForEach, Chosen
<1>3. StrategyOutline = Chosen(symbols, Listed, outlines)
  BY DEF StrategyOutline
<1>4. SoundSteps(<<first>>, {}) /\ Outline(<<first>>) = <<<<"step", "check">>>>
  BY SoundOne, SoundCheck, OutlineOne, AboutSteps
<1> HIDE DEF save, point, first, symbols
<1>5. ASSUME NEW i \in 1..n PROVE SoundSteps(group[i], {}) /\ Outline(group[i]) = outlines[i]
  BY <1>1, SoundTwo, OutlineTwo
<1> HIDE DEF group, outlines
<1>6. AllSound(n, group, {})
  BY <1>5 DEF AllSound
<1>7. /\ SoundSteps(Chosen(symbols, Listed, group), {})
      /\ Outline(Chosen(symbols, Listed, group))
           = Chosen(symbols, Listed, [i \in 1..n |-> Outline(group[i])])
  BY <1>6, OutlineChosen
<1>8. [i \in 1..n |-> Outline(group[i])] = outlines
  BY <1>5 DEF outlines
<1> QED BY <1>2, <1>3, <1>4, <1>7, <1>8, OutlineJoined

\* The categories, each with its assets.
LEMMA OutlineCategories == Outline(SetupEModes) = CategoryOutline
<1> DEFINE emodes == market.emodes
           n == Len(emodes)
           asset(m, s) == Configure("category", s, m.id, HasReserveAddress(s), TRUE)
           first(m) == Set(<<"EMODES">>, <<m.id>>, /\ Recorded({GetPoolConfiguratorProxy})
                                                   /\ m.oracle = "none" \/ HasOracle(m.oracle))
           rest(m) == [i \in 1..Len(m.assets) |-> asset(m, m.assets[i])]
           category(m) == <<first(m)>> \o rest(m)
           outline(m) == <<<<"step", "set">>>>
                         \o [j \in 1..Len(m.assets) |-> <<"category", m.assets[j]>>]
           parts == [i \in 1..n |-> category(emodes[i])]
<1>1. ASSUME NEW j \in 1..n
      PROVE  SoundSteps(parts[j], {}) /\ Outline(parts[j]) = outline(emodes[j])
  <2> DEFINE m == emodes[j]
             k == Len(m.assets)
             steps == rest(m)
             S == {asset(m, m.assets[i]) : i \in 1..k}
  <2>1. <<"EMODES">> \notin ProxySlots /\ <<"EMODES">> # <<"ACL_ADMIN">>
    BY DEF ProxySlots
  <2>2. Sound(first(m), {}) /\ About(first(m)) = <<"step", "set">>
    BY <2>1, SoundSet, AboutSteps
  <2>3. ASSUME NEW i \in 1..k
        PROVE  /\ Sound(asset(m, m.assets[i]), {})
               /\ About(asset(m, m.assets[i])) = <<"category", m.assets[i]>>
    <3>1. Wanted("category", m.assets[i], m.id)
      BY <1>1 DEF Wanted, ToSet
    <3>2. About(asset(m, m.assets[i])) = <<"category", m.assets[i]>>
      BY AboutSteps
    <3>3. Sound(asset(m, m.assets[i]), {})
      BY <3>1, SoundApplied DEF AppliedFields
    <3> QED BY <3>2, <3>3
  <2> HIDE DEF asset, first
  <2>4. /\ k \in Nat /\ steps \in Seq(S) /\ \A s \in S : Sound(s, {})
        /\ Len(steps) = k
    BY <2>3
  <2>5. Outline(steps) = [i \in 1..k |-> <<"category", m.assets[i]>>]
    BY <2>3, <2>4 DEF Outline
  <2>6. parts[j] = <<first(m)>> \o steps /\ outline(m)
          = <<<<"step", "set">>>> \o [i \in 1..k |-> <<"category", m.assets[i]>>]
    OBVIOUS
  <2> HIDE DEF steps, S, m, parts, outline, k
  <2>7. SoundSteps(steps, {})
    BY <2>4, SoundSeq
  <2>8. SoundSteps(<<first(m)>>, {}) /\ Outline(<<first(m)>>) = <<<<"step", "set">>>>
    BY <2>2, SoundOne, OutlineOne
  <2> DEFINE one == <<first(m)>>
  <2>9. SoundSteps(one \o steps, {}) /\ Outline(one \o steps) = Outline(one) \o Outline(steps)
    <3>1. SoundSteps(one, {})
      BY <2>8
    <3> HIDE DEF one
    <3> QED BY <2>7, <3>1, SoundBoth, OutlineJoined
  <2>10. Outline(one \o steps) = outline(m)
    BY <2>5, <2>6, <2>8, <2>9
  <2> QED BY <2>6, <2>9, <2>10 DEF m
<1>2. SetupEModes = FlattenSeq(parts)
  BY DEF SetupEModes
<1>3. CategoryOutline = FlattenSeq([i \in 1..n |-> outline(emodes[i])])
  BY DEF CategoryOutline
<1> HIDE DEF outline, category
<1>4. n \in Nat /\ parts = [i \in 1..n |-> parts[i]]
  OBVIOUS
<1> HIDE DEF parts, n, emodes
<1>5. Outline(FlattenSeq(parts)) = FlattenSeq([i \in 1..n |-> Outline(parts[i])])
  BY <1>1, <1>4, OutlineParts
<1>6. [i \in 1..n |-> Outline(parts[i])] = [i \in 1..n |-> outline(emodes[i])]
  BY <1>1
<1> QED BY <1>2, <1>3, <1>5, <1>6

\* What only a testnet has.
LEMMA OutlineTestnet ==
  LET unpause == Set(<<"UNPAUSED">>, GetPoolConfiguratorProxy, Recorded({GetPoolConfiguratorProxy}))
      last == If(IsTestnetMarket, DisableFaucetNativeTestnets \o <<unpause>>)
  IN SoundSteps(last, {}) /\ Outline(last) = TestnetOutline
<1> DEFINE set == Set(<<"UNPAUSED">>, GetPoolConfiguratorProxy, Recorded({GetPoolConfiguratorProxy}))
           two == DisableFaucetNativeTestnets
           one == <<set>>
<1>1. SoundSteps(one, {}) /\ Outline(one) = <<<<"step", "set">>>>
  <2>1. <<"UNPAUSED">> \notin ProxySlots /\ <<"UNPAUSED">> # <<"ACL_ADMIN">>
    BY DEF ProxySlots
  <2> QED BY <2>1, SoundOne, SoundSet, OutlineOne, AboutSteps
<1>2. /\ SoundSteps(two, {})
      /\ Outline(two) = <<<<"step", "set">>, <<"borrowing", market.wrappedNative>>>>
  <2> DEFINE a == Set(<<"FAUCET_DISABLED">>, GetFaucet, Recorded({GetFaucet, GetWrappedTokenGateway}))
             b == Configure("borrowing", market.wrappedNative, FALSE, TRUE, TRUE)
  <2>1. About(a) = <<"step", "set">> /\ About(b) = <<"borrowing", market.wrappedNative>>
    BY AboutSteps
  <2>2. two = <<a, b>>
    BY DEF DisableFaucetNativeTestnets
  <2> HIDE DEF a, b
  <2> QED BY <2>1, <2>2, DisableFaucetSound, OutlineTwo
<1> HIDE DEF one, two
<1>3. SoundSteps(two \o one, {}) /\ Outline(two \o one) = Outline(two) \o Outline(one)
  BY <1>1, <1>2, SoundBoth, OutlineJoined
<1>4. SoundSteps(If(IsTestnetMarket, two \o one), {})
  BY <1>3, SoundIf
<1>5. Outline(<<>>) = <<>>
  BY DEF Outline
<1>6. Outline(If(IsTestnetMarket, two \o one)) = TestnetOutline
  BY <1>1, <1>2, <1>3, <1>5 DEF If, TestnetOutline
<1> QED BY <1>4, <1>6 DEF one, two

\* And what only a market that is handed over has.
LEMMA OutlineTransfer ==
  LET last == If(market.transfer, TransferProtocolOwnership \o RenouncePoolAdmin \o ViewProtocolRoles)
  IN SoundSteps(last, HandoverOps) /\ Outline(last) = TransferOutline
<1> DEFINE a == TransferProtocolOwnership
           b == RenouncePoolAdmin
           c == ViewProtocolRoles
<1>1. SoundSteps(a, HandoverOps) /\ SoundSteps(b, HandoverOps) /\ SoundSteps(c, HandoverOps)
  <2>1. {"handover"} \subseteq HandoverOps /\ {"renounce"} \subseteq HandoverOps
        /\ {} \subseteq HandoverOps
    BY DEF HandoverOps
  <2> QED BY <2>1, TransferOwnershipSound, RenouncePoolAdminSound, ViewProtocolRolesSound, SoundMore
<1>2. Outline(a) = <<<<"step", "handover">>>>
  <2> DEFINE x == Step("handover", Nothing, Nothing, Recorded(HandoverRecords), TRUE)
  <2>1. About(x) = <<"step", "handover">> /\ a = <<x>>
    BY DEF TransferProtocolOwnership, About, Step
  <2> HIDE DEF x, a
  <2> QED BY <2>1, OutlineOne
<1>3. Outline(b) = <<<<"step", "renounce">>>>
  <2> DEFINE x == Step("renounce", Nothing, Nothing,
                       market.multisig # Nobody /\ Recorded({GetPoolAddressesProvider}), TRUE)
  <2>1. About(x) = <<"step", "renounce">> /\ b = <<x>>
    BY DEF RenouncePoolAdmin, About, Step
  <2> HIDE DEF x, b
  <2> QED BY <2>1, OutlineOne
<1>4. Outline(c) = <<<<"step", "check">>>>
  BY OutlineOne, AboutSteps DEF ViewProtocolRoles
<1> HIDE DEF a, b, c
<1>5. SoundSteps(a \o b, HandoverOps) /\ Outline(a \o b) = Outline(a) \o Outline(b)
  BY <1>1, SoundBoth, OutlineJoined
<1>6. /\ SoundSteps(a \o b \o c, HandoverOps)
      /\ Outline(a \o b \o c) = Outline(a) \o Outline(b) \o Outline(c)
  BY <1>1, <1>5, SoundBoth, OutlineJoined
<1>7. SoundSteps(If(market.transfer, a \o b \o c), HandoverOps)
  BY <1>6, SoundIf
<1>8. Outline(<<>>) = <<>>
  BY DEF Outline
<1>9. Outline(If(market.transfer, a \o b \o c)) = TransferOutline
  BY <1>2, <1>3, <1>4, <1>6, <1>8 DEF If, TransferOutline
<1> QED BY <1>7, <1>9 DEF a, b, c

\* The whole script.
LEMMA OutlineAfterDeploy == Outline(AfterDeploySteps) = AfterDeployOutline
<1> DEFINE set == Set(<<"UNPAUSED">>, GetPoolConfiguratorProxy, Recorded({GetPoolConfiguratorProxy}))
           a == ReviewStableBorrow
           b == ReviewRateStrategies(FALSE)
           c == SetupDebtCeiling
           d == SetupIsolationMode
           e == SetupEModes
           f == SetupLiquidationProtocolFee
           g == If(IsTestnetMarket, DisableFaucetNativeTestnets \o <<set>>)
           h == If(market.transfer, TransferProtocolOwnership \o RenouncePoolAdmin \o ViewProtocolRoles)
<1>1. /\ SoundSteps(a, {}) /\ SoundSteps(b, {}) /\ SoundSteps(c, {})
      /\ SoundSteps(d, {}) /\ SoundSteps(e, {}) /\ SoundSteps(f, {})
  BY ReviewStableBorrowSound, ReviewRateStrategiesSound, SetupDebtCeilingSound,
     SetupIsolationModeSound, SetupEModesSound, SetupFeeSound
<1>2. SoundSteps(g, {}) /\ Outline(g) = TestnetOutline
  BY OutlineTestnet
<1>3. SoundSteps(h, HandoverOps) /\ Outline(h) = TransferOutline
  BY OutlineTransfer
<1>4. AfterDeploySteps = a \o b \o c \o d \o e \o f \o g \o h
  BY DEF AfterDeploySteps
<1>5. /\ Outline(a) = <<<<"step", "check">>>> \o FieldOutline("stable", Listed)
      /\ Outline(b) = <<<<"step", "check">>>> \o StrategyOutline
      /\ Outline(c) = FieldOutline("ceiling", Reserves)
      /\ Outline(d) = FieldOutline("isolation", Reserves)
      /\ Outline(e) = CategoryOutline
      /\ Outline(f) = FieldOutline("fee", Reserves)
  BY OutlineStable, OutlineStrategies, OutlineFlags, OutlineCategories
<1> HIDE DEF a, b, c, d, e, f, g, h
<1>6. SoundSteps(a \o b, {}) /\ Outline(a \o b) = Outline(a) \o Outline(b)
  BY <1>1, SoundBoth, OutlineJoined
<1>7. SoundSteps(a \o b \o c, {}) /\ Outline(a \o b \o c) = Outline(a \o b) \o Outline(c)
  BY <1>1, <1>6, SoundBoth, OutlineJoined
<1>8. /\ SoundSteps(a \o b \o c \o d, {})
      /\ Outline(a \o b \o c \o d) = Outline(a \o b \o c) \o Outline(d)
  BY <1>1, <1>7, SoundBoth, OutlineJoined
<1>9. /\ SoundSteps(a \o b \o c \o d \o e, {})
      /\ Outline(a \o b \o c \o d \o e) = Outline(a \o b \o c \o d) \o Outline(e)
  BY <1>1, <1>8, SoundBoth, OutlineJoined
<1>10. /\ SoundSteps(a \o b \o c \o d \o e \o f, {})
       /\ Outline(a \o b \o c \o d \o e \o f) = Outline(a \o b \o c \o d \o e) \o Outline(f)
  BY <1>1, <1>9, SoundBoth, OutlineJoined
<1> DEFINE setup == a \o b \o c \o d \o e \o f \o g
<1>11. /\ SoundSteps(setup, {})
       /\ Outline(setup) = Outline(a \o b \o c \o d \o e \o f) \o Outline(g)
  BY <1>2, <1>10, SoundBoth, OutlineJoined
<1> HIDE DEF setup
<1>12. SoundSteps(setup, HandoverOps)
  BY <1>11, SoundMore
<1>13. Outline(setup \o h) = Outline(setup) \o Outline(h)
  BY <1>3, <1>12, OutlineJoined
<1>14. Outline(setup \o h)
         = Outline(a) \o Outline(b) \o Outline(c) \o Outline(d) \o Outline(e) \o Outline(f)
           \o Outline(g) \o Outline(h)
  BY <1>6, <1>7, <1>8, <1>9, <1>10, <1>11, <1>13
<1>15. AfterDeploySteps = setup \o h
  BY <1>4 DEF setup
<1> QED BY <1>2, <1>3, <1>5, <1>14, <1>15 DEF AfterDeployOutline

\* The fields by their names.
LEMMA AppliedNames ==
  /\ AppliedFields = {"ceiling", "isolation", "fee", "stable", "category", "distributor"}
  /\ Flags = {"ceiling", "isolation", "fee"} /\ Flags \subseteq AppliedFields
BY DEF AppliedFields, Flags

\* What is given stays so, unless it is changed to something else that is wanted.
LEMMA GivenStays ==
  ASSUME market'.params = market.params, market'.emodes = market.emodes,
         \A r \in Symbols : \A f \in AppliedFields :
           reserve'[r][f] = reserve[r][f] \/ Wanted(f, r, reserve'[r][f])
  PROVE  Given \subseteq Given'
<1>1. \A f, s, v : Wanted(f, s, v) => Wanted(f, s, v)'
  BY DEF Wanted, Wants
<1>2. ASSUME NEW f \in AppliedFields, NEW s \in Symbols, Applied(f, s) PROVE Applied(f, s)'
  <2>1. Wanted(f, s, reserve[s][f])
    BY <1>2 DEF Applied
  <2>2. Wanted(f, s, reserve'[s][f])
    BY <2>1
  <2>3. PICK v : v = reserve'[s][f]
    OBVIOUS
  <2>4. Wanted(f, s, v)'
    BY <1>1, <2>2, <2>3
  <2> QED BY <2>3, <2>4 DEF Applied, Wanted
<1> QED BY <1>2 DEF Given, Asked

\* What a step does to the settings that are asked for.
LEMMA PerformWanted ==
  ASSUME TypeOK, NamesAgree, NEW s, NEW i, NEW ops, Sound(s, ops), s.needs, s.when,
         Perform(s, i), \A r \in Symbols : DOMAIN reserve[r] = DOMAIN NewReserve
  PROVE  \A r \in Symbols : \A f \in AppliedFields :
           reserve'[r][f] = reserve[r][f] \/ Wanted(f, r, reserve'[r][f])
<1>1. DOMAIN reserve = Symbols
  BY DEF TypeOK
<1>2. ASSUME NEW r \in Symbols
      PROVE  AppliedFields \cup {"listed", "rates", "collateral", "borrowing", "cap", "revision"}
               \subseteq DOMAIN reserve[r]
  BY AppliedNames DEF NewReserve
<1>3. CASE UNCHANGED reserve
  BY <1>3
<1>4. CASE ConfigureReserve(s, i)
  <2> DEFINE g == s.id[1]
             x == s.id[2]
             v == s.val
  <2>1. /\ s.op = "configure" /\ reserve' = [reserve EXCEPT ![x][g] = v]
    BY <1>4 DEF ConfigureReserve
  <2>2. g \in AppliedFields => Wanted(g, x, v)
    BY <2>1 DEF Sound, Apt
  <2> HIDE DEF g, x, v
  <2>3. ASSUME NEW r \in Symbols, NEW f \in AppliedFields, r # x \/ f # g
        PROVE  reserve'[r][f] = reserve[r][f]
    BY <1>1, <1>2, <2>1, <2>3
  <2>4. ASSUME NEW r \in Symbols, NEW f \in AppliedFields, r = x, f = g
        PROVE  reserve'[r][f] = v
    BY <1>1, <1>2, <2>1, <2>4
  <2> QED BY <2>2, <2>3, <2>4
<1>5. CASE ListReserves(s, i)
  <2>1. ASSUME NEW r \in Symbols, NEW f \in AppliedFields PROVE reserve'[r][f] = reserve[r][f]
    <3>1. f \notin {"listed", "revision", "rates"}
      BY AppliedNames
    <3> QED BY <1>2, <1>5, <3>1 DEF ListReserves
  <2> QED BY <2>1
<1>6. CASE ConfigureReserves(s, i)
  <2>1. ASSUME NEW r \in Symbols, NEW f \in AppliedFields
        PROVE  reserve'[r][f] = reserve[r][f] \/ (f = "stable" /\ reserve'[r][f] = Wants("stable", r))
    <3>1. f \notin {"collateral", "borrowing", "cap"} /\ f \in DOMAIN reserve[r]
      BY <1>2, AppliedNames
    <3> QED BY <1>2, <1>6, <3>1 DEF ConfigureReserves
  <2> QED BY <2>1 DEF Wanted
<1>7. CASE DeployDistributor(s, i)
  <2>1. UNCHANGED reserve \/ reserve' = [reserve EXCEPT ![s.val].distributor = "older"]
    BY <1>7 DEF DeployDistributor
  <2>2. ASSUME NEW r \in Symbols, NEW f \in AppliedFields
        PROVE  reserve'[r][f] = reserve[r][f] \/ (f = "distributor" /\ reserve'[r][f] = "older")
    BY <1>1, <1>2, <2>1
  <2> QED BY <2>2 DEF Wanted
<1> QED BY <1>3, <1>4, <1>5, <1>6, <1>7, ReserveMoves

\* A step that sets what is asked for gives it.
LEMMA PerformSets ==
  ASSUME TypeOK, NamesAgree, NEW s, NEW i, NEW ops, Sound(s, ops), s.needs, s.when,
         Perform(s, i), \A r \in Symbols : DOMAIN reserve[r] = DOMAIN NewReserve,
         About(s) \in Asked, UNCHANGED market
  PROVE  About(s) \in Given'
<1>1. "step" \notin AppliedFields
  BY AppliedNames
<1>2. s.op = "configure" /\ s.id \in Asked /\ About(s) = s.id
  BY <1>1 DEF About, Asked
<1>3. ConfigureReserve(s, i)
  BY <1>2, OpMoves
<1>4. PICK f \in AppliedFields, r \in Symbols : s.id = <<f, r>>
  BY <1>2 DEF Asked
<1>5. Wanted(f, r, s.val)
  BY <1>2, <1>4 DEF Sound, Apt
<1>6. reserve'[r][f] = s.val
  <2>1. DOMAIN reserve = Symbols /\ f \in DOMAIN reserve[r]
    BY AppliedNames DEF TypeOK, NewReserve
  <2>2. reserve' = [reserve EXCEPT ![r][f] = s.val]
    BY <1>3, <1>4 DEF ConfigureReserve
  <2> QED BY <2>1, <2>2
<1>7. Applied(f, r)'
  <2>1. PICK v : v = s.val
    OBVIOUS
  <2>2. Wanted(f, r, v)'
    BY <1>5, <2>1 DEF Wanted, Wants
  <2> QED BY <1>6, <2>1, <2>2 DEF Applied, Wanted
<1> QED BY <1>2, <1>4, <1>7 DEF Given, Asked

\* The flags and the stable rates stay proper.
LEMMA PerformProper ==
  ASSUME TypeOK, NamesAgree, NEW s, NEW i, NEW ops, Sound(s, ops), s.needs, s.when, ~Refused(s),
         Perform(s, i), \A r \in Symbols : DOMAIN reserve[r] = DOMAIN NewReserve,
         Proper, UNCHANGED market
  PROVE  Proper'
<1>1. DOMAIN reserve = Symbols
  BY DEF TypeOK
<1>2. ASSUME NEW r \in Symbols
      PROVE  {"stable", "borrowing", "listed", "rates", "collateral", "cap", "revision",
              "distributor"} \subseteq DOMAIN reserve[r]
  BY DEF NewReserve
<1>3. ASSUME NEW r \in Symbols, NEW f \in Flags PROVE reserve'[r][f] \in {FALSE, Wants(f, r)}
  <2>1. f \in AppliedFields /\ f \notin {"distributor", "category"}
    BY AppliedNames
  <2>2. reserve'[r][f] = reserve[r][f] \/ Wanted(f, r, reserve'[r][f])
    BY <2>1, PerformWanted
  <2>3. Wanted(f, r, reserve'[r][f]) => reserve'[r][f] = Wants(f, r)
    BY <2>1 DEF Wanted
  <2> QED BY <2>2, <2>3 DEF Proper
<1>4. ASSUME NEW r \in Symbols PROVE reserve'[r].stable => reserve'[r].borrowing
  <2>1. reserve[r].stable => reserve[r].borrowing
    BY DEF Proper
  <2>2. CASE UNCHANGED reserve
    BY <2>1, <2>2
  <2>3. CASE ConfigureReserve(s, i)
    <3> DEFINE g == s.id[1]
               x == s.id[2]
               v == s.val
    <3>1. s.op = "configure" /\ reserve' = [reserve EXCEPT ![x][g] = v]
      BY <2>3 DEF ConfigureReserve
    <3>2. MayConfigure(g, x, v)
      BY <3>1 DEF Refused
    <3>3. g = "borrowing" => v = FALSE
      BY <3>1 DEF Sound, Apt
    <3>4. /\ g = "stable" /\ v => reserve[x].borrowing
          /\ g = "borrowing" => ~reserve[x].stable
      BY <3>2, <3>3 DEF MayConfigure
    <3> HIDE DEF g, x, v
    <3>5. CASE r # x \/ g \notin {"stable", "borrowing"}
      BY <1>1, <1>2, <2>1, <3>1, <3>5
    <3>6. CASE r = x /\ g = "stable"
      <4>1. reserve'[r].stable = v /\ reserve'[r].borrowing = reserve[r].borrowing
        BY <1>1, <1>2, <3>1, <3>6
      <4> QED BY <3>4, <3>6, <4>1
    <3>7. CASE r = x /\ g = "borrowing"
      <4>1. reserve'[r].stable = reserve[r].stable
        BY <1>1, <1>2, <3>1, <3>7
      <4> QED BY <3>4, <3>7, <4>1
    <3> QED BY <3>5, <3>6, <3>7
  <2>4. CASE ListReserves(s, i)
    BY <1>2, <2>1, <2>4 DEF ListReserves
  <2>5. CASE ConfigureReserves(s, i)
    <3>1. CASE r \in ToSet(Chunk(s.val))
      <4>1. /\ reserve'[r].borrowing = (reserve[r].borrowing \/ Wants("borrowing", r))
            /\ reserve'[r].stable = IF Wants("borrowing", r) THEN Wants("stable", r)
                                                            ELSE reserve[r].stable
        BY <1>2, <2>5, <3>1 DEF ConfigureReserves
      <4> QED BY <2>1, <4>1
    <3>2. CASE r \notin ToSet(Chunk(s.val))
      <4>1. reserve'[r] = reserve[r]
        BY <2>5, <3>2 DEF ConfigureReserves
      <4> QED BY <2>1, <4>1
    <3> QED BY <3>1, <3>2
  <2>6. CASE DeployDistributor(s, i)
    <3>1. UNCHANGED reserve \/ reserve' = [reserve EXCEPT ![s.val].distributor = "older"]
      BY <2>6 DEF DeployDistributor
    <3>2. reserve'[r].stable = reserve[r].stable /\ reserve'[r].borrowing = reserve[r].borrowing
      BY <1>1, <1>2, <3>1
    <3> QED BY <2>1, <3>2
  <2> QED BY <2>2, <2>3, <2>4, <2>5, <2>6, ReserveMoves
<1> QED BY <1>3, <1>4 DEF Proper, Wants

\* The steps that are passed over have been given already, or are not asked for.
LEMMA PassedGiven ==
  ASSUME TypeOK, NamesAgree, Proper, proc.pc \in Nat \ {0},
         NEW steps, NEW ops, SoundSteps(steps, ops), NEW n \in Nat, Passed(steps, n),
         Behind(Outline(steps), proc.pc, Given)
  PROVE  Behind(Outline(steps), n, Given)
<1> DEFINE outline == Outline(steps)
<1>1. /\ Len(steps) \in Nat /\ \A k \in 1..Len(steps) : Sound(steps[k], ops)
      /\ Len(outline) = Len(steps) /\ \A k \in 1..Len(steps) : outline[k] = About(steps[k])
  <2>1. PICK S : steps \in Seq(S)
    BY DEF SoundSteps
  <2> QED BY <2>1, OutlineSeq, SoundEach
<1>2. Behind(outline, proc.pc, Given)
  OBVIOUS
<1> HIDE DEF outline
<1>3. ASSUME NEW k \in 1..Len(steps), k < n, outline[k] \in Asked, ~(k < proc.pc)
      PROVE  outline[k] \in Given
  <2> DEFINE s == steps[k]
  <2>1. s.needs /\ ~s.when
    <3>1. k \in proc.pc..Len(steps)
      BY <1>1, <1>3
    <3> QED BY <1>3, <3>1 DEF Passed
  <2>2. Sound(s, ops) /\ outline[k] = About(s)
    BY <1>1
  <2> HIDE DEF s
  <2>3. "step" \notin AppliedFields
    BY AppliedNames
  <2>4. s.op = "configure" /\ outline[k] = s.id
    BY <1>3, <2>2, <2>3 DEF About, Asked
  <2>5. PICK f \in AppliedFields, r \in Symbols : outline[k] = <<f, r>>
    BY <1>3 DEF Asked
  <2>6. Applied(f, r) \/ (f \in Flags /\ Wants(f, r) = FALSE)
    BY <2>1, <2>2, <2>4, <2>5 DEF Sound, Apt
  <2>7. ASSUME f \in Flags, Wants(f, r) = FALSE PROVE Applied(f, r)
    <3>1. reserve[r][f] = Wants(f, r) /\ f \notin {"distributor", "category"}
      BY <2>7, AppliedNames DEF Proper
    <3> QED BY <3>1 DEF Applied, Wanted
  <2>8. Applied(f, r)
    BY <2>6, <2>7
  <2> QED BY <1>3, <2>5, <2>8 DEF Given
<1>4. Behind(outline, n, Given)
  BY <1>1, <1>2, <1>3 DEF Behind
<1> QED BY <1>4 DEF outline

\* A step that is performed gives what it is about, and keeps what is given.
LEMMA PerformGiven ==
  ASSUME TypeOK, NamesAgree, Proper, UNCHANGED market,
         \A r \in Symbols : DOMAIN reserve[r] = DOMAIN NewReserve,
         NEW steps, NEW ops, SoundSteps(steps, ops), NEW i \in 1..Len(steps),
         steps[i].needs, steps[i].when, Perform(steps[i], i),
         Behind(Outline(steps), i, Given), NEW n \in {i, i + 1}
  PROVE  Behind(Outline(steps), n, Given')
<1> DEFINE outline == Outline(steps)
           s == steps[i]
<1>1. /\ Len(steps) \in Nat /\ Sound(s, ops) /\ outline[i] = About(s)
      /\ Len(outline) = Len(steps)
  <2>1. PICK S : steps \in Seq(S)
    BY DEF SoundSteps
  <2> QED BY <2>1, OutlineSeq, SoundEach
<1>2. Given \subseteq Given'
  <2>1. \A r \in Symbols : \A f \in AppliedFields :
           reserve'[r][f] = reserve[r][f] \/ Wanted(f, r, reserve'[r][f])
    BY <1>1, PerformWanted
  <2> QED BY <2>1, GivenStays
<1>3. outline[i] \in Asked => outline[i] \in Given'
  <2>1. About(s) \in Asked => About(s) \in Given'
    BY <1>1, PerformSets
  <2> QED BY <1>1, <2>1
<1>4. Behind(outline, i, Given)
  OBVIOUS
<1> HIDE DEF outline
<1>5. Behind(outline, n, Given')
  <2> SUFFICES ASSUME NEW k \in 1..Len(outline), k < n, outline[k] \in Asked
               PROVE  outline[k] \in Given'
    BY DEF Behind
  <2>1. k < i \/ k = i
    BY <1>1
  <2>2. k < i => outline[k] \in Given
    BY <1>4 DEF Behind
  <2> QED BY <1>2, <1>3, <2>1, <2>2
<1> QED BY <1>5 DEF outline

\* Those of groups that are chosen.
LEMMA ChosenElement ==
  ASSUME NEW S, NEW seq, NEW T, NEW group \in [1..Len(seq) -> Seq(S)]
  PROVE  /\ Chosen(seq, T, group) \in Seq(S)
         /\ \A i \in 1..Len(seq) : \A k \in 1..Len(group[i]) :
              seq[i] \in T => group[i][k] \in ToSet(Chosen(seq, T, group))
<1> DEFINE n == Len(seq)
           parts == [i \in 1..n |-> If(seq[i] \in T, group[i])]
<1>1. n \in Nat
  OBVIOUS
<1>2. parts \in [1..n -> Seq(S)]
  BY DEF If
<1>3. \A i \in 1..n : seq[i] \in T => parts[i] = group[i]
  BY DEF If
<1>4. Chosen(seq, T, group) = FlattenSeq(parts)
  BY DEF Chosen
<1> HIDE DEF parts, n
<1>5. FlattenSeq(parts) \in Seq(S)
  BY <1>1, <1>2, FlattenType
<1>6. ASSUME NEW i \in 1..n, NEW k \in 1..Len(group[i]), seq[i] \in T
      PROVE  group[i][k] \in ToSet(FlattenSeq(parts))
  BY <1>1, <1>2, <1>3, <1>6, FlattenElement
<1> QED BY <1>4, <1>5, <1>6 DEF n

\* A step for each reserve of a set.
LEMMA FieldElements ==
  ASSUME NEW f, NEW T
  PROVE  /\ \E S : FieldOutline(f, T) \in Seq(S)
         /\ \A s \in ToSet(market.symbols) \cap T : <<f, s>> \in ToSet(FieldOutline(f, T))
<1> DEFINE symbols == market.symbols
           group == [i \in 1..Len(symbols) |-> <<<<f, symbols[i]>>>>]
           S == {<<f, symbols[i]>> : i \in 1..Len(symbols)}
<1>1. group \in [1..Len(symbols) -> Seq(S)]
  OBVIOUS
<1>2. \A i \in 1..Len(symbols) : Len(group[i]) = 1 /\ group[i][1] = <<f, symbols[i]>>
  OBVIOUS
<1>3. FieldOutline(f, T) = Chosen(symbols, T, group)
  BY DEF FieldOutline
<1> HIDE DEF group, S
<1>4. /\ Chosen(symbols, T, group) \in Seq(S)
      /\ \A i \in 1..Len(symbols) : \A k \in 1..Len(group[i]) :
           symbols[i] \in T => group[i][k] \in ToSet(Chosen(symbols, T, group))
  BY <1>1, ChosenElement
<1>5. ASSUME NEW s \in ToSet(symbols) \cap T PROVE <<f, s>> \in ToSet(FieldOutline(f, T))
  <2>1. PICK i \in 1..Len(symbols) : s = symbols[i]
    BY DEF ToSet
  <2>2. 1 \in 1..Len(group[i]) /\ group[i][1] = <<f, s>>
    BY <1>2, <2>1
  <2> QED BY <1>3, <1>4, <2>1, <2>2
<1> QED BY <1>3, <1>4, <1>5

\* One for each asset of a category.
LEMMA CategoryElements ==
  ASSUME \A i \in 1..Len(market.emodes) : Len(market.emodes[i].assets) \in Nat
  PROVE  /\ \E S : CategoryOutline \in Seq(S)
         /\ \A i \in 1..Len(market.emodes) : \A s \in ToSet(market.emodes[i].assets) :
              <<"category", s>> \in ToSet(CategoryOutline)
<1> DEFINE n == Len(market.emodes)
           assets(i) == market.emodes[i].assets
           rest(i) == [j \in 1..Len(assets(i)) |-> <<"category", assets(i)[j]>>]
           parts == [i \in 1..n |-> <<<<"step", "set">>>> \o rest(i)]
           S == {<<"step", "set">>} \cup UNION {{rest(i)[j] : j \in 1..Len(assets(i))} : i \in 1..n}
<1>1. ASSUME NEW i \in 1..n
      PROVE  /\ parts[i] \in Seq(S)
             /\ \A s \in ToSet(assets(i)) : \E k \in 1..Len(parts[i]) : parts[i][k] = <<"category", s>>
  <2> DEFINE k == Len(assets(i))
             one == <<<<"step", "set">>>>
             more == rest(i)
  <2>1. one \in Seq(S)
    OBVIOUS
  <2>2. k \in Nat /\ \A j \in 1..k : rest(i)[j] \in S
    <3>1. k \in Nat
      OBVIOUS
    <3>2. ASSUME NEW j \in 1..k PROVE rest(i)[j] \in S
      <4> HIDE DEF rest
      <4>1. rest(i)[j] \in {rest(i)[jj] : jj \in 1..Len(assets(i))}
        OBVIOUS
      <4> QED BY <4>1
    <3> QED BY <3>1, <3>2
  <2>3. more \in [1..k -> S]
    <3>1. more = [j \in 1..k |-> more[j]] /\ \A j \in 1..k : more[j] \in S
      BY <2>2
    <3> HIDE DEF more, S, k
    <3> QED BY <3>1
  <2>4. more \in Seq(S) /\ Len(more) = k
    <3> HIDE DEF more, S, k
    <3> QED BY <2>2, <2>3
  <2>5. parts[i] = one \o more
    OBVIOUS
  <2>6. ASSUME NEW s \in ToSet(assets(i)) PROVE <<"category", s>> \in ToSet(more)
    <3>1. PICK j \in 1..k : s = assets(i)[j]
      BY DEF ToSet
    <3>2. more[j] = <<"category", s>>
      BY <3>1
    <3>3. more \in Seq(S) /\ j \in 1..Len(more)
      BY <2>4, <3>1
    <3> HIDE DEF more, S, k
    <3>4. j \in DOMAIN more
      BY <3>3
    <3> QED BY <3>2, <3>4 DEF ToSet
  <2> HIDE DEF one, more, S, parts
  <2>7. one \o more \in Seq(S) /\ ToSet(more) \subseteq ToSet(one \o more)
    BY <2>1, <2>4, JoinedElements
  <2>8. parts[i] \in Seq(S) /\ \A s \in ToSet(assets(i)) : <<"category", s>> \in ToSet(parts[i])
    BY <2>5, <2>6, <2>7
  <2>9. DOMAIN parts[i] = 1..Len(parts[i])
    BY <2>8
  <2> HIDE DEF assets
  <2> QED BY <2>8, <2>9 DEF ToSet
<1>2. n \in Nat /\ parts = [i \in 1..n |-> parts[i]]
  OBVIOUS
<1>3. CategoryOutline = FlattenSeq(parts)
  BY DEF CategoryOutline
<1> HIDE DEF parts, S, rest
<1>4. parts \in [1..n -> Seq(S)]
  BY <1>1, <1>2
<1>5. FlattenSeq(parts) \in Seq(S)
  BY <1>2, <1>4, FlattenType
<1>6. ASSUME NEW i \in 1..n, NEW s \in ToSet(assets(i))
      PROVE  <<"category", s>> \in ToSet(FlattenSeq(parts))
  <2>1. PICK k \in 1..Len(parts[i]) : parts[i][k] = <<"category", s>>
    BY <1>1
  <2>2. parts[i][k] \in ToSet(FlattenSeq(parts))
    BY <1>2, <1>4, FlattenElement
  <2> QED BY <2>1, <2>2
<1> QED BY <1>3, <1>5, <1>6

\* The categories of a market have lists of assets that the pool may have.
LEMMA CategoryAssets ==
  ASSUME TypeOK
  PROVE  \A i \in 1..Len(market.emodes) :
           market.emodes[i].assets \in Seq(Symbols) /\ Len(market.emodes[i].assets) \in Nat
<1>1. PICK m \in Markets : market.emodes = m.emodes
  BY MarketCategories
<1>2. m.emodes \in Seq([id : Nat, assets : Seq(Symbols), oracle : Symbols \cup {"none"}])
  BY CategoriesAssumption
<1>3. ASSUME NEW i \in 1..Len(m.emodes)
      PROVE  m.emodes[i].assets \in Seq(Symbols) /\ Len(m.emodes[i].assets) \in Nat
  <2>1. m.emodes[i] \in [id : Nat, assets : Seq(Symbols), oracle : Symbols \cup {"none"}]
    <3> DEFINE R == [id : Nat, assets : Seq(Symbols), oracle : Symbols \cup {"none"}]
               e == m.emodes
    <3>1. e \in Seq(R) /\ i \in 1..Len(e)
      BY <1>2
    <3> HIDE DEF R, e
    <3>2. e[i] \in R
      BY <3>1
    <3> QED BY <3>2 DEF R, e
  <2> DEFINE x == m.emodes[i].assets
  <2>2. x \in Seq(Symbols)
    BY <2>1
  <2> HIDE DEF x
  <2>3. Len(x) \in Nat
    BY <2>2
  <2> QED BY <2>2, <2>3 DEF x
<1> QED BY <1>1, <1>3

\* The first edition's reserves are asked to have what the two scripts give.
LEMMA AskedOf ==
  ASSUME TypeOK
  PROVE  Distributed \subseteq Asked /\ SetUp \subseteq Asked
<1>1. FirstEdition \subseteq Symbols
  BY FirstReserves
<1>2. ASSUME NEW i \in 1..Len(market.emodes) PROVE ToSet(market.emodes[i].assets) \subseteq Symbols
  BY CategoryAssets DEF ToSet
<1>3. {"category"} \X UNION {ToSet(market.emodes[i].assets) : i \in 1..Len(market.emodes)}
        \subseteq {"category"} \X Symbols
  BY <1>2
<1>4. {"category", "distributor", "stable"} \subseteq AppliedFields /\ Flags \subseteq AppliedFields
  BY AppliedNames
<1> QED BY <1>1, <1>3, <1>4 DEF Distributed, SetUp, Asked

\* There is a distributor for each of them.
LEMMA NativeYieldElements ==
  ASSUME TypeOK PROVE Distributed \subseteq ToSet(NativeYieldOutline)
<1> DEFINE symbols == market.symbols
           n == Len(symbols)
           group == [i \in 1..n |-> <<<<"step", "distributor">>, <<"distributor", symbols[i]>>>>]
           S == {<<"step", "distributor">>} \cup {<<"distributor", symbols[i]>> : i \in 1..n}
<1>1. group \in [1..n -> Seq(S)]
  <2>1. ASSUME NEW i \in 1..n
        PROVE  <<<<"step", "distributor">>, <<"distributor", symbols[i]>>>> \in Seq(S)
    <3>1. <<"step", "distributor">> \in S /\ <<"distributor", symbols[i]>> \in S
      OBVIOUS
    <3> HIDE DEF S
    <3> QED BY <3>1
  <2> HIDE DEF S
  <2> QED BY <2>1
<1>2. \A i \in 1..n : Len(group[i]) = 2 /\ group[i][2] = <<"distributor", symbols[i]>>
  OBVIOUS
<1>3. NativeYieldOutline = Chosen(symbols, Reserves, group)
  BY DEF NativeYieldOutline
<1>4. FirstEdition \subseteq ToSet(symbols) \cap Reserves
  BY FirstReserves
<1> HIDE DEF group, S, symbols
<1>5. \A i \in 1..n : \A k \in 1..Len(group[i]) :
         symbols[i] \in Reserves => group[i][k] \in ToSet(Chosen(symbols, Reserves, group))
  BY <1>1, ChosenElement
<1>6. ASSUME NEW s \in FirstEdition PROVE <<"distributor", s>> \in ToSet(NativeYieldOutline)
  <2>1. PICK i \in DOMAIN symbols : s = symbols[i]
    BY <1>4 DEF ToSet
  <2>2. DOMAIN symbols = 1..n
    BY MarketReserves DEF symbols
  <2>3. 2 \in 1..Len(group[i]) /\ group[i][2] = <<"distributor", s>> /\ symbols[i] \in Reserves
    BY <1>2, <1>4, <2>1, <2>2
  <2> QED BY <1>3, <1>5, <2>2, <2>3
<1> QED BY <1>6 DEF Distributed

\* And a step of the set-up for each setting, when all of them are listed.
LEMMA AfterDeployElements ==
  ASSUME TypeOK, FirstEdition \subseteq Listed
  PROVE  SetUp \subseteq ToSet(AfterDeployOutline)
<1> DEFINE check == <<<<"step", "check">>>>
           stable == FieldOutline("stable", Listed)
           a == check \o stable
           b == check \o StrategyOutline
           c == FieldOutline("ceiling", Reserves)
           d == FieldOutline("isolation", Reserves)
           e == CategoryOutline
           f == FieldOutline("fee", Reserves)
<1>1. FirstEdition \subseteq ToSet(market.symbols) \cap Reserves \cap Listed
  BY FirstReserves
<1>2. IsSeq(check)
  <2>1. check \in Seq({<<"step", "check">>})
    OBVIOUS
  <2> QED BY <2>1 DEF IsSeq
<1>3. IsSeq(stable) /\ IsSeq(c) /\ IsSeq(d) /\ IsSeq(f)
  BY FieldElements DEF IsSeq
<1>4. IsSeq(e) /\ \A i \in 1..Len(market.emodes) : \A s \in ToSet(market.emodes[i].assets) :
                    <<"category", s>> \in ToSet(e)
  BY CategoryAssets, CategoryElements DEF IsSeq
<1>5. IsSeq(StrategyOutline)
  <2> DEFINE n == Len(market.symbols)
             group == [i \in 1..n |-> <<<<"step", "save">>, <<"rates", market.symbols[i]>>>>]
             S == {<<"step", "save">>} \cup {<<"rates", market.symbols[i]>> : i \in 1..n}
  <2>1. group \in [1..n -> Seq(S)]
    <3>1. ASSUME NEW i \in 1..n
          PROVE  <<<<"step", "save">>, <<"rates", market.symbols[i]>>>> \in Seq(S)
      <4>1. <<"step", "save">> \in S /\ <<"rates", market.symbols[i]>> \in S
        OBVIOUS
      <4> HIDE DEF S
      <4> QED BY <4>1
    <3> HIDE DEF S
    <3> QED BY <3>1
  <2>2. StrategyOutline = Chosen(market.symbols, Listed, group)
    BY DEF StrategyOutline
  <2> HIDE DEF group, S
  <2>3. Chosen(market.symbols, Listed, group) \in Seq(S)
    BY <2>1, ChosenElement
  <2> QED BY <2>2, <2>3 DEF IsSeq
<1>6. IsSeq(TestnetOutline) /\ IsSeq(TransferOutline)
  <2>1. IsSeq(<<>>)
    <3>1. <<>> \in Seq({})
      OBVIOUS
    <3> QED BY <3>1 DEF IsSeq
  <2>2. ASSUME NEW x, NEW y PROVE IsSeq(<<x>>) /\ IsSeq(<<x, y>>)
    <3>1. <<x>> \in Seq({x, y}) /\ <<x, y>> \in Seq({x, y})
      OBVIOUS
    <3> QED BY <3>1 DEF IsSeq
  <2>3. IsSeq(<<<<"step", "set">>, <<"borrowing", market.wrappedNative>>>> \o <<<<"step", "set">>>>)
    BY <2>2, JoinedBoth
  <2>4. IsSeq(<<<<"step", "handover">>>> \o <<<<"step", "renounce">>>> \o <<<<"step", "check">>>>)
    BY <2>2, JoinedBoth
  <2> QED BY <2>1, <2>3, <2>4 DEF TestnetOutline, TransferOutline, If
<1>7. ASSUME NEW s \in FirstEdition
      PROVE  /\ <<"stable", s>> \in ToSet(stable) /\ <<"ceiling", s>> \in ToSet(c)
             /\ <<"isolation", s>> \in ToSet(d) /\ <<"fee", s>> \in ToSet(f)
  BY <1>1, FieldElements
<1>8. AfterDeployOutline = a \o b \o c \o d \o e \o f \o TestnetOutline \o TransferOutline
  BY DEF AfterDeployOutline
<1> HIDE DEF check, stable
<1>9. IsSeq(a) /\ ToSet(stable) \subseteq ToSet(a) /\ IsSeq(b)
  BY <1>2, <1>3, <1>5, JoinedBoth
<1> DEFINE ab == a \o b
           abc == ab \o c
           abcd == abc \o d
           abcde == abcd \o e
           abcdef == abcde \o f
           setup == abcdef \o TestnetOutline
           whole == setup \o TransferOutline
<1>10. AfterDeployOutline = whole
  BY <1>8
<1> HIDE DEF a, b, c, d, e, f
<1>11. IsSeq(ab) /\ ToSet(a) \subseteq ToSet(ab)
  BY <1>9, JoinedBoth
<1> HIDE DEF ab
<1>12. IsSeq(abc) /\ ToSet(ab) \subseteq ToSet(abc) /\ ToSet(c) \subseteq ToSet(abc)
  BY <1>3, <1>11, JoinedBoth
<1> HIDE DEF abc
<1>13. IsSeq(abcd) /\ ToSet(abc) \subseteq ToSet(abcd) /\ ToSet(d) \subseteq ToSet(abcd)
  BY <1>3, <1>12, JoinedBoth
<1> HIDE DEF abcd
<1>14. IsSeq(abcde) /\ ToSet(abcd) \subseteq ToSet(abcde) /\ ToSet(e) \subseteq ToSet(abcde)
  BY <1>4, <1>13, JoinedBoth
<1> HIDE DEF abcde
<1>15. IsSeq(abcdef) /\ ToSet(abcde) \subseteq ToSet(abcdef) /\ ToSet(f) \subseteq ToSet(abcdef)
  BY <1>3, <1>14, JoinedBoth
<1> HIDE DEF abcdef
<1>16. IsSeq(setup) /\ ToSet(abcdef) \subseteq ToSet(setup)
  BY <1>6, <1>15, JoinedBoth
<1> HIDE DEF setup
<1>17. ToSet(setup) \subseteq ToSet(whole)
  BY <1>6, <1>16, JoinedBoth
<1> HIDE DEF whole
<1>18. /\ ToSet(stable) \subseteq ToSet(whole) /\ ToSet(c) \subseteq ToSet(whole)
       /\ ToSet(d) \subseteq ToSet(whole) /\ ToSet(e) \subseteq ToSet(whole)
       /\ ToSet(f) \subseteq ToSet(whole)
  BY <1>9, <1>11, <1>12, <1>13, <1>14, <1>15, <1>16, <1>17
<1>19. ASSUME NEW x \in Flags \cup {"stable"}, NEW s \in FirstEdition
       PROVE  <<x, s>> \in ToSet(whole)
  BY <1>7, <1>18, AppliedNames
<1>20. ASSUME NEW i \in 1..Len(market.emodes), NEW s \in ToSet(market.emodes[i].assets)
       PROVE  <<"category", s>> \in ToSet(whole)
  BY <1>4, <1>18
<1>21. {"category"} \X UNION {ToSet(market.emodes[i].assets) : i \in 1..Len(market.emodes)}
         \subseteq ToSet(whole)
  BY <1>20
<1> QED BY <1>10, <1>19, <1>21 DEF SetUp

\* A script that is at its end has given all of it.
LEMMA AllGiven ==
  ASSUME TypeOK, NamesAgree, Proper, proc.pc \in Nat \ {0},
         NEW steps, NEW ops, SoundSteps(steps, ops), Passed(steps, Len(steps) + 1),
         Behind(Outline(steps), proc.pc, Given),
         NEW p \in ToSet(Outline(steps)), p \in Asked
  PROVE  p \in Given
<1>1. /\ Len(steps) \in Nat /\ Len(Outline(steps)) = Len(steps)
      /\ DOMAIN Outline(steps) = 1..Len(steps)
  <2>1. PICK S : steps \in Seq(S)
    BY DEF SoundSteps
  <2> QED BY <2>1, OutlineSeq DEF Outline
<1>2. Len(steps) + 1 \in Nat
  BY <1>1
<1>3. Behind(Outline(steps), Len(steps) + 1, Given)
  BY <1>2, PassedGiven
<1> DEFINE outline == Outline(steps)
<1>4. Behind(outline, Len(steps) + 1, Given) /\ p \in ToSet(outline)
  BY <1>3
<1>5. DOMAIN outline = 1..Len(outline) /\ Len(outline) = Len(steps)
  BY <1>1
<1> HIDE DEF outline
<1>6. PICK k \in 1..Len(outline) : p = outline[k]
  BY <1>4, <1>5 DEF ToSet
<1>7. k < Len(steps) + 1
  BY <1>1, <1>5
<1> QED BY <1>4, <1>6, <1>7 DEF Behind

\* At its first step a script has nothing behind it.
LEMMA BehindNothing == ASSUME NEW outline, NEW given PROVE Behind(outline, 1, given)
BY DEF Behind

\* Nothing is lost as long as the market asks for the same.
LEMMA SameGiven ==
  ASSUME UNCHANGED <<market, reserve>> PROVE Given' = Given /\ Proper' = Proper
BY DEF Given, Proper, Applied, Wanted, Wants

\* What the scripts that are done have given stays given.
LEMMA GivenDone ==
  ASSUME AppliedInv, Given \subseteq Given', UNCHANGED <<market, finished>>
  PROVE  /\ ("native_yield" \in finished => Distributed \subseteq Given)'
         /\ ("after_deploy" \in finished => SetUp \subseteq Given)'
<1>1. Distributed' = Distributed /\ SetUp' = SetUp
  BY DEF Distributed, SetUp, FirstEdition
<1> QED BY <1>1 DEF AppliedInv

\* A process that starts a script, or stops, has nothing behind it.
LEMMA AppliedFirst ==
  ASSUME Proper', proc'.pc = 1, handover' = "none",
         ("native_yield" \in finished => Distributed \subseteq Given)',
         ("after_deploy" \in finished => SetUp \subseteq Given)'
  PROVE  AppliedInv'
<1>1. /\ Behind(NativeYieldOutline', proc'.pc, Given')
      /\ Behind(AfterDeployOutline', proc'.pc, Given')
  BY BehindNothing
<1> QED BY <1>1 DEF AppliedInv

\* The distributors are there when their script is done.
LEMMA NativeYieldGiven ==
  ASSUME TypeOK, NamesAgree, ProcessInv, AppliedInv, At("native_yield"),
         Passed(NativeYieldSteps, Len(NativeYieldSteps) + 1)
  PROVE  Distributed \subseteq Given
<1> DEFINE steps == NativeYieldSteps
<1>1. SoundSteps(steps, {"distributor"}) /\ Outline(steps) = NativeYieldOutline
  BY NativeYieldSound, OutlineNativeYield
<1>2. Passed(steps, Len(steps) + 1)
  OBVIOUS
<1>3. Proper /\ proc.pc \in Nat \ {0} /\ Behind(NativeYieldOutline, proc.pc, Given)
  BY DEF AppliedInv, ProcessInv
<1>4. Distributed \subseteq ToSet(NativeYieldOutline) /\ Distributed \subseteq Asked
  BY NativeYieldElements, AskedOf
<1> HIDE DEF steps
<1>5. Behind(Outline(steps), proc.pc, Given)
  BY <1>1, <1>3
<1>6. ASSUME NEW p \in Distributed PROVE p \in Given
  <2>1. p \in ToSet(Outline(steps)) /\ p \in Asked
    BY <1>1, <1>4
  <2> QED BY <1>1, <1>2, <1>3, <1>5, <2>1, AllGiven
<1> QED BY <1>6

\* And the settings when the set-up is: its script runs after the reserves' own.
LEMMA AfterDeployGiven ==
  ASSUME TypeOK, NamesAgree, ProcessInv, QueueInv, ListedInv, AppliedInv, At("after_deploy"),
         Passed(AfterDeploySteps, Len(AfterDeploySteps) + 1)
  PROVE  SetUp \subseteq Given
<1> DEFINE steps == AfterDeploySteps
<1>1. SoundSteps(steps, HandoverOps) /\ Outline(steps) = AfterDeployOutline
  BY AfterDeploySound, OutlineAfterDeploy
<1>2. Passed(steps, Len(steps) + 1)
  OBVIOUS
<1>3. Proper /\ proc.pc \in Nat \ {0} /\ Behind(AfterDeployOutline, proc.pc, Given)
  BY DEF AppliedInv, ProcessInv
<1>4. FirstEdition \subseteq Listed
  <2>1. "init_reserves" \in Scripts
    <3>1. ScriptPaths[17] = "init_reserves" /\ 17 \in DOMAIN ScriptPaths
      BY DEF ScriptPaths
    <3> QED BY <3>1 DEF Scripts, ToSet
  <2>2. "init_reserves" \in finished
    BY <2>1, AfterTheOthers DEF Earlier
  <2>3. FirstEdition \subseteq Symbols
    BY FirstReserves
  <2> QED BY <2>2, <2>3 DEF ListedInv, ListedAsDeclared, Listed
<1>5. SetUp \subseteq ToSet(AfterDeployOutline) /\ SetUp \subseteq Asked
  BY <1>4, AfterDeployElements, AskedOf
<1> HIDE DEF steps
<1>6. Behind(Outline(steps), proc.pc, Given)
  BY <1>1, <1>3
<1>7. ASSUME NEW p \in SetUp PROVE p \in Given
  <2>1. p \in ToSet(Outline(steps)) /\ p \in Asked
    BY <1>1, <1>5
  <2> QED BY <1>1, <1>2, <1>3, <1>6, <2>1, AllGiven
<1> QED BY <1>7

\* A script that ends has given what it is there to give.
LEMMA EndScriptApplied ==
  ASSUME TypeOK, NamesAgree, ProcessInv, QueueInv, ListedInv, AppliedInv,
         Running, handover = "none", EndScript,
         Passed(StepsOf(ThisScript), Len(StepsOf(ThisScript)) + 1)
  PROVE  AppliedInv'
<1>1. /\ UNCHANGED <<market, reserve, handover>> /\ proc'.pc = 1
      /\ finished' \subseteq finished \cup {ThisScript}
  BY DEF EndScript, Idle, chain
<1>2. Given' = Given /\ Proper' = Proper
  BY <1>1, SameGiven
<1>3. Distributed' = Distributed /\ SetUp' = SetUp
  BY <1>1 DEF Distributed, SetUp, FirstEdition
<1>4. ASSUME ThisScript = "native_yield" PROVE Distributed \subseteq Given
  <2>1. At("native_yield") /\ StepsOf(ThisScript) = NativeYieldSteps
    BY <1>4 DEF At, StepsOf
  <2>2. Passed(NativeYieldSteps, Len(NativeYieldSteps) + 1)
    BY <2>1 DEF Passed
  <2> QED BY <2>1, <2>2, NativeYieldGiven
<1>5. ASSUME ThisScript = "after_deploy" PROVE SetUp \subseteq Given
  <2>1. At("after_deploy") /\ StepsOf(ThisScript) = AfterDeploySteps
    BY <1>5 DEF At, StepsOf
  <2>2. Passed(AfterDeploySteps, Len(AfterDeploySteps) + 1)
    BY <2>1 DEF Passed
  <2> QED BY <2>1, <2>2, AfterDeployGiven
<1>6. /\ "native_yield" \in finished' => Distributed \subseteq Given
      /\ "after_deploy" \in finished' => SetUp \subseteq Given
  BY <1>1, <1>4, <1>5 DEF AppliedInv
<1>7. Proper' /\ handover' = "none"
  BY <1>1, <1>2 DEF AppliedInv
<1> QED BY <1>1, <1>2, <1>3, <1>6, <1>7, AppliedFirst

\* A script that goes on has given what is behind it.
LEMMA PerformApplied ==
  ASSUME TypeOK, NamesAgree, ProcessInv, AppliedInv, Running, handover = "none",
         \A r \in Symbols : DOMAIN reserve[r] = DOMAIN NewReserve,
         NEW i \in proc.pc..Len(StepsOf(ThisScript)),
         Passed(StepsOf(ThisScript), i),
         StepsOf(ThisScript)[i].needs, StepsOf(ThisScript)[i].when,
         ~Refused(StepsOf(ThisScript)[i]), Perform(StepsOf(ThisScript)[i], i),
         UNCHANGED <<market, finished>>
  PROVE  AppliedInv'
<1> DEFINE steps == StepsOf(ThisScript)
           ops == OpsOf(ThisScript)
           s == steps[i]
<1>1. proc.pc \in Nat \ {0} /\ Proper
  BY DEF ProcessInv, AppliedInv
<1>2. SoundSteps(steps, ops) /\ Len(steps) \in Nat /\ Sound(s, ops)
  <2>1. SoundSteps(steps, ops)
    BY StepsSound
  <2>2. i \in proc.pc..Len(steps)
    OBVIOUS
  <2> HIDE DEF steps, ops
  <2>3. Len(steps) \in Nat /\ \A k \in 1..Len(steps) : Sound(steps[k], ops)
    BY <2>1, SoundEach
  <2>4. i \in 1..Len(steps)
    BY <1>1, <2>2, <2>3
  <2> QED BY <2>1, <2>3, <2>4
<1>3. i \in 1..Len(steps) /\ i \in Nat
  BY <1>1, <1>2
<1>4. Passed(steps, i) /\ s.needs /\ s.when /\ ~Refused(s) /\ Perform(s, i)
  OBVIOUS
<1> HIDE DEF steps, ops
<1>5. Given \subseteq Given'
  <2>1. \A r \in Symbols : \A f \in AppliedFields :
           reserve'[r][f] = reserve[r][f] \/ Wanted(f, r, reserve'[r][f])
    BY <1>2, <1>4, PerformWanted
  <2> QED BY <2>1, GivenStays
<1>6. Proper'
  BY <1>1, <1>2, <1>4, PerformProper
<1>7. /\ proc'.pc \in {i, i + 1} /\ proc'.queue = proc.queue
      /\ UNCHANGED handover \/ s.op = "handover"
  BY <1>4, PerformFrame
<1>8. ASSUME Behind(Outline(steps), proc.pc, Given)
      PROVE  Behind(Outline(steps), proc'.pc, Given')
  <2>1. Behind(Outline(steps), i, Given)
    BY <1>1, <1>2, <1>3, <1>4, <1>8, PassedGiven
  <2> QED BY <1>1, <1>2, <1>3, <1>4, <1>7, <2>1, PerformGiven
<1>9. ASSUME At("native_yield")' PROVE Behind(NativeYieldOutline', proc'.pc, Given')
  <2>1. At("native_yield")
    BY <1>7, <1>9 DEF At, Running, ThisScript
  <2>2. Outline(steps) = NativeYieldOutline
    BY <2>1, OutlineNativeYield DEF steps, At, StepsOf
  <2>3. NativeYieldOutline' = NativeYieldOutline
    BY OutlinesStay
  <2> QED BY <1>8, <2>1, <2>2, <2>3 DEF AppliedInv
<1>10. ASSUME At("after_deploy")'
       PROVE  /\ Behind(AfterDeployOutline', proc'.pc, Given')
              /\ handover' # "none" => /\ proc'.pc \in 1..Len(AfterDeployOutline')
                                       /\ AfterDeployOutline'[proc'.pc] = <<"step", "handover">>
  <2>1. At("after_deploy")
    BY <1>7, <1>10 DEF At, Running, ThisScript
  <2>2. Outline(steps) = AfterDeployOutline
    BY <2>1, OutlineAfterDeploy DEF steps, At, StepsOf
  <2>3. ops = HandoverOps
    BY <2>1 DEF ops, At, OpsOf
  <2>4. s.op # "initReserves"
    BY <1>2, <2>3 DEF Sound, PlainOps, HandoverOps
  <2>5. Listed' = Listed
    BY <1>2, <1>4, <2>4, PerformLeavesListed
  <2>6. AfterDeployOutline' = AfterDeployOutline
    BY <2>5, OutlinesStay
  <2>7. Behind(AfterDeployOutline', proc'.pc, Given')
    BY <1>8, <2>1, <2>2, <2>6 DEF AppliedInv
  <2>8. ASSUME s.op = "handover"
        PROVE  /\ proc'.pc \in 1..Len(AfterDeployOutline')
               /\ AfterDeployOutline'[proc'.pc] = <<"step", "handover">>
    <3>1. DOMAIN proc = {"queue", "pc", "todo", "any"}
      BY DEF TypeOK
    <3>2. proc'.pc = i
      BY <1>4, <2>8, <3>1, OpMoves DEF BeginHandover, GoTo
    <3>3. Len(Outline(steps)) = Len(steps) /\ Outline(steps)[i] = About(s)
      <4>1. PICK S : steps \in Seq(S)
        BY <1>2 DEF SoundSteps
      <4> QED BY <1>3, <4>1, OutlineSeq
    <3>4. About(s) = <<"step", "handover">>
      BY <2>8 DEF About
    <3> QED BY <1>3, <2>2, <2>6, <3>2, <3>3, <3>4
  <2> QED BY <1>7, <2>7, <2>8
<1>11. /\ ("native_yield" \in finished => Distributed \subseteq Given)'
       /\ ("after_deploy" \in finished => SetUp \subseteq Given)'
  BY <1>5, GivenDone
<1> QED BY <1>6, <1>9, <1>10, <1>11 DEF AppliedInv

\* The handover gives nothing to the reserves, and is no setting itself.
LEMMA HandoverApplied ==
  ASSUME TypeOK, ProcessInv, AppliedInv, Running, HandoverStep
  PROVE  AppliedInv'
<1>1. UNCHANGED <<market, reserve, finished>> /\ handover # "none"
  BY DEF HandoverStep, history, TransferAdapters, TransferAdmins, TransferACLAdmin,
         TransferContracts, TransferDefaultAdmin
<1>2. \/ handover' # "none" /\ proc' = proc
      \/ handover' = "none" /\ proc' = [proc EXCEPT !.pc = @ + 1]
  BY DEF HandoverStep, TransferAdapters, TransferAdmins, TransferACLAdmin,
         TransferContracts, TransferDefaultAdmin, HandOver, GiveRole, TakeRole
<1>3. /\ proc'.queue = proc.queue
      /\ proc'.pc = proc.pc \/ (handover' = "none" /\ proc'.pc = proc.pc + 1)
      /\ handover' # "none" => proc'.pc = proc.pc
  <2>1. DOMAIN proc = {"queue", "pc", "todo", "any"}
    BY DEF TypeOK
  <2> QED BY <1>2, <2>1
<1>4. Given' = Given /\ Proper'
  BY <1>1, SameGiven DEF AppliedInv
<1>5. ~At("native_yield")'
  <2>1. ThisScript' = ThisScript
    BY <1>3 DEF ThisScript
  <2>2. ThisScript # "native_yield"
    BY <1>1 DEF ProcessInv, OpsOf, ListingOps
  <2> QED BY <2>1, <2>2 DEF At
<1>6. ASSUME At("after_deploy")'
      PROVE  /\ Behind(AfterDeployOutline', proc'.pc, Given')
             /\ handover' # "none" => /\ proc'.pc \in 1..Len(AfterDeployOutline')
                                      /\ AfterDeployOutline'[proc'.pc] = <<"step", "handover">>
  <2>1. At("after_deploy")
    BY <1>3, <1>6 DEF At, Running, ThisScript
  <2>2. AfterDeployOutline' = AfterDeployOutline
    <3>1. Listed' = Listed
      BY <1>1 DEF Listed
    <3> QED BY <1>1, <3>1, OutlinesStay
  <2> DEFINE outline == AfterDeployOutline
  <2>3. /\ Behind(outline, proc.pc, Given) /\ proc.pc \in 1..Len(outline)
        /\ outline[proc.pc] = <<"step", "handover">>
    BY <1>1, <2>1 DEF AppliedInv
  <2>4. <<"step", "handover">> \notin Asked
    BY AppliedNames DEF Asked
  <2>5. proc.pc \in Nat
    BY DEF ProcessInv
  <2> HIDE DEF outline
  <2>6. Behind(outline, proc'.pc, Given)
    <3>1. CASE proc'.pc = proc.pc
      BY <2>3, <3>1
    <3>2. CASE proc'.pc = proc.pc + 1
      <4>1. \A k \in 1..Len(outline) : k < proc'.pc => k < proc.pc \/ k = proc.pc
        BY <2>5, <3>2
      <4> QED BY <2>3, <2>4, <4>1 DEF Behind
    <3> QED BY <1>3, <3>1, <3>2
  <2> QED BY <1>3, <1>4, <2>2, <2>3, <2>6 DEF outline
<1>7. /\ ("native_yield" \in finished => Distributed \subseteq Given)'
      /\ ("after_deploy" \in finished => SetUp \subseteq Given)'
  BY <1>1, <1>4, GivenDone
<1> QED BY <1>4, <1>5, <1>6, <1>7 DEF AppliedInv

\* A user takes nothing away.
LEMMA VisitApplied ==
  ASSUME TypeOK, AppliedInv, NEW s, Visit(s),
         \A r \in Symbols : DOMAIN reserve[r] = DOMAIN NewReserve
  PROVE  AppliedInv'
<1>1. PICK v : /\ UNCHANGED <<market, finished, proc, handover>>
               /\ reserve' = [reserve EXCEPT ![s].suppliers = v]
  BY VisitOnly
<1>2. \A r \in Symbols : \A f \in AppliedFields \cup {"borrowing", "listed"} :
         reserve'[r][f] = reserve[r][f]
  <2>1. DOMAIN reserve = Symbols
    BY DEF TypeOK
  <2>2. ASSUME NEW r \in Symbols
        PROVE  AppliedFields \cup {"borrowing", "listed"} \subseteq DOMAIN reserve[r]
    BY AppliedNames DEF NewReserve
  <2>3. "suppliers" \notin AppliedFields \cup {"borrowing", "listed"}
    BY AppliedNames
  <2>4. ASSUME NEW r \in Symbols, NEW f \in AppliedFields \cup {"borrowing", "listed"}
        PROVE  reserve'[r][f] = reserve[r][f]
    <3>1. f # "suppliers"
      BY <2>3
    <3>2. CASE r = s
      BY <1>1, <2>1, <2>2, <3>1, <3>2
    <3>3. CASE r # s
      BY <1>1, <2>1, <3>3
    <3> QED BY <3>2, <3>3
  <2> QED BY <2>4
<1>3. Given \subseteq Given'
  BY <1>1, <1>2, GivenStays
<1>4. Proper'
  <2>1. \A r \in Symbols : /\ reserve'[r]["stable"] = reserve[r]["stable"]
                           /\ reserve'[r]["borrowing"] = reserve[r]["borrowing"]
                           /\ \A f \in Flags : reserve'[r][f] = reserve[r][f]
    BY <1>2, AppliedNames
  <2>2. \A f, r : Wants(f, r)' = Wants(f, r)
    BY <1>1 DEF Wants
  <2> QED BY <2>1, <2>2 DEF AppliedInv, Proper
<1>5. NativeYieldOutline' = NativeYieldOutline /\ AfterDeployOutline' = AfterDeployOutline
  <2>1. \A r \in Symbols : reserve'[r]["listed"] = reserve[r]["listed"]
    BY <1>2
  <2>2. Listed' = Listed
    BY <2>1 DEF Listed
  <2> QED BY <1>1, <2>2, OutlinesStay
<1>6. \A outline, n : Behind(outline, n, Given) => Behind(outline, n, Given')
  BY <1>3 DEF Behind
<1>7. \A c : At(c)' => At(c)
  BY <1>1 DEF At, Running, ThisScript
<1>8. /\ ("native_yield" \in finished => Distributed \subseteq Given)'
      /\ ("after_deploy" \in finished => SetUp \subseteq Given)'
  BY <1>1, <1>3, GivenDone
<1>9. At("native_yield")' => Behind(NativeYieldOutline', proc'.pc, Given')
  BY <1>1, <1>5, <1>6, <1>7 DEF AppliedInv
<1>10. At("after_deploy")' =>
         /\ Behind(AfterDeployOutline', proc'.pc, Given')
         /\ handover' # "none" => /\ proc'.pc \in 1..Len(AfterDeployOutline')
                                  /\ AfterDeployOutline'[proc'.pc] = <<"step", "handover">>
  BY <1>1, <1>5, <1>6, <1>7 DEF AppliedInv
<1> QED BY <1>4, <1>8, <1>9, <1>10 DEF AppliedInv

\* The market file asks for the same when it grows.
LEMMA GrownApplied ==
  ASSUME TypeOK, AppliedInv, MarketFileGrows
  PROVE  AppliedInv'
<1>1. ~Running /\ UNCHANGED <<proc, finished, reserve>>
  BY DEF MarketFileGrows, Complete, history, chain
<1>2. /\ market'.params = market.params /\ market'.symbols = market.symbols
      /\ market'.later = market.later /\ market'.emodes = market.emodes
  BY DEF MarketFileGrows
<1>3. Given \subseteq Given'
  BY <1>1, <1>2, GivenStays
<1>4. Distributed' = Distributed /\ SetUp' = SetUp
  BY <1>2 DEF Distributed, SetUp, FirstEdition
<1>5. Proper'
  BY <1>1, <1>2 DEF AppliedInv, Proper, Wants
<1>6. \A c : ~At(c)'
  BY <1>1 DEF At, Running
<1> QED BY <1>1, <1>3, <1>4, <1>5, <1>6 DEF AppliedInv

\* Every step keeps the invariant.
LEMMA NextApplied ==
  ASSUME DeploymentInv, ProcessInv, QueueInv, ListedInv, NamesAgree, AppliedInv, [Next]_vars,
         \A r \in Symbols : DOMAIN reserve[r] = DOMAIN NewReserve
  PROVE  AppliedInv'
<1>1. TypeOK
  BY DEF DeploymentInv
<1>2. CASE ScriptStep
  <2>1. Running /\ handover = "none" /\ proc.pc \in Nat \ {0}
    BY <1>2 DEF ScriptStep, ProcessInv
  <2>2. CASE Stopped /\ UNCHANGED <<records, chain, market, executed, history>>
    <3>1. /\ UNCHANGED <<market, reserve, finished>>
          /\ proc'.pc = 1 /\ handover' = "none"
      BY <2>2 DEF Stopped, chain, history, Idle
    <3>2. Given' = Given /\ Proper'
      BY <3>1, SameGiven DEF AppliedInv
    <3> QED BY <3>1, <3>2, GivenDone, AppliedFirst
  <2>3. CASE Passed(StepsOf(ThisScript), Len(StepsOf(ThisScript)) + 1) /\ EndScript
    BY <1>1, <2>1, <2>3, EndScriptApplied
  <2>4. ASSUME NEW i \in proc.pc..Len(StepsOf(ThisScript)),
               Passed(StepsOf(ThisScript), i),
               StepsOf(ThisScript)[i].needs, StepsOf(ThisScript)[i].when,
               ~Refused(StepsOf(ThisScript)[i]), Perform(StepsOf(ThisScript)[i], i),
               UNCHANGED <<market, executed, history>>
        PROVE  AppliedInv'
    <3>1. UNCHANGED <<market, finished>>
      BY <2>4 DEF history
    <3> QED BY <1>1, <2>1, <2>4, <3>1, PerformApplied
  <2> QED BY <1>1, <1>2, <2>1, <2>2, <2>3, <2>4, ScriptStepCases
<1>3. CASE HandoverStep
  <2>1. Running
    BY <1>3 DEF HandoverStep, TransferAdapters, TransferAdmins, TransferACLAdmin,
         TransferContracts, TransferDefaultAdmin, DeploymentInv, HandoverInOrder
  <2> QED BY <1>1, <1>3, <2>1, HandoverApplied
<1>4. ASSUME handover' = "none", proc'.pc = 1, UNCHANGED <<market, reserve, finished>>
      PROVE  AppliedInv'
  <2>1. Given' = Given /\ Proper'
    BY <1>4, SameGiven DEF AppliedInv
  <2> QED BY <1>4, <2>1, GivenDone, AppliedFirst
<1>5. ASSUME NEW scripts, Begin(scripts) PROVE AppliedInv'
  <2>1. handover = "none"
    BY <1>5 DEF Begin, DeploymentInv, HandoverInOrder
  <2> QED BY <1>4, <1>5, <2>1 DEF Begin, history, chain, Idle
<1>6. CASE Crash
  BY <1>4, <1>6 DEF Crash, Stopped, Idle, chain
<1>7. CASE MarketFileGrows
  BY <1>1, <1>7, GrownApplied
<1>8. ASSUME NEW s, Visit(s) PROVE AppliedInv'
  BY <1>1, <1>8, VisitApplied
<1>9. CASE UNCHANGED vars
  <2>1. UNCHANGED <<market, reserve, finished, proc, handover>>
    BY <1>9 DEF vars, chain, history
  <2>2. Given' = Given /\ Proper' /\ Listed' = Listed
    BY <2>1, SameGiven DEF AppliedInv, Listed
  <2>3. NativeYieldOutline' = NativeYieldOutline /\ AfterDeployOutline' = AfterDeployOutline
    BY <2>1, <2>2, OutlinesStay
  <2>4. \A c : At(c)' => At(c)
    BY <2>1 DEF At, Running, ThisScript
  <2>5. /\ ("native_yield" \in finished => Distributed \subseteq Given)'
        /\ ("after_deploy" \in finished => SetUp \subseteq Given)'
    BY <2>1, <2>2, GivenDone
  <2> QED BY <2>1, <2>2, <2>3, <2>4, <2>5 DEF AppliedInv
<1> QED BY <1>2, <1>3, <1>5, <1>6, <1>7, <1>8, <1>9 DEF Next, Visit, ProcessStep, Deploying, RunTask

\* Nothing is given, and nothing has to be.
LEMMA InitApplied == Init => AppliedInv
<1> SUFFICES ASSUME Init PROVE AppliedInv
  OBVIOUS
<1>1. ~Running /\ finished = {}
  BY DEF Init, Running, Idle
<1>2. ASSUME NEW s \in Symbols
      PROVE  /\ reserve[s].stable = FALSE
             /\ \A f \in Flags : reserve[s][f] = FALSE
  <2>1. reserve[s] = NewReserve
    BY DEF Init
  <2> QED BY <2>1, AppliedNames DEF NewReserve
<1>3. Proper
  BY <1>2 DEF Proper
<1> QED BY <1>1, <1>3 DEF AppliedInv, At

\* A reserve that has one of its categories then has the one that it is to have.
LEMMA GivenDeclared ==
  ASSUME TypeOK, OneCategory, QueueInv, AppliedInv
  PROVE  AppliedAsDeclared
<1> SUFFICES ASSUME "after_deploy" \in finished PROVE AppliedAsDeclared
  BY DEF AppliedAsDeclared
<1>1. "native_yield" \in finished
  <2>1. ScriptPaths[24] = "native_yield" /\ 24 \in DOMAIN ScriptPaths
    BY DEF ScriptPaths
  <2>2. "native_yield" \in Earlier
    BY <2>1 DEF Scripts, ToSet, Earlier
  <2> QED BY <2>2 DEF QueueInv
<1>2. Distributed \subseteq Given /\ SetUp \subseteq Given /\ Proper
  BY <1>1 DEF AppliedInv
<1>3. \A f, s : <<f, s>> \in Given => Applied(f, s)
  BY DEF Given
<1>4. ASSUME NEW s \in FirstEdition
      PROVE  /\ reserve[s].stable = Wants("stable", s)
             /\ reserve[s].stable => reserve[s].borrowing
             /\ \A f \in {"ceiling", "isolation", "fee"} : reserve[s][f] = Wants(f, s)
             /\ reserve[s].distributor # "none"
  <2>1. s \in Symbols
    BY FirstReserves
  <2>2. <<"distributor", s>> \in Given
    BY <1>2 DEF Distributed
  <2>3. \A f \in Flags \cup {"stable"} : <<f, s>> \in Given
    BY <1>2 DEF SetUp
  <2>4. Applied("distributor", s) /\ \A f \in Flags \cup {"stable"} : Applied(f, s)
    BY <1>3, <2>2, <2>3
  <2>5. reserve[s].distributor # "none"
    BY <2>4 DEF Applied, Wanted
  <2>6. ASSUME NEW f \in Flags \cup {"stable"} PROVE reserve[s][f] = Wants(f, s)
    <3>1. f # "distributor" /\ f # "category"
      BY AppliedNames
    <3>2. Applied(f, s)
      BY <2>4
    <3> QED BY <3>1, <3>2 DEF Applied, Wanted
  <2>7. reserve[s].stable => reserve[s].borrowing
    BY <1>2, <2>1 DEF Proper
  <2> QED BY <2>5, <2>6, <2>7, AppliedNames
<1>5. ASSUME NEW i \in 1..Len(market.emodes), NEW s \in ToSet(market.emodes[i].assets)
      PROVE  reserve[s].category = market.emodes[i].id
  <2>1. <<"category", s>> \in SetUp
    BY DEF SetUp
  <2>2. Applied("category", s)
    BY <1>2, <1>3, <2>1
  <2>3. PICK j \in 1..Len(market.emodes) :
           s \in ToSet(market.emodes[j].assets) /\ reserve[s].category = market.emodes[j].id
    BY <2>2 DEF Applied, Wanted
  <2>4. market.emodes[i].id = market.emodes[j].id
    <3>1. PICK m \in Markets : market.emodes = m.emodes
      BY MarketCategories
    <3> QED BY <2>3, <3>1 DEF OneCategory
  <2> QED BY <2>3, <2>4
<1> QED BY <1>4, <1>5 DEF AppliedAsDeclared

\* When after-deploy is done the reserves have the stable rate, the ceiling, the
\* isolation, the fee, the distributor and the category that the market file asks
\* for, wherever earlier runs of the scripts stopped and whatever tasks and supplies
\* came in between, for market files that ask for one thing only: one category for
\* an asset, and the same stable rate for entries that a symbol may be taken for.
THEOREM DeclaredApplied ==
  ASSUME KnownTokens, NamesAgree, OneCategory
  PROVE  Spec => []AppliedAsDeclared
<1>1. DeploymentInv /\ ChainInv /\ HelperInv /\ [Next]_vars => HelperInv'
  BY NextHelper DEF ChainInv
<1>2. ChainInv /\ DeploymentInv /\ [Next]_vars => ChainInv'
  BY NextChain
<1>3. DeploymentInv /\ ChainInv /\ HelperInv /\ ListedInv /\ [Next]_vars => ListedInv'
  BY NextListed DEF ChainInv
<1>4. DeploymentInv /\ ChainInv /\ QueueInv /\ [Next]_vars => QueueInv'
  BY NextQueue DEF ChainInv
<1>5. DeploymentInv /\ ChainInv /\ HelperInv /\ QueueInv /\ ListedInv /\ AppliedInv /\ [Next]_vars
        => AppliedInv'
  BY NextApplied DEF ChainInv, HelperInv
<1>6. DeploymentInv /\ QueueInv /\ AppliedInv => AppliedAsDeclared
  BY GivenDeclared DEF DeploymentInv
<1> QED
  BY DeploymentCorrect, InitChain, InitHelper, InitListed, InitQueue, InitApplied,
     <1>1, <1>2, <1>3, <1>4, <1>5, <1>6, PTL DEF Spec
=============================================================================
