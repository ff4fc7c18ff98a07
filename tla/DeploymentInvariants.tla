------------------------ MODULE DeploymentInvariants ------------------------
(***************************************************************************)
(* The inductive invariants of a deployment, which MarketDeploymentProofs   *)
(* proves, and what they are made of: what is known of each step, how far   *)
(* each script has come at each of its steps, and what stays when it is     *)
(* done. In the order of the theorems that need them.                       *)
(***************************************************************************)
EXTENDS MarketDeployment

\* What NeverOrphaned asks of a step.
Keeps ==
  /\ \A id \in Ownables : owner[id] # Nobody => owner'[id] # Nobody
  /\ \A r \in Roles \ {"RISK_ADMIN"} : acl[r] # {} => acl'[r] # {}
  /\ \A id \in Ownables : owner[id] = Multisig => owner'[id] = Multisig

\* A user of a reserve supplies it, or leaves it.
Visit(s) == Supply(s) \/ Withdraw(s)

---------------------------------------------------------------------------
(* The steps that scripts are made of *)

\* The contracts that the pool's proxies are found at.
ProxySlots == {<<"POOL">>, <<"POOL_CONFIGURATOR">>, <<"INCENTIVES_CONTROLLER">>}

\* The implementation that the aTokens are upgraded to.
NewToken == <<"AToken-REV2">>

\* The kinds of step that any script may have.
PlainOps ==
  {"deploy", "initialize", "set", "save", "transfer", "check", "local", "configure"}

\* The settings of a reserve that steps change one by one, and the one that only
\* the upgrade changes.
SetFields ==
  {"stable", "borrowing", "ceiling", "isolation", "fee", "category", "rates", "cap",
   "revision", "distributor"}
PlainFields == SetFields \ {"revision"}

\* The settings of a market file that are on or off, and those that the set-up and
\* the distributors give the reserves.
Flags == {"ceiling", "isolation", "fee"}
AppliedFields == Flags \cup {"stable", "category", "distributor"}

\* A value that the market file asks a reserve to have: an asset may have any of
\* the categories it is in, a reserve any distributor.
Wanted(f, s, v) ==
  CASE f = "distributor" -> v # "none"
    [] f = "category"    -> \E i \in 1..Len(market.emodes) :
                              s \in ToSet(market.emodes[i].assets) /\ v = market.emodes[i].id
    [] OTHER             -> v = Wants(f, s)
Applied(f, s) == Wanted(f, s, reserve[s][f])

\* Entries of a market file that a token's symbol may be taken for ask the same
\* of its stable borrowing.
NamesAgree ==
  \A m \in Markets : \A s \in ToSet(m.symbols) : \A n \in m.names[s] \cap ToSet(m.symbols) :
    m.params[n].stable = m.params[s].stable

\* A step that gives a reserve what the market file asks for, and that is passed
\* over when the reserve has it or the file does not ask for it.
Apt(s) ==
  LET f == s.id[1]
      r == s.id[2]
  IN /\ f = "borrowing" => s.val = FALSE
     /\ f \in AppliedFields /\ s.needs =>
          IF s.when THEN Wanted(f, r, s.val)
                    ELSE Applied(f, r) \/ (f \in Flags /\ Wants(f, r) = FALSE)

\* What the theorems need to know of a step: its kind; that nothing that a
\* proxy is found at is set to nothing, and the ACL's admin to nobody but the
\* deployer; that no record of a contract with an owner is written without it,
\* and the provider's not before its market has its addresses; the roles that
\* are given and the settings that are changed; what a script remembers; that
\* only the upgrade records the new aToken and changes what an aToken is; and that
\* it gives a reserve what the market file asks for.
Sound(s, ops) ==
  /\ s.op \in PlainOps \cup ops
  /\ s.op = "set" /\ s.id \in ProxySlots => s.val # Nothing
  /\ s.op = "set" /\ s.id = <<"ACL_ADMIN">> => s.val = Deployer
  /\ s.op = "save" => s.id \cap Ownables = {}
  /\ s.op \in {"deploy", "save"} /\ "upgrade" \notin ops => NewToken \notin s.id
  /\ s.op = "deploy" /\ GetPoolAddressesProvider \in s.id /\ s.needs
       => ReserveAddresses = Reserves
  /\ s.op = "distributor" => s.id[1] = "NativeYieldDistribute"
  /\ s.op = "grant" => s.id \in {"POOL_ADMIN", "EMERGENCY_ADMIN"}
  /\ s.op = "configure" => s.id[1] \in SetFields /\ (s.id[1] = "cap" => s.val # 0)
  /\ s.op = "configure" /\ "upgrade" \notin ops => s.id[1] \in PlainFields
  /\ s.op = "configure" /\ TypeOK /\ NamesAgree => Apt(s)
  /\ s.op = "local" => /\ s.val.todo \in Seq(Symbols)
                       /\ ToSet(s.val.todo) \subseteq ToSet(market.symbols)

\* A sequence of such steps.
SoundSteps(seq, ops) == \E S : seq \in Seq(S) /\ \A s \in S : Sound(s, ops)

---------------------------------------------------------------------------
(* The scripts and the tasks *)

\* What lists and configures reserves.
ListingOps == {"initReserves", "addRiskAdmin", "configureReserves", "removeRiskAdmin"}

\* What hands a market over.
HandoverOps == {"handover", "renounce"}

\* The kinds of step that only some scripts and tasks have.
OpsOf(c) ==
  CASE c \in {"init_reserves", "add-new-asset"}            -> ListingOps
    [] c \in {"native_yield", "deploy-yield-distributor"}  -> {"distributor"}
    [] c = "acl"                                           -> {"grant"}
    [] c = "after_deploy"                                  -> HandoverOps
    [] c \in {"upgrade-atokens-and-review", "upgrade-atokens-and-review --revision other"}
                                                           -> {"upgrade"}
    [] c = "transfer-protocol-ownership"                   -> {"handover"}
    [] c = "renounce-pool-admin"                           -> {"renounce"}
    [] c = "transfer-ownership"                            -> {"handOne"}
    [] OTHER                                               -> {}

---------------------------------------------------------------------------
(* How a script goes on *)

\* The steps from the present one up to n are passed over.
Passed(steps, n) == \A j \in proc.pc..Len(steps) : j < n => steps[j].needs /\ ~steps[j].when

---------------------------------------------------------------------------
(* The records follow the chain *)

\* The process is in a script.
At(c) == Running /\ ThisScript = c

\* The process is at some step, and in the handover only in a script that has it.
ProcessInv ==
  /\ proc.pc \in Nat \ {0}
  /\ handover # "none" => "handover" \in OpsOf(ThisScript)

\* How far init-pool and the incentives script have come, a crash between any
\* two of their steps included.
PoolProgress ==
  /\ proc.pc > 1 => slots[<<"POOL">>] # Nothing
  /\ proc.pc > 2 => GetPool \in records
  /\ proc.pc > 3 => slots[<<"POOL_CONFIGURATOR">>] # Nothing
  /\ proc.pc > 4 => GetPoolConfiguratorProxy \in records
IncentivesProgress ==
  /\ proc.pc > 3 => proc.any \/ slots[<<"INCENTIVES_CONTROLLER">>] # Nothing
  /\ proc.pc > 4 => slots[<<"INCENTIVES_CONTROLLER">>] # Nothing
  /\ proc.pc > 6 => GetIncentivesV2 \in records

\* The invariant: the process at a step of its script, with behind it what the two
\* scripts that make proxies have made, and the promise for those that are done.
ChainInv ==
  /\ ProcessInv
  /\ At("init_pool") => PoolProgress
  /\ At("incentives") => IncentivesProgress
  /\ RecordsFollowChain

\* A proxy, once made, is not unmade, nor is its record.
ChainGrows ==
  /\ \A p \in ProxySlots : slots[p] # Nothing => slots'[p] # Nothing
  /\ \A id \in records : id[1] # "NativeYieldDistribute" => id \in records'

---------------------------------------------------------------------------
(* The helper has its role no longer than its command *)

\* What lists reserves, and how many steps come before the listing.
Listers == {"init_reserves", "add-new-asset"}
Before(c) == IF c = "init_reserves" THEN 2 ELSE 1

\* No crash, and nobody supplies a reserve that is configured without a threshold.
Untroubled == crashes = 0 /\ \A s \in Symbols : reserve[s].suppliers # "none" => Wants("collateral", s)

\* The process is at the transactions of the helper or the one that removes it, and
\* nothing can stop it there.
LeavesSoon ==
  /\ Running /\ ThisScript \in Listers /\ ReserveAddresses # {} /\ proc.any
  /\ proc.pc \in {Before(ThisScript) + 5, Before(ThisScript) + 6}
  /\ MayGrant /\ slots[<<"ACL_ADMIN">>] = Deployer

\* The invariant: what is to do are reserves, the pool keeps of each what it keeps
\* of a new one, and the helper that has the role is about to lose it.
HelperInv ==
  /\ proc.todo \in Seq(Symbols)
  /\ \A s \in Symbols : DOMAIN reserve[s] = DOMAIN NewReserve
  /\ SetupHelper \in acl["RISK_ADMIN"] /\ Untroubled => LeavesSoon

\* The seven steps that list and configure reserves.
Listing == InitReservesByHelper \o ConfigureReservesByHelper \o SavePoolTokens

---------------------------------------------------------------------------
(* What init-reserves lists and configures *)

\* The listing and the configuration of a reserve are not taken back.
ReserveKept(r) ==
  /\ reserve[r].listed => reserve'[r].listed
  /\ reserve[r].cap # 0 => reserve'[r].cap # 0
  /\ \/ reserve'[r].collateral = reserve[r].collateral
     \/ reserve'[r].collateral = Wants("collateral", r) /\ reserve'[r].cap # 0

\* Every reserve of a market file has an aToken of a kind that the helper knows.
KnownTokens ==
  \A m \in Markets : \A s \in ToSet(m.symbols) : m.params[s].aTokenImpl # "none"

\* A reserve has the collateral configuration of the market file.
Declared(s) == reserve[s].collateral = Wants("collateral", s) /\ reserve[s].cap # 0

\* What init-reserves has done before step n.
ReservesProgress(n) ==
  /\ n > 1 => GetPoolAddressesProvider \in records
  /\ \A s \in FirstEdition :
       /\ n > 3 => reserve[s].listed \/ (n = 4 /\ s \in ToSet(proc.todo))
       /\ n > 5 /\ ~Wants("noLTV", s) =>
            Declared(s) \/ (n \in {6, 7} /\ s \in ToSet(proc.todo))

\* The invariant: until init-reserves is done all reserves have an address once the
\* provider is there, what is collateral is so as declared, and it has done its part.
ListedInv ==
  /\ GetPoolAddressesProvider \in records =>
       "init_reserves" \in finished \/ ReserveAddresses = Reserves
  /\ \A s \in Symbols : reserve[s].collateral => Declared(s)
  /\ At("init_reserves") => "init_reserves" \in finished \/ ReservesProgress(proc.pc)
  /\ ListedAsDeclared

---------------------------------------------------------------------------
(* The order of the scripts *)

\* The scripts before after-deploy.
Earlier == Scripts \ {"after_deploy"}

\* Of each script a queue that it is in, with after-deploy in none but its own,
\* which is of nothing else.
Apart(queued) ==
  /\ queued \in [Scripts -> Seq(Scripts)]
  /\ \A c \in Scripts : c \in ToSet(queued[c])
  /\ \A c \in Earlier : "after_deploy" \notin ToSet(queued[c])
  /\ ToSet(queued["after_deploy"]) \subseteq {"after_deploy"}

\* After-deploy waits for the others: they are done or before it in the queue.
QueueInv ==
  /\ proc.queue \in Seq(Scripts \cup TaskCommands)
  /\ \A i, j \in 1..Len(proc.queue) :
       i < j /\ proc.queue[i] = "after_deploy" => proc.queue[j] = "after_deploy"
  /\ "after_deploy" \in ToSet(proc.queue) => Earlier \subseteq finished \cup ToSet(proc.queue)
  /\ "after_deploy" \in finished => Earlier \subseteq finished

---------------------------------------------------------------------------
(* Who owns the contracts and has the roles *)

\* Who may have them, and the roles that are kept.
Holders == {Deployer, Multisig}
Admins == {"DEFAULT_ADMIN", "POOL_ADMIN", "EMERGENCY_ADMIN"}

\* The provider's admin of the ACL is one of the two, and so is one of each role.
AdminHeld == slots[<<"ACL_ADMIN">>] \in Holders
RoleHeld(r) == acl[r] \cap Holders # {}

\* The deployer can no longer give itself a role.
DeployerOut ==
  /\ owner[GetPoolAddressesProvider] = Multisig /\ slots[<<"ACL_ADMIN">>] = Multisig
  /\ Deployer \notin acl["DEFAULT_ADMIN"] /\ Deployer \notin acl["POOL_ADMIN"]

\* What has a record is owned by one of the two, what has none may be by nobody.
Owned ==
  \A id \in Ownables : /\ owner[id] \in Holders \cup {Nobody}
                       /\ id \in records => owner[id] # Nobody

\* How far the script that sets the ACL up has come.
AclProgress ==
  /\ proc.pc > 1 => AdminHeld
  /\ proc.pc > 6 => \A r \in Admins : RoleHeld(r)

\* The invariant: contracts have such an owner and, once the ACL is set up, roles
\* such a member.
HeldInv ==
  /\ Owned
  /\ acl["POOL_ADMIN"] \subseteq Holders
  /\ At("acl") => AclProgress
  /\ "acl" \in finished => AdminHeld /\ \A r \in Admins : RoleHeld(r)

\* What no step changes of that.
HoldersKept ==
  /\ \A r \in Admins : /\ Multisig \in acl[r] => Multisig \in acl'[r]
                       /\ RoleHeld(r) => RoleHeld(r)'
  /\ AdminHeld => AdminHeld'
  /\ DeployerOut => DeployerOut'
  /\ acl'["POOL_ADMIN"] \subseteq Holders

---------------------------------------------------------------------------
(* How many steps the set-up has *)

\* A group, of the same length, for each element of a sequence that is in a set.
Groups(seq, T, group) == FlattenSeq([i \in 1..Len(seq) |-> If(seq[i] \in T, group)])

\* Two steps for each of them.
PairParts(seq, T, one, two, parts) ==
  parts = [i \in 1..Len(seq) |-> If(seq[i] \in T, <<one[i], two[i]>>)]

\* A step for each category and one for each of its assets.
CategoryGroups(emodes) ==
  FlattenSeq([i \in 1..Len(emodes) |-> <<0>> \o [j \in 1..Len(emodes[i].assets) |-> 0]])

\* What after-deploy does before the market is handed over.
Setup ==
  ReviewStableBorrow \o ReviewRateStrategies(FALSE) \o SetupDebtCeiling
  \o SetupIsolationMode \o SetupEModes \o SetupLiquidationProtocolFee
  \o If(IsTestnetMarket,
        DisableFaucetNativeTestnets
        \o <<Set(<<"UNPAUSED">>, GetPoolConfiguratorProxy, Recorded({GetPoolConfiguratorProxy}))>>)

\* How many steps that is: it depends on the market file and on which reserves
\* are listed.
SetupSteps ==
  LET listed == Len(Groups(market.symbols, Listed, <<0>>))
      twice  == Len(Groups(market.symbols, Listed, <<0, 0>>))
      each   == Len(Groups(market.symbols, Reserves, <<0>>))
  IN 1 + listed + 1 + twice + each + each + Len(CategoryGroups(market.emodes)) + each
     + IF IsTestnetMarket THEN 3 ELSE 0

---------------------------------------------------------------------------
(* The stages of the handover *)

\* The market is the multisig's.
Handed ==
  /\ market.multisig = Multisig
  /\ \A id \in HandoverRecords : owner[id] = Multisig
  /\ slots[<<"ACL_ADMIN">>] = Multisig
  /\ \A r \in Admins : Multisig \in acl[r]
  /\ Deployer \notin acl["DEFAULT_ADMIN"] /\ Deployer \notin acl["POOL_ADMIN"]

\* The order in which it becomes that.
StageOf(h) ==
  CASE h = "repayAdapter"         -> 1
    [] h = "swapAdapter"          -> 2
    [] h = "addEmergencyAdmin"    -> 3
    [] h = "removeEmergencyAdmin" -> 4
    [] h = "addPoolAdmin"         -> 5
    [] h = "removePoolAdmin"      -> 6
    [] h = "setACLAdmin"          -> 7
    [] h = "provider"             -> 8
    [] h = "registry"             -> 9
    [] h = "gateway"              -> 10
    [] h = "emissionManager"      -> 11
    [] h = "grantDefaultAdmin"    -> 12
    [] h = "revokeDefaultAdmin"   -> 13
    [] OTHER                      -> 14

\* What the multisig has by then.
HandedUpTo(n) ==
  /\ n > 1 => owner[<<"ParaSwapRepayAdapter">>] = Multisig
  /\ n > 2 => owner[<<"ParaSwapLiquiditySwapAdapter">>] = Multisig
  /\ n > 4 => Multisig \in acl["EMERGENCY_ADMIN"]
  /\ n > 6 => Multisig \in acl["POOL_ADMIN"] /\ Deployer \notin acl["POOL_ADMIN"]
  /\ n > 7 => slots[<<"ACL_ADMIN">>] = Multisig
  /\ n > 8 => owner[GetPoolAddressesProvider] = Multisig
  /\ n > 9 => owner[GetPoolAddressesProviderRegistry] = Multisig
  /\ n > 10 => owner[GetWrappedTokenGateway] = Multisig
  /\ n > 11 => owner[GetEmissionManager] = Multisig
  /\ n > 13 => Multisig \in acl["DEFAULT_ADMIN"] /\ Deployer \notin acl["DEFAULT_ADMIN"]

\* A handover that is under way has done the stages before the one it is at.
HandoverProgress ==
  "acl" \in finished /\ handover # "none" =>
    HandoverRecords \subseteq records /\ HandedUpTo(StageOf(handover))

\* Behind the handover after-deploy has handed the market over.
AfterProgress ==
  At("after_deploy") /\ market.transfer /\ handover = "none" /\ proc.pc > SetupSteps + 1 => Handed

\* The invariant: the market is handed over by the stages, and stays so.
HandedInv ==
  /\ HandoverProgress
  /\ AfterProgress
  /\ "after_deploy" \in finished /\ market.transfer => Handed

---------------------------------------------------------------------------
(* One revision of the aTokens *)

\* The task that upgrades them, and the same task asked for another revision, which
\* an operator of the market may run.
Upgrade == "upgrade-atokens-and-review"
Misnumbered == "upgrade-atokens-and-review --revision other"
MayMisnumber == Misnumbered \in market.commands

\* The listed reserves that are promised one implementation, and those that the
\* upgrade takes to the new one before it can meet a reserve that has it.
Alike == {s \in Listed : ~MayDiffer(s)}
Leading == IF MayMisnumber THEN Listed \ market.later ELSE Listed

\* The step that upgrades one aToken, those for a set, those of the task, and those
\* for the leading ones, which come first.
UpgradeStep(s) == Configure("revision", s, 2, TRUE, TRUE)
StepsFor(T) ==
  FlattenSeq([i \in 1..Len(market.symbols) |->
                If(market.symbols[i] \in T, <<UpgradeStep(market.symbols[i])>>)])
AllSteps == StepsFor(Listed \ market.later) \o StepsFor(Listed \cap market.later)
TokenSteps == IF MayMisnumber THEN StepsFor(Listed \ market.later) ELSE AllSteps

\* What performing a step does with what is listed and its revision.
Revised(r) == reserve'[r].listed = reserve[r].listed /\ reserve'[r].revision = reserve[r].revision

\* The reserves whose upgrade is still to come at step n of the task, and some that
\* are all at one revision.
Pending(n) ==
  {s \in Symbols : \E j \in 1..Len(TokenSteps) : j + 2 >= n /\ TokenSteps[j] = UpgradeStep(s)}
AllAt(T, n) == \A s \in T : reserve[s].revision = n

\* The process is among the upgrades, which an admin of the pool makes.
Upgrading ==
  /\ At(Upgrade) /\ Deployer \in acl["POOL_ADMIN"]
  /\ proc.pc \in 3..Len(TokenSteps) + 2
  /\ \A s \in Leading : reserve[s].revision = IF s \in Pending(proc.pc) THEN 1 ELSE 2

\* Without a crash the aTokens are of one revision, the old one where nothing was
\* upgraded when the new one was recorded, or the process is among the upgrades.
Among == At(Upgrade) /\ proc.pc > 2
OneRevision ==
  \/ NewToken \notin records /\ AllAt(Leading, 1)
  \/ NewToken \in records /\ AllAt(Alike, 2)
  \/ /\ NewToken \in records /\ AllAt(Leading, 1)
     /\ (MayMisnumber /\ ~Among) \/ Deployer \notin acl["POOL_ADMIN"]
  \/ NewToken \in records /\ Upgrading

\* The invariant: the market's reserves are listed; the ACL's script is recorded,
\* and not queued again, when an upgrade comes, which records the new
\* implementation first, with the first edition listed; and without a crash there is
\* one revision.
RevisionInv ==
  /\ Listed \cup ToSet(proc.todo) \subseteq ToSet(market.symbols)
  /\ "acl" \in finished => "acl" \in executed
  /\ \A task \in {Upgrade, Misnumbered} \cap ToSet(proc.queue) :
       Earlier \subseteq finished /\ "acl" \notin ToSet(proc.queue) /\ task \in market.commands
  /\ NewToken \in records =>
       "acl" \in executed /\ "acl" \notin ToSet(proc.queue) /\ FirstEdition \subseteq Listed
  /\ Among => NewToken \in records
  /\ crashes = 0 => OneRevision

---------------------------------------------------------------------------
(* What the set-up and the distributors apply *)

\* What a step is about, whatever the state it is reached in: the setting that it
\* configures, or its kind.
About(s) == IF s.op = "configure" THEN s.id ELSE <<"step", s.op>>
Outline(seq) == [k \in 1..Len(seq) |-> About(seq[k])]

\* A group for each element of a sequence that is in a set.
Chosen(seq, T, group) == FlattenSeq([i \in 1..Len(seq) |-> If(seq[i] \in T, group[i])])
AllSound(n, group, ops) == \A i \in 1..n : SoundSteps(group[i], ops)

\* The steps that set one field of each reserve of a set, and the others of the two
\* scripts: they depend on the market file and on which reserves are listed.
FieldOutline(f, T) ==
  Chosen(market.symbols, T, [i \in 1..Len(market.symbols) |-> <<<<f, market.symbols[i]>>>>])
StrategyOutline ==
  Chosen(market.symbols, Listed,
         [i \in 1..Len(market.symbols) |-> <<<<"step", "save">>, <<"rates", market.symbols[i]>>>>])
CategoryOutline ==
  FlattenSeq([i \in 1..Len(market.emodes) |->
                <<<<"step", "set">>>>
                \o [j \in 1..Len(market.emodes[i].assets) |->
                      <<"category", market.emodes[i].assets[j]>>]])
TestnetOutline ==
  If(IsTestnetMarket,
     <<<<"step", "set">>, <<"borrowing", market.wrappedNative>>>> \o <<<<"step", "set">>>>)
TransferOutline ==
  If(market.transfer,
     <<<<"step", "handover">>>> \o <<<<"step", "renounce">>>> \o <<<<"step", "check">>>>)
AfterDeployOutline ==
  (<<<<"step", "check">>>> \o FieldOutline("stable", Listed))
  \o (<<<<"step", "check">>>> \o StrategyOutline)
  \o FieldOutline("ceiling", Reserves) \o FieldOutline("isolation", Reserves)
  \o CategoryOutline \o FieldOutline("fee", Reserves) \o TestnetOutline \o TransferOutline
NativeYieldOutline ==
  Chosen(market.symbols, Reserves,
         [i \in 1..Len(market.symbols) |->
            <<<<"step", "distributor">>, <<"distributor", market.symbols[i]>>>>])

\* The settings that the market file asks for, those of them that the reserves have,
\* and what a script has given when the steps before step n are behind it.
Asked == AppliedFields \X Symbols
Given == {p \in Asked : Applied(p[1], p[2])}
Behind(outline, n, given) ==
  \A k \in 1..Len(outline) : k < n /\ outline[k] \in Asked => outline[k] \in given

\* A reserve has a stable rate only where it can be borrowed, and no flag that the
\* market file does not give it.
Proper ==
  \A s \in Symbols : /\ reserve[s].stable => reserve[s].borrowing
                     /\ \A f \in Flags : reserve[s][f] \in {FALSE, Wants(f, s)}

\* What the reserves have when the distributors are there and the set-up is done.
Distributed == {"distributor"} \X FirstEdition
SetUp ==
  ((Flags \cup {"stable"}) \X FirstEdition)
  \cup ({"category"} \X UNION {ToSet(market.emodes[i].assets) : i \in 1..Len(market.emodes)})

\* The invariant: the two scripts have given what is behind them, and what they have
\* given when they are done stays given.
AppliedInv ==
  /\ Proper
  /\ At("native_yield") => Behind(NativeYieldOutline, proc.pc, Given)
  /\ At("after_deploy") =>
       /\ Behind(AfterDeployOutline, proc.pc, Given)
       /\ handover # "none" => /\ proc.pc \in 1..Len(AfterDeployOutline)
                               /\ AfterDeployOutline[proc.pc] = <<"step", "handover">>
  /\ "native_yield" \in finished => Distributed \subseteq Given
  /\ "after_deploy" \in finished => SetUp \subseteq Given

\* No asset is in two categories of its market.
OneCategory ==
  \A m \in Markets : \A i, j \in 1..Len(m.emodes) :
    ToSet(m.emodes[i].assets) \cap ToSet(m.emodes[j].assets) # {} =>
      m.emodes[i].id = m.emodes[j].id
=============================================================================
