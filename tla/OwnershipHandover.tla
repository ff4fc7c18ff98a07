------------------------- MODULE OwnershipHandover -------------------------
(***************************************************************************)
(* How the deployer gives a market away: the tasks that transfer its       *)
(* contracts and roles to POOL_ADMIN of the network (market.multisig), and *)
(* the report on who holds what. transfer-protocol-ownership tests each    *)
(* contract and role when it comes to it, so it has an action for each;    *)
(* "handover" is the next one.                                             *)
(***************************************************************************)
EXTENDS MarketTasks

\* The records the task looks up before it tests anything. No script of the
\* repository makes the two of ParaSwap.
HandoverRecords ==
  {GetPoolAddressesProvider, GetPoolAddressesProviderRegistry, GetWrappedTokenGateway,
   GetEmissionManager, <<"ParaSwapLiquiditySwapAdapter">>, <<"ParaSwapRepayAdapter">>}

\* It exits without a multisig, when the provider is the multisig's already,
\* and when it is neither's.
HandoverExits == market.multisig = Nobody \/ owner[GetPoolAddressesProvider] # Deployer
TransferProtocolOwnership == 
  <<Step("handover", Nothing, Nothing, Recorded(HandoverRecords), TRUE)>>

\* transferOwnership of one contract, if it is the deployer's.
HandOver(id, next) ==
  /\ owner' = IF owner[id] = Deployer THEN [owner EXCEPT ![id] = market.multisig] ELSE owner
  /\ handover' = next
  /\ UNCHANGED <<acl, slots, proc>>

MayGrant == Deployer \in acl["DEFAULT_ADMIN"]

\* Mutant: the role is not given before it is taken.
GiveRole_Skips(role, take, next) ==
  /\ handover' = IF Deployer \in acl[role] THEN take ELSE next
  /\ UNCHANGED <<owner, acl, slots, proc>>

\* A role of the deployer's is given to the multisig, then taken from the
\* deployer; both need DEFAULT_ADMIN, without which the task would stop here.
GiveRole(role, take, next) ==
  /\ Deployer \in acl[role] => MayGrant
  /\ IF Deployer \in acl[role]
       THEN acl' = [acl EXCEPT ![role] = @ \cup {market.multisig}] /\ handover' = take
       ELSE handover' = next /\ UNCHANGED acl
  /\ UNCHANGED <<owner, slots, proc>>

\* Mutant: the deployer keeps the role.
TakeRole_Keeps(role, next) ==
  /\ handover' = next
  /\ UNCHANGED <<owner, acl, slots, proc>>

TakeRole(role, next) ==
  /\ acl' = [acl EXCEPT ![role] = @ \ {Deployer}]
  /\ handover' = next
  /\ UNCHANGED <<owner, slots, proc>>

TransferAdapters ==
  \/ handover = "repayAdapter" /\ HandOver(<<"ParaSwapRepayAdapter">>, "swapAdapter")
  \/ /\ handover = "swapAdapter"
     /\ HandOver(<<"ParaSwapLiquiditySwapAdapter">>, "addEmergencyAdmin")

TransferAdmins ==
  \/ /\ handover = "addEmergencyAdmin"
     /\ GiveRole("EMERGENCY_ADMIN", "removeEmergencyAdmin", "addPoolAdmin")
  \/ handover = "removeEmergencyAdmin" /\ TakeRole("EMERGENCY_ADMIN", "addPoolAdmin")
  \/ /\ handover = "addPoolAdmin"
     /\ GiveRole("POOL_ADMIN", "removePoolAdmin", "setACLAdmin")
  \/ handover = "removePoolAdmin" /\ TakeRole("POOL_ADMIN", "setACLAdmin")

\* setACLAdmin is the provider's owner's, which the deployer still is.
TransferACLAdmin ==
  /\ handover = "setACLAdmin"
  /\ slots' = IF slots[<<"ACL_ADMIN">>] = Deployer
                THEN [slots EXCEPT ![<<"ACL_ADMIN">>] = market.multisig] ELSE slots
  /\ handover' = "provider"
  /\ UNCHANGED <<owner, acl, proc>>

TransferContracts ==
  \/ handover = "provider" /\ HandOver(GetPoolAddressesProvider, "registry")
  \/ handover = "registry" /\ HandOver(GetPoolAddressesProviderRegistry, "gateway")
  \/ handover = "gateway" /\ HandOver(GetWrappedTokenGateway, "emissionManager")
  \/ handover = "emissionManager" /\ HandOver(GetEmissionManager, "grantDefaultAdmin")

\* DEFAULT_ADMIN goes last; the task then prints its results and ends.
TransferDefaultAdmin ==
  \/ /\ handover = "grantDefaultAdmin"
     /\ GiveRole("DEFAULT_ADMIN", "revokeDefaultAdmin", "results")
  \/ handover = "revokeDefaultAdmin" /\ TakeRole("DEFAULT_ADMIN", "results")
  \/ /\ handover = "results"
     /\ handover' = "none"
     /\ proc' = [proc EXCEPT !.pc = @ + 1]
     /\ UNCHANGED <<owner, acl, slots>>

HandoverStep ==
  /\ \/ TransferAdapters \/ TransferAdmins \/ TransferACLAdmin
     \/ TransferContracts \/ TransferDefaultAdmin
  /\ UNCHANGED <<market, disk, initialized, reserve, history>>

---------------------------------------------------------------------------
\* renounce-pool-admin gives the role up only if the multisig has it too.
RenouncePoolAdmin ==
  <<Step("renounce", Nothing, Nothing,
         market.multisig # Nobody /\ Recorded({GetPoolAddressesProvider}), TRUE)>>
\* Mutant: whoever else has it.
Renounced_Always == [acl EXCEPT !["POOL_ADMIN"] = @ \ {Deployer}]
Renounced ==
  IF {Deployer, market.multisig} \subseteq acl["POOL_ADMIN"]
    THEN [acl EXCEPT !["POOL_ADMIN"] = @ \ {Deployer}] ELSE acl

\* view-protocol-roles changes nothing; it exits without its two constants.
ViewProtocolRoles ==
  <<Check(/\ market.multisig # Nobody /\ market.guardian # Nobody
          /\ Recorded(HandoverRecords \cup {GetIncentivesV2, <<"TreasuryProxy">>,
                                           <<"Treasury-Controller">>}))>>

\* What its report asserts of the provider, the registry, the roles, the
\* gateway, the emission manager and the adapters.
RolesReport ==
  [providerOwner     |-> owner[GetPoolAddressesProvider] = market.multisig,
   registryOwner     |-> owner[GetPoolAddressesProviderRegistry] = market.multisig,
   aclAdmin          |-> slots[<<"ACL_ADMIN">>] = market.multisig,
   defaultAdmin      |-> market.multisig \in acl["DEFAULT_ADMIN"],
   deployerNoDefault |-> Deployer \notin acl["DEFAULT_ADMIN"],
   gatewayOwner      |-> owner[GetWrappedTokenGateway] = market.multisig,
   poolAdmin         |-> market.multisig \in acl["POOL_ADMIN"],
   deployerNoPool    |-> Deployer \notin acl["POOL_ADMIN"],
   emergencyAdmin    |-> market.guardian \in acl["EMERGENCY_ADMIN"],
   emissionOwner     |-> owner[GetEmissionManager] = market.multisig,
   incentives        |-> slots[<<"INCENTIVES_CONTROLLER">>] # Nothing,
   repayAdapter      |-> owner[<<"ParaSwapRepayAdapter">>] = market.multisig,
   swapAdapter       |-> owner[<<"ParaSwapLiquiditySwapAdapter">>] = market.multisig]

\* transfer-ownership of one contract, here the wrapper, which the task above
\* leaves with the deployer.
TransferOwnershipOfWrapper ==
  <<Step("handOne", <<"PacPoolWrapper">>, Nothing, Recorded({<<"PacPoolWrapper">>}),
         owner[<<"PacPoolWrapper">>] # market.multisig)>>
============================================================================
