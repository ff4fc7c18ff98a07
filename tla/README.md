# PAC Finance in TLA+

PAC Finance is a lending protocol for the Blast chain: an Aave v3 core and periphery
(`src/contracts/core-v3`, `src/contracts/periphery-v3`) with contracts of its own around it
(`src/contracts/NativeYieldDistribute.sol`, `PacPoolWrapper.sol`, `GasRefund.sol`).
A hardhat project (`src/deploy`, `src/helpers`, `src/tasks`, `src/markets`) deploys its markets, sets
them up and hands them over. This directory holds TLA+ models of the contracts and of the
deployment, TLC runs that check them on small instances, and TLAPS proofs of the properties that matter most, for every value of the constants. `PROJECT.json`
lists the runs, the mutants that show that each property can fail, the source lines of each
definition, the hazards and the theorems.

Run a check with `tlc -config Yield.cfg MCNativeYieldDistribute` and a proof with
`tlapm NativeYieldDistributeProofs.tla`.

## 1. Inventory

### How the system runs

There are two programs: the contracts, and the one that deploys them.

All contracts live on one chain. A transaction runs alone, to its end, or reverts and leaves nothing.
So the concurrency is that of *calls*: which account calls what next, at which block timestamp, and
what a contract that is called in the middle of a transaction (a flash loan's receiver, the receiver
of ether) calls in turn. Nothing is lost or duplicated, and nothing is persisted beyond the state of
the chain, so the contracts have no crash to recover from. Nothing has to happen either: no contract
is scheduled and no caller obliged. What makes this code hard is

- state that is settled lazily, when somebody happens to touch it (yield points, interest);
- two books of one fact that must agree (balances and flags, debts and counted debts, a token's
  balances and what another contract last heard of them);
- integers that are rounded half up or down at every step and must not add up to more than there is;
- a call in the middle of another one, with what the caller read before it.

The deployment is another matter. It is one process that sends some two hundred transactions, and it
dies with its terminal, its node or a reverted transaction. What it has done is on chain, what it
knows of it is in files that hardhat-deploy writes after the fact, and the process that comes next
has only the files. Meanwhile the market is open: users supply a reserve as soon as it is listed.
What makes this code hard is

- a crash between a transaction and the record of it;
- calls that succeed once, in scripts that are meant to be run again;
- roles and contracts that change hands one by one, with no transaction around them;
- scripts ordered by paths, tags and dependencies, some of which name nothing.

### Components

| Component | State | Operations | What makes it correct |
|---|---|---|---|
| **NativeYieldDistribute** hands the chain's native yield to the holders of an aToken | points of the pool and of each user, rounds and their settlement times, yield per point | `aTokenBalanceChange`, `distributeYield`, `claimYield`, `rescueToken` | users never have more points than the pool; the contract can pay all claims; each round is paid once; no settlement changes a closed round |
| **AToken, debt tokens** | scaled balances, principals and rates of stable debts | mint, burn, transfer, transfer on liquidation; notify the distributor and the incentives controller | balances add up to supplies; a burn of all that a balance reads leaves nothing |
| **Pool**: Supply-, Borrow-, Liquidation-, EMode-, IsolationMode-, FlashLoanLogic, ValidationLogic, GenericLogic | each user's collateral and borrowing bits, eMode category, isolated debt | supply, withdraw, borrow, repay (with tokens or aTokens), swap rate mode, choose collateral, transfer, enter eMode, liquidate, flash loan | claims are backed; flags agree with balances; only prices make a healthy account unhealthy; liquidation helps; isolation, silo and eMode rules hold |
| **Reserve books**: ReserveLogic, MathUtils, rate strategy | indexes, rates, timestamps, the treasury's claim, unbacked mints | updateState and updateInterestRates in all of the above; mintToTreasury, rebalance, BridgeLogic's mintUnbacked and backUnbacked | booking interest changes no balance; nobody is promised more interest than is owed |
| **PacPoolWrapper** does pool operations for users, with ether or tokens, and leverage loops with a flash loan | nothing of its own but an owner and a refund contract | deposit, withdraw, borrow, repay, `leverageDeposit`, `executeOperation`, rescue | each transaction is one operation of its sender; nothing stays in the wrapper; nobody else comes to owe |
| **GasRefund** | balances, ratios, ether | `addGasRefund`, `claimGas`, `setRefundRatio` | nobody is refunded more than the ratio's share of the gas cost |
| PoolConfigurator, reserves list | parameters of reserves and categories | init, drop, set*, freeze, pause | parameters stay valid together; ids stay unique |
| RewardsDistributor, RewardsController, EmissionManager | indexes of assets and users, accrued rewards | configure, handleAction, claim*, set emission | rewards accrue by share and time; a claim pays what is accrued once |
| Ecosystem reserve: payment streams; collectors | streams | create, withdraw, cancel | a stream pays its deposit at its rate, to the end |
| Addresses provider, registry, ACL | proxies, ids, roles | set, register, unregister | the registry's list and its indexes agree |
| AaveOracle, PriceOracleSentinel | sources, grace period | set, read | no borrowing or liquidation in the grace period except as documented |
| L2Pool, CalldataLogic, L2Encoder; bit maps; fixed-point math | none | pure functions | decode(encode(x)) = x; masks do not overlap; rounding is half up |
| WrappedTokenGatewayV3, debt delegation | allowances | ether operations, approveDelegation | as the wrapper; a borrow uses up its allowance |
| **Deploy scripts** (`src/deploy`) and hardhat-deploy's scheduling of them | records of contracts, records of executed scripts, the chain | twenty-five scripts under tags with dependencies; commands that run some of them | a deployment that stopped can be resumed and ends up as the market file declares |
| **Helpers** (`src/helpers`) | none of their own | read market files and records; list and configure reserves in transactions of three and twenty | a retry lists the rest, once; a temporary role is temporary |
| **Tasks** (`src/tasks/misc`) | the reserves' parameters | set-up after the deployment, reviews, new assets, upgrades | parameters follow the market file; aTokens that an upgrade must leave alike are alike |
| **Ownership handover** (three tasks and a report) | owners, roles | transfer, renounce, report | nothing is left without an owner or with two; the report tells the truth |
| UI data providers, proxies, mocks, verification tasks, hardhat configuration | none | views, delegatecalls, printing | not modelled, see section 6 |

How they interact: users call the pool or the wrapper, and the wrapper calls the pool. The pool's
libraries call the tokens. The aToken calls the yield distributor after every change of a balance,
and the distributor reads the aToken back. The pool reads the oracle and the sentinel, the rate
strategy reads the aToken's balance of the underlying token, and the flash loan calls its receiver.
The wrapper calls the gas refund after each operation. The scripts and tasks share the records with
each other and the chain with everyone.

## 2. Modules

| Module | Models | State and actions |
|---|---|---|
| `NativeYieldDistribute` | `NativeYieldDistribute.sol` and the parts of `AToken.sol` that call it | one variable per storage variable, plus `now`, the token's balances, and history (`received`, `rescued`, `drift`). `Mint`, `Burn`, `Transfer` include the hook; `Poke` is anyone's call of `aTokenBalanceChange`; `DistributeYield`, `ClaimYield`, `RescueToken`, `SetYieldDistributor`, `Tick` |
| `YieldAccounting` | what the distributor promises: points are earned at once | `Earn`, `Track`, `Distribute`, `Claim`, `Rescue` |
| `LendingPool` | `Pool.sol` and its libraries | an action per pool operation; a flash loan is two actions, and its receiver may do anything between them; prices, status and sequencer change on their own |
| `PacPoolWrapper` | `PacPoolWrapper.sol`, composed with `LendingPool` (EXTENDS) | operations of one pool call are one action; those of several are several, between which nothing else happens and each of which may end in `Revert` |
| `WrapperPromise` | what the wrapper promises | one operation per transaction, on the sender's coins, aTokens and debt |
| `GasRefund` | `GasRefund.sol` and the calls that `PacPoolWrapper.sol` makes to it | `AddGasRefund`, `ClaimGas`, `SetRefundRatio`, `SetGasRefund`, `Fund` |
| `Reserve` | `ReserveLogic.sol`, the books of one reserve under interest, with `StableDebtToken.sol`, `VariableDebtToken.sol`, `ScaledBalanceTokenBase.sol` and `BridgeLogic.sol` | the pool's operations again, with indexes, rates and the treasury and without health factors; a liquidation is three actions, by what the reserve is in it |
| `InterestMath` | `MathUtils.sol`, `DefaultReserveInterestRateStrategy.sol` | operators |
| `PercentageMath` | `PercentageMath.sol`, and the one rounding of `WadRayMath.sol` | operators |
| `FiniteSums` | sums over finite sets, as cardinalities, which the provers' library knows facts of | operators |
| `DeploymentState` | what a deployment works on: market file, records, chain, process; `market-config-helpers.ts`, `contract-getters.ts` | the variables, the lookups, and the kinds of step that scripts are made of |
| `MarketTasks` | `init-helpers.ts` and the tasks that set up, review and extend a market | each as the sequence of its steps |
| `OwnershipHandover` | `transfer-protocol-ownership.ts`, `renounce-pool-admin.ts`, `view-protocol-roles.ts`, `transfer-ownership.ts` | an action per contract and role that changes hands (`HandoverStep`), the report as a record of tests (`RolesReport`) |
| `DeployScripts` | `src/deploy` | per script its steps, its tags and its dependencies |
| `MarketDeployment` | hardhat-deploy's scheduling, the process, the operator, crashes and users | an action per kind of step (`DeployContracts`, `InitializeContract`, `ListReserves`...), `EndScript`, `Deploying`, `RunTask`, `Crash`, `Supply`, `Withdraw`, `MarketFileGrows` |
| `DeploymentInvariants` | what `MarketDeploymentProofs` proves of a deployment: its inductive invariants, and what they say of each step and script | definitions only |
| `*Proofs`, `DataTheorems` | theorems, and their lemmas on sums, percentages and sequences | |
| `MC*` | constants, symmetry and bounds of the runs | |

`LendingPool` and `Reserve` are two views of the same operations. `LendingPool` has many reserves,
health factors, flags, isolation and eMode, and no interest: both indexes stay at one ray, where
amounts and scaled amounts coincide. `Reserve` has one reserve with interest and leaves aside who may
borrow and withdraw. An account's limits do not depend on how balances grow, and the books of a
reserve do not depend on which of the allowed operations come.

A script of the deployment is data, a sequence of steps, and `MarketDeployment` interprets it: a step
says what it does (`op`, `id`, `val`), which lookups and tests must succeed (`needs`) and what test the
code makes before it (`when`). Steps are evaluated in the state they are reached in, so a loop over what
the chain holds, or a test of a record, sees what earlier steps, earlier runs and users have done. A
step whose `needs` fail, or that the contract refuses (`Refused`), throws, and the command stops.
`transfer-protocol-ownership` reads each owner and role when it comes to it, so it has actions of its
own.

Named abstractions, each also in the head of its module:

- `NativeYieldDistribute`: the contract inherits `Pausable` but has no function that pauses, so it
  never is. The token's scaled balances are the amounts. `Poke` is for the modelled users.
- `LendingPool`: no interest; one unit of an asset is its smallest; flash loans without premium
  (premiums are in `Reserve`); caps and parameters are constants, while freezing and pausing are not;
  permits are the same operations with another authorization.
- `PacPoolWrapper`: users have approved the wrapper and delegated borrowing without limit, as the
  tests do. `claimRefundedGas`, which forwards to the Blast predeploy, is left out. Ether is sent at
  the end of a transaction, so what its receiver does comes after it.
- `MarketDeployment`: a lookup or a test belongs to the step after it, as it changes nothing.
  Contracts made one after another are one step, because a second run finds each of them recorded.
  Transactions are waited for, also where the handover does not wait. `MARKET_NAME` is set, so no
  script is skipped for want of it. A deployed contract is a name: what the scripts rely on of its
  state is a slot, an owner, a role or a reserve's record, and amounts are set or not set. All signing
  accounts are one, as in `hardhat.config.ts`, except the treasury's proxy admin, which nothing here
  asks. Users supply only where it matters to a later step (`SupplyMatters`); of a withdrawal it matters
  only that it is the last one of its reserve.
  The operator deploys in order: a command is for the first script that is not done. The market file
  grows once, after the deployment; what it had before stays. Otherwise nobody edits it, or the
  records, by hand, and the multisig gives nothing back. An upgrade is one task run with one of two
  values of `--revision`, the new implementation's or another one.
- `Reserve`: active, with both kinds of debt enabled and its configuration constant. The amounts of
  a liquidation are any. At most one flash loan at a time.

## 3. Runs

A run that passes has no error in all the states of its instance, deadlocks included: in every state
somebody can do something. Two passing runs and the runs that end in a violation do not check for
deadlock. The length of the behaviours of `Reserve` is bounded, so they end; and in
`market_deployment` nothing more happens when the deployment and its tasks are done.

| Run | What it shows | Bounds, and why they are enough |
|---|---|---|
| `yield` | points of closed rounds add up, claims are paid once and in full, closed rounds never change, whatever was settled between; the same with the distributor detached and attached again and yield rescued; no subtraction of timestamps underflows; lazy settlement implements `YieldAccounting` | two users, who both gain and lose; three blocks; rounds 1 to 3, so that two close and a user untouched for a whole round exists (with fewer, two of the mutants go unseen); both settings of the hook; a ray of 2, so that yields are really rounded; one token: how several holders share a yield is in the theorems, for any number |
| `pool_isolation` | backing, flags and health with debts of both modes; isolated collateral and siloed debt stay alone, the counted debt is the debt, the ceiling holds, with flash loans | two users, three reserves, one of them isolated and siloed with a ceiling of one unit; the users hold the isolated-supplier role, so three of the four ways to set the flag are open: by choice, by a supply, by a transfer. The fourth, the aTokens that a liquidator receives, is in the theorem `PoolIsolatedAlone` only, since a liquidation falsifies `IsolatedDebtCounted` (3.1) |
| `pool_emode` | claims stay backed and flags agree with debts through liquidations of a part and of all, paid out in the underlying or in aTokens; debts of both modes stay in their category, only prices hurt health, liquidations, by the category's price, help | two categories, one with a price source of its own that moves apart from the asset's, to prices that make a position unhealthy; freezing, pausing, and a sequencer that stops. Debt and collateral of a liquidation are two reserves here; where they are one, backing is in the theorem `PoolBacked` |
| `pool_isolated_liquidation` | violation: see 3.1 | |
| `pool_emode_flash` | violation: see 3.1 | |
| `wrapper` | each transaction of the wrapper is one operation of its sender; nothing stays in it; only its sender comes to owe; health is preserved | two senders, two reserves, coins sent to the wrapper by mistake, flash loans by anyone |
| `wrapper_repay_eth` | violation: see 3.1 | |
| `gas_refund` | nobody is refunded more than the gas cost, or the multiple of it that the highest ratio asks for | two users, ratios of just below one half, which rounds down, of 80%, which the contract starts with, and of 150%, more than the cost; costs 1 and 3 |
| `reserve` | whoever owes is flagged, booking interest changes no balance, and nobody is promised more interest than is owed | every sequence of seven operations of two accounts over three blocks: enough to supply, borrow, wait, borrow at the other rate or take a flash loan, wait, and repay; a ray of 1000 and half a year per block, so that interest is a few percent to a factor of two and every division is rounded |
| `reserve_same_asset` | violation: see 3.1 | |
| `market_deployment` | a deployment that is resumed completes, once users who supplied too early have left, unless it is in one of the states `Wedged` names, from which no command of the repository completes it; records follow the chain; reserves end up as declared; nothing is orphaned; aTokens that an upgrade must leave alike are alike; the handover leaves what the report asks for | six markets (below); one crash, before any step of any command, so that each pair of a transaction and what follows it is cut once; any command that the order of the scripts admits, so that a script is reached alone, with its dependencies and in the whole deployment; supplies and withdrawals at any time |
| `handover_resumed` | violation: see 3.1 | |

The six markets differ in what makes the scripts take another path: `Blast` (live, native yield, no
multisig), `BlastMainnet` (as the repository has it: an asset without an address), `Optimism` (an L2 pool,
a treasury of its own, a multisig and a guardian, an asset in isolation, one without a threshold, a
category, five assets so that listing takes two transactions), `OptimismKept` (the same before it is
handed over, and extended, by an aToken of either kind, and upgraded later, in either order),
`OptimismMisnumbered` (the same with an operator who may also run the upgrade with another
revision), `TestMarket` (test tokens, mock feeds, rewards, the
staked token). ParaSwap's two records, which no script makes, are there from the start in the
three of Optimism: without them the handover cannot begin (`HandoverBlocked`).

The contracts' specifications have no fairness, and no liveness property: nothing obliges a caller to
call again, so nothing that needs a further call is promised. Only `MarketDeployment` has fairness.
`WF_vars(ProcessStep)`: a process that lives goes on. `SF_vars(Resume)`: an operator whose deployment
keeps stopping comes to resume it, now and then, with the tag of the script that is missing
(`ResumeWith`), or with the whole deployment where the script has no tag of its own. Strong, because a
command that is running disables it, and the operator tries again after each. Nothing is assumed of
crashes but that there are finitely many (`MaxCrashes`), and of users only what `Recovers` says.

For the contracts, what plays the part of liveness is that
calls that must be possible do not revert. `TimesInOrder` states it for the distributor's hook, whose
revert would stop every transfer of the aToken, and `Solvent` for claims.

`Recovers` promises less than one would like, and `Wedged` says how much less. A deployment cannot be
resumed once a call that succeeds once was made by a script that did not end (`Spent`: a crash is
enough), when a production market has an asset without address (`Misconfigured`), and when the handover
lacks something or began without ending (`HandoverBlocked`). `WedgedForever` shows that none of these
states is named in vain: from each of them no command of the repository completes the deployment. (By
hand one may, by writing a record or an address into a file, or by the multisig giving a role back.)
A fourth state is no dead end. When users have supplied a reserve before the transaction that needs it
empty (`SuppliedEarly`), the pool refuses that transaction as long as one of them stays; when the last
has withdrawn, the deployment can be resumed. Nothing obliges them to, so `Recovers` has as a premise
that from some time on no such supply is left.

`NothingLost` is up to rounding, and its allowance is named (`Rounding`): one unit of the tokens
touched, and a few units of the last place per unit of the balances. The code rounds half up in both
directions, so it does lose that much.

### 3.1 Where the code does not do what it says

- `pool_isolated_liquidation` (`IsolatedDebtFollows`). A liquidation that seizes all of an isolated
  collateral clears its flag (LiquidationLogic.sol:190) before it calls `updateIsolatedDebtIfIsolated`,
  which then finds no isolated collateral and leaves the counted debt. The ceiling stays used up by a
  debt that is gone.
- `pool_emode_flash` (`EModeDebts`). A flash loan reads the borrower's category (Pool.sol:454) before
  its receiver is called back. If the category changes in the callback, the debt that is opened is
  outside of it, which LiquidationLogic.sol:471 takes to be impossible.
- `wrapper_repay_eth` (`RepaysSpecifiedAmount`). `repayETH` wraps the smaller of amount and debt but
  asks the pool to take `msg.value`. It reverts for want of WETH, or uses WETH that is in the wrapper
  by mistake and repays more than the specified amount.
- `reserve_same_asset` (`RatesFitLiquidity`). A liquidation whose debt and collateral are the same
  reserve computes the rates a second time in `_burnCollateralATokens`, before the debt is paid in
  (LiquidationLogic.sol:287 and 249). Until the next update of the reserve, suppliers earn at the rate
  of a reserve that the payment did not reach, more than the borrowers pay. `NothingLost` names this
  case in its condition.

- `handover_resumed` (`AlreadyTransferred`). `transfer-protocol-ownership` exits with "This market
  already transferred the ownership to desired multisig" (transfer-protocol-ownership.ts:84) when the
  provider is the multisig's. The provider is handed over before the registry, the gateway, the
  emission manager and `DEFAULT_ADMIN`; after a crash in between, a second run says so and does
  nothing, and the deployer keeps them.

Seen while modelling, not shown by a run of its own: entering the first eMode category checks no
health factor, though EModeLogic.sol:33 says that a change that drops it reverts (`HealthPreserved`
excepts it); `StableDebtToken.burn` may return a total that it has not stored (line 256), from which
the rates are then computed; a liquidator that liquidates itself gets its aTokens back without the
collateral flag (`LiquidationHelps` excepts it); every wrapper operation but the loop asks for the
refund of a supply, so three of the five ratios are never used; `setReserveFactor` changes the
treasury's share of interest that is already earned but not yet booked; an owner of `GasRefund` may
set a ratio above 100%, and pays for more than the gas then. In the deployment: `06_native_yield.ts:38` prints that it skips a reserve
without native yield and does not; the dependency `tokens-setup` of `01_price_aggregators_setup.ts`
is no script's tag; `04_paraswap_adapters.ts` returns before it deploys the adapters whose records the
handover looks up; nothing hands the wrapper over; `update-oracle` leaves the provider with the old
oracle; `review-e-mode` compares every category with the entry named `StableEMode`; `add-new-asset`
deploys no rate strategy, so an asset with a new one cannot be listed;
`upgrade-atokens` records the new implementation as `AToken` before it compares the revision
(upgrade-atokens.ts:57-71), so that after a mismatch, of which `upgrade-atokens-and-review` prints
"ATokens are not upgraded, check logs, noop" (line 40), later listings get the new implementation
beside the old ones; and the upgrade gives delegation-aware aTokens the plain one, while those listed
later get the record `DelegationAwareAToken`, which nothing renews (init-helpers.ts:125-129, 174-180).
`UniformRevision` says that these two are the only ways to a mixture.

## 4. Proofs

The theorems hold for every set of users, every amount, every market and every schedule. The
assumptions are those the modules name (`DistributorAssumption`, `PoolAssumption`, `WrapperAssumption`,
`InterestAssumption`, `ReserveAssumption`, `GasRefundAssumption`, `AccountsAssumption`,
`MarketsAssumption`, `SymbolsAssumption`, `CategoriesAssumption`, `TasksAssumption`, `MaxCrashesAssumption`), and TLC evaluates them in the runs. They say that constants have their types
and, for the pool, what the configurator checks (a liquidation bonus above 100%, a protocol fee of
at most 100%) and, for a reserve, that a ray is even and the strategy's optimal ratios are at most a
ray, as its constructor requires, the optimal usage not zero, as the strategy divides by it; nothing
bounds its rates. The theorem about `YieldAccounting` has its assumption as a hypothesis, which
`NativeYieldDistributeProofs` derives from the contract's.

| Theorem | Says |
|---|---|
| `DistributorCorrect` | `DistributorInv` is invariant |
| `DistributorRefines` | `NativeYieldDistribute` implements `YieldAccounting` |
| `AccountingSafe` | `YieldAccounting` is solvent and covers points |
| `PointsNeverExceedTotal`, `DistributorSolvent` | so is the contract |
| `ClaimsPayPending`, `ClosedRoundsStayFinal` | the action properties of the distributor |
| `TimesStayInOrder` | `TimesInOrder`: the hook that every transfer calls does not revert |
| `EachRoundPaidOnce` | `PaidOnce`: what was paid is the yield of the rounds claimed, each once |
| `PoolCorrect`, `PoolBacked`, `PoolSiloedAlone`, `PoolIsolatedAlone`, `PoolCeilingHeld` | `PoolInv`, and each of its parts |
| `PoolEModeDebts` | `EModeDebts`, without any flash loan (`FlashAmounts = {}`) |
| `PoolIsolatedDebtCounted` | `IsolatedDebtCounted`, if nobody is liquidated (`CoverAmounts = {}`) and all amounts are whole units of the ceiling |
| `WrapperCorrect` | `WrapperInv`: between transactions the wrapper owes nothing and holds only what users sent it by mistake |
| `WrapperOnlySenderBorrows` | the action property `OnlySenderBorrows` |
| `WrapperKeepsPool` | `PoolInv` under the wrapper's transactions and reverts |
| `WrapperImplementsPromise` | `WrapperKeepsPromise`: the wrapper implements `WrapperPromise`, if `Moved = Nat` and `WETH \notin Strays` |
| `PercentDivBounds` | dividing by at least 100% does not increase a value |
| `DebtsStayFlagged` | `ReserveInv` is invariant: books of a reserve in order, debts flagged |
| `BookingChangesNoBalance` | the action property `OthersUntouched` |
| `RayDivMul` | what a scaled amount reads at an index divides back to exactly that scaled amount |
| `GasRefundCorrect` | `GasRefundInv` is invariant, for every set of ratios: nobody is refunded more than the gas cost times the highest ratio, in whole costs |
| `DeploymentCorrect` | `DeploymentInv` is invariant: what is recorded as executed has ended, and the handover is in order |
| `NothingOrphaned` | the action property `NeverOrphaned` |
| `RecordsKept` | `RecordsFollowChain`: the records of the proxies are there when the script that makes them is done |
| `HelperGone` | `HelperLeaves`: the set-up helper keeps its role no longer than the command that gave it |
| `ReservesListed` | `ListedAsDeclared`: after `init-reserves` each reserve is listed and configured, if its aToken is of a kind the helper knows (`KnownTokens`) |
| `MarketHandedOver` | `HandedOver`: after `after_deploy`, on a market that is to be handed over, each row of the roles report is as it must be, for every market, schedule of commands and tasks and number of crashes |
| `OneImplementation` | `UniformRevision`: whenever no command runs, and no process has died, two reserves have different implementations of their aToken only if one of them is excepted by `MayDiffer`, for market files whose aTokens are of a kind the helper knows (`KnownTokens`) |
| `DeclaredApplied` | `AppliedAsDeclared`: after `after_deploy` the reserves have the stable rate, ceiling, isolation, fee, distributor and category of the market file, if it asks for one thing only (`KnownTokens`, `NamesAgree`, `OneCategory`) |

**The distributor.** Points are sums of balance times time, partly stored and partly implicit in
timestamps, so solvency is not inductive on the contract's own state. The argument goes through the
abstract specification. In `YieldAccounting` points are earned at once, and solvency and the covering
of points (`AccountingInv`) are inductive: a unit of time adds balances to points and the supply to
the total; a distribution rounds the rate down, so its shares are within what is paid in
(`SharesWithinAmount`); a claim moves exactly what is pending. The contract is then shown to implement
it under the mapping that reads `points[r]` off the books (`PointsOf`). This needs `DistributorInv`:
the order of timestamps (`TimesInOrder`), that a settled part of a round exists only after the round
began (`SettledWithinRound`), that the token's supply is the sum of its balances (`SupplyIsSum`), and
how the followed balances relate to the actual ones (`TracksToken`). A settlement maps to a stutter,
which is the correctness of the loop over passed rounds.

`PaidOnce` rests on closed rounds being final in both factors: a user's points (`ClosedPointsStep`) and
the yield per point (`ClosedRateStep`) of a closed round change at no step. The yield of the rounds up
to the last claim (`YieldUpTo`) is then the same before and after every other step (`YieldKept`), and a
claim adds exactly what is pending, which is the yield of the rounds between (`YieldGrows`).

**The pool.** `PoolInv` is inductive as it stands. Backing is a statement about sums, so each
operation is shown to move the same amount on both sides (lemmas in `DataTheorems`). The liquidation is
the only one with arithmetic of its own: fee plus seized is what leaves the account, by
`PercentDivBounds`. The flags follow because each operation sets or clears the bit by the same
condition that its debts meet; the silo, isolation and ceiling parts follow from the validations at
the only places that set a bit or add to a counter. Without flash loans, debts also stay in their
owner's category: borrowing validates the asset against it, and a change of category validates every
debt against the new one; every other operation leaves a user no more debts than it had
(`FewerDebtsStay`). A flash loan that becomes a debt is the exception, and the run `pool_emode_flash`
shows it.

`IsolatedDebtCounted` says that the counter of an isolated collateral is the sum of what its users owe.
The two hypotheses are what the code needs for it. A liquidation takes the debt off the counter after
the collateral may have lost its flag, which the run `pool_isolated_liquidation` shows; and borrowing
and repaying round each amount down to units of the ceiling by itself, so that the counter of amounts that
are not whole drifts from the sum. The inductive invariant `CountInv` adds two parts to the property.
`Whole`: debts and counters are whole units, so that a quotient is exact (`QuotientExact`). `Secured`:
whoever owes has collateral. An account without any has no debt, so that an account that turns its
collateral on cannot bring debts into the count that were never added; it holds because the health
factor of an account that owes without collateral is zero (`NakedUnhealthy`), and every operation that
takes collateral away validates it. Each step then moves one user, or none, from one collateral to
another and the counters by as much (`CountMoves`). The sums of an account over all assets are
folds in the model, as the library defines them; `FoldIsSum` relates a fold to the sums that the ledgers
use. Induction is not available to it as a theorem of the library, so it takes the least number
of steps after which the two would differ.

**The wrapper.** `WrapperInv` speaks of the moments between transactions, so what holds within one must
be stated: `WrapperIInv` says, for a transaction under way, which call comes next and what the wrapper
holds of its asset at that point (`InFlight`), that the only loan running is the loop's own, that the
saved state is one in which everything was in order, and that no debt is below the one saved. A revert
restores the saved state, so `PoolInv` holds after it, and it raises no debt. The pool's steps within a
transaction are those of `LendingPoolProofs`, cited by name. The wrapper never has the borrowing bit
set, since it borrows only on behalf of the sender.

That it implements `WrapperPromise` needs one thing more. The promise sees the state between
transactions and, within one, the saved one; the last call of a transaction must therefore turn into an
operation on what was there before the first. `SinceBegun` says what the calls so far have added to the
saved state: the aTokens that a withdrawal has moved to the wrapper; the cash that a loop took in one
of the coins of its asset, what is in flight, the aTokens supplied and the debt taken
(`LoopSince`). It is inductive together with `WrapperIInv` (`StepPromised`). Then the first call of a
transaction, those in between and a revert are not seen, a last one is `Withdraw` or `LeverageDeposit`
of the sender, and a transaction with one call is its operation at once. Of a flash loan that another
took with the wrapper as the receiver nothing need be known, as it can only be reverted: `ValidCallback`
is what the proof uses there. `repayETH` needs the two hypotheses. Wrapped ether that someone sent to
the wrapper would let the pool take more than was wrapped, which is what the run `wrapper_repay_eth`
shows; without it the two amounts are equal. `Moved` bounds what TLC enumerates, and is all of `Nat` in
the theorem.

**The books of a reserve.** `ReserveInv` says of debts, which are rounded products of a scaled debt
or a principal with an index that moves, that whoever has one is flagged. It is not inductive: when a
debt is paid, what must be zero is what is stored. `IInv` adds that the bit follows the scaled debt
and the principal (`FlagInv`) and that the stored totals are the sums of the scaled balances
(`ATokenInv`, `VariableInv`), without which a burn could take a total below zero. Three facts about
rounding carry the argument. A balance is zero exactly when what is stored is (`ReadZero`, as an
index is at least a ray). Burning what a balance reads burns exactly what is stored (`RayDivMul`,
which needs the index to be at least a ray and a ray to be even), and burning less never burns more
(`ScaledAmount`). And compounded interest grows with time (`CompoundedInterestBounds`), so that what
the treasury is due is never negative. The rates are numbers because a usage is at most a ray
(`RatioAtMostOne`), so the strategy never divides by zero. `OthersUntouched` then follows from the
three things that an operation can do to the indexes (`IndexStep`).

**Gas refunds.** Nothing bounds the ratios, so the history variable `highest` keeps the highest that was
ever in force, and `CostFactor` is that in whole costs, rounded up: one, as long as no ratio was above
100%. A refund rounds half up, but a share of a natural number of at most so many whole costs rounds to at
most that multiple of it (`RefundWithinCost`); and a ratio that is raised raises the multiple for all
that was spent before, never lowers it.

**The deployment.** `NeverOrphaned` is about single steps, but the two that take something away rely on
what earlier ones did: a role is taken from the deployer only when the multisig has it, and that was
given by the step before, in the same life of the process. `HandoverInOrder` says so, for each of the
three roles; a crash clears `handover`, so the next process starts from what the chain holds. It also
says that what has an owner has a record, since `DeployContracts` gives a contract without a record to
the deployer and would otherwise take it from the multisig. These theorems do not look into the scripts:
they hold for scripts made of any steps of these kinds in any order (`ScriptStepKeeps`). They need the
multisig not to be the deployer (`AccountsAssumption`): otherwise `renounce-pool-admin` would find that
both have the role and leave nobody with it.

`RecordsFollowChain` does depend on them, in two ways. Of all of them, that no step unmakes a proxy
(`Sound`, shown for the steps of each script and task, `StepsSound`; loops over reserves are
`FlattenSeq` of the library, which the proofs take apart by the least counterexample, `FlattenType`). Of the
two that make proxies, how far they have come at each step (`ChainInv`: `PoolProgress`,
`IncentivesProgress`), where a step that is passed over counts too: `init-pool` passes over making a
proxy because it is there, and saves its record either way; the incentives script saves the record
only if it has made the proxy in this run, but then looks it up, and a run without it stops.

`HelperLeaves` asks why nothing can stop a process between the step that makes the set-up helper a risk
admin and the one that takes the role back. The configuration lies between, and `HelperInv` says of a
helper with the role that the process is at it or at the removal (`LeavesSoon`): in `init-reserves` or in
`add-new-asset`, the only two that have such steps (`Listers`), with something to configure,
and with the deployer still able to grant. What could revert the configuration is a supply, or a crash
could end the process; both are excluded by the property's own premise, and nothing else is left.

`ListedAsDeclared` goes through `init-reserves` step by step (`ListedInv`, with `ReservesProgress` for
how far the script has come at each). What is still to do is computed by filtering the reserves by what
the chain says of them, so the proof takes the two parts together: each reserve is done, or is in
the list of those to do (`FilterElement`), and the steps made from the list hold one for each of
its elements, with the rest of them in chunks (`FlattenElement`). That no other script or task takes back
a listing or a collateral configuration is `ReserveKept`, for the steps of all of them. The hypothesis
`KnownTokens` is needed: the helper initializes an aToken of the two kinds it knows, and passes over
any other reserve without a word.

`HandedOver` is about the last script, and relies on all of the others. The proof has three invariants.
`QueueInv`: when `after_deploy` is run, every other script is done. The scripts are selected by tags and put in
order by their dependencies, so the proof follows the schedule: a
selection has `after_deploy` alone or with every other script, and then it comes last; alone it
is only run when the others are done (`FirstUnfinished`). `HeldInv`: a contract that has
an owner is the deployer's or the multisig's and, from `acl` on, so is one holder of each role
and the admin of the ACL; so no stage of the handover can be skipped because the contract or role is
somebody else's. `HandedInv`: the stages of the handover have done their part
up to the one it is at (`HandedUpTo`), `after_deploy` is past its handover only when all of it is done, and what
is done stays done, because the deployer has by then lost what it needs to take it back (`DeployerOut`).
The second of these needs to know where in the script the handover is. It is behind the set-up, whose
steps are computed from what the chain says of the reserves at each step; but their number depends
only on the market file and on which reserves are listed (`SetupLength`, `SetupSteps`), and no step of
`after_deploy` lists any. Nothing is assumed but the assumptions of the model.

`UniformRevision` is about an upgrade task and a listing that may come before or after it, and about the
two ways in which the code lets them differ (`MayDiffer`): a delegation-aware aToken that the market file
gained is listed from a record that no upgrade renews, and an upgrade that asks for another revision
replaces the record of the plain one and leaves the aTokens as they are. Both concern only reserves that
were added later; those the market had from the start are alike in any case, which is the part that takes
the proof. The order of the upgrades matters: a delegation-aware aToken that is listed after an
upgrade has revision 1, and is taken to 2 by the next run of the task only if the pool's list has no
reserve before it whose upgrade reverts. So the invariant speaks of two sets: `Alike`, those
promised one implementation, and `Leading`, those that an upgrade comes to before it can meet one that
has the new implementation already: all that are listed, or, where another revision may be asked
for, those of the first edition.

The invariant (`RevisionInv`) says that without a crash the leading reserves have the old implementation and
the new one is not recorded; or all that are promised it have the new one; or the new one is recorded and
the leading ones have the old, because the upgrade asked for another revision, or was refused as the
deployer is no admin of the pool any more; or the process is among the upgrades, and those it has
not yet come to have the old one (`Upgrading`, `Pending`). In the last case it cannot stop before the
leading ones are done (`UpgradeRuns`): a revision that is raised from 1 to 2 by an admin of the pool is
not refused. What was refused must not turn into a mixture, so the deployer must not become an admin
again. Only `acl` makes it one, and the task is run after `acl` is recorded (`Earlier`). That each reserve
is upgraded once follows from its being once in the market file, which is an
assumption (`SymbolsAssumption`: they are the keys of an object), and that the invariant can tell the task
from the scripts in the queue from `TasksAssumption`: a task is run by a name that is no script's. The
hypothesis `KnownTokens` makes every reserve of the first edition listed by the time a task is run, so that
none of them is listed behind an upgrade.

`AppliedAsDeclared` depends on the steps of all the tasks that `after_deploy` runs, and on the distributors.
A task passes over a reserve that the chain says has its setting, so what its steps are differs from one
state to the next; but what each of them is *about*, its reserve and its field, does not (`Outline`,
`OutlineAfterDeploy`, `OutlineNativeYield`): it depends on the market file and on which reserves are listed.
`Apt`, a part of `Sound`, says of every step of every script and task that it sets a reserve to nothing but what the
market file asks for, and that when it is passed over the reserve has that already or the file does not ask for
it. The invariant (`AppliedInv`) then says that the settings behind the step that the process is at have been
given (`Behind`, `Given`), and that those of a script that is done stay given, because whatever another
script or task puts there is wanted too (`GivenStays`). The outline has a step for each setting of
each reserve of the file only when all of them are listed, which `ListedAsDeclared` says and `QueueInv`
makes true when `after_deploy` is at work (`AfterDeployGiven`). `Proper` adds what is true without any script: a stable
rate only where there is borrowing, and no flag that is not asked for, since a task that passes over a reserve without a
ceiling does not take one away. Two hypotheses besides `KnownTokens` say that the file asks for
one thing. `OneCategory`: no asset is in two categories, or the last one of the file would have it.
`NamesAgree`: `review-stable-borrow` finds a reserve's entry by the first key that its token's symbol contains, so
entries that may be taken for one another must have the same stable rate. The market files of
`src/markets` satisfy both, and so do the markets that TLC checks.

Only model-checked: `HealthPreserved` and `LiquidationHelps`, which do not hold for every market: the
mean of the thresholds is rounded down, so that with the right numbers the supply of collateral with a
lower threshold lowers a health factor; `NothingLost` of the reserve; and of the deployment its
liveness (`Recovers`) and `WedgedForever`. Out of the provers' reach, and left to TLC: ENABLED and liveness under fairness, what a recursive definition computes for every input,
and RECURSIVE operators. No module here uses one.

## 5. Plan

In this order, because what holds users' funds comes first:

1. yield distribution, its abstract accounting, refinement and proofs (done);
2. the pool's operations, flags and limits, with proofs (done);
3. the wrapper composed with the pool, its promise, and gas refunds (done, with
   proofs, its refinement included);
4. the books of a reserve under interest (done, with proofs; to do: `NothingLost` proved, which
   needs bounds of the errors of the rates);
5. the deployment: scripts, helpers, tasks, crashes and resumption, the handover, with proofs (done);
6. PoolConfigurator with the reserves list: ids, drops, the joint validity of parameters, the reserve
   factor and strategy changed under running interest;
7. RewardsDistributor, RewardsController and EmissionManager: an eager specification of rewards that
   the indexes implement, as with the distributor; a change of emission or of the end of a
   distribution between updates;
8. payment streams of the ecosystem reserve: what is withdrawn and what is left add up at every time;
9. addresses provider, registry (swap and pop with indexes), ACL, and the sentinel's grace period;
10. pure parts against reference definitions: bit maps, calldata codecs, compounded interest against
   powers; the gateway of the periphery as a second implementation of `WrapperPromise`; debt
   delegation.

Worth proving next: `NothingLost`; that rewards never exceed emissions; that streams conserve their
deposit. Worth an abstract specification: rewards, streams, the registry as a set.

## 6. Not modelled, and why

- UI and protocol data providers: views that change nothing.
- Proxies: an upgrade replaces the program that is modelled. Of `VersionedInitializable` the deployment has
  that an initializer succeeds once (`InitializeContract`, `Refused`).
- Mocks and tests: not part of the running system; read for what the code should do.
- The numbers of the market files, and hardhat's configuration: parameters. Which networks have a
  multisig, and which account signs, are constants.
- Tasks that print, verify source code at a block explorer, or make mock tokens and oracles that no
  other script looks up.
- A transaction that is sent and never mined, and a deployment from two terminals at once.
- `PoolConfigurator`, `ACLManager` and the provider as contracts of their own: the deployment has what
  its scripts rely on of them (`MayConfigure`, `MaySet`, roles and owners).
- Reward transfer strategies, treasury collectors: a single transfer under an access check.
- Signatures (`permit`, meta-transactions): another authorization of a modelled operation.
- The incentives controller's call from the tokens: planned with the rewards (item 7).
