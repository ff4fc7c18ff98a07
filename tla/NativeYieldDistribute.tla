----------------------- MODULE NativeYieldDistribute -----------------------
(***************************************************************************)
(* The yield distributor (contracts/NativeYieldDistribute.sol) and the part *)
(* of the aToken it depends on: the scaled balances, and the notification   *)
(* that AToken.sol sends after each mint, burn and transfer.                *)
(*                                                                          *)
(* The distributor pays the native yield of a reserve to the holders of its *)
(* aToken in proportion to balance x time.  It stores per user a balance    *)
(* and the time it was read, and settles the rounds that passed since when  *)
(* the user is next touched.  A transaction is one action: the EVM runs it  *)
(* without interleaving.  What interleaves is the calls of the users, of    *)
(* the aToken, of the owner, of the pool admin, and the block timestamp.    *)
(*                                                                          *)
(* Amounts of the aToken are scaled amounts: the liquidity index cancels    *)
(* out, since points are earned on scaled balances only.                    *)
(***************************************************************************)
EXTENDS FiniteSums

CONSTANTS
  Users,      \* the accounts that hold the aToken, the treasury among them
  RAY,        \* precision of yieldPerPoint
  TokenAmounts,   \* the amounts of aToken that calls pass
  YieldAmounts,   \* the amounts of yield token that calls pass
  RescueAmounts,  \* the amounts of yield token that the owner takes out
  Settings,       \* what the admin sets: TRUE, this distributor; FALSE, none
  MaxRound,   \* bound: rounds are numbered up to here
  MaxTime,    \* bound: the last block timestamp
  MaxSupply   \* bound: the largest scaled supply

ASSUME DistributorAssumption ==
  /\ IsFiniteSet(Users)
  /\ RAY \in Nat \ {0}
  /\ MaxRound \in Nat \ {0}
  /\ TokenAmounts \subseteq Nat
  /\ YieldAmounts \subseteq Nat
  /\ RescueAmounts \subseteq Nat
  /\ Settings \subseteq BOOLEAN
  /\ MaxTime \in Nat
  /\ MaxSupply \in Nat

VARIABLES
  now,                      \* block.timestamp
  \* the aToken
  scaledBalance, scaledTotalSupply,
  yieldDistributor,         \* TRUE while the aToken notifies this contract
  \* the distributor: pool info
  yieldPerPoint, roundSettleTime, lastTotalPointUpdateTime,
  currentTotalSupply, currentRoundTotalPoint, currentRound,
  \* the distributor: user info
  currentBalance, balanceUpdateTime, pointSettleRound, settledPoint,
  yieldSettleRound, roundPoint,
  \* yield tokens: held by the distributor, paid to users, taken by the owner
  yieldBalance, received, rescued,
  \* history: what the pool earned in each closed round, and whether the
  \* token has moved behind the distributor's back
  roundTotalPoint, drift

tokenVars == <<scaledBalance, scaledTotalSupply>>
poolVars  == <<lastTotalPointUpdateTime, currentTotalSupply, currentRoundTotalPoint>>
roundVars == <<yieldPerPoint, roundSettleTime, currentRound, roundTotalPoint>>
pointVars == <<balanceUpdateTime, pointSettleRound, settledPoint, roundPoint>>
payVars   == <<yieldSettleRound, yieldBalance, received, rescued>>
vars == <<now, tokenVars, yieldDistributor, poolVars, roundVars, currentBalance,
          pointVars, payVars, drift>>

Rounds == 0 .. MaxRound

-----------------------------------------------------------------------------
(* Views *)

\* When the round began.
RoundStart(r) == roundSettleTime[r - 1]

\* Mutant: the view forgets what was settled in the round.
UserRoundPoint_NoSettled(u, r) ==
  IF r >= currentRound THEN 0
  ELSE IF r <= pointSettleRound[u] THEN roundPoint[u][r]
  ELSE IF balanceUpdateTime[u] <= RoundStart(r)
    THEN currentBalance[u] * (roundSettleTime[r] - RoundStart(r))
    ELSE currentBalance[u] * (roundSettleTime[r] - balanceUpdateTime[u])

\* getUserRoundPoint
UserRoundPoint(u, r) ==
  IF r >= currentRound THEN 0
  ELSE IF r <= pointSettleRound[u] THEN roundPoint[u][r]
  ELSE IF balanceUpdateTime[u] <= RoundStart(r)
    THEN currentBalance[u] * (roundSettleTime[r] - RoundStart(r))
    ELSE settledPoint[u] + currentBalance[u] * (roundSettleTime[r] - balanceUpdateTime[u])

\* The yield of p points of round r, rounded down.
RoundYield(p, r) == (p * yieldPerPoint[r]) \div RAY

\* Mutant: the loop starts at the round claimed last.
UnclaimedRounds_OffByOne(u) == yieldSettleRound[u] .. (currentRound - 1)

\* The closed rounds whose yield u has not claimed.
UnclaimedRounds(u) == (yieldSettleRound[u] + 1) .. (currentRound - 1)

\* getPendingYield
PendingYield(u) ==
  SumOver(UnclaimedRounds(u),
          [r \in UnclaimedRounds(u) |-> RoundYield(UserRoundPoint(u, r), r)])

-----------------------------------------------------------------------------
(* Settlement *)

\* _updateTotalPoint, up to the assignment of the new total
TotalPointNow ==
  currentRoundTotalPoint + currentTotalSupply * (now - lastTotalPointUpdateTime)

\* The rounds that have closed since u was last settled.
PassedRounds(u) == (pointSettleRound[u] + 1) .. (currentRound - 1)

\* Mutant: the loop does not move balanceUpdateTime to the end of the round.
SettledRoundPoint_NoTimeReset(u) ==
  [r \in Rounds |->
     IF r \notin PassedRounds(u) THEN roundPoint[u][r]
     ELSE (IF r = pointSettleRound[u] + 1 THEN settledPoint[u] ELSE 0)
            + currentBalance[u] * (roundSettleTime[r] - balanceUpdateTime[u])]

\* The loop of _updateUserPoint.  The first passed round gets what u had
\* settled and its balance from its last update on, every later one the
\* balance for its whole duration.
SettledRoundPoint(u) ==
  [r \in Rounds |->
     IF r \notin PassedRounds(u) THEN roundPoint[u][r]
     ELSE IF r = pointSettleRound[u] + 1
       THEN settledPoint[u] + currentBalance[u] * (roundSettleTime[r] - balanceUpdateTime[u])
       ELSE currentBalance[u] * (roundSettleTime[r] - RoundStart(r))]

\* Mutant: points accrue from the last update even if a round closed since.
AccrualStart_LastUpdate(u) == balanceUpdateTime[u]

\* Where the current round starts for u once the passed rounds are settled.
AccrualStart(u) ==
  LET start == roundSettleTime[currentRound - 1] IN
  IF PassedRounds(u) # {} \/ balanceUpdateTime[u] <= start
  THEN start ELSE balanceUpdateTime[u]

\* Mutant: what was settled is counted again in the next round.
SettledPointNow_NoReset(u) ==
  settledPoint[u] + currentBalance[u] * (now - AccrualStart(u))

\* The points of u in the current round, up to now.
SettledPointNow(u) ==
  (IF PassedRounds(u) # {} THEN 0 ELSE settledPoint[u])
    + currentBalance[u] * (now - AccrualStart(u))

\* _updateUserPoint for the users of S
UpdateUserPoint(S) ==
  /\ roundPoint' = [u \in Users |-> IF u \in S THEN SettledRoundPoint(u) ELSE roundPoint[u]]
  /\ settledPoint' = [u \in Users |-> IF u \in S THEN SettledPointNow(u) ELSE settledPoint[u]]
  /\ pointSettleRound' = [u \in Users |-> IF u \in S THEN currentRound - 1 ELSE pointSettleRound[u]]
  /\ balanceUpdateTime' = [u \in Users |-> IF u \in S THEN now ELSE balanceUpdateTime[u]]

\* Mutant: the new supply is stored before the total is updated.
ATokenBalanceChange_SupplyFirst(S) ==
  /\ currentTotalSupply' = scaledTotalSupply'
  /\ currentRoundTotalPoint' =
       currentRoundTotalPoint + currentTotalSupply' * (now - lastTotalPointUpdateTime)
  /\ lastTotalPointUpdateTime' = now
  /\ UpdateUserPoint(S)
  /\ currentBalance' = [u \in Users |-> IF u \in S THEN scaledBalance'[u] ELSE currentBalance[u]]

\* aTokenBalanceChange, called for every user of S in one transaction.  The
\* second call of a transfer finds nothing to accrue: the time is the same.
ATokenBalanceChange(S) ==
  /\ currentRoundTotalPoint' = TotalPointNow
  /\ lastTotalPointUpdateTime' = now
  /\ currentTotalSupply' = scaledTotalSupply'
  /\ UpdateUserPoint(S)
  /\ currentBalance' = [u \in Users |-> IF u \in S THEN scaledBalance'[u] ELSE currentBalance[u]]

\* AToken._notifyBalanceChange for the users of S.  Without a distributor the
\* change goes unseen; that matters once the distributor counts a supply.
NotifyBalanceChange(S) ==
  \/ /\ yieldDistributor
     /\ ATokenBalanceChange(S)
     /\ UNCHANGED drift
  \/ /\ ~ yieldDistributor
     /\ drift' = IF drift = "stale" \/ currentTotalSupply # 0 THEN "stale" ELSE "late"
     /\ UNCHANGED <<poolVars, pointVars, currentBalance>>

-----------------------------------------------------------------------------
(* Actions *)

Init ==
  /\ now = 1
  /\ scaledBalance = [u \in Users |-> 0]
  /\ scaledTotalSupply = 0
  /\ yieldDistributor = FALSE
  /\ yieldPerPoint = [r \in Rounds |-> 0]
  /\ roundSettleTime = [r \in Rounds |-> 0]
  /\ lastTotalPointUpdateTime = 0
  /\ currentTotalSupply = 0
  /\ currentRoundTotalPoint = 0
  /\ currentRound = 1
  /\ currentBalance = [u \in Users |-> 0]
  /\ balanceUpdateTime = [u \in Users |-> 0]
  /\ pointSettleRound = [u \in Users |-> 0]
  /\ settledPoint = [u \in Users |-> 0]
  /\ yieldSettleRound = [u \in Users |-> 0]
  /\ roundPoint = [u \in Users |-> [r \in Rounds |-> 0]]
  /\ yieldBalance = 0
  /\ received = [u \in Users |-> 0]
  /\ rescued = 0
  /\ roundTotalPoint = [r \in Rounds |-> 0]
  /\ drift = "none"

\* The next block has a later timestamp.
Tick ==
  /\ now < MaxTime
  /\ now' = now + 1
  /\ UNCHANGED <<tokenVars, yieldDistributor, poolVars, roundVars, currentBalance,
                 pointVars, payVars, drift>>

\* AToken.mint and AToken.mintToTreasury
Mint(u, amount) ==
  /\ amount > 0
  /\ scaledTotalSupply + amount <= MaxSupply
  /\ scaledBalance' = [scaledBalance EXCEPT ![u] = scaledBalance[u] + amount]
  /\ scaledTotalSupply' = scaledTotalSupply + amount
  /\ NotifyBalanceChange({u})
  /\ UNCHANGED <<now, yieldDistributor, roundVars, payVars>>

\* AToken.burn
Burn(u, amount) ==
  /\ amount > 0
  /\ amount <= scaledBalance[u]
  /\ scaledBalance' = [scaledBalance EXCEPT ![u] = scaledBalance[u] - amount]
  /\ scaledTotalSupply' = scaledTotalSupply - amount
  /\ NotifyBalanceChange({u})
  /\ UNCHANGED <<now, yieldDistributor, roundVars, payVars>>

\* Mutant: the sender's new balance is not notified.
Transfer_ReceiverOnly(from, to, amount) ==
  /\ amount <= scaledBalance[from]
  /\ scaledBalance' =
       IF from = to THEN scaledBalance
       ELSE [scaledBalance EXCEPT ![from] = scaledBalance[from] - amount,
                                  ![to]   = scaledBalance[to] + amount]
  /\ UNCHANGED scaledTotalSupply
  /\ NotifyBalanceChange({to})
  /\ UNCHANGED <<now, yieldDistributor, roundVars, payVars>>

\* AToken._transfer, to oneself included
Transfer(from, to, amount) ==
  /\ amount <= scaledBalance[from]
  /\ scaledBalance' =
       IF from = to THEN scaledBalance
       ELSE [scaledBalance EXCEPT ![from] = scaledBalance[from] - amount,
                                  ![to]   = scaledBalance[to] + amount]
  /\ UNCHANGED scaledTotalSupply
  /\ NotifyBalanceChange({from, to})
  /\ UNCHANGED <<now, yieldDistributor, roundVars, payVars>>

\* aTokenBalanceChange has no access control: anyone may call it for anyone.
Poke(u) ==
  /\ UNCHANGED <<now, tokenVars, yieldDistributor, roundVars, payVars, drift>>
  /\ ATokenBalanceChange({u})

\* AToken.setYieldDistributor: to this contract, or to another or none
SetYieldDistributor(isThis) ==
  /\ yieldDistributor' = isThis
  /\ UNCHANGED <<now, tokenVars, poolVars, roundVars, currentBalance, pointVars,
                 payVars, drift>>

\* Mutant: the total is not brought up to date first.
DistributeYield_StaleTotal(amount) ==
  /\ currentRound < MaxRound
  /\ currentRoundTotalPoint # 0
  /\ yieldBalance' = yieldBalance + amount
  /\ yieldPerPoint' = [yieldPerPoint EXCEPT ![currentRound] = (amount * RAY) \div currentRoundTotalPoint]
  /\ roundSettleTime' = [roundSettleTime EXCEPT ![currentRound] = now]
  /\ roundTotalPoint' = [roundTotalPoint EXCEPT ![currentRound] = currentRoundTotalPoint]
  /\ currentRoundTotalPoint' = 0
  /\ currentRound' = currentRound + 1
  /\ UNCHANGED <<now, tokenVars, yieldDistributor, lastTotalPointUpdateTime, currentTotalSupply,
                 currentBalance, pointVars, yieldSettleRound, received, rescued, drift>>

\* distributeYield.  The division reverts when no point was earned.
DistributeYield(amount) ==
  /\ currentRound < MaxRound
  /\ TotalPointNow # 0
  /\ yieldBalance' = yieldBalance + amount
  /\ yieldPerPoint' = [yieldPerPoint EXCEPT ![currentRound] = (amount * RAY) \div TotalPointNow]
  /\ roundSettleTime' = [roundSettleTime EXCEPT ![currentRound] = now]
  /\ roundTotalPoint' = [roundTotalPoint EXCEPT ![currentRound] = TotalPointNow]
  /\ currentRoundTotalPoint' = 0
  /\ lastTotalPointUpdateTime' = now
  /\ currentRound' = currentRound + 1
  /\ UNCHANGED <<now, tokenVars, yieldDistributor, currentTotalSupply, currentBalance,
                 pointVars, yieldSettleRound, received, rescued, drift>>

\* claimYield.  The token transfer reverts when the contract cannot pay.
ClaimYield(u) ==
  LET accYield == SumOver(UnclaimedRounds(u),
                    [r \in UnclaimedRounds(u) |-> RoundYield(SettledRoundPoint(u)[r], r)])
  IN
  /\ accYield <= yieldBalance
  /\ UpdateUserPoint({u})
  /\ yieldSettleRound' = [yieldSettleRound EXCEPT ![u] = currentRound - 1]
  /\ yieldBalance' = yieldBalance - accYield
  /\ received' = [received EXCEPT ![u] = received[u] + accYield]
  /\ UNCHANGED <<now, tokenVars, yieldDistributor, poolVars, roundVars, currentBalance,
                 rescued, drift>>

\* rescueToken, for the yield token
RescueToken(amount) ==
  /\ amount <= yieldBalance
  /\ yieldBalance' = yieldBalance - amount
  /\ rescued' = rescued + amount
  /\ UNCHANGED <<now, tokenVars, yieldDistributor, poolVars, roundVars, currentBalance,
                 pointVars, yieldSettleRound, received, drift>>

Next ==
  \/ Tick
  \/ \E u \in Users, amount \in TokenAmounts : Mint(u, amount)
  \/ \E u \in Users, amount \in TokenAmounts : Burn(u, amount)
  \/ \E from \in Users, to \in Users, amount \in TokenAmounts : Transfer(from, to, amount)
  \/ \E u \in Users : Poke(u)
  \/ \E isThis \in Settings : SetYieldDistributor(isThis)
  \/ \E amount \in YieldAmounts : DistributeYield(amount)
  \/ \E u \in Users : ClaimYield(u)
  \/ \E amount \in RescueAmounts : RescueToken(amount)

Spec == Init /\ [][Next]_vars

-----------------------------------------------------------------------------
(* Properties *)

TypeOK ==
  /\ now \in Nat
  /\ scaledBalance \in [Users -> Nat]
  /\ scaledTotalSupply \in Nat
  /\ yieldDistributor \in BOOLEAN
  /\ yieldPerPoint \in [Rounds -> Nat]
  /\ roundSettleTime \in [Rounds -> Nat]
  /\ lastTotalPointUpdateTime \in Nat
  /\ currentTotalSupply \in Nat
  /\ currentRoundTotalPoint \in Nat
  /\ currentRound \in 1 .. MaxRound
  /\ currentBalance \in [Users -> Nat]
  /\ balanceUpdateTime \in [Users -> Nat]
  /\ pointSettleRound \in [Users -> Nat]
  /\ settledPoint \in [Users -> Nat]
  /\ yieldSettleRound \in [Users -> Nat]
  /\ roundPoint \in [Users -> [Rounds -> Nat]]
  /\ yieldBalance \in Nat
  /\ received \in [Users -> Nat]
  /\ rescued \in Nat
  /\ roundTotalPoint \in [Rounds -> Nat]
  /\ drift \in {"none", "late", "stale"}

\* Every subtraction of timestamps and rounds in the contract is of a smaller
\* number, so that it never reverts.  A revert in aTokenBalanceChange would
\* stop every mint, burn and transfer of the aToken.
TimesInOrder ==
  /\ lastTotalPointUpdateTime <= now
  /\ \A r \in 0 .. (currentRound - 1) :
       /\ roundSettleTime[r] <= lastTotalPointUpdateTime
       /\ \A q \in 0 .. r : roundSettleTime[q] <= roundSettleTime[r]
  /\ \A u \in Users :
       /\ pointSettleRound[u] < currentRound
       /\ yieldSettleRound[u] < currentRound
       /\ balanceUpdateTime[u] <= now
       /\ roundSettleTime[pointSettleRound[u]] <= balanceUpdateTime[u]
       /\ pointSettleRound[u] + 1 < currentRound
            => balanceUpdateTime[u] <= roundSettleTime[pointSettleRound[u] + 1]

\* While the token has not moved unseen, the users together never have more
\* points of a closed round than the pool divided its yield by; and when the
\* distributor heard of every change they have all of them.
PointsWithinTotal ==
  \A r \in 1 .. (currentRound - 1) :
    LET earned == SumOver(Users, [u \in Users |-> UserRoundPoint(u, r)]) IN
    /\ drift # "stale" => earned <= roundTotalPoint[r]
    /\ drift = "none" => earned = roundTotalPoint[r]

\* The contract can pay what it owes every user, up to what the owner took.
\* This relates sums of floors of points, some stored, some still implicit.
Solvent ==
  drift # "stale"
    => SumOver(Users, [u \in Users |-> PendingYield(u)]) <= yieldBalance + rescued

\* A user has received the yield of each round it has claimed, once, and
\* nothing else, whatever was settled between the claims.
PaidOnce ==
  \A u \in Users :
    received[u] = SumOver(1 .. yieldSettleRound[u],
                    [r \in 1 .. yieldSettleRound[u] |-> RoundYield(UserRoundPoint(u, r), r)])

\* claimYield pays what getPendingYield announced: the view, which leaves the
\* rounds unsettled, and the settlement compute the same points.
ClaimPaysPending ==
  [][\A u \in Users :
       yieldSettleRound'[u] # yieldSettleRound[u]
         => received'[u] - received[u] = PendingYield(u)]_vars

\* The points of a closed round are final: no later change of balance, poke,
\* claim or distribution alters them, for any user, settled or not.
ClosedRoundsFinal ==
  [][\A u \in Users, r \in 1 .. (currentRound - 1) :
       UserRoundPoint(u, r)' = UserRoundPoint(u, r)]_vars

-----------------------------------------------------------------------------
(* The inductive invariant behind the refinement *)

\* The token's total is the sum of its balances.
SupplyIsSum == scaledTotalSupply = SumOver(Users, scaledBalance)

\* Points are settled for a part of a round only after it began, and the
\* round that is open, with those to come, has no history.
SettledWithinRound ==
  /\ \A u \in Users :
       balanceUpdateTime[u] = roundSettleTime[pointSettleRound[u]] => settledPoint[u] = 0
  /\ \A r \in Rounds : r >= currentRound => roundTotalPoint[r] = 0

\* How the balances the distributor follows relate to those of the token.
TracksToken ==
  /\ drift # "stale" =>
       \/ currentTotalSupply = 0 /\ \A u \in Users : currentBalance[u] = 0
       \/ /\ currentTotalSupply = scaledTotalSupply
          /\ \A u \in Users : currentBalance[u] <= scaledBalance[u]
  /\ drift = "none" =>
       /\ currentTotalSupply = scaledTotalSupply
       /\ currentBalance = scaledBalance

DistributorInv ==
  TypeOK /\ TimesInOrder /\ SupplyIsSum /\ SettledWithinRound /\ TracksToken

-----------------------------------------------------------------------------
(* Refinement *)

\* What the books say the user has earned in a round so far.
PointsOf(u, r) ==
  IF r = currentRound THEN SettledPointNow(u) ELSE UserRoundPoint(u, r)

TotalOf(r) == IF r = currentRound THEN TotalPointNow ELSE roundTotalPoint[r]

\* Settling late earns each user and the pool what earning at once would.
Accounting == INSTANCE YieldAccounting WITH
  Amounts <- Nat,
  round <- currentRound, held <- currentBalance, supply <- currentTotalSupply,
  points <- [r \in Rounds |-> [u \in Users |-> PointsOf(u, r)]],
  total <- [r \in Rounds |-> TotalOf(r)],
  rate <- yieldPerPoint, claimed <- yieldSettleRound, pot <- yieldBalance

AccountingSpec == Accounting!Spec
=============================================================================
