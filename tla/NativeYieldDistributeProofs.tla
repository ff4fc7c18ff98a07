-------------------- MODULE NativeYieldDistributeProofs --------------------
(***************************************************************************)
(* Proofs about the yield distributor: its inductive invariant, and that it *)
(* implements YieldAccounting, from which follows that the points of a      *)
(* round stay within its total and that the contract can pay what it owes.  *)
(***************************************************************************)
EXTENDS NativeYieldDistribute, DataTheorems

\* Balance times duration, as the duration grows by one unit of time.
LEMMA DurationStep ==
  ASSUME NEW c \in Nat, NEW t \in Nat, NEW start \in Nat, start <= t
  PROVE  /\ c * (t - start) \in Nat
         /\ c * ((t + 1) - start) = c * (t - start) + c
         /\ c * (t - t) = 0
OBVIOUS

\* Division rounds down to a natural number.
LEMMA FloorType ==
  ASSUME NEW a \in Nat, NEW b \in Nat, NEW c \in Nat \ {0}
  PROVE  (a * b) \div c \in Nat
<1>1. a * b \in Nat
  OBVIOUS
<1> QED BY <1>1

\* What the invariant says of the timestamps of one user.
LEMMA UserTimes ==
  ASSUME DistributorInv, NEW u \in Users
  PROVE  /\ currentRound \in 1 .. MaxRound /\ now \in Nat
         /\ roundSettleTime \in [Rounds -> Nat]
         /\ currentBalance[u] \in Nat /\ settledPoint[u] \in Nat
         /\ balanceUpdateTime[u] \in Nat /\ balanceUpdateTime[u] <= now
         /\ pointSettleRound[u] \in 0 .. (currentRound - 1)
         /\ roundSettleTime[pointSettleRound[u]] <= balanceUpdateTime[u]
         /\ roundSettleTime[currentRound - 1] \in Nat
         /\ roundSettleTime[currentRound - 1] <= now
         /\ \A r \in PassedRounds(u) :
              /\ r \in Rounds /\ r - 1 \in Rounds
              /\ r \in 1 .. (currentRound - 1)
              /\ RoundStart(r) \in Nat /\ roundSettleTime[r] \in Nat
              /\ RoundStart(r) <= roundSettleTime[r]
              /\ balanceUpdateTime[u] <= roundSettleTime[r]
              /\ r # pointSettleRound[u] + 1 => balanceUpdateTime[u] <= RoundStart(r)
<1> USE DistributorAssumption
<1>1. /\ currentRound \in 1 .. MaxRound /\ now \in Nat
      /\ roundSettleTime \in [Rounds -> Nat]
      /\ currentBalance[u] \in Nat /\ settledPoint[u] \in Nat
      /\ balanceUpdateTime[u] \in Nat /\ pointSettleRound[u] \in Nat
      /\ lastTotalPointUpdateTime \in Nat
  BY DEF DistributorInv, TypeOK
<1>2. /\ balanceUpdateTime[u] <= now
      /\ pointSettleRound[u] < currentRound
      /\ roundSettleTime[pointSettleRound[u]] <= balanceUpdateTime[u]
      /\ pointSettleRound[u] + 1 < currentRound
           => balanceUpdateTime[u] <= roundSettleTime[pointSettleRound[u] + 1]
      /\ lastTotalPointUpdateTime <= now
      /\ \A r \in 0 .. (currentRound - 1) :
           /\ roundSettleTime[r] <= lastTotalPointUpdateTime
           /\ \A q \in 0 .. r : roundSettleTime[q] <= roundSettleTime[r]
  BY DEF DistributorInv, TimesInOrder
<1>3. /\ currentRound - 1 \in Rounds /\ currentRound - 1 \in 0 .. (currentRound - 1)
      /\ pointSettleRound[u] \in 0 .. (currentRound - 1)
  BY <1>1, <1>2 DEF Rounds
<1>4. /\ roundSettleTime[currentRound - 1] \in Nat
      /\ roundSettleTime[currentRound - 1] <= now
  BY <1>1, <1>2, <1>3
<1>5. ASSUME NEW r \in PassedRounds(u)
      PROVE  /\ r \in Rounds /\ r - 1 \in Rounds
             /\ r \in 1 .. (currentRound - 1)
             /\ RoundStart(r) \in Nat /\ roundSettleTime[r] \in Nat
             /\ RoundStart(r) <= roundSettleTime[r]
             /\ balanceUpdateTime[u] <= roundSettleTime[r]
             /\ r # pointSettleRound[u] + 1 => balanceUpdateTime[u] <= RoundStart(r)
  <2> DEFINE first == pointSettleRound[u] + 1
  <2>1. /\ r \in 1 .. (currentRound - 1) /\ r \in Rounds /\ r - 1 \in Rounds
        /\ r - 1 \in 0 .. (currentRound - 1) /\ r - 1 \in 0 .. r
        /\ first \in 0 .. r /\ first < currentRound
        /\ r # first => first \in 0 .. (r - 1)
    <3>1. r \in Int /\ pointSettleRound[u] + 1 <= r /\ r <= currentRound - 1
      BY <1>1 DEF PassedRounds
    <3>2. currentRound \in Int /\ MaxRound \in Int /\ currentRound <= MaxRound
      BY <1>1
    <3>3. pointSettleRound[u] \in Int /\ 0 <= pointSettleRound[u]
      BY <1>1
    <3> QED BY <3>1, <3>2, <3>3 DEF Rounds
  <2>2. RoundStart(r) \in Nat /\ roundSettleTime[r] \in Nat /\ roundSettleTime[first] \in Nat
    BY <1>1, <2>1 DEF RoundStart, Rounds
  <2>3. RoundStart(r) <= roundSettleTime[r]
    BY <1>2, <2>1 DEF RoundStart
  <2>4. balanceUpdateTime[u] <= roundSettleTime[first]
    BY <1>2, <2>1
  <2>5. roundSettleTime[first] <= roundSettleTime[r]
    BY <1>2, <2>1
  <2>6. r # first => roundSettleTime[first] <= RoundStart(r)
    BY <1>2, <2>1 DEF RoundStart
  <2> HIDE DEF first
  <2>7. balanceUpdateTime[u] <= roundSettleTime[r]
    BY <1>1, <2>2, <2>4, <2>5
  <2>8. r # first => balanceUpdateTime[u] <= RoundStart(r)
    BY <1>1, <2>2, <2>4, <2>6
  <2> QED BY <2>1, <2>2, <2>3, <2>7, <2>8 DEF first
<1> QED BY <1>1, <1>2, <1>3, <1>4, <1>5

\* Where a user's points of the open round start to accrue.
LEMMA AccrualFacts ==
  ASSUME DistributorInv, NEW u \in Users
  PROVE  /\ AccrualStart(u) \in Nat /\ AccrualStart(u) <= now
         /\ SettledPointNow(u) \in Nat
<1>1. AccrualStart(u) \in Nat /\ AccrualStart(u) <= now
  BY UserTimes DEF AccrualStart
<1>2. currentBalance[u] * (now - AccrualStart(u)) \in Nat
  BY <1>1, UserTimes, DurationStep
<1> DEFINE earned == currentBalance[u] * (now - AccrualStart(u))
<1>3. SettledPointNow(u) = (IF PassedRounds(u) # {} THEN 0 ELSE settledPoint[u]) + earned
  BY DEF SettledPointNow
<1> HIDE DEF earned
<1>4. earned \in Nat
  BY <1>2 DEF earned
<1> QED BY <1>1, <1>3, <1>4, UserTimes

\* The loop of _updateUserPoint stores natural numbers.
LEMMA SettledRoundType ==
  ASSUME DistributorInv, NEW u \in Users
  PROVE  SettledRoundPoint(u) \in [Rounds -> Nat]
<1> SUFFICES ASSUME NEW r \in Rounds PROVE SettledRoundPoint(u)[r] \in Nat
  BY DEF SettledRoundPoint
<1>1. CASE r \notin PassedRounds(u)
  BY <1>1 DEF SettledRoundPoint, DistributorInv, TypeOK
<1>2. CASE r \in PassedRounds(u)
  <2> DEFINE first == currentBalance[u] * (roundSettleTime[r] - balanceUpdateTime[u])
             later == currentBalance[u] * (roundSettleTime[r] - RoundStart(r))
  <2>1. first \in Nat /\ later \in Nat
    BY <1>2, UserTimes, DurationStep
  <2>2. SettledRoundPoint(u)[r]
          = IF r = pointSettleRound[u] + 1 THEN settledPoint[u] + first ELSE later
    BY <1>2 DEF SettledRoundPoint
  <2> HIDE DEF first, later
  <2> QED BY <2>1, <2>2, UserTimes
<1> QED BY <1>1, <1>2

\* The view of a closed round and the settlement of it agree: the branch that
\* the view takes on the timestamps finds the rounds the loop counts.
LEMMA ViewIsSettlement ==
  ASSUME DistributorInv, NEW u \in Users, NEW r \in Rounds, r < currentRound
  PROVE  UserRoundPoint(u, r) = SettledRoundPoint(u)[r]
<1>1. CASE r <= pointSettleRound[u]
  <2>1. r \notin PassedRounds(u)
    BY <1>1, UserTimes DEF PassedRounds
  <2> QED BY <1>1, <2>1, UserTimes DEF UserRoundPoint, SettledRoundPoint, Rounds
<1>2. CASE ~ (r <= pointSettleRound[u])
  <2>1. r \in PassedRounds(u)
    BY <1>2, UserTimes, DistributorAssumption DEF PassedRounds, Rounds
  <2>2. ~ (r >= currentRound)
    BY UserTimes, DistributorAssumption DEF Rounds
  <2>3. CASE r # pointSettleRound[u] + 1
    <3>1. balanceUpdateTime[u] <= RoundStart(r)
      BY <2>1, <2>3, UserTimes
    <3> QED BY <1>2, <2>1, <2>2, <2>3, <3>1 DEF UserRoundPoint, SettledRoundPoint
  <2>4. CASE r = pointSettleRound[u] + 1
    <3> DEFINE earned == currentBalance[u] * (roundSettleTime[r] - balanceUpdateTime[u])
    <3>1. SettledRoundPoint(u)[r] = settledPoint[u] + earned
      BY <2>1, <2>4 DEF SettledRoundPoint
    <3>2. earned \in Nat
      BY <2>1, UserTimes, DurationStep
    <3>3. RoundStart(r) = roundSettleTime[pointSettleRound[u]]
      BY <2>4, UserTimes DEF RoundStart
    <3>4. CASE balanceUpdateTime[u] <= RoundStart(r)
      <4>1. balanceUpdateTime[u] = RoundStart(r)
        BY <2>1, <3>3, <3>4, UserTimes
      <4>2. settledPoint[u] = 0
        BY <3>3, <4>1 DEF DistributorInv, SettledWithinRound
      <4>3. UserRoundPoint(u, r) = earned
        BY <1>2, <2>2, <3>4, <4>1 DEF UserRoundPoint
      <4> HIDE DEF earned
      <4> QED BY <3>1, <3>2, <4>2, <4>3
    <3>5. CASE ~ (balanceUpdateTime[u] <= RoundStart(r))
      BY <1>2, <2>2, <3>1, <3>5 DEF UserRoundPoint
    <3> QED BY <3>4, <3>5
  <2> QED BY <2>3, <2>4
<1> QED BY <1>1, <1>2

\* Hence a view is a natural number.
LEMMA PointsType ==
  ASSUME DistributorInv, NEW u \in Users, NEW r \in Rounds
  PROVE  UserRoundPoint(u, r) \in Nat /\ PointsOf(u, r) \in Nat
<1>1. CASE r < currentRound
  BY <1>1, ViewIsSettlement, SettledRoundType, UserTimes, AccrualFacts DEF PointsOf
<1>2. CASE ~ (r < currentRound)
  <2>1. r >= currentRound
    BY <1>2, UserTimes, DistributorAssumption DEF Rounds
  <2> QED BY <2>1, AccrualFacts DEF UserRoundPoint, PointsOf
<1> QED BY <1>1, <1>2

-----------------------------------------------------------------------------
(* Settlement *)

\* Settling some users, at one time and in one round, keeps the books in
\* order and moves no point: what was implicit is now stored.
LEMMA SettleStep ==
  ASSUME DistributorInv, NEW S \in SUBSET Users, UpdateUserPoint(S),
         UNCHANGED <<now, currentRound, roundSettleTime>>,
         currentBalance' \in [Users -> Nat],
         \A u \in Users \ S : currentBalance'[u] = currentBalance[u]
  PROVE  /\ roundPoint' \in [Users -> [Rounds -> Nat]]
         /\ settledPoint' \in [Users -> Nat]
         /\ pointSettleRound' \in [Users -> Nat]
         /\ balanceUpdateTime' \in [Users -> Nat]
         /\ \A u \in Users :
              /\ pointSettleRound'[u] < currentRound
              /\ balanceUpdateTime'[u] <= now
              /\ roundSettleTime[pointSettleRound'[u]] <= balanceUpdateTime'[u]
              /\ pointSettleRound'[u] + 1 < currentRound
                   => balanceUpdateTime'[u] <= roundSettleTime[pointSettleRound'[u] + 1]
              /\ balanceUpdateTime'[u] = roundSettleTime[pointSettleRound'[u]]
                   => settledPoint'[u] = 0
         /\ \A u \in Users, r \in Rounds : PointsOf(u, r)' = PointsOf(u, r)
<1>1. ASSUME NEW u \in Users
      PROVE  IF u \in S
             THEN /\ roundPoint'[u] = SettledRoundPoint(u)
                  /\ settledPoint'[u] = SettledPointNow(u)
                  /\ pointSettleRound'[u] = currentRound - 1
                  /\ balanceUpdateTime'[u] = now
             ELSE /\ roundPoint'[u] = roundPoint[u]
                  /\ settledPoint'[u] = settledPoint[u]
                  /\ pointSettleRound'[u] = pointSettleRound[u]
                  /\ balanceUpdateTime'[u] = balanceUpdateTime[u]
                  /\ currentBalance'[u] = currentBalance[u]
  BY DEF UpdateUserPoint
<1>2. /\ roundPoint' \in [Users -> [Rounds -> Nat]]
      /\ settledPoint' \in [Users -> Nat]
      /\ pointSettleRound' \in [Users -> Nat]
      /\ balanceUpdateTime' \in [Users -> Nat]
  <2>1. ASSUME NEW u \in Users
        PROVE  /\ SettledRoundPoint(u) \in [Rounds -> Nat] /\ roundPoint[u] \in [Rounds -> Nat]
               /\ SettledPointNow(u) \in Nat /\ settledPoint[u] \in Nat
               /\ currentRound - 1 \in Nat /\ pointSettleRound[u] \in Nat
               /\ now \in Nat /\ balanceUpdateTime[u] \in Nat
    BY UserTimes, SettledRoundType, AccrualFacts DEF DistributorInv, TypeOK
  <2> QED BY <2>1 DEF UpdateUserPoint
<1>3. ASSUME NEW u \in Users
      PROVE  /\ pointSettleRound'[u] < currentRound
             /\ balanceUpdateTime'[u] <= now
             /\ roundSettleTime[pointSettleRound'[u]] <= balanceUpdateTime'[u]
             /\ pointSettleRound'[u] + 1 < currentRound
                  => balanceUpdateTime'[u] <= roundSettleTime[pointSettleRound'[u] + 1]
             /\ balanceUpdateTime'[u] = roundSettleTime[pointSettleRound'[u]]
                  => settledPoint'[u] = 0
  <2>1. CASE u \in S
    <3>1. /\ settledPoint'[u] = SettledPointNow(u)
          /\ pointSettleRound'[u] = currentRound - 1
          /\ balanceUpdateTime'[u] = now
      BY <1>1, <2>1
    <3>2. ASSUME now = roundSettleTime[currentRound - 1] PROVE SettledPointNow(u) = 0
      <4>1. AccrualStart(u) = now
        BY <3>2, UserTimes DEF AccrualStart
      <4>2. currentBalance[u] * (now - AccrualStart(u)) = 0
        BY <4>1, UserTimes, DurationStep
      <4>3. PassedRounds(u) = {} => settledPoint[u] = 0
        <5> SUFFICES ASSUME PassedRounds(u) = {} PROVE settledPoint[u] = 0
          OBVIOUS
        <5>1. pointSettleRound[u] = currentRound - 1
          BY UserTimes, DistributorAssumption DEF PassedRounds
        <5>2. balanceUpdateTime[u] = roundSettleTime[pointSettleRound[u]]
          BY <3>2, <5>1, UserTimes
        <5> QED BY <5>2 DEF DistributorInv, SettledWithinRound
      <4> QED BY <4>2, <4>3 DEF SettledPointNow
    <3> QED BY <3>1, <3>2, UserTimes
  <2>2. CASE u \notin S
    BY <1>1, <2>2, UserTimes DEF DistributorInv, TimesInOrder, SettledWithinRound
  <2> QED BY <2>1, <2>2
<1>4. ASSUME NEW u \in Users, NEW r \in Rounds PROVE PointsOf(u, r)' = PointsOf(u, r)
  <2>1. CASE u \in S
    <3>1. /\ roundPoint'[u] = SettledRoundPoint(u)
          /\ settledPoint'[u] = SettledPointNow(u)
          /\ pointSettleRound'[u] = currentRound - 1
          /\ balanceUpdateTime'[u] = now
      BY <1>1, <2>1
    <3>2. CASE r = currentRound
      <4>1. PassedRounds(u)' = {}
        BY <3>1, UserTimes DEF PassedRounds
      <4>2. AccrualStart(u)' = now
        BY <3>1, <4>1, UserTimes DEF AccrualStart
      <4>3. currentBalance'[u] \in Nat
        OBVIOUS
      <4>4. currentBalance'[u] * (now - now) = 0
        BY <4>3, UserTimes
      <4>5. SettledPointNow(u)' = SettledPointNow(u) + 0
        BY <3>1, <4>1, <4>2, <4>4 DEF SettledPointNow
      <4> QED BY <3>2, <4>5, AccrualFacts DEF PointsOf
    <3>3. CASE r < currentRound
      <4>1. r <= pointSettleRound'[u] /\ ~ (r >= currentRound) /\ r # currentRound
        BY <3>1, <3>3, UserTimes, DistributorAssumption DEF Rounds
      <4>2. UserRoundPoint(u, r)' = SettledRoundPoint(u)[r]
        BY <3>1, <4>1 DEF UserRoundPoint
      <4> QED BY <3>3, <4>1, <4>2, ViewIsSettlement DEF PointsOf
    <3>4. CASE r > currentRound
      <4>1. r >= currentRound /\ r # currentRound
        BY <3>4, UserTimes, DistributorAssumption DEF Rounds
      <4> QED BY <4>1 DEF PointsOf, UserRoundPoint
    <3> QED BY <3>2, <3>3, <3>4, UserTimes, DistributorAssumption DEF Rounds
  <2>2. CASE u \notin S
    BY <1>1, <2>2 DEF PointsOf, UserRoundPoint, SettledPointNow, AccrualStart,
                      PassedRounds, RoundStart
  <2> QED BY <2>1, <2>2
<1> QED BY <1>2, <1>3, <1>4

\* What the pool has earned by now is a natural number.
LEMMA TotalType ==
  ASSUME DistributorInv
  PROVE  /\ TotalPointNow \in Nat
         /\ currentRoundTotalPoint \in Nat /\ currentTotalSupply \in Nat
         /\ lastTotalPointUpdateTime \in Nat /\ now \in Nat
         /\ lastTotalPointUpdateTime <= now
<1>1. /\ currentRoundTotalPoint \in Nat /\ currentTotalSupply \in Nat
      /\ lastTotalPointUpdateTime \in Nat /\ now \in Nat
      /\ lastTotalPointUpdateTime <= now
  BY DEF DistributorInv, TypeOK, TimesInOrder
<1> DEFINE pendingPoint == currentTotalSupply * (now - lastTotalPointUpdateTime)
<1>2. pendingPoint \in Nat
  BY <1>1, DurationStep
<1>3. TotalPointNow = currentRoundTotalPoint + pendingPoint
  BY DEF TotalPointNow
<1> HIDE DEF pendingPoint
<1> QED BY <1>1, <1>2, <1>3

\* What a transaction that changes balances must keep, whether or not the
\* distributor hears of it.
BooksKept ==
  /\ lastTotalPointUpdateTime' \in Nat
  /\ currentTotalSupply' \in Nat
  /\ currentRoundTotalPoint' \in Nat
  /\ currentBalance' \in [Users -> Nat]
  /\ balanceUpdateTime' \in [Users -> Nat]
  /\ pointSettleRound' \in [Users -> Nat]
  /\ settledPoint' \in [Users -> Nat]
  /\ roundPoint' \in [Users -> [Rounds -> Nat]]
  /\ drift' \in {"none", "late", "stale"}
  /\ drift = "stale" => drift' = "stale"
  /\ drift = "late" => drift' # "none"
  /\ TimesInOrder' /\ SettledWithinRound' /\ TracksToken'
  /\ \A u \in Users, r \in Rounds : PointsOf(u, r)' = PointsOf(u, r)
  /\ \A r \in Rounds : TotalOf(r)' = TotalOf(r)

\* aTokenBalanceChange for the users whose balances changed, or for anyone.
LEMMA BalanceChangeStep ==
  ASSUME DistributorInv, NEW S \in SUBSET Users, ATokenBalanceChange(S),
         UNCHANGED <<now, roundVars, yieldSettleRound, drift>>,
         scaledBalance' \in [Users -> Nat], scaledTotalSupply' \in Nat,
         \A u \in Users \ S : scaledBalance'[u] = scaledBalance[u]
  PROVE  BooksKept
<1>1. /\ currentBalance' \in [Users -> Nat]
      /\ \A u \in Users : currentBalance'[u] = IF u \in S THEN scaledBalance'[u] ELSE currentBalance[u]
  BY DEF ATokenBalanceChange, DistributorInv, TypeOK
<1>2. UpdateUserPoint(S) /\ UNCHANGED <<now, currentRound, roundSettleTime>>
  BY DEF ATokenBalanceChange, roundVars
<1>3. /\ roundPoint' \in [Users -> [Rounds -> Nat]]
      /\ settledPoint' \in [Users -> Nat]
      /\ pointSettleRound' \in [Users -> Nat]
      /\ balanceUpdateTime' \in [Users -> Nat]
      /\ \A u \in Users :
           /\ pointSettleRound'[u] < currentRound
           /\ balanceUpdateTime'[u] <= now
           /\ roundSettleTime[pointSettleRound'[u]] <= balanceUpdateTime'[u]
           /\ pointSettleRound'[u] + 1 < currentRound
                => balanceUpdateTime'[u] <= roundSettleTime[pointSettleRound'[u] + 1]
           /\ balanceUpdateTime'[u] = roundSettleTime[pointSettleRound'[u]]
                => settledPoint'[u] = 0
      /\ \A u \in Users, r \in Rounds : PointsOf(u, r)' = PointsOf(u, r)
  BY <1>1, <1>2, SettleStep
<1>4. /\ currentRoundTotalPoint' = TotalPointNow
      /\ lastTotalPointUpdateTime' = now
      /\ currentTotalSupply' = scaledTotalSupply'
  BY DEF ATokenBalanceChange
<1>5. TimesInOrder'
  <2>1. \A r \in 0 .. (currentRound - 1) :
          /\ roundSettleTime[r] <= now
          /\ \A q \in 0 .. r : roundSettleTime[q] <= roundSettleTime[r]
    <3> TAKE r \in 0 .. (currentRound - 1)
    <3>1. /\ roundSettleTime[r] <= lastTotalPointUpdateTime
          /\ \A q \in 0 .. r : roundSettleTime[q] <= roundSettleTime[r]
      BY DEF DistributorInv, TimesInOrder
    <3>2. roundSettleTime[r] \in Nat
      BY DistributorAssumption DEF DistributorInv, TypeOK, Rounds
    <3> QED BY <3>1, <3>2, TotalType
  <2>2. \A u \in Users : yieldSettleRound[u] < currentRound
    BY DEF DistributorInv, TimesInOrder
  <2> QED BY <1>2, <1>3, <1>4, <2>1, <2>2, TotalType DEF TimesInOrder
<1>6. SettledWithinRound'
  BY <1>3 DEF SettledWithinRound, DistributorInv, roundVars
<1>7. TracksToken'
  <2>1. scaledBalance \in [Users -> Nat] /\ currentBalance \in [Users -> Nat]
    BY DEF DistributorInv, TypeOK
  <2>2. drift' = "none" => currentBalance' = scaledBalance'
    BY <1>1, <2>1 DEF DistributorInv, TracksToken
  <2>3. drift' # "stale" => \A u \in Users : currentBalance'[u] <= scaledBalance'[u]
    BY <1>1, <2>1 DEF DistributorInv, TracksToken
  <2> QED BY <1>4, <2>2, <2>3 DEF TracksToken
<1>8. \A r \in Rounds : TotalOf(r)' = TotalOf(r)
  <2>1. scaledTotalSupply' * (now - now) = 0
    BY TotalType
  <2>2. TotalPointNow' = TotalPointNow + 0
    BY <1>4, <2>1 DEF TotalPointNow
  <2> QED BY <2>2, TotalType DEF TotalOf, roundVars
<1> QED BY <1>1, <1>3, <1>4, <1>5, <1>6, <1>7, <1>8, TotalType
        DEF BooksKept, DistributorInv, TypeOK

\* A change the distributor does not hear of is harmless while it follows no
\* supply; after that it makes the books stale.
LEMMA NotifyStep ==
  ASSUME DistributorInv, NEW S \in SUBSET Users, NotifyBalanceChange(S),
         UNCHANGED <<now, roundVars, yieldSettleRound>>,
         scaledBalance' \in [Users -> Nat], scaledTotalSupply' \in Nat,
         \A u \in Users \ S : scaledBalance'[u] = scaledBalance[u]
  PROVE  BooksKept
<1>1. CASE yieldDistributor
  BY <1>1, BalanceChangeStep DEF NotifyBalanceChange
<1>2. CASE ~ yieldDistributor
  <2>1. /\ drift' = IF drift = "stale" \/ currentTotalSupply # 0 THEN "stale" ELSE "late"
        /\ UNCHANGED <<poolVars, pointVars, currentBalance>>
    BY <1>2 DEF NotifyBalanceChange
  <2>2. UNCHANGED <<now, roundSettleTime, currentRound, roundTotalPoint, yieldSettleRound,
                    lastTotalPointUpdateTime, currentTotalSupply, currentRoundTotalPoint,
                    currentBalance, balanceUpdateTime, pointSettleRound, settledPoint, roundPoint>>
    BY <2>1 DEF roundVars, poolVars, pointVars
  <2>3. TimesInOrder' /\ SettledWithinRound'
    BY <2>2 DEF DistributorInv, TimesInOrder, SettledWithinRound
  <2>4. \A u \in Users, r \in Rounds : PointsOf(u, r)' = PointsOf(u, r)
    BY <2>2 DEF PointsOf, UserRoundPoint, SettledPointNow, AccrualStart, PassedRounds, RoundStart
  <2>5. \A r \in Rounds : TotalOf(r)' = TotalOf(r)
    BY <2>2 DEF TotalOf, TotalPointNow
  <2>6. TracksToken'
    <3>1. ASSUME drift' # "stale" PROVE \A u \in Users : currentBalance[u] = 0
      <4>1. drift # "stale" /\ currentTotalSupply = 0
        BY <2>1, <3>1
      <4>2. CASE \A u \in Users : currentBalance[u] = 0
        BY <4>2
      <4>3. CASE currentTotalSupply = scaledTotalSupply /\ \A u \in Users : currentBalance[u] <= scaledBalance[u]
        <5>1. SumOver(Users, scaledBalance) = 0 /\ \A u \in Users : scaledBalance[u] \in Nat
          BY <4>1, <4>3 DEF DistributorInv, SupplyIsSum, TypeOK
        <5>2. \A u \in Users : scaledBalance[u] = 0
          BY <5>1, SumZero, DistributorAssumption
        <5> QED BY <4>3, <5>2 DEF DistributorInv, TypeOK
      <4> QED BY <4>1, <4>2, <4>3 DEF DistributorInv, TracksToken
    <3> QED BY <2>1, <2>2, <3>1 DEF TracksToken
  <2> QED BY <2>1, <2>2, <2>3, <2>4, <2>5, <2>6 DEF BooksKept, DistributorInv, TypeOK
<1> QED BY <1>1, <1>2

-----------------------------------------------------------------------------
(* The steps *)

\* Mints, burns and transfers: the token changes and the books follow, or not.
TokenStep ==
  /\ BooksKept
  /\ scaledBalance' \in [Users -> Nat] /\ scaledTotalSupply' \in Nat
  /\ SupplyIsSum'
  /\ UNCHANGED <<now, roundVars, payVars>>
  /\ yieldDistributor' \in BOOLEAN

LEMMA MintStep ==
  ASSUME DistributorInv, NEW u \in Users, NEW amount \in TokenAmounts, Mint(u, amount)
  PROVE  TokenStep
<1> USE DistributorAssumption
<1>1. /\ scaledBalance \in [Users -> Nat] /\ scaledTotalSupply \in Nat /\ amount \in Nat
      /\ scaledTotalSupply = SumOver(Users, scaledBalance)
  BY DEF DistributorInv, TypeOK, SupplyIsSum
<1>2. /\ scaledBalance' \in [Users -> Nat] /\ scaledTotalSupply' \in Nat
      /\ scaledBalance'[u] = scaledBalance[u] + amount
      /\ \A v \in Users \ {u} : scaledBalance'[v] = scaledBalance[v]
      /\ scaledTotalSupply' = scaledTotalSupply + amount
  BY <1>1 DEF Mint
<1>3. SumOver(Users, scaledBalance') + scaledBalance[u] = SumOver(Users, scaledBalance) + scaledBalance'[u]
  BY <1>1, <1>2, SumUpdate
<1>4. SumOver(Users, scaledBalance') \in Nat
  BY <1>2, SumType
<1>5. SupplyIsSum'
  BY <1>1, <1>2, <1>3, <1>4 DEF SupplyIsSum
<1>6. NotifyBalanceChange({u}) /\ UNCHANGED <<now, yieldDistributor, roundVars, payVars>>
  BY DEF Mint
<1>7. BooksKept
  BY <1>2, <1>6, NotifyStep DEF payVars
<1> QED BY <1>2, <1>5, <1>6, <1>7 DEF TokenStep, DistributorInv, TypeOK

LEMMA BurnStep ==
  ASSUME DistributorInv, NEW u \in Users, NEW amount \in TokenAmounts, Burn(u, amount)
  PROVE  TokenStep
<1> USE DistributorAssumption
<1>1. /\ scaledBalance \in [Users -> Nat] /\ scaledTotalSupply \in Nat /\ amount \in Nat
      /\ scaledTotalSupply = SumOver(Users, scaledBalance)
      /\ amount <= scaledBalance[u]
  BY DEF DistributorInv, TypeOK, SupplyIsSum, Burn
<1>2. /\ scaledBalance' \in [Users -> Nat]
      /\ scaledBalance'[u] = scaledBalance[u] - amount
      /\ \A v \in Users \ {u} : scaledBalance'[v] = scaledBalance[v]
      /\ scaledTotalSupply' = scaledTotalSupply - amount
  BY <1>1 DEF Burn
<1>3. SumOver(Users, scaledBalance') + scaledBalance[u] = SumOver(Users, scaledBalance) + scaledBalance'[u]
  BY <1>1, <1>2, SumUpdate
<1>4. SumOver(Users, scaledBalance') \in Nat
  BY <1>2, SumType
<1>5. scaledTotalSupply' = SumOver(Users, scaledBalance') /\ scaledTotalSupply' \in Nat
  BY <1>1, <1>2, <1>3, <1>4
<1>6. NotifyBalanceChange({u}) /\ UNCHANGED <<now, yieldDistributor, roundVars, payVars>>
  BY DEF Burn
<1>7. BooksKept
  BY <1>2, <1>5, <1>6, NotifyStep DEF payVars
<1> QED BY <1>2, <1>5, <1>6, <1>7 DEF TokenStep, DistributorInv, TypeOK, SupplyIsSum

LEMMA TransferStep ==
  ASSUME DistributorInv, NEW from \in Users, NEW to \in Users,
         NEW amount \in TokenAmounts, Transfer(from, to, amount)
  PROVE  TokenStep
<1> USE DistributorAssumption
<1>1. /\ scaledBalance \in [Users -> Nat] /\ scaledTotalSupply \in Nat /\ amount \in Nat
      /\ scaledTotalSupply = SumOver(Users, scaledBalance)
      /\ amount <= scaledBalance[from] /\ scaledTotalSupply' = scaledTotalSupply
  BY DEF DistributorInv, TypeOK, SupplyIsSum, Transfer
<1>2. NotifyBalanceChange({from, to}) /\ UNCHANGED <<now, yieldDistributor, roundVars, payVars>>
  BY DEF Transfer
<1>3. /\ scaledBalance' \in [Users -> Nat]
      /\ \A v \in Users \ {from, to} : scaledBalance'[v] = scaledBalance[v]
      /\ SumOver(Users, scaledBalance') = SumOver(Users, scaledBalance)
  <2>1. CASE from = to
    BY <1>1, <2>1 DEF Transfer
  <2>2. CASE from # to
    <3>1. /\ scaledBalance' \in [Users -> Nat]
          /\ \A v \in Users \ {from, to} : scaledBalance'[v] = scaledBalance[v]
          /\ scaledBalance'[from] = scaledBalance[from] - amount
          /\ scaledBalance'[to] = scaledBalance[to] + amount
      BY <1>1, <2>2 DEF Transfer
    <3>2. scaledBalance'[from] + scaledBalance'[to] = scaledBalance[from] + scaledBalance[to]
      BY <1>1, <3>1
    <3> QED BY <1>1, <2>2, <3>1, <3>2, SumMove
  <2> QED BY <2>1, <2>2
<1>4. BooksKept
  BY <1>1, <1>2, <1>3, NotifyStep DEF payVars
<1> QED BY <1>1, <1>2, <1>3, <1>4 DEF TokenStep, DistributorInv, TypeOK, SupplyIsSum

LEMMA PokeStep ==
  ASSUME DistributorInv, NEW u \in Users, Poke(u)
  PROVE  TokenStep
<1>1. /\ ATokenBalanceChange({u})
      /\ UNCHANGED <<now, tokenVars, yieldDistributor, roundVars, payVars, drift>>
  BY DEF Poke
<1>2. BooksKept
  BY <1>1, BalanceChangeStep DEF payVars, tokenVars, DistributorInv, TypeOK
<1> QED BY <1>1, <1>2 DEF TokenStep, DistributorInv, TypeOK, SupplyIsSum, tokenVars

\* Such a step keeps the invariant,
LEMMA TokenStepInv ==
  ASSUME DistributorInv, TokenStep
  PROVE  DistributorInv'
BY DEF TokenStep, BooksKept, DistributorInv, TypeOK, roundVars, payVars

\* Distributing opens a new round at the current time.
LEMMA DistributeStep ==
  ASSUME DistributorInv, NEW amount \in YieldAmounts, DistributeYield(amount)
  PROVE  DistributorInv'
<1> USE DistributorAssumption
<1>1. TypeOK /\ amount \in Nat /\ TotalPointNow \in Nat \ {0} /\ currentRound \in Rounds
  <2>1. TotalPointNow # 0
    BY DEF DistributeYield
  <2>2. currentRound \in Rounds
    BY DEF DistributorInv, TypeOK, Rounds
  <2> QED BY <2>1, <2>2, TotalType DEF DistributorInv
<1> DEFINE q == (amount * RAY) \div TotalPointNow
<1>2. q \in Nat
  BY <1>1, FloorType
<1>3. /\ yieldPerPoint' = [yieldPerPoint EXCEPT ![currentRound] = q]
      /\ roundSettleTime' = [roundSettleTime EXCEPT ![currentRound] = now]
      /\ roundTotalPoint' = [roundTotalPoint EXCEPT ![currentRound] = TotalPointNow]
      /\ currentRoundTotalPoint' = 0
      /\ lastTotalPointUpdateTime' = now
      /\ currentRound < MaxRound
      /\ currentRound' = currentRound + 1
      /\ yieldBalance' = yieldBalance + amount
      /\ UNCHANGED <<now, tokenVars, yieldDistributor, currentTotalSupply, currentBalance,
                     pointVars, yieldSettleRound, received, rescued, drift>>
  BY DEF DistributeYield
<1> HIDE DEF q
<1>4. TypeOK'
  BY <1>1, <1>2, <1>3 DEF TypeOK, tokenVars, pointVars
<1>5. TimesInOrder'
  <2>1. ASSUME NEW r \in 0 .. currentRound
        PROVE  /\ roundSettleTime'[r] <= now
               /\ \A p \in 0 .. r : roundSettleTime'[p] <= roundSettleTime'[r]
    <3>1. \A p \in 0 .. (currentRound - 1) :
            /\ roundSettleTime'[p] = roundSettleTime[p] /\ roundSettleTime[p] \in Nat
            /\ roundSettleTime[p] <= lastTotalPointUpdateTime
            /\ \A o \in 0 .. p : roundSettleTime[o] <= roundSettleTime[p]
      BY <1>1, <1>3 DEF DistributorInv, TimesInOrder, TypeOK, Rounds
    <3>2. roundSettleTime'[currentRound] = now
      BY <1>1, <1>3 DEF TypeOK
    <3>3. \A p \in 0 .. (currentRound - 1) : roundSettleTime'[p] <= now
      BY <3>1, TotalType
    <3>4. CASE r = currentRound
      <4>1. \A p \in 0 .. r : p = currentRound \/ p \in 0 .. (currentRound - 1)
        BY <3>4, <1>1 DEF Rounds
      <4>2. now <= now
        BY TotalType
      <4> QED BY <3>2, <3>3, <3>4, <4>1, <4>2
    <3>5. CASE r # currentRound
      <4>1. r \in 0 .. (currentRound - 1) /\ \A p \in 0 .. r : p \in 0 .. (currentRound - 1)
        BY <3>5, <1>1 DEF Rounds
      <4> QED BY <3>1, <3>3, <4>1
    <3> QED BY <3>4, <3>5
  <2>2. ASSUME NEW u \in Users
        PROVE  /\ pointSettleRound[u] < currentRound + 1
               /\ yieldSettleRound[u] < currentRound + 1
               /\ balanceUpdateTime[u] <= now
               /\ roundSettleTime'[pointSettleRound[u]] <= balanceUpdateTime[u]
               /\ pointSettleRound[u] + 1 < currentRound + 1
                    => balanceUpdateTime[u] <= roundSettleTime'[pointSettleRound[u] + 1]
    <3>1. /\ pointSettleRound[u] < currentRound /\ yieldSettleRound[u] < currentRound
          /\ pointSettleRound[u] \in Nat /\ yieldSettleRound[u] \in Nat
          /\ roundSettleTime[pointSettleRound[u]] <= balanceUpdateTime[u]
          /\ pointSettleRound[u] + 1 < currentRound
               => balanceUpdateTime[u] <= roundSettleTime[pointSettleRound[u] + 1]
      BY DEF DistributorInv, TimesInOrder, TypeOK
    <3>2. \A r \in Rounds : roundSettleTime'[r] = IF r = currentRound THEN now ELSE roundSettleTime[r]
      BY <1>1, <1>3 DEF TypeOK
    <3>3. pointSettleRound[u] \in Rounds /\ pointSettleRound[u] # currentRound
      BY <1>1, <3>1 DEF Rounds
    <3>4. pointSettleRound[u] + 1 \in Rounds
      BY <1>1, <3>1 DEF Rounds
    <3>5. pointSettleRound[u] + 1 = currentRound \/ pointSettleRound[u] + 1 < currentRound
      BY <1>1, <3>1 DEF Rounds
    <3>6. pointSettleRound[u] + 1 < currentRound => pointSettleRound[u] + 1 # currentRound
      BY <1>1, <3>1 DEF Rounds
    <3>7. balanceUpdateTime[u] <= roundSettleTime'[pointSettleRound[u] + 1]
      BY <3>1, <3>2, <3>4, <3>5, <3>6, UserTimes
    <3>8. roundSettleTime'[pointSettleRound[u]] <= balanceUpdateTime[u]
      BY <3>1, <3>2, <3>3
    <3>9. pointSettleRound[u] < currentRound + 1 /\ yieldSettleRound[u] < currentRound + 1
      BY <1>1, <3>1 DEF Rounds
    <3> QED BY <3>7, <3>8, <3>9, UserTimes
  <2>3. currentRound' - 1 = currentRound
    BY <1>1, <1>3 DEF Rounds
  <2>4. now <= now
    BY TotalType
  <2> QED BY <1>3, <2>1, <2>2, <2>3, <2>4 DEF TimesInOrder, pointVars
<1>6. SettledWithinRound'
  <2>1. ASSUME NEW u \in Users PROVE pointSettleRound[u] \in Rounds /\ pointSettleRound[u] # currentRound
    BY <1>1, UserTimes DEF Rounds
  <2>2. \A u \in Users : roundSettleTime'[pointSettleRound[u]] = roundSettleTime[pointSettleRound[u]]
    BY <1>1, <1>3, <2>1 DEF TypeOK
  <2>3. \A r \in Rounds : r >= currentRound + 1 => r >= currentRound /\ r # currentRound
    BY <1>1 DEF Rounds
  <2>4. \A r \in Rounds : r # currentRound => roundTotalPoint'[r] = roundTotalPoint[r]
    BY <1>1, <1>3 DEF TypeOK
  <2> QED BY <1>3, <2>2, <2>3, <2>4 DEF SettledWithinRound, DistributorInv, pointVars
<1>7. SupplyIsSum' /\ TracksToken'
  BY <1>3 DEF DistributorInv, SupplyIsSum, TracksToken, tokenVars
<1> QED BY <1>4, <1>5, <1>6, <1>7 DEF DistributorInv

\* Claiming settles one user and pays it; what it pays is what was pending.
LEMMA ClaimStep ==
  ASSUME DistributorInv, NEW u \in Users, ClaimYield(u)
  PROVE  /\ PendingYield(u) \in Nat
         /\ PendingYield(u) <= yieldBalance
         /\ yieldBalance' = yieldBalance - PendingYield(u)
         /\ received' = [received EXCEPT ![u] = received[u] + PendingYield(u)]
         /\ yieldSettleRound' = [yieldSettleRound EXCEPT ![u] = currentRound - 1]
         /\ \A v \in Users, r \in Rounds : PointsOf(v, r)' = PointsOf(v, r)
         /\ UNCHANGED <<now, tokenVars, yieldDistributor, poolVars, roundVars, currentBalance,
                        rescued, drift>>
         /\ DistributorInv'
<1> USE DistributorAssumption
<1> DEFINE U == UnclaimedRounds(u)
           settled == [r \in U |-> RoundYield(SettledRoundPoint(u)[r], r)]
           viewed == [r \in U |-> RoundYield(UserRoundPoint(u, r), r)]
<1>1. currentRound \in 1 .. MaxRound /\ yieldSettleRound[u] \in Nat /\ yieldBalance \in Nat
      /\ yieldPerPoint \in [Rounds -> Nat] /\ received \in [Users -> Nat]
      /\ yieldSettleRound \in [Users -> Nat]
  BY DEF DistributorInv, TypeOK
<1>2. \A r \in U : r \in Rounds /\ r < currentRound
  BY <1>1 DEF UnclaimedRounds, Rounds
<1>3. \A r \in U : viewed[r] = settled[r] /\ viewed[r] \in Nat
  <2> TAKE r \in U
  <2>1. UserRoundPoint(u, r) = SettledRoundPoint(u)[r] /\ UserRoundPoint(u, r) \in Nat
    BY <1>2, ViewIsSettlement, PointsType
  <2>2. RoundYield(UserRoundPoint(u, r), r) \in Nat
    BY <1>1, <1>2, <2>1, FloorType DEF RoundYield
  <2> QED BY <2>1, <2>2
<1>4. IsFiniteSet(U)
  BY <1>1, FS_Interval DEF UnclaimedRounds
<1>5. PendingYield(u) = SumOver(U, viewed)
  BY DEF PendingYield
<1>6. /\ SumOver(U, settled) <= yieldBalance
      /\ yieldBalance' = yieldBalance - SumOver(U, settled)
      /\ received' = [received EXCEPT ![u] = received[u] + SumOver(U, settled)]
      /\ yieldSettleRound' = [yieldSettleRound EXCEPT ![u] = currentRound - 1]
      /\ UpdateUserPoint({u})
      /\ UNCHANGED <<now, tokenVars, yieldDistributor, poolVars, roundVars, currentBalance,
                     rescued, drift>>
  BY DEF ClaimYield
<1> HIDE DEF U, settled, viewed
<1>7. SumOver(U, viewed) = SumOver(U, settled) /\ SumOver(U, viewed) \in Nat
  BY <1>3, <1>4, SumCongruence, SumType
<1>8. /\ PendingYield(u) \in Nat
      /\ PendingYield(u) <= yieldBalance
      /\ yieldBalance' = yieldBalance - PendingYield(u)
      /\ received' = [received EXCEPT ![u] = received[u] + PendingYield(u)]
  BY <1>5, <1>6, <1>7
<1>9. currentBalance \in [Users -> Nat]
  BY DEF DistributorInv, TypeOK
<1>10. /\ roundPoint' \in [Users -> [Rounds -> Nat]]
       /\ settledPoint' \in [Users -> Nat]
       /\ pointSettleRound' \in [Users -> Nat]
       /\ balanceUpdateTime' \in [Users -> Nat]
       /\ \A v \in Users :
            /\ pointSettleRound'[v] < currentRound
            /\ balanceUpdateTime'[v] <= now
            /\ roundSettleTime[pointSettleRound'[v]] <= balanceUpdateTime'[v]
            /\ pointSettleRound'[v] + 1 < currentRound
                 => balanceUpdateTime'[v] <= roundSettleTime[pointSettleRound'[v] + 1]
            /\ balanceUpdateTime'[v] = roundSettleTime[pointSettleRound'[v]]
                 => settledPoint'[v] = 0
       /\ \A v \in Users, r \in Rounds : PointsOf(v, r)' = PointsOf(v, r)
  BY <1>6, <1>9, SettleStep DEF roundVars
<1>11. TypeOK'
  <2>1. yieldBalance' \in Nat /\ received' \in [Users -> Nat]
    BY <1>1, <1>8
  <2>2. yieldSettleRound' \in [Users -> Nat]
    BY <1>1, <1>6
  <2> QED BY <1>6, <1>10, <2>1, <2>2 DEF DistributorInv, TypeOK, tokenVars, poolVars, roundVars
<1>12. TimesInOrder'
  <2>1. \A v \in Users : yieldSettleRound'[v] < currentRound
    BY <1>1, <1>6 DEF DistributorInv, TimesInOrder
  <2> QED BY <1>6, <1>10, <2>1 DEF DistributorInv, TimesInOrder, poolVars, roundVars
<1>13. SettledWithinRound' /\ SupplyIsSum' /\ TracksToken'
  BY <1>6, <1>10 DEF DistributorInv, SettledWithinRound, SupplyIsSum, TracksToken,
                     tokenVars, poolVars, roundVars
<1> QED BY <1>6, <1>8, <1>10, <1>11, <1>12, <1>13 DEF DistributorInv

-----------------------------------------------------------------------------

LEMMA InitDistributorInv == Init => DistributorInv
<1> USE DistributorAssumption
<1> SUFFICES ASSUME Init PROVE DistributorInv
  OBVIOUS
<1>1. TypeOK
  <2>1. currentRound \in 1 .. MaxRound
    <3>1. currentRound = 1 /\ MaxRound \in Nat \ {0}
      BY DEF Init
    <3> QED BY <3>1
  <2>2. roundPoint \in [Users -> [Rounds -> Nat]]
    BY DEF Init
  <2> QED BY <2>1, <2>2 DEF Init, TypeOK
<1>2. TimesInOrder
  <2>1. \A r \in 0 .. 0 : r \in Rounds /\ \A q \in 0 .. r : q \in Rounds
    BY DEF Rounds
  <2> QED BY <2>1 DEF Init, TimesInOrder, Rounds
<1>3. SettledWithinRound
  BY DEF Init, SettledWithinRound, Rounds
<1>4. SupplyIsSum
  <2>1. Units(Users, scaledBalance) = {}
    BY DEF Init, Units
  <2> QED BY <2>1, FS_EmptySet DEF Init, SupplyIsSum, SumOver
<1>5. TracksToken
  BY DEF Init, TracksToken
<1> QED BY <1>1, <1>2, <1>3, <1>4, <1>5 DEF DistributorInv

LEMMA TickStep ==
  ASSUME DistributorInv, Tick
  PROVE  DistributorInv'
<1>1. now \in Nat /\ now' = now + 1
      /\ UNCHANGED <<tokenVars, yieldDistributor, poolVars, roundVars, currentBalance,
                     pointVars, payVars, drift>>
  BY DEF DistributorInv, TypeOK, Tick
<1>2. TypeOK'
  BY <1>1 DEF DistributorInv, TypeOK, tokenVars, poolVars, roundVars, pointVars, payVars
<1>3. TimesInOrder'
  <2>1. \A t \in Nat : t <= now => t <= now'
    BY <1>1
  <2>2. \A u \in Users : balanceUpdateTime[u] <= now'
    BY <2>1, UserTimes
  <2>3. lastTotalPointUpdateTime <= now'
    BY <2>1, TotalType
  <2> QED BY <1>1, <2>2, <2>3 DEF DistributorInv, TimesInOrder, poolVars, roundVars, pointVars, payVars, RoundStart
<1>4. SettledWithinRound' /\ SupplyIsSum' /\ TracksToken'
  BY <1>1 DEF DistributorInv, SettledWithinRound, SupplyIsSum, TracksToken, tokenVars,
              poolVars, roundVars, pointVars
<1> QED BY <1>2, <1>3, <1>4 DEF DistributorInv

LEMMA AdminStep ==
  ASSUME DistributorInv,
         \/ \E isThis \in Settings : SetYieldDistributor(isThis)
         \/ \E amount \in RescueAmounts : RescueToken(amount)
         \/ UNCHANGED vars
  PROVE  DistributorInv'
<1> USE DistributorAssumption
<1>1. TypeOK'
  <2>1. CASE \E isThis \in Settings : SetYieldDistributor(isThis)
    BY <2>1 DEF SetYieldDistributor, DistributorInv, TypeOK, tokenVars, poolVars, roundVars,
                pointVars, payVars
  <2>2. CASE \E amount \in RescueAmounts : RescueToken(amount)
    <3>1. yieldBalance' \in Nat /\ rescued' \in Nat
      BY <2>2 DEF RescueToken, DistributorInv, TypeOK
    <3> QED BY <2>2, <3>1 DEF RescueToken, DistributorInv, TypeOK, tokenVars, poolVars,
                              roundVars, pointVars
  <2>3. CASE UNCHANGED vars
    BY <2>3 DEF vars, DistributorInv, TypeOK, tokenVars, poolVars, roundVars, pointVars, payVars
  <2> QED BY <2>1, <2>2, <2>3
<1>2. UNCHANGED <<now, tokenVars, poolVars, roundVars, currentBalance, pointVars,
                  yieldSettleRound, drift>>
  BY DEF SetYieldDistributor, RescueToken, vars, payVars
<1>3. TimesInOrder' /\ SettledWithinRound' /\ SupplyIsSum' /\ TracksToken'
  BY <1>2 DEF DistributorInv, TimesInOrder, SettledWithinRound, SupplyIsSum, TracksToken,
              tokenVars, poolVars, roundVars, pointVars, RoundStart
<1> QED BY <1>1, <1>3 DEF DistributorInv

\* The books of the distributor are in order in every reachable state.
THEOREM DistributorCorrect == Spec => []DistributorInv
<1>1. DistributorInv /\ [Next]_vars => DistributorInv'
  <2> SUFFICES ASSUME DistributorInv, [Next]_vars PROVE DistributorInv'
    OBVIOUS
  <2> QED BY TickStep, MintStep, BurnStep, TransferStep, PokeStep, TokenStepInv,
             DistributeStep, ClaimStep, AdminStep DEF Next
<1> QED BY InitDistributorInv, <1>1, PTL DEF Spec

-----------------------------------------------------------------------------
(* Refinement *)

pointsOf == [r \in Rounds |-> [u \in Users |-> PointsOf(u, r)]]
totalOf == [r \in Rounds |-> TotalOf(r)]

\* The instance of YieldAccounting counts as this module does.
LEMMA SameSums ==
  /\ \A S : Accounting!IsFiniteSet(S) <=> IsFiniteSet(S)
  /\ \A S, f : Accounting!SumOver(S, f) = SumOver(S, f)
<1>1. \A S : Accounting!IsFiniteSet(S) <=> IsFiniteSet(S)
  BY DEF Accounting!IsFiniteSet, IsFiniteSet
<1>2. \A S : Accounting!Cardinality(S) = Cardinality(S)
  BY DEF Accounting!Cardinality, Cardinality
<1>3. \A S, f : Accounting!Units(S, f) = Units(S, f)
  BY DEF Accounting!Units, Units
<1> QED BY <1>1, <1>2, <1>3 DEF Accounting!SumOver, SumOver

\* The constants of the abstract specification are those of the contract.
LEMMA AccountingConstants == Accounting!AccountingAssumption
BY DistributorAssumption, SameSums DEF Accounting!AccountingAssumption

\* The followed balances are covered by the followed supply, as far as the
\* distributor has heard of the token.
LEMMA CoveredBalances ==
  DistributorInv => Accounting!Covered(currentBalance, currentTotalSupply, drift)
<1> SUFFICES ASSUME DistributorInv
             PROVE  Accounting!Covered(currentBalance, currentTotalSupply, drift)
  OBVIOUS
<1> USE DistributorAssumption
<1>1. /\ scaledBalance \in [Users -> Nat] /\ currentBalance \in [Users -> Nat]
      /\ scaledTotalSupply = SumOver(Users, scaledBalance)
  BY DEF DistributorInv, TypeOK, SupplyIsSum
<1>2. drift = "none" => SumOver(Users, currentBalance) = currentTotalSupply
  BY <1>1 DEF DistributorInv, TracksToken
<1>3. ASSUME drift = "late" PROVE SumOver(Users, currentBalance) <= currentTotalSupply
  <2>1. CASE \A u \in Users : currentBalance[u] = 0
    <3>1. Units(Users, currentBalance) = {}
      BY <2>1 DEF Units
    <3>2. SumOver(Users, currentBalance) = 0
      BY <3>1, FS_EmptySet DEF SumOver
    <3> QED BY <3>2, TotalType
  <2>2. CASE /\ currentTotalSupply = scaledTotalSupply
             /\ \A u \in Users : currentBalance[u] <= scaledBalance[u]
    BY <1>1, <2>2, SumMonotone
  <2> QED BY <1>3, <2>1, <2>2 DEF DistributorInv, TracksToken
<1> QED BY <1>2, <1>3, SameSums DEF Accounting!Covered

\* Time earns every user its balance and the pool its supply.
LEMMA TickEarns ==
  ASSUME DistributorInv, Tick
  PROVE  Accounting!Earn
<1> USE DistributorAssumption
<1>1. now' = now + 1 /\ now \in Nat /\ currentRound \in 1 .. MaxRound /\ currentRound \in Rounds
      /\ UNCHANGED <<tokenVars, yieldDistributor, poolVars, roundVars, currentBalance,
                     pointVars, payVars, drift>>
  BY DEF DistributorInv, TypeOK, Tick, Rounds
<1>2. ASSUME NEW u \in Users
      PROVE  SettledPointNow(u)' = SettledPointNow(u) + currentBalance[u]
  <2>1. AccrualStart(u)' = AccrualStart(u) /\ PassedRounds(u)' = PassedRounds(u)
    BY <1>1 DEF AccrualStart, PassedRounds, roundVars, pointVars
  <2>2. currentBalance[u] * ((now + 1) - AccrualStart(u))
          = currentBalance[u] * (now - AccrualStart(u)) + currentBalance[u]
    BY <1>1, AccrualFacts, UserTimes, DurationStep
  <2> DEFINE earned == currentBalance[u] * (now - AccrualStart(u))
             before == IF PassedRounds(u) # {} THEN 0 ELSE settledPoint[u]
  <2>3. earned \in Nat /\ before \in Nat /\ currentBalance[u] \in Nat
    BY <1>1, AccrualFacts, UserTimes, DurationStep
  <2>4. SettledPointNow(u) = before + earned
    BY DEF SettledPointNow
  <2>5. SettledPointNow(u)' = before + (earned + currentBalance[u])
    BY <1>1, <2>1, <2>2 DEF SettledPointNow, pointVars
  <2> HIDE DEF earned, before
  <2> QED BY <2>3, <2>4, <2>5
<1>3. \A u \in Users, r \in Rounds : UserRoundPoint(u, r)' = UserRoundPoint(u, r)
  BY <1>1 DEF UserRoundPoint, RoundStart, roundVars, pointVars
<1>4. TotalPointNow' = TotalPointNow + currentTotalSupply
  <2> DEFINE earned == currentTotalSupply * (now - lastTotalPointUpdateTime)
  <2>1. /\ earned \in Nat
        /\ currentTotalSupply * ((now + 1) - lastTotalPointUpdateTime) = earned + currentTotalSupply
    BY TotalType, DurationStep
  <2>2. TotalPointNow' = currentRoundTotalPoint + (earned + currentTotalSupply)
    BY <1>1, <2>1 DEF TotalPointNow, poolVars
  <2>3. TotalPointNow = currentRoundTotalPoint + earned
    BY DEF TotalPointNow
  <2> HIDE DEF earned
  <2> QED BY <2>1, <2>2, <2>3, TotalType
<1>5. pointsOf' = [pointsOf EXCEPT ![currentRound] = [u \in Users |-> pointsOf[currentRound][u] + currentBalance[u]]]
  <2>1. \A u \in Users, r \in Rounds :
          PointsOf(u, r)' = IF r = currentRound THEN PointsOf(u, r) + currentBalance[u] ELSE PointsOf(u, r)
    BY <1>1, <1>2, <1>3 DEF PointsOf, roundVars
  <2>2. pointsOf[currentRound] = [u \in Users |-> PointsOf(u, currentRound)]
    BY <1>1 DEF pointsOf
  <2> QED BY <1>1, <2>1, <2>2 DEF pointsOf
<1>6. totalOf' = [totalOf EXCEPT ![currentRound] = totalOf[currentRound] + currentTotalSupply]
  <2>1. \A r \in Rounds :
          TotalOf(r)' = IF r = currentRound THEN TotalOf(r) + currentTotalSupply ELSE TotalOf(r)
    BY <1>1, <1>4 DEF TotalOf, roundVars
  <2> QED BY <1>1, <2>1 DEF totalOf
<1> QED BY <1>1, <1>5, <1>6
        DEF Accounting!Earn, pointsOf, totalOf, tokenVars, poolVars, roundVars, payVars

\* Changes of balances, and pokes, only change what is followed.
LEMMA TokenStepTracks ==
  ASSUME DistributorInv, TokenStep
  PROVE  Accounting!Track
<1>1. DistributorInv'
  BY TokenStepInv
<1>2. Accounting!Covered(currentBalance, currentTotalSupply, drift)'
  <2>1. (DistributorInv => Accounting!Covered(currentBalance, currentTotalSupply, drift))'
    BY CoveredBalances, PTL
  <2> QED BY <1>1, <2>1
<1>3. pointsOf' = pointsOf
  BY DEF pointsOf, TokenStep, BooksKept
<1>4. totalOf' = totalOf
  BY DEF totalOf, TokenStep, BooksKept
<1> QED BY <1>2, <1>3, <1>4 DEF Accounting!Track, Accounting!Drifts, Accounting!Covered, TokenStep, BooksKept,
           pointsOf, totalOf, roundVars, payVars

\* Distributing closes the round at the points earned by now.
LEMMA DistributeCloses ==
  ASSUME DistributorInv, NEW amount \in YieldAmounts, DistributeYield(amount)
  PROVE  Accounting!Distribute
<1> USE DistributorAssumption
<1>1. /\ currentRound \in 1 .. MaxRound /\ currentRound \in Rounds /\ amount \in Nat
      /\ yieldBalance \in Nat /\ TotalPointNow \in Nat /\ TotalPointNow # 0
      /\ roundSettleTime \in [Rounds -> Nat] /\ roundTotalPoint \in [Rounds -> Nat]
  <2>1. TotalPointNow # 0
    BY DEF DistributeYield
  <2>2. currentRound \in Rounds
    BY DEF DistributorInv, TypeOK, Rounds
  <2> QED BY <2>1, <2>2, TotalType DEF DistributorInv, TypeOK
<1>2. /\ yieldPerPoint' = [yieldPerPoint EXCEPT ![currentRound] = (amount * RAY) \div TotalPointNow]
      /\ roundSettleTime' = [roundSettleTime EXCEPT ![currentRound] = now]
      /\ roundTotalPoint' = [roundTotalPoint EXCEPT ![currentRound] = TotalPointNow]
      /\ currentRoundTotalPoint' = 0
      /\ lastTotalPointUpdateTime' = now
      /\ currentRound < MaxRound
      /\ currentRound' = currentRound + 1
      /\ yieldBalance' = yieldBalance + amount
      /\ UNCHANGED <<now, tokenVars, yieldDistributor, currentTotalSupply, currentBalance,
                     pointVars, yieldSettleRound, received, rescued, drift>>
  BY DEF DistributeYield
<1>3. ASSUME NEW u \in Users, NEW r \in Rounds PROVE PointsOf(u, r)' = PointsOf(u, r)
  <2>1. CASE r < currentRound
    <3>1. ~ (r >= currentRound) /\ ~ (r >= currentRound + 1) /\ r # currentRound /\ r # currentRound + 1
      BY <1>1, <2>1 DEF Rounds
    <3>2. r > pointSettleRound[u] => r \in PassedRounds(u)
      BY <1>1, <2>1, UserTimes DEF PassedRounds, Rounds
    <3>3. ~ (r <= pointSettleRound[u]) =>
             /\ roundSettleTime'[r] = roundSettleTime[r]
             /\ roundSettleTime'[r - 1] = roundSettleTime[r - 1]
      <4> SUFFICES ASSUME ~ (r <= pointSettleRound[u])
                   PROVE  /\ roundSettleTime'[r] = roundSettleTime[r]
                          /\ roundSettleTime'[r - 1] = roundSettleTime[r - 1]
        OBVIOUS
      <4>1. r > pointSettleRound[u]
        BY UserTimes DEF Rounds
      <4>2. r - 1 \in Rounds /\ r - 1 # currentRound
        BY <1>1, <2>1, <3>2, <4>1, UserTimes DEF Rounds
      <4> QED BY <1>1, <1>2, <3>1, <4>2
    <3>4. UserRoundPoint(u, r)' = UserRoundPoint(u, r)
      BY <1>2, <3>1, <3>3 DEF UserRoundPoint, RoundStart, pointVars
    <3> QED BY <1>2, <3>1, <3>4 DEF PointsOf
  <2>2. CASE r = currentRound
    <3>1. ~ (r >= currentRound + 1) /\ r # currentRound + 1 /\ r - 1 \in Rounds /\ r - 1 # currentRound
      BY <1>1, <2>2 DEF Rounds
    <3>2. ~ (r <= pointSettleRound[u])
      BY <1>1, <2>2, UserTimes DEF Rounds
    <3>3. roundSettleTime'[r] = now /\ roundSettleTime'[r - 1] = roundSettleTime[r - 1]
      BY <1>1, <1>2, <2>2, <3>1
    <3>4. PointsOf(u, r)' = UserRoundPoint(u, r)'
      BY <1>2, <3>1 DEF PointsOf
    <3>5. UserRoundPoint(u, r)' =
            IF balanceUpdateTime[u] <= roundSettleTime[r - 1]
            THEN currentBalance[u] * (now - roundSettleTime[r - 1])
            ELSE settledPoint[u] + currentBalance[u] * (now - balanceUpdateTime[u])
      BY <1>2, <3>1, <3>2, <3>3 DEF UserRoundPoint, RoundStart, pointVars
    <3>6. PointsOf(u, r) = (IF PassedRounds(u) # {} THEN 0 ELSE settledPoint[u])
                             + currentBalance[u] * (now - AccrualStart(u))
      BY <2>2 DEF PointsOf, SettledPointNow
    <3>7. CASE PassedRounds(u) # {}
      <4>1. balanceUpdateTime[u] <= roundSettleTime[r - 1]
        <5>1. r - 1 \in PassedRounds(u)
          BY <1>1, <2>2, <3>7, UserTimes DEF PassedRounds, Rounds
        <5> QED BY <5>1, UserTimes
      <4>2. AccrualStart(u) = roundSettleTime[r - 1]
        BY <2>2, <3>7 DEF AccrualStart
      <4> DEFINE earned == currentBalance[u] * (now - roundSettleTime[r - 1])
      <4>3. earned \in Nat
        BY <2>2, UserTimes, DurationStep
      <4>4. PointsOf(u, r) = 0 + earned /\ UserRoundPoint(u, r)' = earned
        BY <3>5, <3>6, <3>7, <4>1, <4>2
      <4> HIDE DEF earned
      <4> QED BY <3>4, <4>3, <4>4
    <3>8. CASE PassedRounds(u) = {}
      <4>1. pointSettleRound[u] = r - 1
        BY <1>1, <2>2, <3>8, UserTimes DEF PassedRounds
      <4>2. roundSettleTime[r - 1] <= balanceUpdateTime[u]
        BY <4>1, UserTimes
      <4>3. CASE balanceUpdateTime[u] <= roundSettleTime[r - 1]
        <5>1. balanceUpdateTime[u] = roundSettleTime[r - 1]
          BY <2>2, <4>2, <4>3, UserTimes
        <5>2. settledPoint[u] = 0
          BY <4>1, <5>1 DEF DistributorInv, SettledWithinRound
        <5>3. AccrualStart(u) = roundSettleTime[r - 1]
          BY <2>2, <4>3 DEF AccrualStart
        <5> DEFINE earned == currentBalance[u] * (now - roundSettleTime[r - 1])
        <5>4. earned \in Nat
          BY <2>2, UserTimes, DurationStep
        <5>5. PointsOf(u, r) = 0 + earned /\ UserRoundPoint(u, r)' = earned
          BY <3>5, <3>6, <3>8, <4>3, <5>2, <5>3
        <5> HIDE DEF earned
        <5> QED BY <3>4, <5>4, <5>5
      <4>4. CASE ~ (balanceUpdateTime[u] <= roundSettleTime[r - 1])
        <5>1. AccrualStart(u) = balanceUpdateTime[u]
          BY <2>2, <3>8, <4>4 DEF AccrualStart
        <5> QED BY <3>4, <3>5, <3>6, <3>8, <4>4, <5>1
      <4> QED BY <4>3, <4>4
    <3> QED BY <3>7, <3>8
  <2>3. CASE r > currentRound
    <3>1. r >= currentRound /\ r # currentRound /\ r >= currentRound + 1
      BY <1>1, <2>3 DEF Rounds
    <3>2. PointsOf(u, r) = 0
      BY <3>1 DEF PointsOf, UserRoundPoint
    <3>3. CASE r # currentRound + 1
      BY <1>2, <3>1, <3>2, <3>3 DEF PointsOf, UserRoundPoint
    <3>4. CASE r = currentRound + 1
      <4>1. currentRound \in PassedRounds(u)'
        BY <1>1, <1>2, UserTimes DEF PassedRounds, pointVars
      <4>2. roundSettleTime'[currentRound' - 1] = now
        <5>1. currentRound' - 1 = currentRound
          BY <1>1, <1>2
        <5> QED BY <1>1, <1>2, <5>1
      <4>3. AccrualStart(u)' = now
        BY <4>1, <4>2 DEF AccrualStart
      <4>4. currentBalance[u] * (now - now) = 0
        BY UserTimes
      <4>5. SettledPointNow(u)' = 0 + 0
        BY <1>2, <4>1, <4>3, <4>4 DEF SettledPointNow
      <4> QED BY <1>2, <3>2, <3>4, <4>5 DEF PointsOf
    <3> QED BY <3>3, <3>4
  <2> QED BY <1>1, <2>1, <2>2, <2>3 DEF Rounds
<1>4. pointsOf' = pointsOf
  BY <1>3 DEF pointsOf
<1>5. totalOf' = totalOf
  <2>1. currentTotalSupply * (now - now) = 0
    BY TotalType
  <2>2. TotalPointNow' = 0 + 0
    BY <1>2, <2>1 DEF TotalPointNow
  <2>3. ASSUME NEW r \in Rounds PROVE TotalOf(r)' = TotalOf(r)
    <3>1. r = currentRound => r # currentRound + 1
      BY <1>1
    <3>2. r = currentRound + 1 => r >= currentRound /\ r # currentRound
      BY <1>1
    <3>3. r = currentRound + 1 => roundTotalPoint[r] = 0
      BY <3>2 DEF DistributorInv, SettledWithinRound
    <3> QED BY <1>1, <1>2, <2>2, <3>1, <3>2, <3>3 DEF TotalOf
  <2> QED BY <2>3 DEF totalOf
<1>6. totalOf[currentRound] = TotalPointNow /\ TotalPointNow > 0
  BY <1>1 DEF totalOf, TotalOf
<1>7. yieldBalance' - yieldBalance = amount /\ yieldBalance' \in Nat /\ yieldBalance <= yieldBalance'
  BY <1>1, <1>2
<1> QED BY <1>2, <1>4, <1>5, <1>6, <1>7 DEF Accounting!Distribute, pointsOf, totalOf

\* What getPendingYield computes is what the user is due by the accounting.
LEMMA SamePending ==
  ASSUME DistributorInv, NEW u \in Users
  PROVE  Accounting!Pending(u) = PendingYield(u)
<1> USE DistributorAssumption
<1> DEFINE U == UnclaimedRounds(u)
           viewed == [r \in U |-> RoundYield(UserRoundPoint(u, r), r)]
           due == [r \in U |-> Accounting!Yield(u, r)]
<1>1. Accounting!Claimable(u) = U
  BY DEF Accounting!Claimable, UnclaimedRounds
<1>2. ASSUME NEW r \in U PROVE due[r] = viewed[r]
  <2>1. r \in Rounds /\ r # currentRound
    <3>1. yieldSettleRound[u] \in Nat /\ currentRound \in 1 .. MaxRound
      BY DEF DistributorInv, TypeOK
    <3> QED BY <3>1 DEF UnclaimedRounds, Rounds
  <2>2. pointsOf[r][u] = UserRoundPoint(u, r)
    BY <2>1 DEF pointsOf, PointsOf
  <2> QED BY <2>2 DEF Accounting!Yield, RoundYield, pointsOf
<1>3. SumOver(U, due) = SumOver(U, viewed)
  <2> HIDE DEF U, due, viewed
  <2> QED BY <1>2, SumCongruence
<1>4. Accounting!Pending(u) = SumOver(U, due)
  BY <1>1, SameSums DEF Accounting!Pending
<1> QED BY <1>3, <1>4 DEF PendingYield

\* Claiming pays that.
LEMMA ClaimPays ==
  ASSUME DistributorInv, NEW u \in Users, ClaimYield(u)
  PROVE  Accounting!Claim(u)
<1>1. /\ PendingYield(u) <= yieldBalance
      /\ yieldBalance' = yieldBalance - PendingYield(u)
      /\ received' = [received EXCEPT ![u] = received[u] + PendingYield(u)]
      /\ yieldSettleRound' = [yieldSettleRound EXCEPT ![u] = currentRound - 1]
      /\ \A v \in Users, r \in Rounds : PointsOf(v, r)' = PointsOf(v, r)
      /\ UNCHANGED <<now, tokenVars, yieldDistributor, poolVars, roundVars, currentBalance,
                     rescued, drift>>
  BY ClaimStep
<1>2. pointsOf' = pointsOf
  BY <1>1 DEF pointsOf
<1>3. totalOf' = totalOf
  BY <1>1 DEF totalOf, TotalOf, TotalPointNow, poolVars, roundVars
<1>4. Accounting!Pending(u) = PendingYield(u)
  BY SamePending
<1> QED BY <1>1, <1>2, <1>3, <1>4
        DEF Accounting!Claim, pointsOf, totalOf, poolVars, roundVars

\* The owner's other operations.
LEMMA AdminRefines ==
  ASSUME DistributorInv
  PROVE  /\ \A isThis \in Settings : SetYieldDistributor(isThis) => UNCHANGED Accounting!vars
         /\ \A amount \in RescueAmounts : RescueToken(amount) => Accounting!Rescue
         /\ UNCHANGED vars => UNCHANGED Accounting!vars
<1> USE DistributorAssumption
<1>1. ASSUME UNCHANGED <<now, tokenVars, poolVars, roundVars, currentBalance, pointVars,
                         yieldSettleRound, received, drift>>
      PROVE  pointsOf' = pointsOf /\ totalOf' = totalOf
  <2>1. UNCHANGED <<now, currentRound, roundSettleTime, roundTotalPoint,
                    lastTotalPointUpdateTime, currentTotalSupply, currentRoundTotalPoint,
                    currentBalance, balanceUpdateTime, pointSettleRound, settledPoint, roundPoint>>
    BY <1>1 DEF poolVars, roundVars, pointVars
  <2>2. \A u \in Users, r \in Rounds : PointsOf(u, r)' = PointsOf(u, r)
    BY <2>1 DEF PointsOf, UserRoundPoint, SettledPointNow, AccrualStart, PassedRounds, RoundStart
  <2>3. \A r \in Rounds : TotalOf(r)' = TotalOf(r)
    BY <2>1 DEF TotalOf, TotalPointNow
  <2> QED BY <2>2, <2>3 DEF pointsOf, totalOf
<1>2. ASSUME NEW isThis \in Settings, SetYieldDistributor(isThis) PROVE UNCHANGED Accounting!vars
  BY <1>1, <1>2 DEF SetYieldDistributor, Accounting!vars, pointsOf, totalOf, roundVars, poolVars, payVars
<1>3. ASSUME NEW amount \in RescueAmounts, RescueToken(amount) PROVE Accounting!Rescue
  <2>1. /\ amount \in Nat /\ yieldBalance \in Nat /\ rescued \in Nat /\ amount <= yieldBalance
        /\ yieldBalance' = yieldBalance - amount /\ rescued' = rescued + amount
    BY <1>3 DEF RescueToken, DistributorInv, TypeOK
  <2>2. yieldBalance' \in Nat /\ yieldBalance' <= yieldBalance /\ yieldBalance - yieldBalance' = amount
    BY <2>1
  <2> QED BY <1>1, <1>3, <2>1, <2>2 DEF RescueToken, Accounting!Rescue, pointsOf, totalOf, roundVars, poolVars
<1>4. ASSUME UNCHANGED vars PROVE UNCHANGED Accounting!vars
  BY <1>1, <1>4 DEF vars, Accounting!vars, pointsOf, totalOf, roundVars, poolVars, payVars
<1> QED BY <1>2, <1>3, <1>4

LEMMA InitRefines == Init => Accounting!Init
<1> USE DistributorAssumption
<1> SUFFICES ASSUME Init PROVE Accounting!Init
  OBVIOUS
<1>1. \A u \in Users, r \in Rounds : PointsOf(u, r) = 0
  <2> TAKE u \in Users, r \in Rounds
  <2>1. PassedRounds(u) = {}
    BY DEF Init, PassedRounds
  <2>2. 0 * (now - AccrualStart(u)) = 0
    <3>1. now \in Int /\ AccrualStart(u) \in Int
      BY <2>1 DEF Init, AccrualStart, Rounds
    <3> QED BY <3>1
  <2>3. SettledPointNow(u) = 0 + 0
    BY <2>1, <2>2 DEF Init, SettledPointNow
  <2>4. r \in Nat
    BY DEF Rounds
  <2>5. r >= 1 \/ r = 0
    BY <2>4
  <2> QED BY <2>3, <2>5 DEF Init, PointsOf, UserRoundPoint
<1>2. \A r \in Rounds : TotalOf(r) = 0
  BY DEF Init, TotalOf, TotalPointNow
<1> QED BY <1>1, <1>2 DEF Init, Accounting!Init, Accounting!Rounds, Rounds

\* The distributor, settling late and only who is touched, implements the
\* accounting that credits every user and the pool at every instant.
THEOREM DistributorRefines == Spec => AccountingSpec
<1>1. DistributorInv /\ [Next]_vars => [Accounting!Next]_(Accounting!vars)
  <2> SUFFICES ASSUME DistributorInv, [Next]_vars
               PROVE  Accounting!Next \/ UNCHANGED Accounting!vars
    OBVIOUS
  <2>1. CASE Tick
    BY <2>1, TickEarns DEF Accounting!Next
  <2>2. CASE \E u \in Users, amount \in TokenAmounts : Mint(u, amount)
    BY <2>2, MintStep, TokenStepTracks DEF Accounting!Next
  <2>3. CASE \E u \in Users, amount \in TokenAmounts : Burn(u, amount)
    BY <2>3, BurnStep, TokenStepTracks DEF Accounting!Next
  <2>4. CASE \E from \in Users, to \in Users, amount \in TokenAmounts : Transfer(from, to, amount)
    BY <2>4, TransferStep, TokenStepTracks DEF Accounting!Next
  <2>5. CASE \E u \in Users : Poke(u)
    BY <2>5, PokeStep, TokenStepTracks DEF Accounting!Next
  <2>6. CASE \E amount \in YieldAmounts : DistributeYield(amount)
    BY <2>6, DistributeCloses DEF Accounting!Next
  <2>7. CASE \E u \in Users : ClaimYield(u)
    BY <2>7, ClaimPays DEF Accounting!Next
  <2>8. CASE \/ \E isThis \in Settings : SetYieldDistributor(isThis)
             \/ \E amount \in RescueAmounts : RescueToken(amount)
             \/ UNCHANGED vars
    BY <2>8, AdminRefines DEF Accounting!Next
  <2> QED BY <2>1, <2>2, <2>3, <2>4, <2>5, <2>6, <2>7, <2>8 DEF Next
<1> QED BY InitRefines, DistributorCorrect, <1>1, PTL DEF Spec, AccountingSpec, Accounting!Spec

-----------------------------------------------------------------------------
(* What follows for the holders *)

\* The theorems about YieldAccounting, read in the contract's terms.
Safe == INSTANCE YieldAccountingProofs WITH
  Amounts <- Nat,
  round <- currentRound, held <- currentBalance, supply <- currentTotalSupply,
  points <- [r \in Rounds |-> [u \in Users |-> PointsOf(u, r)]],
  total <- [r \in Rounds |-> TotalOf(r)],
  rate <- yieldPerPoint, claimed <- yieldSettleRound, pot <- yieldBalance

\* The two instances count alike.
LEMMA SameInstances ==
  /\ Safe!AccountingAssumption
  /\ \A S, f : Safe!SumOver(S, f) = Accounting!SumOver(S, f)
  /\ \A u : Safe!Pending(u) = Accounting!Pending(u)
<1>1. \A S : Safe!IsFiniteSet(S) <=> IsFiniteSet(S)
  BY DEF Safe!IsFiniteSet, IsFiniteSet
<1>2. \A S : Safe!Cardinality(S) = Accounting!Cardinality(S)
  BY DEF Safe!Cardinality, Accounting!Cardinality
<1>3. \A S, f : Safe!Units(S, f) = Accounting!Units(S, f)
  BY DEF Safe!Units, Accounting!Units
<1>4. \A S, f : Safe!SumOver(S, f) = Accounting!SumOver(S, f)
  BY <1>2, <1>3 DEF Safe!SumOver, Accounting!SumOver
<1>5. \A u : Safe!Pending(u) = Accounting!Pending(u)
  BY <1>4 DEF Safe!Pending, Accounting!Pending, Safe!Claimable, Accounting!Claimable,
              Safe!Yield, Accounting!Yield
<1> QED BY <1>1, <1>4, <1>5, DistributorAssumption DEF Safe!AccountingAssumption

LEMMA SameSpec == Accounting!Spec => Safe!Spec
<1>1. Accounting!Init => Safe!Init
  BY DEF Accounting!Init, Safe!Init, Accounting!Rounds, Safe!Rounds
<1>2. [Accounting!Next]_(Accounting!vars) => [Safe!Next]_(Safe!vars)
  <2> SUFFICES ASSUME [Accounting!Next]_(Accounting!vars) PROVE Safe!Next \/ UNCHANGED Safe!vars
    OBVIOUS
  <2>1. CASE Accounting!Earn
    BY <2>1 DEF Accounting!Earn, Safe!Earn, Safe!Next
  <2>2. CASE Accounting!Track
    BY <2>2, SameInstances DEF Accounting!Track, Safe!Track, Safe!Next, Accounting!Covered,
       Safe!Covered, Accounting!Drifts, Safe!Drifts
  <2>3. CASE Accounting!Distribute
    BY <2>3 DEF Accounting!Distribute, Safe!Distribute, Safe!Next
  <2>4. CASE \E u \in Users : Accounting!Claim(u)
    <3>1. PICK u \in Users : Accounting!Claim(u)
      BY <2>4
    <3>2. Safe!Pending(u) = Accounting!Pending(u)
      BY SameInstances
    <3>3. Safe!Claim(u)
      BY <3>1, <3>2 DEF Accounting!Claim, Safe!Claim
    <3> QED BY <3>3 DEF Safe!Next
  <2>5. CASE Accounting!Rescue
    BY <2>5 DEF Accounting!Rescue, Safe!Rescue, Safe!Next
  <2>6. CASE UNCHANGED Accounting!vars
    BY <2>6 DEF Accounting!vars, Safe!vars
  <2> QED BY <2>1, <2>2, <2>3, <2>4, <2>5, <2>6 DEF Accounting!Next
<1> QED BY <1>1, <1>2, PTL DEF Accounting!Spec, Safe!Spec

\* The users never have more points of a closed round than the pool divided
\* its yield by, nor fewer if the distributor heard of every change.
THEOREM PointsNeverExceedTotal == Spec => []PointsWithinTotal
<1>1. DistributorInv /\ Safe!AccountingInv => PointsWithinTotal
  <2> SUFFICES ASSUME DistributorInv, Safe!AccountingInv,
                      NEW r \in 1 .. (currentRound - 1)
               PROVE  LET earned == SumOver(Users, [u \in Users |-> UserRoundPoint(u, r)]) IN
                      /\ drift # "stale" => earned <= roundTotalPoint[r]
                      /\ drift = "none" => earned = roundTotalPoint[r]
    BY DEF PointsWithinTotal
  <2>1. r \in Rounds /\ r # currentRound
    BY DistributorAssumption DEF DistributorInv, TypeOK, Rounds
  <2>2. Safe!Covered(pointsOf[r], totalOf[r], drift)
    BY <2>1 DEF Safe!AccountingInv, Safe!PointsCovered, Safe!Rounds, Rounds, pointsOf, totalOf
  <2> DEFINE earned == SumOver(Users, [u \in Users |-> UserRoundPoint(u, r)])
  <2>3. totalOf[r] = roundTotalPoint[r] /\ totalOf[r] \in Nat
    BY <2>1 DEF totalOf, TotalOf, DistributorInv, TypeOK
  <2>4. pointsOf[r] = [u \in Users |-> UserRoundPoint(u, r)]
    BY <2>1 DEF pointsOf, PointsOf
  <2>5. Safe!SumOver(Users, pointsOf[r]) = earned
    BY <2>4, SameInstances, SameSums
  <2>6. drift \in {"none", "late", "stale"}
    BY DEF DistributorInv, TypeOK
  <2> HIDE DEF earned
  <2>7. /\ drift # "stale" => earned <= roundTotalPoint[r]
        /\ drift = "none" => earned = roundTotalPoint[r]
    BY <2>2, <2>3, <2>5, <2>6 DEF Safe!Covered
  <2> QED BY <2>7 DEF earned
<1>2. Safe!Spec => []Safe!AccountingInv
  BY SameInstances, Safe!AccountingSafe
<1> QED BY <1>1, <1>2, SameSpec, DistributorCorrect, DistributorRefines, PTL DEF AccountingSpec

\* The contract can pay every user what it is owed, up to what the owner took.
THEOREM DistributorSolvent == Spec => []Solvent
<1>1. DistributorInv /\ Safe!AccountingInv => Solvent
  <2> SUFFICES ASSUME DistributorInv, Safe!AccountingInv PROVE Solvent
    OBVIOUS
  <2> DEFINE due == [u \in Users |-> Safe!Pending(u)]
             pending == [u \in Users |-> PendingYield(u)]
  <2>1. \A u \in Users : due[u] = pending[u]
    BY SameInstances, SamePending
  <2>2. SumOver(Users, due) = SumOver(Users, pending)
    <3> HIDE DEF due, pending
    <3> QED BY <2>1, SumCongruence
  <2>3. Safe!SumOver(Users, due) = SumOver(Users, due)
    BY SameInstances, SameSums
  <2>4. drift # "stale" => Safe!SumOver(Users, due) <= yieldBalance + rescued
    BY DEF Safe!AccountingInv, Safe!Solvent
  <2> QED BY <2>2, <2>3, <2>4 DEF Solvent
<1>2. Safe!Spec => []Safe!AccountingInv
  BY SameInstances, Safe!AccountingSafe
<1> QED BY <1>1, <1>2, SameSpec, DistributorCorrect, DistributorRefines, PTL DEF AccountingSpec

\* What the view announces is what the claim pays.
THEOREM ClaimsPayPending == Spec => ClaimPaysPending
<1>1. DistributorInv /\ [Next]_vars =>
        \A u \in Users : yieldSettleRound'[u] # yieldSettleRound[u]
                           => received'[u] - received[u] = PendingYield(u)
  <2> SUFFICES ASSUME DistributorInv, [Next]_vars, NEW u \in Users,
                      yieldSettleRound'[u] # yieldSettleRound[u]
               PROVE  received'[u] - received[u] = PendingYield(u)
    OBVIOUS
  <2>1. PICK v \in Users : ClaimYield(v)
    <3>1. yieldSettleRound' # yieldSettleRound
      OBVIOUS
    <3> QED BY <3>1 DEF Next, vars, Tick, Mint, Burn, Transfer, Poke, SetYieldDistributor,
               DistributeYield, RescueToken, payVars
  <2>2. /\ PendingYield(v) \in Nat
        /\ received' = [received EXCEPT ![v] = received[v] + PendingYield(v)]
        /\ yieldSettleRound' = [yieldSettleRound EXCEPT ![v] = currentRound - 1]
    BY <2>1, ClaimStep
  <2>3. received \in [Users -> Nat] /\ yieldSettleRound \in [Users -> Nat]
    BY DEF DistributorInv, TypeOK
  <2>4. u = v
    BY <2>2, <2>3
  <2>5. received'[u] = received[u] + PendingYield(u) /\ received[u] \in Nat
    BY <2>2, <2>3, <2>4
  <2> QED BY <2>2, <2>4, <2>5
<1> QED BY <1>1, DistributorCorrect, PTL DEF Spec, ClaimPaysPending

\* No step alters the points of a closed round.
LEMMA ClosedPointsStep ==
  ASSUME DistributorInv, [Next]_vars, NEW u \in Users, NEW r \in 1 .. (currentRound - 1)
  PROVE  UserRoundPoint(u, r)' = UserRoundPoint(u, r)
<1>1. /\ r \in Rounds /\ r # currentRound /\ r # currentRound + 1
      /\ r \in Nat /\ currentRound \in Nat /\ r < currentRound
  BY DistributorAssumption DEF DistributorInv, TypeOK, Rounds
<1>2. CASE \E amount \in YieldAmounts : DistributeYield(amount)
  <2>1. PICK amount \in YieldAmounts : DistributeYield(amount)
    BY <1>2
  <2>2. Accounting!Distribute
    BY <2>1, DistributeCloses
  <2>3. pointsOf'[r][u] = pointsOf[r][u]
    BY <2>2 DEF Accounting!Distribute, pointsOf
  <2>4. PointsOf(u, r)' = PointsOf(u, r)
    BY <1>1, <2>3 DEF pointsOf
  <2>5. currentRound' = currentRound + 1
    BY <2>1 DEF DistributeYield
  <2> QED BY <1>1, <2>4, <2>5 DEF PointsOf
<1>3. CASE TokenStep
  <2>1. PointsOf(u, r)' = PointsOf(u, r) /\ currentRound' = currentRound
    BY <1>1, <1>3 DEF TokenStep, BooksKept, roundVars
  <2> QED BY <1>1, <2>1 DEF PointsOf
<1>4. CASE \E v \in Users : ClaimYield(v)
  <2>1. PointsOf(u, r)' = PointsOf(u, r) /\ currentRound' = currentRound
    BY <1>1, <1>4, ClaimStep DEF roundVars
  <2> QED BY <1>1, <2>1 DEF PointsOf
<1>5. CASE \/ Tick
           \/ \E isThis \in Settings : SetYieldDistributor(isThis)
           \/ \E amount \in RescueAmounts : RescueToken(amount)
           \/ UNCHANGED vars
  <2>1. UNCHANGED <<roundVars, pointVars, currentBalance>>
    BY <1>5 DEF Tick, SetYieldDistributor, RescueToken, vars
  <2> QED BY <2>1 DEF UserRoundPoint, RoundStart, roundVars, pointVars
<1> QED BY <1>2, <1>3, <1>4, <1>5, MintStep, BurnStep, TransferStep, PokeStep DEF Next

\* Nor does a step alter the rate of a closed round.
LEMMA ClosedRateStep ==
  ASSUME DistributorInv, [Next]_vars, NEW r \in 1 .. (currentRound - 1)
  PROVE  yieldPerPoint'[r] = yieldPerPoint[r]
<1>1. r # currentRound /\ yieldPerPoint \in [Rounds -> Nat]
  BY DEF DistributorInv, TypeOK
<1>2. CASE \E amount \in YieldAmounts : DistributeYield(amount)
  <2>1. PICK x : yieldPerPoint' = [yieldPerPoint EXCEPT ![currentRound] = x]
    BY <1>2 DEF DistributeYield
  <2>2. r \in DOMAIN yieldPerPoint
    BY <1>1, DistributorAssumption DEF DistributorInv, TypeOK, Rounds
  <2> QED BY <1>1, <2>1, <2>2
<1>3. CASE ~ \E amount \in YieldAmounts : DistributeYield(amount)
  <2>1. UNCHANGED yieldPerPoint
    BY <1>3 DEF Next, vars, Tick, Mint, Burn, Transfer, Poke, SetYieldDistributor, ClaimYield,
       RescueToken, roundVars
  <2> QED BY <2>1
<1> QED BY <1>2, <1>3

\* The points of closed rounds are final.
THEOREM ClosedRoundsStayFinal == Spec => ClosedRoundsFinal
<1>1. DistributorInv /\ [Next]_vars =>
        \A u \in Users, r \in 1 .. (currentRound - 1) : UserRoundPoint(u, r)' = UserRoundPoint(u, r)
  BY ClosedPointsStep
<1> QED BY <1>1, DistributorCorrect, PTL DEF Spec, ClosedRoundsFinal

\* The subtractions of the hook do not revert.
THEOREM TimesStayInOrder == Spec => []TimesInOrder
<1>1. DistributorInv => TimesInOrder
  BY DEF DistributorInv
<1> QED BY <1>1, DistributorCorrect, PTL

-----------------------------------------------------------------------------
(* What a user has received *)

\* The yield of u in the rounds up to m.
YieldUpTo(u, m) == SumOver(1 .. m, [r \in 1 .. m |-> RoundYield(UserRoundPoint(u, r), r)])

\* A round's yield is a number, and its index one of a closed round.
LEMMA ClosedYield ==
  ASSUME DistributorInv, NEW u \in Users
  PROVE  /\ currentRound \in Nat \ {0}
         /\ yieldSettleRound[u] \in 0 .. (currentRound - 1)
         /\ \A r \in 1 .. (currentRound - 1) : RoundYield(UserRoundPoint(u, r), r) \in Nat
<1> USE DistributorAssumption
<1>1. /\ currentRound \in 1 .. MaxRound /\ yieldSettleRound[u] \in Nat
      /\ yieldPerPoint \in [Rounds -> Nat] /\ yieldSettleRound[u] < currentRound
  BY DEF DistributorInv, TypeOK, TimesInOrder
<1>2. ASSUME NEW r \in 1 .. (currentRound - 1)
      PROVE  RoundYield(UserRoundPoint(u, r), r) \in Nat
  <2>1. r \in Rounds /\ r < currentRound
    BY <1>1 DEF Rounds
  <2>2. UserRoundPoint(u, r) \in Nat
    BY <2>1, PointsType
  <2>3. yieldPerPoint[r] \in Nat
    BY <1>1, <2>1
  <2> QED BY <2>2, <2>3, FloorType DEF RoundYield
<1> QED BY <1>1, <1>2

\* The yield of the rounds that are closed does not change.
LEMMA YieldKept ==
  ASSUME DistributorInv, [Next]_vars, NEW u \in Users, NEW m \in 0 .. (currentRound - 1)
  PROVE  YieldUpTo(u, m)' = YieldUpTo(u, m)
<1> DEFINE f == [r \in 1 .. m |-> RoundYield(UserRoundPoint(u, r), r)]
           g == [r \in 1 .. m |-> RoundYield(UserRoundPoint(u, r), r)']
<1>1. \A r \in 1 .. m : r \in 1 .. (currentRound - 1)
  BY ClosedYield
<1>2. ASSUME NEW r \in 1 .. m PROVE g[r] = f[r]
  <2>1. UserRoundPoint(u, r)' = UserRoundPoint(u, r) /\ yieldPerPoint'[r] = yieldPerPoint[r]
    BY <1>1, ClosedPointsStep, ClosedRateStep
  <2>2. RoundYield(UserRoundPoint(u, r), r)' = RoundYield(UserRoundPoint(u, r), r)
    BY <2>1 DEF RoundYield
  <2> QED BY <2>2
<1>3. SumOver(1 .. m, g) = SumOver(1 .. m, f)
  <2> HIDE DEF f, g
  <2> QED BY <1>2, SumCongruence
<1> QED BY <1>3 DEF YieldUpTo

\* A claim adds the yield of the rounds since the last one.
LEMMA YieldGrows ==
  ASSUME DistributorInv, NEW u \in Users
  PROVE  YieldUpTo(u, currentRound - 1) = YieldUpTo(u, yieldSettleRound[u]) + PendingYield(u)
<1> DEFINE m == yieldSettleRound[u]
           n == currentRound - 1
           all == [r \in 1 .. n |-> RoundYield(UserRoundPoint(u, r), r)]
           old == [r \in 1 .. m |-> RoundYield(UserRoundPoint(u, r), r)]
           new == [r \in (m + 1) .. n |-> RoundYield(UserRoundPoint(u, r), r)]
<1>1. n \in Nat /\ m \in 0 .. n /\ \A r \in 1 .. n : all[r] \in Nat
  BY ClosedYield
<1>2. /\ 1 .. n = (1 .. m) \cup ((m + 1) .. n)
      /\ (1 .. m) \cap ((m + 1) .. n) = {}
  BY <1>1
<1>3. /\ \A r \in 1 .. m : all[r] = old[r]
      /\ \A r \in (m + 1) .. n : all[r] = new[r]
  BY <1>2
<1>4. IsFiniteSet(1 .. m) /\ IsFiniteSet((m + 1) .. n)
  BY <1>1, FS_Interval
<1>5. YieldUpTo(u, n) = SumOver(1 .. n, all) /\ YieldUpTo(u, m) = SumOver(1 .. m, old)
      /\ PendingYield(u) = SumOver((m + 1) .. n, new)
  BY DEF YieldUpTo, PendingYield, UnclaimedRounds
<1> HIDE DEF m, n, all, old, new
<1>6. SumOver((1 .. m) \cup ((m + 1) .. n), all) = SumOver(1 .. m, all) + SumOver((m + 1) .. n, all)
  BY <1>1, <1>2, <1>4, SumDisjoint
<1>7. SumOver(1 .. m, all) = SumOver(1 .. m, old) /\ SumOver((m + 1) .. n, all) = SumOver((m + 1) .. n, new)
  BY <1>3, SumCongruence
<1>8. YieldUpTo(u, n) = YieldUpTo(u, m) + PendingYield(u)
  BY <1>2, <1>5, <1>6, <1>7
<1> QED BY <1>8 DEF m, n

\* Every user is paid each round it claimed, once, and nothing else.
THEOREM EachRoundPaidOnce == Spec => []PaidOnce
<1>1. PaidOnce <=> \A u \in Users : received[u] = YieldUpTo(u, yieldSettleRound[u])
  BY DEF PaidOnce, YieldUpTo
<1>2. Init => PaidOnce
  <2> SUFFICES ASSUME Init, NEW u \in Users PROVE received[u] = YieldUpTo(u, yieldSettleRound[u])
    BY <1>1
  <2>1. received[u] = 0 /\ yieldSettleRound[u] = 0
    BY DEF Init
  <2>2. 1 .. yieldSettleRound[u] = {}
    BY <2>1
  <2> QED BY <2>1, <2>2, SumEmpty DEF YieldUpTo
<1>3. PaidOnce /\ DistributorInv /\ [Next]_vars => PaidOnce'
  <2> SUFFICES ASSUME PaidOnce, DistributorInv, [Next]_vars, NEW u \in Users
               PROVE  (received[u] = YieldUpTo(u, yieldSettleRound[u]))'
    BY <1>1 DEF PaidOnce, YieldUpTo
  <2>1. received[u] = YieldUpTo(u, yieldSettleRound[u])
    BY <1>1
  <2>2. yieldSettleRound[u] \in 0 .. (currentRound - 1) /\ currentRound - 1 \in 0 .. (currentRound - 1)
    BY ClosedYield
  <2>3. \A m \in 0 .. (currentRound - 1) : YieldUpTo(u, m)' = YieldUpTo(u, m)
    BY YieldKept
  <2>4. CASE received'[u] = received[u] /\ yieldSettleRound'[u] = yieldSettleRound[u]
    BY <2>1, <2>2, <2>3, <2>4 DEF YieldUpTo
  <2>5. CASE ClaimYield(u)
    <3>1. received \in [Users -> Nat] /\ yieldSettleRound \in [Users -> Nat]
      BY DEF DistributorInv, TypeOK
    <3>2. /\ received'[u] = received[u] + PendingYield(u)
          /\ yieldSettleRound'[u] = currentRound - 1
      BY <2>5, <3>1, ClaimStep
    <3>3. YieldUpTo(u, currentRound - 1) = YieldUpTo(u, yieldSettleRound[u]) + PendingYield(u)
      BY YieldGrows
    <3> QED BY <2>1, <2>2, <2>3, <3>2, <3>3 DEF YieldUpTo
  <2>6. CASE \E v \in Users : v # u /\ ClaimYield(v)
    <3>1. received \in [Users -> Nat] /\ yieldSettleRound \in [Users -> Nat]
      BY DEF DistributorInv, TypeOK
    <3>2. PICK v \in Users : v # u /\ ClaimYield(v)
      BY <2>6
    <3>3. /\ received' = [received EXCEPT ![v] = received[v] + PendingYield(v)]
          /\ yieldSettleRound' = [yieldSettleRound EXCEPT ![v] = currentRound - 1]
      BY <3>2, ClaimStep
    <3> QED BY <2>4, <3>1, <3>2, <3>3
  <2>7. CASE ~ \E v \in Users : ClaimYield(v)
    <3>1. UNCHANGED <<received, yieldSettleRound>>
      BY <2>7 DEF Next, vars, Tick, Mint, Burn, Transfer, Poke, SetYieldDistributor,
         DistributeYield, RescueToken, payVars
    <3> QED BY <2>4, <3>1
  <2> QED BY <2>5, <2>6, <2>7
<1> QED BY <1>2, <1>3, DistributorCorrect, PTL DEF Spec
=============================================================================
