-------------------------- MODULE YieldAccounting --------------------------
(***************************************************************************)
(* What NativeYieldDistribute promises to the holders of an aToken.         *)
(*                                                                          *)
(* Here every holder earns `held` points in every unit of time and the pool *)
(* earns `supply` points, at once.  The contract does none of that: it      *)
(* stores a balance and a timestamp and settles passed rounds the next time *)
(* the holder is touched.  Module NativeYieldDistribute is shown to         *)
(* implement this specification.                                            *)
(***************************************************************************)
EXTENDS FiniteSums

CONSTANTS
  Users,      \* the accounts that may hold the aToken
  RAY,        \* the precision of a yield-per-point rate
  Amounts,    \* what balances and the pot may be
  MaxRound    \* bound: rounds are numbered up to here

\* What the constants must be for the promise to make sense: the hypothesis of
\* the theorems about it, which the contract's constants meet.
AccountingAssumption ==
  /\ IsFiniteSet(Users)
  /\ RAY \in Nat \ {0}
  /\ MaxRound \in Nat \ {0}
  /\ Amounts \subseteq Nat

VARIABLES
  round,      \* the round that is earning points
  held,       \* the balance each user earns points with
  supply,     \* the balance the pool earns points with
  points,     \* points[r][u]: what u earned in round r
  total,      \* total[r]: what the pool earned in round r
  rate,       \* rate[r]: the yield a point of round r is worth, times RAY
  claimed,    \* the last round whose yield each user has received
  received,   \* the yield each user has received
  pot,        \* the yield tokens in the contract
  rescued,    \* the yield tokens the owner has taken out
  drift       \* how far `held` may be from the balances of the token

vars == <<round, held, supply, points, total, rate, claimed, received, pot,
          rescued, drift>>

Rounds == 0 .. MaxRound
Drifts == {"none", "late", "stale"}

\* With no drift every unit of the supply is held by a user the contract
\* follows.  A late contract does not follow every holder yet.  A stale one
\* follows balances that its holders may have spent.
Covered(h, s, d) ==
  /\ d = "none" => SumOver(Users, h) = s
  /\ d = "late" => SumOver(Users, h) <= s

\* The yield a user is due for its points of a closed round.
Yield(u, r) == (points[r][u] * rate[r]) \div RAY

\* The rounds a user may still claim.
Claimable(u) == (claimed[u] + 1) .. (round - 1)

Pending(u) == SumOver(Claimable(u), [r \in Claimable(u) |-> Yield(u, r)])

Init ==
  /\ round = 1
  /\ held = [u \in Users |-> 0]
  /\ supply = 0
  /\ points = [r \in Rounds |-> [u \in Users |-> 0]]
  /\ total = [r \in Rounds |-> 0]
  /\ rate = [r \in Rounds |-> 0]
  /\ claimed = [u \in Users |-> 0]
  /\ received = [u \in Users |-> 0]
  /\ pot = 0
  /\ rescued = 0
  /\ drift = "none"

\* One unit of time.
Earn ==
  /\ points' = [points EXCEPT ![round] = [u \in Users |-> points[round][u] + held[u]]]
  /\ total' = [total EXCEPT ![round] = total[round] + supply]
  /\ UNCHANGED <<round, held, supply, rate, claimed, received, pot, rescued, drift>>

\* The contract hears of new balances, or balances change without its hearing.
Track ==
  /\ held' \in [Users -> Amounts]
  /\ supply' \in Amounts
  /\ drift' \in Drifts
  /\ drift = "stale" => drift' = "stale"
  /\ drift = "late" => drift' # "none"
  /\ Covered(held', supply', drift')
  /\ UNCHANGED <<round, points, total, rate, claimed, received, pot, rescued>>

\* The owner pays any amount in for the points of the current round.
Distribute ==
  /\ round < MaxRound
  /\ total[round] > 0
  /\ pot' \in Amounts /\ pot <= pot'
  /\ rate' = [rate EXCEPT ![round] = ((pot' - pot) * RAY) \div total[round]]
  /\ round' = round + 1
  /\ UNCHANGED <<held, supply, points, total, claimed, received, rescued, drift>>

\* A user receives all it is due for the closed rounds.
Claim(u) ==
  /\ Pending(u) <= pot
  /\ pot' = pot - Pending(u)
  /\ received' = [received EXCEPT ![u] = received[u] + Pending(u)]
  /\ claimed' = [claimed EXCEPT ![u] = round - 1]
  /\ UNCHANGED <<round, held, supply, points, total, rate, rescued, drift>>

\* The owner takes tokens out.
Rescue ==
  /\ pot' \in Amounts /\ pot' <= pot
  /\ rescued' = rescued + (pot - pot')
  /\ UNCHANGED <<round, held, supply, points, total, rate, claimed, received, drift>>

Next ==
  \/ Earn
  \/ Track
  \/ Distribute
  \/ \E u \in Users : Claim(u)
  \/ Rescue

Spec == Init /\ [][Next]_vars

-----------------------------------------------------------------------------
(* What holds of the promise *)

TypeOK ==
  /\ round \in 1 .. MaxRound
  /\ held \in [Users -> Nat]
  /\ supply \in Nat
  /\ points \in [Rounds -> [Users -> Nat]]
  /\ total \in [Rounds -> Nat]
  /\ rate \in [Rounds -> Nat]
  /\ claimed \in [Users -> Nat]
  /\ received \in [Users -> Nat]
  /\ pot \in Nat
  /\ rescued \in Nat
  /\ drift \in Drifts

\* The users together earn no more than the pool, in every round.
PointsCovered == \A r \in Rounds : Covered(points[r], total[r], drift)

\* The pot covers the yield that users may still claim.
Solvent ==
  drift # "stale" => SumOver(Users, [u \in Users |-> Pending(u)]) <= pot + rescued

\* The inductive invariant: no holder is ahead of the rounds, the followed
\* balances and the points of every round fit in the pool's, and the pot covers
\* what distributeYield promised to pay.
AccountingInv ==
  /\ TypeOK
  /\ \A u \in Users : claimed[u] < round
  /\ Covered(held, supply, drift)
  /\ PointsCovered
  /\ Solvent
=============================================================================
