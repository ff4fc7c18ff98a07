--------------------------- MODULE MCLendingPool ---------------------------
(***************************************************************************)
(* Small instances of LendingPool for TLC.  Markets of two or three         *)
(* reserves; amounts are tens, so that percentages matter and round.        *)
(***************************************************************************)
EXTENDS LendingPool, TLC

CONSTANTS eth, usd, gov,  \* reserves
          peg, none       \* a price source of an eMode, and none

UserSymmetry == Permutations(Users)

\* An ordinary reserve.
Plain ==
  [ltv |-> 5000, threshold |-> 8000, bonus |-> 11000, protocolFee |-> 5000,
   debtCeiling |-> 0, borrowableInIsolation |-> TRUE, siloed |-> FALSE, eMode |-> 0,
   borrowing |-> TRUE, stable |-> FALSE, flashLoan |-> TRUE, supplyCap |-> 20, borrowCap |-> 0]

NoEModes == << >>

\* gov is isolated collateral, against which only usd can be borrowed, and
\* siloed when it is borrowed itself.
IsolationMarket ==
  gov :> [Plain EXCEPT !.supplyCap = 40, !.debtCeiling = 1, !.borrowableInIsolation = FALSE,
                       !.siloed = TRUE] @@
  eth :> [Plain EXCEPT !.borrowableInIsolation = FALSE] @@
  usd :> [Plain EXCEPT !.supplyCap = 20, !.ltv = 0, !.stable = TRUE]

IsolationPrices == gov :> 10 @@ eth :> 20 @@ usd :> 10
\* ... with room for two loans.
WideIsolationMarket == [IsolationMarket EXCEPT ![gov].debtCeiling = 2]
GovFalls == {<<gov, 5>>}

\* usd and gov form category 1 with a common price, eth is category 2.
TwoEModes ==
  1 :> [ltv |-> 9000, threshold |-> 9500, bonus |-> 10200, priceSource |-> peg] @@
  2 :> [ltv |-> 6000, threshold |-> 8500, bonus |-> 10500, priceSource |-> none]

EModeMarket ==
  eth :> [Plain EXCEPT !.supplyCap = 10, !.eMode = 2] @@
  usd :> [Plain EXCEPT !.threshold = 6000, !.eMode = 1] @@
  gov :> [Plain EXCEPT !.threshold = 6000, !.supplyCap = 10, !.eMode = 1]

EModePrices == eth :> 20 @@ usd :> 10 @@ gov :> 6 @@ peg :> 10

\* usd in category 1 is owed against eth outside of it.
PeggedMarket ==
  eth :> [Plain EXCEPT !.ltv = 4000, !.threshold = 4500, !.eMode = 2] @@
  usd :> [Plain EXCEPT !.ltv = 0, !.eMode = 1, !.stable = TRUE]

PeggedPrices == eth :> 13 @@ usd :> 10 @@ peg :> 10
EthAndPegMove == {<<eth, 7>>, <<peg, 11>>}

\* What the risk administrators may do to usd.
Freezes == {<<usd, st>> : st \in {"open", "frozen", "paused"}}
=============================================================================
