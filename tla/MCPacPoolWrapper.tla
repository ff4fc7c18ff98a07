-------------------------- MODULE MCPacPoolWrapper --------------------------
(***************************************************************************)
(* Small instances of PacPoolWrapper for TLC.                               *)
(***************************************************************************)
EXTENDS PacPoolWrapper, TLC

CONSTANTS weth, usd, eth, none

SenderSymmetry == Permutations(Senders)

Plain ==
  [ltv |-> 5000, threshold |-> 8000, bonus |-> 11000, protocolFee |-> 0,
   debtCeiling |-> 0, borrowableInIsolation |-> TRUE, siloed |-> FALSE, eMode |-> 0,
   borrowing |-> TRUE, stable |-> FALSE, flashLoan |-> TRUE, supplyCap |-> 40, borrowCap |-> 0]

Market == weth :> Plain @@ usd :> [Plain EXCEPT !.borrowing = FALSE, !.flashLoan = FALSE]
WethMarket == weth :> Plain
NoEModes == << >>
Prices == weth :> 10 @@ usd :> 10
WethPrice == weth :> 10
Purses == weth :> 0 @@ usd :> 10 @@ eth :> 20
EtherPurses == weth :> 10 @@ eth :> 20
=============================================================================
