--------------------------- MODULE WrapperPromise ---------------------------
(***************************************************************************)
(* What PacPoolWrapper promises its users: each of its transactions has the *)
(* effect of one pool operation that the user carries out, with the coins,  *)
(* the aTokens and the debt of the user.  Nothing but a transfer to it or a *)
(* rescue changes what the wrapper itself has.                              *)
(***************************************************************************)
EXTENDS Integers

CONSTANTS
  Assets,    \* the reserves
  Accounts,  \* the users and the wrapper
  Wrapper,   \* the wrapper
  WETH,      \* the reserve of wrapped ether
  ETH,       \* ether, which stands for WETH in a payment
  Amounts    \* amounts

VARIABLES
  coins,     \* the wallet of each account, by coin
  claims,    \* the aTokens of each account, by asset
  debts      \* the debt of each account, by asset

vars == <<coins, claims, debts>>

Coins == Assets \cup {ETH}

\* The coins in which asset a can be paid.
CoinsFor(a) == IF a = WETH THEN {WETH, ETH} ELSE {a}

\* The ledger with what account u has of a changed by x.
Changed(ledger, a, u, x) == [ledger EXCEPT ![a] = [ledger[a] EXCEPT ![u] = ledger[a][u] + x]]

Init ==
  /\ coins \in [Coins -> [Accounts -> Nat]]
  /\ claims = [a \in Assets |-> [u \in Accounts |-> 0]]
  /\ debts = [a \in Assets |-> [u \in Accounts |-> 0]]

Supply(u, v, a, coin, x) ==
  /\ x <= coins[coin][u]
  /\ coins' = Changed(coins, coin, u, -x)
  /\ claims' = Changed(claims, a, v, x)
  /\ UNCHANGED debts

Withdraw(u, v, a, coin, x) ==
  /\ x <= claims[a][u]
  /\ claims' = Changed(claims, a, u, -x)
  /\ coins' = Changed(coins, coin, v, x)
  /\ UNCHANGED debts

Borrow(u, a, coin, x) ==
  /\ debts' = Changed(debts, a, u, x)
  /\ coins' = Changed(coins, coin, u, x)
  /\ UNCHANGED claims

Repay(u, v, a, coin, x) ==
  /\ x <= debts[a][v] /\ x <= coins[coin][u]
  /\ debts' = Changed(debts, a, v, -x)
  /\ coins' = Changed(coins, coin, u, -x)
  /\ UNCHANGED claims

\* A supply of cash and of what the same user borrows.
LeverageDeposit(u, a, coin, cash, borrowed) ==
  /\ cash <= coins[coin][u]
  /\ coins' = Changed(coins, coin, u, -cash)
  /\ claims' = Changed(claims, a, u, cash + borrowed)
  /\ debts' = Changed(debts, a, u, borrowed)

SendClaims(u, v, a, x) ==
  /\ x <= claims[a][u]
  /\ claims' = Changed(Changed(claims, a, u, -x), a, v, x)
  /\ UNCHANGED <<coins, debts>>

SendCoins(u, v, coin, x) ==
  /\ x <= coins[coin][u]
  /\ coins' = Changed(Changed(coins, coin, u, -x), coin, v, x)
  /\ UNCHANGED <<claims, debts>>

\* Users act for themselves; the wrapper's own things move when its owner
\* rescues them.
Next ==
  \E u \in Accounts, x \in Amounts :
    \/ \E v \in Accounts, coin \in Coins :
         Wrapper \in {u, v} /\ SendCoins(u, v, coin, x)
    \/ \E v \in Accounts, a \in Assets : SendClaims(u, v, a, x)
    \/ \E v \in Accounts, a \in Assets : \E coin \in CoinsFor(a) :
         /\ u # Wrapper
         /\ \/ Supply(u, v, a, coin, x)
            \/ Withdraw(u, v, a, coin, x)
            \/ Repay(u, v, a, coin, x)
    \/ \E a \in Assets : \E coin \in CoinsFor(a) :
         /\ u # Wrapper
         /\ \/ Borrow(u, a, coin, x)
            \/ \E cash \in Amounts : LeverageDeposit(u, a, coin, cash, x)

Spec == Init /\ [][Next]_vars
=============================================================================
