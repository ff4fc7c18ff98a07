----------------------------- MODULE GasRefund -----------------------------
(***************************************************************************)
(* GasRefund.sol with the part of PacPoolWrapper.sol that feeds it: the     *)
(* wrapper measures the gas of its pool calls, a share of its price is      *)
(* credited to the caller, who claims it in ether.                          *)
(*                                                                          *)
(* A claim that the contract cannot pay reverts.  The receiver of a claim   *)
(* is called when its balance is already zero and nothing follows, so what  *)
(* it does then is one of the next actions.                                 *)
(***************************************************************************)
EXTENDS FiniteSums, PercentageMath

CONSTANTS
  Users,
  Ratios,      \* the ratios that the owner sets
  GasCosts,    \* what the gas of a pool call may cost
  MaxSpent,    \* bound: the gas cost of a user
  Funding,     \* what is sent to the contract at once
  MaxFunds     \* bound: the contract's ether

RefundTypes == {"SUPPLY", "WITHDRAW", "BORROW", "REPAY", "LEVERAGEDEPOSIT"}

ASSUME GasRefundAssumption ==
  /\ Ratios \subseteq Nat
  /\ GasCosts \subseteq Nat
  /\ {MaxSpent, Funding, MaxFunds} \subseteq Nat

VARIABLES
  connected,    \* whether the wrapper's gasRefund is this contract
  refundRatio,
  balances,     \* what each user may claim
  funds,        \* the contract's ether
  spent,        \* the gas cost of each user's calls, while connected
  received,     \* the ether that each user has claimed
  highest       \* the highest ratio that was ever in force

vars == <<connected, refundRatio, balances, funds, spent, received, highest>>

\* PacPoolWrapper's operations and the type of refund that each asks for: all
\* but leverageDeposit that of a supply.
RefundTypeOf ==
  [op \in {"deposit", "withdraw", "borrow", "repay", "leverageDeposit"} |->
     IF op = "leverageDeposit" THEN "LEVERAGEDEPOSIT" ELSE "SUPPLY"]

\* The share of a cost that is refunded.
Refund(cost, refundType) == PercentMul(cost, refundRatio[refundType])

\* PacPoolWrapper._addGasRefund and addGasRefund, by the wrapper alone
AddGasRefund(u, op, cost) ==
  /\ spent[u] + cost <= MaxSpent
  /\ connected
  /\ balances' = [balances EXCEPT ![u] = balances[u] + Refund(cost, RefundTypeOf[op])]
  /\ spent' = [spent EXCEPT ![u] = spent[u] + cost]
  /\ UNCHANGED <<connected, refundRatio, funds, received, highest>>

ClaimGas_Keeps(u) ==
  /\ balances[u] <= funds
  /\ funds' = funds - balances[u]
  /\ received' = [received EXCEPT ![u] = received[u] + balances[u]]
  /\ UNCHANGED <<connected, refundRatio, balances, spent, highest>>

ClaimGas(u) ==
  /\ balances[u] <= funds
  /\ balances' = [balances EXCEPT ![u] = 0]
  /\ funds' = funds - balances[u]
  /\ received' = [received EXCEPT ![u] = received[u] + balances[u]]
  /\ UNCHANGED <<connected, refundRatio, spent, highest>>

\* By the owner; the contract accepts any ratio, those above 100% included.
SetRefundRatio(refundType, ratio) ==
  /\ refundRatio' = [refundRatio EXCEPT ![refundType] = ratio]
  /\ highest' = IF ratio > highest THEN ratio ELSE highest
  /\ UNCHANGED <<connected, balances, funds, spent, received>>

\* PacPoolWrapper.setGasRefund
SetGasRefund(on) ==
  /\ connected' = on
  /\ UNCHANGED <<refundRatio, balances, funds, spent, received, highest>>

\* receive: anyone funds the contract
Fund ==
  /\ funds + Funding <= MaxFunds
  /\ funds' = funds + Funding
  /\ UNCHANGED <<connected, refundRatio, balances, spent, received, highest>>

Init ==
  /\ connected = FALSE
  /\ refundRatio = [t \in RefundTypes |->
       CASE t = "LEVERAGEDEPOSIT" -> 6000
         [] t \in {"WITHDRAW", "BORROW"} -> 8000
         [] OTHER -> 7000]
  /\ balances = [u \in Users |-> 0]
  /\ funds = 0
  /\ spent = [u \in Users |-> 0]
  /\ received = [u \in Users |-> 0]
  /\ highest = 8000

Next ==
  \/ \E u \in Users, op \in DOMAIN RefundTypeOf, cost \in GasCosts : AddGasRefund(u, op, cost)
  \/ \E u \in Users : ClaimGas(u)
  \/ \E t \in RefundTypes, r \in Ratios : SetRefundRatio(t, r)
  \/ \E on \in BOOLEAN : SetGasRefund(on)
  \/ Fund

Spec == Init /\ [][Next]_vars

-----------------------------------------------------------------------------
(* Properties *)

TypeOK ==
  /\ connected \in BOOLEAN
  /\ refundRatio \in [RefundTypes -> 0 .. highest]
  /\ balances \in [Users -> Nat]
  /\ funds \in Nat
  /\ spent \in [Users -> Nat]
  /\ received \in [Users -> Nat]
  /\ highest \in Nat

\* The highest ratio, in whole costs: one unless a ratio was above 100%.
CostFactor == (highest + PERCENTAGE_FACTOR - 1) \div PERCENTAGE_FACTOR

\* Nobody is refunded more than the gas cost times the highest ratio, rounded up
\* to whole costs (so no more than the cost itself, as long as the owner never set a
\* ratio above 100%, which setRefundRatio does not prevent), however the ratios
\* moved between the calls, however often the user claims, and with each share
\* rounded half up.
WithinCost == \A u \in Users : balances[u] + received[u] <= spent[u] * CostFactor

GasRefundInv == TypeOK /\ WithinCost
=============================================================================
