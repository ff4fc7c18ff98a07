-------------------------- MODULE GasRefundProofs --------------------------
(* That gas refunds stay within the gas costs times the highest ratio, for  *)
(* every number of users, every cost and every schedule of any ratios.      *)
EXTENDS GasRefund, DataTheorems, TLAPS

\* A percentage of an amount is at most as many times the amount as the
\* percentage, rounded up, has whole hundreds.
LEMMA PercentMulWithin ==
  ASSUME NEW value \in Nat, NEW percentage \in Nat, NEW times \in Nat,
         percentage <= PERCENTAGE_FACTOR * times
  PROVE  PercentMul(value, percentage) \in Nat /\ PercentMul(value, percentage) <= value * times
<1> DEFINE product == value * percentage
           bound == value * times
<1>1. product \in Nat /\ bound \in Nat
  BY ProductNat
<1>2. product <= 10000 * bound
  <2>1. percentage * value <= (10000 * times) * value
    BY ProductMonotone DEF PERCENTAGE_FACTOR
  <2> QED BY <2>1
<1>3. PercentMul(value, percentage) = (product + 5000) \div 10000
  BY DEF PercentMul, PERCENTAGE_FACTOR
<1> HIDE DEF product, bound
<1>4. PercentMul(value, percentage) \in Nat /\ PercentMul(value, percentage) <= bound
  BY <1>1, <1>2, <1>3
<1> QED BY <1>4 DEF bound

\* The factor covers the highest ratio, and grows with it.
LEMMA CostFactorCovers ==
  ASSUME highest \in Nat
  PROVE  CostFactor \in Nat /\ highest <= PERCENTAGE_FACTOR * CostFactor
BY DEF CostFactor, PERCENTAGE_FACTOR

LEMMA CostFactorGrows ==
  ASSUME highest \in Nat, highest' \in Nat, highest <= highest'
  PROVE  CostFactor \in Nat /\ CostFactor' \in Nat /\ CostFactor <= CostFactor'
<1>1. PICK m \in Nat : m = highest
  OBVIOUS
<1>2. PICK n \in Nat : n = highest'
  OBVIOUS
<1>3. (m + 9999) \div 10000 \in Nat /\ (n + 9999) \div 10000 \in Nat
  OBVIOUS
<1>4. (m + 9999) \div 10000 <= (n + 9999) \div 10000
  BY <1>1, <1>2
<1>5. CostFactor = (m + 9999) \div 10000
  BY <1>1 DEF CostFactor, PERCENTAGE_FACTOR
<1>6. CostFactor' = (n + 9999) \div 10000
  BY <1>2 DEF CostFactor, PERCENTAGE_FACTOR
<1> QED BY <1>3, <1>4, <1>5, <1>6

\* A share is at most the cost times the factor.
LEMMA RefundWithinCost ==
  ASSUME TypeOK, NEW cost \in Nat, NEW t \in RefundTypes
  PROVE  Refund(cost, t) \in Nat /\ Refund(cost, t) <= cost * CostFactor
<1>1. highest \in Nat /\ refundRatio[t] \in 0 .. highest
  BY DEF TypeOK
<1>2. CostFactor \in Nat /\ refundRatio[t] \in Nat /\ refundRatio[t] <= PERCENTAGE_FACTOR * CostFactor
  BY <1>1, CostFactorCovers DEF PERCENTAGE_FACTOR
<1> QED BY <1>2, PercentMulWithin DEF Refund

LEMMA RefundTypesUsed ==
  \A op \in DOMAIN RefundTypeOf : RefundTypeOf[op] \in RefundTypes
BY DEF RefundTypeOf, RefundTypes

LEMMA AddGasRefundKeeps ==
  ASSUME GasRefundInv, NEW u \in Users, NEW op \in DOMAIN RefundTypeOf, NEW cost \in Nat,
         AddGasRefund(u, op, cost)
  PROVE  GasRefundInv'
<1> USE DEF GasRefundInv
<1> DEFINE share == Refund(cost, RefundTypeOf[op])
<1>1. share \in Nat /\ share <= cost * CostFactor
  BY RefundTypesUsed, RefundWithinCost
<1>2. /\ balances' = [balances EXCEPT ![u] = balances[u] + share]
      /\ spent' = [spent EXCEPT ![u] = spent[u] + cost]
      /\ UNCHANGED <<connected, refundRatio, funds, received, highest>>
  BY DEF AddGasRefund
<1> HIDE DEF share
<1>3. TypeOK'
  BY <1>1, <1>2 DEF TypeOK
<1>4. WithinCost'
  <2> SUFFICES ASSUME NEW v \in Users
               PROVE  balances'[v] + received'[v] <= spent'[v] * CostFactor'
    BY DEF WithinCost
  <2>1. balances[v] + received[v] <= spent[v] * CostFactor
    BY DEF WithinCost
  <2>2. balances[v] \in Nat /\ received[v] \in Nat /\ spent[v] \in Nat
    BY DEF TypeOK
  <2>3. CostFactor' = CostFactor /\ CostFactor \in Nat
    BY <1>2, CostFactorCovers DEF CostFactor, TypeOK
  <2>4. CASE v = u
    <3>1. balances'[v] = balances[v] + share /\ spent'[v] = spent[v] + cost
          /\ received'[v] = received[v]
      BY <1>2, <2>4 DEF TypeOK
    <3>2. /\ cost * CostFactor \in Nat /\ spent[v] * CostFactor \in Nat
          /\ (spent[v] + cost) * CostFactor = spent[v] * CostFactor + cost * CostFactor
      BY <2>2, <2>3, ProductNat
    <3> QED BY <1>1, <2>1, <2>2, <2>3, <3>1, <3>2
  <2>5. CASE v # u
    BY <1>2, <2>1, <2>3, <2>5 DEF TypeOK
  <2> QED BY <2>4, <2>5
<1> QED BY <1>3, <1>4

LEMMA ClaimGasKeeps ==
  ASSUME GasRefundInv, NEW u \in Users, ClaimGas(u)
  PROVE  GasRefundInv'
<1> USE DEF GasRefundInv
<1>1. TypeOK'
  <2>1. balances[u] \in Nat /\ received[u] \in Nat /\ funds \in Nat
    BY DEF TypeOK
  <2> QED BY <2>1 DEF ClaimGas, TypeOK
<1>2. WithinCost'
  <2> SUFFICES ASSUME NEW v \in Users
               PROVE  balances'[v] + received'[v] <= spent'[v] * CostFactor'
    BY DEF WithinCost
  <2>1. balances[v] + received[v] <= spent[v] * CostFactor
    BY DEF WithinCost
  <2>2. balances[v] \in Nat /\ received[v] \in Nat
    BY DEF TypeOK
  <2>3. CostFactor' = CostFactor
    BY DEF ClaimGas, CostFactor
  <2>4. spent'[v] = spent[v] /\ balances'[v] + received'[v] = balances[v] + received[v]
    <3>1. CASE v = u
      BY <2>2, <3>1 DEF ClaimGas, TypeOK
    <3>2. CASE v # u
      BY <3>2 DEF ClaimGas, TypeOK
    <3> QED BY <3>1, <3>2
  <2> QED BY <2>1, <2>3, <2>4
<1> QED BY <1>1, <1>2

LEMMA SetRefundRatioKeeps ==
  ASSUME GasRefundInv, NEW t \in RefundTypes, NEW r \in Nat, SetRefundRatio(t, r)
  PROVE  GasRefundInv'
<1> USE DEF GasRefundInv
<1>1. highest \in Nat /\ highest' \in Nat /\ highest <= highest' /\ r <= highest'
  BY DEF SetRefundRatio, TypeOK
<1>2. TypeOK'
  <2>1. \A s \in RefundTypes : refundRatio'[s] \in 0 .. highest'
    BY <1>1 DEF SetRefundRatio, TypeOK
  <2>2. refundRatio' \in [RefundTypes -> 0 .. highest']
    BY <2>1 DEF SetRefundRatio, TypeOK
  <2> QED BY <1>1, <2>2 DEF SetRefundRatio, TypeOK
<1>3. WithinCost'
  <2> SUFFICES ASSUME NEW v \in Users
               PROVE  balances[v] + received[v] <= spent[v] * CostFactor'
    BY DEF WithinCost, SetRefundRatio
  <2>1. /\ balances[v] + received[v] <= spent[v] * CostFactor
        /\ balances[v] \in Nat /\ received[v] \in Nat /\ spent[v] \in Nat
    BY DEF WithinCost, TypeOK
  <2>2. CostFactor \in Nat /\ CostFactor' \in Nat /\ CostFactor <= CostFactor'
    BY <1>1, CostFactorGrows
  <2>3. CostFactor * spent[v] <= CostFactor' * spent[v]
    BY <2>1, <2>2, ProductMonotone
  <2>4. CostFactor * spent[v] \in Nat /\ CostFactor' * spent[v] \in Nat
    BY <2>1, <2>2, ProductNat
  <2>5. /\ CostFactor * spent[v] = spent[v] * CostFactor
        /\ CostFactor' * spent[v] = spent[v] * CostFactor'
    BY <2>1, <2>2
  <2> HIDE DEF CostFactor
  <2> QED BY <2>1, <2>3, <2>4, <2>5
<1> QED BY <1>2, <1>3

LEMMA NextKeeps ==
  ASSUME GasRefundInv, [Next]_vars
  PROVE  GasRefundInv'
<1>1. ASSUME NEW u \in Users, NEW op \in DOMAIN RefundTypeOf, NEW cost \in GasCosts,
             AddGasRefund(u, op, cost)
      PROVE  GasRefundInv'
  BY <1>1, AddGasRefundKeeps, GasRefundAssumption
<1>2. ASSUME NEW u \in Users, ClaimGas(u)
      PROVE  GasRefundInv'
  BY <1>2, ClaimGasKeeps
<1>3. ASSUME NEW t \in RefundTypes, NEW r \in Ratios, SetRefundRatio(t, r)
      PROVE  GasRefundInv'
  BY <1>3, SetRefundRatioKeeps, GasRefundAssumption
<1>4. ASSUME NEW on \in BOOLEAN, SetGasRefund(on)
      PROVE  GasRefundInv'
  BY <1>4 DEF SetGasRefund, GasRefundInv, TypeOK, WithinCost, CostFactor
<1>5. CASE Fund
  BY <1>5, GasRefundAssumption DEF Fund, GasRefundInv, TypeOK, WithinCost, CostFactor
<1>6. CASE UNCHANGED vars
  BY <1>6 DEF vars, GasRefundInv, TypeOK, WithinCost, CostFactor
<1> QED BY <1>1, <1>2, <1>3, <1>4, <1>5, <1>6 DEF Next

\* Nobody is refunded more than the gas of its calls cost times the highest ratio,
\* in whole costs, that the owner ever set: any ratios, no limit of 100%.
THEOREM GasRefundCorrect == Spec => []GasRefundInv
<1>1. Init => GasRefundInv
  <2> SUFFICES ASSUME Init PROVE GasRefundInv
    OBVIOUS
  <2>1. {6000, 7000, 8000} \subseteq 0 .. highest /\ highest \in Nat
    BY DEF Init
  <2>2. \A t \in RefundTypes : refundRatio[t] \in {6000, 7000, 8000}
    BY DEF Init
  <2>3. refundRatio \in [RefundTypes -> 0 .. highest]
    <3>1. \A t \in RefundTypes : refundRatio[t] \in 0 .. highest
      BY <2>1, <2>2
    <3>2. refundRatio = [t \in RefundTypes |-> refundRatio[t]]
      BY DEF Init
    <3> QED BY <3>1, <3>2
  <2>4. TypeOK
    <3>1. /\ connected = FALSE /\ funds = 0
          /\ balances = [u \in Users |-> 0]
          /\ spent = [u \in Users |-> 0]
          /\ received = [u \in Users |-> 0]
      BY DEF Init
    <3>2. connected \in BOOLEAN /\ funds \in Nat
      BY <3>1
    <3>3. balances \in [Users -> Nat] /\ spent \in [Users -> Nat] /\ received \in [Users -> Nat]
      BY <3>1
    <3> QED BY <2>1, <2>3, <3>2, <3>3 DEF TypeOK
  <2>5. WithinCost
    <3>1. CostFactor \in Nat
      BY <2>1, CostFactorCovers
    <3>2. \A u \in Users : balances[u] + received[u] = 0 /\ spent[u] = 0
      BY DEF Init
    <3> HIDE DEF CostFactor
    <3>3. 0 * CostFactor = 0
      BY <3>1
    <3> QED BY <3>1, <3>2, <3>3 DEF WithinCost
  <2> QED BY <2>4, <2>5 DEF GasRefundInv
<1>2. GasRefundInv /\ [Next]_vars => GasRefundInv'
  BY NextKeeps
<1> QED BY <1>1, <1>2, PTL DEF Spec
=============================================================================
