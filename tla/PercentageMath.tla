--------------------------- MODULE PercentageMath ---------------------------
(***************************************************************************)
(* Fixed-point arithmetic of the contracts: percentages in basis points     *)
(* (PercentageMath.sol) and products and quotients of a unit (WadRayMath).  *)
(* All round half up.  The overflow checks of the contracts are against     *)
(* 2^256 and out of reach of the amounts modelled.                          *)
(***************************************************************************)
EXTENDS Integers

PERCENTAGE_FACTOR == 10000

PercentMul(value, percentage) ==
  (value * percentage + PERCENTAGE_FACTOR \div 2) \div PERCENTAGE_FACTOR

\* Reverts on a zero percentage.
PercentDiv(value, percentage) ==
  (value * PERCENTAGE_FACTOR + percentage \div 2) \div percentage

\* wadMul and rayMul, with the unit as a parameter
UnitMul(a, b, unit) == (a * b + unit \div 2) \div unit

\* wadDiv and rayDiv
UnitDiv(a, b, unit) == (a * unit + b \div 2) \div b
=============================================================================
