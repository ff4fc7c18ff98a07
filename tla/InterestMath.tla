---------------------------- MODULE InterestMath ----------------------------
(***************************************************************************)
(* The interest of the contracts: linear and compounded growth of an index  *)
(* (MathUtils.sol) and the rates that the strategy derives from how much of *)
(* a reserve is lent (DefaultReserveInterestRateStrategy.sol).              *)
(***************************************************************************)
EXTENDS PercentageMath

CONSTANTS
  RAY,               \* one, in indexes and rates
  WAD_RAY_RATIO,     \* the rays in the smallest unit of an amount
  SECONDS_PER_YEAR,
  RESERVE_FACTOR,    \* the treasury's share of the interest, a percentage
  Strategy           \* the parameters of the strategy

ASSUME InterestAssumption ==
  /\ RAY \in Nat /\ RAY >= 2 /\ RAY % 2 = 0
  /\ WAD_RAY_RATIO \in Nat \ {0}
  /\ SECONDS_PER_YEAR \in Nat \ {0}
  /\ RESERVE_FACTOR \in 0 .. PERCENTAGE_FACTOR
  /\ Strategy \in
       [optimalUsage : 1 .. RAY, optimalStableToTotalDebt : 0 .. RAY, baseVariableRate : Nat,
        variableSlope1 : Nat, variableSlope2 : Nat, stableSlope1 : Nat, stableSlope2 : Nat,
        baseStableOffset : Nat, stableExcessOffset : Nat]

RayMul(a, b) == UnitMul(a, b, RAY)
RayDiv(a, b) == UnitDiv(a, b, RAY)
WadToRay(a) == a * WAD_RAY_RATIO

\* calculateLinearInterest
LinearInterest(rate, time) == RAY + (rate * time) \div SECONDS_PER_YEAR

\* calculateCompoundedInterest: three terms of the binomial series
CompoundedInterest(rate, exp) ==
  LET power2 == RayMul(rate, rate) \div (SECONDS_PER_YEAR * SECONDS_PER_YEAR)
      power3 == RayMul(power2, rate) \div SECONDS_PER_YEAR
      expMinusTwo == IF exp > 2 THEN exp - 2 ELSE 0
  IN
  IF exp = 0 THEN RAY
  ELSE RAY + (rate * exp) \div SECONDS_PER_YEAR
           + (exp * (exp - 1) * power2) \div 2
           + (exp * (exp - 1) * expMinusTwo * power3) \div 6

-----------------------------------------------------------------------------

\* A rate that grows with usage: to base + slope1 at the optimal usage, and
\* from there on by slope2.
RateAtUsage(base, slope1, slope2, usage) ==
  IF usage > Strategy.optimalUsage
  THEN base + slope1
         + RayMul(slope2, RayDiv(usage - Strategy.optimalUsage, RAY - Strategy.optimalUsage))
  ELSE base + RayDiv(RayMul(slope1, usage), Strategy.optimalUsage)

\* _getOverallBorrowRate
OverallBorrowRate(stableDebt, variableDebt, variableRate, averageStableRate) ==
  IF stableDebt + variableDebt = 0 THEN 0
  ELSE RayDiv(RayMul(WadToRay(variableDebt), variableRate)
                + RayMul(WadToRay(stableDebt), averageStableRate),
              WadToRay(stableDebt + variableDebt))

\* calculateInterestRates, for what is left in the reserve, what is owed to it
\* and the aTokens that it has not been paid for
InterestRates(available, unbacked, stableDebt, variableDebt, averageStableRate) ==
  LET debt == stableDebt + variableDebt
      Ratio(part, whole) == IF debt = 0 THEN 0 ELSE RayDiv(part, whole)
      borrowUsage == Ratio(debt, available + debt)
      supplyUsage == Ratio(debt, available + debt + unbacked)
      stableToTotalDebt == Ratio(stableDebt, debt)
      excess == IF stableToTotalDebt <= Strategy.optimalStableToTotalDebt THEN 0
                ELSE RayMul(Strategy.stableExcessOffset,
                            RayDiv(stableToTotalDebt - Strategy.optimalStableToTotalDebt,
                                   RAY - Strategy.optimalStableToTotalDebt))
      variableRate == RateAtUsage(Strategy.baseVariableRate, Strategy.variableSlope1,
                                  Strategy.variableSlope2, borrowUsage)
  IN
  [variable |-> variableRate,
   stable |-> RateAtUsage(Strategy.variableSlope1 + Strategy.baseStableOffset,
                          Strategy.stableSlope1, Strategy.stableSlope2, borrowUsage) + excess,
   liquidity |-> PercentMul(
     RayMul(OverallBorrowRate(stableDebt, variableDebt, variableRate, averageStableRate),
            supplyUsage),
     PERCENTAGE_FACTOR - RESERVE_FACTOR)]
=============================================================================
