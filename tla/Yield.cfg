SPECIFICATION Spec
CONSTANTS
  Users = {alice, bob}
  RAY = 2
  TokenAmounts = {1}
  YieldAmounts = {3}
  RescueAmounts = {1}
  Settings = {TRUE, FALSE}
  MaxRound = 3
  MaxTime = 3
  MaxSupply = 1
SYMMETRY UserSymmetry
INVARIANTS
  DistributorInv
  PointsWithinTotal
  Solvent
  PaidOnce
  TimesInOrder
PROPERTIES
  ClaimPaysPending
  ClosedRoundsFinal
  AccountingSpec
