SPECIFICATION Spec
CONSTANTS
  Users = {alice, bob}
  Ratios = {4999, 15000}
  GasCosts = {1, 3}
  MaxSpent = 4
  Funding = 3
  MaxFunds = 6
SYMMETRY UserSymmetry
INVARIANTS
  GasRefundInv
