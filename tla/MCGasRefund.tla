---------------------------- MODULE MCGasRefund ----------------------------
(* Symmetry of the users of GasRefund. *)
EXTENDS GasRefund, TLC

UserSymmetry == Permutations(Users)
=============================================================================
