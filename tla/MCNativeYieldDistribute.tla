---------------------- MODULE MCNativeYieldDistribute ----------------------
(* Small instances of NativeYieldDistribute for TLC. *)
EXTENDS NativeYieldDistribute, TLC

UserSymmetry == Permutations(Users)
=============================================================================
