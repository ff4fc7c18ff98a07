---------------------------- MODULE FiniteSums ----------------------------
(***************************************************************************)
(* Totals over a finite index set.  The contracts keep totals (total        *)
(* supply, total points, pending yield) beside per-account amounts, so most *)
(* of the properties of this development relate a stored total to a sum.    *)
(*                                                                          *)
(* The sum of f over S is the number of units that f hands out: the pairs   *)
(* <<i, k>> with i in S and k in 1 .. f[i].  Counting a set, instead of     *)
(* folding over it, lets every law of sums be proved from the cardinality   *)
(* theorems of the library (module DataTheorems).                           *)
(***************************************************************************)
EXTENDS Integers, FiniteSets

\* The units that f hands out to the members of S.
Units(S, f) == UNION {{i} \X (1 .. f[i]) : i \in S}

\* The sum of f[i] for i in S, for f with values in Nat on S.
SumOver(S, f) == Cardinality(Units(S, f))
=============================================================================
