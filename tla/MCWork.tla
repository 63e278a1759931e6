------------------------------- MODULE MCWork -------------------------------
(***************************************************************************)
(* Work on a small instance: three providers, four auditors of one item or *)
(* two of two, and costs that reach the caps.                              *)
(***************************************************************************)
EXTENDS Work, TLC

CONSTANTS
  m1, m2, m3, m4 (* providers *)

OneItem == [i \in Item |-> "high"]

(* Two rubric items, one of which weighs more.                             *)
TwoItems == [i \in Item2 |-> IF i = "grounded" THEN "high" ELSE "med"]

(* The providers are interchangeable.                                      *)
Symmetry == Permutations({m1, m2, m3, m4})
=============================================================================
