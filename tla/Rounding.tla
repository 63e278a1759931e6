------------------------------ MODULE Rounding ------------------------------
(***************************************************************************)
(* Python's round(x, 4), by which crosscheck_server.py rounds rates and    *)
(* scores before it sorts by them: on exact fractions and in grains, which *)
(* are ten-thousandths in the code. How a double misses the fraction that  *)
(* it stands for is left out.                                              *)
(***************************************************************************)
EXTENDS Integers

(* n / d rounded to an integer, a half to the even one. *)
Nearest(n, d) ==
  LET q == n \div d
      twice == 2 * (n % d)
  IN  IF twice < d \/ (twice = d /\ q % 2 = 0) THEN q ELSE q + 1
=============================================================================
