-------------------------- MODULE MCSessionLedger --------------------------
(* SessionLedger on small instances; processes are interchangeable.        *)
EXTENDS SessionLedger, TLC

Symmetry == Permutations(Process)
=============================================================================
