--------------------------- MODULE MCProviderCall ---------------------------
(* ProviderCall on small instances; callers are interchangeable.           *)
EXTENDS ProviderCall, TLC

Symmetry == Permutations(Caller)
=============================================================================
