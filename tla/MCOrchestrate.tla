--------------------------- MODULE MCOrchestrate ---------------------------
(* Orchestrate for TLC: model values for the nodes, and the symmetry of    *)
(* the ids a plan can use and of the ids that only workers add.            *)
EXTENDS Orchestrate, TLC

Symmetry == Permutations(PlanId) \cup Permutations(Node \ PlanId)
=============================================================================
