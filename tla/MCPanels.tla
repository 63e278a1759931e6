------------------------------ MODULE MCPanels ------------------------------
(***************************************************************************)
(* Panels on a small instance: panels of three, two options, two criteria  *)
(* and costs that reach the caps.                                          *)
(***************************************************************************)
EXTENDS Panels, TLC

CONSTANTS
  m1, m2, m3, m0 (* providers; m0 is the configured moderator *)

(* Sure or unsure of an option, and what is thought of its criteria: good  *)
(* in both or in one only; or sure and scored in one only.                 *)
AnEntry ==
  [overall : {3, 8},
   by : {[k \in Criterion |-> 8], [k \in Criterion |-> IF k = "cost" THEN 2 ELSE 8]}]
  \union [overall : {8}, by : {[k \in {"cost"} |-> 5]}]

(* Objects on both options, on one, on none, and on one that does not exist. *)
Objects ==
  [1 .. 2 -> AnEntry] \union [{1} -> AnEntry] \union {[i \in {} |-> 0]}
  \union {[i \in {0, 1} |-> [overall |-> IF i = 0 THEN 9 ELSE 3, by |-> [k \in Criterion |-> 2]]]}

Weights == [k \in Criterion |-> IF k = "cost" THEN 1 ELSE 2]

(* For the router: a dear, a cheap and a middling provider.                *)
Prices == <<10, 2, 9>>
Engaged == <<12, 3, 5>>
Wins == <<1, 2, 1>>

(* All providers but the moderator are interchangeable.                    *)
Symmetry == Permutations({m1, m2, m3})
=============================================================================
