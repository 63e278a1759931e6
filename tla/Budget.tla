------------------------------ MODULE Budget -------------------------------
(***************************************************************************)
(* What a budget that is read before and charged after promises: nobody    *)
(* is admitted once the recorded use has reached the cap, so the use ends  *)
(* within what those already inside can add. Delegate and Egress implement *)
(* it; neither takes a lock between the two steps.                         *)
(***************************************************************************)
EXTENDS Naturals, FiniteSets

CONSTANTS
  Actor,         (* who may use the budget *)
  Cap,           (* the recorded use at which admission stops *)
  MaxUse         (* the most that one admission may record *)

BudgetAssumption ==
  /\ IsFiniteSet(Actor)
  /\ Cap \in Nat \ {0}
  /\ MaxUse \in Nat

VARIABLES
  spent,         (* the recorded use *)
  inside         (* the actors admitted and not yet done *)

vars == <<spent, inside>>

Init == spent = 0 /\ inside = {}

Admit(a) ==
  /\ spent < Cap
  /\ inside' = inside \union {a}
  /\ UNCHANGED spent

(* An admitted actor leaves; one that failed has recorded nothing. *)
Leave(a) ==
  /\ a \in inside
  /\ inside' = inside \ {a}
  /\ \E use \in 0 .. MaxUse : spent' = spent + use

Next == \E a \in Actor : Admit(a) \/ Leave(a)

Spec == Init /\ [][Next]_vars

-----------------------------------------------------------------------------

TypeOK == spent \in Nat /\ inside \subseteq Actor

(* The overshoot: all actors may have been admitted one below the cap.     *)
Overshoot == spent + MaxUse * Cardinality(inside) <= Cap - 1 + MaxUse * Cardinality(Actor)
=============================================================================
