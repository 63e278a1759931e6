------------------------------- MODULE DagRun -------------------------------
(***************************************************************************)
(* What one `orchestrate` call promises about the nodes of its DAG, with   *)
(* no thread, deadline, planner or ledger in sight:                        *)
(*                                                                         *)
(*   - the plan it adopts is a DAG, and the plan only ever grows, by nodes *)
(*     whose dependencies have already succeeded;                          *)
(*   - a node runs at most once, and only when every dependency has its    *)
(*     final result;                                                       *)
(*   - a result, once there, never changes;                                *)
(*   - under `fail_fast` nothing of the plan starts after a failure has    *)
(*     been recorded and the nodes left over are skipped in one step.      *)
(*                                                                         *)
(* The module Orchestrate implements this one.                             *)
(***************************************************************************)
EXTENDS FiniteSets

CONSTANTS
  Node          (* every id a node of the plan can have *)

VARIABLES
  known,        (* the ids in the plan *)
  deps,         (* the dependencies of each node *)
  status,       (* what has become of each node *)
  closed        (* the call has answered *)

dagVars == <<known, deps, status, closed>>

Final == {"ok", "failed", "skipped"}

HasEnded(n) == status[n] \in Final

(* Every non-empty set of nodes has one that depends on none of the set: *)
(* no cycle, without following paths.                                    *)
IsAcyclic(ids, d) ==
  \A S \in SUBSET ids : S # {} => \E n \in S : d[n] \cap S = {}

-----------------------------------------------------------------------------

DagTypeOK ==
  /\ known \subseteq Node
  /\ deps \in [Node -> SUBSET Node]
  /\ status \in [Node -> {"idle", "running"} \cup Final]
  /\ closed \in BOOLEAN

DagInit ==
  /\ known = {}
  /\ deps = [n \in Node |-> {}]
  /\ status = [n \in Node |-> "idle"]
  /\ closed = FALSE

(* The plan is fixed, written by the caller or drafted by the moderator: *)
(* its dependencies are nodes of the plan and form no cycle.             *)
Adopt ==
  /\ ~closed
  /\ known = {}
  /\ known' \in (SUBSET Node) \ {{}}
  /\ deps' \in [Node -> SUBSET known']
  /\ \A n \in Node \ known' : deps'[n] = {}
  /\ IsAcyclic(known', deps')
  /\ UNCHANGED <<status, closed>>

(* A finished worker asks for one more node. *)
Extend(n, ds) ==
  /\ ~closed
  /\ n \notin known
  /\ \A d \in ds : status[d] = "ok"
  /\ known' = known \cup {n}
  /\ deps' = [deps EXCEPT ![n] = ds]
  /\ UNCHANGED <<status, closed>>

(* A node starts once its dependencies have ended. *)
Launch(n) ==
  /\ ~closed
  /\ n \in known
  /\ status[n] = "idle"
  /\ \A d \in deps[n] : HasEnded(d)
  /\ status' = [status EXCEPT ![n] = "running"]
  /\ UNCHANGED <<known, deps, closed>>

(* Some running nodes get their results. *)
Settle(S) ==
  /\ ~closed
  /\ S # {}
  /\ \A n \in S : status[n] = "running"
  /\ \E r \in [S -> {"ok", "failed"}] :
       status' = [n \in Node |-> IF n \in S THEN r[n] ELSE status[n]]
  /\ UNCHANGED <<known, deps, closed>>

(* fail_fast: one failure skips every node that has not started. *)
SkipRest ==
  /\ ~closed
  /\ \E n \in known : status[n] = "failed"
  /\ \A n \in known : status[n] # "running"
  /\ status' = [n \in Node |-> IF n \in known /\ status[n] = "idle"
                               THEN "skipped" ELSE status[n]]
  /\ UNCHANGED <<known, deps, closed>>

Close ==
  /\ ~closed
  /\ closed' = TRUE
  /\ UNCHANGED <<known, deps, status>>

DagNext ==
  \/ Adopt
  \/ \E n \in Node, ds \in SUBSET Node : Extend(n, ds)
  \/ \E n \in Node : Launch(n)
  \/ \E S \in SUBSET Node : Settle(S)
  \/ SkipRest
  \/ Close

DagSpec == DagInit /\ [][DagNext]_dagVars
=============================================================================
