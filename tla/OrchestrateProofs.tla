-------------------------- MODULE OrchestrateProofs --------------------------
(***************************************************************************)
(* What holds of Orchestrate for every set of nodes, every breaker and     *)
(* every cap. The inductive invariant IInv is the type invariant with six  *)
(* named parts; each part has a lemma that every step preserves it, and    *)
(* the theorems follow.                                                    *)
(***************************************************************************)
EXTENDS Orchestrate, TLAPS

(* The plan does not exist before Prepare, and a node outside it is inert. *)
PlanInv ==
  /\ pc \in {"entry", "draft", "redraft", "planned"} => known = {}
  /\ \A n \in Node \ known :
       deps[n] = {} /\ thread[n] = "idle" /\ result[n] = "none"
  /\ \A n \in Node \ dag.ids : dag.deps[n] = {}

(* Only a batch or its unwinding has threads; a node on a thread has no    *)
(* result yet and its dependencies have theirs.                            *)
PoolInv ==
  /\ pc \notin {"batch", "reactive", "unwind", "done"} => thread = Idle
  /\ pc \in {"unwind", "done"} => Queued = {}
  /\ pc = "done" => Asking = {}
  /\ pc = "reactive" => \A n \in Node : thread[n] # "idle" => n \in fresh
  /\ \A n \in Node :
       thread[n] # "idle" => result[n] = "none" /\ deps[n] \subseteq Ended

(* A node to be dispatched reactively rests on successes only. *)
FreshInv ==
  /\ pc \notin {"harvest", "reactive", "unwind", "done"} => fresh = {}
  /\ fresh \subseteq applied
  /\ \A n \in fresh : result[n] = "none" /\ deps[n] \subseteq Ok

(* fail_fast: the walk goes on only while nothing has failed. *)
StrictInv ==
  /\ pc \in {"walk", "batch"} => \A n \in Node : result[n] # "skipped"
  /\ pc = "walk" /\ opts.failFast => FailedIds = {}
  /\ StrictInputs

(* A charge is on its way to the ledger: on a thread, then collected. One  *)
(* that no answer carries belongs to a node that failed, to a plan being   *)
(* drafted again, or to a call that ends there.                            *)
SpendInv ==
  /\ \A n \in Node :
       /\ n \in paid => n \in answers \/ thread[n] \in {"ok", "failed", "raised"}
       /\ n \in lost => result[n] = "failed" \/ thread[n] \in {"failed", "raised"}
  /\ \A c \in {"redraft", "synth"} : c \in paid => c \in answers
  /\ "draft" \in paid => "draft" \in answers \cup lost
  /\ "draft" \in lost =>
       "redraft" \in answers \/ pc = "redraft" \/ outcome \in {"raised", "planner_failed"}
  /\ "redraft" \in lost => outcome = "planner_failed"
  /\ outcome # "none" => pc = "done"
  /\ outcome = "complete" => ledger = answers /\ thread = Idle

(* While there is time, whatever is not settled is still to be run. *)
RestInv ==
  /\ pc = "reactive" => known \subseteq Ended \cup fresh
  /\ clock = "ample" /\ pc \in {"harvest", "recombine", "synth", "commit"} =>
       known \subseteq Ended \cup fresh
  /\ NothingLeftBehind

IInv ==
  /\ TypeOK
  /\ PlanInv
  /\ PoolInv
  /\ PlanStaysDag
  /\ FreshInv
  /\ StrictInv
  /\ UpstreamFaithful
  /\ SpendInv
  /\ RestInv

-----------------------------------------------------------------------------
(* Any non-empty part of an acyclic graph has a node that depends on none of *)
(* the part: where graphlib's get_ready finds its next node.                 *)
LEMMA AcyclicHasFirst ==
  ASSUME NEW ids, NEW d, Acyclic(ids, d), NEW S \in SUBSET ids, S # {}
  PROVE  \E n \in S : d[n] \cap S = {}
BY DEF Acyclic

-----------------------------------------------------------------------------
(* Every step preserves each part of IInv.                                 *)

(* The variables stay in their types. *)
LEMMA TypeStep == IInv /\ [Next]_vars => TypeOK'
<1> SUFFICES ASSUME IInv, [Next]_vars PROVE TypeOK'
  OBVIOUS
<1> USE ConstantsAssumption
    DEF IInv, TypeOK, PlanInv
<1>1. CASE Plan
  BY <1>1 DEF Plan, Refuse, Answer, AcceptDag, Dags, AcceptGoal, PlanDrafted,
    Drafting, Charge, ChargeUnseen, Calls, DraftUnusable, PlannerFails, RejectDag,
    TripDagBreaker, DryRun, Prepare, runVars, moneyVars
<1>2. CASE Dispatch
  BY <1>2 DEF Dispatch, Skip, Enqueue, Ready, Doomed, runVars, moneyVars
<1>3. CASE WalkEnds
  BY <1>3 DEF WalkEnds, LeaveWalk, Ok, runVars, moneyVars
<1>4. CASE BatchEnds
  BY <1>4 DEF BatchEnds, BatchDone, Skip, LeaveWalk, Ok, Ended, runVars,
    moneyVars
<1>5. ASSUME NEW n \in Node, SettleNode(n) PROVE TypeOK'
  BY <1>5 DEF SettleNode, Verdict, Reported, Calls, runVars, moneyVars
<1>6. CASE DispatchReactive
  BY <1>6 DEF DispatchReactive, Enqueue, runVars, moneyVars
<1>7. CASE HarvestEnds
  BY <1>7 DEF HarvestEnds, runVars, moneyVars
<1>8. CASE SettleReactive
  BY <1>8 DEF SettleReactive, SettleInto, Verdict, Reported, Idle, Calls,
    runVars, moneyVars
<1>9. ASSUME NEW n \in Node, NEW ds \in SUBSET Node, AcceptSignal(n, ds)
     PROVE  TypeOK'
  BY <1>9 DEF AcceptSignal, Enroll, runVars, moneyVars
<1>10. CASE Finish
  BY <1>10 DEF Finish, Recombine, Synthesize, Charge, ChargeUnseen, Calls, Commit, Answer,
    Raise, Queued, Unwind, Fail, runVars, moneyVars
<1>11. ASSUME NEW n \in Node, StartNode(n) PROVE TypeOK'
  BY <1>11 DEF StartNode, runVars, moneyVars
<1>12. ASSUME NEW n \in Node, ReturnNode(n) PROVE TypeOK'
  BY <1>12 DEF ReturnNode, Charge, ChargeUnseen, Calls, runVars, moneyVars
<1>13. CASE Elapse \/ Stopped \/ UNCHANGED vars
  BY <1>13 DEF Stopped, vars, Elapse, Clocks, runVars, moneyVars
<1>14. QED
  BY <1>1, <1>2, <1>3, <1>4, <1>5, <1>6, <1>7, <1>8, <1>9, <1>10,
    <1>11, <1>12, <1>13
  DEF Next, MainThread, Walk, React, PoolThread


(* Nodes outside the plan stay inert. *)
LEMMA PlanStep == IInv /\ [Next]_vars => PlanInv'
<1> SUFFICES ASSUME IInv, [Next]_vars PROVE PlanInv'
  OBVIOUS
<1> USE ConstantsAssumption
    DEF IInv, TypeOK, PlanInv
<1>1. CASE Plan
  BY <1>1 DEF Plan, Refuse, Answer, AcceptDag, Dags, AcceptGoal, PlanDrafted,
    Drafting, Charge, ChargeUnseen, Calls, DraftUnusable, PlannerFails, RejectDag,
    TripDagBreaker, DryRun, Prepare, runVars, moneyVars
<1>2. CASE Dispatch
  BY <1>2 DEF Dispatch, Skip, Enqueue, Ready, Doomed, runVars, moneyVars
<1>3. CASE WalkEnds
  BY <1>3 DEF WalkEnds, LeaveWalk, Ok, runVars, moneyVars
<1>4. CASE BatchEnds
  BY <1>4 DEF BatchEnds, BatchDone, Skip, LeaveWalk, Ok, Ended, runVars,
    moneyVars
<1>5. ASSUME NEW n \in Node, SettleNode(n) PROVE PlanInv'
  BY <1>5 DEF SettleNode, Verdict, Reported, Calls, runVars, moneyVars
<1>6. CASE DispatchReactive
  BY <1>6 DEF DispatchReactive, Enqueue, runVars, moneyVars
<1>7. CASE HarvestEnds
  BY <1>7 DEF HarvestEnds, runVars, moneyVars
<1>8. CASE SettleReactive
  BY <1>8 DEF SettleReactive, SettleInto, Verdict, Reported, Idle, Calls,
    runVars, moneyVars
<1>9. ASSUME NEW n \in Node, NEW ds \in SUBSET Node, AcceptSignal(n, ds)
     PROVE  PlanInv'
  BY <1>9 DEF AcceptSignal, Enroll, runVars, moneyVars
<1>10. CASE Finish
  BY <1>10 DEF Finish, Recombine, Synthesize, Charge, ChargeUnseen, Calls, Commit, Answer,
    Raise, Queued, Unwind, Fail, runVars, moneyVars
<1>11. ASSUME NEW n \in Node, StartNode(n) PROVE PlanInv'
  BY <1>11 DEF StartNode, runVars, moneyVars
<1>12. ASSUME NEW n \in Node, ReturnNode(n) PROVE PlanInv'
  BY <1>12 DEF ReturnNode, Charge, ChargeUnseen, Calls, runVars, moneyVars
<1>13. CASE Elapse \/ Stopped \/ UNCHANGED vars
  BY <1>13 DEF Stopped, vars, Elapse, Clocks, runVars, moneyVars
<1>14. QED
  BY <1>1, <1>2, <1>3, <1>4, <1>5, <1>6, <1>7, <1>8, <1>9, <1>10,
    <1>11, <1>12, <1>13
  DEF Next, MainThread, Walk, React, PoolThread


(* Only a batch or its unwinding has threads, on nodes that are ready. *)
LEMMA PoolStep == IInv /\ [Next]_vars => PoolInv'
<1> SUFFICES ASSUME IInv, [Next]_vars PROVE PoolInv'
  OBVIOUS
<1> USE ConstantsAssumption
    DEF IInv, TypeOK, PlanInv, PoolInv, FreshInv, Asking, Queued, Ended, Ok,
      Idle
<1>1. CASE Plan
  BY <1>1 DEF Plan, Refuse, Answer, AcceptDag, Dags, AcceptGoal, PlanDrafted,
    Drafting, Charge, ChargeUnseen, Calls, DraftUnusable, PlannerFails, RejectDag,
    TripDagBreaker, DryRun, Prepare, runVars, moneyVars
<1>2. CASE Dispatch
  BY <1>2 DEF Dispatch, Skip, Enqueue, Ready, Doomed, runVars, moneyVars
<1>3. CASE WalkEnds
  BY <1>3 DEF WalkEnds, LeaveWalk, runVars, moneyVars
<1>4. CASE BatchEnds
  BY <1>4 DEF BatchEnds, BatchDone, Skip, LeaveWalk, runVars, moneyVars
<1>5. ASSUME NEW n \in Node, SettleNode(n) PROVE PoolInv'
  BY <1>5 DEF SettleNode, Verdict, Reported, Calls, runVars, moneyVars
<1>6. CASE DispatchReactive
  BY <1>6 DEF DispatchReactive, Enqueue, runVars, moneyVars
<1>7. CASE HarvestEnds
  BY <1>7 DEF HarvestEnds, runVars, moneyVars
<1>8. CASE SettleReactive
  BY <1>8 DEF SettleReactive, SettleInto, Verdict, Reported, Calls, runVars,
    moneyVars
<1>9. ASSUME NEW n \in Node, NEW ds \in SUBSET Node, AcceptSignal(n, ds)
     PROVE  PoolInv'
  BY <1>9 DEF AcceptSignal, Enroll, runVars, moneyVars
<1>10. CASE Finish
  BY <1>10 DEF Finish, Recombine, Synthesize, Charge, ChargeUnseen, Calls, Commit, Answer,
    Raise, Unwind, Fail, runVars, moneyVars
<1>11. ASSUME NEW n \in Node, StartNode(n) PROVE PoolInv'
  BY <1>11 DEF StartNode, runVars, moneyVars
<1>12. ASSUME NEW n \in Node, ReturnNode(n) PROVE PoolInv'
  BY <1>12 DEF ReturnNode, Charge, ChargeUnseen, Calls, runVars, moneyVars
<1>13. CASE Elapse \/ Stopped \/ UNCHANGED vars
  BY <1>13 DEF Stopped, vars, Elapse, Clocks, runVars, moneyVars
<1>14. QED
  BY <1>1, <1>2, <1>3, <1>4, <1>5, <1>6, <1>7, <1>8, <1>9, <1>10,
    <1>11, <1>12, <1>13
  DEF Next, MainThread, Walk, React, PoolThread


(* A plan that is a DAG stays one: Prepare checks it, and a node added by a *)
(* worker has edges into the plan only, none of the plan into it.           *)
LEMMA DagStep == IInv /\ [Next]_vars => PlanStaysDag'
<1> SUFFICES ASSUME IInv, [Next]_vars PROVE PlanStaysDag'
  OBVIOUS
<1> USE ConstantsAssumption
    DEF IInv, TypeOK, PlanInv, PoolInv, FreshInv, PlanStaysDag, Ended, Ok
<1>1. CASE Plan
  <2>1. CASE Prepare
    BY <2>1 DEF Prepare, ValidDag
  <2>2. CASE Plan /\ ~Prepare
    BY <2>2 DEF Plan, Refuse, Answer, AcceptDag, AcceptGoal, PlanDrafted,
      DraftUnusable, PlannerFails, RejectDag, TripDagBreaker, DryRun, runVars,
      Acyclic
  <2>3. QED
    BY <1>1, <2>1, <2>2
<1>2. CASE Dispatch
  BY <1>2 DEF Dispatch, Skip, Enqueue, Ready, Doomed, runVars, moneyVars
<1>3. CASE WalkEnds
  BY <1>3 DEF WalkEnds, LeaveWalk, runVars, moneyVars
<1>4. CASE BatchEnds
  BY <1>4 DEF BatchEnds, BatchDone, Skip, LeaveWalk, runVars, moneyVars
<1>5. ASSUME NEW n \in Node, SettleNode(n) PROVE PlanStaysDag'
  BY <1>5 DEF SettleNode, Verdict, Reported, Calls, runVars, moneyVars
<1>6. CASE DispatchReactive
  BY <1>6 DEF DispatchReactive, Enqueue, runVars, moneyVars
<1>7. CASE HarvestEnds
  BY <1>7 DEF HarvestEnds, runVars, moneyVars
<1>8. CASE SettleReactive
  BY <1>8 DEF SettleReactive, SettleInto, Verdict, Reported, Idle, Calls,
    runVars, moneyVars
<1>9. ASSUME NEW n \in Node, NEW ds \in SUBSET Node, AcceptSignal(n, ds)
     PROVE  PlanStaysDag'
  <2>1. /\ n \notin known
        /\ known' = known \cup {n}
        /\ \A m \in known : deps'[m] = deps[m]
        /\ deps'[n] = ds
        /\ ds \subseteq known
    BY <1>9 DEF AcceptSignal, Enroll
  <2>2. \A m \in known' : deps'[m] \subseteq known'
    BY <2>1
  <2>3. ASSUME NEW S \in SUBSET known', S # {}
        PROVE  \E m \in S : deps'[m] \cap S = {}
    <3>1. CASE S \subseteq {n}
      BY <2>1, <2>3, <3>1
    <3>2. CASE ~(S \subseteq {n})
      <4>1. S \ {n} \in SUBSET known /\ S \ {n} # {}
        BY <2>1, <3>2
      <4>2. PICK m \in S \ {n} : deps[m] \cap (S \ {n}) = {}
        BY <4>1 DEF Acyclic
      <4>3. m \in known /\ n \notin deps[m]
        BY <2>1, <4>1
      <4>4. QED
        BY <2>1, <4>2, <4>3
    <3>3. QED
      BY <3>1, <3>2
  <2>4. QED
    BY <2>2, <2>3 DEF Acyclic
<1>10. CASE Finish
  BY <1>10 DEF Finish, Recombine, Synthesize, Charge, ChargeUnseen, Calls, Commit, Answer,
    Raise, Queued, Unwind, Fail, runVars, moneyVars
<1>11. ASSUME NEW n \in Node, StartNode(n) PROVE PlanStaysDag'
  BY <1>11 DEF StartNode, runVars, moneyVars
<1>12. ASSUME NEW n \in Node, ReturnNode(n) PROVE PlanStaysDag'
  BY <1>12 DEF ReturnNode, Charge, ChargeUnseen, Calls, runVars, moneyVars
<1>13. CASE Elapse \/ Stopped \/ UNCHANGED vars
  BY <1>13 DEF Stopped, vars, Elapse, Clocks, runVars, moneyVars
<1>14. QED
  BY <1>1, <1>2, <1>3, <1>4, <1>5, <1>6, <1>7, <1>8, <1>9, <1>10,
    <1>11, <1>12, <1>13
  DEF Next, MainThread, Walk, React, PoolThread


(* The reactive nodes to be dispatched rest on successes. *)
LEMMA FreshStep == IInv /\ [Next]_vars => FreshInv'
<1> SUFFICES ASSUME IInv, [Next]_vars PROVE FreshInv'
  OBVIOUS
<1> USE ConstantsAssumption
    DEF IInv, TypeOK, PlanInv, PoolInv, FreshInv, Ended, Ok, Idle
<1>1. CASE Plan
  BY <1>1 DEF Plan, Refuse, Answer, AcceptDag, Dags, AcceptGoal, PlanDrafted,
    Drafting, Charge, ChargeUnseen, Calls, DraftUnusable, PlannerFails, RejectDag,
    TripDagBreaker, DryRun, Prepare, runVars, moneyVars
<1>2. CASE Dispatch
  BY <1>2 DEF Dispatch, Skip, Enqueue, Ready, Doomed, runVars, moneyVars
<1>3. CASE WalkEnds
  BY <1>3 DEF WalkEnds, LeaveWalk, runVars, moneyVars
<1>4. CASE BatchEnds
  BY <1>4 DEF BatchEnds, BatchDone, Skip, LeaveWalk, runVars, moneyVars
<1>5. ASSUME NEW n \in Node, SettleNode(n) PROVE FreshInv'
  BY <1>5 DEF SettleNode, Verdict, Reported, Calls, runVars, moneyVars
<1>6. CASE DispatchReactive
  BY <1>6 DEF DispatchReactive, Enqueue, runVars, moneyVars
<1>7. CASE HarvestEnds
  BY <1>7 DEF HarvestEnds, runVars, moneyVars
<1>8. CASE SettleReactive
  BY <1>8 DEF SettleReactive, SettleInto, Verdict, Reported, Calls, runVars,
    moneyVars
<1>9. ASSUME NEW n \in Node, NEW ds \in SUBSET Node, AcceptSignal(n, ds)
     PROVE  FreshInv'
  BY <1>9 DEF AcceptSignal, Enroll, runVars, moneyVars
<1>10. CASE Finish
  BY <1>10 DEF Finish, Recombine, Synthesize, Charge, ChargeUnseen, Calls, Commit, Answer,
    Raise, Queued, Unwind, Fail, runVars, moneyVars
<1>11. ASSUME NEW n \in Node, StartNode(n) PROVE FreshInv'
  BY <1>11 DEF StartNode, runVars, moneyVars
<1>12. ASSUME NEW n \in Node, ReturnNode(n) PROVE FreshInv'
  BY <1>12 DEF ReturnNode, Charge, ChargeUnseen, Calls, runVars, moneyVars
<1>13. CASE Elapse \/ Stopped \/ UNCHANGED vars
  BY <1>13 DEF Stopped, vars, Elapse, Clocks, runVars, moneyVars
<1>14. QED
  BY <1>1, <1>2, <1>3, <1>4, <1>5, <1>6, <1>7, <1>8, <1>9, <1>10,
    <1>11, <1>12, <1>13
  DEF Next, MainThread, Walk, React, PoolThread


(* fail_fast keeps failed inputs from every node that runs. *)
LEMMA StrictStep == IInv /\ [Next]_vars => StrictInv'
<1> SUFFICES ASSUME IInv, [Next]_vars PROVE StrictInv'
  OBVIOUS
<1> USE ConstantsAssumption
    DEF IInv, TypeOK, PlanInv, PoolInv, FreshInv, StrictInv, StrictInputs,
      FailedIds, Ended, Ok, Idle
<1>1. CASE Plan
  BY <1>1 DEF Plan, Refuse, Answer, AcceptDag, Dags, AcceptGoal, PlanDrafted,
    Drafting, Charge, ChargeUnseen, Calls, DraftUnusable, PlannerFails, RejectDag,
    TripDagBreaker, DryRun, Prepare, runVars, moneyVars
<1>2. CASE Dispatch
  BY <1>2 DEF Dispatch, Skip, Enqueue, Ready, Doomed, runVars, moneyVars
<1>3. CASE WalkEnds
  BY <1>3 DEF WalkEnds, LeaveWalk, runVars, moneyVars
<1>4. CASE BatchEnds
  BY <1>4 DEF BatchEnds, BatchDone, Skip, LeaveWalk, runVars, moneyVars
<1>5. ASSUME NEW n \in Node, SettleNode(n) PROVE StrictInv'
  BY <1>5 DEF SettleNode, Verdict, Reported, Calls, runVars, moneyVars
<1>6. CASE DispatchReactive
  BY <1>6 DEF DispatchReactive, Enqueue, runVars, moneyVars
<1>7. CASE HarvestEnds
  BY <1>7 DEF HarvestEnds, runVars, moneyVars
<1>8. CASE SettleReactive
  BY <1>8 DEF SettleReactive, SettleInto, Verdict, Reported, Calls, runVars,
    moneyVars
<1>9. ASSUME NEW n \in Node, NEW ds \in SUBSET Node, AcceptSignal(n, ds)
     PROVE  StrictInv'
  BY <1>9 DEF AcceptSignal, Enroll, runVars, moneyVars
<1>10. CASE Finish
  BY <1>10 DEF Finish, Recombine, Synthesize, Charge, ChargeUnseen, Calls, Commit, Answer,
    Raise, Queued, Unwind, Fail, runVars, moneyVars
<1>11. ASSUME NEW n \in Node, StartNode(n) PROVE StrictInv'
  BY <1>11 DEF StartNode, runVars, moneyVars
<1>12. ASSUME NEW n \in Node, ReturnNode(n) PROVE StrictInv'
  BY <1>12 DEF ReturnNode, Charge, ChargeUnseen, Calls, runVars, moneyVars
<1>13. CASE Elapse \/ Stopped \/ UNCHANGED vars
  BY <1>13 DEF Stopped, vars, Elapse, Clocks, runVars, moneyVars
<1>14. QED
  BY <1>1, <1>2, <1>3, <1>4, <1>5, <1>6, <1>7, <1>8, <1>9, <1>10,
    <1>11, <1>12, <1>13
  DEF Next, MainThread, Walk, React, PoolThread


(* What a prompt showed of a dependency stays true. *)
LEMMA SeenStep == IInv /\ [Next]_vars => UpstreamFaithful'
<1> SUFFICES ASSUME IInv, [Next]_vars PROVE UpstreamFaithful'
  OBVIOUS
<1> USE ConstantsAssumption
    DEF IInv, TypeOK, PlanInv, PoolInv, FreshInv, UpstreamFaithful, Ended,
      Ok, Idle
<1>1. CASE Plan
  BY <1>1 DEF Plan, Refuse, Answer, AcceptDag, Dags, AcceptGoal, PlanDrafted,
    Drafting, Charge, ChargeUnseen, Calls, DraftUnusable, PlannerFails, RejectDag,
    TripDagBreaker, DryRun, Prepare, runVars, moneyVars
<1>2. CASE Dispatch
  BY <1>2 DEF Dispatch, Skip, Enqueue, Ready, Doomed, runVars, moneyVars
<1>3. CASE WalkEnds
  BY <1>3 DEF WalkEnds, LeaveWalk, runVars, moneyVars
<1>4. CASE BatchEnds
  BY <1>4 DEF BatchEnds, BatchDone, Skip, LeaveWalk, runVars, moneyVars
<1>5. ASSUME NEW n \in Node, SettleNode(n) PROVE UpstreamFaithful'
  BY <1>5 DEF SettleNode, Verdict, Reported, Calls, runVars, moneyVars
<1>6. CASE DispatchReactive
  BY <1>6 DEF DispatchReactive, Enqueue, runVars, moneyVars
<1>7. CASE HarvestEnds
  BY <1>7 DEF HarvestEnds, runVars, moneyVars
<1>8. CASE SettleReactive
  BY <1>8 DEF SettleReactive, SettleInto, Verdict, Reported, Calls, runVars,
    moneyVars
<1>9. ASSUME NEW n \in Node, NEW ds \in SUBSET Node, AcceptSignal(n, ds)
     PROVE  UpstreamFaithful'
  BY <1>9 DEF AcceptSignal, Enroll, runVars, moneyVars
<1>10. CASE Finish
  BY <1>10 DEF Finish, Recombine, Synthesize, Charge, ChargeUnseen, Calls, Commit, Answer,
    Raise, Queued, Unwind, Fail, runVars, moneyVars
<1>11. ASSUME NEW n \in Node, StartNode(n) PROVE UpstreamFaithful'
  BY <1>11 DEF StartNode, runVars, moneyVars
<1>12. ASSUME NEW n \in Node, ReturnNode(n) PROVE UpstreamFaithful'
  BY <1>12 DEF ReturnNode, Charge, ChargeUnseen, Calls, runVars, moneyVars
<1>13. CASE Elapse \/ Stopped \/ UNCHANGED vars
  BY <1>13 DEF Stopped, vars, Elapse, Clocks, runVars, moneyVars
<1>14. QED
  BY <1>1, <1>2, <1>3, <1>4, <1>5, <1>6, <1>7, <1>8, <1>9, <1>10,
    <1>11, <1>12, <1>13
  DEF Next, MainThread, Walk, React, PoolThread


(* A charge is never dropped between its thread and the ledger. *)
LEMMA SpendStep == IInv /\ [Next]_vars => SpendInv'
<1> SUFFICES ASSUME IInv, [Next]_vars PROVE SpendInv'
  OBVIOUS
<1> USE ConstantsAssumption
    DEF IInv, TypeOK, PlanInv, PoolInv, SpendInv, Idle, Asking, Queued
<1>1. CASE Plan
  BY <1>1 DEF Plan, Refuse, Answer, AcceptDag, Dags, AcceptGoal, PlanDrafted,
    Drafting, Charge, ChargeUnseen, Calls, DraftUnusable, PlannerFails, RejectDag,
    TripDagBreaker, DryRun, Prepare, runVars, moneyVars
<1>2. CASE Dispatch
  BY <1>2 DEF Dispatch, Skip, Enqueue, Ready, Doomed, runVars, moneyVars
<1>3. CASE WalkEnds
  BY <1>3 DEF WalkEnds, LeaveWalk, Ok, runVars, moneyVars
<1>4. CASE BatchEnds
  BY <1>4 DEF BatchEnds, BatchDone, Skip, LeaveWalk, Ok, Ended, runVars,
    moneyVars
<1>5. ASSUME NEW n \in Node, SettleNode(n) PROVE SpendInv'
  BY <1>5 DEF SettleNode, Verdict, Reported, Calls, runVars, moneyVars
<1>6. CASE DispatchReactive
  BY <1>6 DEF DispatchReactive, Enqueue, runVars, moneyVars
<1>7. CASE HarvestEnds
  BY <1>7 DEF HarvestEnds, runVars, moneyVars
<1>8. CASE SettleReactive
  BY <1>8 DEF SettleReactive, SettleInto, Verdict, Reported, Calls, runVars,
    moneyVars
<1>9. ASSUME NEW n \in Node, NEW ds \in SUBSET Node, AcceptSignal(n, ds)
     PROVE  SpendInv'
  BY <1>9 DEF AcceptSignal, Enroll, runVars, moneyVars
<1>10. CASE Finish
  BY <1>10 DEF Finish, Recombine, Synthesize, Charge, ChargeUnseen, Calls, Commit, Answer,
    Raise, Unwind, Fail, runVars, moneyVars
<1>11. ASSUME NEW n \in Node, StartNode(n) PROVE SpendInv'
  BY <1>11 DEF StartNode, runVars, moneyVars
<1>12. ASSUME NEW n \in Node, ReturnNode(n) PROVE SpendInv'
  BY <1>12 DEF ReturnNode, Charge, ChargeUnseen, Calls, runVars, moneyVars
<1>13. CASE Elapse \/ Stopped \/ UNCHANGED vars
  BY <1>13 DEF Stopped, vars, Elapse, Clocks, runVars, moneyVars
<1>14. QED
  BY <1>1, <1>2, <1>3, <1>4, <1>5, <1>6, <1>7, <1>8, <1>9, <1>10,
    <1>11, <1>12, <1>13
  DEF Next, MainThread, Walk, React, PoolThread


(* With time left, what is not settled is still to be run: a walk that finds *)
(* nothing ready has settled the plan, or the rest of it would be a cycle.   *)
LEMMA RestStep == IInv /\ [Next]_vars => RestInv'
<1> SUFFICES ASSUME IInv, [Next]_vars PROVE RestInv'
  OBVIOUS
<1> USE ConstantsAssumption
    DEF IInv, TypeOK, PlanInv, PoolInv, FreshInv, SpendInv, RestInv,
      NothingLeftBehind, Ended, Ok, Idle
<1>1. CASE Plan
  BY <1>1 DEF Plan, Refuse, Answer, AcceptDag, Dags, AcceptGoal, PlanDrafted,
    Drafting, Charge, ChargeUnseen, Calls, DraftUnusable, PlannerFails, RejectDag,
    TripDagBreaker, DryRun, Prepare, runVars, moneyVars
<1>2. CASE Dispatch
  BY <1>2 DEF Dispatch, Skip, Enqueue, Ready, Doomed, runVars, moneyVars
<1>3. CASE WalkEnds
  <2>1. known' = known /\ result' = result /\ clock' = clock /\ outcome' = outcome
    BY <1>3 DEF WalkEnds
  <2>2. pc' \in {"harvest", "recombine"} /\ fresh' = fresh
    BY <1>3 DEF WalkEnds, LeaveWalk
  <2>3. CASE clock # "ample"
    BY <1>3, <2>1, <2>2, <2>3 DEF WalkEnds
  <2>4. CASE Ready = {}
    <3>1. SUFFICES ASSUME known \ Ended # {} PROVE FALSE
      BY <1>3, <2>1, <2>2 DEF WalkEnds
    <3>2. PICK n \in known \ Ended : deps[n] \cap (known \ Ended) = {}
      <4> DEFINE R == known \ Ended
      <4>1. Acyclic(known, deps)
        BY DEF PlanStaysDag
      <4>2. R \in SUBSET known /\ R # {}
        BY <3>1
      <4> HIDE DEF R
      <4>3. \E n \in R : deps[n] \cap R = {}
        BY <4>1, <4>2, AcyclicHasFirst
      <4>4. QED
        BY <4>3 DEF R
    <3>3. n \in Ready
      BY <3>2 DEF Ready, PlanStaysDag
    <3>4. QED
      BY <2>4, <3>3
  <2>5. QED
    BY <1>3, <2>3, <2>4 DEF WalkEnds
<1>4. CASE BatchEnds
  BY <1>4 DEF BatchEnds, BatchDone, Skip, LeaveWalk, runVars, moneyVars
<1>5. ASSUME NEW n \in Node, SettleNode(n) PROVE RestInv'
  BY <1>5 DEF SettleNode, Verdict, Reported, Calls, runVars, moneyVars
<1>6. CASE DispatchReactive
  BY <1>6 DEF DispatchReactive, Enqueue, runVars, moneyVars
<1>7. CASE HarvestEnds
  BY <1>7 DEF HarvestEnds, runVars, moneyVars
<1>8. CASE SettleReactive
  BY <1>8 DEF SettleReactive, SettleInto, Verdict, Reported, Calls, runVars,
    moneyVars
<1>9. ASSUME NEW n \in Node, NEW ds \in SUBSET Node, AcceptSignal(n, ds)
     PROVE  RestInv'
  BY <1>9 DEF AcceptSignal, Enroll, runVars, moneyVars
<1>10. CASE Finish
  BY <1>10 DEF Finish, Recombine, Synthesize, Charge, ChargeUnseen, Calls, Commit, Answer,
    Raise, Queued, Unwind, Fail, runVars, moneyVars
<1>11. ASSUME NEW n \in Node, StartNode(n) PROVE RestInv'
  BY <1>11 DEF StartNode, runVars, moneyVars
<1>12. ASSUME NEW n \in Node, ReturnNode(n) PROVE RestInv'
  BY <1>12 DEF ReturnNode, Charge, ChargeUnseen, Calls, runVars, moneyVars
<1>13. CASE Elapse \/ Stopped \/ UNCHANGED vars
  BY <1>13 DEF Stopped, vars, Elapse, Clocks, runVars, moneyVars
<1>14. QED
  BY <1>1, <1>2, <1>3, <1>4, <1>5, <1>6, <1>7, <1>8, <1>9, <1>10,
    <1>11, <1>12, <1>13
  DEF Next, MainThread, Walk, React, PoolThread

-----------------------------------------------------------------------------
(* The parts hold at once in every reachable state. *)
THEOREM Invariance == Spec => []IInv
<1>1. Init => IInv
  BY ConstantsAssumption DEF Init, IInv, TypeOK, PlanInv, PoolInv, PlanStaysDag,
    FreshInv, StrictInv, StrictInputs, UpstreamFaithful, SpendInv, RestInv,
    NothingLeftBehind, Acyclic, Clocks, NoDag, Idle, Queued, Asking, FailedIds
<1>2. IInv /\ [Next]_vars => IInv'
  BY TypeStep, PlanStep, PoolStep, DagStep, FreshStep, StrictStep, SeenStep,
    SpendStep, RestStep DEF IInv
<1>3. QED
  BY <1>1, <1>2, PTL DEF Spec

(* The variables of the call stay in their types. *)
THEOREM TypeCorrect == Spec => []TypeOK
<1>1. IInv => TypeOK
  BY DEF IInv
<1>2. QED
  BY <1>1, Invariance, PTL

(* Whatever the threads do, no prompt shows a dependency that had not ended *)
(* or whose result changes afterwards.                                      *)
THEOREM PromptsAreFaithful == Spec => []UpstreamFaithful
<1>1. IInv => UpstreamFaithful
  BY DEF IInv
<1>2. QED
  BY <1>1, Invariance, PTL

(* Under fail_fast nothing runs on top of a failure. *)
THEOREM FailFastIsStrict == Spec => []StrictInputs
<1>1. IInv => StrictInputs
  BY DEF IInv, StrictInv
<1>2. QED
  BY <1>1, Invariance, PTL

(* Reactive signals never make the plan cyclic or leave an edge dangling. *)
THEOREM PlanRemainsDag == Spec => []PlanStaysDag
<1>1. IInv => PlanStaysDag
  BY DEF IInv
<1>2. QED
  BY <1>1, Invariance, PTL

(* A call that answers in time has settled its whole plan. *)
THEOREM NoNodeLeftBehind == Spec => []NothingLeftBehind
<1>1. IInv => NothingLeftBehind
  BY DEF IInv, RestInv
<1>2. QED
  BY <1>1, Invariance, PTL

(* What a completed call used and was charged for is on its books; what is *)
(* missing there is of nodes reported as failed, or of a replaced draft.   *)
THEOREM CompletedCallsCommitSpend == Spec => []SpendCommitted
<1>1. IInv => SpendCommitted
  BY DEF IInv, TypeOK, SpendInv, SpendCommitted, Calls, Idle
<1>2. QED
  BY <1>1, Invariance, PTL

(* No thread outlives the part of the handler that waits for it. *)
THEOREM PoolIsDrained == Spec => []PoolDrained
<1>1. IInv => PoolDrained
  BY DEF IInv, PoolInv, PoolDrained, Asking, Queued, Idle
<1>2. QED
  BY <1>1, Invariance, PTL

-----------------------------------------------------------------------------
(* What no step does                                                       *)

Settles ==
  \A n \in Node :
    /\ (result[n] # "none" => result'[n] = result[n] /\ thread'[n] = "idle")
    /\ (n \in known => n \in known' /\ deps'[n] = deps[n])

StartsUnfailed ==
  opts.failFast =>
    \A n \in Node \ applied :
      thread[n] = "idle" /\ thread'[n] = "queued" => FailedIds = {}

(* Each action leaves settled nodes and known edges alone. *)
LEMMA SettlesStep == IInv /\ [Next]_vars => Settles
<1> SUFFICES ASSUME IInv, [Next]_vars PROVE Settles
  OBVIOUS
<1> USE ConstantsAssumption
    DEF IInv, TypeOK, PlanInv, PoolInv, FreshInv, Settles, Idle
<1>1. CASE Plan
  BY <1>1 DEF Plan, Refuse, Answer, AcceptDag, Dags, AcceptGoal, PlanDrafted,
    Drafting, Charge, ChargeUnseen, Calls, DraftUnusable, PlannerFails, RejectDag,
    TripDagBreaker, DryRun, Prepare, runVars, moneyVars
<1>2. CASE Dispatch
  BY <1>2 DEF Dispatch, Skip, Enqueue, Ready, Doomed, runVars, moneyVars
<1>3. CASE WalkEnds
  BY <1>3 DEF WalkEnds, LeaveWalk, Ok, runVars, moneyVars
<1>4. CASE BatchEnds
  BY <1>4 DEF BatchEnds, BatchDone, Skip, LeaveWalk, Ok, Ended, runVars,
    moneyVars
<1>5. ASSUME NEW n \in Node, SettleNode(n) PROVE Settles
  BY <1>5 DEF SettleNode, Verdict, Reported, Calls, runVars, moneyVars
<1>6. CASE DispatchReactive
  BY <1>6 DEF DispatchReactive, Enqueue, runVars, moneyVars
<1>7. CASE HarvestEnds
  BY <1>7 DEF HarvestEnds, runVars, moneyVars
<1>8. CASE SettleReactive
  BY <1>8 DEF SettleReactive, SettleInto, Verdict, Reported, Calls, runVars,
    moneyVars
<1>9. ASSUME NEW n \in Node, NEW ds \in SUBSET Node, AcceptSignal(n, ds)
     PROVE  Settles
  BY <1>9 DEF AcceptSignal, Enroll, runVars, moneyVars
<1>10. CASE Finish
  BY <1>10 DEF Finish, Recombine, Synthesize, Charge, ChargeUnseen, Calls, Commit, Answer,
    Raise, Queued, Unwind, Fail, runVars, moneyVars
<1>11. ASSUME NEW n \in Node, StartNode(n) PROVE Settles
  BY <1>11 DEF StartNode, runVars, moneyVars
<1>12. ASSUME NEW n \in Node, ReturnNode(n) PROVE Settles
  BY <1>12 DEF ReturnNode, Charge, ChargeUnseen, Calls, runVars, moneyVars
<1>13. CASE Elapse \/ Stopped \/ UNCHANGED vars
  BY <1>13 DEF Stopped, vars, Elapse, Clocks, runVars, moneyVars
<1>14. QED
  BY <1>1, <1>2, <1>3, <1>4, <1>5, <1>6, <1>7, <1>8, <1>9, <1>10,
    <1>11, <1>12, <1>13
  DEF Next, MainThread, Walk, React, PoolThread


(* Only Dispatch and DispatchReactive queue a node; the former is preceded by *)
(* an unfailed walk, the latter queues nodes that workers asked for.          *)
LEMMA StartsStep == IInv /\ [Next]_vars => StartsUnfailed
<1> SUFFICES ASSUME IInv, [Next]_vars PROVE StartsUnfailed
  OBVIOUS
<1> USE ConstantsAssumption
    DEF IInv, TypeOK, PlanInv, PoolInv, FreshInv, StrictInv, StartsUnfailed, FailedIds, Idle
<1>1. CASE Plan
  BY <1>1 DEF Plan, Refuse, Answer, AcceptDag, Dags, AcceptGoal, PlanDrafted,
    Drafting, Charge, ChargeUnseen, Calls, DraftUnusable, PlannerFails, RejectDag,
    TripDagBreaker, DryRun, Prepare, runVars, moneyVars
<1>2. CASE Dispatch
  BY <1>2 DEF Dispatch, Skip, Enqueue, Ready, Doomed, runVars, moneyVars
<1>3. CASE WalkEnds
  BY <1>3 DEF WalkEnds, LeaveWalk, Ok, runVars, moneyVars
<1>4. CASE BatchEnds
  BY <1>4 DEF BatchEnds, BatchDone, Skip, LeaveWalk, Ok, Ended, runVars,
    moneyVars
<1>5. ASSUME NEW n \in Node, SettleNode(n) PROVE StartsUnfailed
  BY <1>5 DEF SettleNode, Verdict, Reported, Calls, runVars, moneyVars
<1>6. CASE DispatchReactive
  BY <1>6 DEF DispatchReactive, Enqueue, runVars, moneyVars
<1>7. CASE HarvestEnds
  BY <1>7 DEF HarvestEnds, runVars, moneyVars
<1>8. CASE SettleReactive
  BY <1>8 DEF SettleReactive, SettleInto, Verdict, Reported, Calls, runVars,
    moneyVars
<1>9. ASSUME NEW n \in Node, NEW ds \in SUBSET Node, AcceptSignal(n, ds)
     PROVE  StartsUnfailed
  BY <1>9 DEF AcceptSignal, Enroll, runVars, moneyVars
<1>10. CASE Finish
  BY <1>10 DEF Finish, Recombine, Synthesize, Charge, ChargeUnseen, Calls, Commit, Answer,
    Raise, Queued, Unwind, Fail, runVars, moneyVars
<1>11. ASSUME NEW n \in Node, StartNode(n) PROVE StartsUnfailed
  BY <1>11 DEF StartNode, runVars, moneyVars
<1>12. ASSUME NEW n \in Node, ReturnNode(n) PROVE StartsUnfailed
  BY <1>12 DEF ReturnNode, Charge, ChargeUnseen, Calls, runVars, moneyVars
<1>13. CASE Elapse \/ Stopped \/ UNCHANGED vars
  BY <1>13 DEF Stopped, vars, Elapse, Clocks, runVars, moneyVars
<1>14. QED
  BY <1>1, <1>2, <1>3, <1>4, <1>5, <1>6, <1>7, <1>8, <1>9, <1>10,
    <1>11, <1>12, <1>13
  DEF Next, MainThread, Walk, React, PoolThread


(* A settled node is final: never run again, never overwritten, and the plan *)
(* keeps its edges.                                                          *)
THEOREM ResultsAreFinal == Spec => SettledForGood
<1>1. IInv /\ [Next]_vars => [Settles]_vars
  BY SettlesStep
<1>2. QED
  BY <1>1, Invariance, PTL DEF Spec, SettledForGood, Settles

(* Under fail_fast no further node of the plan starts after a failed batch. *)
THEOREM FailFastStops == Spec => NothingStartsAfterFailure
<1>1. IInv /\ [Next]_vars => [StartsUnfailed]_vars
  BY StartsStep
<1>2. QED
  BY <1>1, Invariance, PTL DEF Spec, NothingStartsAfterFailure, StartsUnfailed

-----------------------------------------------------------------------------
(* The call implements DagRun                                              *)

(* Where a node stands for DagRun: settled, on a thread, or neither. *)
LEMMA StatusCases ==
  ASSUME TypeOK, NEW n \in Node
  PROVE  /\ result[n] # "none" => Status[n] = result[n]
         /\ result[n] = "none" /\ thread[n] \in {"idle", "queued"} =>
              Status[n] = "idle"
         /\ result[n] = "none" /\ thread[n] \notin {"idle", "queued"} =>
              Status[n] = "running"
BY DEF TypeOK, Status

(* An action that leaves the plan, the results and the running threads     *)
(* alone leaves DagRun's variables alone too, or closes the call.          *)
LEMMA StatusUnchanged ==
  ASSUME TypeOK, TypeOK', result' = result,
         \A n \in Node : result[n] = "none" =>
           (thread[n] \in {"idle", "queued"} <=> thread'[n] \in {"idle", "queued"})
  PROVE  Status' = Status
BY DEF TypeOK, Status

(* An action of the main thread on its own variables stutters or closes. *)
LEMMA QuietImplements ==
  ASSUME UNCHANGED runVars, pc # "done"
  PROVE  [Promise!DagNext]_(Promise!dagVars)
<1>1. UNCHANGED <<known, deps, Status>>
  BY DEF runVars, Status
<1>2. CASE pc' = "done"
  BY <1>1, <1>2 DEF Promise!DagNext, Promise!Close
<1>3. CASE pc' # "done"
  BY <1>1, <1>3 DEF Promise!dagVars
<1>4. QED
  BY <1>2, <1>3

(* Each action is a step of DagRun or a stutter. *)
LEMMA StepImplements ==
  IInv /\ IInv' /\ [Next]_vars => [Promise!DagNext]_(Promise!dagVars)
<1> SUFFICES ASSUME IInv, IInv', [Next]_vars
             PROVE  [Promise!DagNext]_(Promise!dagVars)
  OBVIOUS
<1>0. TypeOK /\ TypeOK'
  BY DEF IInv
<1> USE DEF Promise!dagVars
<1>1. CASE Plan
  <2>1. CASE Prepare
    <3>1. Promise!Adopt
      <4>1. Status' = Status
        BY <1>0, <2>1, StatusUnchanged DEF Prepare
      <4>2. pc # "done" /\ pc' # "done" /\ known = {}
        BY <2>1 DEF Prepare, IInv, PlanInv
      <4>3. known' \in (SUBSET Node) \ {{}}
        BY <1>0, <2>1, ConstantsAssumption DEF Prepare, ValidDag, TypeOK
      <4>4. deps' \in [Node -> SUBSET known']
        <5>1. \A n \in Node : deps'[n] \subseteq known'
          BY <2>1 DEF Prepare, ValidDag, IInv, PlanInv
        <5>2. deps' \in [Node -> SUBSET Node]
          BY <1>0 DEF TypeOK
        <5>3. QED
          BY <5>1, <5>2
      <4>5. \A n \in Node \ known' : deps'[n] = {}
        BY <2>1 DEF Prepare, IInv, PlanInv
      <4>6. Promise!IsAcyclic(known', deps')
        BY <2>1 DEF Prepare, ValidDag, Acyclic, Promise!IsAcyclic
      <4>7. QED
        BY <4>1, <4>2, <4>3, <4>4, <4>5, <4>6 DEF Promise!Adopt
    <3>2. QED
      BY <3>1 DEF Promise!DagNext
  <2>2. CASE Plan /\ ~Prepare
    <3>1. UNCHANGED runVars /\ pc # "done"
      BY <2>2 DEF Plan, Refuse, Answer, AcceptDag, AcceptGoal, PlanDrafted,
        Drafting, DraftUnusable, PlannerFails, RejectDag, TripDagBreaker, DryRun
    <3>2. QED
      BY <1>0, <3>1, QuietImplements
  <2>3. QED
    BY <1>1, <2>1, <2>2
<1>2. CASE Dispatch
  <2>1. Doomed = {}
    BY <1>2 DEF Dispatch, Doomed, IInv, StrictInv
  <2>2. result' = result
    BY <1>0, <1>2, <2>1 DEF Dispatch, Skip, TypeOK
  <2>3. Status' = Status
    BY <1>0, <1>2, <2>2, StatusUnchanged DEF Dispatch, Enqueue, Ready, IInv,
      PoolInv, Idle, TypeOK
  <2>4. QED
    BY <1>2, <2>3 DEF Dispatch
<1>3. CASE WalkEnds
  BY <1>0, <1>3, StatusUnchanged DEF WalkEnds, LeaveWalk
<1>4. CASE BatchEnds
  <2>1. CASE opts.failFast /\ FailedIds # {}
    <3>1. pc # "done" /\ pc' # "done" /\ UNCHANGED <<known, deps>>
      BY <1>4, <2>1 DEF BatchEnds, BatchDone, LeaveWalk
    <3>2. thread = Idle /\ thread' = Idle
      BY <1>4 DEF BatchEnds, BatchDone
    <3>3. \E n \in known : Status[n] = "failed"
      BY <1>0, <1>4, <2>1, StatusCases
      DEF BatchEnds, BatchDone, FailedIds, IInv, StrictInv, PlanInv
    <3>4. \A n \in known : Status[n] # "running"
      BY <1>0, <3>2, StatusCases DEF Idle, TypeOK
    <3>5. Status' = [n \in Node |-> IF n \in known /\ Status[n] = "idle"
                                    THEN "skipped" ELSE Status[n]]
      BY <1>0, <1>4, <2>1, <3>2
      DEF BatchEnds, BatchDone, Skip, Status, Idle, Ended, TypeOK
    <3>6. Promise!SkipRest
      BY <3>1, <3>3, <3>4, <3>5 DEF Promise!SkipRest
    <3>7. QED
      BY <3>6 DEF Promise!DagNext
  <2>2. CASE ~(opts.failFast /\ FailedIds # {})
    BY <1>0, <1>4, <2>2, StatusUnchanged DEF BatchEnds, BatchDone
  <2>3. QED
    BY <2>1, <2>2
<1>5. ASSUME NEW n \in Node, SettleNode(n)
      PROVE  [Promise!DagNext]_(Promise!dagVars)
  <2>1. Promise!Settle({n})
    <3>1. Status[n] = "running"
      BY <1>0, <1>5, StatusCases
      DEF SettleNode, Reported, IInv, PoolInv, TypeOK
    <3>2. DEFINE r == [m \in {n} |-> Verdict(n)]
    <3>3. r \in [{n} -> {"ok", "failed"}]
      BY DEF Verdict
    <3>4. Status' = [m \in Node |-> IF m \in {n} THEN r[m] ELSE Status[m]]
      BY <1>0, <1>5 DEF SettleNode, Status, Verdict, TypeOK
    <3>5. QED
      BY <1>5, <3>1, <3>3, <3>4 DEF SettleNode, Promise!Settle
  <2>2. QED
    BY <2>1 DEF Promise!DagNext
<1>6. CASE DispatchReactive
  BY <1>0, <1>6, StatusUnchanged
  DEF DispatchReactive, Enqueue, IInv, FreshInv, PoolInv, Idle, TypeOK
<1>7. CASE HarvestEnds
  BY <1>0, <1>7, StatusUnchanged DEF HarvestEnds
<1>8. CASE SettleReactive
  <2>1. CASE fresh = {}
    BY <1>0, <1>8, <2>1, StatusUnchanged
    DEF SettleReactive, SettleInto, IInv, PoolInv, Idle, TypeOK
  <2>2. CASE fresh # {}
    <3>1. \A n \in fresh : Status[n] = "running"
      BY <1>0, <1>8, StatusCases
      DEF SettleReactive, SettleInto, Reported, IInv, FreshInv, TypeOK
    <3>2. DEFINE r == [n \in fresh |-> Verdict(n)]
    <3>3. r \in [fresh -> {"ok", "failed"}]
      BY DEF Verdict
    <3>4. Status' = [n \in Node |-> IF n \in fresh THEN r[n] ELSE Status[n]]
      BY <1>0, <1>8
      DEF SettleReactive, SettleInto, Status, Verdict, Idle, IInv, PoolInv, TypeOK
    <3>5. Promise!Settle(fresh)
      BY <1>8, <2>2, <3>1, <3>3, <3>4
      DEF SettleReactive, SettleInto, Promise!Settle
    <3>6. QED
      BY <1>0, <3>5 DEF Promise!DagNext, TypeOK
  <2>3. QED
    BY <2>1, <2>2
<1>9. ASSUME NEW n \in Node, NEW ds \in SUBSET Node, AcceptSignal(n, ds)
      PROVE  [Promise!DagNext]_(Promise!dagVars)
  <2>1. Status' = Status
    BY <1>0, <1>9, StatusUnchanged DEF AcceptSignal, Enroll
  <2>2. \A d \in ds : Status[d] = "ok"
    BY <1>0, <1>9, StatusCases DEF AcceptSignal, Ok
  <2>3. Promise!Extend(n, ds)
    BY <1>9, <2>1, <2>2 DEF AcceptSignal, Enroll, Promise!Extend
  <2>4. QED
    BY <2>3 DEF Promise!DagNext
<1>10. CASE Finish
  <2>1. CASE Raise
    BY <1>0, <2>1, StatusUnchanged DEF Raise, Queued, TypeOK
  <2>2. CASE Finish /\ ~Raise
    <3>1. UNCHANGED runVars /\ pc # "done"
      BY <2>2
      DEF Finish, Recombine, Synthesize, Commit, Unwind, Fail, runVars, moneyVars
    <3>2. QED
      BY <1>0, <3>1, QuietImplements
  <2>3. QED
    BY <1>10, <2>1, <2>2
<1>11. ASSUME NEW n \in Node, StartNode(n)
       PROVE  [Promise!DagNext]_(Promise!dagVars)
  <2>1. Status[n] = "idle"
    BY <1>0, <1>11, StatusCases DEF StartNode, IInv, PoolInv
  <2>2. \A d \in deps[n] : Status[d] \in {"ok", "failed", "skipped"}
    BY <1>0, <1>11, StatusCases DEF StartNode, IInv, PoolInv, Ended, TypeOK
  <2>3. Status' = [Status EXCEPT ![n] = "running"]
    <3>1. result' = result /\ result[n] = "none"
      BY <1>11 DEF StartNode, IInv, PoolInv
    <3>2. \A m \in Node \ {n} : thread'[m] = thread[m]
      BY <1>0, <1>11 DEF StartNode, TypeOK
    <3>3. thread'[n] \notin {"idle", "queued"}
      BY <1>0, <1>11 DEF StartNode, TypeOK
    <3>4. QED
      BY <3>1, <3>2, <3>3 DEF Status
  <2>4. n \in known
    BY <1>11 DEF StartNode, IInv, PlanInv
  <2>5. Promise!Launch(n)
    BY <1>11, <2>1, <2>2, <2>3, <2>4
    DEF StartNode, Promise!Launch, Promise!HasEnded, Promise!Final
  <2>6. QED
    BY <2>5 DEF Promise!DagNext
<1>12. ASSUME NEW n \in Node, ReturnNode(n)
       PROVE  [Promise!DagNext]_(Promise!dagVars)
  BY <1>0, <1>12, StatusUnchanged DEF ReturnNode, TypeOK
<1>13. CASE Elapse \/ Stopped \/ UNCHANGED vars
  <2>1. UNCHANGED <<runVars, pc>>
    BY <1>13 DEF Elapse, Stopped, vars, runVars
  <2>2. QED
    BY <2>1 DEF runVars, Status
<1>14. QED
  BY <1>1, <1>2, <1>3, <1>4, <1>5, <1>6, <1>7, <1>8, <1>9, <1>10,
    <1>11, <1>12, <1>13
  DEF Next, MainThread, Walk, React, PoolThread

(* One orchestrate call does to its nodes what DagRun promises, however the  *)
(* pool's threads, the deadline and the workers' signals interleave.         *)
THEOREM Implements == Spec => ImplementsDagRun
<1>1. Init => Promise!DagInit
  BY DEF Init, Promise!DagInit, Status, Idle
<1>2. IInv /\ IInv' /\ [Next]_vars => [Promise!DagNext]_(Promise!dagVars)
  BY StepImplements
<1>3. QED
  BY <1>1, <1>2, Invariance, PTL DEF Spec, ImplementsDagRun, Promise!DagSpec
=============================================================================
