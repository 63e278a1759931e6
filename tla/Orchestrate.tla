---------------------------- MODULE Orchestrate ----------------------------
(***************************************************************************)
(* One `orchestrate` call: tool_orchestrate in                             *)
(* src/servers/python/crosscheck_server.py, with the helpers it plans and  *)
(* validates with. The main thread plans, validates, walks the DAG in      *)
(* batches, harvests the nodes that finished workers ask for, recombines   *)
(* and commits the session; the nodes of a batch run on pool threads that  *)
(* interleave with it and with each other.                                 *)
(*                                                                         *)
(* Abstracted: prompts, outputs, prices and providers. A provider call is  *)
(* its name (the node it is for, or "draft", "redraft", "synth"), in       *)
(* `paid` once the provider has charged for it, and in `lost` when its     *)
(* usage is dropped below this tool: _ask_one returns an error with an     *)
(* empty usage in place of a response that it could not store or read to   *)
(* the end, and _request_structured replaces a draft. ThreadPoolExecutor   *)
(* starts queued nodes, and ex.map yields results, in list order; here any *)
(* order is allowed.                                                       *)
(***************************************************************************)
EXTENDS Naturals, FiniteSets

CONSTANTS
  Node,          (* every id a node can have *)
  PlanId,        (* the ids a plan can use; the others can only be added later *)
  MaxDagNodes,   (* circuit_breakers.max_dag_nodes, 0 disables it *)
  MaxDagDepth,   (* circuit_breakers.max_dag_depth, 0 disables it *)
  MaxParallel,   (* max_parallel *)
  MaxReactive    (* max_reactive_signals *)

ASSUME ConstantsAssumption ==
  /\ PlanId \subseteq Node
  /\ Node \cap {"draft", "redraft", "synth"} = {}
  /\ MaxDagNodes \in Nat
  /\ MaxDagDepth \in Nat
  /\ MaxParallel \in Nat
  /\ MaxReactive \in Nat

VARIABLES
  pc,            (* where the main thread is *)
  outcome,       (* what the call answered *)
  opts,          (* the flags of the call *)
  clock,         (* how much of the time budget is left *)
  dag,           (* the plan as given or drafted *)
  known,         (* DOMAIN of nodes_by_id *)
  deps,          (* the depends_on of each of them *)
  thread,        (* what the pool is doing with each node *)
  result,        (* node_results *)
  seen,          (* history: the upstream results a node was prompted with *)
  fresh,         (* next_to_dispatch, or the reactive batch in flight *)
  sources,       (* the outputs whose signals are being consumed *)
  applied,       (* reactive_applied *)
  paid,          (* provider calls that were charged for *)
  lost,          (* history: those whose usage no answer carries *)
  answers,       (* answers_collected *)
  ledger         (* the answers added to the session row and usage_log *)

vars == <<pc, outcome, opts, clock, dag, known, deps, thread, result, seen,
          fresh, sources, applied, paid, lost, answers, ledger>>

runVars == <<known, deps, thread, result, seen, fresh, sources, applied>>
moneyVars == <<paid, lost, answers, ledger>>

Calls == Node \cup {"draft", "redraft", "synth"}

(* _time_left > 1, in (0, 1], and 0 *)
Clocks == {"ample", "low", "out"}

Ended == {n \in Node : result[n] # "none"}
Ok == {n \in Node : result[n] = "ok"}

(* failed_ids: the failed nodes and the ones skipped because of them *)
FailedIds == {n \in Node : result[n] \in {"failed", "skipped"}}

Idle == [n \in Node |-> "idle"]

-----------------------------------------------------------------------------
(* _validate_dag and _check_dag_breakers                                   *)

(* graphlib finds a cycle iff some set of nodes has no first element. *)
Acyclic(ids, d) ==
  \A S \in SUBSET ids : S # {} => \E n \in S : d[n] \cap S = {}

(* Mutant: edges into the plan are checked, cycles are not. *)
ValidDagCyclesPass(g) ==
  g.ids # {} /\ \A n \in g.ids : g.deps[n] \subseteq g.ids

ValidDag(g) ==
  /\ g.ids # {}
  /\ \A n \in g.ids : g.deps[n] \subseteq g.ids
  /\ Acyclic(g.ids, g.deps)

(* Some path of the DAG has more than k nodes. *)
DeeperThan(g, k) ==
  \E path \in [1..(k + 1) -> g.ids] :
    \A i \in 1..k : path[i] \in g.deps[path[i + 1]]

DagBreakerTrips(g) ==
  \/ MaxDagNodes > 0 /\ Cardinality(g.ids) > MaxDagNodes
  \/ MaxDagDepth > 0 /\ DeeperThan(g, MaxDagDepth)

(* The graphs a caller or a planner can hand over, well-formed or not. *)
Dags ==
  {g \in [ids : SUBSET PlanId, deps : [Node -> SUBSET PlanId]] :
     \A n \in Node \ g.ids : g.deps[n] = {}}

NoDag == [ids |-> {}, deps |-> [n \in Node |-> {}]]

-----------------------------------------------------------------------------

Init ==
  /\ pc = "entry"
  /\ outcome = "none"
  /\ opts \in [failFast : BOOLEAN, reactive : BOOLEAN, planOnly : BOOLEAN]
  /\ clock = "ample"
  /\ dag = NoDag
  /\ known = {}
  /\ deps = [n \in Node |-> {}]
  /\ thread = Idle
  /\ result = [n \in Node |-> "none"]
  /\ seen = [n \in Node |-> <<>>]
  /\ fresh = {}
  /\ sources = {}
  /\ applied = {}
  /\ paid = {}
  /\ lost = {}
  /\ answers = {}
  /\ ledger = {}

(* Every return path of the handler, and the exception that leaves it. *)
Answer(o) ==
  /\ pc' = "done"
  /\ outcome' = o

(* The time budget runs down whatever the threads do. *)
Elapse ==
  /\ pc # "done"
  /\ \/ clock = "ample" /\ clock' = "low"
     \/ clock = "low" /\ clock' = "out"
  /\ UNCHANGED <<pc, outcome, opts, dag, runVars, moneyVars>>

(* Bad arguments, no provider, or a session breaker tripped by the row. *)
Refuse ==
  /\ pc = "entry"
  /\ \E o \in {"bad_args", "no_providers", "breaker"} : Answer(o)
  /\ UNCHANGED <<opts, clock, dag, runVars, moneyVars>>

AcceptDag ==
  /\ pc = "entry"
  /\ dag' \in Dags
  /\ pc' = "planned"
  /\ UNCHANGED <<outcome, opts, clock, runVars, moneyVars>>

AcceptGoal ==
  /\ pc = "entry"
  /\ pc' = "draft"
  /\ UNCHANGED <<outcome, opts, clock, dag, runVars, moneyVars>>

-----------------------------------------------------------------------------
(* _plan_dag_from_goal: the moderator drafts a plan, one retry when the    *)
(* draft does not fit the schema. Only the last attempt is kept as the     *)
(* planner's answer.                                                       *)

Charge(c) == paid' \in {paid, paid \cup {c}}

(* Charged for or not, the answer that is kept says nothing of it. *)
ChargeUnseen(c) ==
  \/ UNCHANGED <<paid, lost>>
  \/ paid' = paid \cup {c} /\ lost' = lost \cup {c}

Drafting == pc \in {"draft", "redraft"}

(* A cache hit or a paid response with a plan in it. *)
PlanDrafted ==
  /\ Drafting
  /\ clock # "out"
  /\ dag' \in Dags
  /\ Charge(pc)
  /\ answers' = answers \cup {pc}
  /\ pc' = "planned"
  /\ UNCHANGED <<outcome, opts, clock, runVars, lost, ledger>>

DraftUnusable ==
  /\ pc = "draft"
  /\ clock # "out"
  /\ ChargeUnseen("draft")
  /\ pc' = "redraft"
  /\ UNCHANGED <<outcome, opts, clock, dag, runVars, answers, ledger>>

(* The provider failed, the budget ran out, or the retry was unusable too, *)
(* the one failure whose answer is a response.                             *)
PlannerFails ==
  /\ Drafting
  /\ \/ clock = "out" /\ UNCHANGED <<paid, lost>>
     \/ clock # "out" /\ ChargeUnseen(pc)
     \/ clock # "out" /\ pc = "redraft" /\ Charge(pc) /\ UNCHANGED lost
  /\ answers' = answers \cup {pc}
  /\ Answer("planner_failed")
  /\ UNCHANGED <<opts, clock, dag, runVars, ledger>>

-----------------------------------------------------------------------------
(* Validation, breakers, dry run                                           *)

(* Bad nodes (no task, an unknown difficulty, a duplicate id) or edges. *)
RejectDag ==
  /\ pc = "planned"
  /\ Answer("dag_invalid")
  /\ UNCHANGED <<opts, clock, dag, runVars, moneyVars>>

TripDagBreaker ==
  /\ pc = "planned"
  /\ ValidDag(dag)
  /\ DagBreakerTrips(dag)
  /\ Answer("breaker")
  /\ UNCHANGED <<opts, clock, dag, runVars, moneyVars>>

DryRun ==
  /\ pc = "planned"
  /\ ValidDag(dag)
  /\ ~DagBreakerTrips(dag)
  /\ opts.planOnly
  /\ Answer("plan_only")
  /\ UNCHANGED <<opts, clock, dag, runVars, moneyVars>>

Prepare ==
  /\ pc = "planned"
  /\ ValidDag(dag)
  /\ ~DagBreakerTrips(dag)
  /\ ~opts.planOnly
  /\ known' = dag.ids
  /\ deps' = dag.deps
  /\ pc' = "walk"
  /\ UNCHANGED <<outcome, opts, clock, dag, thread, result, seen, fresh,
                 sources, applied, moneyVars>>

-----------------------------------------------------------------------------
(* The walk: batches of ready nodes                                        *)

(* Mutant: the sorter forgets the edges. *)
ReadyIgnoringDeps == {n \in known : result[n] = "none"}

Ready == {n \in known : result[n] = "none" /\ deps[n] \subseteq Ended}

Doomed == {n \in Ready : opts.failFast /\ deps[n] \cap FailedIds # {}}

Skip(S) == result' = [n \in Node |-> IF n \in S THEN "skipped" ELSE result[n]]

Enqueue(S) == thread' = [n \in Node |-> IF n \in S THEN "queued" ELSE thread[n]]

Dispatch ==
  /\ pc = "walk"
  /\ clock = "ample"
  /\ Ready # {}
  /\ Skip(Doomed)
  /\ Enqueue(Ready \ Doomed)
  /\ pc' = IF Ready = Doomed THEN "walk" ELSE "batch"
  /\ UNCHANGED <<outcome, opts, clock, dag, known, deps, seen, fresh, sources,
                 applied, moneyVars>>

(* Where the walk leads, and the outputs whose signals come first. *)
LeaveWalk ==
  IF opts.reactive
  THEN pc' = "harvest" /\ sources' = Ok
  ELSE pc' = "recombine" /\ UNCHANGED sources

WalkEnds ==
  /\ pc = "walk"
  /\ Ready = {} \/ clock # "ample"
  /\ LeaveWalk
  /\ UNCHANGED <<outcome, opts, clock, dag, known, deps, thread, result, seen,
                 fresh, applied, moneyVars>>

(* The thread's result reaches node_results; only a node that was given a *)
(* provider has an answer.                                                *)
Reported(n) == thread[n] \in {"ok", "failed", "mute"}
Verdict(n) == IF thread[n] = "ok" THEN "ok" ELSE "failed"

SettleNode(n) ==
  /\ pc = "batch"
  /\ Reported(n)
  /\ result' = [result EXCEPT ![n] = Verdict(n)]
  /\ answers' = IF thread[n] = "mute" THEN answers ELSE answers \cup {n}
  /\ thread' = [thread EXCEPT ![n] = "idle"]
  /\ UNCHANGED <<pc, outcome, opts, clock, dag, known, deps, seen, fresh,
                 sources, applied, paid, lost, ledger>>

BatchDone(S) ==
  /\ pc = "batch"
  /\ thread = Idle
  /\ IF opts.failFast /\ FailedIds # {}
     THEN Skip(S) /\ LeaveWalk
     ELSE pc' = "walk" /\ UNCHANGED <<result, sources>>
  /\ UNCHANGED <<outcome, opts, clock, dag, known, deps, thread, seen, fresh,
                 applied, moneyVars>>

(* Mutant: fail_fast skips the dependents of the failed nodes only. *)
BatchEndsSkippingDependents ==
  BatchDone({n \in known \ Ended : deps[n] \cap FailedIds # {}})

(* Mutant: the walk goes on after a failure, fail_fast or not. *)
BatchEndsWalkingOn ==
  /\ pc = "batch"
  /\ thread = Idle
  /\ pc' = "walk"
  /\ UNCHANGED <<outcome, opts, clock, dag, runVars, moneyVars>>

BatchEnds == BatchDone(known \ Ended)

-----------------------------------------------------------------------------
(* _run_node on a pool thread                                              *)

Asking == {n \in Node : thread[n] = "asking"}
Queued == {n \in Node : thread[n] = "queued"}

PoolSize == IF MaxParallel = 0 THEN 1 ELSE MaxParallel

(* Routing, the upstream results for the prompt, the node cache and the    *)
(* deadline check of _ask_one: no provider, a cache hit, an exception, or  *)
(* the provider is asked if there is time.                                 *)
StartNode(n) ==
  /\ pc \in {"batch", "reactive"}
  /\ thread[n] = "queued"
  /\ Cardinality(Asking) < PoolSize
  /\ seen' = [seen EXCEPT ![n] = [d \in deps[n] |-> result[d]]]
  /\ \E t \in {"mute", "ok", "raised",
               IF clock = "out" THEN "failed" ELSE "asking"} :
       thread' = [thread EXCEPT ![n] = t]
  /\ UNCHANGED <<pc, outcome, opts, clock, dag, known, deps, result, fresh,
                 sources, applied, moneyVars>>

(* The call ends: a response, charged for or from the message cache; an    *)
(* error, of a request that may have been charged for; an exception, of    *)
(* _cache_get before the call or of _node_cache_put after it.              *)
ReturnNode(n) ==
  /\ thread[n] = "asking"
  /\ \/ thread' = [thread EXCEPT ![n] = "ok"] /\ Charge(n) /\ UNCHANGED lost
     \/ thread' = [thread EXCEPT ![n] = "failed"] /\ ChargeUnseen(n)
     \/ thread' = [thread EXCEPT ![n] = "raised"] /\ ChargeUnseen(n)
  /\ UNCHANGED <<pc, outcome, opts, clock, dag, known, deps, result, seen,
                 fresh, sources, applied, answers, ledger>>

(* ex.map re-raises in the main thread: the queued nodes are cancelled and *)
(* leaving the pool's `with` waits for the ones already asking.            *)
Raise ==
  /\ pc \in {"batch", "reactive"}
  /\ \E n \in Node : thread[n] = "raised"
  /\ thread' = [n \in Node |-> IF n \in Queued THEN "idle" ELSE thread[n]]
  /\ pc' = "unwind"
  /\ UNCHANGED <<outcome, opts, clock, dag, known, deps, result, seen, fresh,
                 sources, applied, moneyVars>>

(* Mutant: the exception leaves the handler without waiting for the pool. *)
UnwindAtOnce ==
  /\ pc = "unwind"
  /\ Answer("raised")
  /\ UNCHANGED <<opts, clock, dag, runVars, moneyVars>>

Unwind ==
  /\ pc = "unwind"
  /\ Asking = {}
  /\ Answer("raised")
  /\ UNCHANGED <<opts, clock, dag, runVars, moneyVars>>

-----------------------------------------------------------------------------
(* Reactive signals                                                        *)

Enroll(n, ds) ==
  /\ pc = "harvest"
  /\ sources # {}
  /\ Cardinality(applied) < MaxReactive
  /\ deps' = [deps EXCEPT ![n] = ds]
  /\ applied' = applied \cup {n}
  /\ fresh' = fresh \cup {n}
  /\ UNCHANGED <<pc, outcome, opts, clock, dag, thread, result, seen, sources,
                 moneyVars>>

(* Mutant: an id that is already in the plan is taken again. *)
AcceptSignalTwice(n, ds) ==
  ds \subseteq Ok /\ known' = known \cup {n} /\ Enroll(n, ds)

(* Mutant: a dependency need only have ended, not succeeded. *)
AcceptSignalOnEnded(n, ds) ==
  /\ n \notin known
  /\ ds \subseteq Ended
  /\ known' = known \cup {n}
  /\ Enroll(n, ds)

(* _consume_signals takes a signal: a new id, room under the cap, and      *)
(* dependencies that have all succeeded. Another well-formed signal is     *)
(* only reported; for the ill-formed ones see Fail.                        *)
AcceptSignal(n, ds) ==
  /\ n \notin known
  /\ ds \subseteq Ok
  /\ known' = known \cup {n}
  /\ Enroll(n, ds)

DispatchReactive ==
  /\ pc = "harvest"
  /\ fresh # {}
  /\ clock = "ample"
  /\ Enqueue(fresh)
  /\ sources' = {}
  /\ pc' = "reactive"
  /\ UNCHANGED <<outcome, opts, clock, dag, known, deps, result, seen, fresh,
                 applied, moneyVars>>

HarvestEnds ==
  /\ pc = "harvest"
  /\ fresh = {} \/ clock # "ample"
  /\ fresh' = {}
  /\ sources' = {}
  /\ pc' = "recombine"
  /\ UNCHANGED <<outcome, opts, clock, dag, known, deps, thread, result, seen,
                 applied, moneyVars>>

SettleInto(newAnswers, next) ==
  /\ pc = "reactive"
  /\ \A n \in fresh : Reported(n)
  /\ result' = [n \in Node |-> IF n \in fresh THEN Verdict(n) ELSE result[n]]
  /\ answers' = answers \cup newAnswers
  /\ sources' = {n \in fresh : thread[n] = "ok"}
  /\ thread' = Idle
  /\ fresh' = next
  /\ pc' = "harvest"
  /\ UNCHANGED <<outcome, opts, clock, dag, known, deps, seen, applied, paid,
                 lost, ledger>>

(* Mutant: the batch's answers are not collected. *)
SettleReactiveUncollected == SettleInto({}, {})

(* Mutant: next_to_dispatch keeps the batch that has just run. *)
SettleReactiveKeepingBatch ==
  SettleInto({n \in fresh : thread[n] # "mute"}, fresh)

(* list(ex.map(...)): the results are looked at once all of them are in. *)
SettleReactive == SettleInto({n \in fresh : thread[n] # "mute"}, {})

-----------------------------------------------------------------------------
(* Recombination and the session                                           *)

Recombine ==
  /\ pc = "recombine"
  /\ pc' = IF clock = "ample" THEN "synth" ELSE "commit"
  /\ UNCHANGED <<outcome, opts, clock, dag, runVars, moneyVars>>

(* The recombined text, or an error in its place. *)
Synthesize ==
  /\ pc = "synth"
  /\ \/ Charge("synth") /\ UNCHANGED lost
     \/ ChargeUnseen("synth")
  /\ answers' = answers \cup {"synth"}
  /\ pc' = "commit"
  /\ UNCHANGED <<outcome, opts, clock, dag, runVars, ledger>>

(* _session_record, _session_save and log_usage *)
Commit ==
  /\ pc = "commit"
  /\ ledger' = answers
  /\ Answer("complete")
  /\ UNCHANGED <<opts, clock, dag, runVars, paid, lost, answers>>

(* An exception of _ask_one on the main thread, of a signal whose          *)
(* add_nodes or depends_on is no list, or of _session_save.                *)
Fail ==
  /\ \/ pc \in {"draft", "redraft", "synth", "commit"}
     \/ pc = "harvest" /\ sources # {}
  /\ Answer("raised")
  /\ UNCHANGED <<opts, clock, dag, runVars, moneyVars>>

Stopped == pc = "done" /\ UNCHANGED vars

-----------------------------------------------------------------------------

Plan == Refuse \/ AcceptDag \/ AcceptGoal \/ PlanDrafted \/ DraftUnusable
        \/ PlannerFails \/ RejectDag \/ TripDagBreaker \/ DryRun \/ Prepare

Walk == Dispatch \/ WalkEnds \/ BatchEnds \/ \E n \in Node : SettleNode(n)

React == DispatchReactive \/ HarvestEnds \/ SettleReactive
         \/ \E n \in Node, ds \in SUBSET Node : AcceptSignal(n, ds)

Finish == Recombine \/ Synthesize \/ Commit \/ Raise \/ Unwind \/ Fail

MainThread == Plan \/ Walk \/ React \/ Finish

PoolThread(n) == StartNode(n) \/ ReturnNode(n)

Next == MainThread \/ (\E n \in Node : PoolThread(n)) \/ Elapse \/ Stopped

(* The main thread never waits but for its pool, and a pool thread comes   *)
(* back: the retries stop at a deadline, every socket operation has a      *)
(* timeout, and an exchange is assumed to take finitely many.              *)
Fairness == WF_vars(MainThread) /\ \A n \in Node : WF_vars(PoolThread(n))

Spec == Init /\ [][Next]_vars /\ Fairness

-----------------------------------------------------------------------------
(* Properties                                                              *)

(* The variables have their types. *)
TypeOK ==
  /\ pc \in {"entry", "draft", "redraft", "planned", "walk", "batch",
             "harvest", "reactive", "unwind", "recombine", "synth", "commit",
             "done"}
  /\ outcome \in {"none", "bad_args", "no_providers", "breaker",
                  "planner_failed", "dag_invalid", "plan_only", "raised",
                  "complete"}
  /\ opts \in [failFast : BOOLEAN, reactive : BOOLEAN, planOnly : BOOLEAN]
  /\ clock \in Clocks
  /\ dag \in [ids : SUBSET PlanId, deps : [Node -> SUBSET PlanId]]
  /\ known \subseteq Node
  /\ deps \in [Node -> SUBSET Node]
  /\ thread \in [Node -> {"idle", "queued", "asking", "ok", "failed", "mute",
                          "raised"}]
  /\ result \in [Node -> {"none", "ok", "failed", "skipped"}]
  /\ seen = [n \in Node |-> seen[n]]
  /\ \A n \in Node : DOMAIN seen[n] \subseteq Node
  /\ fresh \subseteq known
  /\ sources \subseteq Node
  /\ applied \subseteq known
  /\ paid \subseteq Calls
  /\ lost \subseteq paid
  /\ answers \subseteq Calls
  /\ ledger \subseteq Calls

(* What a node's worker was told of its upstream is what the recombination *)
(* and the caller are told: a prompt never shows a dependency that had not *)
(* ended, nor a result that changes afterwards.                            *)
UpstreamFaithful ==
  \A n \in Node : \A d \in DOMAIN seen[n] :
    result[d] # "none" /\ seen[n][d] = result[d]

(* README "Pass `fail_fast: true` for strict workflows": under fail_fast,  *)
(* no node runs, planned or asked for by a worker, with a dependency that  *)
(* did not succeed.                                                        *)
StrictInputs ==
  \A n \in Node :
    opts.failFast /\ (thread[n] # "idle" \/ result[n] \in {"ok", "failed"})
      => deps[n] \subseteq Ok

(* The nodes that workers add leave the plan a DAG over its own nodes:     *)
(* README "Cycle attempts fail closed".                                    *)
PlanStaysDag ==
  /\ \A n \in known : deps[n] \subseteq known
  /\ Acyclic(known, deps)

(* A call that answers with time to spare has settled every node of the    *)
(* plan, the reactive ones included: "not_run" is only for the deadline.   *)
NothingLeftBehind ==
  outcome = "complete" /\ clock = "ample" => known \subseteq Ended

(* When the call completes, whatever it used and was charged for is in the *)
(* session row and usage_log with its usage, whichever threads and batches *)
(* it came from. Charges missing there are those of nodes that the caller  *)
(* is told failed, of a plan that was drafted again and of the             *)
(* recombination.                                                          *)
SpendCommitted ==
  outcome = "complete" =>
    /\ paid \ lost \subseteq ledger
    /\ \A n \in lost \cap Node : result[n] = "failed"
    /\ "draft" \in lost => "redraft" \in ledger
    /\ "redraft" \notin lost

(* The main thread does nothing else, and never answers, while a pool      *)
(* thread still has a provider call in flight or a node to start.          *)
PoolDrained ==
  pc \notin {"batch", "reactive", "unwind"} => Asking \cup Queued = {}

(* A settled node is never run again and its result never overwritten, and *)
(* the edges of a node of the plan never change.                           *)
SettledForGood ==
  [][\A n \in Node :
       /\ (result[n] # "none" => result'[n] = result[n] /\ thread'[n] = "idle")
       /\ (n \in known => n \in known' /\ deps'[n] = deps[n])]_vars

(* fail_fast: once a batch has ended with a failure no further node of the *)
(* plan is handed to the pool.                                             *)
NothingStartsAfterFailure ==
  [][opts.failFast =>
       \A n \in Node \ applied :
         thread[n] = "idle" /\ thread'[n] = "queued" => FailedIds = {}]_vars

(* Every call answers, whatever its threads, its workers' signals and the  *)
(* time budget do.                                                         *)
Terminates == <>(pc = "done")

(* The call does to its nodes what DagRun promises. *)
Status ==
  [n \in Node |->
     IF result[n] # "none" THEN result[n]
     ELSE IF thread[n] \in {"idle", "queued"} THEN "idle" ELSE "running"]

Promise == INSTANCE DagRun WITH status <- Status, closed <- (pc = "done")

ImplementsDagRun == Promise!DagSpec

-----------------------------------------------------------------------------
(* Promises of the documentation that the code does not keep               *)

(* README "`usage_log` table holds one row per provider call": a call that *)
(* completes has logged everything it was charged for. It has no row of a  *)
(* draft that _request_structured asked for again.                         *)
EveryChargeLogged == outcome = "complete" => paid \subseteq ledger

(* README, reactive orchestration: "New nodes are validated (... must      *)
(* respect the DAG-depth and DAG-breadth breakers ...)".                   *)
GrownDagWithinBreakers ==
  MaxDagNodes > 0 => Cardinality(known) <= MaxDagNodes
=============================================================================
