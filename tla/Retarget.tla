------------------------------ MODULE Retarget ------------------------------
(***************************************************************************)
(* _retarget_provider of src/servers/python/crosscheck_server.py: a pool   *)
(* thread that wants a provider under another model puts the model into    *)
(* the process-wide ENV, runs the provider's factory, which reads it back, *)
(* and restores ENV. The nodes of one orchestrate batch do so at once. One *)
(* provider, one variable of ENV; no lock in the code.                     *)
(***************************************************************************)
EXTENDS Naturals

CONSTANTS
  Thread,        (* the pool threads of a batch *)
  Model,         (* the models of the provider *)
  Default,       (* the model of a factory when the variable is not set *)
  Unset,         (* the variable is not set *)
  MaxCalls       (* bound: calls of one thread *)

RetargetAssumption ==
  /\ Default \in Model
  /\ Unset \notin Model
  /\ MaxCalls \in Nat

VARIABLES
  env,           (* the variable of ENV *)
  start,         (* history: its value at the start *)
  pc,
  want,          (* the model a thread asked for *)
  original,      (* original_model *)
  built,         (* the model of the provider it was given *)
  calls,         (* bound: calls made *)
  overlap        (* history: the thread's call overlapped another's *)

locals == <<pc, want, original, built, calls>>
vars == <<env, start, locals, overlap>>

-----------------------------------------------------------------------------

Init ==
  /\ env \in {Unset, Default}
  /\ start = env
  /\ pc = [t \in Thread |-> "idle"]
  /\ want = [t \in Thread |-> Default]
  /\ original = [t \in Thread |-> Unset]
  /\ built = [t \in Thread |-> Default]
  /\ calls = [t \in Thread |-> 0]
  /\ overlap = FALSE

Read(t) ==
  /\ pc[t] = "idle"
  /\ calls[t] < MaxCalls
  /\ \E m \in Model : want' = [want EXCEPT ![t] = m]
  /\ original' = [original EXCEPT ![t] = env]
  /\ pc' = [pc EXCEPT ![t] = "set"]
  /\ calls' = [calls EXCEPT ![t] = @ + 1]
  /\ overlap' = (overlap \/ \E u \in Thread \ {t} : pc[u] # "idle")
  /\ UNCHANGED <<env, start, built>>

Set(t) ==
  /\ pc[t] = "set"
  /\ env' = want[t]
  /\ pc' = [pc EXCEPT ![t] = "build"]
  /\ UNCHANGED <<start, want, original, built, calls, overlap>>

(* The factory takes the model from ENV. If the variable is not set, that  *)
(* of anthropic or gemini takes its default; the others are passed the     *)
(* model as their default.                                                 *)
Build(t) ==
  /\ pc[t] = "build"
  /\ \E m \in IF env = Unset THEN {Default, want[t]} ELSE {env} :
       built' = [built EXCEPT ![t] = m]
  /\ pc' = [pc EXCEPT ![t] = "restore"]
  /\ UNCHANGED <<env, start, want, original, calls, overlap>>

(* Mutant: a variable that was not set stays.                              *)
RestoreSet(t) ==
  /\ pc[t] = "restore"
  /\ env' = IF original[t] = Unset THEN env ELSE original[t]
  /\ pc' = [pc EXCEPT ![t] = "idle"]
  /\ UNCHANGED <<start, want, original, built, calls, overlap>>

Restore(t) ==
  /\ pc[t] = "restore"
  /\ env' = original[t]
  /\ pc' = [pc EXCEPT ![t] = "idle"]
  /\ UNCHANGED <<start, want, original, built, calls, overlap>>

Next == \E t \in Thread : Read(t) \/ Set(t) \/ Build(t) \/ Restore(t)

Spec == Init /\ [][Next]_vars

-----------------------------------------------------------------------------

(* The values the variables range over; ENV holds a model or nothing.      *)
TypeOK ==
  /\ env \in Model \union {Unset} /\ start \in {Unset, Default}
  /\ pc \in [Thread -> {"idle", "set", "build", "restore"}]
  /\ want \in [Thread -> Model]
  /\ original \in [Thread -> Model \union {Unset}]
  /\ built \in [Thread -> Model]
  /\ calls \in [Thread -> 0 .. MaxCalls]
  /\ overlap \in BOOLEAN

AtRest == \A t \in Thread : pc[t] = "idle"

(* As long as no two calls overlapped, every call was given the model it   *)
(* asked for and leaves ENV as it was before the first one.                *)
ExactUnlessOverlapped ==
  ~overlap =>
    /\ \A t \in Thread : pc[t] = "restore" => built[t] = want[t]
    /\ AtRest => env = start

(* "Return a Provider whose model is `model`": false of two threads that   *)
(* retarget one provider at once.                                          *)
GivenTheModelAsked == \A t \in Thread : pc[t] = "restore" => built[t] = want[t]

(* "we don't mutate state": false, the first thread's model can be what    *)
(* the second takes for the original and leaves behind.                    *)
EnvRestored == AtRest => env = start

(* The inductive invariant: without an overlap one thread at most is at    *)
(* work, and it has the first value of ENV to restore.                     *)
RetargetInv ==
  /\ TypeOK
  /\ ~overlap =>
       /\ \A t, u \in Thread : pc[t] # "idle" /\ pc[u] # "idle" => t = u
       /\ AtRest => env = start
       /\ \A t \in Thread :
            /\ pc[t] # "idle" => original[t] = start
            /\ pc[t] = "set" => env = start
            /\ pc[t] = "build" => env = want[t]
            /\ pc[t] = "restore" => built[t] = want[t]
=============================================================================
