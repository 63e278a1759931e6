------------------------------- MODULE Confer -------------------------------
(***************************************************************************)
(* tool_confer of src/servers/python/crosscheck_server.py: the panel's     *)
(* pool threads (_ask_many_parallel), the early stop after two panelists   *)
(* with its judge (_check_panel_agreement), the breaker's projection of    *)
(* the answers in flight, the claims extractor and the commit. A worker    *)
(* turn is one answer (WorkerTools); tokens stand for the totals that      *)
(* breakers cap; selected[:2] are any two of the panel.                    *)
(***************************************************************************)
EXTENDS Naturals, FiniteSets, Functions

CONSTANTS
  Provider,      (* the selected panel *)
  Cap,           (* max_session_tokens, 0 disables the breaker *)
  MaxCost        (* bound: tokens of one turn; a cache hit costs 0 *)

ConferAssumption ==
  /\ IsFiniteSet(Provider)
  /\ Provider # {}
  /\ Cap \in Nat
  /\ MaxCost \in Nat

VARIABLES
  pc,            (* where the main thread is *)
  clock,         (* what is left of the time budget *)
  args,          (* early_stop and extract_claims *)
  prior,         (* the tokens of the session on entry *)
  thread,        (* the pool thread of each panelist *)
  cost,          (* the tokens that its answer reports *)
  agreed,        (* the judge saw agreement at or above the threshold *)
  skipped,       (* skipped_providers *)
  judge,         (* the tokens of the judge's answer *)
  extractor,     (* the tokens of the claims extractor's last answer *)
  paid,          (* history: the tokens of all answers *)
  lost,          (* history: of those, the ones that no answer reports *)
  logged         (* what the commit recorded *)

vars == <<pc, clock, args, prior, thread, cost, agreed, skipped, judge,
          extractor, paid, lost, logged>>
panel == <<thread, cost>>
verdict == <<agreed, skipped, judge>>
ledger == <<paid, lost, logged>>

Clocks == {"ample", "low", "out"}

Spent(S) == SumFunctionOnSet(cost, S)

Tripped(total) == Cap > 0 /\ total >= Cap

-----------------------------------------------------------------------------

Init ==
  /\ pc = "entry"
  /\ clock = "ample"
  /\ args \in [early : BOOLEAN, claims : BOOLEAN]
  /\ prior \in 0 .. Cap
  /\ thread = [p \in Provider |-> "none"]
  /\ cost = [p \in Provider |-> 0]
  /\ agreed = FALSE
  /\ skipped = {}
  /\ judge = 0
  /\ extractor = 0
  /\ paid = 0
  /\ lost = 0
  /\ logged = 0

Elapse ==
  /\ \/ clock = "ample" /\ clock' = "low"
     \/ clock = "low" /\ clock' = "out"
  /\ UNCHANGED <<pc, args, prior, panel, verdict, extractor, ledger>>

Refuse ==
  /\ pc = "entry"
  /\ Tripped(prior)
  /\ pc' = "refused"
  /\ UNCHANGED <<clock, args, prior, panel, verdict, extractor, ledger>>

Dispatch(S) == thread' = [p \in Provider |-> IF p \in S THEN "queued" ELSE thread[p]]

AskPanel ==
  /\ pc = "entry"
  /\ ~Tripped(prior)
  /\ ~(args.early /\ Cardinality(Provider) >= 3)
  /\ Dispatch(Provider)
  /\ pc' = "gather"
  /\ UNCHANGED <<clock, args, prior, cost, verdict, extractor, ledger>>

AskFirst ==
  /\ pc = "entry"
  /\ ~Tripped(prior)
  /\ args.early /\ Cardinality(Provider) >= 3
  /\ \E S \in SUBSET Provider : Cardinality(S) = 2 /\ Dispatch(S)
  /\ pc' = "gather_first"
  /\ UNCHANGED <<clock, args, prior, cost, verdict, extractor, ledger>>

Start(p) ==
  /\ thread[p] = "queued"
  /\ thread' = [thread EXCEPT ![p] = IF clock = "out" THEN "failed" ELSE "asking"]
  /\ UNCHANGED <<pc, clock, args, prior, cost, verdict, extractor, ledger>>

(* What answers report and what they do not, a charged error or a draft    *)
(* that was asked for again.                                               *)
Spend(c, d) == paid' = paid + c + d /\ lost' = lost + d

(* The answer of a panelist, an error or an exception. An error reports    *)
(* the earlier answers of its turn, when it had tools, but not its own     *)
(* charge, and an exception reports nothing.                               *)
Return(p) ==
  /\ thread[p] = "asking"
  /\ \E how \in {"ok", "failed", "raised"}, c, d \in 0 .. MaxCost :
       /\ how = "ok" => d = 0
       /\ how = "raised" => c = 0
       /\ c + d <= MaxCost
       /\ thread' = [thread EXCEPT ![p] = how]
       /\ cost' = [cost EXCEPT ![p] = c]
       /\ Spend(c, d)
  /\ UNCHANGED <<pc, clock, args, prior, verdict, extractor, logged>>

Raised == \E p \in Provider : thread[p] = "raised"

(* Mutant: the first exception leaves the pool without waiting for it.     *)
JoinedOrRaised == Raised \/ \A p \in Provider : thread[p] \notin {"queued", "asking"}

(* Leaving the pool waits for all of its threads. *)
Joined == \A p \in Provider : thread[p] \notin {"queued", "asking"}

Gather ==
  /\ pc \in {"gather_first", "gather"}
  /\ Joined
  /\ pc' = IF Raised THEN "raised" ELSE IF pc = "gather_first" THEN "weigh" ELSE "claims"
  /\ UNCHANGED <<clock, args, prior, panel, verdict, extractor, ledger>>

Asked == {p \in Provider : thread[p] \in {"ok", "failed"}}

(* Mutant: the breaker is asked on the session as it was loaded.           *)
MayJudgeUnprojected ==
  /\ \A p \in Asked : thread[p] = "ok"
  /\ clock = "ample"
  /\ ~Tripped(prior)

(* Mutant: an answer that failed counts as an answer.                      *)
MayJudgeFailed == clock = "ample" /\ ~Tripped(prior + Spent(Asked))

(* Both answered, there is time, and the breaker would let the session     *)
(* with these answers pass (_project_session_with_answers).                *)
MayJudge ==
  /\ \A p \in Asked : thread[p] = "ok"
  /\ clock = "ample"
  /\ ~Tripped(prior + Spent(Asked))

AskRest ==
  /\ Dispatch(Provider \ Asked)
  /\ pc' = "gather"
  /\ UNCHANGED skipped

StopEarly ==
  /\ skipped' = Provider \ Asked
  /\ pc' = "claims"
  /\ UNCHANGED thread

(* The judge is asked once. The verdict is yes, or no, or unusable, or an  *)
(* error, paid for or not.                                                 *)
Weigh ==
  /\ pc = "weigh"
  /\ MayJudge
  /\ \E c, d \in 0 .. MaxCost, yes \in BOOLEAN :
       /\ d > 0 => c = 0 /\ ~yes
       /\ judge' = c
       /\ Spend(c, d)
       /\ agreed' = yes
       /\ IF yes THEN StopEarly ELSE AskRest
  /\ UNCHANGED <<clock, args, prior, cost, extractor, logged>>

SkipJudge ==
  /\ pc = "weigh"
  /\ ~MayJudge
  /\ AskRest
  /\ UNCHANGED <<clock, args, prior, cost, agreed, judge, extractor, ledger>>

(* Claims are distilled from two answers at least. *)
MayExtract ==
  /\ args.claims
  /\ clock = "ample"
  /\ Cardinality({p \in Asked : thread[p] = "ok"}) >= 2

(* One draft, or a draft whose answer a second one replaces; the extractor *)
(* has a deadline of its own.                                              *)
Extract ==
  /\ pc = "claims"
  /\ MayExtract
  /\ \E c, d \in 0 .. MaxCost : extractor' = c /\ Spend(c, d)
  /\ pc' = "commit"
  /\ UNCHANGED <<clock, args, prior, panel, verdict, logged>>

NoExtract ==
  /\ pc = "claims"
  /\ ~MayExtract
  /\ pc' = "commit"
  /\ UNCHANGED <<clock, args, prior, panel, verdict, extractor, ledger>>

(* The judge's or the extractor's request raises, its cache lookup may.    *)
Raise ==
  /\ \/ pc = "weigh" /\ MayJudge
     \/ pc = "claims" /\ MayExtract
  /\ \E d \in 0 .. MaxCost : Spend(0, d)
  /\ pc' = "raised"
  /\ UNCHANGED <<clock, args, prior, panel, verdict, extractor, logged>>

(* _session_record, _session_save and log_usage of all_answers. *)
Commit ==
  /\ pc = "commit"
  /\ logged' = Spent(Asked) + judge + extractor
  /\ pc' = "done"
  /\ UNCHANGED <<clock, args, prior, panel, verdict, extractor, paid, lost>>

-----------------------------------------------------------------------------

Main ==
  \/ Refuse \/ AskPanel \/ AskFirst \/ Gather \/ Weigh \/ SkipJudge
  \/ Extract \/ NoExtract \/ Raise \/ Commit

Pool(p) == Start(p) \/ Return(p)

Ended == pc \in {"refused", "raised", "done"}

Stopped == Ended /\ UNCHANGED vars

Next == Main \/ (\E p \in Provider : Pool(p)) \/ Elapse \/ Stopped

Spec == Init /\ [][Next]_vars

(* The main thread waits for its pool only, and every call returns. *)
LiveSpec == Spec /\ WF_vars(Main) /\ \A p \in Provider : WF_vars(Pool(p))

-----------------------------------------------------------------------------

(* The variables have their types. *)
TypeOK ==
  /\ pc \in {"entry", "gather_first", "weigh", "gather", "claims", "commit",
             "refused", "raised", "done"}
  /\ clock \in Clocks
  /\ args \in [early : BOOLEAN, claims : BOOLEAN]
  /\ prior \in 0 .. Cap
  /\ thread \in [Provider -> {"none", "queued", "asking", "ok", "failed", "raised"}]
  /\ cost \in [Provider -> 0 .. MaxCost]
  /\ agreed \in BOOLEAN
  /\ skipped \in SUBSET Provider
  /\ judge \in 0 .. MaxCost
  /\ extractor \in 0 .. MaxCost
  /\ paid \in Nat
  /\ lost \in Nat
  /\ logged \in Nat

(* The commit records all that the answers of the tool report: of both     *)
(* phases, of the judge, whatever it said, and of the extractor. What it   *)
(* misses was charged for a panelist's failure, or was spent on the        *)
(* structured requests of the early stop and of the claims.                *)
AnswersCommitted ==
  pc = "done" =>
    /\ logged + lost = paid
    /\ lost > 0 => args.early \/ args.claims \/ \E p \in Provider : thread[p] = "failed"

(* Whoever is skipped, two others answered, both without error, and were   *)
(* found to agree.                                                         *)
PanelSettled ==
  /\ Asked \union skipped = Provider
  /\ skipped # {} => /\ agreed
                     /\ Cardinality(Asked) = 2
                     /\ \A p \in Asked : thread[p] = "ok"
                     /\ \A p \in skipped : thread[p] = "none"

(* A panelist is skipped only when two others answered without error and   *)
(* were found to agree; otherwise the whole panel has been asked.          *)
WholePanelOrAgreement == pc = "done" => PanelSettled

(* The main thread never goes on, nor raises, while a panelist is asked.   *)
PoolJoined == pc \notin {"gather_first", "gather"} =>
                \A p \in Provider : thread[p] \notin {"queued", "asking"}

(* The judge is asked only while the session, with all that this call has  *)
(* spent, is below its cap (README.md:320).                                *)
JudgeStep == judge' # judge /\ Cap > 0 => prior + paid < Cap
JudgeWithinCap == [][JudgeStep]_vars

(* The inductive invariant: who has been called, and what has been paid.   *)
Called == {p \in Provider : thread[p] # "none"}
Mishap == \E p \in Provider : thread[p] \in {"failed", "raised"}

ConferInv ==
  /\ TypeOK
  /\ PoolJoined
  /\ \A p \in Provider : thread[p] \notin {"ok", "failed"} => cost[p] = 0
  /\ pc \in {"entry", "refused"} => Called = {}
  /\ pc \in {"gather_first", "weigh"} => Cardinality(Called) = 2 /\ args.early
  /\ pc = "gather" => Called = Provider
  /\ pc \in {"weigh", "claims", "commit", "done"} => Called = Asked
  /\ pc \notin {"claims", "raised", "commit", "done"} => skipped = {}
  /\ pc \in {"claims", "commit", "done"} => PanelSettled
  /\ paid = Spent(Provider) + judge + extractor + lost
  /\ pc \notin {"commit", "done"} => extractor = 0
  /\ pc \in {"entry", "refused", "gather_first", "weigh"} => lost = 0 \/ Mishap
  /\ lost > 0 => args.early \/ args.claims \/ Mishap
  /\ pc \in {"entry", "refused", "gather_first", "weigh"} => judge = 0
  /\ AnswersCommitted

(* A call is answered. *)
Terminates == <>Ended

(* crosscheck_server.py:3633: when the breaker would trip on the first     *)
(* answers, judge and second phase are skipped. False of the second phase. *)
TrippedSkipsPhaseTwo ==
  [][pc = "weigh" /\ pc' = "gather" /\ Cap > 0 => prior + paid < Cap]_vars
=============================================================================
