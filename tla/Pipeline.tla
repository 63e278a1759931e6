------------------------------ MODULE Pipeline ------------------------------
(***************************************************************************)
(* _run_create_pipeline of src/servers/python/crosscheck_server.py: scope  *)
(* by confer, orchestrate, review, audit, one retry with the audit's       *)
(* feedback, the status, the write to target_path and the usage report.    *)
(* The tools it calls are whole calls here (Confer, Orchestrate, Audit     *)
(* model what happens inside), each with its own breaker check on entry    *)
(* and its own commit to the session. Documents and progress are left out. *)
(***************************************************************************)
EXTENDS Naturals, FiniteSets

CONSTANTS
  Provider,      (* the registered providers *)
  Cap,           (* max_session_tokens, 0 disables the breaker *)
  MaxCost        (* bound: tokens of one call of a tool *)

PipelineAssumption ==
  /\ IsFiniteSet(Provider)
  /\ Provider # {}
  /\ Cap \in Nat
  /\ MaxCost \in Nat

VARIABLES
  pc,            (* the phase the pipeline is in *)
  args,          (* the flags of the call *)
  session,       (* the tokens in the session's row *)
  scope,         (* tokens in the envelope of each phase: the scoping, *)
  prior,         (*   the orchestration that was replaced, *)
  review,        (*   the review *)
  orch,          (* the envelope of the latest orchestration *)
  panel,         (* producing_panel, of which the auditors are no part *)
  audit,         (* the envelope of the latest audit *)
  overall,       (* overall_f, against the threshold *)
  attempts,
  status,
  file,          (* the attempt whose final is in target_path, 0 for none *)
  warned,        (* the answer carries a warning *)
  reported,      (* the tokens of the answer's usage block *)
  spent          (* history: the tokens that every call made reported *)

judged == <<panel, audit>>
envelopes == <<scope, prior, review, orch, judged>>
answer == <<file, warned, reported>>
vars == <<pc, args, session, envelopes, overall, attempts, status, answer, spent>>

Undelivered(e, c) == [final |-> 0, error |-> e, panel |-> {}, cost |-> c]
NoOrch == Undelivered(FALSE, 0)
NoAudit == [of |-> 0, judges |-> {}, score |-> "none", cost |-> 0]

Tripped == Cap > 0 /\ session >= Cap

-----------------------------------------------------------------------------

Init ==
  /\ pc = "scope"
  /\ args \in [cheap : BOOLEAN, no_retry : BOOLEAN, skip_review : BOOLEAN,
               skip_audit : BOOLEAN, plan_only : BOOLEAN, dry_run : BOOLEAN,
               target : BOOLEAN]
  /\ session \in 0 .. Cap
  /\ scope = 0 /\ prior = 0 /\ review = 0
  /\ orch = NoOrch
  /\ panel = {}
  /\ audit = NoAudit
  /\ overall = "none"
  /\ attempts = 0
  /\ status = "success"
  /\ file = 0 /\ warned = FALSE /\ reported = 0
  /\ spent = 0

(* A sub-tool's commit: session_record, session_save and log_usage.        *)
Commit(c) == session' = session + c /\ spent' = spent + c

(* A tool that raises after paying c reaches no commit; nothing catches it. *)
Raise ==
  /\ pc \in {"scope", "build", "review", "audit", "rebuild", "reaudit"}
  /\ ~Tripped
  /\ pc' = "raised"
  /\ \E c \in 0 .. MaxCost : spent' = spent + c
  /\ UNCHANGED <<args, session, envelopes, overall, attempts, status, answer>>

(* Mutant: the panel is asked whatever the session has spent.              *)
ConferUnchecked(c) == c \in 0 .. MaxCost

(* The tokens a confer call may come to: none if the breaker refuses it.   *)
Confer(c) == c \in IF Tripped THEN {0} ELSE 0 .. MaxCost

Scope ==
  /\ pc = "scope"
  /\ \E c \in 0 .. MaxCost : Confer(c) /\ scope' = c /\ Commit(c)
  /\ pc' = "build"
  /\ UNCHANGED <<args, prior, review, orch, judged, overall, attempts, status, answer>>

(* orchestrate answers: refused by a breaker; with its plan rejected or    *)
(* only estimated, reported and not committed; or run, where the final is  *)
(* empty if the recombination failed.                                      *)
Orchestrate ==
  \/ /\ Tripped
     /\ orch' = Undelivered(TRUE, 0)
     /\ Commit(0)
  \/ /\ ~Tripped
     /\ \E c \in 0 .. MaxCost :
          /\ orch' = Undelivered(TRUE, c)
          /\ spent' = spent + c
     /\ UNCHANGED session
  \/ /\ ~Tripped
     /\ args.plan_only
     /\ \E c \in 0 .. MaxCost :
          /\ orch' = Undelivered(FALSE, c)
          /\ spent' = spent + c
     /\ UNCHANGED session
  \/ /\ ~Tripped
     /\ ~args.plan_only
     /\ \E c \in 0 .. MaxCost, f \in {0, attempts + 1}, S \in (SUBSET Provider) \ {{}} :
          /\ orch' = [final |-> f, error |-> FALSE, panel |-> S, cost |-> c]
          /\ Commit(c)

Build ==
  /\ pc = "build"
  /\ Orchestrate
  /\ attempts' = 1
  /\ IF args.plan_only
     THEN status' = "plan_only" /\ warned' = TRUE /\ pc' = "report"
     ELSE pc' = "review" /\ UNCHANGED <<status, warned>>
  /\ UNCHANGED <<args, scope, prior, review, judged, overall, file, reported>>

Review ==
  /\ pc = "review"
  /\ IF args.skip_review \/ orch.final = 0
     THEN UNCHANGED <<review, session, spent>>
     ELSE \E c \in 0 .. MaxCost : Confer(c) /\ review' = c /\ Commit(c)
  /\ pc' = "audit"
  /\ UNCHANGED <<args, scope, prior, orch, judged, overall, attempts, status, answer>>

(* Mutant: the panel is computed once, from the first attempt.             *)
ExcludePanelOnce == panel' = IF panel = {} THEN orch.panel ELSE panel

(* _compute_producing_panel, on each attempt.                              *)
ExcludePanel == panel' = orch.panel

(* Outside the panel there is one auditor; a panel of every provider is    *)
(* audited by all of them (the first four).                                *)
Judges(S) == IF S = Provider THEN {Provider} ELSE {{p} : p \in Provider \ S}

Audit ==
  /\ ExcludePanel
  /\ IF Tripped
     THEN audit' = [NoAudit EXCEPT !.of = orch.final] /\ Commit(0)
     ELSE \E c \in 0 .. MaxCost, S \in Judges(panel'), s \in {"none", "low", "high"} :
            /\ audit' = [of |-> orch.final, judges |-> S, score |-> s, cost |-> c]
            /\ Commit(c)

Retries == ~args.cheap /\ ~args.no_retry

(* Mutant: an audit without a score is repeated.                           *)
FirstVerdictInsists ==
  IF audit'.score = "low" /\ Retries
  THEN pc' = "rebuild" /\ UNCHANGED status
  ELSE /\ pc' = IF audit'.score = "none" THEN "audit" ELSE "settle"
       /\ status' = IF audit'.score = "low" THEN "audit_failed" ELSE status

(* A failing score is retried; in cheap mode, and where the caller forbids *)
(* the retry, it is reported.                                              *)
FirstVerdict ==
  IF audit'.score = "low" /\ Retries
  THEN pc' = "rebuild" /\ UNCHANGED status
  ELSE /\ pc' = "settle"
       /\ status' = IF audit'.score = "none" THEN "audit_inconclusive"
                    ELSE IF audit'.score = "low" THEN "audit_failed" ELSE status

FirstAudit ==
  /\ pc = "audit"
  /\ ~args.skip_audit /\ orch.final # 0
  /\ Audit
  /\ overall' = audit'.score
  /\ FirstVerdict
  /\ UNCHANGED <<args, scope, prior, review, orch, attempts, answer>>

NoAuditNeeded ==
  /\ pc = "audit"
  /\ args.skip_audit \/ orch.final = 0
  /\ pc' = "settle"
  /\ UNCHANGED <<args, session, envelopes, overall, attempts, status, answer, spent>>

Rebuild ==
  /\ pc = "rebuild"
  /\ prior' = orch.cost
  /\ Orchestrate
  /\ attempts' = 2
  /\ pc' = "reaudit"
  /\ UNCHANGED <<args, scope, review, judged, overall, status, answer>>

(* Mutant: only a score below the threshold fails the retry.               *)
SecondVerdictLenient ==
  status' = IF overall' = "low" THEN "audit_failed_after_retry" ELSE status

SecondVerdict ==
  status' = IF overall' = "high" THEN status ELSE "audit_failed_after_retry"

SecondAudit ==
  /\ pc = "reaudit"
  /\ IF orch.final # 0
     THEN Audit /\ overall' = audit'.score /\ UNCHANGED warned
     ELSE overall' = "none" /\ warned' = TRUE /\ UNCHANGED <<judged, session, spent>>
  /\ SecondVerdict
  /\ pc' = "settle"
  /\ UNCHANGED <<args, scope, prior, review, orch, attempts, file, reported>>

Settle ==
  /\ pc = "settle"
  /\ status' = IF status = "success" /\ orch.error THEN "error" ELSE status
  /\ pc' = "write"
  /\ UNCHANGED <<args, session, envelopes, overall, attempts, answer, spent>>

(* Mutant: a retry that failed its audit is written with a warning.        *)
BlockedStatusErrorOnly == {"error"}

BlockedStatus == {"audit_failed_after_retry", "error"}

(* The write may fail, with a warning.                                     *)
Write ==
  /\ pc = "write"
  /\ \/ /\ args.target /\ ~args.dry_run /\ orch.final # 0 /\ status \notin BlockedStatus
        /\ \/ /\ file' = orch.final
              /\ warned' = (warned \/ status \in {"audit_failed", "audit_inconclusive"})
           \/ UNCHANGED file /\ warned' = TRUE
     \/ /\ ~(args.target /\ ~args.dry_run /\ orch.final # 0 /\ status \notin BlockedStatus)
        /\ warned' = (warned \/ (args.target /\ (args.dry_run \/ status \in BlockedStatus)))
        /\ UNCHANGED file
  /\ pc' = "report"
  /\ UNCHANGED <<args, session, envelopes, overall, attempts, status, reported, spent>>

(* Mutant: the orchestration that was replaced is forgotten.               *)
UsageLatest == scope + orch.cost + review + audit.cost

(* answers_collected: one envelope of each kind, and the prior one.        *)
Usage == scope + prior + orch.cost + review + audit.cost

Report ==
  /\ pc = "report"
  /\ reported' = Usage
  /\ pc' = "done"
  /\ UNCHANGED <<args, session, envelopes, overall, attempts, status, file, warned, spent>>

Stopped == pc \in {"done", "raised"} /\ UNCHANGED vars

Next ==
  \/ Raise \/ Scope \/ Build \/ Review \/ FirstAudit \/ NoAuditNeeded
  \/ Rebuild \/ SecondAudit \/ Settle \/ Write \/ Report \/ Stopped

Spec == Init /\ [][Next]_vars

-----------------------------------------------------------------------------

(* The values the variables range over.                                    *)
TypeOK ==
  /\ pc \in {"scope", "build", "review", "audit", "rebuild", "reaudit",
             "settle", "write", "report", "done", "raised"}
  /\ args \in [cheap : BOOLEAN, no_retry : BOOLEAN, skip_review : BOOLEAN,
               skip_audit : BOOLEAN, plan_only : BOOLEAN, dry_run : BOOLEAN,
               target : BOOLEAN]
  /\ session \in Nat /\ scope \in Nat /\ prior \in Nat /\ review \in Nat
  /\ orch \in [final : 0 .. 2, error : BOOLEAN, panel : SUBSET Provider, cost : Nat]
  /\ panel \in SUBSET Provider
  /\ audit \in [of : 0 .. 2, judges : SUBSET Provider,
                score : {"none", "low", "high"}, cost : Nat]
  /\ overall \in {"none", "low", "high"}
  /\ attempts \in 0 .. 2
  /\ status \in {"success", "audit_failed", "audit_failed_after_retry",
                 "audit_inconclusive", "error", "plan_only"}
  /\ file \in 0 .. 2 /\ warned \in BOOLEAN /\ reported \in Nat
  /\ spent \in Nat

(* What target_path holds is the deliverable the last audit was about,     *)
(* never the one a retry replaced. After a retry it passed; without one a  *)
(* failing text is only written where none is made, and never without a    *)
(* warning unless its audit passed or was skipped.                         *)
WrittenIsJudged ==
  file # 0 =>
    /\ file = orch.final /\ file = attempts
    /\ args.skip_audit \/ audit.of = file
    /\ attempts = 2 => audit.score = "high"
    /\ audit.score = "low" => ~Retries
    /\ warned \/ args.skip_audit \/ audit.score = "high"

(* The status "success" of an audited run means that the final in the      *)
(* answer scored at or above the threshold: neither the score of a         *)
(* replaced attempt nor a missing one counts.                              *)
SuccessIsEarned ==
  pc = "done" /\ status = "success" /\ ~args.skip_audit /\ orch.final # 0
    => audit.of = orch.final /\ audit.score = "high"

(* No provider grades a text it helped to produce, on the second attempt   *)
(* as on the first, unless every registered provider did.                  *)
AuditorsIndependent ==
  audit.of # 0 /\ audit.of = orch.final
    => audit.judges \cap orch.panel = {} \/ orch.panel = Provider

(* The answer's usage block covers what every call of the run reported,    *)
(* but for the audit that a retry replaced.                                *)
ReportCoversRun ==
  pc = "done" =>
    /\ attempts = 1 => reported = spent
    /\ reported <= spent /\ spent <= reported + MaxCost

(* Every tool of the pipeline asks the session's breaker again, so the     *)
(* session passes its cap by less than one call, however many there are.   *)
OvershootIsOneCall == Cap > 0 => session < Cap + MaxCost \/ session <= Cap

(* Where the pipeline is, and what it then has spent, of which call.       *)
Outlay ==
  /\ pc = "scope" => spent = 0 /\ scope = 0
  /\ pc \in {"scope", "build"} => orch = NoOrch /\ spent = scope
  /\ pc \in {"scope", "build", "review"} => review = 0
  /\ pc \in {"scope", "build", "review", "audit"} =>
       audit = NoAudit /\ panel = {} /\ overall = "none" /\ spent = Usage
  /\ audit.cost <= MaxCost
  /\ attempts # 2 => prior = 0 /\ (pc # "raised" => spent = Usage)
  /\ pc \in {"reaudit"} => spent = Usage
  /\ pc # "raised" => Usage <= spent /\ spent <= Usage + MaxCost
  /\ pc = "done" => reported = Usage

(* What each phase knows of the deliverable and its grade.                 *)
Stage ==
  /\ pc \in {"scope", "build"} => attempts = 0
  /\ pc \in {"review", "audit", "rebuild"} => attempts = 1
  /\ pc = "reaudit" => attempts = 2
  /\ pc \in {"settle", "write", "report", "done"} => attempts \in {1, 2}
  /\ orch.final \in {0, attempts}
  /\ pc \in {"review", "audit", "rebuild", "reaudit", "settle", "write"} => ~args.plan_only
  /\ args.plan_only => orch.final = 0
  /\ pc \notin {"report", "done"} => file = 0
  /\ pc \in {"scope", "build", "review", "audit", "rebuild", "reaudit"} => status = "success"
  /\ pc = "rebuild" => orch.final # 0 /\ Retries
  /\ pc \in {"rebuild", "reaudit"} => audit.of = 1 /\ audit.score = "low" /\ ~args.skip_audit
  /\ args.skip_audit => audit.score = "none"
  /\ attempts = 2 => ~args.skip_audit /\ Retries
  /\ attempts = 2 /\ pc \in {"settle", "write", "report", "done"} => status # "audit_failed" /\ status # "audit_inconclusive"

(* A deliverable that is not held back has the grade its status claims.    *)
Graded ==
  pc \in {"settle", "write", "report", "done"} /\ orch.final # 0 /\ ~args.skip_audit =>
    /\ audit.of = orch.final \/ status \in BlockedStatus
    /\ status \notin BlockedStatus =>
         \/ status = "success" /\ audit.score = "high"
         \/ status = "audit_failed" /\ audit.score = "low" /\ ~Retries
         \/ status = "audit_inconclusive" /\ audit.score = "none"

(* What every step of the pipeline keeps.                                  *)
PipelineInv ==
  /\ TypeOK
  /\ Outlay
  /\ Stage
  /\ Graded
  /\ WrittenIsJudged
  /\ AuditorsIndependent
  /\ OvershootIsOneCall

(* Comment in the roll-up: "the top-level usage block matches the session  *)
(* totals written to SQLite by sub-tools" (for a session that was empty    *)
(* before and was audited twice).                                          *)
ReportMatchesSession ==
  pc = "done" /\ attempts = 2 /\ ~orch.error /\ Cap = 0 => reported = session

(* Comment "Status policy for writes: success -> write": a successful run  *)
(* leaves the file, or the answer says why not.                            *)
SuccessIsWritten ==
  pc = "done" /\ status = "success" /\ args.target /\ ~args.dry_run => file # 0 \/ warned

-----------------------------------------------------------------------------

Fairness == WF_vars(Next)
LiveSpec == Spec /\ Fairness

(* One retry and no more: whatever the audits say, the pipeline answers.   *)
Terminates == <>(pc \in {"done", "raised"})
=============================================================================
