-------------------------------- MODULE Work --------------------------------
(***************************************************************************)
(* A server at one call of a tool that works in steps: solve, create or    *)
(* create_cheap, audit, or one turn of a worker that may call tools. The   *)
(* variables are the locals of the call, in the order of the tool's own    *)
(* module.                                                                 *)
(***************************************************************************)
EXTENDS Naturals

CONSTANTS
  Provider,      (* the providers of solve and create *)
  MaxAttempts,   (* max_attempts of solve *)
  SessionCap,    (* max_session_tokens, 0 disables the breaker *)
  CallCost,      (* bound: tokens of one call that create makes *)
  Allowlist,     (* _WORKER_TOOL_ALLOWLIST *)
  OtherTool,     (* the name of a tool that is not in it *)
  HopBudget,     (* _WORKER_TOOL_HOP_BUDGET *)
  MaxRetries,    (* max_retries of a structured request *)
  TurnCap,       (* the cost cap of a worker's turn, 0 if there is none *)
  AnswerCost,    (* bound: cost of one answer of the turn *)
  Auditor,       (* the providers of an audit *)
  Item,          (* the items of its rubric *)
  Severity,      (* the severity of each *)
  Score,         (* the scores a judge gives, in tenths *)
  MaxJudges,     (* max_judges *)
  Auditor2, Item2, Severity2, Score2, MaxJudges2 (* those of another audit *)

VARIABLES
  tool,           (* what is being called *)
  v1, v2, v3, v4, v5, v6, v7, v8, v9, v10, v11, v12, v13, v14, v15, v16 (* the locals of the call *)

vars == <<tool, v1, v2, v3, v4, v5, v6, v7, v8, v9, v10, v11, v12, v13, v14, v15, v16>>

SolveCall == INSTANCE Solve WITH
  Provider <- Provider, MaxAttempts <- MaxAttempts,
  pc <- v1, args <- v2, panel <- v3, time <- v4, attempts <- v5,
  rejected <- v6, final <- v7, logged <- v8, patch <- v9

CreateCall == INSTANCE Pipeline WITH
  Provider <- Provider, Cap <- SessionCap, MaxCost <- CallCost,
  pc <- v1, args <- v2, session <- v3, scope <- v4, prior <- v5,
  review <- v6, orch <- v7, panel <- v8, audit <- v9, overall <- v10,
  attempts <- v11, status <- v12, file <- v13, warned <- v14,
  reported <- v15, spent <- v16

WorkerTurn == INSTANCE WorkerTools WITH
  Allowlist <- Allowlist, OtherTool <- OtherTool,
  HopBudget <- HopBudget, MaxRetries <- MaxRetries, Cap <- TurnCap,
  MaxCost <- AnswerCost,
  structured <- v1, listed <- v2, mode <- v3, phase <- v4, reply <- v5,
  hops <- v6, attempt <- v7, observed <- v8, inner <- v9, warned <- v10,
  blocked <- v11, result <- v12, asks <- v13, billed <- v14, ran <- v15,
  lost <- v16

AuditCall == INSTANCE Audit WITH
  Provider <- Auditor, Item <- Item, Severity <- Severity, Score <- Score,
  MaxJudges <- MaxJudges,
  pc <- v1, args <- v2, mode <- v3, judges <- v4, thread <- v5,
  verdict <- v6, answers <- v7, passed <- v8

ItemsAudit == INSTANCE Audit WITH
  Provider <- Auditor2, Item <- Item2, Severity <- Severity2,
  Score <- Score2, MaxJudges <- MaxJudges2,
  pc <- v1, args <- v2, mode <- v3, judges <- v4, thread <- v5,
  verdict <- v6, answers <- v7, passed <- v8

ASSUME ConstantsFit ==
  /\ SolveCall!SolveAssumption
  /\ CreateCall!PipelineAssumption
  /\ WorkerTurn!WorkerToolsAssumption
  /\ AuditCall!AuditAssumption
  /\ ItemsAudit!AuditAssumption

-----------------------------------------------------------------------------

Unused == "unused"

Init ==
  \/ /\ tool = "solve" /\ SolveCall!Init
     /\ v10 = Unused /\ v11 = Unused /\ v12 = Unused /\ v13 = Unused
     /\ v14 = Unused /\ v15 = Unused /\ v16 = Unused
  \/ /\ tool = "create" /\ CreateCall!Init
  \/ /\ tool = "worker" /\ WorkerTurn!Init
  \/ /\ tool = "audit" /\ AuditCall!Init
     /\ v9 = Unused /\ v10 = Unused /\ v11 = Unused /\ v12 = Unused
     /\ v13 = Unused /\ v14 = Unused /\ v15 = Unused /\ v16 = Unused
  \/ /\ tool = "audit_items" /\ ItemsAudit!Init
     /\ v9 = Unused /\ v10 = Unused /\ v11 = Unused /\ v12 = Unused
     /\ v13 = Unused /\ v14 = Unused /\ v15 = Unused /\ v16 = Unused

Next ==
  \/ /\ tool = "solve" /\ SolveCall!Next
     /\ UNCHANGED <<tool, v10, v11, v12, v13, v14, v15, v16>>
  \/ /\ tool = "create" /\ CreateCall!Next
     /\ UNCHANGED tool
  \/ /\ tool = "worker" /\ WorkerTurn!Next
     /\ UNCHANGED tool
  \/ /\ tool = "audit" /\ AuditCall!Next
     /\ UNCHANGED <<tool, v9, v10, v11, v12, v13, v14, v15, v16>>
  \/ /\ tool = "audit_items" /\ ItemsAudit!Next
     /\ UNCHANGED <<tool, v9, v10, v11, v12, v13, v14, v15, v16>>

Spec == Init /\ [][Next]_vars

-----------------------------------------------------------------------------

(* The locals have their types. *)
TypeOK ==
  /\ tool = "solve" => SolveCall!TypeOK
  /\ tool = "create" => CreateCall!TypeOK
  /\ tool = "worker" => WorkerTurn!TypeOK
  /\ tool = "audit" => AuditCall!TypeOK
  /\ tool = "audit_items" => ItemsAudit!TypeOK

(* A call that ends has accounted for every answer it was handed, of every *)
(* attempt and of every judge, whatever it was worth: in the ledger        *)
(* (_session_record), in the usage of a worker's turn, or in the usage     *)
(* block of create, but for one audit that a retry replaced. What a worker *)
(* was charged beyond that is an error's that ended his turn, or a         *)
(* replaced draft's. And create takes a session past its cap by less than  *)
(* one of its calls, as far as their answers tell.                         *)
SpendAccounted ==
  /\ tool = "solve" => SolveCall!AnswersCommitted
  /\ tool = "audit" => AuditCall!AnswersCommitted
  /\ tool = "worker" => WorkerTurn!SpendReported
  /\ tool = "create" => CreateCall!ReportCoversRun /\ CreateCall!OvershootIsOneCall

(* solve returns, and makes a patch of, the one proposal that was          *)
(* accepted; each of its prompts has the latest rejection, and it gives up *)
(* after all attempts, spread over the panel. create writes the latest     *)
(* final, reports success of one that its audit has passed, and nobody     *)
(* audits a final he had a part in unless nobody else is there.            *)
OnlyVerifiedReturned ==
  /\ tool = "solve" => /\ SolveCall!SolvedIsVerified
                       /\ SolveCall!FeedbackIsLatest
                       /\ SolveCall!EveryoneHadHisTurn
  /\ tool = "create" => /\ CreateCall!WrittenIsJudged
                        /\ CreateCall!SuccessIsEarned
                        /\ CreateCall!AuditorsIndependent

(* A worker runs no more tools than it has hops, retries included, and is  *)
(* asked a bounded number of times; a tool is refused for its cost in      *)
(* enforce mode only, past the cap and on the record, and none is run past *)
(* an enforced cap.                                                        *)
TurnBounded ==
  /\ [] (tool = "worker" => /\ WorkerTurn!ToolsWithinBudget
                             /\ WorkerTurn!AsksBounded
                             /\ WorkerTurn!BlockedIsExplained)
  /\ [][tool = "worker" => WorkerTurn!EnforcedStep]_vars

(* A producer judges itself with leave, or because nobody else is there; a *)
(* strict audit passes when every judge passed every item; no item passes  *)
(* that most of its graders failed; a better grade never turns a pass into *)
(* a failure nor lowers the overall score; a dispute has a spread.         *)
VotesDecide ==
  /\ tool = "audit" => /\ AuditCall!SelfGradingIsExcused
                       /\ AuditCall!StrictIsUnanimous
                       /\ AuditCall!PassIsVotedFor
                       /\ AuditCall!BetterIsNoWorse
                       /\ AuditCall!DisputeHasSpread
  /\ tool = "audit_items" => /\ ItemsAudit!StrictIsUnanimous
                             /\ ItemsAudit!PassIsVotedFor
                             /\ ItemsAudit!BetterIsNoWorse
=============================================================================
