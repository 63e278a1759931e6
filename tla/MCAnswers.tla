----------------------------- MODULE MCAnswers -----------------------------
(***************************************************************************)
(* Does a call end?  A server at one call of a tool, as in MCPanels and    *)
(* MCWork, here under the fairness that each module justifies: the thread  *)
(* of the call waits for its pool only, and what the pool asks returns.    *)
(* That a request returns is the part of ProviderCall: its two callers     *)
(* share a rate limiter, and its clock ticks. (orchestrate is larger than  *)
(* the others; it has a run of its own, on MCOrchestrate.)                 *)
(***************************************************************************)
EXTENDS Naturals

CONSTANTS
  m1, m2         (* callers or providers *)

VARIABLES
  tool,           (* the tool that was called *)
  v1, v2, v3, v4, v5, v6, v7, v8, v9, v10, v11, v12, v13, v14, v15, v16 (* the locals of the call, in the order of the tool's module *)

vars == <<tool, v1, v2, v3, v4, v5, v6, v7, v8, v9, v10, v11, v12, v13, v14, v15, v16>>

Requests == INSTANCE ProviderCall WITH
  Caller <- {m1, m2}, Limit <- 3, MaxAttempts <- 2, Base <- 1,
  MaxRetryAfter <- 2, MaxOps <- 2, Capacity <- 6, Refill <- 1, Unit <- 4,
  now <- v1, tokens <- v2, last <- v3, pc <- v4, until <- v5,
  deadline <- v6, attempt <- v7, resent <- v8, posts <- v9,
  admitted <- v10, answer <- v11, exchange <- v12

ConferCall == INSTANCE Confer WITH
  Provider <- {m1, m2}, Cap <- 2, MaxCost <- 1,
  pc <- v1, clock <- v2, args <- v3, prior <- v4, thread <- v5, cost <- v6,
  agreed <- v7, skipped <- v8, judge <- v9, extractor <- v10, paid <- v11,
  lost <- v12, logged <- v13

DebateCall == INSTANCE Debate WITH
  Panel <- 2, MaxRounds <- 2, Cap <- 2, MaxCost <- 1, MaxClaims <- 1,
  pc <- v1, clock <- v2, args <- v3, prior <- v4, turns <- v5, spent <- v6,
  thisRound <- v7, stopped <- v8, extras <- v9, synthesis <- v10,
  extractor <- v11, claims <- v12, paid <- v13, lost <- v14,
  logged <- v15

CoordinateCall == INSTANCE Coordinate WITH
  Provider <- {m1, m2}, Allowed <- {m1, m2}, Moderator <- m1, Cap <- 1,
  MaxCost <- 1,
  pc <- v1, args <- v2, prior <- v3, roles <- v4, thread <- v5,
  proposal <- v6, saw <- v7, cost <- v8, ballots <- v9, paid <- v10,
  lost <- v11, logged <- v12

SolveCall == INSTANCE Solve WITH
  Provider <- {m1, m2}, MaxAttempts <- 3,
  pc <- v1, args <- v2, panel <- v3, time <- v4, attempts <- v5,
  rejected <- v6, final <- v7, logged <- v8, patch <- v9

CreateCall == INSTANCE Pipeline WITH
  Provider <- {m1, m2}, Cap <- 2, MaxCost <- 1,
  pc <- v1, args <- v2, session <- v3, scope <- v4, prior <- v5,
  review <- v6, orch <- v7, panel <- v8, audit <- v9, overall <- v10,
  attempts <- v11, status <- v12, file <- v13, warned <- v14,
  reported <- v15, spent <- v16

WorkerTurn == INSTANCE WorkerTools WITH
  Allowlist <- {"fetch", "verify"}, OtherTool <- "delegate",
  HopBudget <- 2, MaxRetries <- 1, Cap <- 1, MaxCost <- 1,
  structured <- v1, listed <- v2, mode <- v3, phase <- v4, reply <- v5,
  hops <- v6, attempt <- v7, observed <- v8, inner <- v9, warned <- v10,
  blocked <- v11, result <- v12, asks <- v13, billed <- v14, ran <- v15,
  lost <- v16

ASSUME ConstantsFit ==
  /\ ConferCall!ConferAssumption
  /\ DebateCall!DebateAssumption
  /\ CoordinateCall!CoordinateAssumption
  /\ SolveCall!SolveAssumption
  /\ CreateCall!PipelineAssumption
  /\ WorkerTurn!WorkerToolsAssumption

-----------------------------------------------------------------------------

Unused == "unused"

Init ==
  \/ /\ tool = "request" /\ Requests!Init
     /\ v13 = Unused /\ v14 = Unused /\ v15 = Unused
     /\ v16 = Unused
  \/ /\ tool = "confer" /\ ConferCall!Init
     /\ v14 = Unused /\ v15 = Unused /\ v16 = Unused
  \/ /\ tool = "debate" /\ DebateCall!Init
     /\ v16 = Unused
  \/ /\ tool = "coordinate" /\ CoordinateCall!Init
     /\ v13 = Unused /\ v14 = Unused /\ v15 = Unused /\ v16 = Unused
  \/ /\ tool = "solve" /\ SolveCall!Init
     /\ v10 = Unused /\ v11 = Unused /\ v12 = Unused /\ v13 = Unused
     /\ v14 = Unused /\ v15 = Unused /\ v16 = Unused
  \/ /\ tool = "create" /\ CreateCall!Init
  \/ /\ tool = "worker" /\ WorkerTurn!Init

Next ==
  \/ /\ tool = "request" /\ Requests!Next
     /\ UNCHANGED <<tool, v13, v14, v15, v16>>
  \/ /\ tool = "confer" /\ ConferCall!Next
     /\ UNCHANGED <<tool, v14, v15, v16>>
  \/ /\ tool = "debate" /\ DebateCall!Next
     /\ UNCHANGED <<tool, v16>>
  \/ /\ tool = "coordinate" /\ CoordinateCall!Next
     /\ UNCHANGED <<tool, v13, v14, v15, v16>>
  \/ /\ tool = "solve" /\ SolveCall!Next
     /\ UNCHANGED <<tool, v10, v11, v12, v13, v14, v15, v16>>
  \/ /\ tool = "create" /\ CreateCall!Next
     /\ UNCHANGED tool
  \/ /\ tool = "worker" /\ WorkerTurn!Next
     /\ UNCHANGED tool

(* The thread that serves the call.                                        *)
Main ==
  \/ /\ tool = "request" /\ Requests!Tick
     /\ UNCHANGED <<tool, v13, v14, v15, v16>>
  \/ /\ tool = "confer" /\ ConferCall!Main
     /\ UNCHANGED <<tool, v14, v15, v16>>
  \/ /\ tool = "debate" /\ DebateCall!Run
     /\ UNCHANGED <<tool, v16>>
  \/ /\ tool = "coordinate" /\ CoordinateCall!Main
     /\ UNCHANGED <<tool, v13, v14, v15, v16>>
  \/ /\ tool = "solve" /\ SolveCall!Call
     /\ UNCHANGED <<tool, v10, v11, v12, v13, v14, v15, v16>>
  \/ /\ tool = "create" /\ CreateCall!Next
     /\ UNCHANGED tool
  \/ /\ tool = "worker" /\ WorkerTurn!Step
     /\ UNCHANGED tool

(* A thread of its pool, at a provider; for a request, its caller.         *)
Pool(n) ==
  \/ /\ tool = "request" /\ Requests!Step(n)
     /\ UNCHANGED <<tool, v13, v14, v15, v16>>
  \/ /\ tool = "confer" /\ ConferCall!Pool(n)
     /\ UNCHANGED <<tool, v14, v15, v16>>
  \/ /\ tool = "coordinate" /\ CoordinateCall!Pool(n)
     /\ UNCHANGED <<tool, v13, v14, v15, v16>>

Fairness ==
  /\ WF_vars(Main)
  /\ \A n \in {m1, m2} : WF_vars(Pool(n))

Spec == Init /\ [][Next]_vars /\ Fairness

-----------------------------------------------------------------------------

(* Every call of a tool ends, however many steps it takes, and every       *)
(* request is answered: no rate limit, backoff or Retry-After holds a      *)
(* caller up for good.                                                     *)
Terminates ==
  <>( /\ tool = "request" => \A n \in {m1, m2} : v4[n] = "done"
      /\ tool = "confer" => ConferCall!Ended
      /\ tool = "debate" => DebateCall!Ended
      /\ tool = "coordinate" => CoordinateCall!Ended
      /\ tool = "solve" => SolveCall!Ended
      /\ tool = "create" => v1 \in {"done", "raised"}
      /\ tool = "worker" => v4 = "done" )
=============================================================================
