---------------------------- MODULE WorkerTools -----------------------------
(***************************************************************************)
(* One worker turn with inner tools: _ask_one_with_tools and               *)
(* _request_structured_with_tools of                                       *)
(* src/servers/python/crosscheck_server.py, which share hop budget, cost   *)
(* cap and usage, and _request_structured and _ask_one for a turn to which *)
(* no tool is opened. One step is one provider answer or what the loop     *)
(* makes of it. A cost is what one answer adds to usage.cost_usd; the      *)
(* inner tools, fetch and verify, ask no provider.                         *)
(***************************************************************************)
EXTENDS Naturals, Sequences

CONSTANTS
  Allowlist,     (* _WORKER_TOOL_ALLOWLIST *)
  OtherTool,     (* the name of a tool that is not in it *)
  HopBudget,     (* _WORKER_TOOL_HOP_BUDGET *)
  MaxRetries,    (* max_retries of a structured request *)
  Cap,           (* the cost cap of the turn, 0 if there is none *)
  MaxCost        (* bound: cost of one answer; a cache hit costs 0 *)

WorkerToolsAssumption ==
  /\ OtherTool \notin Allowlist
  /\ HopBudget \in Nat
  /\ MaxRetries \in Nat
  /\ Cap \in Nat
  /\ MaxCost \in Nat

VARIABLES
  structured,    (* the turn must end with an object of a schema *)
  listed,        (* the tools that the caller's worker_tools opens *)
  mode,          (* cost_cap_mode *)
  phase,
  reply,         (* what the last answer holds *)
  hops,
  attempt,       (* validation retries made *)
  observed,      (* usage.cost_usd of the answer the turn returns *)
  inner,         (* inner_tool_calls *)
  warned,        (* the warning event was emitted *)
  blocked,       (* a call was refused for its cost *)
  result,        (* how the turn ended *)
  asks,          (* history: provider answers *)
  billed,        (* history: what they cost *)
  lost,          (* history: of that, what the returned answer does not say *)
  ran            (* history: the tools executed *)

vars == <<structured, listed, mode, phase, reply, hops, attempt, observed,
          inner, warned, blocked, result, asks, billed, lost, ran>>
turn == <<structured, listed, mode>>
bill == <<observed, asks, billed, lost>>
outcome == <<blocked, result>>

WithTools == listed # {}

(* An answer that failed; one with a tool_call tag whose body is broken or *)
(* names a tool; a text that fits the schema, or does not.                 *)
Error == [kind |-> "error"]
Malformed == [kind |-> "malformed"]
Call(t) == [kind |-> "call", tool |-> t]
Fits == [kind |-> "fits"]
Misfits == [kind |-> "misfits"]

Reply == {Error, Malformed, Fits, Misfits} \union {Call(t) : t \in Allowlist \union {OtherTool}}

(* Without tools a tag is text like any other. *)
HasTag == WithTools /\ reply.kind \in {"malformed", "call"}
Answered == ~HasTag /\ reply # Error

-----------------------------------------------------------------------------

Init ==
  /\ structured \in BOOLEAN
  /\ listed \in SUBSET Allowlist
  /\ mode \in {"off", "warn", "enforce"}
  /\ phase = "ask"
  /\ reply = Error
  /\ hops = 0
  /\ attempt = 0
  /\ observed = 0
  /\ inner = <<>>
  /\ warned = FALSE
  /\ blocked = FALSE
  /\ result = "none"
  /\ asks = 0
  /\ billed = 0
  /\ lost = 0
  /\ ran = <<>>

(* Mutant: _merge_answer_usage keeps the last answer's usage when tools    *)
(* were called.                                                            *)
MergedLast(cost) == IF inner # <<>> THEN cost ELSE observed + cost

(* _merge_answer_usage; a request without tools keeps its last answer only *)
Merged(cost) == IF WithTools THEN observed + cost ELSE cost

Replaced == IF WithTools THEN 0 ELSE observed

(* A provider answers. An error may have been charged for: its usage is    *)
(* empty, also where it stands for a response that could not be cached.    *)
Asked ==
  \E r \in Reply, cost \in 0 .. MaxCost :
    LET shown == IF r = Error THEN 0 ELSE cost
    IN  /\ reply' = r
        /\ observed' = Merged(shown)
        /\ billed' = billed + cost
        /\ lost' = lost + (cost - shown) + Replaced
        /\ asks' = asks + 1

Ask ==
  /\ phase = "ask"
  /\ Asked
  /\ phase' = "read"
  /\ UNCHANGED <<turn, hops, attempt, inner, warned, outcome, ran>>

End(how) ==
  /\ phase' = "done"
  /\ result' = how
  /\ UNCHANGED <<turn, reply, hops, attempt, bill, inner, warned, blocked, ran>>

Fail ==
  /\ phase = "read"
  /\ reply = Error
  /\ End("error")

Finish ==
  /\ phase = "read"
  /\ Answered
  /\ structured => reply = Fits
  /\ End("answered")

(* Mutant: a rejected object starts the hop budget again. *)
RetryWithHops ==
  /\ phase = "read"
  /\ structured /\ Answered /\ reply # Fits
  /\ IF attempt < MaxRetries
     THEN /\ attempt' = attempt + 1
          /\ hops' = 0
          /\ phase' = "ask"
          /\ UNCHANGED <<turn, reply, bill, inner, warned, outcome, ran>>
     ELSE End("invalid")

(* The object does not fit the schema: one more attempt with the errors. *)
Retry ==
  /\ phase = "read"
  /\ structured /\ Answered /\ reply # Fits
  /\ IF attempt < MaxRetries
     THEN /\ attempt' = attempt + 1
          /\ phase' = "ask"
          /\ UNCHANGED <<turn, reply, hops, bill, inner, warned, outcome, ran>>
     ELSE End("invalid")

Noted(tool, status) == Append(inner, [tool |-> tool, status |-> status])

(* Mutant: a broken tag is asked again for as long as it comes. *)
RepromptFree ==
  /\ phase = "read"
  /\ HasTag /\ reply = Malformed
  /\ inner' = IF inner # <<>> THEN inner ELSE Noted(OtherTool, "parse_error")
  /\ phase' = "ask"
  /\ UNCHANGED <<turn, reply, hops, attempt, bill, warned, outcome, ran>>

(* A broken tag counts as a hop. *)
Reprompt ==
  /\ phase = "read"
  /\ HasTag /\ reply = Malformed
  /\ inner' = Noted(OtherTool, "parse_error")
  /\ IF hops < HopBudget
     THEN phase' = "ask" /\ hops' = hops + 1 /\ UNCHANGED result
     ELSE phase' = "done" /\ result' = "malformed" /\ UNCHANGED hops
  /\ UNCHANGED <<turn, reply, attempt, bill, warned, blocked, ran>>

OverCap == Cap > 0 /\ mode # "off" /\ observed > Cap

(* Mutant: the mode is not looked at. *)
BlockedAnyMode == OverCap

(* _check_cost_cap *)
Blocked == OverCap /\ mode = "enforce"

RefuseOverCap ==
  /\ phase = "read"
  /\ HasTag /\ reply # Malformed
  /\ Blocked
  /\ inner' = Noted(reply.tool, "cost_cap_exceeded")
  /\ warned' = TRUE
  /\ blocked' = TRUE
  /\ phase' = "final"
  /\ UNCHANGED <<turn, reply, hops, attempt, bill, result, ran>>

HopsLeft == hops < HopBudget

RefuseOverBudget ==
  /\ phase = "read"
  /\ HasTag /\ reply # Malformed
  /\ ~Blocked /\ ~HopsLeft
  /\ inner' = Noted(reply.tool, "hop_budget_exhausted")
  /\ warned' = (warned \/ OverCap)
  /\ phase' = "final"
  /\ UNCHANGED <<turn, reply, hops, attempt, bill, outcome, ran>>

(* _worker_tools_dispatch: a tool outside the allowlist, arguments that    *)
(* fail its schema and a tool that raises are refused alike.               *)
Outcomes(t) == IF t \in Allowlist THEN {"ok", "refused"} ELSE {"refused"}

(* The cap is looked at again after the call, on the same usage.           *)
Dispatch ==
  /\ phase = "read"
  /\ HasTag /\ reply # Malformed
  /\ ~Blocked /\ HopsLeft
  /\ \E status \in Outcomes(reply.tool) :
       /\ inner' = Noted(reply.tool, status)
       /\ ran' = IF status = "ok" THEN Append(ran, reply.tool) ELSE ran
  /\ hops' = hops + 1
  /\ warned' = (warned \/ OverCap)
  /\ phase' = "ask"
  /\ UNCHANGED <<turn, reply, attempt, bill, outcome>>

(* The round after a refusal ends the turn, whatever it brings. *)
Final ==
  /\ phase = "final"
  /\ Asked
  /\ phase' = "done"
  /\ result' = IF structured /\ reply' # Fits THEN "invalid"
               ELSE IF reply' = Error THEN "error" ELSE "answered"
  /\ UNCHANGED <<turn, hops, attempt, inner, warned, blocked, ran>>

-----------------------------------------------------------------------------

Step ==
  \/ Ask \/ Fail \/ Finish \/ Retry \/ Reprompt
  \/ RefuseOverCap \/ RefuseOverBudget \/ Dispatch \/ Final

Stopped == phase = "done" /\ UNCHANGED vars

Next == Step \/ Stopped

Spec == Init /\ [][Next]_vars

(* Each provider call returns (ProviderCall) and the loop goes on. *)
LiveSpec == Spec /\ WF_vars(Step)

-----------------------------------------------------------------------------

Entries == [tool : Allowlist \union {OtherTool},
            status : {"parse_error", "cost_cap_exceeded", "hop_budget_exhausted", "ok", "refused"}]

(* The variables have their types. *)
TypeOK ==
  /\ structured \in BOOLEAN
  /\ listed \in SUBSET Allowlist
  /\ mode \in {"off", "warn", "enforce"}
  /\ phase \in {"ask", "read", "final", "done"}
  /\ reply \in Reply
  /\ hops \in 0 .. HopBudget
  /\ attempt \in 0 .. MaxRetries
  /\ observed \in Nat
  /\ inner \in Seq(Entries)
  /\ warned \in BOOLEAN
  /\ blocked \in BOOLEAN
  /\ result \in {"none", "answered", "invalid", "malformed", "error"}
  /\ asks \in Nat
  /\ billed \in Nat
  /\ lost \in Nat
  /\ ran \in Seq(Allowlist)

(* A turn executes at most the hop budget of tools, over all its retries   *)
(* and broken tags.                                                        *)
ToolsWithinBudget == Len(ran) <= HopBudget

(* And it asks its provider a bounded number of times: once, once after    *)
(* each hop and each retry, and once after a refusal.                      *)
AsksBounded == asks <= 1 + HopBudget + MaxRetries + 1

(* What a turn reports as its usage is what its answers cost, those that   *)
(* the loop went past included. Only two things are missing: the charge of *)
(* an error that ends the turn, and, where no tools are open, of a draft   *)
(* that was asked for again.                                               *)
SpendReported ==
  /\ observed + lost = billed
  /\ lost > 0 => reply = Error \/ (~WithTools /\ attempt > 0)

(* Under an enforced cap no tool runs once the answers of the turn have    *)
(* cost more than the cap.                                                 *)
EnforcedStep == Cap > 0 /\ mode = "enforce" /\ ran' # ran => billed <= Cap
EnforcedCapHolds == [][EnforcedStep]_vars

(* The report is consistent: a turn is blocked only under an enforced cap  *)
(* that its usage exceeds, by a warned caller, at its last inner call.     *)
BlockedIsExplained ==
  blocked => /\ mode = "enforce" /\ Cap > 0 /\ billed > Cap /\ warned
             /\ inner[Len(inner)].status = "cost_cap_exceeded"

(* What every step of a turn keeps, of which the properties above are      *)
(* consequences: each answer but the first and the one after a refusal was *)
(* paid for with a hop or a retry, and a refusal is the last inner call.   *)
TurnInv ==
  /\ TypeOK
  /\ asks <= hops + attempt + 2
  /\ phase \in {"read", "final"} => asks <= hops + attempt + 1
  /\ phase = "ask" => asks <= hops + attempt
  /\ Len(ran) <= hops
  /\ SpendReported
  /\ BlockedIsExplained
  /\ blocked => WithTools /\ phase \in {"final", "done"}
  /\ asks = 0 => billed = 0
  /\ phase = "ask" => asks = 0 \/ reply # Error
  /\ phase = "ask" /\ ~WithTools /\ attempt = 0 => asks = 0
  /\ phase = "final" => WithTools /\ reply # Error

(* Every turn ends. *)
TurnEnds == <>(phase = "done")

(* crosscheck_server.py:3155 and tools.schema.json:274: in warn mode a     *)
(* turn whose usage passes the cap has emitted the warning. False when the *)
(* answer that passes it asks for no further tool: the check after a call  *)
(* sees the usage from before the re-prompt.                               *)
ExceededIsWarned ==
  phase = "done" /\ inner # <<>> /\ mode = "warn" /\ Cap > 0 /\ observed > Cap => warned

(* tools.schema.json:270: a worker may request the listed tools. False:    *)
(* a call is held against the allowlist, not against the caller's list.    *)
OnlyListedRun == \A i \in 1 .. Len(ran) : ran[i] \in listed
=============================================================================
