------------------------------- MODULE Solve -------------------------------
(***************************************************************************)
(* tool_solve of src/servers/python/crosscheck_server.py: proposals by     *)
(* turns, the verifier (_verify_proposal), the feedback of a rejection to  *)
(* the next attempt, the commit and the patch. The verifier's subprocess   *)
(* and the search of a pattern are assumed to come to an end.              *)
(***************************************************************************)
EXTENDS Naturals, Sequences, FiniteSets, SequencesExt

CONSTANTS
  Provider,      (* the active providers *)
  MaxAttempts    (* max_attempts *)

SolveAssumption ==
  /\ IsFiniteSet(Provider)
  /\ MaxAttempts \in Nat \ {0}

VARIABLES
  pc,            (* where the call is *)
  args,          (* the kind of verifier, what it asks for, and target_path *)
  panel,         (* the selected providers, in order *)
  time,          (* whether a second of the run's time is left *)
  attempts,      (* the attempts made: provider, answer, feedback and outcome *)
  rejected,      (* last_verification: the attempt it is of, 0 for none *)
  final,         (* the attempt whose proposal is returned, 0 for none *)
  logged,        (* the answers that were committed *)
  patch          (* the attempt the patch is made of, 0 for none *)

request == <<args, panel>>
vars == <<pc, request, time, attempts, rejected, final, logged, patch>>

Verifier == [kind : {"regex_response", "shell", "unknown"},
             contains : BOOLEAN, target : BOOLEAN]

Outcome == {"error", "proposed", "rejected", "accepted"}

Turn == Len(attempts)
Now == attempts[Turn]

-----------------------------------------------------------------------------

Init ==
  /\ pc = "entry"
  /\ args \in Verifier
  /\ panel \in UNION {SetToSeqs(P) : P \in (SUBSET Provider) \ {{}}}
  /\ time \in BOOLEAN
  /\ attempts = <<>>
  /\ rejected = 0 /\ final = 0 /\ patch = 0
  /\ logged = {}

(* No provider, or a tripped session breaker. *)
Refuse ==
  /\ pc = "entry"
  /\ pc' = "refused"
  /\ UNCHANGED <<request, time, attempts, rejected, final, logged, patch>>

Enter ==
  /\ pc = "entry"
  /\ pc' = "loop"
  /\ UNCHANGED <<request, time, attempts, rejected, final, logged, patch>>

(* Mutant: the turn passes on with a verdict only.                         *)
TurnOfVerified == panel[(rejected % Len(panel)) + 1]

(* By turns, wrapping; a turn is spent on a provider's error too. *)
TurnOf == panel[(Turn % Len(panel)) + 1]

(* Mutant: the verdict is dropped with the prompt that held it.            *)
ProposeOnce ==
  /\ pc = "loop"
  /\ Turn < MaxAttempts /\ time
  /\ \E o \in {"error", "proposed"} :
       /\ attempts' = Append(attempts, [provider |-> TurnOf, fed |-> rejected, outcome |-> o])
       /\ pc' = IF o = "error" THEN "loop" ELSE "verify"
  /\ rejected' = 0
  /\ UNCHANGED <<request, time, final, logged, patch>>

(* Mutant: a provider's error does not count as an attempt.                *)
ProposeFree ==
  /\ pc = "loop"
  /\ Turn < MaxAttempts /\ time
  /\ \E o \in {"error", "proposed"} :
       /\ attempts' = IF o = "error" THEN attempts
                      ELSE Append(attempts, [provider |-> TurnOf, fed |-> rejected, outcome |-> o])
       /\ pc' = IF o = "error" THEN "entry" ELSE "verify"
  /\ UNCHANGED <<request, time, rejected, final, logged, patch>>

(* The prompt holds the last rejection there was, of whichever attempt. *)
Propose ==
  /\ pc = "loop"
  /\ Turn < MaxAttempts /\ time
  /\ \E o \in {"error", "proposed"} :
       /\ attempts' = Append(attempts, [provider |-> TurnOf, fed |-> rejected, outcome |-> o])
       /\ pc' = IF o = "error" THEN "loop" ELSE "verify"
  /\ UNCHANGED <<request, time, rejected, final, logged, patch>>

(* What a verifier can say of a proposal. The output is cut to its last    *)
(* 2048 characters before the text is looked for; a pattern or a command   *)
(* that cannot be used, a timeout and an unknown kind reject.              *)
Verdicts ==
  CASE args.kind = "regex_response" -> BOOLEAN
    [] args.kind = "shell" ->
         {exit /\ (args.contains => text = "tail") :
            exit \in BOOLEAN, text \in {"tail", "cut", "absent"}}
    [] OTHER -> {FALSE}

(* Mutant: the loop goes on after a proposal was accepted.                 *)
VerifyOn ==
  /\ pc = "verify"
  /\ \E ok \in Verdicts :
       /\ attempts' = [attempts EXCEPT ![Turn].outcome = IF ok THEN "accepted" ELSE "rejected"]
       /\ rejected' = Turn
       /\ final' = IF ok THEN Turn ELSE final
       /\ pc' = "loop"
  /\ UNCHANGED <<request, time, logged, patch>>

Verify ==
  /\ pc = "verify"
  /\ \E ok \in Verdicts :
       /\ attempts' = [attempts EXCEPT ![Turn].outcome = IF ok THEN "accepted" ELSE "rejected"]
       /\ rejected' = Turn
       /\ final' = IF ok THEN Turn ELSE final
       /\ pc' = IF ok THEN "commit" ELSE "loop"
  /\ UNCHANGED <<request, time, logged, patch>>

(* The temporary directory cannot be made or removed, outside the try. *)
VerifierRaises ==
  /\ pc = "verify" /\ args.kind = "shell"
  /\ pc' = "raised"
  /\ UNCHANGED <<request, time, attempts, rejected, final, logged, patch>>

GiveUp ==
  /\ pc = "loop"
  /\ Turn = MaxAttempts \/ ~time
  /\ pc' = "commit"
  /\ UNCHANGED <<request, time, attempts, rejected, final, logged, patch>>

Collected == 1 .. Turn

Commit ==
  /\ pc = "commit"
  /\ logged' = Collected
  /\ pc' = "patch"
  /\ UNCHANGED <<request, time, attempts, rejected, final, patch>>

(* A preview for a solved problem with a target; none if it cannot be read. *)
Diff ==
  /\ pc = "patch"
  /\ patch' \in IF final > 0 /\ args.target THEN {0, final} ELSE {0}
  /\ pc' = "done"
  /\ UNCHANGED <<request, time, attempts, rejected, final, logged>>

TimeRunsOut ==
  /\ time /\ pc \in {"loop", "verify"}
  /\ time' = FALSE
  /\ UNCHANGED <<pc, request, attempts, rejected, final, logged, patch>>

-----------------------------------------------------------------------------

Ended == pc \in {"refused", "raised", "done"}

Stopped == Ended /\ UNCHANGED vars

Call == \/ Refuse \/ Enter \/ Propose \/ Verify \/ VerifierRaises \/ GiveUp
        \/ Commit \/ Diff

Next == Call \/ TimeRunsOut \/ Stopped

Spec == Init /\ [][Next]_vars

(* One thread, whose requests and verifier return. *)
LiveSpec == Spec /\ WF_vars(Call)

-----------------------------------------------------------------------------

(* The values the variables range over.                                    *)
TypeOK ==
  /\ pc \in {"entry", "loop", "verify", "commit", "patch", "refused", "raised", "done"}
  /\ args \in Verifier
  /\ panel \in UNION {SetToSeqs(P) : P \in (SUBSET Provider) \ {{}}}
  /\ time \in BOOLEAN
  /\ Turn <= MaxAttempts
  /\ \A i \in 1 .. Turn :
       attempts[i] \in [provider : Provider, fed : 0 .. MaxAttempts, outcome : Outcome]
  /\ {rejected, final, patch} \subseteq 0 .. Turn
  /\ logged \subseteq 1 .. Turn

(* A solved problem's proposal, and its patch, are of the one attempt that *)
(* the verifier accepted, and nothing was asked after it; a problem that   *)
(* is not solved has no accepted attempt.                                  *)
SolvedIsVerified ==
  /\ {i \in 1 .. Turn : attempts[i].outcome = "accepted"} = {final} \ {0}
  /\ final > 0 => final = Turn
  /\ patch \in {0, final}

(* The last rejection among the first n attempts, 0 for none.              *)
LastRejection(n) ==
  LET R == {j \in 1 .. n : attempts[j].outcome = "rejected"}
  IN  IF R = {} THEN 0 ELSE CHOOSE j \in R : \A k \in R : k <= j

(* Each attempt is told of the latest rejection before it, be it of        *)
(* another provider or before a provider's error, and of none too early.   *)
FeedbackIsLatest == \A i \in 1 .. Turn : attempts[i].fed = LastRejection(i - 1)

(* A problem is not given up, while there is time, before every attempt is *)
(* spent; with as many attempts as providers each of them had its turn.    *)
EveryoneHadHisTurn ==
  pc = "done" /\ final = 0 /\ time =>
    /\ Turn = MaxAttempts
    /\ Len(panel) <= MaxAttempts =>
         ToSet(panel) = {attempts[i].provider : i \in 1 .. Turn}

(* An answer is recorded once, the failed ones too: the router's statistics *)
(* are made of them.                                                       *)
AnswersCommitted == pc = "done" => logged = 1 .. Turn

(* What every step keeps: who is asked, and what he is told, is settled by *)
(* the attempts before; only a current proposal is undecided; what follows *)
(* the loop has an accepted proposal or has used up attempts or time.      *)
AttemptsInv ==
  /\ TypeOK
  /\ attempts \in Seq([provider : Provider, fed : 0 .. MaxAttempts, outcome : Outcome])
  /\ \A i \in 1 .. Turn : attempts[i].provider = panel[((i - 1) % Len(panel)) + 1]
  /\ FeedbackIsLatest
  /\ pc \in {"entry", "loop", "verify"} => final = 0 /\ rejected = LastRejection(Turn)
  /\ pc \in {"verify", "raised"} => Turn > 0 /\ Now.outcome = "proposed"
  /\ pc \in {"entry", "refused", "raised"} => final = 0 /\ patch = 0
  /\ pc \in {"commit", "patch", "done"} => final # 0 \/ Turn = MaxAttempts \/ ~time
  /\ pc \in {"patch", "done"} => logged = Collected
  /\ SolvedIsVerified

(* A call comes to an end. *)
Terminates == <>Ended

(* README.md:113, "usage_log table holds one row per provider call": false *)
(* when the verifier's directory cannot be made or removed.                *)
EveryCallLogged == Ended => logged = 1 .. Turn
=============================================================================
