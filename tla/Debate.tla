------------------------------- MODULE Debate -------------------------------
(***************************************************************************)
(* tool_debate of src/servers/python/crosscheck_server.py: rounds of turns *)
(* one after the other, the convergence judge after a round, the           *)
(* moderator's synthesis, the claims extractor, the commit and the claims  *)
(* kept afterwards. Time passes between any two calls.                     *)
(***************************************************************************)
EXTENDS Naturals, Sequences, FiniteSets, SequencesExt

CONSTANTS
  Panel,         (* how many providers debate *)
  MaxRounds,     (* max_rounds *)
  Cap,           (* max_session_tokens, 0 disables the breaker *)
  MaxCost,       (* bound: tokens of one answer, and of all that is lost *)
  MaxClaims      (* bound: claims of a structured synthesis *)

DebateAssumption ==
  /\ Panel \in Nat /\ Panel >= 2
  /\ {MaxRounds, Cap, MaxCost, MaxClaims} \subseteq Nat

VARIABLES
  pc,            (* where the tool is *)
  clock,         (* what is left of the time budget *)
  args,          (* early_stop, structured, extract_claims, session given *)
  prior,         (* the tokens of the session on entry *)
  turns,         (* per round, which of its turns are clean answers *)
  spent,         (* the tokens of the transcript *)
  thisRound,     (* of which those of this round's clean answers *)
  stopped,       (* early_stopped_round, 0 for None *)
  extras,        (* the tokens of the judges (agreement_extras) *)
  synthesis,     (* the tokens of the synthesis and whether it parsed *)
  extractor,     (* the tokens of the claims extractor *)
  claims,        (* the claims kept *)
  paid,          (* history: the tokens of all answers *)
  lost,          (* history: of those, the ones that no answer reports *)
  logged         (* what the commit recorded *)

transcript == <<turns, spent, thisRound>>
verdict == <<stopped, extras>>
given == <<args, prior>>
ledger == <<paid, lost, logged>>
vars == <<pc, clock, given, transcript, verdict, synthesis, extractor, claims, ledger>>

Cost == 0 .. MaxCost

Tripped(total) == Cap > 0 /\ total >= Cap

Clean(round) == Cardinality({i \in DOMAIN round : round[i]})

-----------------------------------------------------------------------------

Init ==
  /\ pc = "entry"
  /\ clock = "ample"
  /\ args \in [early : BOOLEAN, structured : BOOLEAN, claims : BOOLEAN, session : BOOLEAN]
  /\ prior \in IF args.session THEN 0 .. Cap ELSE {0}
  /\ turns = <<>>
  /\ spent = 0 /\ thisRound = 0
  /\ stopped = 0 /\ extras = 0
  /\ synthesis = [cost |-> 0, parsed |-> FALSE]
  /\ extractor = 0 /\ claims = 0
  /\ paid = 0 /\ lost = 0 /\ logged = 0

(* At most a second is left; after the last call nobody asks. *)
Elapse ==
  /\ clock = "ample"
  /\ pc \in {"round", "turn", "judge", "synthesis", "claims"}
  /\ clock' = "out"
  /\ UNCHANGED <<pc, given, transcript, verdict, synthesis, extractor, claims, ledger>>

Enter ==
  /\ pc = "entry"
  /\ pc' = IF args.session /\ Tripped(prior) THEN "refused" ELSE "round"
  /\ UNCHANGED <<clock, given, transcript, verdict, synthesis, extractor, claims, ledger>>

Round ==
  /\ pc = "round"
  /\ IF clock = "ample" /\ Len(turns) < MaxRounds
     THEN pc' = "turn" /\ turns' = Append(turns, <<>>) /\ thisRound' = 0
     ELSE pc' = "synthesis" /\ UNCHANGED <<turns, thisRound>>
  /\ UNCHANGED <<clock, given, spent, verdict, synthesis, extractor, claims, ledger>>

(* Mutant: a failed turn ends the round. *)
RoundOverAtFailure ==
  clock # "ample" \/ Len(Last(turns)) = Panel \/ \E i \in DOMAIN Last(turns) : ~Last(turns)[i]

RoundOver == clock # "ample" \/ Len(Last(turns)) = Panel

(* What answers report and what they do not, a charged error or a draft    *)
(* that was asked for again.                                               *)
Spend(c, d) ==
  /\ lost + d <= MaxCost
  /\ paid' = paid + c + d
  /\ lost' = lost + d

(* An answer, paid for; or an empty one, which is as well; or an error,    *)
(* which reports nothing, also when it stands for a charged response.      *)
Turn ==
  /\ pc = "turn"
  /\ ~RoundOver
  /\ \E clean \in BOOLEAN, c, d \in Cost :
       /\ d > 0 => c = 0 /\ ~clean
       /\ turns' = [turns EXCEPT ![Len(turns)] = Append(@, clean)]
       /\ spent' = spent + c
       /\ thisRound' = IF clean THEN thisRound + c ELSE thisRound
       /\ Spend(c, d)
  /\ UNCHANGED <<pc, clock, given, verdict, synthesis, extractor, claims, logged>>

EndRound ==
  /\ pc = "turn"
  /\ RoundOver
  /\ pc' = "judge"
  /\ UNCHANGED <<clock, given, transcript, verdict, synthesis, extractor, claims, ledger>>

(* Mutant: converged in a round of which one turn is clean. *)
MayJudgeLone ==
  /\ args.early /\ Len(turns) < MaxRounds /\ clock = "ample"
  /\ Clean(Last(turns)) >= 1
  /\ ~(args.session /\ Tripped(prior + thisRound))

(* Rounds are left, two turns at least are clean, and the breaker would    *)
(* let the session with this round's answers pass.                         *)
MayJudge ==
  /\ args.early
  /\ Len(turns) < MaxRounds
  /\ clock = "ample"
  /\ Clean(Last(turns)) >= 2
  /\ ~(args.session /\ Tripped(prior + thisRound))

Judge ==
  /\ pc = "judge"
  /\ MayJudge
  /\ \E c, d \in Cost, yes \in BOOLEAN :
       /\ d > 0 => c = 0 /\ ~yes
       /\ extras' = extras + c
       /\ Spend(c, d)
       /\ stopped' = IF yes THEN Len(turns) ELSE 0
       /\ pc' = IF yes THEN "synthesis" ELSE "round"
  /\ UNCHANGED <<clock, given, transcript, synthesis, extractor, claims, logged>>

SkipJudge ==
  /\ pc = "judge"
  /\ ~MayJudge
  /\ pc' = "round"
  /\ UNCHANGED <<clock, given, transcript, verdict, synthesis, extractor, claims, ledger>>

(* One answer, or an error; structured, a draft as well that is replaced. *)
Synthesize ==
  /\ pc = "synthesis"
  /\ clock = "ample"
  /\ \E c, d \in Cost, parsed \in BOOLEAN :
       /\ ~args.structured => (c = 0 \/ d = 0) /\ ~parsed
       /\ synthesis' = [cost |-> c, parsed |-> parsed]
       /\ Spend(c, d)
  /\ pc' = "claims"
  /\ UNCHANGED <<clock, given, transcript, verdict, extractor, claims, logged>>

SkipSynthesis ==
  /\ pc = "synthesis"
  /\ clock # "ample"
  /\ pc' = "claims"
  /\ UNCHANGED <<clock, given, transcript, verdict, synthesis, extractor, claims, ledger>>

(* Of the last round in which someone spoke. *)
MayExtract ==
  LET spoken == SelectSeq(turns, LAMBDA round : round # <<>>)
  IN  /\ args.claims
      /\ clock = "ample"
      /\ spoken # <<>>
      /\ Clean(Last(spoken)) >= 2

Extract ==
  /\ pc = "claims"
  /\ MayExtract
  /\ \E c, d \in Cost : extractor' = c /\ Spend(c, d)
  /\ pc' = "commit"
  /\ UNCHANGED <<clock, given, transcript, verdict, synthesis, claims, logged>>

SkipExtract ==
  /\ pc = "claims"
  /\ ~MayExtract
  /\ pc' = "commit"
  /\ UNCHANGED <<clock, given, transcript, verdict, synthesis, extractor, claims, ledger>>

(* _session_record, _session_save and log_usage of all_answers. *)
Commit ==
  /\ pc = "commit"
  /\ logged' = spent + synthesis.cost + extractor + extras
  /\ pc' = "persist"
  /\ UNCHANGED <<clock, given, transcript, verdict, synthesis, extractor, claims,
                 paid, lost>>

(* Claims are kept one by one, until there are no more or one fails. *)
Keep ==
  /\ pc = "persist"
  /\ args.session /\ synthesis.parsed
  /\ claims < MaxClaims
  /\ claims' = claims + 1
  /\ UNCHANGED <<pc, clock, given, transcript, verdict, synthesis, extractor, ledger>>

Answer ==
  /\ pc = "persist"
  /\ pc' = "done"
  /\ UNCHANGED <<clock, given, transcript, verdict, synthesis, extractor, claims, ledger>>

(* A provider call raises (its cache lookup may). *)
Raise ==
  /\ \/ pc = "turn" /\ ~RoundOver
     \/ pc = "judge" /\ MayJudge
     \/ pc = "synthesis" /\ clock = "ample"
     \/ pc = "claims" /\ MayExtract
  /\ \E d \in Cost : Spend(0, d)
  /\ pc' = "raised"
  /\ UNCHANGED <<clock, given, transcript, verdict, synthesis, extractor, claims, logged>>

-----------------------------------------------------------------------------

Run ==
  \/ Enter \/ Round \/ Turn \/ EndRound \/ Judge \/ SkipJudge \/ Synthesize
  \/ SkipSynthesis \/ Extract \/ SkipExtract \/ Commit \/ Keep \/ Answer \/ Raise

Ended == pc \in {"refused", "raised", "done"}

Stopped == Ended /\ UNCHANGED vars

Next == Run \/ Elapse \/ Stopped

Spec == Init /\ [][Next]_vars

(* One thread, every call of which returns. *)
LiveSpec == Spec /\ WF_vars(Run)

-----------------------------------------------------------------------------

(* The variables have their types; no round has more turns than the panel, *)
(* and there are no more rounds than were asked for.                       *)
TypeOK ==
  /\ pc \in {"entry", "round", "turn", "judge", "synthesis", "claims", "commit",
             "persist", "done", "refused", "raised"}
  /\ clock \in {"ample", "out"}
  /\ prior \in 0 .. Cap
  /\ Len(turns) <= MaxRounds
  /\ \A r \in DOMAIN turns : turns[r] \in BoundedSeq(BOOLEAN, Panel)
  /\ thisRound \in 0 .. spent
  /\ stopped \in 0 .. MaxRounds
  /\ synthesis \in [cost : Cost, parsed : BOOLEAN]
  /\ extractor \in Cost
  /\ claims \in 0 .. MaxClaims
  /\ {spent, extras, paid, lost, logged} \subseteq Nat

(* A turn that failed, or a request for an object: judge, claims, synthesis. *)
MayLose ==
  \/ args.early \/ args.claims \/ args.structured
  \/ \E r \in DOMAIN turns : \E i \in DOMAIN turns[r] : ~turns[r][i]

(* Once committed, all that the answers report is on record: those of all  *)
(* rounds, every judge's, the synthesis and the extractor's; keeping       *)
(* claims, even when it fails half-way, does not change that. What is      *)
(* missing was charged for an error or spent on a replaced draft: nothing  *)
(* of a debate whose turns are all clean, with no judge and no request for *)
(* an object, and whose one synthesis reports what it cost.                *)
AnswersCommitted ==
  pc \in {"persist", "done"} =>
    /\ logged + lost = paid
    /\ lost > 0 => MayLose \/ synthesis.cost = 0

(* Every panelist speaks in every round, failed or not, but in the round   *)
(* in which time runs out.                                                 *)
RoundsWhole ==
  pc \notin {"turn", "raised"} =>
    \A r \in DOMAIN turns :
      Len(turns[r]) # Panel => r = Len(turns) /\ clock # "ample"

(* A debate is shorter than asked for only when time ran out, or when two  *)
(* clean answers at least were found to agree with rounds left to save.    *)
ShortDebateIsAgreed ==
  pc \in {"synthesis", "claims", "commit", "persist", "done"} =>
    \/ clock # "ample"
    \/ stopped = 0 /\ Len(turns) = MaxRounds
    \/ /\ stopped = Len(turns)
       /\ stopped < MaxRounds
       /\ Clean(Last(turns)) >= 2

(* The inductive invariant: the rounds so far, and what has been paid.     *)
DebateInv ==
  /\ TypeOK
  /\ turns \in Seq(Seq(BOOLEAN))
  /\ RoundsWhole
  /\ pc \in {"turn", "judge"} => turns # <<>>
  /\ pc = "turn" => \A r \in 1 .. Len(turns) - 1 : Len(turns[r]) = Panel
  /\ pc \in {"entry", "round", "turn", "judge"} => stopped = 0
  /\ ShortDebateIsAgreed
  /\ paid = spent + synthesis.cost + extractor + extras + lost
  /\ lost > 0 => \/ MayLose \/ pc = "raised"
                \/ /\ pc \in {"claims", "commit", "persist", "done"}
                   /\ synthesis.cost = 0
  /\ pc \in {"entry", "round", "turn", "judge", "synthesis"} => synthesis.cost = 0
  /\ pc \in {"entry", "round", "turn", "judge", "synthesis", "claims"} => extractor = 0
  /\ AnswersCommitted

(* A debate ends, with or without time. *)
Terminates == <>Ended

(* README.md:320: the breaker check projects the cost in flight, so that   *)
(* the judge is not asked past the cap. False from the second round on.    *)
JudgeWithinCap ==
  [][extras' # extras /\ args.session /\ Cap > 0 => prior + paid < Cap]_vars
=============================================================================
