-------------------------------- MODULE Pick --------------------------------
(***************************************************************************)
(* tool_pick of src/servers/python/crosscheck_server.py: the two scorers   *)
(* asked first and the early stop, the pools, the aggregation of their     *)
(* scores, the commit and the claim. Options are numbers in the order of   *)
(* their names, 0 stands for a name that is no option; scores are tenths.  *)
(* An object names an option, and an option's criterion, once.             *)
(***************************************************************************)
EXTENDS Integers, Sequences, FiniteSets, FiniteSetsExt, Functions, SequencesExt, Rounding

CONSTANTS
  Provider,      (* the active providers *)
  NOptions,      (* how many options there are *)
  Criterion,     (* the criteria *)
  Weight,        (* the weight of each *)
  Object,        (* the score objects that a provider answers with *)
  Threshold,     (* early_stop_threshold, in tenths *)
  Grain          (* a score of the ranking is a multiple of 1 / Grain: 10000 in the code *)

Option == 1 .. NOptions
Score == 0 .. 10

(* An option's overall score and those by criterion; both may be partial. *)
Entry == [overall : Score, by : UNION {[C -> Score] : C \in SUBSET Criterion}]

(* Means are taken in sixtieths, which up to six scores divide exactly.    *)
MaxScorers == 6
Unit == 60

PickAssumption ==
  /\ IsFiniteSet(Provider) /\ Cardinality(Provider) <= MaxScorers
  /\ NOptions \in Nat /\ NOptions >= 2
  /\ IsFiniteSet(Criterion) /\ Criterion # {}
  /\ Weight \in [Criterion -> Nat]
  /\ \A o \in Object : DOMAIN o \subseteq {0} \union Option /\ \A i \in DOMAIN o : o[i] \in Entry
  /\ Threshold \in Score
  /\ Grain \in Nat \ {0}

VARIABLES
  pc,            (* where the main thread is *)
  early,         (* early_stop *)
  panel,         (* the selected providers, in order *)
  thread,        (* the pool thread of each *)
  object,        (* what each has answered with, no entry when invalid *)
  tripped,       (* what the breakers say of the session with the first answers *)
  stopped,       (* early_stopped *)
  answers,       (* the providers whose answers were committed *)
  top            (* the option of the first row of the ranking, 0 before *)

request == <<early, panel>>
pool == <<thread, object>>
vars == <<pc, request, pool, tripped, stopped, answers, top>>

NoObject == [i \in {} |-> [overall |-> 0, by |-> <<>>]]

-----------------------------------------------------------------------------
(* The scores.                                                             *)

(* A provider's first choice, -1 for none; the later name wins a tie. *)
Choice(o) ==
  IF DOMAIN o = {} THEN -1
  ELSE Max({i \in DOMAIN o : \A j \in DOMAIN o : o[j].overall <= o[i].overall})

First == panel[1]
Second == panel[2]

(* Mutant: one of the two is sure.                                         *)
AgreeEither ==
  LET c == Choice(object[First])
  IN  /\ c # -1 /\ c = Choice(object[Second])
      /\ \E p \in {First, Second} : object[p][c].overall >= Threshold

Agree ==
  LET c == Choice(object[First])
  IN  /\ c # -1 /\ c = Choice(object[Second])
      /\ \A p \in {First, Second} : object[p][c].overall >= Threshold

Scorers(ob, i, c) == {p \in Provider : i \in DOMAIN ob[p] /\ c \in DOMAIN ob[p][i].by}

(* Mutant: a criterion without a score is taken for a middling one.        *)
MeanOrHalf(ob, i, c) ==
  LET S == Scorers(ob, i, c)
  IN  IF S = {} THEN 5 * Unit
      ELSE SumFunctionOnSet([p \in S |-> ob[p][i].by[c] * Unit], S) \div Cardinality(S)

(* The mean of the scores there are, 0 without any. *)
Mean(ob, i, c) ==
  LET S == Scorers(ob, i, c)
  IN  IF S = {} THEN 0
      ELSE SumFunctionOnSet([p \in S |-> ob[p][i].by[c] * Unit], S) \div Cardinality(S)

Total(ob, i) ==
  SumFunctionOnSet([c \in Criterion |-> Mean(ob, i, c) * Weight[c]], Criterion)

AllWeight == SumFunctionOnSet(Weight, Criterion)

(* The weighted score of an option, as rounded for its row, in grains: the *)
(* rows are sorted by it.                                                  *)
Weighted(ob, i) ==
  IF AllWeight = 0 THEN 0 ELSE Nearest(Total(ob, i) * Grain, 10 * Unit * AllWeight)

(* Mutant: the rows are sorted upwards.                                    *)
LeaderUpwards(ob) ==
  Min({i \in Option : \A j \in Option : Weighted(ob, j) >= Weighted(ob, i)})

(* The first row: the highest weighted score, then the earlier name. *)
Leader(ob) ==
  Min({i \in Option : \A j \in Option : Weighted(ob, j) <= Weighted(ob, i)})

-----------------------------------------------------------------------------

Init ==
  /\ pc = "entry"
  /\ early \in BOOLEAN
  /\ panel \in UNION {SetToSeqs(P) : P \in (SUBSET Provider) \ {{}}}
  /\ thread = [p \in Provider |-> "none"]
  /\ object = [p \in Provider |-> NoObject]
  /\ tripped = FALSE /\ stopped = FALSE
  /\ answers = {}
  /\ top = 0

(* Too few options or criteria, no provider, or a tripped session breaker. *)
Refuse ==
  /\ pc = "entry"
  /\ pc' = "refused"
  /\ UNCHANGED <<request, pool, tripped, stopped, answers, top>>

Queue(P) == thread' = [p \in Provider |-> IF p \in P THEN "queued" ELSE thread[p]]

(* Two scorers first when the panel has a third one to save. *)
Enter ==
  /\ pc = "entry"
  /\ IF early /\ Len(panel) >= 3
     THEN Queue({First, Second}) /\ pc' = "first"
     ELSE Queue(ToSet(panel)) /\ pc' = "all"
  /\ UNCHANGED <<request, object, tripped, stopped, answers, top>>

Start(p) ==
  /\ thread[p] = "queued"
  /\ thread' = [thread EXCEPT ![p] = "asking"]
  /\ UNCHANGED <<pc, request, object, tripped, stopped, answers, top>>

(* A valid object, or an answer without one. *)
Scores(p) ==
  /\ thread[p] = "asking"
  /\ \E o \in Object \union {NoObject} : object' = [object EXCEPT ![p] = o]
  /\ thread' = [thread EXCEPT ![p] = "answered"]
  /\ UNCHANGED <<pc, request, tripped, stopped, answers, top>>

Raises(p) ==
  /\ thread[p] = "asking"
  /\ thread' = [thread EXCEPT ![p] = "raised"]
  /\ UNCHANGED <<pc, request, object, tripped, stopped, answers, top>>

Joined == \A p \in Provider : thread[p] \in {"none", "answered", "raised"}

Raised == \E p \in Provider : thread[p] = "raised"

GatherRaises ==
  /\ pc \in {"first", "all"}
  /\ Joined /\ Raised
  /\ pc' = "raised"
  /\ UNCHANGED <<request, pool, tripped, stopped, answers, top>>

StopEarly ==
  /\ pc = "first"
  /\ Joined /\ ~Raised
  /\ Agree
  /\ stopped' = TRUE
  /\ pc' = "commit"
  /\ UNCHANGED <<request, pool, tripped, answers, top>>

(* The rest is asked when the two disagree, and when their agreement came  *)
(* with a tripped breaker.                                                 *)
AskTheRest ==
  /\ pc = "first"
  /\ Joined /\ ~Raised
  /\ tripped' \in IF Agree THEN {TRUE} ELSE {FALSE}
  /\ Queue(ToSet(panel) \ {First, Second})
  /\ pc' = "all"
  /\ UNCHANGED <<request, object, stopped, answers, top>>

GatherAll ==
  /\ pc = "all"
  /\ Joined /\ ~Raised
  /\ pc' = "commit"
  /\ UNCHANGED <<request, pool, tripped, stopped, answers, top>>

(* The ranking, the commit, and the claim on the first row. *)
Commit ==
  /\ pc = "commit"
  /\ answers' = {p \in Provider : thread[p] = "answered"}
  /\ top' = Leader(object)
  /\ pc' = "done"
  /\ UNCHANGED <<request, pool, tripped, stopped>>

-----------------------------------------------------------------------------

Ended == pc \in {"refused", "raised", "done"}

Stopped == Ended /\ UNCHANGED vars

Next ==
  \/ Refuse \/ Enter \/ GatherRaises \/ StopEarly \/ AskTheRest \/ GatherAll \/ Commit
  \/ \E p \in Provider : Start(p) \/ Scores(p) \/ Raises(p)
  \/ Stopped

Spec == Init /\ [][Next]_vars

-----------------------------------------------------------------------------

(* The values the variables range over.                                    *)
TypeOK ==
  /\ pc \in {"entry", "first", "all", "commit", "refused", "raised", "done"}
  /\ early \in BOOLEAN /\ tripped \in BOOLEAN /\ stopped \in BOOLEAN
  /\ panel \in UNION {SetToSeqs(P) : P \in (SUBSET Provider) \ {{}}}
  /\ thread \in [Provider -> {"none", "queued", "asking", "answered", "raised"}]
  /\ object \in [Provider -> Object \union {NoObject}]
  /\ answers \subseteq ToSet(panel)
  /\ top \in {0} \union Option

(* A provider is spared only if there are two others who both put the same *)
(* name first and are both sure of it, with the breakers' leave.           *)
SkippedIsAgreed ==
  pc \in {"commit", "done"} /\ (\E p \in ToSet(panel) : thread[p] = "none") =>
    /\ stopped /\ ~tripped /\ Len(panel) >= 3
    /\ \E i \in {0} \union Option : \A p \in {First, Second} :
         /\ i \in DOMAIN object[p] /\ object[p][i].overall >= Threshold
         /\ \A j \in DOMAIN object[p] : object[p][j].overall <= object[p][i].overall

(* Whoever was asked is in the ledger, of whichever pool, once the call    *)
(* answers; no thread is left behind when it does, or when it raises.      *)
AnswersCommitted ==
  /\ pc = "done" => answers = {p \in ToSet(panel) : thread[p] # "none"}
  /\ pc \in {"commit", "raised", "done"} => Joined

(* The scores of a provider on every option and criterion. *)
Complete(o) ==
  Option \subseteq DOMAIN o /\ \A i \in Option : DOMAIN o[i].by = Criterion

(* When every object is complete, an option is not claimed over one that   *)
(* each of the providers finds at least as good in everything, but for a   *)
(* name after its own and a score that the rounding makes the same.        *)
LeaderIsUndominated ==
  pc = "done" =>
    LET S == {p \in Provider : object[p] # NoObject}
    IN  (\A p \in S : Complete(object[p])) =>
          \A i \in Option :
            (\A p \in S, c \in Criterion : object[p][i].by[c] >= object[p][top].by[c])
            => top <= i /\ Weighted(object, i) = Weighted(object, top)

(* An option that no one has given a score leads only if the weighted      *)
(* score of every option is rounded to zero.                               *)
LeaderIsScored ==
  pc = "done" /\ (\A c \in Criterion : Scorers(object, top, c) = {}) =>
    \A i \in Option : 2 * Total(object, i) * Grain <= 10 * Unit * AllWeight

Called == {p \in Provider : thread[p] # "none"}

(* The inductive invariant: who has been asked, and why no one else.       *)
PickInv ==
  /\ TypeOK
  /\ pc \in {"entry", "refused"} => Called = {}
  /\ pc = "first" => Len(panel) >= 3 /\ Called = {First, Second}
  /\ pc = "all" => Called = ToSet(panel)
  /\ pc \in {"entry", "first"} => ~tripped
  /\ pc \in {"commit", "done"} =>
       /\ Joined /\ ~Raised
       /\ \/ Called = ToSet(panel)
          \/ Called = {First, Second} /\ Len(panel) >= 3 /\ stopped /\ ~tripped /\ Agree
  /\ pc \notin {"first", "all"} => Joined
  /\ pc = "done" => answers = Called /\ top = Leader(object)
  /\ pc # "done" => answers = {} /\ top = 0

(* schema/tools.schema.json:653, "skip the remaining panel iff they agree  *)
(* on the same top option AND both rate it" high enough: false, a tripped  *)
(* breaker makes the call ask the rest.                                    *)
SkippedIffAgreed ==
  pc = "done" /\ early /\ Len(panel) >= 3 => (stopped <=> Agree)

(* README.md:62, early stop "skips the rest when they agree on the top     *)
(* option": the option that the answer ranks first need not be that one.   *)
AgreedRanksFirst == pc = "done" /\ stopped => top = Choice(object[First])
=============================================================================
