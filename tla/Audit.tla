------------------------------- MODULE Audit -------------------------------
(***************************************************************************)
(* tool_audit of src/servers/python/crosscheck_server.py: who may judge,   *)
(* the judges' pool, the commit and the aggregation of their verdicts      *)
(* (_select_auditor, _select_audit_judges, _coalesce_audit_items). Scores  *)
(* are tenths. What a failed audit does to the session's memory is in      *)
(* Memory, what a pipeline makes of the score in Pipeline.                 *)
(***************************************************************************)
EXTENDS Integers, FiniteSets, FiniteSetsExt, Functions

CONSTANTS
  Provider,      (* the registered providers *)
  Item,          (* the items of the rubric *)
  Severity,      (* the severity of each *)
  Score,         (* the scores a judge gives, in tenths *)
  MaxJudges      (* max_judges *)

AuditAssumption ==
  /\ IsFiniteSet(Provider)
  /\ IsFiniteSet(Item) /\ Item # {}
  /\ Severity \in [Item -> {"high", "med", "low"}]
  /\ Score \subseteq 0 .. 10
  /\ MaxJudges \in Nat \ {0}

VARIABLES
  pc,            (* where the main thread is *)
  args,          (* the panel that produced the output, and the flags *)
  mode,          (* single, coalesced or coalesced_self *)
  judges,        (* the judges, the auditor when there is one only *)
  thread,        (* the pool thread of each judge *)
  verdict,       (* the items a judge's object grades, and their grades *)
  answers,       (* the judges whose last answers were committed *)
  passed         (* the verdict of the audit *)

request == <<args, mode, judges>>
vars == <<pc, request, thread, verdict, answers, passed>>

Grade == [score : Score, pass : BOOLEAN]

(* The items that a valid object holds: the schema asks for none of them.  *)
Verdict == UNION {[I -> Grade] : I \in SUBSET Item}

NoVerdict == [i \in {} |-> [score |-> 0, pass |-> FALSE]]

-----------------------------------------------------------------------------
(* The aggregation, of the verdicts v of the judges J.                     *)

Graders(v, J, i) == {p \in J : i \in DOMAIN v[p]}

ScoreOf(v, i, p) == v[p][i].score

(* The k-th smallest score. *)
Ranked(v, G, i, k) ==
  Min({s \in Score : Cardinality({p \in G : ScoreOf(v, i, p) <= s}) >= k})

(* statistics.median, doubled: the two in the middle of an even number. *)
TwiceMedian(v, G, i) ==
  LET n == Cardinality(G)
  IN  Ranked(v, G, i, (n + 1) \div 2) + Ranked(v, G, i, n \div 2 + 1)

Ayes(v, G, i) == {p \in G : v[p][i].pass}

Spread(v, G, i) ==
  LET S == {ScoreOf(v, i, p) : p \in G} IN IF S = {} THEN 0 ELSE Max(S) - Min(S)

(* Mutant: the squares are compared without the number of judges.          *)
DeviatesUnweighed(v, G, i) ==
  LET x == [p \in G |-> ScoreOf(v, i, p)]
      n == Cardinality(G)
      sum == SumFunction(x)
  IN  n * SumFunction([p \in G |-> x[p] * x[p]]) - sum * sum > 9 * n

(* pstdev > 0.3, squared and without a division. *)
Deviates(v, G, i) ==
  LET x == [p \in G |-> ScoreOf(v, i, p)]
      n == Cardinality(G)
      sum == SumFunction(x)
  IN  n * SumFunction([p \in G |-> x[p] * x[p]]) - sum * sum > 9 * n * n

Disputed(v, J, i) ==
  LET G == Graders(v, J, i)
  IN  IF Cardinality(G) >= 3 THEN Deviates(v, G, i) ELSE Spread(v, G, i) > 4

(* Mutant: a tie passes when the scores of its judges are low.             *)
MajorityTie(v, G, i) ==
  LET a == 2 * Cardinality(Ayes(v, G, i))
      n == Cardinality(G)
  IN  a > n \/ (a = n /\ TwiceMedian(v, G, i) < 14)

Majority(v, G, i) ==
  LET a == 2 * Cardinality(Ayes(v, G, i))
      n == Cardinality(G)
  IN  a > n \/ (a = n /\ TwiceMedian(v, G, i) >= 14)

(* In strict mode a judge that failed to grade the item has failed it. *)
Unanimous(v, J, i) == Ayes(v, Graders(v, J, i), i) = J

ItemPasses(v, J, strict, i) ==
  LET G == Graders(v, J, i)
  IN  G # {} /\ IF strict THEN Unanimous(v, J, i) ELSE Majority(v, G, i)

(* Mutant: one item that passes is enough.                                 *)
PassesSome(v, J, strict) == \E i \in Item : ItemPasses(v, J, strict, i)

Passes(v, J, strict) == \A i \in Item : ItemPasses(v, J, strict, i)

(* The scores that flag an item as an obvious failure, whoever passed it. *)
Obvious(i) ==
  IF Severity[i] = "high" THEN 0 .. 2 ELSE IF Severity[i] = "med" THEN 0 .. 1 ELSE {}

Offenders(v, J, i) == {p \in Graders(v, J, i) : ScoreOf(v, i, p) \in Obvious(i)}

(* The k-th smallest of the medians m of the items I.                      *)
Kth(m, I, k) ==
  Min({m[i] : i \in {j \in I : Cardinality({l \in I : m[l] <= m[j]}) >= k}})

(* Mutant: the items that fail are left out of the median.                 *)
OverallOfPassed(v, J) ==
  LET I == {i \in Item : ItemPasses(v, J, FALSE, i)}
      n == Cardinality(I)
      m == [i \in I |-> TwiceMedian(v, Graders(v, J, i), i)]
  IN  IF I = {} THEN -1 ELSE Kth(m, I, (n + 1) \div 2) + Kth(m, I, n \div 2 + 1)

(* The median of the graded items' scores, four times; -1 without any.     *)
Overall(v, J) ==
  LET I == {i \in Item : Graders(v, J, i) # {}}
      n == Cardinality(I)
      m == [i \in I |-> TwiceMedian(v, Graders(v, J, i), i)]
  IN  IF I = {} THEN -1 ELSE Kth(m, I, (n + 1) \div 2) + Kth(m, I, n \div 2 + 1)

-----------------------------------------------------------------------------

Init ==
  /\ pc = "entry"
  /\ args \in [producing : SUBSET Provider, allow_self : BOOLEAN,
               coalesce : BOOLEAN, strict : BOOLEAN]
  /\ mode = "none"
  /\ judges = {}
  /\ thread = [p \in Provider |-> "none"]
  /\ verdict = [p \in Provider |-> NoVerdict]
  /\ answers = {}
  /\ passed = FALSE

Exclude == IF args.allow_self THEN {} ELSE args.producing

Outside == Provider \ Exclude

(* coalesce is switched on when the producing panel exhausts the pool. *)
Coalesces == args.coalesce \/ Outside = {}

(* Nothing to audit, no providers, a tripped session breaker. *)
Refuse ==
  /\ pc = "entry"
  /\ pc' = "refused"
  /\ UNCHANGED <<request, thread, verdict, answers, passed>>

(* One auditor from outside: the one named, the cheapest of the tier, the  *)
(* moderator or any other. A name that will not do is refused.             *)
SelectAuditor ==
  /\ pc = "entry"
  /\ ~Coalesces
  /\ \E p \in Outside : judges' = {p} /\ thread' = [thread EXCEPT ![p] = "queued"]
  /\ mode' = "single"
  /\ pc' = "pool"
  /\ UNCHANGED <<args, verdict, answers, passed>>

(* Mutant: the panel fills the places that the others leave.               *)
SelectJudgesFilled ==
  /\ pc = "entry"
  /\ Coalesces /\ Provider # {}
  /\ mode' = IF Outside # {} THEN "coalesced" ELSE "coalesced_self"
  /\ \E J \in SUBSET Provider :
       /\ Cardinality(J) = Min({MaxJudges, Cardinality(Provider)})
       /\ judges' = J
       /\ thread' = [p \in Provider |-> IF p \in J THEN "queued" ELSE "none"]
  /\ pc' = "pool"
  /\ UNCHANGED <<args, verdict, answers, passed>>

(* Mutant: max_judges is not asked for.                                    *)
SelectJudgesAll ==
  /\ pc = "entry"
  /\ Coalesces /\ Provider # {}
  /\ mode' = IF Outside # {} THEN "coalesced" ELSE "coalesced_self"
  /\ judges' = IF Outside # {} THEN Outside ELSE Provider
  /\ thread' = [p \in Provider |-> IF p \in judges' THEN "queued" ELSE "none"]
  /\ pc' = "pool"
  /\ UNCHANGED <<args, verdict, answers, passed>>

(* The router's order decides who of them sits. *)
SelectJudges ==
  /\ pc = "entry"
  /\ Coalesces /\ Provider # {}
  /\ mode' = IF Outside # {} THEN "coalesced" ELSE "coalesced_self"
  /\ LET pool == IF Outside # {} THEN Outside ELSE Provider
     IN  \E J \in SUBSET pool :
           /\ Cardinality(J) = Min({MaxJudges, Cardinality(pool)})
           /\ judges' = J
           /\ thread' = [p \in Provider |-> IF p \in J THEN "queued" ELSE "none"]
  /\ pc' = "pool"
  /\ UNCHANGED <<args, verdict, answers, passed>>

Start(p) ==
  /\ thread[p] = "queued"
  /\ thread' = [thread EXCEPT ![p] = "asking"]
  /\ UNCHANGED <<pc, request, verdict, answers, passed>>

Asking(p) == thread[p] \in {"asking", "asking again"}

(* No valid object: _request_structured asks once more. The first answer   *)
(* is dropped, and with it what it was charged.                            *)
Redraft(p) ==
  /\ thread[p] = "asking"
  /\ thread' = [thread EXCEPT ![p] = "asking again"]
  /\ UNCHANGED <<pc, request, verdict, answers, passed>>

(* A valid object, which need not grade every item. *)
Judge(p) ==
  /\ Asking(p)
  /\ thread' = [thread EXCEPT ![p] = "valid"]
  /\ \E v \in Verdict : verdict' = [verdict EXCEPT ![p] = v]
  /\ UNCHANGED <<pc, request, answers, passed>>

(* An error of _ask_one, which may stand for a charged response, or no     *)
(* object after the retry.                                                 *)
NoObject(p) ==
  /\ Asking(p)
  /\ thread' = [thread EXCEPT ![p] = "invalid"]
  /\ UNCHANGED <<pc, request, verdict, answers, passed>>

Raises(p) ==
  /\ Asking(p)
  /\ thread' = [thread EXCEPT ![p] = "raised"]
  /\ UNCHANGED <<pc, request, verdict, answers, passed>>

Joined == \A p \in judges : thread[p] \in {"valid", "invalid", "raised"}

Answered == {p \in judges : thread[p] \in {"valid", "invalid"}}

Commit ==
  /\ answers' = Answered
  /\ passed' = Passes(verdict, judges, args.strict)
  /\ pc' = "done"

(* The one auditor's exception is the call's. *)
GatherSingle ==
  /\ pc = "pool" /\ mode = "single"
  /\ Joined
  /\ IF \E p \in judges : thread[p] = "raised"
     THEN pc' = "raised" /\ UNCHANGED <<answers, passed>>
     ELSE Commit
  /\ UNCHANGED <<request, thread, verdict>>

(* Mutant: a judge that raises takes the pool's results with it.           *)
GatherLoses ==
  /\ pc = "pool" /\ mode # "single"
  /\ Joined
  /\ IF \E p \in judges : thread[p] = "raised"
     THEN pc' = "raised" /\ UNCHANGED <<answers, passed>>
     ELSE Commit
  /\ UNCHANGED <<request, thread, verdict>>

(* The judges' exceptions were caught by their threads. *)
Gather ==
  /\ pc = "pool" /\ mode # "single"
  /\ Joined
  /\ Commit
  /\ UNCHANGED <<request, thread, verdict>>

-----------------------------------------------------------------------------

Ended == pc \in {"refused", "raised", "done"}

Stopped == Ended /\ UNCHANGED vars

Pool(p) == Start(p) \/ Redraft(p) \/ Judge(p) \/ NoObject(p) \/ Raises(p)

Next ==
  \/ Refuse \/ SelectAuditor \/ SelectJudges
  \/ \E p \in Provider : Pool(p)
  \/ GatherSingle \/ Gather
  \/ Stopped

Spec == Init /\ [][Next]_vars

-----------------------------------------------------------------------------

(* The values the variables range over.                                    *)
TypeOK ==
  /\ pc \in {"entry", "pool", "refused", "raised", "done"}
  /\ args \in [producing : SUBSET Provider, allow_self : BOOLEAN,
               coalesce : BOOLEAN, strict : BOOLEAN]
  /\ mode \in {"none", "single", "coalesced", "coalesced_self"}
  /\ judges \subseteq Provider
  /\ Cardinality(judges) <= MaxJudges
  /\ thread \in [Provider -> {"none", "queued", "asking", "asking again", "valid",
                          "invalid", "raised"}]
  /\ \A p \in Provider : verdict[p] \in Verdict
  /\ answers \subseteq judges
  /\ passed \in BOOLEAN

(* No one grades his own work unless the caller allows it or there is no   *)
(* one who has not taken part.                                             *)
SelfGradingIsExcused ==
  judges \intersect args.producing # {} =>
    args.allow_self \/ args.producing = Provider

(* A judge that fails or raises does not take the others' answers with it: *)
(* the last answer of everyone who gave one is committed. What a judge was *)
(* charged for a draft before it, or for a response that _ask_one turned   *)
(* into an error, is no part of that answer.                               *)
AnswersCommitted == Ended => answers = Answered

(* In strict mode an audit passes only if every judge that was dispatched  *)
(* has answered and passed every item.                                     *)
StrictIsUnanimous ==
  pc = "done" /\ args.strict /\ passed =>
    \A p \in judges, i \in Item :
      thread[p] = "valid" /\ i \in DOMAIN verdict[p] /\ verdict[p][i].pass

(* An audit passes on votes: each item has a judge who passed it, not      *)
(* fewer who did than who did not, and a tie is not broken in favour of an *)
(* item that half of its judges call an obvious failure.                   *)
PassIsVotedFor ==
  pc = "done" /\ passed =>
    \A i \in Item :
      LET G == Graders(verdict, judges, i)
          ayes == Cardinality({p \in G : verdict[p][i].pass})
          noes == Cardinality({p \in G : ~verdict[p][i].pass})
      IN  /\ ayes >= noes /\ ayes > 0
          /\ ayes = noes => Cardinality(Offenders(verdict, judges, i)) < ayes

(* Verdicts that grade no item lower and fail none that v passes. *)
Improves(w, v) ==
  /\ DOMAIN w = DOMAIN v
  /\ \A i \in DOMAIN v : w[i].score >= v[i].score /\ (v[i].pass => w[i].pass)

(* A judge who thinks better of the output never makes an audit fail that  *)
(* passed, or lowers its overall score, which decides on the retry of a    *)
(* pipeline.                                                               *)
BetterIsNoWorse ==
  pc = "done" /\ mode # "single" =>
    \A p \in judges :
      \A w \in {u \in Verdict : Improves(u, verdict[p])} :
        LET better == [verdict EXCEPT ![p] = w]
        IN  /\ passed => Passes(better, judges, args.strict)
            /\ Overall(better, judges) >= Overall(verdict, judges)

(* The two measures of disagreement agree: an item is never disputed       *)
(* between judges whose scores lie within 0.4 of each other.               *)
DisputeHasSpread ==
  pc = "done" => \A i \in Item :
    Disputed(verdict, judges, i) => Spread(verdict, Graders(verdict, judges, i), i) > 4

(* What every step of an audit keeps: who sits was settled once, a thread  *)
(* works for a judge only and none when the pool has been joined, and only *)
(* a valid object is a verdict.                                            *)
AuditInv ==
  /\ TypeOK
  /\ verdict \in [Provider -> Verdict]
  /\ \A p \in Provider :
       /\ thread[p] = "none" <=> p \notin judges
       /\ thread[p] # "valid" => verdict[p] = NoVerdict
  /\ pc = "entry" => judges = {} /\ mode = "none"
  /\ ~Ended => answers = {}
  /\ mode = "single" => \E p \in Provider : judges = {p}
  /\ Ended => Joined
  /\ AnswersCommitted
  /\ SelfGradingIsExcused
  /\ pc = "done" => passed = Passes(verdict, judges, args.strict)

(* README.md:464-466, no auditor is an error "rather than running anyway", *)
(* and only allow_self_audit lets the panel in: false, the panel judges    *)
(* itself when it is everyone.                                             *)
OnlyAllowedSelfAudits ==
  judges \intersect args.producing # {} => args.allow_self

(* The docstring of _select_audit_judges, "coalesced" means judges "all    *)
(* outside the producing panel": false once allow_self_audit has emptied   *)
(* the exclusions.                                                         *)
CoalescedIsOutside == mode = "coalesced" => judges \intersect args.producing = {}
=============================================================================
