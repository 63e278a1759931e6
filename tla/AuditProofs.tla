----------------------------- MODULE AuditProofs ------------------------------
(***************************************************************************)
(* The aggregation of the judges of an audit, for any number of judges,    *)
(* items and scores and any bound on the judges. AuditInv is inductive:    *)
(* who sits is settled by one step and a thread works for one judge. What  *)
(* the verdicts are worth is about the operators alone: ranks and medians  *)
(* rise with the scores they rank, so a better grade helps; half of the    *)
(* judges calling an item an obvious failure keep its median below what    *)
(* breaks a tie; and a dispute between three or more, which is decided on  *)
(* a standard deviation, has the spread that decides between two.          *)
(***************************************************************************)
EXTENDS Audit, SetProofs

(* An audit begins with nobody seated. *)
LEMMA Starts == AuditAssumption /\ Init => AuditInv
<1>. SUFFICES ASSUME AuditAssumption, Init PROVE AuditInv
  OBVIOUS
<1>. USE DEF AuditAssumption, Init
<1>1. NoVerdict \in Verdict
  <2>1. {} \in SUBSET Item /\ NoVerdict \in [{} -> Grade]
    BY DEF NoVerdict
  <2>. QED
    BY <2>1 DEF Verdict
<1>2. verdict \in [Provider -> Verdict] /\ \A p \in Provider : verdict[p] = NoVerdict
  BY <1>1
<1>3. TypeOK
  <2>1. Cardinality(judges) <= MaxJudges
    BY FS_EmptySet
  <2>2. passed \in BOOLEAN
    OBVIOUS
  <2>. QED
    BY <1>2, <2>1, <2>2 DEF TypeOK
<1>. QED
  BY <1>2, <1>3 DEF AuditInv, Ended, Joined, AnswersCommitted, SelfGradingIsExcused

(* Who judges is settled before a thread is started, and is somebody of    *)
(* the panel only when that is allowed or nobody else is there.            *)
LEMMA SeatsAreFair ==
  ASSUME AuditAssumption, AuditInv, SelectAuditor \/ SelectJudges
  PROVE  AuditInv'
<1>. USE DEF AuditAssumption, AuditInv
<1>1. /\ pc = "entry" /\ pc' = "pool"
      /\ UNCHANGED <<args, verdict, answers, passed>>
      /\ judges = {} /\ answers = {}
  BY DEF SelectAuditor, SelectJudges, Ended
<1>2. Outside \subseteq Provider /\ (args.allow_self \/ Outside \cap args.producing = {})
  BY DEF Outside, Exclude
<1>3. /\ judges' \subseteq Provider /\ Cardinality(judges') <= MaxJudges
      /\ mode' \in {"single", "coalesced", "coalesced_self"}
      /\ thread' \in [Provider -> {"none", "queued", "asking", "asking again", "valid",
                          "invalid", "raised"}]
      /\ \A p \in Provider : thread'[p] # "valid" /\ (thread'[p] = "none" <=> p \notin judges')
      /\ mode' = "single" => \E p \in Provider : judges' = {p}
      /\ judges' \subseteq Outside \/ Outside = {}
  <2>1. CASE SelectAuditor
    <3>1. PICK p \in Outside : judges' = {p} /\ thread' = [thread EXCEPT ![p] = "queued"]
      BY <2>1 DEF SelectAuditor
    <3>2. Cardinality({p}) = 1
      BY FS_Singleton
    <3>3. thread \in [Provider -> {"none", "queued", "asking", "asking again", "valid",
                          "invalid", "raised"}]
          /\ \A q \in Provider : thread[q] = "none"
      BY <1>1 DEF TypeOK
    <3>4. /\ thread'[p] = "queued" /\ \A q \in Provider \ {p} : thread'[q] = "none"
          /\ thread' \in [Provider -> {"none", "queued", "asking", "asking again", "valid",
                                      "invalid", "raised"}]
          /\ p \in Provider /\ mode' = "single"
      BY <1>2, <2>1, <3>1, <3>3 DEF SelectAuditor
    <3>5. judges' \subseteq Provider /\ judges' \subseteq Outside
      BY <1>2, <3>1
    <3>6. Cardinality(judges') <= MaxJudges
      BY <3>1, <3>2
    <3>7. \A q \in Provider : thread'[q] # "valid" /\ (thread'[q] = "none" <=> q \notin judges')
      BY <3>1, <3>4
    <3>. QED
      BY <3>1, <3>4, <3>5, <3>6, <3>7
  <2>2. CASE SelectJudges
    <3>. DEFINE pool == IF Outside # {} THEN Outside ELSE Provider
    <3>1. pool \subseteq Provider /\ IsFiniteSet(pool) /\ Cardinality(pool) \in Nat
      BY <1>2, FS_Subset, FS_CardinalityType
    <3>2. PICK J \in SUBSET pool :
             /\ Cardinality(J) = Min({MaxJudges, Cardinality(pool)})
             /\ judges' = J
             /\ thread' = [p \in Provider |-> IF p \in J THEN "queued" ELSE "none"]
      BY <2>2 DEF SelectJudges
    <3>3. Cardinality(judges') <= MaxJudges
      BY <3>1, <3>2, LeastOfTwo
    <3>4. mode' \in {"coalesced", "coalesced_self"}
      BY <2>2 DEF SelectJudges
    <3>. QED
      BY <3>1, <3>2, <3>3, <3>4
  <2>. QED
    BY <2>1, <2>2
<1>4. TypeOK'
  BY <1>1, <1>3 DEF TypeOK
<1>5. SelfGradingIsExcused'
  <2>1. Outside = {} => args.allow_self \/ args.producing = Provider
    BY DEF Outside, Exclude, TypeOK
  <2>. QED
    BY <1>1, <1>2, <1>3, <2>1 DEF SelfGradingIsExcused
<1>6. \A p \in Provider : verdict[p] = NoVerdict
  BY <1>1
<1>. QED
  BY <1>1, <1>3, <1>4, <1>5, <1>6 DEF Ended, AnswersCommitted

(* A thread works for its judge alone.                                     *)
LEMMA ThreadsKeep ==
  ASSUME AuditAssumption, AuditInv, NEW p \in Provider, Pool(p)
  PROVE  AuditInv'
<1>. USE DEF AuditAssumption, AuditInv
<1>1. /\ thread[p] \in {"queued", "asking", "asking again"}
      /\ UNCHANGED <<pc, args, mode, judges, answers, passed>>
      /\ \E s \in {"asking", "asking again", "valid",
                          "invalid", "raised"} :
           /\ thread' = [thread EXCEPT ![p] = s]
           /\ \/ s # "valid" /\ verdict' = verdict
              \/ s = "valid" /\ \E v \in Verdict : verdict' = [verdict EXCEPT ![p] = v]
  BY DEF Pool, Start, Redraft, Judge, NoObject, Raises, Asking, request
<1>2. PICK s \in {"asking", "asking again", "valid",
                          "invalid", "raised"} :
           /\ thread' = [thread EXCEPT ![p] = s]
           /\ \/ s # "valid" /\ verdict' = verdict
              \/ s = "valid" /\ \E v \in Verdict : verdict' = [verdict EXCEPT ![p] = v]
  BY <1>1
<1>3. p \in judges /\ ~Ended
  BY <1>1 DEF Joined, TypeOK
<1>4. /\ thread \in [Provider -> {"none", "queued", "asking", "asking again", "valid",
                          "invalid", "raised"}]
      /\ verdict \in [Provider -> Verdict]
  BY DEF TypeOK
<1>5. thread' \in [Provider -> {"none", "queued", "asking", "asking again", "valid",
                          "invalid", "raised"}]
      /\ verdict' \in [Provider -> Verdict]
  BY <1>2, <1>4
<1>6. \A q \in Provider : q # p => thread'[q] = thread[q] /\ verdict'[q] = verdict[q]
  BY <1>2, <1>4
<1>7. thread'[p] = s /\ (s # "valid" => verdict'[p] = verdict[p])
  BY <1>2, <1>4
<1>8. TypeOK'
  BY <1>1, <1>5 DEF TypeOK
<1>9. \A q \in Provider :
       /\ thread'[q] = "none" <=> q \notin judges'
       /\ thread'[q] # "valid" => verdict'[q] = NoVerdict
  BY <1>1, <1>3, <1>6, <1>7
<1>10. ~Ended' /\ SelfGradingIsExcused' /\ AnswersCommitted'
  BY <1>1, <1>3 DEF Ended, SelfGradingIsExcused, AnswersCommitted
<1>11. pc # "entry"
  BY <1>3
<1>12. pc' = pc /\ judges' = judges /\ mode' = mode
  BY <1>1
<1>13. pc' # "done"
  BY <1>10 DEF Ended
<1>14. answers' = {}
  BY <1>1, <1>3
<1>. QED
  BY <1>5, <1>8, <1>9, <1>10, <1>11, <1>12, <1>13, <1>14

(* Gathering the verdicts commits every answer.                            *)
LEMMA GatherKeeps ==
  ASSUME AuditAssumption, AuditInv, GatherSingle \/ Gather
  PROVE  AuditInv'
<1>. USE DEF AuditAssumption, AuditInv
<1>1. /\ pc = "pool" /\ Joined /\ pc' \in {"raised", "done"}
      /\ UNCHANGED <<args, mode, judges, thread, verdict>>
  BY DEF GatherSingle, Gather, Commit, request
<1>2. \/ /\ pc' = "raised" /\ UNCHANGED <<answers, passed>>
         /\ mode = "single" /\ \E p \in judges : thread[p] = "raised"
      \/ Commit
  BY DEF GatherSingle, Gather
<1>3. answers' = Answered
  <2>1. CASE pc' = "raised"
    <3>1. /\ mode = "single" /\ answers' = {} /\ \E p \in judges : thread[p] = "raised"
      BY <1>1, <1>2, <2>1 DEF Commit, Ended
    <3>2. PICK p \in Provider : judges = {p}
      BY <3>1
    <3>. QED
      BY <3>1, <3>2 DEF Answered
  <2>2. CASE pc' = "done"
    BY <1>2, <2>2 DEF Commit
  <2>. QED
    BY <1>1, <2>1, <2>2
<1>4. Answered' = Answered /\ Joined' /\ Ended'
  BY <1>1 DEF Answered, Joined, Ended
<1>5. /\ passed' \in BOOLEAN
      /\ pc' = "done" => passed' = Passes(verdict, judges, args.strict)
  <2>1. CASE pc' = "raised"
    BY <1>2, <2>1 DEF Commit, TypeOK
  <2>2. CASE pc' # "raised"
    <3>1. passed' = Passes(verdict, judges, args.strict)
      BY <1>2, <2>2 DEF Commit
    <3>. QED
      BY <3>1 DEF Passes
  <2>. QED
    BY <2>1, <2>2
<1>6. TypeOK'
  <2>1. answers' \subseteq judges
    BY <1>3 DEF Answered
  <2>. QED
    BY <1>1, <1>5, <2>1 DEF TypeOK
<1>7. SelfGradingIsExcused' /\ AnswersCommitted'
  BY <1>1, <1>3, <1>4 DEF SelfGradingIsExcused, AnswersCommitted
<1>8. pc' = "done" => (passed = Passes(verdict, judges, args.strict))'
  BY <1>1, <1>5
<1>. QED
  BY <1>1, <1>4, <1>6, <1>7, <1>8

(* Every step of an audit keeps its invariant.                             *)
LEMMA Steps == AuditAssumption /\ AuditInv /\ [Next]_vars => AuditInv'
<1>. SUFFICES ASSUME AuditAssumption, AuditInv, [Next]_vars PROVE AuditInv'
  OBVIOUS
<1>1. CASE UNCHANGED vars
  BY <1>1 DEF vars, request, AuditInv, TypeOK, Ended, Joined, AnswersCommitted, Answered,
              SelfGradingIsExcused
<1>2. CASE Refuse
  <2>1. pc' = "refused" /\ UNCHANGED <<args, mode, judges, thread, verdict, answers, passed>>
        /\ judges = {} /\ answers = {} /\ mode = "none"
    BY <1>2 DEF Refuse, request, AuditInv, Ended
  <2>. QED
    BY <2>1 DEF AuditInv, TypeOK, Ended, Joined, AnswersCommitted, Answered,
       SelfGradingIsExcused
<1>. QED
  BY <1>1, <1>2, SeatsAreFair, ThreadsKeep, GatherKeeps DEF Next, Stopped

(* In strict mode every judge that was dispatched has answered and passed  *)
(* every item.                                                             *)
LEMMA StrictNeedsAll == AuditAssumption /\ AuditInv => StrictIsUnanimous
<1>. SUFFICES ASSUME AuditAssumption, AuditInv, pc = "done", args.strict, passed,
                     NEW p \in judges, NEW i \in Item
              PROVE  thread[p] = "valid" /\ i \in DOMAIN verdict[p] /\ verdict[p][i].pass
  BY DEF StrictIsUnanimous
<1>1. ItemPasses(verdict, judges, args.strict, i)
  BY DEF AuditInv, Passes
<1>2. p \in Ayes(verdict, Graders(verdict, judges, i), i)
  BY <1>1 DEF ItemPasses, Unanimous
<1>3. i \in DOMAIN verdict[p] /\ verdict[p][i].pass
  BY <1>2 DEF Ayes, Graders
<1>4. p \in Provider /\ DOMAIN NoVerdict = {}
  BY DEF AuditInv, TypeOK, NoVerdict
<1>. QED
  BY <1>3, <1>4 DEF AuditInv

(* The graders who give an item no more than s.                            *)
AtMost(v, G, i, s) == {p \in G : ScoreOf(v, i, p) <= s}

(* Among graders there is a k-th smallest score: the least score that k of *)
(* them do not exceed.                                                     *)
LEMMA RankedIsScore ==
  ASSUME AuditAssumption, NEW v, NEW i, NEW G, IsFiniteSet(G),
         \A p \in G : ScoreOf(v, i, p) \in Score,
         NEW k \in 1 .. Cardinality(G)
  PROVE  /\ Ranked(v, G, i, k) \in Score
         /\ Cardinality(AtMost(v, G, i, Ranked(v, G, i, k))) >= k
         /\ \A s \in Score : Cardinality(AtMost(v, G, i, s)) >= k
                               => Ranked(v, G, i, k) <= s
<1>. DEFINE S == {s \in Score : Cardinality(AtMost(v, G, i, s)) >= k}
            T == {ScoreOf(v, i, p) : p \in G}
<1>1. Score \subseteq 0 .. 10
  BY DEF AuditAssumption
<1>2. G # {}
  BY FS_EmptySet
<1>3. PICK s \in T : \A y \in T : y <= s
  <2>1. T \in SUBSET (0 .. 10) /\ T # {}
    BY <1>1, <1>2
  <2>. HIDE DEF T
  <2>. QED
    BY <2>1, GreatestNatural
<1>4. s \in S
  <2>1. AtMost(v, G, i, s) = G /\ s \in Score
    BY <1>3 DEF AtMost
  <2>. QED
    BY <2>1, FS_CardinalityType
<1>5. S \in SUBSET Nat /\ S # {}
  <2>1. \A y \in Score : y \in Nat
    BY <1>1
  <2>. QED
    BY <1>4, <2>1
<1>6. Min(S) \in S /\ \A y \in S : Min(S) <= y
  <2>. HIDE DEF S
  <2>. QED
    BY <1>5, LeastIsMin
<1>7. Ranked(v, G, i, k) = Min(S)
  BY DEF Ranked, AtMost
<1>. QED
  BY <1>6, <1>7

(* Scores that rise do not lower a rank. *)
LEMMA RankedRises ==
  ASSUME AuditAssumption, NEW v, NEW w, NEW i, NEW G, IsFiniteSet(G),
         \A p \in G : /\ ScoreOf(v, i, p) \in Score /\ ScoreOf(w, i, p) \in Score
                      /\ ScoreOf(w, i, p) >= ScoreOf(v, i, p),
         NEW k \in 1 .. Cardinality(G)
  PROVE  Ranked(v, G, i, k) <= Ranked(w, G, i, k)
<1>. DEFINE r == Ranked(w, G, i, k)
            V == AtMost(v, G, i, r)
            W == AtMost(w, G, i, r)
<1>1. r \in Score /\ Cardinality(W) >= k
  BY RankedIsScore
<1>2. Score \subseteq 0 .. 10
  BY DEF AuditAssumption
<1>3. W \subseteq V /\ V \subseteq G
  <2>1. \A a, b, c \in Score : a <= b /\ b <= c => a <= c
    BY <1>2
  <2>2. ASSUME NEW p \in G, ScoreOf(w, i, p) <= r PROVE ScoreOf(v, i, p) <= r
    BY <1>1, <2>1, <2>2
  <2>. QED
    BY <2>2 DEF AtMost
<1>4. IsFiniteSet(V) /\ Cardinality(W) <= Cardinality(V)
  <2>. HIDE DEF V, W
  <2>. QED
    BY <1>3, FS_Subset
<1>5. Cardinality(V) >= k
  <2>1. Cardinality(V) \in Nat /\ Cardinality(W) \in Nat /\ k \in Nat
    BY <1>3, <1>4, FS_Subset, FS_CardinalityType
  <2>. HIDE DEF V, W
  <2>. QED
    BY <1>1, <1>4, <2>1
<1>6. \A s \in Score : Cardinality(AtMost(v, G, i, s)) >= k
                          => Ranked(v, G, i, k) <= s
  BY RankedIsScore
<1>. QED
  BY <1>1, <1>5, <1>6

(* The middle of n numbers is one or two of them. *)
LEMMA MiddleIsInside ==
  ASSUME NEW n \in Nat, n >= 1
  PROVE  (n + 1) \div 2 \in 1 .. n /\ n \div 2 + 1 \in 1 .. n
OBVIOUS

(* A median is between its extremes, and rises with its scores.            *)
LEMMA MedianRises ==
  ASSUME AuditAssumption, NEW v, NEW w, NEW i, NEW G, IsFiniteSet(G), G # {},
         \A p \in G : /\ ScoreOf(v, i, p) \in Score /\ ScoreOf(w, i, p) \in Score
                      /\ ScoreOf(w, i, p) >= ScoreOf(v, i, p)
  PROVE  /\ TwiceMedian(v, G, i) \in 0 .. 20 /\ TwiceMedian(w, G, i) \in 0 .. 20
         /\ TwiceMedian(v, G, i) <= TwiceMedian(w, G, i)
<1>. DEFINE n == Cardinality(G)
            k == (n + 1) \div 2
            l == n \div 2 + 1
<1>1. n \in Nat /\ n >= 1
  BY FS_CardinalityType, FS_EmptySet
<1>2. k \in 1 .. n /\ l \in 1 .. n
  <2>. HIDE DEF n
  <2>. QED
    BY <1>1, MiddleIsInside
<1>3. /\ TwiceMedian(v, G, i) = Ranked(v, G, i, k) + Ranked(v, G, i, l)
      /\ TwiceMedian(w, G, i) = Ranked(w, G, i, k) + Ranked(w, G, i, l)
  BY DEF TwiceMedian
<1>. HIDE DEF k, l
<1>4. /\ Ranked(v, G, i, k) <= Ranked(w, G, i, k)
      /\ Ranked(v, G, i, l) <= Ranked(w, G, i, l)
  BY <1>2, RankedRises
<1>5. /\ Ranked(v, G, i, k) \in Score /\ Ranked(w, G, i, k) \in Score
      /\ Ranked(v, G, i, l) \in Score /\ Ranked(w, G, i, l) \in Score
  BY <1>2, RankedIsScore
<1>6. \A s \in Score : s \in 0 .. 10
  BY DEF AuditAssumption
<1>7. \A a, b, c, d \in 0 .. 10 :
        a + b \in 0 .. 20 /\ (a <= c /\ b <= d => a + b <= c + d)
  OBVIOUS
<1>. QED
  BY <1>3, <1>4, <1>5, <1>6, <1>7

(* Medians that rise do not lower their own ranks. *)
LEMMA KthRises ==
  ASSUME NEW I, IsFiniteSet(I), NEW m \in [I -> 0 .. 20], NEW n \in [I -> 0 .. 20],
         \A i \in I : m[i] <= n[i], NEW k \in 1 .. Cardinality(I)
  PROVE  Kth(m, I, k) \in 0 .. 20 /\ Kth(n, I, k) \in 0 .. 20 /\ Kth(m, I, k) <= Kth(n, I, k)
<1>1. I # {} /\ Cardinality(I) \in Nat
  BY FS_EmptySet, FS_CardinalityType
<1>2. ASSUME NEW f \in [I -> 0 .. 20]
      PROVE  LET S == {f[i] : i \in {j \in I : Cardinality({l \in I : f[l] <= f[j]}) >= k}}
             IN  S \in SUBSET (0 .. 20) /\ S # {}
  <2>. DEFINE T == {f[i] : i \in I}
  <2>1. PICK t \in T : \A y \in T : y <= t
    <3>1. T \in SUBSET (0 .. 20) /\ T # {}
      BY <1>1
    <3>. HIDE DEF T
    <3>. QED
      BY <3>1, GreatestNatural
  <2>2. PICK j \in I : f[j] = t
    BY <2>1
  <2>3. {l \in I : f[l] <= f[j]} = I
    BY <2>1, <2>2
  <2>4. Cardinality({l \in I : f[l] <= f[j]}) >= k
    BY <2>3, <1>1
  <2>. QED
    BY <2>4
<1>. DEFINE V == {m[i] : i \in {j \in I : Cardinality({l \in I : m[l] <= m[j]}) >= k}}
            W == {n[i] : i \in {j \in I : Cardinality({l \in I : n[l] <= n[j]}) >= k}}
<1>3. /\ V \in SUBSET (0 .. 20) /\ V # {}
      /\ W \in SUBSET (0 .. 20) /\ W # {}
  BY <1>2
<1>4. /\ Min(V) \in V /\ \A y \in V : Min(V) <= y
      /\ Min(W) \in W
  <2>1. V \in SUBSET Nat /\ W \in SUBSET Nat
    <3>1. (0 .. 20) \subseteq Nat
      OBVIOUS
    <3>. HIDE DEF V, W
    <3>. QED
      BY <1>3, <3>1
  <2>. HIDE DEF V, W
  <2>. QED
    BY <1>3, <2>1, LeastIsMin
<1>5. \E y \in V : y <= Min(W)
  <2>1. PICK i \in I : Min(W) = n[i] /\ Cardinality({l \in I : n[l] <= n[i]}) >= k
    BY <1>4
  <2>. DEFINE L == {l \in I : n[l] <= n[i]}
              T == {m[l] : l \in L}
  <2>2. PICK t \in T : \A y \in T : y <= t
    <3>1. n[i] <= n[i]
      BY <2>1
    <3>2. i \in L
      BY <3>1
    <3>3. T \in SUBSET (0 .. 20)
      OBVIOUS
    <3>4. T # {}
      BY <3>2
    <3>. HIDE DEF T
    <3>. QED
      BY <3>3, <3>4, GreatestNatural
  <2>3. PICK j \in L : m[j] = t
    BY <2>2
  <2>. DEFINE M == {l \in I : m[l] <= m[j]}
  <2>4. L \subseteq M /\ M \subseteq I
    BY <2>2, <2>3
  <2>5. Cardinality(M) >= k
    <3>. HIDE DEF L, M
    <3>1. Cardinality(L) <= Cardinality(M) /\ Cardinality(L) \in Nat /\ Cardinality(M) \in Nat
      BY <2>4, FS_Subset, FS_CardinalityType
    <3>2. Cardinality(L) >= k
      BY <2>1 DEF L
    <3>. QED
      BY <3>1, <3>2
  <2>6. m[j] \in V
    BY <2>3, <2>5
  <2>7. m[j] <= n[i]
    BY <2>1, <2>3
  <2>. QED
    BY <2>1, <2>6, <2>7
<1>6. Kth(m, I, k) = Min(V) /\ Kth(n, I, k) = Min(W)
  BY DEF Kth
<1>. HIDE DEF V, W
<1>7. Min(V) \in 0 .. 20 /\ Min(W) \in 0 .. 20
  BY <1>3, <1>4
<1>8. Min(V) <= Min(W)
  <2>1. PICK y \in V : y <= Min(W)
    BY <1>5
  <2>2. Min(V) <= y /\ y \in 0 .. 20
    BY <1>3, <1>4
  <2>. QED
    BY <1>7, <2>1, <2>2
<1>. QED
  BY <1>6, <1>7, <1>8

(* The graders of an item are judges, and have graded it. *)
LEMMA GradersHaveGraded ==
  ASSUME AuditAssumption, NEW v \in [Provider -> Verdict], NEW J \in SUBSET Provider, NEW i \in Item
  PROVE  /\ IsFiniteSet(Graders(v, J, i)) /\ Graders(v, J, i) \subseteq J
         /\ \A p \in Graders(v, J, i) :
              /\ i \in DOMAIN v[p]
              /\ v[p][i].pass \in BOOLEAN /\ ScoreOf(v, i, p) \in Score
<1>1. Graders(v, J, i) \subseteq J /\ IsFiniteSet(Provider)
  BY DEF Graders, AuditAssumption
<1>2. IsFiniteSet(Graders(v, J, i))
  BY <1>1, FS_Subset
<1>3. ASSUME NEW p \in Graders(v, J, i)
      PROVE  /\ i \in DOMAIN v[p]
             /\ v[p][i].pass \in BOOLEAN /\ ScoreOf(v, i, p) \in Score
  <2>1. p \in J /\ i \in DOMAIN v[p]
    BY DEF Graders
  <2>2. PICK I \in SUBSET Item : v[p] \in [I -> Grade]
    BY <2>1 DEF Verdict
  <2>3. v[p][i] \in Grade
    BY <2>1, <2>2
  <2>. QED
    BY <2>1, <2>3 DEF Grade, ScoreOf
<1>. QED
  BY <1>1, <1>2, <1>3

(* Half of the graders of an item, calling it an obvious failure, keep its *)
(* median below the score that breaks a tie.                               *)
LEMMA ObviousFailureIsLow ==
  ASSUME AuditAssumption, NEW v, NEW i, NEW G, IsFiniteSet(G),
         \A p \in G : ScoreOf(v, i, p) \in Score,
         NEW a \in Nat \ {0}, Cardinality(G) = 2 * a,
         NEW F \in SUBSET G, \A p \in F : ScoreOf(v, i, p) \in 0 .. 2, Cardinality(F) >= a
  PROVE  TwiceMedian(v, G, i) < 14
<1>. DEFINE T == {ScoreOf(v, i, p) : p \in F}
<1>1. IsFiniteSet(F) /\ Cardinality(F) \in Nat /\ F # {}
  <2>1. IsFiniteSet(F) /\ Cardinality(F) \in Nat
    BY FS_Subset, FS_CardinalityType
  <2>. QED
    BY <2>1, FS_EmptySet
<1>2. PICK s \in T : \A y \in T : y <= s
  <2>1. T \in SUBSET (0 .. 2) /\ T # {}
    BY <1>1
  <2>. HIDE DEF T
  <2>. QED
    BY <2>1, GreatestNatural
<1>3. s \in Score /\ s \in 0 .. 2
  BY <1>2
<1>4. F \subseteq AtMost(v, G, i, s) /\ AtMost(v, G, i, s) \subseteq G
  BY <1>2 DEF AtMost
<1>5. Cardinality(AtMost(v, G, i, s)) >= a
  <2>1. IsFiniteSet(AtMost(v, G, i, s))
    BY <1>4, FS_Subset
  <2>2. /\ Cardinality(F) <= Cardinality(AtMost(v, G, i, s))
        /\ Cardinality(AtMost(v, G, i, s)) \in Nat
    BY <1>4, <2>1, FS_Subset, FS_CardinalityType
  <2>. QED
    BY <1>1, <2>2
<1>6. a \in 1 .. Cardinality(G) /\ a + 1 \in 1 .. Cardinality(G)
  OBVIOUS
<1>7. Ranked(v, G, i, a) <= s /\ Ranked(v, G, i, a) \in Score
  BY <1>3, <1>5, <1>6, RankedIsScore
<1>8. Ranked(v, G, i, a + 1) \in Score
  BY <1>6, RankedIsScore
<1>9. (2 * a + 1) \div 2 = a /\ (2 * a) \div 2 + 1 = a + 1
  OBVIOUS
<1>10. TwiceMedian(v, G, i) = Ranked(v, G, i, a) + Ranked(v, G, i, a + 1)
  BY <1>9 DEF TwiceMedian
<1>11. \A x \in Score : x \in 0 .. 10
  BY DEF AuditAssumption
<1>12. Ranked(v, G, i, a) \in 0 .. 10 /\ Ranked(v, G, i, a + 1) \in 0 .. 10
  BY <1>7, <1>8, <1>11
<1>. QED
  BY <1>3, <1>7, <1>10, <1>12

(* An item that passes has a judge who passed it, no more against it than  *)
(* for it, and on a tie fewer obvious failures than votes.                 *)
LEMMA ItemIsVotedFor ==
  ASSUME AuditAssumption, NEW v \in [Provider -> Verdict], NEW J \in SUBSET Provider,
         NEW strict \in BOOLEAN, NEW i \in Item, ItemPasses(v, J, strict, i)
  PROVE  LET G == Graders(v, J, i)
             ayes == Cardinality({p \in G : v[p][i].pass})
             noes == Cardinality({p \in G : ~v[p][i].pass})
         IN  /\ ayes >= noes /\ ayes > 0
             /\ ayes = noes => Cardinality(Offenders(v, J, i)) < ayes
<1>. DEFINE G == Graders(v, J, i)
            A == {p \in G : v[p][i].pass}
            N == {p \in G : ~v[p][i].pass}
            F == Offenders(v, J, i)
<1>1. /\ IsFiniteSet(G) /\ G \subseteq J
      /\ \A p \in G : v[p][i].pass \in BOOLEAN /\ ScoreOf(v, i, p) \in Score
  BY GradersHaveGraded
<1>2. A \cup N = G /\ A \cap N = {}
  BY <1>1
<1>3. A \subseteq G /\ N \subseteq G /\ A = Ayes(v, G, i)
  BY DEF Ayes
<1>4. F \subseteq G /\ \A p \in F : ScoreOf(v, i, p) \in 0 .. 2
  BY DEF Offenders, Obvious
<1>5. /\ G # {}
      /\ \/ A = G
         \/ LET a == 2 * Cardinality(A) n == Cardinality(G)
            IN  a > n \/ (a = n /\ TwiceMedian(v, G, i) >= 14)
  BY <1>1, <1>3 DEF ItemPasses, Unanimous, Majority
<1>. HIDE DEF G, A, N, F
<1>6. /\ IsFiniteSet(A) /\ IsFiniteSet(N) /\ IsFiniteSet(F)
      /\ Cardinality(A) \in Nat /\ Cardinality(N) \in Nat /\ Cardinality(G) \in Nat
      /\ Cardinality(F) \in Nat /\ Cardinality(G) # 0
  BY <1>1, <1>3, <1>4, <1>5, FS_Subset, FS_CardinalityType, FS_EmptySet
<1>7. Cardinality(G) = Cardinality(A) + Cardinality(N)
  <2>1. Cardinality(A \cup N) = Cardinality(A) + Cardinality(N) - Cardinality(A \cap N)
    BY <1>6, FS_Union
  <2>2. Cardinality(A \cap N) = 0
    BY <1>2, FS_EmptySet
  <2>3. Cardinality(A \cup N) = Cardinality(G)
    BY <1>2
  <2>. QED
    BY <1>6, <2>1, <2>2, <2>3
<1>8. Cardinality(A) >= Cardinality(N) /\ Cardinality(A) > 0
  <2>1. CASE A = G
    BY <1>6, <1>7, <2>1
  <2>2. CASE A # G
    BY <1>5, <1>6, <1>7, <2>2
  <2>. QED
    BY <2>1, <2>2
<1>9. ASSUME Cardinality(A) = Cardinality(N) PROVE Cardinality(F) < Cardinality(A)
  <2>1. A # G
    BY <1>6, <1>7, <1>8, <1>9
  <2>2. TwiceMedian(v, G, i) >= 14
    BY <1>5, <1>6, <1>7, <1>9, <2>1
  <2>3. Cardinality(G) = 2 * Cardinality(A)
    BY <1>6, <1>7, <1>9
  <2>4. SUFFICES ASSUME Cardinality(F) >= Cardinality(A) PROVE FALSE
    BY <1>6
  <2>5. TwiceMedian(v, G, i) < 14
    BY <1>1, <1>4, <1>6, <1>8, <2>3, <2>4, ObviousFailureIsLow
  <2>6. TwiceMedian(v, G, i) \in 0 .. 20
    <3>1. \A p \in G : ScoreOf(v, i, p) >= ScoreOf(v, i, p)
      <4>1. \A x \in Score : x >= x
        BY DEF AuditAssumption
      <4>. QED
        BY <1>1, <4>1
    <3>. QED
      BY <1>1, <1>5, <3>1, MedianRises
  <2>. QED
    BY <2>2, <2>5, <2>6
<1>. QED
  BY <1>8, <1>9 DEF G, A, N, F

(* An audit that passes has that for every item. *)
LEMMA PassNeedsVotes == AuditAssumption /\ AuditInv => PassIsVotedFor
<1>. SUFFICES ASSUME AuditAssumption, AuditInv, pc = "done", passed, NEW i \in Item
              PROVE  LET G == Graders(verdict, judges, i)
                         ayes == Cardinality({p \in G : verdict[p][i].pass})
                         noes == Cardinality({p \in G : ~verdict[p][i].pass})
                     IN  /\ ayes >= noes /\ ayes > 0
                         /\ ayes = noes => Cardinality(Offenders(verdict, judges, i)) < ayes
  BY DEF PassIsVotedFor
<1>1. ItemPasses(verdict, judges, args.strict, i)
  BY DEF AuditInv, Passes
<1>2. verdict \in [Provider -> Verdict] /\ judges \in SUBSET Provider /\ args.strict \in BOOLEAN
  BY DEF AuditInv, TypeOK
<1>. QED
  BY <1>1, <1>2, ItemIsVotedFor

(* Verdicts w that think no worse of the output than v does.               *)
NoWorse(w, v, J) == \A p \in J : Improves(w[p], v[p])

(* The graders are then the same, and none gives less.                     *)
LEMMA GradersStay ==
  ASSUME AuditAssumption, NEW v \in [Provider -> Verdict], NEW w \in [Provider -> Verdict],
         NEW J \in SUBSET Provider, NoWorse(w, v, J), NEW i \in Item
  PROVE  /\ Graders(w, J, i) = Graders(v, J, i)
         /\ Ayes(v, Graders(v, J, i), i) \subseteq Ayes(w, Graders(v, J, i), i)
         /\ \A p \in Graders(v, J, i) :
              /\ ScoreOf(v, i, p) \in Score /\ ScoreOf(w, i, p) \in Score
              /\ ScoreOf(w, i, p) >= ScoreOf(v, i, p)
<1>1. \A p \in J : DOMAIN w[p] = DOMAIN v[p]
  BY DEF NoWorse, Improves
<1>2. Graders(w, J, i) = Graders(v, J, i)
  BY <1>1 DEF Graders
<1>3. \A p \in Graders(v, J, i) :
        /\ p \in J /\ i \in DOMAIN v[p]
        /\ ScoreOf(v, i, p) \in Score /\ ScoreOf(w, i, p) \in Score
  BY <1>2, GradersHaveGraded
<1>4. \A p \in Graders(v, J, i) :
        ScoreOf(w, i, p) >= ScoreOf(v, i, p) /\ (v[p][i].pass => w[p][i].pass)
  BY <1>3 DEF NoWorse, Improves, ScoreOf
<1>5. Ayes(v, Graders(v, J, i), i) \subseteq Ayes(w, Graders(v, J, i), i)
  BY <1>4 DEF Ayes
<1>. QED
  BY <1>2, <1>3, <1>4, <1>5

(* A better grade never turns an item's pass into a failure.               *)
LEMMA ItemStillPasses ==
  ASSUME AuditAssumption, NEW v \in [Provider -> Verdict], NEW w \in [Provider -> Verdict],
         NEW J \in SUBSET Provider, NoWorse(w, v, J), NEW i \in Item, NEW strict \in BOOLEAN,
         ItemPasses(v, J, strict, i)
  PROVE  ItemPasses(w, J, strict, i)
<1>. DEFINE G == Graders(v, J, i)
            A == Ayes(v, G, i)
            B == Ayes(w, G, i)
            n == Cardinality(G)
<1>1. /\ Graders(w, J, i) = G /\ A \subseteq B /\ B \subseteq G /\ G \subseteq J /\ IsFiniteSet(G)
      /\ \A p \in G : /\ ScoreOf(v, i, p) \in Score /\ ScoreOf(w, i, p) \in Score
                      /\ ScoreOf(w, i, p) >= ScoreOf(v, i, p)
  <2>1. B \subseteq G /\ G \subseteq J
    BY DEF Ayes, Graders
  <2>. QED
    BY <2>1, GradersStay, GradersHaveGraded
<1>2. G # {}
  BY DEF ItemPasses
<1>3. CASE strict
  <2>1. A = J
    BY <1>3 DEF ItemPasses, Unanimous
  <2>2. B = J
    BY <1>1, <2>1
  <2>. QED
    BY <1>1, <1>2, <1>3, <2>2 DEF ItemPasses, Unanimous
<1>4. CASE ~strict
  <2>1. 2 * Cardinality(A) > n \/ (2 * Cardinality(A) = n /\ TwiceMedian(v, G, i) >= 14)
    BY <1>4 DEF ItemPasses, Majority
  <2>2. /\ TwiceMedian(v, G, i) \in 0 .. 20 /\ TwiceMedian(w, G, i) \in 0 .. 20
        /\ TwiceMedian(v, G, i) <= TwiceMedian(w, G, i)
    <3>. HIDE DEF G
    <3>. QED
      BY <1>1, <1>2, MedianRises
  <2>. HIDE DEF G, A, B, n
  <2>3. /\ Cardinality(A) <= Cardinality(B)
        /\ Cardinality(A) \in Nat /\ Cardinality(B) \in Nat /\ n \in Nat
    <3>1. IsFiniteSet(B) /\ IsFiniteSet(A)
      BY <1>1, FS_Subset
    <3>. QED
      BY <1>1, <3>1, FS_Subset, FS_CardinalityType DEF n
  <2>4. 2 * Cardinality(B) > n \/ (2 * Cardinality(B) = n /\ TwiceMedian(w, G, i) >= 14)
    BY <2>1, <2>2, <2>3
  <2>5. Majority(w, G, i)
    BY <2>4 DEF Majority, B, n
  <2>. QED
    BY <1>1, <1>2, <1>4, <2>5 DEF ItemPasses
<1>. QED
  BY <1>3, <1>4

(* A better grade does not lower the overall score. *)
LEMMA OverallStands ==
  ASSUME AuditAssumption, NEW v \in [Provider -> Verdict], NEW w \in [Provider -> Verdict],
         NEW J \in SUBSET Provider, NoWorse(w, v, J)
  PROVE  Overall(w, J) >= Overall(v, J)
<1>. DEFINE I == {i \in Item : Graders(v, J, i) # {}}
            n == Cardinality(I)
            m == [i \in I |-> TwiceMedian(v, Graders(v, J, i), i)]
            l == [i \in I |-> TwiceMedian(w, Graders(v, J, i), i)]
            j == (n + 1) \div 2
            k == n \div 2 + 1
<1>1. \A i \in Item : Graders(w, J, i) = Graders(v, J, i)
  BY GradersStay
<1>2. {i \in Item : Graders(w, J, i) # {}} = I
  BY <1>1
<1>3. [i \in I |-> TwiceMedian(w, Graders(w, J, i), i)] = l
  BY <1>1
<1>4. /\ Overall(v, J) = IF I = {} THEN -1 ELSE Kth(m, I, j) + Kth(m, I, k)
      /\ Overall(w, J) = IF I = {} THEN -1 ELSE Kth(l, I, j) + Kth(l, I, k)
  BY <1>2, <1>3 DEF Overall
<1>5. CASE I = {}
  BY <1>4, <1>5
<1>6. CASE I # {}
  <2>1. \A i \in I : /\ TwiceMedian(v, Graders(v, J, i), i) \in 0 .. 20
                     /\ TwiceMedian(w, Graders(v, J, i), i) \in 0 .. 20
                     /\ TwiceMedian(v, Graders(v, J, i), i) <= TwiceMedian(w, Graders(v, J, i), i)
    <3>1. SUFFICES ASSUME NEW i \in I
                   PROVE  /\ TwiceMedian(v, Graders(v, J, i), i) \in 0 .. 20
                          /\ TwiceMedian(w, Graders(v, J, i), i) \in 0 .. 20
                          /\ TwiceMedian(v, Graders(v, J, i), i)
                               <= TwiceMedian(w, Graders(v, J, i), i)
      OBVIOUS
    <3>2. IsFiniteSet(Graders(v, J, i)) /\ Graders(v, J, i) # {}
      BY GradersHaveGraded
    <3>3. \A p \in Graders(v, J, i) :
              /\ ScoreOf(v, i, p) \in Score /\ ScoreOf(w, i, p) \in Score
              /\ ScoreOf(w, i, p) >= ScoreOf(v, i, p)
      BY GradersStay
    <3>. QED
      BY <3>2, <3>3, MedianRises
  <2>2. m \in [I -> 0 .. 20] /\ l \in [I -> 0 .. 20] /\ \A i \in I : m[i] <= l[i]
    BY <2>1
  <2>3. IsFiniteSet(I)
    <3>1. I \subseteq Item /\ IsFiniteSet(Item)
      BY DEF AuditAssumption
    <3>. HIDE DEF I
    <3>. QED
      BY <3>1, FS_Subset
  <2>. HIDE DEF I, m, l
  <2>4. n \in Nat /\ n >= 1
    BY <1>6, <2>3, FS_CardinalityType, FS_EmptySet
  <2>5. j \in 1 .. n /\ k \in 1 .. n
    <3>. HIDE DEF n
    <3>. QED
      BY <2>4, MiddleIsInside
  <2>. HIDE DEF j, k
  <2>6. /\ Kth(m, I, j) \in 0 .. 20 /\ Kth(l, I, j) \in 0 .. 20 /\ Kth(m, I, j) <= Kth(l, I, j)
        /\ Kth(m, I, k) \in 0 .. 20 /\ Kth(l, I, k) \in 0 .. 20 /\ Kth(m, I, k) <= Kth(l, I, k)
    BY <2>2, <2>3, <2>5, KthRises
  <2>. QED
    BY <1>4, <1>6, <2>6
<1>. QED
  BY <1>5, <1>6

(* A judge who thinks better of the output does an audit no harm. *)
THEOREM BetterHelps == AuditAssumption /\ AuditInv => BetterIsNoWorse
<1>. SUFFICES ASSUME AuditAssumption, AuditInv, pc = "done",
                     NEW p \in judges, NEW u \in Verdict, Improves(u, verdict[p])
              PROVE  LET better == [verdict EXCEPT ![p] = u]
                     IN  /\ passed => Passes(better, judges, args.strict)
                         /\ Overall(better, judges) >= Overall(verdict, judges)
  BY DEF BetterIsNoWorse
<1>. DEFINE better == [verdict EXCEPT ![p] = u]
<1>1. verdict \in [Provider -> Verdict] /\ judges \in SUBSET Provider /\ args.strict \in BOOLEAN
  BY DEF AuditInv, TypeOK
<1>2. better \in [Provider -> Verdict]
  BY <1>1
<1>3. NoWorse(better, verdict, judges)
  <2>1. SUFFICES ASSUME NEW q \in judges PROVE Improves(better[q], verdict[q])
    BY DEF NoWorse
  <2>2. CASE q = p
    BY <1>1, <2>2
  <2>3. CASE q # p
    <3>1. better[q] = verdict[q] /\ verdict[q] \in Verdict
      BY <1>1, <2>3
    <3>2. \A i \in DOMAIN verdict[q] : verdict[q][i].score \in 0 .. 10
      <4>1. PICK I \in SUBSET Item : verdict[q] \in [I -> Grade]
        BY <3>1 DEF Verdict
      <4>. QED
        BY <4>1 DEF Grade, AuditAssumption
    <3>. QED
      BY <3>1, <3>2 DEF Improves
  <2>. QED
    BY <2>2, <2>3
<1>. HIDE DEF better
<1>4. Overall(better, judges) >= Overall(verdict, judges)
  BY <1>1, <1>2, <1>3, OverallStands
<1>5. ASSUME passed PROVE Passes(better, judges, args.strict)
  <2>1. \A i \in Item : ItemPasses(verdict, judges, args.strict, i)
    BY <1>5 DEF AuditInv, Passes
  <2>. QED
    BY <1>1, <1>2, <1>3, <2>1, ItemStillPasses DEF Passes
<1>. QED
  BY <1>4, <1>5 DEF better

(* Scores from a to a + 4, squared, lie below the chord of the square, and *)
(* so do their sums.                                                       *)
LEMMA SquaresBelowChord ==
  ASSUME NEW G, IsFiniteSet(G), NEW a \in Nat,
         NEW x \in [G -> Nat], \A p \in G : a <= x[p] /\ x[p] <= a + 4
  PROVE  /\ SumFunctionOnSet(x, G) \in Nat
         /\ SumFunctionOnSet([p \in G |-> x[p] * x[p]], G) \in Nat
         /\ SumFunctionOnSet([p \in G |-> x[p] * x[p]], G)
              <= (2 * a + 4) * SumFunctionOnSet(x, G) - a * (a + 4) * Cardinality(G)
<1>. DEFINE q == [p \in G |-> x[p] * x[p]]
            Good(T) == SumFunctionOnSet(q, T)
                         <= (2 * a + 4) * SumFunctionOnSet(x, T) - a * (a + 4) * Cardinality(T)
            F == {T \in SUBSET G : ~ Good(T)}
<1>1. \A p \in G : x[p] \in Nat /\ q[p] \in Nat /\ q[p] <= (2 * a + 4) * x[p] - a * (a + 4)
  <2>1. SUFFICES ASSUME NEW p \in G
                 PROVE  x[p] \in Nat /\ q[p] \in Nat /\ q[p] <= (2 * a + 4) * x[p] - a * (a + 4)
    OBVIOUS
  <2>2. \A d \in 0 .. 4 : (a + d) * (a + d) \in Nat
                          /\ (a + d) * (a + d) <= (2 * a + 4) * (a + d) - a * (a + 4)
    <3>1. SUFFICES ASSUME NEW d \in 0 .. 4
                   PROVE  (a + d) * (a + d) \in Nat
                          /\ (a + d) * (a + d) <= (2 * a + 4) * (a + d) - a * (a + 4)
      OBVIOUS
    <3>2. d \in {0, 1, 2, 3, 4}
      OBVIOUS
    <3>. QED
      BY <3>2
  <2>3. x[p] - a \in 0 .. 4 /\ x[p] = a + (x[p] - a) /\ x[p] \in Nat
    OBVIOUS
  <2>4. q[p] = x[p] * x[p]
    OBVIOUS
  <2>. QED
    BY <2>2, <2>3, <2>4
<1>2. \A T \in SUBSET G : /\ IsFiniteSet(T) /\ Cardinality(T) \in Nat
                          /\ SumFunctionOnSet(x, T) \in Nat /\ SumFunctionOnSet(q, T) \in Nat
  <2>. HIDE DEF q
  <2>1. \A T \in SUBSET G : IsFiniteSet(T) /\ Cardinality(T) \in Nat
    BY FS_Subset, FS_CardinalityType
  <2>. QED
    BY <1>1, <2>1, SumOfNats
<1>3. SUFFICES ASSUME F # {} PROVE FALSE
  BY <1>2
<1>4. \A T \in F : IsFiniteSet(T)
  BY <1>2
<1>5. PICK T \in F : \A U \in F : U \subseteq T => U = T
  <2>. HIDE DEF F
  <2>. QED
    BY <1>3, <1>4, Smallest
<1>6. T # {}
  <2>1. SUFFICES ASSUME T = {} PROVE FALSE
    OBVIOUS
  <2>2. SumFunctionOnSet(x, T) = 0 /\ SumFunctionOnSet(q, T) = 0 /\ Cardinality(T) = 0
    BY <2>1, SumOfNone, FS_EmptySet, Zenon
  <2>. QED
    BY <1>5, <2>2
<1>. HIDE DEF q
<1>7. PICK p \in T : TRUE
  BY <1>6
<1>. DEFINE U == T \ {p}
<1>8. U \in SUBSET G /\ Good(U) /\ T \in SUBSET G /\ p \in G
  BY <1>5, <1>7
<1>9. /\ SumFunctionOnSet(x, T) = x[p] + SumFunctionOnSet(x, U)
      /\ SumFunctionOnSet(q, T) = q[p] + SumFunctionOnSet(q, U)
      /\ Cardinality(T) = Cardinality(U) + 1
  <2>1. /\ \A y \in T : x[y] \in Int
        /\ \A y \in T : q[y] \in Int
    BY <1>1, <1>8
  <2>2. IsFiniteSet(T) /\ Cardinality(U) = Cardinality(T) - 1 /\ Cardinality(T) \in Nat
    BY <1>2, <1>7, <1>8, FS_RemoveElement
  <2>3. Cardinality(T) = Cardinality(U) + 1
    BY <2>2
  <2>4. SumFunctionOnSet(x, T) = x[p] + SumFunctionOnSet(x, T \ {p})
    BY <1>7, <2>1, <2>2, SumWithOut
  <2>5. SumFunctionOnSet(q, T) = q[p] + SumFunctionOnSet(q, T \ {p})
    <3>1. \A f : (\A y \in T : f[y] \in Int)
                   => SumFunctionOnSet(f, T) = f[p] + SumFunctionOnSet(f, T \ {p})
      BY <1>7, <2>2, SumWithOut
    <3>. QED
      BY <2>1, <3>1
  <2>. QED
    BY <2>3, <2>4, <2>5
<1>10. ~ Good(T)
  BY <1>5
<1>. HIDE DEF U
<1>. QED
  BY <1>1, <1>2, <1>8, <1>9, <1>10

(* Scores within 0.4 of each other do not deviate by 0.3: for a sum S and  *)
(* a sum of squares Q of n scores, n Q - S S is at most 4 n n less the     *)
(* square of S - n (a + 2).                                                *)
LEMMA CloseScoresAgree ==
  ASSUME NEW v, NEW i, NEW G, IsFiniteSet(G), NEW a \in Nat,
         \A p \in G : ScoreOf(v, i, p) \in Nat /\ a <= ScoreOf(v, i, p) /\ ScoreOf(v, i, p) <= a + 4
  PROVE  ~ Deviates(v, G, i)
<1>. DEFINE x == [p \in G |-> ScoreOf(v, i, p)]
            q == [p \in G |-> x[p] * x[p]]
            n == Cardinality(G)
            S == SumFunctionOnSet(x, G)
            Q == SumFunctionOnSet(q, G)
<1>1. /\ S \in Nat /\ Q \in Nat
      /\ Q <= (2 * a + 4) * S - a * (a + 4) * n
  <2>1. x \in [G -> Nat] /\ \A p \in G : a <= x[p] /\ x[p] <= a + 4
    OBVIOUS
  <2>. HIDE DEF x
  <2>. QED
    BY <2>1, SquaresBelowChord
<1>2. n \in Nat
  BY FS_CardinalityType
<1>3. Deviates(v, G, i) <=> n * Q - S * S > 9 * n * n
  BY DEF Deviates, SumFunction
<1>. HIDE DEF n, S, Q
<1>4. n * Q - S * S <= 9 * n * n
  <2>1. n * Q <= n * ((2 * a + 4) * S - a * (a + 4) * n)
    BY <1>1, <1>2
  <2>. DEFINE u == S - n * (a + 2)
  <2>2. n * ((2 * a + 4) * S - a * (a + 4) * n) - S * S = 4 * n * n - u * u
    BY <1>1, <1>2
  <2>3. u * u >= 0 /\ n * n >= 0
    BY <1>1, <1>2
  <2>. QED
    BY <1>1, <1>2, <2>1, <2>2, <2>3
<1>. QED
  BY <1>1, <1>2, <1>3, <1>4

(* An item that is disputed has a spread. *)
LEMMA DisputesSpread == AuditAssumption /\ AuditInv => DisputeHasSpread
<1>. SUFFICES ASSUME AuditAssumption, AuditInv, NEW i \in Item,
                     Disputed(verdict, judges, i)
              PROVE  Spread(verdict, Graders(verdict, judges, i), i) > 4
  BY DEF DisputeHasSpread
<1>. DEFINE G == Graders(verdict, judges, i)
            S == {ScoreOf(verdict, i, p) : p \in G}
<1>1. verdict \in [Provider -> Verdict] /\ judges \in SUBSET Provider
  BY DEF AuditInv, TypeOK
<1>2. IsFiniteSet(G) /\ \A p \in G : ScoreOf(verdict, i, p) \in 0 .. 10
  <2>1. IsFiniteSet(G) /\ \A p \in G : ScoreOf(verdict, i, p) \in Score
    BY <1>1, GradersHaveGraded
  <2>. QED
    BY <2>1 DEF AuditAssumption
<1>3. CASE Cardinality(G) >= 3
  <2>1. Deviates(verdict, G, i)
    BY <1>3 DEF Disputed
  <2>. HIDE DEF G
  <2>2. G # {}
    BY <1>3, FS_EmptySet
  <2>3. S \in SUBSET (0 .. 10) /\ S # {}
    BY <1>2, <2>2
  <2>4. Spread(verdict, G, i) = Max(S) - Min(S)
    BY <2>3 DEF Spread
  <2>. HIDE DEF S
  <2>5. /\ Max(S) \in S /\ \A s \in S : s <= Max(S)
        /\ Min(S) \in S /\ \A s \in S : Min(S) <= s
        /\ Max(S) \in 0 .. 10 /\ Min(S) \in 0 .. 10
    <3>1. S \in SUBSET Nat
      <4>1. \A n \in 0 .. 10 : n \in Nat
        OBVIOUS
      <4>. QED
        BY <2>3, <4>1
    <3>2. Min(S) \in S /\ \A s \in S : Min(S) <= s
      BY <2>3, <3>1, LeastIsMin
    <3>3. 10 \in Nat
      OBVIOUS
    <3>4. Max(S) \in S /\ \A s \in S : s <= Max(S)
      BY <2>3, <3>3, GreatestIsMax
    <3>. QED
      BY <2>3, <3>2, <3>4
  <2>6. SUFFICES ASSUME Max(S) - Min(S) <= 4 PROVE FALSE
    BY <2>4, <2>5 DEF G
  <2>7. \A p \in G : ScoreOf(verdict, i, p) \in Nat /\ Min(S) <= ScoreOf(verdict, i, p)
                     /\ ScoreOf(verdict, i, p) <= Min(S) + 4
    <3>1. SUFFICES ASSUME NEW p \in G
                   PROVE  ScoreOf(verdict, i, p) \in Nat /\ Min(S) <= ScoreOf(verdict, i, p)
                          /\ ScoreOf(verdict, i, p) <= Min(S) + 4
      OBVIOUS
    <3>2. ScoreOf(verdict, i, p) \in S
      BY DEF S
    <3>3. ScoreOf(verdict, i, p) \in 0 .. 10
      BY <1>2
    <3>4. Min(S) <= ScoreOf(verdict, i, p) /\ ScoreOf(verdict, i, p) <= Max(S)
      BY <2>5, <3>2
    <3>. QED
      BY <2>5, <2>6, <3>3, <3>4
  <2>8. Min(S) \in Nat
    BY <2>5
  <2>. QED
    BY <1>2, <2>1, <2>7, <2>8, CloseScoresAgree
<1>4. CASE ~ (Cardinality(G) >= 3)
  BY <1>4 DEF Disputed
<1>. QED
  BY <1>3, <1>4
===============================================================================
