------------------------------ MODULE WorkProofs ------------------------------
(***************************************************************************)
(* What a call of solve, create, create_cheap or audit and a turn of a     *)
(* worker promise, for any providers, caps, costs and bounds. Each part is *)
(* proved from the inductive invariant of its own module: AttemptsInv of   *)
(* Solve, PipelineInv of Pipeline, TurnInv of WorkerTools and AuditInv of  *)
(* Audit. The argument about audits is in AuditProofs, which is taken here *)
(* once for each of the two audits that Work has; the lemmas that begin    *)
(* with their names say that the operators of Work and of AuditProofs,     *)
(* which are instances of the same module, are equal.                      *)
(***************************************************************************)
EXTENDS Work, Sequences, FiniteSetTheorems, TLAPS

AuditFacts == INSTANCE AuditProofs WITH
  Provider <- Auditor, Item <- Item, Severity <- Severity, Score <- Score,
  MaxJudges <- MaxJudges,
  pc <- v1, args <- v2, mode <- v3, judges <- v4, thread <- v5,
  verdict <- v6, answers <- v7, passed <- v8

ItemsFacts == INSTANCE AuditProofs WITH
  Provider <- Auditor2, Item <- Item2, Severity <- Severity2,
  Score <- Score2, MaxJudges <- MaxJudges2,
  pc <- v1, args <- v2, mode <- v3, judges <- v4, thread <- v5,
  verdict <- v6, answers <- v7, passed <- v8

(* solve makes at least one attempt, on a finite list of providers. *)
LEMMA SolveConstants == MaxAttempts \in Nat \ {0} /\ IsFiniteSet(Provider)
BY ConstantsFit DEF SolveCall!SolveAssumption, SolveCall!IsFiniteSet, IsFiniteSet

(* A panel is a sequence of providers, and not empty. *)
LEMMA PanelIsSeq ==
  ASSUME v3 \in UNION {SolveCall!SetToSeqs(P) : P \in (SUBSET Provider) \ {{}}}
  PROVE  v3 \in Seq(Provider) /\ Len(v3) \in Nat \ {0}
<1>1. PICK P \in (SUBSET Provider) \ {{}} : v3 \in SolveCall!SetToSeqs(P)
  OBVIOUS
<1>2. SolveCall!Cardinality(P) = Cardinality(P)
  BY DEF SolveCall!Cardinality, Cardinality
<1>3. Cardinality(P) \in Nat \ {0}
  BY <1>1, SolveConstants, FS_Subset, FS_CardinalityType, FS_EmptySet
<1>4. v3 \in [1 .. Cardinality(P) -> P]
  BY <1>1, <1>2 DEF SolveCall!SetToSeqs
<1>. QED
  BY <1>1, <1>3, <1>4

(* The last rejection depends on which attempts were rejected only. *)
LEMMA SameRejections ==
  ASSUME NEW m, NEW n,
         \A j : j \in 1 .. m /\ v5'[j].outcome = "rejected"
                  <=> j \in 1 .. n /\ v5[j].outcome = "rejected"
  PROVE  SolveCall!LastRejection(m)' = SolveCall!LastRejection(n)
<1>. DEFINE R == {j \in 1 .. n : v5[j].outcome = "rejected"}
            S == {j \in 1 .. m : v5'[j].outcome = "rejected"}
<1>1. S = R
  OBVIOUS
<1>2. SolveCall!LastRejection(n) = IF R = {} THEN 0 ELSE CHOOSE j \in R : \A k \in R : k <= j
  BY DEF SolveCall!LastRejection
<1>3. SolveCall!LastRejection(m)' = IF S = {} THEN 0 ELSE CHOOSE j \in S : \A k \in S : k <= j
  BY DEF SolveCall!LastRejection
<1>. HIDE DEF R, S
<1>. QED
  BY <1>1, <1>2, <1>3

(* What a verdict changes of an attempt. *)
LEMMA JudgedAttempt ==
  ASSUME NEW P, NEW F, NEW O, NEW r \in [provider : P, fed : F, outcome : O], NEW o \in O
  PROVE  /\ [r EXCEPT !.outcome = o] \in [provider : P, fed : F, outcome : O]
         /\ [r EXCEPT !.outcome = o].outcome = o
         /\ [r EXCEPT !.outcome = o].provider = r.provider
         /\ [r EXCEPT !.outcome = o].fed = r.fed
BY Zenon

(* solve begins without an attempt. *)
LEMMA SolveStarts == SolveCall!Init => SolveCall!AttemptsInv
<1>. SUFFICES ASSUME SolveCall!Init PROVE SolveCall!AttemptsInv
  OBVIOUS
<1>. USE DEF SolveCall!Init, SolveCall!Turn
<1>1. SolveCall!LastRejection(0) = 0
  BY DEF SolveCall!LastRejection
<1>2. SolveCall!TypeOK
  BY SolveConstants DEF SolveCall!TypeOK
<1>. QED
  BY <1>1, <1>2
     DEF SolveCall!AttemptsInv, SolveCall!FeedbackIsLatest, SolveCall!SolvedIsVerified

(* The next attempt goes to the provider whose turn it is, with the last   *)
(* rejection.                                                              *)
LEMMA ProposeKeeps ==
  ASSUME SolveCall!AttemptsInv, SolveCall!Propose
  PROVE  SolveCall!AttemptsInv'
<1>. DEFINE Attempt == [provider : Provider, fed : 0 .. MaxAttempts, outcome : SolveCall!Outcome]
<1>0. v5 \in Seq(Attempt)
  BY DEF SolveCall!AttemptsInv
<1>n. PICK n \in Nat : n = Len(v5)
  BY <1>0
<1>. HIDE DEF Attempt
<1>1. PICK o \in {"error", "proposed"} :
        /\ v5' = Append(v5, [provider |-> SolveCall!TurnOf, fed |-> v6, outcome |-> o])
        /\ v1' = IF o = "error" THEN "loop" ELSE "verify"
  BY <1>n DEF SolveCall!Propose
<1>2. v1 = "loop" /\ UNCHANGED <<v2, v3, v4, v6, v7, v8, v9>> /\ n < MaxAttempts
  BY <1>n DEF SolveCall!Propose, SolveCall!request, SolveCall!Turn
<1>3. /\ SolveCall!TypeOK /\ v6 \in 0 .. MaxAttempts
      /\ \A i \in 1 .. n : v5[i].provider = v3[((i - 1) % Len(v3)) + 1]
      /\ \A i \in 1 .. n : v5[i].fed = SolveCall!LastRejection(i - 1)
      /\ v6 = SolveCall!LastRejection(n) /\ v7 = 0 /\ v9 = 0
      /\ \A i \in 1 .. n : v5[i].outcome # "accepted"
  <2>1. SolveCall!TypeOK /\ v7 = 0 /\ v6 = SolveCall!LastRejection(n)
    BY <1>n, <1>2 DEF SolveCall!AttemptsInv, SolveCall!Turn
  <2>2. v6 \in 0 .. MaxAttempts
    BY <1>n, <2>1, SolveConstants DEF SolveCall!TypeOK, SolveCall!Turn
  <2>3. v9 = 0 /\ \A i \in 1 .. n : v5[i].outcome # "accepted"
    BY <1>n, <2>1 DEF SolveCall!AttemptsInv, SolveCall!SolvedIsVerified, SolveCall!Turn
  <2>. QED
    BY <1>n, <2>1, <2>2, <2>3 DEF SolveCall!AttemptsInv, SolveCall!FeedbackIsLatest,
       SolveCall!Turn
<1>4. v3 \in Seq(Provider) /\ Len(v3) \in Nat \ {0}
  BY <1>0, <1>n, <1>3, PanelIsSeq DEF SolveCall!TypeOK
<1>5. SolveCall!TurnOf = v3[(n % Len(v3)) + 1] /\ SolveCall!TurnOf \in Provider
  <2>1. n % Len(v3) \in 0 .. Len(v3) - 1
    BY <1>0, <1>n, <1>3, <1>4
  <2>. QED
    BY <1>0, <1>n, <1>4, <2>1 DEF SolveCall!TurnOf, SolveCall!Turn
<1>6. /\ v5' \in Seq(Attempt)
      /\ Len(v5') = n + 1
      /\ \A i \in 1 .. n : v5'[i] = v5[i]
      /\ v5'[n + 1] = [provider |-> SolveCall!TurnOf, fed |-> v6, outcome |-> o]
  BY <1>0, <1>n, <1>1, <1>3, <1>5 DEF Attempt, SolveCall!Outcome
<1>7. SolveCall!LastRejection(n + 1)' = SolveCall!LastRejection(n)
  <2>1. \A j : j \in 1 .. n + 1 /\ v5'[j].outcome = "rejected"
                 <=> j \in 1 .. n /\ v5[j].outcome = "rejected"
    BY <1>0, <1>n, <1>1, <1>3, <1>6
  <2>. QED
    BY <1>0, <1>n, <2>1, SameRejections
<1>8. \A i \in 0 .. n : SolveCall!LastRejection(i)' = SolveCall!LastRejection(i)
  <2>1. ASSUME NEW i \in 0 .. n
        PROVE  SolveCall!LastRejection(i)' = SolveCall!LastRejection(i)
    <3>1. \A j : j \in 1 .. i /\ v5'[j].outcome = "rejected"
                   <=> j \in 1 .. i /\ v5[j].outcome = "rejected"
      BY <1>0, <1>n, <1>3, <1>6
    <3>. QED
      BY <3>1, SameRejections
  <2>. QED
    BY <1>0, <1>n, <2>1
<1>9. \A i \in 1 .. n + 1 : v5'[i].fed = SolveCall!LastRejection(i - 1)'
  <2>1. ASSUME NEW i \in 1 .. n PROVE v5'[i].fed = SolveCall!LastRejection(i - 1)'
    <3>1. i - 1 \in 0 .. n
      OBVIOUS
    <3>2. v5'[i].fed = SolveCall!LastRejection(i - 1)
      BY <1>3, <1>6
    <3>. QED
      BY <1>8, <3>1, <3>2
  <2>2. v5'[n + 1].fed = SolveCall!LastRejection(n)'
    BY <1>0, <1>n, <1>3, <1>6, <1>8
  <2>. QED
    BY <1>0, <1>n, <1>3, <2>1, <2>2
<1>10. \A i \in 1 .. n + 1 : v5'[i].provider = v3'[((i - 1) % Len(v3')) + 1]
  <2>1. ASSUME NEW i \in 1 .. n PROVE v5'[i].provider = v3[((i - 1) % Len(v3)) + 1]
    BY <1>3, <1>6
  <2>2. v5'[n + 1].provider = v3[(((n + 1) - 1) % Len(v3)) + 1]
    BY <1>5, <1>6
  <2>3. ASSUME NEW i \in 1 .. n + 1 PROVE v5'[i].provider = v3[((i - 1) % Len(v3)) + 1]
    <3>1. i \in 1 .. n \/ i = n + 1
      OBVIOUS
    <3>. QED
      BY <2>1, <2>2, <3>1
  <2>. QED
    BY <1>2, <2>3
<1>11. \A i \in 1 .. n + 1 : v5'[i].outcome # "accepted"
  BY <1>0, <1>n, <1>1, <1>3, <1>6
<1>12. SolveCall!TypeOK'
  <2>1. \A i \in 1 .. n + 1 : v5'[i] \in Attempt
    BY <1>0, <1>n, <1>3, <1>6
  <2>2. /\ v2' \in SolveCall!Verifier /\ v4' \in BOOLEAN
        /\ v3' \in UNION {SolveCall!SetToSeqs(P) : P \in (SUBSET Provider) \ {{}}}
    BY <1>2, <1>3 DEF SolveCall!TypeOK
  <2>3. {v6', v7', v9'} \subseteq 0 .. n + 1 /\ v8' \subseteq 1 .. n + 1 /\ n + 1 <= MaxAttempts
    BY <1>n, <1>2, <1>3, SolveConstants DEF SolveCall!TypeOK, SolveCall!Turn
  <2>. QED
    BY <1>1, <1>6, <2>1, <2>2, <2>3 DEF Attempt, SolveCall!TypeOK, SolveCall!Turn
<1>13. v1' = "verify" => v5'[n + 1].outcome = "proposed"
  BY <1>0, <1>n, <1>1, <1>6
<1>14. v1' \in {"loop", "verify"}
  BY <1>0, <1>n, <1>1
<1>. QED
  BY <1>0, <1>n, <1>2, <1>3, <1>6, <1>7, <1>9, <1>10, <1>11, <1>12, <1>13, <1>14
     DEF Attempt, SolveCall!AttemptsInv, SolveCall!FeedbackIsLatest,
         SolveCall!SolvedIsVerified,
         SolveCall!Turn, SolveCall!Now

(* The verdict on the attempt is the last one.                             *)
LEMMA VerifyKeeps ==
  ASSUME SolveCall!AttemptsInv, SolveCall!Verify
  PROVE  SolveCall!AttemptsInv'
<1>. DEFINE Attempt == [provider : Provider, fed : 0 .. MaxAttempts, outcome : SolveCall!Outcome]
            Judged(ok) == IF ok THEN "accepted" ELSE "rejected"
<1>0. v5 \in Seq(Attempt)
  BY DEF SolveCall!AttemptsInv
<1>n. PICK n \in Nat : n = Len(v5)
  BY <1>0
<1>. HIDE DEF Attempt
<1>1. PICK ok \in SolveCall!Verdicts :
        /\ v5' = [v5 EXCEPT ![n] = [v5[n] EXCEPT !.outcome = Judged(ok)]]
        /\ v6' = n
        /\ v7' = IF ok THEN n ELSE v7
        /\ v1' = IF ok THEN "commit" ELSE "loop"
  BY <1>n DEF SolveCall!Verify, SolveCall!Turn
<1>2. v1 = "verify" /\ UNCHANGED <<v2, v3, v4, v8, v9>>
  BY <1>n DEF SolveCall!Verify, SolveCall!request
<1>3. /\ SolveCall!TypeOK /\ n \in 1 .. MaxAttempts
      /\ \A i \in 1 .. n : v5[i].provider = v3[((i - 1) % Len(v3)) + 1]
      /\ \A i \in 1 .. n : v5[i].fed = SolveCall!LastRejection(i - 1)
      /\ v7 = 0 /\ v9 = 0
      /\ \A i \in 1 .. n : v5[i].outcome # "accepted"
  <2>1. SolveCall!TypeOK /\ v7 = 0 /\ n > 0
    BY <1>n, <1>2 DEF SolveCall!AttemptsInv, SolveCall!Turn
  <2>2. n \in 1 .. MaxAttempts
    BY <1>n, <2>1, SolveConstants DEF SolveCall!TypeOK, SolveCall!Turn
  <2>3. v9 = 0 /\ \A i \in 1 .. n : v5[i].outcome # "accepted"
    BY <1>n, <2>1 DEF SolveCall!AttemptsInv, SolveCall!SolvedIsVerified, SolveCall!Turn
  <2>. QED
    BY <1>n, <2>1, <2>2, <2>3 DEF SolveCall!AttemptsInv, SolveCall!FeedbackIsLatest,
       SolveCall!Turn
<1>. DEFINE o == Judged(ok)
            w == [v5[n] EXCEPT !.outcome = o]
<1>4. o \in {"accepted", "rejected"} /\ (o = "accepted" <=> ok)
  OBVIOUS
<1>5. w \in Attempt /\ w.outcome = o /\ w.provider = v5[n].provider /\ w.fed = v5[n].fed
  <2>1. v5[n] \in Attempt
    BY <1>0, <1>n, <1>3
  <2>2. o \in SolveCall!Outcome
    BY <1>4 DEF SolveCall!Outcome
  <2>. QED
    BY <2>1, <2>2, JudgedAttempt, Zenon DEF Attempt
<1>. HIDE DEF o, w
<1>6. /\ v5' \in Seq(Attempt)
      /\ Len(v5') = n
      /\ \A i \in 1 .. n - 1 : v5'[i] = v5[i]
      /\ v5'[n].outcome = o
      /\ \A i \in 1 .. n : v5'[i].provider = v5[i].provider /\ v5'[i].fed = v5[i].fed
  <2>1. v5' = [v5 EXCEPT ![n] = w]
    BY <1>1 DEF o, w
  <2>2. /\ v5' \in Seq(Attempt) /\ Len(v5') = n /\ v5'[n] = w
        /\ \A i \in 1 .. n - 1 : v5'[i] = v5[i]
    BY <1>0, <1>n, <1>3, <1>5, <2>1
  <2>. QED
    BY <1>3, <1>5, <2>2
<1>7. \A i \in 0 .. n - 1 : SolveCall!LastRejection(i)' = SolveCall!LastRejection(i)
  <2>1. ASSUME NEW i \in 0 .. n - 1
        PROVE  SolveCall!LastRejection(i)' = SolveCall!LastRejection(i)
    <3>1. \A j : j \in 1 .. i /\ v5'[j].outcome = "rejected"
                   <=> j \in 1 .. i /\ v5[j].outcome = "rejected"
      BY <1>3, <1>6
    <3>. QED
      BY <3>1, SameRejections
  <2>. QED
    BY <1>0, <1>n, <2>1
<1>8. \A i \in 1 .. n : v5'[i].fed = SolveCall!LastRejection(i - 1)'
  <2>1. ASSUME NEW i \in 1 .. n PROVE v5'[i].fed = SolveCall!LastRejection(i - 1)'
    <3>1. i - 1 \in 0 .. n - 1
      OBVIOUS
    <3>2. v5'[i].fed = SolveCall!LastRejection(i - 1)
      BY <1>3, <1>6
    <3>. QED
      BY <1>7, <3>1, <3>2
  <2>. QED
    BY <2>1
<1>9. \A i \in 1 .. n : v5'[i].provider = v3'[((i - 1) % Len(v3')) + 1]
  BY <1>0, <1>n, <1>2, <1>3, <1>6
<1>10. ~ok => SolveCall!LastRejection(n)' = n
  <2>. SUFFICES ASSUME ~ok PROVE SolveCall!LastRejection(n)' = n
    OBVIOUS
  <2>. DEFINE R == {j \in 1 .. n : v5'[j].outcome = "rejected"}
  <2>1. n \in R /\ \A k \in R : k \in Nat /\ k <= n
    BY <1>0, <1>n, <1>3, <1>4, <1>6
  <2>2. SolveCall!LastRejection(n)' = IF R = {} THEN 0 ELSE CHOOSE j \in R : \A k \in R : k <= j
    BY <1>n DEF SolveCall!LastRejection
  <2>. HIDE DEF R
  <2>3. (CHOOSE j \in R : \A k \in R : k <= j) = n
    <3>1. \A j \in R : (\A k \in R : k <= j) => j = n
      BY <2>1
    <3>. QED
      BY <2>1, <3>1, Zenon
  <2>. QED
    BY <2>1, <2>2, <2>3
<1>11. {i \in 1 .. n : v5'[i].outcome = "accepted"} = {v7'} \ {0} /\ (v7' # 0 => v7' = n)
  <2>1. CASE ok
    BY <1>0, <1>n, <2>1, <1>1, <1>3, <1>4, <1>5, <1>6
  <2>2. CASE ~ok
    BY <1>0, <1>n, <2>2, <1>1, <1>3, <1>4, <1>5, <1>6
  <2>. QED
    BY <1>0, <1>n, <2>1, <2>2
<1>12. /\ v7' \in 0 .. n /\ v1' \in {"loop", "commit"}
       /\ (v1' = "loop" => ~ok /\ v7' = 0) /\ (v1' = "commit" => v7' = n)
  BY <1>0, <1>n, <1>1, <1>3
<1>13. SolveCall!TypeOK'
  <2>1. \A i \in 1 .. n : v5'[i] \in Attempt
    BY <1>n, <1>6
  <2>2. /\ v2' \in SolveCall!Verifier /\ v4' \in BOOLEAN
        /\ v3' \in UNION {SolveCall!SetToSeqs(P) : P \in (SUBSET Provider) \ {{}}}
    BY <1>2, <1>3 DEF SolveCall!TypeOK
  <2>3. {v6', v7', v9'} \subseteq 0 .. n /\ v8' \subseteq 1 .. n
    BY <1>n, <1>1, <1>2, <1>3, <1>12 DEF SolveCall!TypeOK, SolveCall!Turn
  <2>4. v1' \in {"loop", "commit"} /\ Len(v5') = n
    BY <1>6, <1>12
  <2>5. /\ Len(v5') <= MaxAttempts /\ {v6', v7', v9'} \subseteq 0 .. Len(v5')
        /\ v8' \subseteq 1 .. Len(v5')
    BY <1>3, <2>3, <2>4
  <2>6. \A i \in 1 .. Len(v5') : v5'[i] \in Attempt
    BY <2>1, <2>4
  <2>. QED
    BY <2>2, <2>4, <2>5, <2>6 DEF Attempt, SolveCall!TypeOK, SolveCall!Turn
<1>. QED
  BY <1>0, <1>n, <1>1, <1>2, <1>3, <1>6, <1>8, <1>9, <1>10, <1>11, <1>12, <1>13
     DEF Attempt, SolveCall!AttemptsInv, SolveCall!FeedbackIsLatest,
         SolveCall!SolvedIsVerified,
         SolveCall!Turn, SolveCall!Now

(* The other steps of solve leave its attempts alone. *)
LEMMA OthersKeep ==
  ASSUME SolveCall!AttemptsInv,
         \/ SolveCall!Refuse \/ SolveCall!Enter \/ SolveCall!VerifierRaises \/ SolveCall!GiveUp
         \/ SolveCall!Commit \/ SolveCall!Diff \/ SolveCall!TimeRunsOut \/ UNCHANGED SolveCall!vars
  PROVE  SolveCall!AttemptsInv'
<1>. DEFINE Attempt == [provider : Provider, fed : 0 .. MaxAttempts, outcome : SolveCall!Outcome]
<1>0. v5 \in Seq(Attempt)
  BY DEF SolveCall!AttemptsInv
<1>. USE DEF SolveCall!Refuse, SolveCall!Enter, SolveCall!VerifierRaises, SolveCall!GiveUp,
       SolveCall!Commit, SolveCall!Diff, SolveCall!TimeRunsOut, SolveCall!vars, SolveCall!request,
       SolveCall!Turn, SolveCall!Collected
<1>. HIDE DEF Attempt
<1>1. v2' = v2 /\ v3' = v3 /\ v5' = v5 /\ v6' = v6 /\ v7' = v7
  OBVIOUS
<1>2. \A i \in Nat : SolveCall!LastRejection(i)' = SolveCall!LastRejection(i)
  <2>1. ASSUME NEW i \in Nat PROVE SolveCall!LastRejection(i)' = SolveCall!LastRejection(i)
    BY <1>1, SameRejections
  <2>. QED
    BY <2>1
<1>3. SolveCall!LastRejection(Len(v5))' = SolveCall!LastRejection(Len(v5))
  BY <1>1 DEF SolveCall!LastRejection
<1>4. SolveCall!FeedbackIsLatest'
  <2>1. ASSUME NEW i \in 1 .. Len(v5) PROVE v5[i].fed = SolveCall!LastRejection(i - 1)'
    <3>1. i - 1 \in Nat
      BY <1>0
    <3>2. v5[i].fed = SolveCall!LastRejection(i - 1)
      BY DEF SolveCall!AttemptsInv, SolveCall!FeedbackIsLatest
    <3>. QED
      BY <1>2, <3>1, <3>2
  <2>. QED
    BY <1>1, <2>1 DEF SolveCall!FeedbackIsLatest
<1>5. SolveCall!TypeOK' /\ (v4' => v4)
  <2>1. SolveCall!TypeOK
    BY DEF SolveCall!AttemptsInv
  <2>2. v4' \in BOOLEAN /\ (v4' => v4)
    <3>1. v4' = v4 \/ v4' = FALSE
      OBVIOUS
    <3>2. v4 \in BOOLEAN
      BY <2>1 DEF SolveCall!TypeOK
    <3>3. CASE v4' = v4
      BY <3>2, <3>3, Zenon
    <3>4. CASE v4' = FALSE
      BY <3>4, Zenon
    <3>. QED
      BY <3>1, <3>3, <3>4
  <2>3. v1' \in {"entry", "loop", "verify", "commit", "patch", "refused", "raised", "done"}
    BY <2>1 DEF SolveCall!TypeOK
  <2>4. v8' \subseteq 1 .. Len(v5)
    BY <2>1 DEF SolveCall!TypeOK
  <2>5. v9' \in {v9, 0, v7}
    BY <2>1 DEF SolveCall!TypeOK
  <2>6. {v6', v7', v9'} \subseteq 0 .. Len(v5)
    BY <1>0, <1>1, <2>1, <2>5 DEF SolveCall!TypeOK
  <2>. QED
    BY <1>1, <2>1, <2>2, <2>3, <2>4, <2>6 DEF SolveCall!TypeOK
<1>6. SolveCall!SolvedIsVerified'
  <2>1. v9' \in {0, v7}
    BY DEF SolveCall!AttemptsInv, SolveCall!SolvedIsVerified
  <2>. QED
    BY <1>1, <2>1 DEF SolveCall!AttemptsInv, SolveCall!SolvedIsVerified
<1>7. /\ v1' \in {"entry", "loop", "verify"} => v7' = 0 /\ v6' = SolveCall!LastRejection(Len(v5))
      /\ v1' \in {"verify", "raised"} => Len(v5) > 0 /\ v5[Len(v5)].outcome = "proposed"
  BY <1>0, <1>1 DEF SolveCall!AttemptsInv, SolveCall!Now
<1>8. v1' \in {"entry", "refused", "raised"} => v7' = 0 /\ v9' = 0
  BY <1>1 DEF SolveCall!AttemptsInv, SolveCall!SolvedIsVerified
<1>9. v1' \in {"commit", "patch", "done"} => v7' # 0 \/ Len(v5) = MaxAttempts \/ ~v4'
  BY <1>1, <1>5 DEF SolveCall!AttemptsInv
<1>10. v1' \in {"patch", "done"} => v8' = 1 .. Len(v5)
  BY <1>1 DEF SolveCall!AttemptsInv
<1>. QED
  BY <1>0, <1>1, <1>3, <1>4, <1>5, <1>6, <1>7, <1>8, <1>9, <1>10
     DEF Attempt, SolveCall!AttemptsInv, SolveCall!Now

(* Every step of solve keeps its invariant. *)
LEMMA SolveStep == ASSUME SolveCall!AttemptsInv, SolveCall!Next PROVE SolveCall!AttemptsInv'
BY ProposeKeeps, VerifyKeeps, OthersKeep
   DEF SolveCall!Next, SolveCall!Call, SolveCall!Stopped

(* A solve that gives up has made all its attempts, and has asked the      *)
(* whole panel when it has the attempts for it: the turns go round.        *)
LEMMA TurnsGoRound == ASSUME SolveCall!AttemptsInv PROVE SolveCall!EveryoneHadHisTurn
<1>. SUFFICES ASSUME v1 = "done", v7 = 0, v4
              PROVE  /\ Len(v5) = MaxAttempts
                     /\ Len(v3) <= MaxAttempts =>
                          SolveCall!ToSet(v3) = {v5[i].provider : i \in 1 .. Len(v5)}
  BY DEF SolveCall!EveryoneHadHisTurn, SolveCall!Turn
<1>1. Len(v5) = MaxAttempts
  BY DEF SolveCall!AttemptsInv, SolveCall!Turn
<1>2. v3 \in Seq(Provider) /\ Len(v3) \in Nat \ {0} /\ MaxAttempts \in Nat
  BY PanelIsSeq, SolveConstants DEF SolveCall!AttemptsInv, SolveCall!TypeOK
<1>3. \A i \in 1 .. MaxAttempts : v5[i].provider = v3[((i - 1) % Len(v3)) + 1]
  BY <1>1 DEF SolveCall!AttemptsInv, SolveCall!Turn
<1>4. ASSUME Len(v3) <= MaxAttempts
      PROVE  SolveCall!ToSet(v3) = {v5[i].provider : i \in 1 .. MaxAttempts}
  <2>1. ASSUME NEW k \in 1 .. Len(v3)
        PROVE  \E i \in 1 .. MaxAttempts : v5[i].provider = v3[k]
    <3>1. k \in 1 .. MaxAttempts /\ (k - 1) % Len(v3) = k - 1
      BY <1>2, <1>4
    <3>. QED
      BY <1>3, <3>1
  <2>2. ASSUME NEW i \in 1 .. MaxAttempts
        PROVE  \E k \in 1 .. Len(v3) : v5[i].provider = v3[k]
    <3>1. (i - 1) % Len(v3) \in 0 .. Len(v3) - 1
      BY <1>2
    <3>2. ((i - 1) % Len(v3)) + 1 \in 1 .. Len(v3)
      BY <1>2, <3>1
    <3>. QED
      BY <1>3, <3>2
  <2>3. SolveCall!ToSet(v3) = {v3[k] : k \in 1 .. Len(v3)}
    BY <1>2 DEF SolveCall!ToSet
  <2>. QED
    BY <2>1, <2>2, <2>3
<1>. QED
  BY <1>1, <1>4

-----------------------------------------------------------------------------

(* The cap of a session and the cost of a call are numbers. *)
LEMMA CreateConstants == SessionCap \in Nat /\ CallCost \in Nat
BY ConstantsFit DEF CreateCall!PipelineAssumption

(* A run of create begins with nothing spent and nothing graded. *)
LEMMA CreateStarts == CreateCall!Init => CreateCall!PipelineInv
<1>. SUFFICES ASSUME CreateCall!Init PROVE CreateCall!PipelineInv
  OBVIOUS
<1>. USE CreateConstants DEF CreateCall!Init, CreateCall!Undelivered, CreateCall!NoOrch,
         CreateCall!NoAudit
<1>1. CreateCall!TypeOK
  <2>1. v14 \in BOOLEAN
    OBVIOUS
  <2>2. v7 \in [final : 0 .. 2, error : BOOLEAN, panel : SUBSET Provider, cost : Nat]
    OBVIOUS
  <2>3. v9 \in [of : 0 .. 2, judges : SUBSET Provider, score : {"none", "low", "high"}, cost : Nat]
    OBVIOUS
  <2>4. v3 \in Nat
    OBVIOUS
  <2>. QED
    BY <2>1, <2>2, <2>3, <2>4 DEF CreateCall!TypeOK
<1>2. CreateCall!Outlay
  BY DEF CreateCall!Outlay, CreateCall!Usage
<1>3. CreateCall!Stage
  BY DEF CreateCall!Stage
<1>4. CreateCall!Graded /\ CreateCall!WrittenIsJudged /\ CreateCall!AuditorsIndependent
  BY DEF CreateCall!Graded, CreateCall!WrittenIsJudged, CreateCall!AuditorsIndependent
<1>5. CreateCall!OvershootIsOneCall
  BY DEF CreateCall!OvershootIsOneCall
<1>. QED
  BY <1>1, <1>2, <1>3, <1>4, <1>5 DEF CreateCall!PipelineInv

(* A call that starts below the cap takes the session past it by less than *)
(* the call.                                                               *)
LEMMA CommitOvershoots ==
  ASSUME CreateCall!PipelineInv, NEW c \in 0 .. CallCost, CreateCall!Commit(c),
         CreateCall!Tripped => c = 0
  PROVE  /\ v3' \in Nat /\ v16' = v16 + c /\ v16' \in Nat
         /\ CreateCall!OvershootIsOneCall'
BY CreateConstants
   DEF CreateCall!PipelineInv, CreateCall!TypeOK, CreateCall!Commit, CreateCall!Tripped,
       CreateCall!OvershootIsOneCall

(* What an orchestration may leave: a final of this attempt or none, at    *)
(* the cost of one call.                                                   *)
LEMMA OrchestrateYields ==
  ASSUME CreateCall!PipelineInv, CreateCall!Orchestrate, v11 \in {0, 1}
  PROVE  \E c \in 0 .. CallCost :
           /\ v7' \in [final : 0 .. 2, error : BOOLEAN, panel : SUBSET Provider, cost : Nat]
           /\ v7'.final \in {0, v11 + 1} /\ (v2.plan_only => v7'.final = 0)
           /\ v7'.cost = c
           /\ v3' \in Nat /\ v16' = v16 + c /\ v16' \in Nat
           /\ CreateCall!OvershootIsOneCall'
<1>. USE CreateConstants
<1>1. /\ v3 \in Nat /\ v16 \in Nat /\ v2.plan_only \in BOOLEAN
      /\ CreateCall!OvershootIsOneCall
  BY DEF CreateCall!PipelineInv, CreateCall!TypeOK
<1>3. ASSUME NEW c \in 0 .. CallCost, NEW e \in BOOLEAN, v7' = CreateCall!Undelivered(e, c),
             v16' = v16 + c, v3' = v3
      PROVE  /\ v7' \in [final : 0 .. 2, error : BOOLEAN, panel : SUBSET Provider, cost : Nat]
             /\ v7'.final = 0 /\ v7'.cost = c
             /\ v3' \in Nat /\ v16' \in Nat
             /\ CreateCall!OvershootIsOneCall'
  <2>1. CreateCall!OvershootIsOneCall'
    BY <1>1, <1>3 DEF CreateCall!OvershootIsOneCall
  <2>. QED
    BY <1>1, <1>3, <2>1 DEF CreateCall!Undelivered
<1>4. ASSUME ~CreateCall!Tripped, NEW c \in 0 .. CallCost, NEW f \in {0, v11 + 1},
             NEW S \in (SUBSET Provider) \ {{}},
             v7' = [final |-> f, error |-> FALSE, panel |-> S, cost |-> c],
             CreateCall!Commit(c)
      PROVE  /\ v7' \in [final : 0 .. 2, error : BOOLEAN, panel : SUBSET Provider, cost : Nat]
             /\ v7'.final \in {0, v11 + 1} /\ v7'.cost = c
             /\ v3' \in Nat /\ v16' = v16 + c /\ v16' \in Nat
             /\ CreateCall!OvershootIsOneCall'
  BY <1>4, CommitOvershoots
<1>. QED
  <2>1. CASE CreateCall!Tripped /\ v7' = CreateCall!Undelivered(TRUE, 0) /\ CreateCall!Commit(0)
    BY <2>1, CommitOvershoots DEF CreateCall!Undelivered
  <2>2. CASE \E c \in 0 .. CallCost, e \in BOOLEAN :
               v7' = CreateCall!Undelivered(e, c) /\ v16' = v16 + c /\ v3' = v3
    BY <2>2, <1>3
  <2>3. CASE /\ ~CreateCall!Tripped /\ ~v2.plan_only
             /\ \E c \in 0 .. CallCost, f \in {0, v11 + 1}, S \in (SUBSET Provider) \ {{}} :
                  /\ v7' = [final |-> f, error |-> FALSE, panel |-> S, cost |-> c]
                  /\ CreateCall!Commit(c)
    <3>1. PICK c \in 0 .. CallCost, f \in {0, v11 + 1}, S \in (SUBSET Provider) \ {{}} :
                  /\ v7' = [final |-> f, error |-> FALSE, panel |-> S, cost |-> c]
                  /\ CreateCall!Commit(c)
      BY <2>3
    <3>. QED
      BY <2>3, <3>1, <1>4
  <2>4. \/ CreateCall!Tripped /\ v7' = CreateCall!Undelivered(TRUE, 0) /\ CreateCall!Commit(0)
        \/ \E c \in 0 .. CallCost, e \in BOOLEAN :
               v7' = CreateCall!Undelivered(e, c) /\ v16' = v16 + c /\ v3' = v3
        \/ /\ ~CreateCall!Tripped /\ ~v2.plan_only
           /\ \E c \in 0 .. CallCost, f \in {0, v11 + 1}, S \in (SUBSET Provider) \ {{}} :
                /\ v7' = [final |-> f, error |-> FALSE, panel |-> S, cost |-> c]
                /\ CreateCall!Commit(c)
    BY DEF CreateCall!Orchestrate
  <2>. QED
    BY <2>1, <2>2, <2>3, <2>4

(* What an audit may leave: a verdict on the latest final, by judges who   *)
(* had no part in it unless everyone had.                                  *)
LEMMA AuditYields ==
  ASSUME CreateCall!PipelineInv, CreateCall!Audit
  PROVE  \E c \in 0 .. CallCost :
           /\ v9' \in [of : 0 .. 2, judges : SUBSET Provider,
                       score : {"none", "low", "high"}, cost : Nat]
           /\ v9'.of = v7.final /\ v9'.cost = c
           /\ v9'.judges \cap v7.panel = {} \/ v7.panel = Provider
           /\ v8' = v7.panel
           /\ v3' \in Nat /\ v16' = v16 + c /\ v16' \in Nat
           /\ CreateCall!OvershootIsOneCall'
<1>. USE CreateConstants
<1>1. v7.final \in 0 .. 2 /\ v7.panel \in SUBSET Provider
  BY DEF CreateCall!Retries, CreateCall!PipelineInv, CreateCall!TypeOK
<1>2. v8' = v7.panel
  BY DEF CreateCall!Retries, CreateCall!Audit, CreateCall!ExcludePanel
<1>3. CASE CreateCall!Tripped
  <2>1. v9' = [of |-> v7.final, judges |-> {}, score |-> "none", cost |-> 0] /\ CreateCall!Commit(0)
    BY <1>3 DEF CreateCall!Retries, CreateCall!Audit, CreateCall!NoAudit
  <2>. QED
    BY <1>1, <1>2, <2>1, CommitOvershoots
<1>4. CASE ~CreateCall!Tripped
  <2>1. PICK c \in 0 .. CallCost, S \in CreateCall!Judges(v8'), s \in {"none", "low", "high"} :
          /\ v9' = [of |-> v7.final, judges |-> S, score |-> s, cost |-> c]
          /\ CreateCall!Commit(c)
    BY <1>4 DEF CreateCall!Retries, CreateCall!Audit
  <2>2. S \in SUBSET Provider /\ (S \cap v7.panel = {} \/ v7.panel = Provider)
    BY <1>1, <1>2, <2>1 DEF CreateCall!Retries, CreateCall!Judges
  <2>. QED
    BY <1>1, <1>2, <1>4, <2>1, <2>2, CommitOvershoots
<1>. QED
  BY <1>3, <1>4

(* An exception that ends a run leaves the phases as they were. *)
LEMMA RaiseKeeps ==
  ASSUME CreateCall!PipelineInv, CreateCall!Raise
  PROVE  CreateCall!PipelineInv'
<1>. USE CreateConstants DEF CreateCall!Retries, CreateCall!Raise, CreateCall!PipelineInv,
         CreateCall!envelopes, CreateCall!judged, CreateCall!answer
<1>1. CreateCall!TypeOK'
  BY DEF CreateCall!Retries, CreateCall!TypeOK
<1>2. CreateCall!Outlay'
  BY DEF CreateCall!Retries, CreateCall!Outlay, CreateCall!Usage
<1>3. CreateCall!Stage'
  BY DEF CreateCall!Retries, CreateCall!Stage, CreateCall!TypeOK
<1>4. CreateCall!Graded'
  BY DEF CreateCall!Retries, CreateCall!Graded, CreateCall!Stage, CreateCall!BlockedStatus, CreateCall!TypeOK
<1>5. CreateCall!WrittenIsJudged'
  BY DEF CreateCall!Retries, CreateCall!WrittenIsJudged, CreateCall!Graded, CreateCall!Stage,
     CreateCall!BlockedStatus, CreateCall!TypeOK
<1>6. CreateCall!AuditorsIndependent'
  BY DEF CreateCall!Retries, CreateCall!AuditorsIndependent, CreateCall!Stage
<1>7. CreateCall!OvershootIsOneCall'
  BY DEF CreateCall!Retries, CreateCall!OvershootIsOneCall
<1>. QED
  BY <1>1, <1>2, <1>3, <1>4, <1>5, <1>6, <1>7

(* A run that needs no audit goes to its settlement ungraded. *)
LEMMA NoAuditNeededKeeps ==
  ASSUME CreateCall!PipelineInv, CreateCall!NoAuditNeeded
  PROVE  CreateCall!PipelineInv'
<1>. USE CreateConstants DEF CreateCall!Retries, CreateCall!NoAuditNeeded, CreateCall!PipelineInv,
         CreateCall!envelopes, CreateCall!judged, CreateCall!answer
<1>1. CreateCall!TypeOK'
  BY DEF CreateCall!Retries, CreateCall!TypeOK
<1>2. CreateCall!Outlay'
  BY DEF CreateCall!Retries, CreateCall!Outlay, CreateCall!Usage
<1>3. CreateCall!Stage'
  BY DEF CreateCall!Retries, CreateCall!Stage, CreateCall!TypeOK
<1>4. CreateCall!Graded'
  BY DEF CreateCall!Retries, CreateCall!Graded, CreateCall!Stage, CreateCall!BlockedStatus, CreateCall!TypeOK
<1>5. CreateCall!WrittenIsJudged'
  BY DEF CreateCall!Retries, CreateCall!WrittenIsJudged, CreateCall!Graded, CreateCall!Stage,
     CreateCall!BlockedStatus, CreateCall!TypeOK
<1>6. CreateCall!AuditorsIndependent'
  BY DEF CreateCall!Retries, CreateCall!AuditorsIndependent, CreateCall!Stage
<1>7. CreateCall!OvershootIsOneCall'
  BY DEF CreateCall!Retries, CreateCall!OvershootIsOneCall
<1>. QED
  BY <1>1, <1>2, <1>3, <1>4, <1>5, <1>6, <1>7

(* The settlement turns a low score into a blocked run. *)
LEMMA SettleKeeps ==
  ASSUME CreateCall!PipelineInv, CreateCall!Settle
  PROVE  CreateCall!PipelineInv'
<1>. USE CreateConstants DEF CreateCall!Retries, CreateCall!Settle, CreateCall!PipelineInv,
         CreateCall!envelopes, CreateCall!judged, CreateCall!answer
<1>1. CreateCall!TypeOK'
  BY DEF CreateCall!Retries, CreateCall!TypeOK
<1>2. CreateCall!Outlay'
  BY DEF CreateCall!Retries, CreateCall!Outlay, CreateCall!Usage
<1>3. CreateCall!Stage'
  BY DEF CreateCall!Retries, CreateCall!Stage, CreateCall!TypeOK
<1>4. CreateCall!Graded'
  BY DEF CreateCall!Retries, CreateCall!Graded, CreateCall!Stage, CreateCall!BlockedStatus, CreateCall!TypeOK
<1>5. CreateCall!WrittenIsJudged'
  BY DEF CreateCall!Retries, CreateCall!WrittenIsJudged, CreateCall!Graded, CreateCall!Stage,
     CreateCall!BlockedStatus, CreateCall!TypeOK
<1>6. CreateCall!AuditorsIndependent'
  BY DEF CreateCall!Retries, CreateCall!AuditorsIndependent, CreateCall!Stage
<1>7. CreateCall!OvershootIsOneCall'
  BY DEF CreateCall!Retries, CreateCall!OvershootIsOneCall
<1>. QED
  BY <1>1, <1>2, <1>3, <1>4, <1>5, <1>6, <1>7

(* The report sums up what every phase has cost. *)
LEMMA ReportKeeps ==
  ASSUME CreateCall!PipelineInv, CreateCall!Report
  PROVE  CreateCall!PipelineInv'
<1>. USE CreateConstants DEF CreateCall!Retries, CreateCall!Report, CreateCall!PipelineInv,
         CreateCall!envelopes, CreateCall!judged, CreateCall!answer, CreateCall!Usage
<1>1. CreateCall!TypeOK'
  BY DEF CreateCall!Retries, CreateCall!TypeOK
<1>2. CreateCall!Outlay'
  BY DEF CreateCall!Retries, CreateCall!Outlay, CreateCall!Usage
<1>3. CreateCall!Stage'
  BY DEF CreateCall!Retries, CreateCall!Stage, CreateCall!TypeOK
<1>4. CreateCall!Graded'
  BY DEF CreateCall!Retries, CreateCall!Graded, CreateCall!Stage, CreateCall!BlockedStatus, CreateCall!TypeOK
<1>5. CreateCall!WrittenIsJudged'
  BY DEF CreateCall!Retries, CreateCall!WrittenIsJudged, CreateCall!Graded, CreateCall!Stage,
     CreateCall!BlockedStatus, CreateCall!TypeOK
<1>6. CreateCall!AuditorsIndependent'
  BY DEF CreateCall!Retries, CreateCall!AuditorsIndependent, CreateCall!Stage
<1>7. CreateCall!OvershootIsOneCall'
  BY DEF CreateCall!Retries, CreateCall!OvershootIsOneCall
<1>. QED
  BY <1>1, <1>2, <1>3, <1>4, <1>5, <1>6, <1>7

(* The file that is written holds the latest final. *)
LEMMA WriteKeeps ==
  ASSUME CreateCall!PipelineInv, CreateCall!Write
  PROVE  CreateCall!PipelineInv'
<1>. USE CreateConstants DEF CreateCall!Retries, CreateCall!Write, CreateCall!PipelineInv,
         CreateCall!envelopes, CreateCall!judged, CreateCall!answer
<1>1. CreateCall!TypeOK'
  <2>1. v14' \in BOOLEAN
    OBVIOUS
  <2>2. v13' \in 0 .. 2
    BY DEF CreateCall!Retries, CreateCall!TypeOK
  <2>. QED
    BY <2>1, <2>2 DEF CreateCall!Retries, CreateCall!TypeOK
<1>2. CreateCall!Outlay'
  BY DEF CreateCall!Retries, CreateCall!Outlay, CreateCall!Usage
<1>3. CreateCall!Stage'
  BY DEF CreateCall!Retries, CreateCall!Stage, CreateCall!TypeOK
<1>4. CreateCall!Graded'
  BY DEF CreateCall!Retries, CreateCall!Graded, CreateCall!Stage, CreateCall!BlockedStatus, CreateCall!TypeOK
<1>5. CreateCall!WrittenIsJudged'
  <2>1. CASE v13' = v13
    BY <2>1 DEF CreateCall!Retries, CreateCall!WrittenIsJudged, CreateCall!Stage
  <2>2. CASE v13' = v7.final /\ v7.final # 0 /\ v12 \notin CreateCall!BlockedStatus
    <3>1. v7.final = v11 /\ (v11 = 2 => ~v2.skip_audit)
          /\ (v11 = 2 => v12 # "audit_failed" /\ v12 # "audit_inconclusive")
      BY <2>2 DEF CreateCall!Retries, CreateCall!Stage
    <3>2. v2.skip_audit \/ (v9.of = v7.final /\ 
            (\/ v12 = "success" /\ v9.score = "high"
             \/ v12 = "audit_failed" /\ v9.score = "low" /\ ~CreateCall!Retries
             \/ v12 = "audit_inconclusive" /\ v9.score = "none"))
      BY <2>2 DEF CreateCall!Retries, CreateCall!Graded
    <3>3. v12 \in {"audit_failed", "audit_inconclusive"} => v14'
      <4>1. v14' = (v14 \/ v12 \in {"audit_failed", "audit_inconclusive"})
        <5>1. v13' # v13
          BY <2>2 DEF CreateCall!Retries, CreateCall!Stage
        <5>2. UNCHANGED v13 \/ v14' = (v14 \/ v12 \in {"audit_failed", "audit_inconclusive"})
          BY Zenon
        <5>. QED
          BY <5>1, <5>2, Zenon
      <4>. QED
        BY <4>1, Zenon
    <3>4. UNCHANGED <<v2, v7, v9, v11>>
      OBVIOUS
    <3>5. /\ v11 = 2 => v12 = "success" /\ v9.score = "high"
          /\ v9.score = "low" => ~CreateCall!Retries
      BY <3>1, <3>2 DEF CreateCall!Retries, CreateCall!Stage
    <3>6. v14' \/ v2.skip_audit \/ v9.score = "high"
      BY <3>2, <3>3
    <3>. QED
      BY <2>2, <3>1, <3>2, <3>4, <3>5, <3>6 DEF CreateCall!Retries, CreateCall!WrittenIsJudged
  <2>. QED
    BY <2>1, <2>2
<1>6. CreateCall!AuditorsIndependent'
  BY DEF CreateCall!Retries, CreateCall!AuditorsIndependent, CreateCall!Stage
<1>7. CreateCall!OvershootIsOneCall'
  BY DEF CreateCall!Retries, CreateCall!OvershootIsOneCall
<1>. QED
  BY <1>1, <1>2, <1>3, <1>4, <1>5, <1>6, <1>7

(* The scoping call is the first cost of a run. *)
LEMMA ScopeKeeps ==
  ASSUME CreateCall!PipelineInv, CreateCall!Scope
  PROVE  CreateCall!PipelineInv'
<1>. USE CreateConstants DEF CreateCall!Retries, CreateCall!PipelineInv
<1>1. PICK c \in 0 .. CallCost : v4' = c /\ CreateCall!Commit(c) /\ (CreateCall!Tripped => c = 0)
  BY DEF CreateCall!Retries, CreateCall!Scope, CreateCall!Confer
<1>2. v3' \in Nat /\ v16' = v16 + c /\ v16' \in Nat /\ CreateCall!OvershootIsOneCall'
  BY <1>1, CommitOvershoots
<1>3. /\ v1 = "scope" /\ v1' = "build"
      /\ UNCHANGED <<v2, v5, v6, v7, v8, v9, v10, v11, v12, v13, v14, v15>>
  BY DEF CreateCall!Retries, CreateCall!Scope, CreateCall!judged, CreateCall!answer
<1>4. CreateCall!TypeOK'
  BY <1>1, <1>2, <1>3 DEF CreateCall!Retries, CreateCall!TypeOK
<1>5. CreateCall!Outlay'
  <2>1. /\ v4 = 0 /\ v6 = 0 /\ v16 = 0 /\ v5 = 0 /\ v11 = 0
        /\ v7 = CreateCall!NoOrch /\ v9 = CreateCall!NoAudit /\ v8 = {} /\ v10 = "none"
    BY <1>3 DEF CreateCall!Retries, CreateCall!Outlay, CreateCall!Stage
  <2>2. CreateCall!NoOrch.cost = 0 /\ CreateCall!NoAudit.cost = 0
    BY DEF CreateCall!Retries, CreateCall!NoOrch, CreateCall!Undelivered, CreateCall!NoAudit
  <2>3. CreateCall!Usage' = c
    BY <1>1, <1>3, <2>1, <2>2 DEF CreateCall!Retries, CreateCall!Usage
  <2>4. v16' = c
    BY <1>2, <2>1
  <2>. QED
    BY <1>1, <1>3, <2>1, <2>2, <2>3, <2>4 DEF CreateCall!Retries, CreateCall!Outlay
<1>6. CreateCall!Stage' /\ CreateCall!Graded'
  BY <1>3 DEF CreateCall!Retries, CreateCall!Stage, CreateCall!Graded
<1>7. CreateCall!WrittenIsJudged' /\ CreateCall!AuditorsIndependent'
  BY <1>3 DEF CreateCall!Retries, CreateCall!WrittenIsJudged, CreateCall!AuditorsIndependent
<1>. QED
  BY <1>2, <1>4, <1>5, <1>6, <1>7

(* The first orchestration makes the first attempt. *)
LEMMA BuildKeeps ==
  ASSUME CreateCall!PipelineInv, CreateCall!Build
  PROVE  CreateCall!PipelineInv'
<1>. USE CreateConstants DEF CreateCall!Retries, CreateCall!PipelineInv
<1>1. v11 = 0 /\ CreateCall!Orchestrate /\ v1 = "build"
  BY DEF CreateCall!Retries, CreateCall!Build, CreateCall!Stage
<1>2. PICK c \in 0 .. CallCost :
           /\ v7' \in [final : 0 .. 2, error : BOOLEAN, panel : SUBSET Provider, cost : Nat]
           /\ v7'.final \in {0, v11 + 1} /\ (v2.plan_only => v7'.final = 0)
           /\ v7'.cost = c
           /\ v3' \in Nat /\ v16' = v16 + c /\ v16' \in Nat
           /\ CreateCall!OvershootIsOneCall'
  BY <1>1, OrchestrateYields
<1>3. /\ v11' = 1
      /\ UNCHANGED <<v2, v4, v5, v6, v8, v9, v10, v13, v15>>
      /\ \/ v2.plan_only /\ v12' = "plan_only" /\ v14' = TRUE /\ v1' = "report"
         \/ ~v2.plan_only /\ v1' = "review" /\ UNCHANGED <<v12, v14>>
  BY DEF CreateCall!Retries, CreateCall!Build, CreateCall!judged
<1>4. CreateCall!TypeOK'
  <2>1. v14' \in BOOLEAN /\ v12' \in {"success", "plan_only"} /\ v1' \in {"report", "review"}
    BY <1>1, <1>3 DEF CreateCall!Retries, CreateCall!TypeOK, CreateCall!Stage
  <2>. QED
    BY <1>1, <1>2, <1>3, <2>1 DEF CreateCall!Retries, CreateCall!TypeOK
<1>5. CreateCall!Outlay'
  BY <1>1, <1>2, <1>3 DEF CreateCall!Retries, CreateCall!Outlay, CreateCall!TypeOK, CreateCall!Usage,
     CreateCall!NoOrch,
     CreateCall!Undelivered, CreateCall!NoAudit
<1>6. CreateCall!Stage'
  BY <1>1, <1>2, <1>3 DEF CreateCall!Retries, CreateCall!Stage, CreateCall!Outlay, CreateCall!NoAudit
<1>7. CreateCall!Graded'
  BY <1>1, <1>2, <1>3 DEF CreateCall!Retries, CreateCall!Graded
<1>8. CreateCall!WrittenIsJudged' /\ CreateCall!AuditorsIndependent'
  BY <1>1, <1>2, <1>3 DEF CreateCall!Retries, CreateCall!WrittenIsJudged, CreateCall!AuditorsIndependent,
     CreateCall!Stage,
     CreateCall!Outlay, CreateCall!NoAudit
<1>. QED
  BY <1>2, <1>4, <1>5, <1>6, <1>7, <1>8

(* The second orchestration keeps the cost of the first one. *)
LEMMA RebuildKeeps ==
  ASSUME CreateCall!PipelineInv, CreateCall!Rebuild
  PROVE  CreateCall!PipelineInv'
<1>. USE CreateConstants DEF CreateCall!Retries, CreateCall!PipelineInv
<1>1. v11 = 1 /\ CreateCall!Orchestrate /\ v1 = "rebuild" /\ v5 = 0 /\ v5' = v7.cost
  BY DEF CreateCall!Retries, CreateCall!Rebuild, CreateCall!Stage, CreateCall!Outlay
<1>2. PICK c \in 0 .. CallCost :
           /\ v7' \in [final : 0 .. 2, error : BOOLEAN, panel : SUBSET Provider, cost : Nat]
           /\ v7'.final \in {0, v11 + 1} /\ (v2.plan_only => v7'.final = 0)
           /\ v7'.cost = c
           /\ v3' \in Nat /\ v16' = v16 + c /\ v16' \in Nat
           /\ CreateCall!OvershootIsOneCall'
  BY <1>1, OrchestrateYields
<1>3. /\ v11' = 2 /\ v1' = "reaudit"
      /\ UNCHANGED <<v2, v4, v6, v8, v9, v10, v12, v13, v14, v15>>
  BY DEF CreateCall!Retries, CreateCall!Rebuild, CreateCall!judged, CreateCall!answer
<1>4. CreateCall!TypeOK'
  BY <1>1, <1>2, <1>3 DEF CreateCall!Retries, CreateCall!TypeOK
<1>5. CreateCall!Outlay'
  <2>1. /\ v4 \in Nat /\ v6 \in Nat /\ v7.cost \in Nat /\ v9.cost \in Nat /\ v16 \in Nat
        /\ v9.cost <= CallCost
        /\ v16 = v4 + 0 + v7.cost + v6 + v9.cost
    BY <1>1 DEF CreateCall!Retries, CreateCall!Outlay, CreateCall!TypeOK, CreateCall!Usage
  <2>2. CreateCall!Usage' = v4 + v7.cost + c + v6 + v9.cost
    BY <1>1, <1>2, <1>3 DEF CreateCall!Retries, CreateCall!Usage
  <2>3. v16' = v16 + c
    BY <1>2
  <2>4. CreateCall!Usage' = v16' /\ v16' \in Nat
    BY <1>2, <2>1, <2>2, <2>3
  <2>. QED
    BY <1>2, <1>3, <2>1, <2>4 DEF CreateCall!Retries, CreateCall!Outlay
<1>6. CreateCall!Stage'
  BY <1>1, <1>2, <1>3 DEF CreateCall!Retries, CreateCall!Stage
<1>7. CreateCall!Graded'
  BY <1>1, <1>2, <1>3 DEF CreateCall!Retries, CreateCall!Graded
<1>8. CreateCall!WrittenIsJudged' /\ CreateCall!AuditorsIndependent'
  BY <1>1, <1>2, <1>3 DEF CreateCall!Retries, CreateCall!WrittenIsJudged, CreateCall!AuditorsIndependent,
     CreateCall!Stage
<1>. QED
  BY <1>2, <1>4, <1>5, <1>6, <1>7, <1>8

(* The review adds its cost and changes no final. *)
LEMMA ReviewKeeps ==
  ASSUME CreateCall!PipelineInv, CreateCall!Review
  PROVE  CreateCall!PipelineInv'
<1>. USE CreateConstants DEF CreateCall!Retries, CreateCall!PipelineInv
<1>1. v1 = "review" /\ v6 = 0 /\ v6 \in Nat /\ v3 \in Nat /\ v16 \in Nat
  BY DEF CreateCall!Retries, CreateCall!Review, CreateCall!Outlay, CreateCall!TypeOK
<1>2. PICK c \in 0 .. CallCost :
           /\ v6' = c /\ v3' \in Nat /\ v16' = v16 + c /\ v16' \in Nat
           /\ CreateCall!OvershootIsOneCall'
  <2>1. CASE UNCHANGED <<v6, v3, v16>>
    BY <1>1, <2>1 DEF CreateCall!Retries, CreateCall!OvershootIsOneCall
  <2>2. CASE \E c \in 0 .. CallCost : CreateCall!Confer(c) /\ v6' = c /\ CreateCall!Commit(c)
    <3>1. PICK c \in 0 .. CallCost : CreateCall!Confer(c) /\ v6' = c /\ CreateCall!Commit(c)
      BY <2>2
    <3>2. CreateCall!Tripped => c = 0
      BY <3>1 DEF CreateCall!Retries, CreateCall!Confer
    <3>. QED
      BY <3>1, <3>2, CommitOvershoots
  <2>. QED
    BY <2>1, <2>2 DEF CreateCall!Retries, CreateCall!Review
<1>3. /\ v1' = "audit"
      /\ UNCHANGED <<v2, v4, v5, v7, v8, v9, v10, v11, v12, v13, v14, v15>>
  BY DEF CreateCall!Retries, CreateCall!Review, CreateCall!judged, CreateCall!answer
<1>4. CreateCall!TypeOK'
  BY <1>1, <1>2, <1>3 DEF CreateCall!Retries, CreateCall!TypeOK
<1>5. CreateCall!Outlay'
  BY <1>1, <1>2, <1>3 DEF CreateCall!Retries, CreateCall!Outlay, CreateCall!TypeOK, CreateCall!Usage,
     CreateCall!NoAudit
<1>6. CreateCall!Stage'
  BY <1>1, <1>2, <1>3 DEF CreateCall!Retries, CreateCall!Stage
<1>7. CreateCall!Graded'
  BY <1>1, <1>2, <1>3 DEF CreateCall!Retries, CreateCall!Graded
<1>8. CreateCall!WrittenIsJudged' /\ CreateCall!AuditorsIndependent'
  BY <1>1, <1>2, <1>3 DEF CreateCall!Retries, CreateCall!WrittenIsJudged, CreateCall!AuditorsIndependent
<1>. QED
  BY <1>2, <1>4, <1>5, <1>6, <1>7, <1>8

(* The first audit grades the first final. *)
LEMMA FirstAuditKeeps ==
  ASSUME CreateCall!PipelineInv, CreateCall!FirstAudit
  PROVE  CreateCall!PipelineInv'
<1>. USE CreateConstants DEF CreateCall!Retries, CreateCall!PipelineInv
<1>1. /\ v1 = "audit" /\ ~v2.skip_audit /\ v7.final = 1 /\ v11 = 1 /\ CreateCall!Audit
      /\ v12 = "success" /\ ~v2.plan_only /\ v13 = 0 /\ v5 = 0
  BY DEF CreateCall!Retries, CreateCall!FirstAudit, CreateCall!Stage, CreateCall!Outlay
<1>2. PICK c \in 0 .. CallCost :
           /\ v9' \in [of : 0 .. 2, judges : SUBSET Provider,
                       score : {"none", "low", "high"}, cost : Nat]
           /\ v9'.of = v7.final /\ v9'.cost = c
           /\ v9'.judges \cap v7.panel = {} \/ v7.panel = Provider
           /\ v8' = v7.panel
           /\ v3' \in Nat /\ v16' = v16 + c /\ v16' \in Nat
           /\ CreateCall!OvershootIsOneCall'
  BY <1>1, AuditYields
<1>3. v9'.score \in {"none", "low", "high"}
  BY <1>2
<1>4. \/ /\ v9'.score = "low" /\ CreateCall!Retries /\ v1' = "rebuild" /\ v12' = "success"
      \/ /\ v1' = "settle"
         /\ \/ v9'.score = "none" /\ v12' = "audit_inconclusive"
            \/ v9'.score = "low" /\ ~CreateCall!Retries /\ v12' = "audit_failed"
            \/ v9'.score = "high" /\ v12' = "success"
  BY <1>1, <1>3 DEF CreateCall!Retries, CreateCall!FirstAudit, CreateCall!FirstVerdict
<1>5. v10' = v9'.score /\ UNCHANGED <<v2, v4, v5, v6, v7, v11, v13, v14, v15>>
  BY DEF CreateCall!Retries, CreateCall!FirstAudit, CreateCall!answer
<1>6. CreateCall!TypeOK'
  BY <1>1, <1>2, <1>3, <1>4, <1>5 DEF CreateCall!Retries, CreateCall!TypeOK
<1>7. CreateCall!Outlay'
  <2>1. /\ v4 \in Nat /\ v6 \in Nat /\ v7.cost \in Nat /\ v16 \in Nat
        /\ v16 = v4 + 0 + v7.cost + v6 + 0
    BY <1>1 DEF CreateCall!Retries, CreateCall!Outlay, CreateCall!TypeOK, CreateCall!Usage, CreateCall!NoAudit
  <2>2. CreateCall!Usage' = v4 + 0 + v7.cost + v6 + c
    BY <1>1, <1>2, <1>5 DEF CreateCall!Retries, CreateCall!Usage
  <2>3. CreateCall!Usage' = v16' /\ v16' \in Nat
    BY <1>2, <2>1, <2>2
  <2>. QED
    BY <1>1, <1>2, <1>4, <1>5, <2>1, <2>3 DEF CreateCall!Retries, CreateCall!Outlay
<1>8. CreateCall!Stage'
  BY <1>1, <1>2, <1>4, <1>5 DEF CreateCall!Retries, CreateCall!Stage
<1>9. CreateCall!Graded'
  BY <1>1, <1>2, <1>4, <1>5 DEF CreateCall!Retries, CreateCall!Graded
<1>10. CreateCall!WrittenIsJudged' /\ CreateCall!AuditorsIndependent'
  BY <1>1, <1>2, <1>5 DEF CreateCall!Retries, CreateCall!WrittenIsJudged, CreateCall!AuditorsIndependent
<1>. QED
  BY <1>2, <1>6, <1>7, <1>8, <1>9, <1>10

(* The audit of the retry replaces the first one, whose cost is the one    *)
(* that no report has.                                                     *)
LEMMA SecondAuditKeeps ==
  ASSUME CreateCall!PipelineInv, CreateCall!SecondAudit
  PROVE  CreateCall!PipelineInv'
<1>. USE CreateConstants DEF CreateCall!Retries, CreateCall!PipelineInv
<1>1. /\ v1 = "reaudit" /\ ~v2.skip_audit /\ CreateCall!Retries /\ ~v2.plan_only /\ v11 = 2 
      /\ v7.final \in {0, 2} /\ v12 = "success" /\ v13 = 0 /\ v9.of = 1 /\ v9.score = "low"
  BY DEF CreateCall!Retries, CreateCall!SecondAudit, CreateCall!Stage
<1>2. /\ v4 \in Nat /\ v5 \in Nat /\ v6 \in Nat /\ v7.cost \in Nat /\ v9.cost \in Nat /\ v16 \in Nat
      /\ v9.cost <= CallCost /\ v16 = v4 + v5 + v7.cost + v6 + v9.cost
  BY <1>1 DEF CreateCall!Retries, CreateCall!Outlay, CreateCall!TypeOK, CreateCall!Usage
<1>3. /\ v1' = "settle" /\ UNCHANGED <<v2, v4, v5, v6, v7, v11, v13, v15>>
      /\ v12' = IF v10' = "high" THEN "success" ELSE "audit_failed_after_retry"
  BY <1>1 DEF CreateCall!Retries, CreateCall!SecondAudit, CreateCall!SecondVerdict
<1>4. CASE v7.final # 0
  <2>1. PICK c \in 0 .. CallCost :
           /\ v9' \in [of : 0 .. 2, judges : SUBSET Provider,
                       score : {"none", "low", "high"}, cost : Nat]
           /\ v9'.of = v7.final /\ v9'.cost = c
           /\ v9'.judges \cap v7.panel = {} \/ v7.panel = Provider
           /\ v8' = v7.panel
           /\ v3' \in Nat /\ v16' = v16 + c /\ v16' \in Nat
           /\ CreateCall!OvershootIsOneCall'
    BY <1>1, <1>4, AuditYields DEF CreateCall!Retries, CreateCall!SecondAudit
  <2>2. v10' = v9'.score /\ v14' = v14 /\ v9'.score \in {"none", "low", "high"}
    BY <1>4, <2>1 DEF CreateCall!Retries, CreateCall!SecondAudit
  <2>3. CreateCall!TypeOK'
    BY <1>1, <1>3, <2>1, <2>2 DEF CreateCall!Retries, CreateCall!TypeOK
  <2>4. CreateCall!Outlay'
    <3>1. CreateCall!Usage' = v4 + v5 + v7.cost + v6 + c
      BY <1>3, <2>1 DEF CreateCall!Retries, CreateCall!Usage
    <3>2. CreateCall!Usage' \in Nat /\ CreateCall!Usage' <= v16' /\ v16' <= CreateCall!Usage' + CallCost
      BY <1>2, <2>1, <3>1
    <3>. QED
      BY <1>1, <1>3, <2>1, <3>2 DEF CreateCall!Retries, CreateCall!Outlay
  <2>5. CreateCall!Stage'
    BY <1>1, <1>3, <2>1, <2>2 DEF CreateCall!Retries, CreateCall!Stage
  <2>6. CreateCall!Graded'
    BY <1>1, <1>3, <2>1, <2>2 DEF CreateCall!Retries, CreateCall!Graded, CreateCall!BlockedStatus
  <2>7. CreateCall!WrittenIsJudged' /\ CreateCall!AuditorsIndependent'
    BY <1>1, <1>3, <2>1 DEF CreateCall!Retries, CreateCall!WrittenIsJudged, CreateCall!AuditorsIndependent
  <2>. QED
    BY <2>1, <2>3, <2>4, <2>5, <2>6, <2>7
<1>5. CASE v7.final = 0
  <2>1. v10' = "none" /\ v14' = TRUE /\ UNCHANGED <<v3, v8, v9, v16>>
    BY <1>5 DEF CreateCall!Retries, CreateCall!SecondAudit, CreateCall!judged
  <2>2. CreateCall!TypeOK'
    BY <1>1, <1>3, <2>1 DEF CreateCall!Retries, CreateCall!TypeOK
  <2>3. CreateCall!Outlay'
    <3>1. CreateCall!Usage' = v16'
      BY <1>2, <1>3, <2>1 DEF CreateCall!Retries, CreateCall!Usage
    <3>. QED
      BY <1>1, <1>2, <1>3, <2>1, <3>1 DEF CreateCall!Retries, CreateCall!Outlay
  <2>4. CreateCall!Stage'
    BY <1>1, <1>3, <2>1 DEF CreateCall!Retries, CreateCall!Stage
  <2>5. CreateCall!Graded' /\ CreateCall!WrittenIsJudged'
    BY <1>1, <1>3, <1>5, <2>1 DEF CreateCall!Retries, CreateCall!Graded, CreateCall!WrittenIsJudged
  <2>6. CreateCall!AuditorsIndependent' /\ CreateCall!OvershootIsOneCall'
    BY <1>1, <1>3, <1>5, <2>1 DEF CreateCall!Retries, CreateCall!AuditorsIndependent,
       CreateCall!OvershootIsOneCall
  <2>. QED
    BY <2>2, <2>3, <2>4, <2>5, <2>6
<1>. QED
  BY <1>4, <1>5

(* Every step of create keeps its invariant. *)
LEMMA CreateStep == CreateCall!PipelineInv /\ [CreateCall!Next]_(CreateCall!vars)
                      => CreateCall!PipelineInv'
<1>. SUFFICES ASSUME CreateCall!PipelineInv, [CreateCall!Next]_(CreateCall!vars)
              PROVE  CreateCall!PipelineInv'
  OBVIOUS
<1>1. CASE UNCHANGED CreateCall!vars
  <2>1. UNCHANGED <<v1, v2, v3, v4, v5, v6, v7, v8, v9, v10, v11, v12, v13, v14, v15, v16>>
    BY <1>1 DEF CreateCall!Retries, CreateCall!vars, CreateCall!envelopes, CreateCall!judged, CreateCall!answer
  <2>2. CreateCall!TypeOK' /\ CreateCall!Stage'
    BY <2>1 DEF CreateCall!Retries, CreateCall!PipelineInv, CreateCall!TypeOK, CreateCall!Stage
  <2>3. CreateCall!Outlay'
    BY <2>1 DEF CreateCall!Retries, CreateCall!PipelineInv, CreateCall!Outlay, CreateCall!Usage
  <2>4. CreateCall!Graded' /\ CreateCall!WrittenIsJudged'
    BY <2>1 DEF CreateCall!Retries, CreateCall!PipelineInv, CreateCall!Graded, CreateCall!WrittenIsJudged
  <2>5. CreateCall!AuditorsIndependent' /\ CreateCall!OvershootIsOneCall'
    BY <2>1 DEF CreateCall!Retries, CreateCall!PipelineInv, CreateCall!AuditorsIndependent,
       CreateCall!OvershootIsOneCall
  <2>. QED
    BY <2>2, <2>3, <2>4, <2>5 DEF CreateCall!PipelineInv
<1>. QED
  BY <1>1, RaiseKeeps, ScopeKeeps, BuildKeeps, ReviewKeeps, FirstAuditKeeps,
     NoAuditNeededKeeps,
     RebuildKeeps, SecondAuditKeeps, SettleKeeps, WriteKeeps, ReportKeeps
     DEF CreateCall!Next, CreateCall!Stopped

(* The invariant gives what a report and a success are worth. *)
LEMMA CreateHolds ==
  CreateCall!PipelineInv => CreateCall!ReportCoversRun /\ CreateCall!SuccessIsEarned
<1>. SUFFICES ASSUME CreateCall!PipelineInv
              PROVE  CreateCall!ReportCoversRun /\ CreateCall!SuccessIsEarned
  OBVIOUS
<1>1. CreateCall!ReportCoversRun
  BY CreateConstants DEF CreateCall!PipelineInv, CreateCall!TypeOK, CreateCall!Outlay,
     CreateCall!ReportCoversRun
<1>2. CreateCall!SuccessIsEarned
  BY DEF CreateCall!PipelineInv, CreateCall!Graded, CreateCall!BlockedStatus,
     CreateCall!SuccessIsEarned
<1>. QED
  BY <1>1, <1>2

-----------------------------------------------------------------------------

(* The bounds of a turn are numbers. *)
LEMMA TurnConstants == WorkerTurn!WorkerToolsAssumption
BY ConstantsFit

(* A tag that is whole names a tool, of the allowlist or another. *)
LEMMA CalledTool ==
  ASSUME WorkerTurn!TypeOK, WorkerTurn!HasTag, v5 # WorkerTurn!Malformed
  PROVE  v5.tool \in Allowlist \union {OtherTool}
<1>1. v5 \in WorkerTurn!Reply /\ v5.kind \in {"malformed", "call"}
  BY DEF WorkerTurn!TypeOK, WorkerTurn!HasTag
<1>2. v5 \notin {WorkerTurn!Error, WorkerTurn!Malformed, WorkerTurn!Fits, WorkerTurn!Misfits}
  BY <1>1 DEF WorkerTurn!Error, WorkerTurn!Malformed, WorkerTurn!Fits, WorkerTurn!Misfits
<1>3. PICK t \in Allowlist \union {OtherTool} : v5 = WorkerTurn!Call(t)
  BY <1>1, <1>2 DEF WorkerTurn!Reply
<1>. QED
  BY <1>3 DEF WorkerTurn!Call

(* An error has no tag. *)
LEMMA TagIsNoError ==
  ASSUME WorkerTurn!HasTag
  PROVE  v5 # WorkerTurn!Error /\ WorkerTurn!WithTools
<1>1. WorkerTurn!Error.kind = "error"
  BY DEF WorkerTurn!Error
<1>. QED
  BY <1>1 DEF WorkerTurn!HasTag

(* What a turn goes past is no error. *)
LEMMA AnsweredIsNoError ==
  ASSUME WorkerTurn!Answered
  PROVE  v5 # WorkerTurn!Error
BY DEF WorkerTurn!Answered

(* A turn begins with no answer paid for. *)
LEMMA TurnStarts == WorkerTurn!Init => WorkerTurn!TurnInv
<1>. SUFFICES ASSUME WorkerTurn!Init PROVE WorkerTurn!TurnInv
  OBVIOUS
<1>. USE DEF WorkerTurn!Init
<1>1. WorkerTurn!TypeOK
  <2>1. v5 \in WorkerTurn!Reply
    BY DEF WorkerTurn!Reply
  <2>2. v6 \in 0 .. HopBudget /\ v7 \in 0 .. MaxRetries
    BY TurnConstants DEF WorkerTurn!WorkerToolsAssumption
  <2>3. v9 \in Seq(WorkerTurn!Entries) /\ v15 \in Seq(Allowlist)
    OBVIOUS
  <2>4. v8 \in Nat /\ v13 \in Nat /\ v14 \in Nat /\ v16 \in Nat
    OBVIOUS
  <2>. QED
    BY <2>1, <2>2, <2>3, <2>4 DEF WorkerTurn!TypeOK
<1>. QED
  BY <1>1 DEF WorkerTurn!TurnInv, WorkerTurn!SpendReported, WorkerTurn!BlockedIsExplained

(* A tool call that is dispatched takes a hop, which pays for the next     *)
(* question.                                                               *)
LEMMA DispatchKeeps ==
  ASSUME WorkerTurn!TurnInv, WorkerTurn!Dispatch
  PROVE  WorkerTurn!TurnInv'
<1>1. PICK status \in WorkerTurn!Outcomes(v5.tool) :
        /\ v9' = WorkerTurn!Noted(v5.tool, status)
        /\ v15' = IF status = "ok" THEN Append(v15, v5.tool) ELSE v15
  BY DEF WorkerTurn!Dispatch
<1>2. /\ WorkerTurn!HasTag /\ v5 # WorkerTurn!Malformed /\ WorkerTurn!HopsLeft
      /\ v4 = "read" /\ v4' = "ask" /\ v6' = v6 + 1
      /\ v10' = (v10 \/ WorkerTurn!OverCap)
      /\ UNCHANGED <<v1, v2, v3, v5, v7, v8, v11, v12, v13, v14, v16>>
  BY DEF WorkerTurn!Dispatch, WorkerTurn!turn, WorkerTurn!bill, WorkerTurn!outcome
<1>3. /\ WorkerTurn!TypeOK /\ ~v11 /\ WorkerTurn!SpendReported
      /\ v13 <= v6 + v7 + 1 /\ Len(v15) <= v6
  BY <1>2 DEF WorkerTurn!TurnInv
<1>4. v6 \in Nat /\ v7 \in Nat /\ v13 \in Nat /\ v6' \in 0 .. HopBudget
  BY <1>2, <1>3, TurnConstants
     DEF WorkerTurn!TypeOK, WorkerTurn!HopsLeft, WorkerTurn!WorkerToolsAssumption
<1>5. v5.tool \in Allowlist \union {OtherTool}
  BY <1>2, <1>3, CalledTool
<1>6. status \in {"ok", "refused"} /\ (status = "ok" => v5.tool \in Allowlist)
  BY <1>1 DEF WorkerTurn!Outcomes
<1>7. v9' \in Seq(WorkerTurn!Entries)
  BY <1>1, <1>3, <1>5, <1>6 DEF WorkerTurn!TypeOK, WorkerTurn!Noted, WorkerTurn!Entries
<1>8. v15' \in Seq(Allowlist) /\ Len(v15') <= v6'
  <2>1. v15 \in Seq(Allowlist) /\ Len(v15) \in Nat
    BY <1>3 DEF WorkerTurn!TypeOK
  <2>. QED
    BY <1>1, <1>2, <1>3, <1>4, <1>6, <2>1
<1>9. WorkerTurn!TypeOK'
  <2>1. v10' \in BOOLEAN
    BY <1>2, <1>3 DEF WorkerTurn!OverCap, WorkerTurn!TypeOK
  <2>. QED
    BY <1>2, <1>3, <1>4, <1>7, <1>8, <2>1 DEF WorkerTurn!TypeOK, WorkerTurn!Reply
<1>10. v13' <= v6' + v7' /\ v13' <= v6' + v7' + 2
  BY <1>2, <1>3, <1>4
<1>11. WorkerTurn!SpendReported' /\ WorkerTurn!BlockedIsExplained'
  BY <1>2, <1>3
     DEF WorkerTurn!SpendReported, WorkerTurn!WithTools, WorkerTurn!BlockedIsExplained
<1>12. v5' # WorkerTurn!Error /\ WorkerTurn!WithTools'
  BY <1>2, TagIsNoError DEF WorkerTurn!WithTools
<1>. QED
  BY <1>2, <1>3, <1>8, <1>9, <1>10, <1>11, <1>12 DEF WorkerTurn!TurnInv

(* Every step of a turn keeps its invariant. *)
LEMMA TurnStep ==
  ASSUME WorkerTurn!TurnInv, WorkerTurn!Next \/ UNCHANGED WorkerTurn!vars
  PROVE  WorkerTurn!TurnInv'
<1>. USE TurnConstants DEF WorkerTurn!WorkerToolsAssumption, WorkerTurn!TurnInv,
       WorkerTurn!SpendReported, WorkerTurn!BlockedIsExplained, WorkerTurn!TypeOK,
       WorkerTurn!WithTools, WorkerTurn!turn, WorkerTurn!bill, WorkerTurn!outcome
<1>1. CASE WorkerTurn!Ask
  <2>1. PICK r \in WorkerTurn!Reply, cost \in 0 .. AnswerCost :
          LET shown == IF r = WorkerTurn!Error THEN 0 ELSE cost
          IN  /\ v5' = r
              /\ v8' = WorkerTurn!Merged(shown)
              /\ v14' = v14 + cost
              /\ v16' = v16 + (cost - shown) + WorkerTurn!Replaced
              /\ v13' = v13 + 1
    BY <1>1 DEF WorkerTurn!Ask, WorkerTurn!Asked
  <2>2. /\ v4 = "ask" /\ v4' = "read"
        /\ UNCHANGED <<v1, v2, v3, v6, v7, v9, v10, v11, v12, v15>>
    BY <1>1 DEF WorkerTurn!Ask
  <2>. HIDE DEF WorkerTurn!Error, WorkerTurn!Reply
  <2>3. CASE v2 # {}
    <3>1. CASE r = WorkerTurn!Error
      BY <2>1, <2>2, <2>3, <3>1 DEF WorkerTurn!Merged, WorkerTurn!Replaced
    <3>2. CASE r # WorkerTurn!Error
      BY <2>1, <2>2, <2>3, <3>2 DEF WorkerTurn!Merged, WorkerTurn!Replaced
    <3>. QED
      BY <3>1, <3>2
  <2>4. CASE v2 = {}
    <3>1. CASE r = WorkerTurn!Error
      BY <2>1, <2>2, <2>4, <3>1 DEF WorkerTurn!Merged, WorkerTurn!Replaced
    <3>2. CASE r # WorkerTurn!Error
      BY <2>1, <2>2, <2>4, <3>2 DEF WorkerTurn!Merged, WorkerTurn!Replaced
    <3>. QED
      BY <3>1, <3>2
  <2>. QED
    BY <2>3, <2>4
<1>2. CASE WorkerTurn!Fail
  BY <1>2 DEF WorkerTurn!Fail, WorkerTurn!End
<1>3. CASE WorkerTurn!Finish
  BY <1>3 DEF WorkerTurn!Finish, WorkerTurn!End
<1>4. CASE WorkerTurn!Retry
  <2>1. CASE v7 < MaxRetries
    <3>1. v5 # WorkerTurn!Error
      BY <1>4, AnsweredIsNoError DEF WorkerTurn!Retry
    <3>. HIDE DEF WorkerTurn!Reply
    <3>. QED
      BY <1>4, <2>1, <3>1 DEF WorkerTurn!Retry
  <2>2. CASE ~(v7 < MaxRetries)
    BY <1>4, <2>2 DEF WorkerTurn!Retry, WorkerTurn!End
  <2>. QED
    BY <2>1, <2>2
<1>5. CASE WorkerTurn!Reprompt
  BY <1>5, TagIsNoError DEF WorkerTurn!Reprompt, WorkerTurn!Noted, WorkerTurn!Entries
<1>6. CASE WorkerTurn!RefuseOverCap
  BY <1>6, CalledTool, TagIsNoError
     DEF WorkerTurn!RefuseOverCap, WorkerTurn!Blocked,
         WorkerTurn!OverCap,
          WorkerTurn!Noted, WorkerTurn!Entries
<1>7. CASE WorkerTurn!RefuseOverBudget
  BY <1>7, CalledTool, TagIsNoError DEF WorkerTurn!RefuseOverBudget, WorkerTurn!Noted, WorkerTurn!Entries
<1>8. CASE WorkerTurn!Dispatch
  BY <1>8, DispatchKeeps
<1>9. CASE WorkerTurn!Final
  <2>1. PICK r \in WorkerTurn!Reply, cost \in 0 .. AnswerCost :
          LET shown == IF r = WorkerTurn!Error THEN 0 ELSE cost
          IN  /\ v5' = r
              /\ v8' = WorkerTurn!Merged(shown)
              /\ v14' = v14 + cost
              /\ v16' = v16 + (cost - shown) + WorkerTurn!Replaced
              /\ v13' = v13 + 1
    BY <1>9 DEF WorkerTurn!Final, WorkerTurn!Asked
  <2>2. CASE r = WorkerTurn!Error
    BY <1>9, <2>1, <2>2 DEF WorkerTurn!Final, WorkerTurn!Merged, WorkerTurn!Replaced
  <2>3. CASE r # WorkerTurn!Error
    BY <1>9, <2>1, <2>3 DEF WorkerTurn!Final, WorkerTurn!Merged, WorkerTurn!Replaced
  <2>. QED
    BY <2>2, <2>3
<1>10. CASE UNCHANGED WorkerTurn!vars
  BY <1>10 DEF WorkerTurn!vars, WorkerTurn!Reply
<1>. QED
  BY <1>1, <1>2, <1>3, <1>4, <1>5, <1>6, <1>7, <1>8, <1>9, <1>10
     DEF WorkerTurn!Next, WorkerTurn!Step, WorkerTurn!Stopped
-----------------------------------------------------------------------------

(* The audit's invariant is the one that AuditProofs is about.              *)
LEMMA AuditFactsInv == AuditCall!AuditInv <=> AuditFacts!AuditInv
  BY
     DEF AuditCall!AuditInv, AuditFacts!AuditInv, AuditCall!NoVerdict,
         AuditFacts!NoVerdict, AuditCall!Grade, AuditFacts!Grade, AuditCall!Verdict,
         AuditFacts!Verdict, AuditCall!TypeOK, AuditFacts!TypeOK, AuditCall!Ended,
         AuditFacts!Ended, AuditCall!Joined, AuditFacts!Joined, AuditCall!Answered,
         AuditFacts!Answered, AuditCall!AnswersCommitted,
         AuditFacts!AnswersCommitted, AuditCall!SelfGradingIsExcused,
         AuditFacts!SelfGradingIsExcused, AuditCall!Passes, AuditFacts!Passes,
         AuditCall!ItemPasses, AuditFacts!ItemPasses, AuditCall!Graders,
         AuditFacts!Graders, AuditCall!Unanimous, AuditFacts!Unanimous,
         AuditCall!Majority, AuditFacts!Majority, AuditCall!Ayes, AuditFacts!Ayes,
         AuditCall!TwiceMedian, AuditFacts!TwiceMedian, AuditCall!Ranked,
         AuditFacts!Ranked, AuditCall!ScoreOf, AuditFacts!ScoreOf,
         AuditCall!Cardinality, AuditFacts!Cardinality, AuditCall!Min,
         AuditFacts!Min

(* So are its assumption, its beginning and its steps.                     *)
LEMMA AuditFactsSteps ==
  /\ AuditCall!AuditAssumption <=> AuditFacts!AuditAssumption
  /\ AuditCall!Init <=> AuditFacts!Init
  /\ [AuditCall!Next]_(AuditCall!vars) <=> [AuditFacts!Next]_(AuditFacts!vars)
<1>1. AuditCall!AuditAssumption <=> AuditFacts!AuditAssumption
  BY
     DEF AuditCall!AuditAssumption, AuditFacts!AuditAssumption, AuditCall!IsFiniteSet,
         AuditFacts!IsFiniteSet
<1>2. AuditCall!Init <=> AuditFacts!Init
  BY
     DEF AuditCall!Init, AuditFacts!Init, AuditCall!NoVerdict, AuditFacts!NoVerdict
<1>3. [AuditCall!Next]_(AuditCall!vars) <=> [AuditFacts!Next]_(AuditFacts!vars)
  BY
     DEF AuditCall!vars, AuditFacts!vars, AuditCall!request, AuditFacts!request,
         AuditCall!Next, AuditFacts!Next, AuditCall!Refuse, AuditFacts!Refuse,
         AuditCall!SelectAuditor, AuditFacts!SelectAuditor, AuditCall!SelectJudges,
         AuditFacts!SelectJudges, AuditCall!Pool, AuditFacts!Pool, AuditCall!Start,
         AuditFacts!Start, AuditCall!Judge, AuditFacts!Judge, AuditCall!NoObject,
         AuditCall!Redraft, AuditFacts!Redraft, AuditCall!Asking, AuditFacts!Asking,
         AuditFacts!NoObject, AuditCall!Raises, AuditFacts!Raises,
         AuditCall!GatherSingle, AuditFacts!GatherSingle, AuditCall!Gather,
         AuditFacts!Gather, AuditCall!Commit, AuditFacts!Commit, AuditCall!Stopped,
         AuditFacts!Stopped, AuditCall!Outside, AuditFacts!Outside,
         AuditCall!Exclude, AuditFacts!Exclude, AuditCall!Coalesces,
         AuditFacts!Coalesces, AuditCall!Verdict, AuditFacts!Verdict,
         AuditCall!Grade, AuditFacts!Grade, AuditCall!Ended, AuditFacts!Ended,
         AuditCall!Joined, AuditFacts!Joined, AuditCall!Answered,
         AuditFacts!Answered, AuditCall!Passes, AuditFacts!Passes,
         AuditCall!ItemPasses, AuditFacts!ItemPasses, AuditCall!Graders,
         AuditFacts!Graders, AuditCall!Unanimous, AuditFacts!Unanimous,
         AuditCall!Majority, AuditFacts!Majority, AuditCall!Ayes, AuditFacts!Ayes,
         AuditCall!TwiceMedian, AuditFacts!TwiceMedian, AuditCall!Ranked,
         AuditFacts!Ranked, AuditCall!ScoreOf, AuditFacts!ScoreOf,
         AuditCall!Cardinality, AuditFacts!Cardinality, AuditCall!Min,
         AuditFacts!Min
<1>. QED
  BY <1>1, <1>2, <1>3

(* And its properties.                                                     *)
LEMMA AuditFactsProperties ==
  /\ AuditCall!StrictIsUnanimous <=> AuditFacts!StrictIsUnanimous
  /\ AuditCall!PassIsVotedFor <=> AuditFacts!PassIsVotedFor
  /\ AuditCall!BetterIsNoWorse <=> AuditFacts!BetterIsNoWorse
  /\ AuditCall!DisputeHasSpread <=> AuditFacts!DisputeHasSpread
<1>1. AuditCall!StrictIsUnanimous <=> AuditFacts!StrictIsUnanimous
  BY
     DEF AuditCall!StrictIsUnanimous, AuditFacts!StrictIsUnanimous
<1>2. AuditCall!PassIsVotedFor <=> AuditFacts!PassIsVotedFor
  BY
     DEF AuditCall!PassIsVotedFor, AuditFacts!PassIsVotedFor, AuditCall!Graders,
         AuditFacts!Graders, AuditCall!Offenders, AuditFacts!Offenders,
         AuditCall!Obvious, AuditFacts!Obvious, AuditCall!ScoreOf,
         AuditFacts!ScoreOf, AuditCall!Cardinality, AuditFacts!Cardinality
<1>3. AuditCall!BetterIsNoWorse <=> AuditFacts!BetterIsNoWorse
  BY
     DEF AuditCall!BetterIsNoWorse, AuditFacts!BetterIsNoWorse, AuditCall!Improves,
         AuditFacts!Improves, AuditCall!Overall, AuditFacts!Overall, AuditCall!Kth,
         AuditFacts!Kth, AuditCall!Verdict, AuditFacts!Verdict, AuditCall!Grade,
         AuditFacts!Grade, AuditCall!Passes, AuditFacts!Passes,
         AuditCall!ItemPasses, AuditFacts!ItemPasses, AuditCall!Graders,
         AuditFacts!Graders, AuditCall!Unanimous, AuditFacts!Unanimous,
         AuditCall!Majority, AuditFacts!Majority, AuditCall!Ayes, AuditFacts!Ayes,
         AuditCall!TwiceMedian, AuditFacts!TwiceMedian, AuditCall!Ranked,
         AuditFacts!Ranked, AuditCall!ScoreOf, AuditFacts!ScoreOf,
         AuditCall!Cardinality, AuditFacts!Cardinality, AuditCall!Min,
         AuditFacts!Min
<1>4. AuditCall!DisputeHasSpread <=> AuditFacts!DisputeHasSpread
  BY
     DEF AuditCall!DisputeHasSpread, AuditFacts!DisputeHasSpread, AuditCall!Disputed,
         AuditFacts!Disputed, AuditCall!Deviates, AuditFacts!Deviates,
         AuditCall!Spread, AuditFacts!Spread, AuditCall!Graders, AuditFacts!Graders,
         AuditCall!ScoreOf, AuditFacts!ScoreOf, AuditCall!Cardinality,
         AuditFacts!Cardinality, AuditCall!Min, AuditFacts!Min, AuditCall!Max,
         AuditFacts!Max, AuditCall!SumFunction, AuditFacts!SumFunction,
         AuditCall!SumFunctionOnSet, AuditFacts!SumFunctionOnSet,
         AuditCall!FoldFunctionOnSet, AuditFacts!FoldFunctionOnSet,
         AuditCall!MapThenFoldSet, AuditFacts!MapThenFoldSet
<1>. QED
  BY <1>1, <1>2, <1>3, <1>4

(* A step of the audit keeps its invariant, which gives its properties.        *)
LEMMA AuditCallHolds ==
  /\ AuditCall!Init => AuditCall!AuditInv
  /\ AuditCall!AuditInv /\ [AuditCall!Next]_(AuditCall!vars) => AuditCall!AuditInv'
  /\ AuditCall!AuditInv => /\ AuditCall!StrictIsUnanimous /\ AuditCall!PassIsVotedFor
                     /\ AuditCall!BetterIsNoWorse /\ AuditCall!DisputeHasSpread
<1>1. AuditFacts!AuditAssumption
  BY ConstantsFit, AuditFactsSteps
<1>2. AuditCall!Init => AuditCall!AuditInv
  BY <1>1, AuditFactsInv, AuditFactsSteps, AuditFacts!Starts
<1>3. AuditCall!AuditInv /\ [AuditCall!Next]_(AuditCall!vars) => AuditCall!AuditInv'
  <2>1. AuditCall!AuditInv' <=> AuditFacts!AuditInv'
    BY AuditFactsInv, PTL
  <2>. QED
    BY <1>1, <2>1, AuditFactsInv, AuditFactsSteps, AuditFacts!Steps
<1>4. AuditCall!AuditInv => /\ AuditCall!StrictIsUnanimous /\ AuditCall!PassIsVotedFor
                     /\ AuditCall!BetterIsNoWorse /\ AuditCall!DisputeHasSpread
  BY <1>1, AuditFactsInv, AuditFactsProperties, AuditFacts!StrictNeedsAll,
     AuditFacts!PassNeedsVotes,
     AuditFacts!BetterHelps, AuditFacts!DisputesSpread
<1>. QED
  BY <1>2, <1>3, <1>4

(* So is the invariant of the audit of items.                              *)
LEMMA ItemsFactsInv == ItemsAudit!AuditInv <=> ItemsFacts!AuditInv
  BY
     DEF ItemsAudit!AuditInv, ItemsFacts!AuditInv, ItemsAudit!NoVerdict,
         ItemsFacts!NoVerdict, ItemsAudit!Grade, ItemsFacts!Grade,
         ItemsAudit!Verdict, ItemsFacts!Verdict, ItemsAudit!TypeOK,
         ItemsFacts!TypeOK, ItemsAudit!Ended, ItemsFacts!Ended, ItemsAudit!Joined,
         ItemsFacts!Joined, ItemsAudit!Answered, ItemsFacts!Answered,
         ItemsAudit!AnswersCommitted, ItemsFacts!AnswersCommitted,
         ItemsAudit!SelfGradingIsExcused, ItemsFacts!SelfGradingIsExcused,
         ItemsAudit!Passes, ItemsFacts!Passes, ItemsAudit!ItemPasses,
         ItemsFacts!ItemPasses, ItemsAudit!Graders, ItemsFacts!Graders,
         ItemsAudit!Unanimous, ItemsFacts!Unanimous, ItemsAudit!Majority,
         ItemsFacts!Majority, ItemsAudit!Ayes, ItemsFacts!Ayes,
         ItemsAudit!TwiceMedian, ItemsFacts!TwiceMedian, ItemsAudit!Ranked,
         ItemsFacts!Ranked, ItemsAudit!ScoreOf, ItemsFacts!ScoreOf,
         ItemsAudit!Cardinality, ItemsFacts!Cardinality, ItemsAudit!Min,
         ItemsFacts!Min

(* So are its assumption, its beginning and its steps.                     *)
LEMMA ItemsFactsSteps ==
  /\ ItemsAudit!AuditAssumption <=> ItemsFacts!AuditAssumption
  /\ ItemsAudit!Init <=> ItemsFacts!Init
  /\ [ItemsAudit!Next]_(ItemsAudit!vars) <=> [ItemsFacts!Next]_(ItemsFacts!vars)
<1>1. ItemsAudit!AuditAssumption <=> ItemsFacts!AuditAssumption
  BY
     DEF ItemsAudit!AuditAssumption, ItemsFacts!AuditAssumption, ItemsAudit!IsFiniteSet,
         ItemsFacts!IsFiniteSet
<1>2. ItemsAudit!Init <=> ItemsFacts!Init
  BY
     DEF ItemsAudit!Init, ItemsFacts!Init, ItemsAudit!NoVerdict, ItemsFacts!NoVerdict
<1>3. [ItemsAudit!Next]_(ItemsAudit!vars) <=> [ItemsFacts!Next]_(ItemsFacts!vars)
  BY
     DEF ItemsAudit!vars, ItemsFacts!vars, ItemsAudit!request, ItemsFacts!request,
         ItemsAudit!Next, ItemsFacts!Next, ItemsAudit!Refuse, ItemsFacts!Refuse,
         ItemsAudit!SelectAuditor, ItemsFacts!SelectAuditor,
         ItemsAudit!SelectJudges, ItemsFacts!SelectJudges, ItemsAudit!Pool,
         ItemsFacts!Pool, ItemsAudit!Start, ItemsFacts!Start, ItemsAudit!Judge,
         ItemsFacts!Judge, ItemsAudit!NoObject, ItemsFacts!NoObject,
         ItemsAudit!Redraft, ItemsFacts!Redraft, ItemsAudit!Asking, ItemsFacts!Asking,
         ItemsAudit!Raises, ItemsFacts!Raises, ItemsAudit!GatherSingle,
         ItemsFacts!GatherSingle, ItemsAudit!Gather, ItemsFacts!Gather,
         ItemsAudit!Commit, ItemsFacts!Commit, ItemsAudit!Stopped,
         ItemsFacts!Stopped, ItemsAudit!Outside, ItemsFacts!Outside,
         ItemsAudit!Exclude, ItemsFacts!Exclude, ItemsAudit!Coalesces,
         ItemsFacts!Coalesces, ItemsAudit!Verdict, ItemsFacts!Verdict,
         ItemsAudit!Grade, ItemsFacts!Grade, ItemsAudit!Ended, ItemsFacts!Ended,
         ItemsAudit!Joined, ItemsFacts!Joined, ItemsAudit!Answered,
         ItemsFacts!Answered, ItemsAudit!Passes, ItemsFacts!Passes,
         ItemsAudit!ItemPasses, ItemsFacts!ItemPasses, ItemsAudit!Graders,
         ItemsFacts!Graders, ItemsAudit!Unanimous, ItemsFacts!Unanimous,
         ItemsAudit!Majority, ItemsFacts!Majority, ItemsAudit!Ayes, ItemsFacts!Ayes,
         ItemsAudit!TwiceMedian, ItemsFacts!TwiceMedian, ItemsAudit!Ranked,
         ItemsFacts!Ranked, ItemsAudit!ScoreOf, ItemsFacts!ScoreOf,
         ItemsAudit!Cardinality, ItemsFacts!Cardinality, ItemsAudit!Min,
         ItemsFacts!Min
<1>. QED
  BY <1>1, <1>2, <1>3

(* And its properties.                                                     *)
LEMMA ItemsFactsProperties ==
  /\ ItemsAudit!StrictIsUnanimous <=> ItemsFacts!StrictIsUnanimous
  /\ ItemsAudit!PassIsVotedFor <=> ItemsFacts!PassIsVotedFor
  /\ ItemsAudit!BetterIsNoWorse <=> ItemsFacts!BetterIsNoWorse
  /\ ItemsAudit!DisputeHasSpread <=> ItemsFacts!DisputeHasSpread
<1>1. ItemsAudit!StrictIsUnanimous <=> ItemsFacts!StrictIsUnanimous
  BY
     DEF ItemsAudit!StrictIsUnanimous, ItemsFacts!StrictIsUnanimous
<1>2. ItemsAudit!PassIsVotedFor <=> ItemsFacts!PassIsVotedFor
  BY
     DEF ItemsAudit!PassIsVotedFor, ItemsFacts!PassIsVotedFor, ItemsAudit!Graders,
         ItemsFacts!Graders, ItemsAudit!Offenders, ItemsFacts!Offenders,
         ItemsAudit!Obvious, ItemsFacts!Obvious, ItemsAudit!ScoreOf,
         ItemsFacts!ScoreOf, ItemsAudit!Cardinality, ItemsFacts!Cardinality
<1>3. ItemsAudit!BetterIsNoWorse <=> ItemsFacts!BetterIsNoWorse
  BY
     DEF ItemsAudit!BetterIsNoWorse, ItemsFacts!BetterIsNoWorse, ItemsAudit!Improves,
         ItemsFacts!Improves, ItemsAudit!Overall, ItemsFacts!Overall,
         ItemsAudit!Kth, ItemsFacts!Kth, ItemsAudit!Verdict, ItemsFacts!Verdict,
         ItemsAudit!Grade, ItemsFacts!Grade, ItemsAudit!Passes, ItemsFacts!Passes,
         ItemsAudit!ItemPasses, ItemsFacts!ItemPasses, ItemsAudit!Graders,
         ItemsFacts!Graders, ItemsAudit!Unanimous, ItemsFacts!Unanimous,
         ItemsAudit!Majority, ItemsFacts!Majority, ItemsAudit!Ayes, ItemsFacts!Ayes,
         ItemsAudit!TwiceMedian, ItemsFacts!TwiceMedian, ItemsAudit!Ranked,
         ItemsFacts!Ranked, ItemsAudit!ScoreOf, ItemsFacts!ScoreOf,
         ItemsAudit!Cardinality, ItemsFacts!Cardinality, ItemsAudit!Min,
         ItemsFacts!Min
<1>4. ItemsAudit!DisputeHasSpread <=> ItemsFacts!DisputeHasSpread
  BY
     DEF ItemsAudit!DisputeHasSpread, ItemsFacts!DisputeHasSpread, ItemsAudit!Disputed,
         ItemsFacts!Disputed, ItemsAudit!Deviates, ItemsFacts!Deviates,
         ItemsAudit!Spread, ItemsFacts!Spread, ItemsAudit!Graders,
         ItemsFacts!Graders, ItemsAudit!ScoreOf, ItemsFacts!ScoreOf,
         ItemsAudit!Cardinality, ItemsFacts!Cardinality, ItemsAudit!Min,
         ItemsFacts!Min, ItemsAudit!Max, ItemsFacts!Max, ItemsAudit!SumFunction,
         ItemsFacts!SumFunction, ItemsAudit!SumFunctionOnSet,
         ItemsFacts!SumFunctionOnSet, ItemsAudit!FoldFunctionOnSet,
         ItemsFacts!FoldFunctionOnSet, ItemsAudit!MapThenFoldSet,
         ItemsFacts!MapThenFoldSet
<1>. QED
  BY <1>1, <1>2, <1>3, <1>4

(* A step of the audit of items keeps its invariant, which gives its properties.        *)
LEMMA ItemsAuditHolds ==
  /\ ItemsAudit!Init => ItemsAudit!AuditInv
  /\ ItemsAudit!AuditInv /\ [ItemsAudit!Next]_(ItemsAudit!vars) => ItemsAudit!AuditInv'
  /\ ItemsAudit!AuditInv => /\ ItemsAudit!StrictIsUnanimous /\ ItemsAudit!PassIsVotedFor
                     /\ ItemsAudit!BetterIsNoWorse /\ ItemsAudit!DisputeHasSpread
<1>1. ItemsFacts!AuditAssumption
  BY ConstantsFit, ItemsFactsSteps
<1>2. ItemsAudit!Init => ItemsAudit!AuditInv
  BY <1>1, ItemsFactsInv, ItemsFactsSteps, ItemsFacts!Starts
<1>3. ItemsAudit!AuditInv /\ [ItemsAudit!Next]_(ItemsAudit!vars) => ItemsAudit!AuditInv'
  <2>1. ItemsAudit!AuditInv' <=> ItemsFacts!AuditInv'
    BY ItemsFactsInv, PTL
  <2>. QED
    BY <1>1, <2>1, ItemsFactsInv, ItemsFactsSteps, ItemsFacts!Steps
<1>4. ItemsAudit!AuditInv => /\ ItemsAudit!StrictIsUnanimous /\ ItemsAudit!PassIsVotedFor
                     /\ ItemsAudit!BetterIsNoWorse /\ ItemsAudit!DisputeHasSpread
  BY <1>1, ItemsFactsInv, ItemsFactsProperties, ItemsFacts!StrictNeedsAll,
     ItemsFacts!PassNeedsVotes,
     ItemsFacts!BetterHelps, ItemsFacts!DisputesSpread
<1>. QED
  BY <1>2, <1>3, <1>4

-----------------------------------------------------------------------------

(* What a call of a tool keeps, whichever tool it is.                      *)
WorkInv ==
  /\ tool = "solve" => SolveCall!AttemptsInv
  /\ tool = "create" => CreateCall!PipelineInv
  /\ tool = "worker" => WorkerTurn!TurnInv
  /\ tool = "audit" => AuditCall!AuditInv
  /\ tool = "audit_items" => ItemsAudit!AuditInv

(* A call begins with it.                                                  *)
LEMMA WorkStarts == Init => WorkInv
  BY SolveStarts, CreateStarts, TurnStarts, AuditCallHolds, ItemsAuditHolds DEF Init,
     WorkInv

(* A step of a call is one of its tool, or none.                           *)
LEMMA WorkSteps == WorkInv /\ [Next]_vars => WorkInv'
<1>. SUFFICES ASSUME WorkInv, [Next]_vars PROVE WorkInv'
  OBVIOUS
<1>1. tool' = tool
  BY DEF Next, vars
<1>2. ASSUME tool = "solve" PROVE SolveCall!AttemptsInv'
  <2>1. SolveCall!Next \/ UNCHANGED SolveCall!vars
    BY <1>2 DEF Next, vars, SolveCall!vars, SolveCall!request
  <2>. QED
    BY <1>2, <2>1, SolveStep, OthersKeep DEF WorkInv
<1>3. ASSUME tool = "create" PROVE CreateCall!PipelineInv'
  <2>1. [CreateCall!Next]_(CreateCall!vars)
    BY <1>3 DEF Next, vars, CreateCall!vars, CreateCall!envelopes, CreateCall!judged,
                CreateCall!answer
  <2>. QED
    BY <1>3, <2>1, CreateStep DEF WorkInv
<1>4. ASSUME tool = "worker" PROVE WorkerTurn!TurnInv'
  <2>1. WorkerTurn!Next \/ UNCHANGED WorkerTurn!vars
    BY <1>4 DEF Next, vars, WorkerTurn!vars, WorkerTurn!turn, WorkerTurn!bill,
                WorkerTurn!outcome
  <2>. QED
    BY <1>4, <2>1, TurnStep DEF WorkInv
<1>5. ASSUME tool = "audit" PROVE AuditCall!AuditInv'
  <2>1. [AuditCall!Next]_(AuditCall!vars)
    BY <1>5 DEF Next, vars, AuditCall!vars, AuditCall!request
  <2>. QED
    BY <1>5, <2>1, AuditCallHolds DEF WorkInv
<1>6. ASSUME tool = "audit_items" PROVE ItemsAudit!AuditInv'
  <2>1. [ItemsAudit!Next]_(ItemsAudit!vars)
    BY <1>6 DEF Next, vars, ItemsAudit!vars, ItemsAudit!request
  <2>. QED
    BY <1>6, <2>1, ItemsAuditHolds DEF WorkInv
<1>. QED
  BY <1>1, <1>2, <1>3, <1>4, <1>5, <1>6 DEF WorkInv

(* The inductive invariant of a call.                                      *)
THEOREM Invariance == Spec => []WorkInv
<1>. QED
  BY WorkStarts, WorkSteps, PTL DEF Spec

(* The locals of a call always have their types.                           *)
THEOREM TypeCorrect == Spec => []TypeOK
<1>1. WorkInv => TypeOK
  BY DEF WorkInv, TypeOK, SolveCall!AttemptsInv, CreateCall!PipelineInv,
         WorkerTurn!TurnInv, AuditCall!AuditInv, ItemsAudit!AuditInv
<1>. QED
  BY <1>1, Invariance, PTL

(* Whatever a call paid for is in the account that its caller sees, and    *)
(* create overshoots the cap of its session by less than one of its calls. *)
THEOREM NothingSpentUnseen == Spec => []SpendAccounted
<1>1. WorkInv => SpendAccounted
  <2>1. SolveCall!AttemptsInv => SolveCall!AnswersCommitted
    BY DEF SolveCall!AttemptsInv, SolveCall!AnswersCommitted, SolveCall!Collected
  <2>2. AuditCall!AuditInv => AuditCall!AnswersCommitted
    BY DEF AuditCall!AuditInv
  <2>3. WorkerTurn!TurnInv => WorkerTurn!SpendReported
    BY DEF WorkerTurn!TurnInv
  <2>4. CreateCall!PipelineInv => CreateCall!ReportCoversRun /\ CreateCall!OvershootIsOneCall
    BY CreateHolds DEF CreateCall!PipelineInv
  <2>. QED
    BY <2>1, <2>2, <2>3, <2>4 DEF WorkInv, SpendAccounted
<1>. QED
  BY <1>1, Invariance, PTL

(* What solve and create return has passed its verifier or its audit, and  *)
(* is the latest of what they made.                                        *)
THEOREM ResultsAreVerified == Spec => []OnlyVerifiedReturned
<1>1. WorkInv => OnlyVerifiedReturned
  <2>1. SolveCall!AttemptsInv => /\ SolveCall!SolvedIsVerified
                                 /\ SolveCall!FeedbackIsLatest
                                 /\ SolveCall!EveryoneHadHisTurn
    BY TurnsGoRound DEF SolveCall!AttemptsInv
  <2>2. CreateCall!PipelineInv => /\ CreateCall!WrittenIsJudged
                                  /\ CreateCall!SuccessIsEarned
                                  /\ CreateCall!AuditorsIndependent
    BY CreateHolds DEF CreateCall!PipelineInv
  <2>. QED
    BY <2>1, <2>2 DEF WorkInv, OnlyVerifiedReturned
<1>. QED
  BY <1>1, Invariance, PTL

(* A tool is run below an enforced cap only: the cap was compared with all *)
(* that the turn has cost.                                                 *)
LEMMA ToolsRunBelowCap ==
  ASSUME WorkerTurn!TurnInv, [WorkerTurn!Next]_(WorkerTurn!vars)
  PROVE  WorkerTurn!EnforcedStep
<1>. SUFFICES ASSUME TurnCap > 0, v3 = "enforce", v15' # v15 PROVE v14 <= TurnCap
  BY DEF WorkerTurn!EnforcedStep
<1>1. WorkerTurn!Dispatch
  BY DEF WorkerTurn!Next, WorkerTurn!Step, WorkerTurn!Stopped, WorkerTurn!vars,
         WorkerTurn!Ask, WorkerTurn!Asked, WorkerTurn!Fail, WorkerTurn!Finish,
         WorkerTurn!End, WorkerTurn!Retry, WorkerTurn!Reprompt, WorkerTurn!RefuseOverCap,
         WorkerTurn!RefuseOverBudget, WorkerTurn!Final, WorkerTurn!outcome, WorkerTurn!bill
<1>2. WorkerTurn!WithTools /\ ~ (v8 > TurnCap)
  BY <1>1 DEF WorkerTurn!Dispatch, WorkerTurn!HasTag, WorkerTurn!Blocked, WorkerTurn!OverCap
<1>3. v8 = v14 /\ v14 \in Nat /\ TurnCap \in Nat
  BY <1>1, <1>2, TurnConstants
     DEF WorkerTurn!TurnInv, WorkerTurn!SpendReported, WorkerTurn!TypeOK,
         WorkerTurn!WorkerToolsAssumption, WorkerTurn!Dispatch, WorkerTurn!HasTag,
         WorkerTurn!Error
<1>. QED
  BY <1>2, <1>3

(* A turn of a worker ends: its tools, its questions and, under an         *)
(* enforced cap, its cost are bounded.                                     *)
THEOREM TurnsAreBounded == Spec => TurnBounded
<1>1. WorkInv => (tool = "worker" => /\ WorkerTurn!ToolsWithinBudget
                                     /\ WorkerTurn!AsksBounded
                                     /\ WorkerTurn!BlockedIsExplained)
  <2>1. SUFFICES ASSUME WorkerTurn!TurnInv
                 PROVE  /\ WorkerTurn!ToolsWithinBudget
                        /\ WorkerTurn!AsksBounded
                        /\ WorkerTurn!BlockedIsExplained
    BY DEF WorkInv
  <2>2. /\ WorkerTurn!TypeOK /\ v13 <= v6 + v7 + 2 /\ Len(v15) <= v6
        /\ WorkerTurn!BlockedIsExplained
    BY <2>1 DEF WorkerTurn!TurnInv
  <2>3. v6 \in 0 .. HopBudget /\ v7 \in 0 .. MaxRetries /\ v13 \in Nat /\ v15 \in Seq(Allowlist)
    BY <2>2 DEF WorkerTurn!TypeOK
  <2>4. HopBudget \in Nat /\ MaxRetries \in Nat
    BY TurnConstants DEF WorkerTurn!WorkerToolsAssumption
  <2>5. Len(v15) <= HopBudget /\ v13 <= 1 + HopBudget + MaxRetries + 1
    <3>1. Len(v15) \in Nat
      BY <2>3
    <3>. QED
      BY <2>2, <2>3, <2>4, <3>1
  <2>. QED
    BY <2>2, <2>5 DEF WorkerTurn!ToolsWithinBudget, WorkerTurn!AsksBounded
<1>2. WorkInv /\ [Next]_vars => [tool = "worker" => WorkerTurn!EnforcedStep]_vars
  <2>1. SUFFICES ASSUME WorkInv, [Next]_vars, tool = "worker"
                 PROVE  WorkerTurn!EnforcedStep
    OBVIOUS
  <2>2. [WorkerTurn!Next]_(WorkerTurn!vars)
    BY <2>1 DEF Next, vars, WorkerTurn!vars, WorkerTurn!turn, WorkerTurn!bill,
                WorkerTurn!outcome
  <2>. QED
    BY <2>1, <2>2, ToolsRunBelowCap DEF WorkInv
<1>. QED
  BY <1>1, <1>2, Invariance, PTL DEF Spec, TurnBounded

(* The verdict of an audit is its judges': nobody grades his own work      *)
(* without an excuse, what passes was voted for, and a better grade helps. *)
THEOREM AuditsAreVotes == Spec => []VotesDecide
<1>1. WorkInv => VotesDecide
  <2>1. AuditCall!AuditInv => AuditCall!SelfGradingIsExcused
    BY DEF AuditCall!AuditInv
  <2>. QED
    BY <2>1, AuditCallHolds, ItemsAuditHolds DEF WorkInv, VotesDecide
<1>. QED
  BY <1>1, Invariance, PTL
===============================================================================
