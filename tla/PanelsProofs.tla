---------------------------- MODULE PanelsProofs ----------------------------
(***************************************************************************)
(* What a call of confer, debate, coordinate, pick or recommend_panel      *)
(* promises, for any panel, caps, costs, options, scores and bounds. Each  *)
(* part is proved from the inductive invariant of its own module:          *)
(* ConferInv of Confer, DebateInv of Debate, CoordinateInv of Coordinate,  *)
(* PickInv of Pick and TypeOK of Router. The variables have their names in *)
(* Panels: v1 is the place of the call in its code (but for the router's   *)
(* three, which count calls). The last part is the theorems.               *)
(***************************************************************************)
EXTENDS Panels, Rounding, Sequences, SetProofs

-----------------------------------------------------------------------------
(* confer.                                                                 *)

(* What confer is called with. *)
LEMMA ConferConstants ==
  IsFiniteSet(Panelist) /\ ConferCap \in Nat /\ ConferCost \in Nat
BY ConstantsFit DEF Conf!ConferAssumption, Conf!IsFiniteSet, IsFiniteSet

(* The operators of the community modules are the same in the instance. *)
LEMMA ConferOperators ==
  /\ \A S : Conf!Cardinality(S) = Cardinality(S)
  /\ \A f, S : Conf!SumFunctionOnSet(f, S) = SumFunctionOnSet(f, S)
<1>1. \A S : Conf!Cardinality(S) = Cardinality(S)
  BY DEF Conf!Cardinality, Cardinality
<1>2. \A f, S : Conf!SumFunctionOnSet(f, S) = SumFunctionOnSet(f, S)
  BY DEF Conf!SumFunctionOnSet, SumFunctionOnSet, Conf!FoldFunctionOnSet, FoldFunctionOnSet,
         Conf!MapThenFoldSet, MapThenFoldSet
<1>. QED
  BY <1>1, <1>2

(* What has been spent on a panel depends on those who answered only. *)
LEMMA ConferSums ==
  ASSUME Conf!TypeOK
  PROVE  /\ \A S \in SUBSET Panelist : Conf!Spent(S) \in Nat
         /\ \A S \in SUBSET Panelist :
              (\A p \in Panelist \ S : v6[p] = 0) => Conf!Spent(Panelist) = Conf!Spent(S)
<1>1. \A p \in Panelist : v6[p] \in Nat
  BY ConferConstants DEF Conf!TypeOK
<1>2. \A S : Conf!Spent(S) = SumFunctionOnSet(v6, S)
  BY ConferOperators DEF Conf!Spent
<1>3. ASSUME NEW S \in SUBSET Panelist
      PROVE  /\ SumFunctionOnSet(v6, S) \in Nat
             /\ (\A p \in Panelist \ S : v6[p] = 0)
                => SumFunctionOnSet(v6, Panelist) = SumFunctionOnSet(v6, S)
  <2>1. IsFiniteSet(S)
    BY ConferConstants, FS_Subset
  <2>2. SumFunctionOnSet(v6, S) \in Nat
    BY <1>1, <2>1, SumOfNats
  <2>3. (\A p \in Panelist \ S : v6[p] = 0)
        => SumFunctionOnSet(v6, Panelist) = SumFunctionOnSet(v6, S)
    BY <1>1, ConferConstants, SumIgnoresZeros
  <2>. QED
    BY <2>2, <2>3
<1>. QED
  BY <1>2, <1>3

(* An answer that is paid for is added to the sum. *)
LEMMA ConferAnswers ==
  ASSUME Conf!TypeOK, NEW p \in Panelist, v6[p] = 0, NEW c \in 0 .. ConferCost,
         v6' = [v6 EXCEPT ![p] = c]
  PROVE  Conf!Spent(Panelist)' = Conf!Spent(Panelist) + c
<1>1. \A q \in Panelist : v6[q] \in Int
  BY ConferConstants DEF Conf!TypeOK
<1>2. c \in Int
  BY ConferConstants
<1>3. /\ v6'[p] = c
      /\ \A q \in Panelist : q # p => v6'[q] = v6[q]
  BY DEF Conf!TypeOK
<1>4. \A g : /\ \A x \in Panelist : g[x] \in Int
             /\ \A x \in Panelist : x # p => v6[x] = g[x]
             => SumFunctionOnSet(g, Panelist) = SumFunctionOnSet(v6, Panelist) + (g[p] - v6[p])
  BY <1>1, ConferConstants, SumMoves
<1>5. SumFunctionOnSet(v6', Panelist) = SumFunctionOnSet(v6, Panelist) + (c - 0)
  <2>1. \A x \in Panelist : v6'[x] \in Int
    BY <1>1, <1>2, <1>3
  <2>. QED
    BY <1>3, <1>4, <2>1
<1>6. SumFunctionOnSet(v6, Panelist) \in Int
  BY <1>1, ConferConstants, SumWithOut
<1>7. Conf!Spent(Panelist)' = SumFunctionOnSet(v6', Panelist)
      /\ Conf!Spent(Panelist) = SumFunctionOnSet(v6, Panelist)
  BY ConferOperators DEF Conf!Spent
<1>. QED
  BY <1>2, <1>5, <1>6, <1>7

(* confer begins with nobody called and nothing paid. *)
LEMMA ConferStarts == Conf!Init => Conf!ConferInv
<1>. SUFFICES ASSUME Conf!Init PROVE Conf!ConferInv
  OBVIOUS
<1>1. Conf!TypeOK
  <2>1. 0 \in 0 .. ConferCost /\ 0 \in Nat /\ {} \in SUBSET Panelist
    BY ConferConstants
  <2>2. v5 \in [Panelist -> {"none", "queued", "asking", "ok", "failed", "raised"}]
        /\ v6 \in [Panelist -> 0 .. ConferCost]
    BY <2>1 DEF Conf!Init
  <2>. QED
    BY <2>1, <2>2 DEF Conf!Init, Conf!TypeOK, Conf!Clocks
<1>2. Conf!Spent(Panelist) = 0
  <2>1. SumFunctionOnSet(v6, Panelist) = 0
    BY ConferConstants, SumOfZeros DEF Conf!Init
  <2>. QED
    BY <2>1, ConferOperators DEF Conf!Spent
<1>3. Conf!Called = {}
  BY DEF Conf!Init, Conf!Called
<1>. QED
  BY <1>1, <1>2, <1>3 DEF Conf!ConferInv, Conf!Init, Conf!PoolJoined, Conf!AnswersCommitted

(* A step that changes no cost changes no sum. *)
LEMMA ConferSameCosts ==
  ASSUME UNCHANGED v6
  PROVE  Conf!Spent(Panelist)' = Conf!Spent(Panelist)
BY ConferOperators DEF Conf!Spent

(* Calling some of the panel who have not been called. *)
LEMMA DispatchCalls ==
  ASSUME Conf!TypeOK, NEW S \in SUBSET Panelist, Conf!Dispatch(S),
         \A p \in Panelist : v5[p] \notin {"ok", "failed"} => v6[p] = 0,
         UNCHANGED v6, \A p \in S : v5[p] = "none"
  PROVE  /\ v5' \in [Panelist -> {"none", "queued", "asking", "ok", "failed", "raised"}]
         /\ Conf!Called' = Conf!Called \union S
         /\ \A p \in Panelist : v5'[p] \notin {"ok", "failed"} => v6'[p] = 0
BY DEF Conf!TypeOK, Conf!Dispatch, Conf!Called

(* A call that is refused or calls the panel. *)
LEMMA ConferEnters ==
  ASSUME Conf!ConferInv, Conf!Refuse \/ Conf!AskPanel \/ Conf!AskFirst
  PROVE  Conf!ConferInv'
<1>. USE DEF Conf!ConferInv
<1>1. /\ Conf!TypeOK /\ v1 = "entry" /\ Conf!Called = {} /\ v9 = 0 /\ v10 = 0 /\ v12 = 0
      /\ UNCHANGED <<v2, v3, v4, v6, v7, v8, v9, v10, v12, v11,
                     v13>>
      /\ \A p \in Panelist : v5[p] = "none"
  BY DEF Conf!Refuse, Conf!AskPanel, Conf!AskFirst, Conf!verdict, Conf!ledger, Conf!panel,
         Conf!Called, Conf!Mishap
<1>2. Conf!Spent(Panelist)' = Conf!Spent(Panelist)
  BY <1>1, ConferSameCosts
<1>3. CASE Conf!Refuse
  <2>1. UNCHANGED v5 /\ v1' = "refused"
    BY <1>3 DEF Conf!Refuse, Conf!panel
  <2>2. Conf!Called' = Conf!Called
    BY <2>1 DEF Conf!Called
  <2>. QED
    BY <1>1, <1>2, <2>1, <2>2 DEF Conf!TypeOK, Conf!PoolJoined, Conf!AnswersCommitted
<1>4. CASE Conf!AskPanel
  <2>1. Conf!Dispatch(Panelist) /\ v1' = "gather"
    BY <1>4 DEF Conf!AskPanel
  <2>2. /\ v5' \in [Panelist -> {"none", "queued", "asking", "ok", "failed", "raised"}]
        /\ Conf!Called' = Panelist
        /\ \A p \in Panelist : v5'[p] \notin {"ok", "failed"} => v6'[p] = 0
    BY <1>1, <2>1, DispatchCalls
  <2>. QED
    BY <1>1, <1>2, <2>1, <2>2 DEF Conf!TypeOK, Conf!PoolJoined, Conf!AnswersCommitted
<1>5. CASE Conf!AskFirst
  <2>1. PICK S \in SUBSET Panelist : Conf!Cardinality(S) = 2 /\ Conf!Dispatch(S)
    BY <1>5 DEF Conf!AskFirst
  <2>2. v1' = "gather_first" /\ v3.early
    BY <1>5 DEF Conf!AskFirst
  <2>3. /\ v5' \in [Panelist -> {"none", "queued", "asking", "ok", "failed", "raised"}]
        /\ Conf!Called' = S
        /\ \A p \in Panelist : v5'[p] \notin {"ok", "failed"} => v6'[p] = 0
    BY <1>1, <2>1, DispatchCalls
  <2>4. (Conf!Cardinality(Conf!Called) = 2)'
    BY <2>1, <2>3
  <2>. QED
    BY <1>1, <1>2, <2>2, <2>3, <2>4 DEF Conf!TypeOK, Conf!PoolJoined, Conf!AnswersCommitted
<1>. QED
  BY <1>3, <1>4, <1>5

(* A pool thread. *)
LEMMA ConferThreads ==
  ASSUME Conf!ConferInv, NEW p \in Panelist, Conf!Start(p) \/ Conf!Return(p)
  PROVE  Conf!ConferInv'
<1>. USE DEF Conf!ConferInv
<1>1. /\ Conf!TypeOK /\ v1 \in {"gather_first", "gather"} /\ v5[p] \in {"queued", "asking"}
      /\ UNCHANGED <<v1, v2, v3, v4, v7, v8, v9, v10, v13>>
      /\ v6[p] = 0
  BY DEF Conf!Start, Conf!Return, Conf!verdict, Conf!ledger, Conf!PoolJoined
<1>2. PICK how \in {"failed", "asking", "ok", "raised"}, c \in 0 .. ConferCost,
           d \in 0 .. ConferCost :
        /\ how \in {"asking", "raised"} => c = 0
        /\ how \in {"asking", "ok"} => d = 0
        /\ v5' = [v5 EXCEPT ![p] = how]
        /\ v6' = [v6 EXCEPT ![p] = c]
        /\ v11' = v11 + c + d
        /\ v12' = v12 + d
  <2>1. CASE Conf!Start(p)
    <3>1. /\ 0 \in 0 .. ConferCost /\ v11 \in Nat /\ v12 \in Nat
          /\ v6 \in [Panelist -> 0 .. ConferCost]
      BY <1>1, ConferConstants DEF Conf!TypeOK
    <3>2. v6 = [v6 EXCEPT ![p] = 0] /\ v11 = v11 + 0 + 0 /\ v12 = v12 + 0
      BY <1>1, <3>1
    <3>3. UNCHANGED <<v6, v11, v12>> /\ \E how \in {"failed", "asking"} :
            v5' = [v5 EXCEPT ![p] = how]
      BY <2>1 DEF Conf!Start, Conf!ledger
    <3>. QED
      BY <3>1, <3>2, <3>3
  <2>2. CASE Conf!Return(p)
    BY <2>2 DEF Conf!Return, Conf!Spend
  <2>. QED
    BY <2>1, <2>2
<1>3. c \in Nat /\ d \in Nat /\ v11 \in Nat /\ v12 \in Nat
  BY <1>1, ConferConstants DEF Conf!TypeOK
<1>4. Conf!Spent(Panelist)' = Conf!Spent(Panelist) + c
  BY <1>1, <1>2, ConferAnswers
<1>5. Conf!Spent(Panelist) \in Nat /\ v9 \in Nat /\ v10 \in Nat
  BY <1>1, ConferSums, ConferConstants DEF Conf!TypeOK
<1>6. v11' = Conf!Spent(Panelist)' + v9' + v10' + v12' /\ v11' \in Nat /\ v12' \in Nat
  BY <1>1, <1>2, <1>3, <1>4, <1>5
<1>7. /\ v5' \in [Panelist -> {"none", "queued", "asking", "ok", "failed", "raised"}]
      /\ v6' \in [Panelist -> 0 .. ConferCost]
      /\ Conf!Called' = Conf!Called
      /\ \A q \in Panelist : v5'[q] \notin {"ok", "failed"} => v6'[q] = 0
  BY <1>1, <1>2 DEF Conf!TypeOK, Conf!Called
<1>8. (Conf!Cardinality(Conf!Called))' = Conf!Cardinality(Conf!Called)
  BY <1>7
<1>9. Conf!TypeOK'
  BY <1>1, <1>6, <1>7 DEF Conf!TypeOK
<1>10. (Conf!Mishap => Conf!Mishap') /\ (v12' = v12 \/ Conf!Mishap')
  <2>1. v5[p] \notin {"failed", "raised"} /\ v5'[p] = how
        /\ \A q \in Panelist : q # p => v5'[q] = v5[q]
    BY <1>1, <1>2 DEF Conf!TypeOK
  <2>2. d = 0 \/ how \in {"failed", "raised"}
    BY <1>2
  <2>3. d = 0 => v12' = v12
    BY <1>2, <1>3
  <2>. QED
    BY <2>1, <2>2, <2>3 DEF Conf!Mishap
<1>. QED
  BY <1>1, <1>6, <1>7, <1>8, <1>9, <1>10 DEF Conf!PoolJoined, Conf!AnswersCommitted

(* Leaving a pool. *)
LEMMA ConferGathers ==
  ASSUME Conf!ConferInv, Conf!Gather
  PROVE  Conf!ConferInv'
<1>. USE DEF Conf!ConferInv
<1>1. /\ Conf!TypeOK /\ v1 \in {"gather_first", "gather"} /\ Conf!Joined
      /\ v1' = IF Conf!Raised THEN "raised" ELSE IF v1 = "gather_first" THEN "weigh" ELSE "claims"
      /\ UNCHANGED <<v2, v3, v4, v5, v6, v7, v8, v9, v10, v12,
                     v11, v13>>
  BY DEF Conf!Gather, Conf!panel, Conf!verdict, Conf!ledger
<1>2. /\ Conf!Called' = Conf!Called /\ Conf!Asked' = Conf!Asked
      /\ Conf!Spent(Panelist)' = Conf!Spent(Panelist)
      /\ (Conf!Cardinality(Conf!Called))' = Conf!Cardinality(Conf!Called)
      /\ Conf!Mishap' = Conf!Mishap
  BY <1>1, ConferSameCosts DEF Conf!Called, Conf!Asked, Conf!Mishap
<1>3. ~Conf!Raised => Conf!Called = Conf!Asked
  BY <1>1 DEF Conf!TypeOK, Conf!Joined, Conf!Raised, Conf!Called, Conf!Asked
<1>4. Conf!TypeOK'
  BY <1>1 DEF Conf!TypeOK
<1>5. Conf!PoolJoined'
  BY <1>1 DEF Conf!PoolJoined, Conf!Joined
<1>6. v1' = "claims" => Conf!PanelSettled'
  BY <1>1, <1>2, <1>3 DEF Conf!PanelSettled
<1>. QED
  BY <1>1, <1>2, <1>3, <1>4, <1>5, <1>6 DEF Conf!AnswersCommitted

(* What is known of the first two when their answers are weighed. *)
LEMMA TwoAnswered ==
  ASSUME Conf!ConferInv, v1 = "weigh"
  PROVE  /\ Conf!Called = Conf!Asked /\ Conf!Cardinality(Conf!Asked) = 2
         /\ v9 = 0 /\ v10 = 0 /\ v8 = {}
         /\ Conf!Spent(Panelist) = Conf!Spent(Conf!Asked)
         /\ Conf!Spent(Panelist) \in Nat /\ v12 \in Nat
         /\ v11 = Conf!Spent(Conf!Asked) + v12
         /\ (\A p \in Conf!Asked : v5[p] = "ok") => v12 = 0
<1>1. /\ Conf!TypeOK /\ Conf!Called = Conf!Asked /\ Conf!Cardinality(Conf!Asked) = 2
      /\ v9 = 0 /\ v10 = 0 /\ v8 = {} /\ v12 \in Nat
      /\ v11 = Conf!Spent(Panelist) + v9 + v10 + v12
      /\ \A p \in Panelist \ Conf!Asked : v6[p] = 0
      /\ v12 = 0 \/ Conf!Mishap
  BY DEF Conf!ConferInv, Conf!Called, Conf!TypeOK
<1>2. Conf!Asked \in SUBSET Panelist /\ Panelist \in SUBSET Panelist
  BY DEF Conf!Asked
<1>3. Conf!Spent(Panelist) = Conf!Spent(Conf!Asked) /\ Conf!Spent(Panelist) \in Nat
  BY <1>1, <1>2, ConferSums
<1>4. (\A p \in Conf!Asked : v5[p] = "ok") => ~Conf!Mishap
  BY <1>1 DEF Conf!Mishap, Conf!Called
<1>5. v11 = Conf!Spent(Conf!Asked) + v12
  BY <1>1, <1>3
<1>. QED
  BY <1>1, <1>3, <1>4, <1>5

(* The verdict on the first two, or none. *)
LEMMA ConferWeighs ==
  ASSUME Conf!ConferInv, Conf!Weigh \/ Conf!SkipJudge
  PROVE  Conf!ConferInv'
<1>. USE DEF Conf!ConferInv
<1>1. /\ Conf!TypeOK /\ v1 = "weigh"
      /\ UNCHANGED <<v2, v3, v4, v6, v10, v13>>
  BY DEF Conf!Weigh, Conf!SkipJudge, Conf!ledger
<1>2. /\ Conf!Called = Conf!Asked /\ Conf!Cardinality(Conf!Asked) = 2
      /\ v9 = 0 /\ v10 = 0 /\ v8 = {}
      /\ Conf!Spent(Panelist) \in Nat /\ v12 \in Nat
      /\ v11 = Conf!Spent(Panelist) + v12
  BY <1>1, TwoAnswered
<1>3. PICK c \in 0 .. ConferCost, d \in 0 .. ConferCost, yes \in BOOLEAN :
        /\ v9' = c /\ v11' = v11 + c + d /\ v12' = v12 + d
        /\ yes => /\ v7' = TRUE /\ Conf!StopEarly
                  /\ \A p \in Conf!Asked : v5[p] = "ok"
        /\ ~yes => v7' \in BOOLEAN /\ Conf!AskRest
        /\ yes => d = 0
        /\ d > 0 => \A p \in Conf!Asked : v5[p] = "ok"
  <2>1. CASE Conf!Weigh
    BY <2>1 DEF Conf!Weigh, Conf!MayJudge, Conf!Spend
  <2>2. CASE Conf!SkipJudge
    <3>1. 0 \in 0 .. ConferCost /\ v9' = 0 /\ v11' = v11 + 0 + 0 /\ v12' = v12 + 0
          /\ v7' \in BOOLEAN /\ Conf!AskRest /\ ~(0 > 0)
      BY <1>1, <1>2, <2>2, ConferConstants DEF Conf!SkipJudge, Conf!ledger, Conf!TypeOK
    <3>. QED
      BY <3>1
  <2>. QED
    BY <2>1, <2>2
<1>4. Conf!Spent(Panelist)' = Conf!Spent(Panelist)
  BY <1>1, ConferSameCosts
<1>5. v11' = Conf!Spent(Panelist)' + v9' + v10' + v12' /\ v11' \in Nat /\ v12' \in Nat
  BY <1>1, <1>2, <1>3, <1>4, ConferConstants
<1>6. v3.early
  BY <1>1
<1>7. CASE yes
  <2>1. v8' = Panelist \ Conf!Asked /\ v1' = "claims" /\ UNCHANGED v5 /\ v7'
    BY <1>3, <1>7 DEF Conf!StopEarly
  <2>2. Conf!Called' = Conf!Called /\ Conf!Asked' = Conf!Asked /\ Conf!Mishap' = Conf!Mishap /\
          (Conf!Cardinality(Conf!Asked))' = Conf!Cardinality(Conf!Asked)
    BY <2>1 DEF Conf!Called, Conf!Asked, Conf!Mishap
  <2>3. Conf!PanelSettled'
    <3>1. Conf!Asked \union (Panelist \ Conf!Asked) = Panelist
      BY DEF Conf!Asked
    <3>2. \A p \in Panelist \ Conf!Asked : v5[p] = "none"
      BY <1>2 DEF Conf!Called
    <3>. QED
      BY <1>2, <1>3, <1>7, <2>1, <2>2, <3>1, <3>2 DEF Conf!PanelSettled
  <2>4. Conf!TypeOK'
    BY <1>1, <1>3, <1>5, <2>1 DEF Conf!TypeOK
  <2>5. Conf!PoolJoined'
    BY <1>1, <2>1 DEF Conf!PoolJoined
  <2>. QED
    BY <1>1, <1>2, <1>5, <1>6, <2>1, <2>2, <2>3, <2>4, <2>5 DEF Conf!AnswersCommitted
<1>8. CASE ~yes
  <2>1. Conf!Dispatch(Panelist \ Conf!Asked) /\ v1' = "gather" /\ UNCHANGED v8 /\ v7' \in BOOLEAN
    BY <1>3, <1>8 DEF Conf!AskRest
  <2>2. \A p \in Panelist \ Conf!Asked : v5[p] = "none"
    BY <1>2 DEF Conf!Called
  <2>3. /\ v5' \in [Panelist -> {"none", "queued", "asking", "ok", "failed", "raised"}]
        /\ Conf!Called' = Conf!Called \union (Panelist \ Conf!Asked)
        /\ \A p \in Panelist : v5'[p] \notin {"ok", "failed"} => v6'[p] = 0
    BY <1>1, <2>1, <2>2, DispatchCalls
  <2>4. Conf!Called' = Panelist
    BY <1>2, <2>3 DEF Conf!Called
  <2>5. Conf!TypeOK'
    BY <1>1, <1>3, <1>5, <2>1, <2>3 DEF Conf!TypeOK
  <2>. QED
    BY <1>1, <1>2, <1>5, <1>6, <2>1, <2>3, <2>4, <2>5 DEF Conf!PoolJoined, Conf!AnswersCommitted
<1>. QED
  BY <1>7, <1>8

(* A request that raises. *)
LEMMA ConferRaises ==
  ASSUME Conf!ConferInv, Conf!Raise
  PROVE  Conf!ConferInv'
<1>. USE DEF Conf!ConferInv
<1>1. /\ Conf!TypeOK /\ v1 \in {"weigh", "claims"} /\ v1' = "raised"
      /\ v1 = "claims" => v3.claims
      /\ UNCHANGED <<v2, v3, v4, v5, v6, v7, v8, v9, v10, v13>>
      /\ v11 = Conf!Spent(Panelist) + v9 + v10 + v12
      /\ v10 = 0
  BY DEF Conf!Raise, Conf!panel, Conf!verdict, Conf!MayExtract
<1>2. PICK d \in 0 .. ConferCost : v11' = v11 + 0 + d /\ v12' = v12 + d
  BY DEF Conf!Raise, Conf!Spend
<1>3. Conf!Spent(Panelist)' = Conf!Spent(Panelist)
  BY <1>1, ConferSameCosts
<1>4. Conf!Spent(Panelist) \in Nat /\ v9 \in Nat /\ v12 \in Nat /\ v11 \in Nat /\ d \in Nat
  BY <1>1, ConferSums, ConferConstants DEF Conf!TypeOK
<1>5. v11' = Conf!Spent(Panelist)' + v9' + v10' + v12' /\ v11' \in Nat /\ v12' \in Nat
  BY <1>1, <1>2, <1>3, <1>4
<1>6. Conf!TypeOK'
  BY <1>1, <1>5 DEF Conf!TypeOK
<1>7. Conf!PoolJoined' /\ Conf!Mishap' = Conf!Mishap
  BY <1>1 DEF Conf!PoolJoined, Conf!Mishap
<1>8. v1 = "weigh" => v3.early
  OBVIOUS
<1>. QED
  BY <1>1, <1>5, <1>6, <1>7, <1>8 DEF Conf!AnswersCommitted

(* The claims. *)
LEMMA ConferExtracts ==
  ASSUME Conf!ConferInv, Conf!Extract \/ Conf!NoExtract
  PROVE  Conf!ConferInv'
<1>. USE DEF Conf!ConferInv
<1>1. /\ Conf!TypeOK /\ v1 = "claims" /\ v1' = "commit"
      /\ UNCHANGED <<v2, v3, v4, v5, v6, v7, v8, v9, v13>>
      /\ v10 = 0
      /\ v11 = Conf!Spent(Panelist) + v9 + v10 + v12
  BY DEF Conf!Extract, Conf!NoExtract, Conf!panel, Conf!verdict, Conf!ledger
<1>2. PICK c \in 0 .. ConferCost, d \in 0 .. ConferCost :
        v10' = c /\ v11' = v11 + c + d /\ v12' = v12 + d /\ (d > 0 => v3.claims)
  <2>1. CASE Conf!Extract
    BY <2>1 DEF Conf!Extract, Conf!Spend, Conf!MayExtract
  <2>2. CASE Conf!NoExtract
    <3>1. v10' = 0 /\ v11' = v11 + 0 + 0 /\ v12' = v12 + 0 /\ 0 \in 0 .. ConferCost
      BY <1>1, <2>2, ConferConstants DEF Conf!NoExtract, Conf!ledger, Conf!TypeOK
    <3>. QED
      BY <3>1
  <2>. QED
    BY <2>1, <2>2
<1>3. Conf!Spent(Panelist)' = Conf!Spent(Panelist)
  BY <1>1, ConferSameCosts
<1>4. Conf!Spent(Panelist) \in Nat /\ v9 \in Nat /\ v12 \in Nat /\ c \in Nat /\ d \in Nat
      /\ v11 \in Nat
  BY <1>1, ConferSums, ConferConstants DEF Conf!TypeOK
<1>5. v11' = Conf!Spent(Panelist)' + v9' + v10' + v12' /\ v11' \in Nat /\ v12' \in Nat
  BY <1>1, <1>2, <1>3, <1>4
<1>6. Conf!Called' = Conf!Called /\ Conf!Asked' = Conf!Asked /\ Conf!Mishap' = Conf!Mishap /\
        (Conf!Cardinality(Conf!Asked))' = Conf!Cardinality(Conf!Asked)
  BY <1>1 DEF Conf!Called, Conf!Asked, Conf!Mishap
<1>7. Conf!TypeOK'
  BY <1>1, <1>2, <1>5 DEF Conf!TypeOK
<1>8. Conf!PanelSettled' /\ Conf!PoolJoined'
  BY <1>1, <1>6 DEF Conf!PanelSettled, Conf!PoolJoined
<1>9. v12' > 0 => v12 > 0 \/ v3.claims
  BY <1>2, <1>4
<1>. QED
  BY <1>1, <1>5, <1>6, <1>7, <1>8, <1>9 DEF Conf!AnswersCommitted

(* The commit records all that the answers report. *)
LEMMA ConferCommits ==
  ASSUME Conf!ConferInv, Conf!Commit
  PROVE  Conf!ConferInv'
<1>. USE DEF Conf!ConferInv
<1>1. /\ Conf!TypeOK /\ v1 = "commit" /\ v1' = "done"
      /\ UNCHANGED <<v2, v3, v4, v5, v6, v7, v8, v9, v10, v12,
                     v11>>
      /\ v13' = Conf!Spent(Conf!Asked) + v9 + v10
      /\ v11 = Conf!Spent(Panelist) + v9 + v10 + v12
      /\ Conf!Called = Conf!Asked
      /\ \A p \in Panelist \ Conf!Asked : v6[p] = 0
  BY DEF Conf!Commit, Conf!panel, Conf!verdict, Conf!Called
<1>2. Conf!Asked \in SUBSET Panelist /\ Panelist \in SUBSET Panelist
  BY DEF Conf!Asked
<1>3. Conf!Spent(Panelist) = Conf!Spent(Conf!Asked) /\ Conf!Spent(Panelist) \in Nat /\ v9 \in Nat
      /\ v10 \in Nat /\ v12 \in Nat
  BY <1>1, <1>2, ConferSums, ConferConstants DEF Conf!TypeOK
<1>4. v13' \in Nat /\ v13' + v12 = v11
  BY <1>1, <1>3
<1>5. Conf!Spent(Panelist)' = Conf!Spent(Panelist)
  BY <1>1, ConferSameCosts
<1>6. Conf!Called' = Conf!Called /\ Conf!Asked' = Conf!Asked /\ Conf!Mishap' = Conf!Mishap /\
        (Conf!Cardinality(Conf!Asked))' = Conf!Cardinality(Conf!Asked)
  BY <1>1 DEF Conf!Called, Conf!Asked, Conf!Mishap
<1>7. Conf!TypeOK'
  BY <1>1, <1>4 DEF Conf!TypeOK
<1>8. Conf!PanelSettled' /\ Conf!PoolJoined'
  BY <1>1, <1>6 DEF Conf!PanelSettled, Conf!PoolJoined
<1>9. Conf!Mishap => \E p \in Panelist : v5'[p] = "failed"
  BY <1>1 DEF Conf!Mishap, Conf!Called, Conf!Asked
<1>. QED
  BY <1>1, <1>4, <1>5, <1>6, <1>7, <1>8, <1>9 DEF Conf!AnswersCommitted

(* Time passes, or nothing happens. *)
LEMMA ConferRests ==
  ASSUME Conf!ConferInv, Conf!Elapse \/ UNCHANGED Conf!vars
  PROVE  Conf!ConferInv'
<1>. USE DEF Conf!ConferInv
<1>1. /\ Conf!TypeOK /\ v2' \in Conf!Clocks
      /\ UNCHANGED <<v1, v3, v4, v5, v6, v7, v8, v9, v10, v12,
                     v11, v13>>
  BY DEF Conf!Elapse, Conf!vars, Conf!panel, Conf!verdict, Conf!ledger, Conf!TypeOK,
         Conf!Clocks
<1>2. Conf!Spent(Panelist)' = Conf!Spent(Panelist)
  BY <1>1, ConferSameCosts
<1>3. /\ Conf!Called' = Conf!Called /\ Conf!Asked' = Conf!Asked /\ Conf!Mishap' = Conf!Mishap
      /\ (Conf!Cardinality(Conf!Asked))' = Conf!Cardinality(Conf!Asked)
      /\ (Conf!Cardinality(Conf!Called))' = Conf!Cardinality(Conf!Called)
  BY <1>1 DEF Conf!Called, Conf!Asked, Conf!Mishap
<1>4. Conf!TypeOK'
  BY <1>1 DEF Conf!TypeOK
<1>5. Conf!PanelSettled' = Conf!PanelSettled /\ Conf!PoolJoined' = Conf!PoolJoined
  BY <1>1, <1>3 DEF Conf!PanelSettled, Conf!PoolJoined
<1>. QED
  BY <1>1, <1>2, <1>3, <1>4, <1>5 DEF Conf!AnswersCommitted

(* Every step of confer keeps its invariant. *)
LEMMA ConferStep == Conf!ConferInv /\ Conf!Next => Conf!ConferInv'
BY ConferEnters, ConferThreads, ConferGathers, ConferWeighs, ConferRaises, ConferExtracts,
   ConferCommits, ConferRests
   DEF Conf!Next, Conf!Main, Conf!Pool, Conf!Stopped

(* The judge is asked below the cap only, with what the call has spent. *)
LEMMA ConferJudges == Conf!ConferInv /\ Conf!Next => Conf!JudgeStep
<1>. SUFFICES ASSUME Conf!ConferInv, Conf!Next, v9' # v9, ConferCap > 0 PROVE v4 + v11 < ConferCap
  BY DEF Conf!JudgeStep
<1>1. Conf!Weigh
  BY DEF Conf!Next, Conf!Main, Conf!Pool, Conf!Stopped, Conf!vars, Conf!Refuse, Conf!AskPanel,
         Conf!AskFirst, Conf!Gather, Conf!SkipJudge, Conf!Extract, Conf!NoExtract, Conf!Commit,
         Conf!Start, Conf!Return, Conf!Elapse, Conf!Raise, Conf!verdict
<1>2. /\ ~Conf!Tripped(v4 + Conf!Spent(Conf!Asked)) /\ v1 = "weigh"
      /\ \A p \in Conf!Asked : v5[p] = "ok"
  BY <1>1 DEF Conf!Weigh, Conf!MayJudge
<1>3. v11 = Conf!Spent(Conf!Asked) /\ Conf!Spent(Conf!Asked) \in Nat
  BY <1>2, TwoAnswered
<1>4. v4 \in Nat /\ ConferCap \in Nat
  BY ConferConstants DEF Conf!ConferInv, Conf!TypeOK
<1>. QED
  BY <1>2, <1>3, <1>4 DEF Conf!Tripped

(* What the invariant says of a call. *)
LEMMA ConferHolds == Conf!ConferInv => /\ Conf!TypeOK /\ Conf!AnswersCommitted
                                       /\ Conf!WholePanelOrAgreement /\ Conf!PoolJoined
BY DEF Conf!ConferInv, Conf!WholePanelOrAgreement

-----------------------------------------------------------------------------
(* debate.                                                                 *)

(* What debate is called with. *)
LEMMA DebateConstants ==
  /\ Debaters \in Nat /\ Debaters >= 2
  /\ MaxRounds \in Nat /\ SessionCap \in Nat /\ AnswerCost \in Nat /\ MaxClaims \in Nat
BY ConstantsFit DEF Deb!DebateAssumption

(* A round is a sequence of no more turns than the panel has. *)
LEMMA RoundFits ==
  ASSUME NEW s
  PROVE  s \in Deb!BoundedSeq(BOOLEAN, Debaters) <=> s \in Seq(BOOLEAN) /\ Len(s) <= Debaters
<1>1. Deb!BoundedSeq(BOOLEAN, Debaters) = UNION {[1 .. m -> BOOLEAN] : m \in 0 .. Debaters}
  BY DEF Deb!BoundedSeq, Deb!SeqOf
<1>2. ASSUME s \in Deb!BoundedSeq(BOOLEAN, Debaters)
      PROVE  s \in Seq(BOOLEAN) /\ Len(s) <= Debaters
  <2>1. PICK m \in 0 .. Debaters : s \in [1 .. m -> BOOLEAN]
    BY <1>1, <1>2
  <2>. QED
    BY <2>1, DebateConstants
<1>3. ASSUME s \in Seq(BOOLEAN), Len(s) <= Debaters PROVE s \in Deb!BoundedSeq(BOOLEAN, Debaters)
  <2>1. Len(s) \in 0 .. Debaters /\ s \in [1 .. Len(s) -> BOOLEAN]
    BY <1>3, DebateConstants
  <2>. QED
    BY <1>1, <2>1
<1>. QED
  BY <1>2, <1>3

(* A function on 1 .. m is a sequence of length m. *)
LEMMA FunctionIsSeq ==
  ASSUME NEW S, NEW m \in Nat, NEW f \in [1 .. m -> S]
  PROVE  f \in Seq(S) /\ Len(f) = m
OBVIOUS

(* Debate begins without a round. *)
LEMMA DebateStarts == Deb!Init => Deb!DebateInv
<1>. SUFFICES ASSUME Deb!Init PROVE Deb!DebateInv
  OBVIOUS
<1>1. Deb!TypeOK
  <2>1. 0 \in 0 .. MaxRounds /\ 0 \in Deb!Cost /\ 0 \in 0 .. MaxClaims /\ v4 \in 0 .. SessionCap
    BY DebateConstants DEF Deb!Init, Deb!Cost
  <2>2. v10 \in [cost : Deb!Cost, parsed : BOOLEAN]
    BY <2>1 DEF Deb!Init
  <2>. QED
    BY <2>1, <2>2, DebateConstants DEF Deb!Init, Deb!TypeOK
<1>2. v10.cost = 0 /\ v5 = <<>> /\ v5 \in Seq(Seq(BOOLEAN))
  BY DEF Deb!Init
<1>. QED
  BY <1>1, <1>2
     DEF Deb!DebateInv, Deb!Init, Deb!RoundsWhole, Deb!ShortDebateIsAgreed, Deb!AnswersCommitted

(* A step that leaves the transcript and the verdict alone. *)
LEMMA DebateSameTranscript ==
  ASSUME UNCHANGED <<v5, v2>>
  PROVE  /\ Deb!RoundOver' = Deb!RoundOver
         /\ (Deb!Last(v5))' = Deb!Last(v5)
         /\ Deb!Clean(Deb!Last(v5))' = Deb!Clean(Deb!Last(v5))
BY DEF Deb!RoundOver, Deb!Clean, Deb!Last

(* A step that leaves the transcript and the arguments alone. *)
LEMMA DebateSameLosses ==
  ASSUME UNCHANGED <<v5, v3>>
  PROVE  Deb!MayLose' = Deb!MayLose
BY DEF Deb!MayLose

(* The debate is refused or begins; time passes; nothing happens. *)
LEMMA DebateEnters ==
  ASSUME Deb!DebateInv, Deb!Enter \/ Deb!Elapse \/ UNCHANGED Deb!vars
  PROVE  Deb!DebateInv'
<1>. USE DEF Deb!DebateInv
<1>1. /\ Deb!TypeOK
      /\ UNCHANGED <<v3, v4, v5, v6, v7, v8, v9, v10, v11,
                     v12, v13, v14, v15>>
      /\ \/ UNCHANGED v1
         \/ v1 = "entry" /\ v1' \in {"refused", "round"}
      /\ v2' = v2 \/ v2' = "out"
  BY DEF Deb!Enter, Deb!Elapse, Deb!vars, Deb!given, Deb!transcript, Deb!verdict, Deb!ledger
<1>2. Deb!TypeOK'
  BY <1>1 DEF Deb!TypeOK
<1>3. (Deb!Last(v5))' = Deb!Last(v5) /\ Deb!Clean(Deb!Last(v5))' = Deb!Clean(Deb!Last(v5))
  BY <1>1 DEF Deb!Clean, Deb!Last
<1>4. Deb!RoundsWhole' /\ Deb!ShortDebateIsAgreed'
  BY <1>1, <1>3 DEF Deb!RoundsWhole, Deb!ShortDebateIsAgreed
<1>5. Deb!MayLose' = Deb!MayLose
  BY <1>1, DebateSameLosses
<1>6. Deb!AnswersCommitted'
  BY <1>1, <1>5 DEF Deb!AnswersCommitted
<1>. QED
  BY <1>1, <1>2, <1>4, <1>5, <1>6

(* A round begins, or the rounds are over. *)
LEMMA DebateRounds ==
  ASSUME Deb!DebateInv, Deb!Round
  PROVE  Deb!DebateInv'
<1>. USE DEF Deb!DebateInv
<1>1. /\ Deb!TypeOK /\ v1 = "round" /\ v8 = 0 /\ v10.cost = 0 /\ v11 = 0
      /\ v5 \in Seq(Seq(BOOLEAN)) /\ Len(v5) \in Nat
      /\ UNCHANGED <<v2, v3, v4, v6, v8, v9, v10, v11, v12, v13,
                     v14, v15>>
  BY DEF Deb!Round, Deb!given, Deb!verdict, Deb!ledger
<1>2. \A r \in DOMAIN v5 : Len(v5[r]) # Debaters => r = Len(v5) /\ v2 # "ample"
  BY <1>1 DEF Deb!RoundsWhole
<1>3. CASE v2 = "ample" /\ Len(v5) < MaxRounds
  <2>1. v1' = "turn" /\ v5' = Append(v5, <<>>) /\ v7' = 0
    BY <1>3 DEF Deb!Round
  <2>2. <<>> \in Seq(BOOLEAN) /\ Len(<<>>) = 0
    OBVIOUS
  <2>3. /\ v5' \in Seq(Seq(BOOLEAN)) /\ Len(v5') = Len(v5) + 1 /\ v5' # <<>>
        /\ \A r \in 1 .. Len(v5) : v5'[r] = v5[r]
        /\ v5'[Len(v5) + 1] = <<>>
    BY <1>1, <2>1, <2>2
  <2>4. \A r \in DOMAIN v5' : v5'[r] \in Deb!BoundedSeq(BOOLEAN, Debaters)
    <3>1. \A r \in DOMAIN v5 : v5[r] \in Seq(BOOLEAN) /\ Len(v5[r]) <= Debaters
      BY <1>1, RoundFits DEF Deb!TypeOK
    <3>2. ASSUME NEW r \in DOMAIN v5'
          PROVE  v5'[r] \in Seq(BOOLEAN) /\ Len(v5'[r]) <= Debaters
      <4>1. r \in 1 .. Len(v5) \/ r = Len(v5) + 1
        BY <1>1, <2>3
      <4>2. CASE r \in 1 .. Len(v5)
        <5>1. r \in DOMAIN v5
          BY <1>1, <4>2
        <5>. QED
          BY <2>3, <3>1, <4>2, <5>1
      <4>3. CASE r = Len(v5) + 1
        BY <2>2, <2>3, <4>3, DebateConstants
      <4>. QED
        BY <4>1, <4>2, <4>3
    <3>. QED
      BY <3>2, RoundFits
  <2>5. Deb!TypeOK'
    <3>1. Len(v5') <= MaxRounds /\ v7' \in 0 .. v6'
      BY <1>1, <1>3, <2>1, <2>3, DebateConstants DEF Deb!TypeOK
    <3>. QED
      BY <1>1, <2>1, <2>4, <3>1 DEF Deb!TypeOK
  <2>6. \A r \in 1 .. Len(v5') - 1 : Len(v5'[r]) = Debaters
    <3>1. Len(v5') - 1 = Len(v5) /\ DOMAIN v5 = 1 .. Len(v5)
      BY <1>1, <2>3
    <3>2. \A r \in 1 .. Len(v5) : Len(v5[r]) = Debaters
      BY <1>2, <1>3, <3>1
    <3>. QED
      BY <2>3, <3>1, <3>2
  <2>7. Deb!MayLose => Deb!MayLose'
    <3>0. DOMAIN v5 = 1 .. Len(v5) /\ DOMAIN v5' = 1 .. Len(v5) + 1
      BY <1>1, <2>3
    <3>1. \A r \in DOMAIN v5 : r \in DOMAIN v5' /\ v5'[r] = v5[r]
      <4>. HIDE DEF Deb!DebateInv
      <4>. QED
        BY <1>1, <2>3, <3>0
    <3>. QED
      BY <1>1, <3>1 DEF Deb!MayLose
  <2>. QED
    BY <1>1, <2>1, <2>3, <2>5, <2>6, <2>7
       DEF Deb!RoundsWhole, Deb!ShortDebateIsAgreed, Deb!AnswersCommitted
<1>4. CASE ~(v2 = "ample" /\ Len(v5) < MaxRounds)
  <2>1. v1' = "synthesis" /\ UNCHANGED <<v5, v7>>
    BY <1>4 DEF Deb!Round
  <2>2. Deb!TypeOK'
    BY <1>1, <2>1 DEF Deb!TypeOK
  <2>3. Deb!RoundsWhole'
    BY <1>1, <1>2, <2>1 DEF Deb!RoundsWhole
  <2>4. Deb!ShortDebateIsAgreed'
    <3>1. v2 # "ample" \/ Len(v5) = MaxRounds
      BY <1>1, <1>4, DebateConstants DEF Deb!TypeOK
    <3>. QED
      BY <1>1, <2>1, <3>1 DEF Deb!ShortDebateIsAgreed
  <2>5. Deb!MayLose' = Deb!MayLose
    BY <1>1, <2>1, DebateSameLosses
  <2>. QED
    BY <1>1, <2>1, <2>2, <2>3, <2>4, <2>5 DEF Deb!AnswersCommitted
<1>. QED
  BY <1>3, <1>4

(* One more turn of the round. *)
LEMMA DebateTurns ==
  ASSUME Deb!DebateInv, Deb!Turn
  PROVE  Deb!DebateInv'
<1>. USE DEF Deb!DebateInv
<1>1. PICK clean \in BOOLEAN, c \in Deb!Cost, d \in Deb!Cost :
        /\ d > 0 => ~clean
        /\ v5' = [v5 EXCEPT ![Len(v5)] = Append(@, clean)]
        /\ v6' = v6 + c
        /\ v7' = IF clean THEN v7 + c ELSE v7
        /\ v13' = v13 + c + d
        /\ v14' = v14 + d
  BY DEF Deb!Turn, Deb!Spend
<1>2. /\ Deb!TypeOK /\ v1 = "turn" /\ v8 = 0 /\ v10.cost = 0 /\ v11 = 0
      /\ v5 \in Seq(Seq(BOOLEAN)) /\ v5 # <<>>
      /\ ~Deb!RoundOver
      /\ UNCHANGED <<v1, v2, v3, v4, v8, v9, v10, v11, v12, v15>>
  BY DEF Deb!Turn, Deb!given, Deb!verdict
<1>. DEFINE n == Len(v5)
            last == v5[n]
<1>3. n \in Nat \ {0} /\ n \in DOMAIN v5 /\ DOMAIN v5 = 1 .. n
  BY <1>2
<1>4. /\ \A r \in DOMAIN v5 : v5[r] \in Seq(BOOLEAN) /\ Len(v5[r]) <= Debaters
      /\ \A r \in 1 .. n - 1 : Len(v5[r]) = Debaters
  BY <1>2, RoundFits DEF Deb!TypeOK
<1>5. last \in Seq(BOOLEAN) /\ Len(last) \in Nat /\ Len(last) < Debaters
  <2>1. Deb!Last(v5) = last
    BY DEF Deb!Last
  <2>2. Len(last) # Debaters
    BY <1>2, <2>1 DEF Deb!RoundOver
  <2>3. last \in Seq(BOOLEAN) /\ Len(last) <= Debaters
    BY <1>3, <1>4
  <2>4. Len(last) \in Nat
    BY <2>3
  <2>. HIDE DEF last
  <2>. QED
    BY <2>2, <2>3, <2>4, DebateConstants
<1>6. Append(last, clean) \in Seq(BOOLEAN) /\ Len(Append(last, clean)) = Len(last) + 1
  <2>. HIDE DEF last
  <2>. QED
    BY <1>5
<1>7. /\ v5' \in Seq(Seq(BOOLEAN)) /\ Len(v5') = n /\ v5' # <<>>
      /\ v5'[n] = Append(last, clean)
      /\ \A r \in 1 .. n - 1 : v5'[r] = v5[r]
  <2>1. v5' = [v5 EXCEPT ![n] = Append(last, clean)]
    BY <1>1
  <2>. HIDE DEF last
  <2>2. DOMAIN v5' = 1 .. n /\ \A r \in 1 .. n : v5'[r] \in Seq(BOOLEAN)
    BY <1>2, <1>3, <1>4, <1>6, <2>1
  <2>3. v5' = [r \in 1 .. n |-> v5'[r]]
    BY <1>3, <2>1
  <2>4. v5' \in Seq(Seq(BOOLEAN)) /\ Len(v5') = n
    <3>1. v5' \in [1 .. n -> Seq(BOOLEAN)]
      BY <2>2, <2>3
    <3>. QED
      BY <1>3, <3>1, FunctionIsSeq
  <2>5. v5'[n] = Append(last, clean) /\ \A r \in 1 .. n - 1 : v5'[r] = v5[r]
    <3>1. \A r \in 1 .. n - 1 : r \in DOMAIN v5 /\ r # n
      <4>1. \A m \in Nat : \A r \in 1 .. m - 1 : r \in 1 .. m /\ r # m
        OBVIOUS
      <4>. HIDE DEF n
      <4>. QED
        BY <1>3, <4>1
    <3>. HIDE DEF n
    <3>. QED
      BY <1>3, <2>1, <3>1
  <2>6. v5' # <<>>
    BY <1>3, <2>4
  <2>. QED
    BY <2>4, <2>5, <2>6
<1>8. \A r \in DOMAIN v5' : v5'[r] \in Deb!BoundedSeq(BOOLEAN, Debaters)
  <2>. HIDE DEF last
  <2>1. Len(Append(last, clean)) <= Debaters
    BY <1>5, <1>6, DebateConstants
  <2>2. ASSUME NEW r \in DOMAIN v5' PROVE v5'[r] \in Seq(BOOLEAN) /\ Len(v5'[r]) <= Debaters
    <3>1. r = n \/ r \in 1 .. n - 1
      <4>1. r \in 1 .. n /\ n \in Nat
        BY <1>3, <1>7
      <4>. HIDE DEF n
      <4>. QED
        BY <4>1
    <3>2. CASE r = n
      BY <1>6, <1>7, <2>1, <3>2
    <3>3. CASE r \in 1 .. n - 1
      <4>1. r \in DOMAIN v5
        BY <1>3, <3>3
      <4>2. v5'[r] = v5[r]
        BY <1>7, <3>3
      <4>. QED
        BY <1>4, <4>1, <4>2
    <3>. QED
      BY <3>1, <3>2, <3>3
  <2>. QED
    BY <2>2, RoundFits
<1>9. /\ c \in Nat /\ d \in Nat /\ v6 \in Nat /\ v7 \in Nat /\ v7 <= v6 /\ v13 \in Nat
      /\ v9 \in Nat /\ v14 \in Nat
  BY <1>2, DebateConstants DEF Deb!TypeOK, Deb!Cost
<1>10. /\ v6' \in Nat /\ v7' \in 0 .. v6' /\ v13' \in Nat /\ v14' \in Nat
       /\ v13' = v6' + v10'.cost + v11' + v9' + v14'
  <2>1. v13 = v6 + 0 + 0 + v9 + v14
    BY <1>2
  <2>. QED
    BY <1>1, <1>2, <1>9, <2>1
<1>. HIDE DEF last
<1>11. Deb!TypeOK'
  BY <1>2, <1>7, <1>8, <1>10 DEF Deb!TypeOK
<1>12. \A r \in 1 .. Len(v5') - 1 : Len(v5'[r]) = Debaters
  BY <1>4, <1>7
<1>13. /\ Deb!MayLose => Deb!MayLose'
       /\ v14' > 0 => v14 > 0 \/ Deb!MayLose'
  <2>1. \A r \in DOMAIN v5 : r = n \/ r \in 1 .. n - 1
    <3>. HIDE DEF n
    <3>. QED
      BY <1>3
  <2>2. DOMAIN v5' = DOMAIN v5
    BY <1>3, <1>7
  <2>3. \A i \in DOMAIN last : i \in DOMAIN v5'[n] /\ v5'[n][i] = last[i]
    BY <1>5, <1>6, <1>7
  <2>4. ASSUME NEW r \in DOMAIN v5, NEW i \in DOMAIN v5[r]
        PROVE  i \in DOMAIN v5'[r] /\ v5'[r][i] = v5[r][i]
    <3>1. CASE r = n
      BY <2>3, <3>1 DEF last
    <3>2. CASE r \in 1 .. n - 1
      BY <1>7, <3>2
    <3>. QED
      BY <2>1, <3>1, <3>2
  <2>5. Len(last) + 1 \in DOMAIN v5'[n] /\ v5'[n][Len(last) + 1] = clean
    BY <1>5, <1>6, <1>7
  <2>6. ~clean => Deb!MayLose'
    BY <1>3, <2>2, <2>5 DEF Deb!MayLose
  <2>7. Deb!MayLose => Deb!MayLose'
    BY <1>2, <2>2, <2>4 DEF Deb!MayLose
  <2>8. d > 0 \/ v14' = v14
    BY <1>1, <1>9
  <2>. QED
    BY <1>1, <2>6, <2>7, <2>8
<1>. QED
  BY <1>2, <1>7, <1>10, <1>11, <1>12, <1>13
     DEF Deb!RoundsWhole, Deb!ShortDebateIsAgreed, Deb!AnswersCommitted

(* The round is over. *)
LEMMA DebateRoundEnds ==
  ASSUME Deb!DebateInv, Deb!EndRound
  PROVE  Deb!DebateInv'
<1>. USE DEF Deb!DebateInv
<1>1. /\ Deb!TypeOK /\ v1 = "turn" /\ v1' = "judge" /\ Deb!RoundOver /\ v5 # <<>>
      /\ v5 \in Seq(Seq(BOOLEAN))
      /\ \A r \in 1 .. Len(v5) - 1 : Len(v5[r]) = Debaters
      /\ UNCHANGED <<v2, v3, v4, v5, v6, v7, v8, v9, v10,
                     v11, v12, v13, v14, v15>>
  BY DEF Deb!EndRound, Deb!given, Deb!transcript, Deb!verdict, Deb!ledger
<1>2. Deb!TypeOK'
  BY <1>1 DEF Deb!TypeOK
<1>3. Deb!RoundsWhole'
  <2>1. Deb!Last(v5) = v5[Len(v5)]
    BY DEF Deb!Last
  <2>2. v2 # "ample" \/ Len(v5[Len(v5)]) = Debaters
    BY <1>1, <2>1 DEF Deb!RoundOver
  <2>3. \A r \in DOMAIN v5 : r = Len(v5) \/ r \in 1 .. Len(v5) - 1
    BY <1>1
  <2>. QED
    BY <1>1, <2>2, <2>3 DEF Deb!RoundsWhole
<1>4. Deb!MayLose' = Deb!MayLose
  BY <1>1, DebateSameLosses
<1>. QED
  BY <1>1, <1>2, <1>3, <1>4 DEF Deb!ShortDebateIsAgreed, Deb!AnswersCommitted

(* The verdict on a round, or none. *)
LEMMA DebateJudgeKeeps ==
  ASSUME Deb!DebateInv, Deb!Judge \/ Deb!SkipJudge
  PROVE  Deb!DebateInv'
<1>. USE DEF Deb!DebateInv
<1>1. /\ Deb!TypeOK /\ v1 = "judge" /\ v5 # <<>> /\ v5 \in Seq(Seq(BOOLEAN)) /\ v8 = 0
      /\ v10.cost = 0 /\ v11 = 0
      /\ UNCHANGED <<v2, v3, v4, v5, v6, v7, v10, v11, v12, v15>>
      /\ v14 > 0 => Deb!MayLose
  BY DEF Deb!Judge, Deb!SkipJudge, Deb!given, Deb!transcript, Deb!verdict, Deb!ledger
<1>2. PICK c \in Deb!Cost, d \in Deb!Cost, yes \in BOOLEAN :
        /\ v9' = v9 + c /\ v13' = v13 + c + d /\ v14' = v14 + d
        /\ d > 0 => v3.early
        /\ yes => /\ v8' = Len(v5) /\ v1' = "synthesis"
                  /\ Len(v5) < MaxRounds /\ Deb!Clean(Deb!Last(v5)) >= 2
        /\ ~yes => v8' = 0 /\ v1' = "round"
  <2>1. CASE Deb!Judge
    BY <2>1 DEF Deb!Judge, Deb!MayJudge, Deb!Spend
  <2>2. CASE Deb!SkipJudge
    <3>1. /\ 0 \in Deb!Cost /\ v9' = v9 + 0 /\ v13' = v13 + 0 + 0 /\ v14' = v14 + 0
          /\ v8' = 0 /\ v1' = "round" /\ ~(0 > 0)
      BY <1>1, <2>2, DebateConstants
         DEF Deb!SkipJudge, Deb!verdict, Deb!ledger, Deb!TypeOK, Deb!Cost
    <3>. QED
      BY <3>1
  <2>. QED
    BY <2>1, <2>2
<1>3. /\ c \in Nat /\ d \in Nat /\ v6 \in Nat /\ v13 \in Nat /\ v9 \in Nat /\ v14 \in Nat
      /\ Len(v5) \in Nat
  BY <1>1, DebateConstants DEF Deb!TypeOK, Deb!Cost
<1>4. /\ v9' \in Nat /\ v13' \in Nat /\ v14' \in Nat
      /\ v13' = v6' + v10'.cost + v11' + v9' + v14'
  <2>1. v13 = v6 + 0 + 0 + v9 + v14
    BY <1>1
  <2>2. v10'.cost = 0 /\ v11' = 0 /\ v6' = v6
    BY <1>1
  <2>3. v9' = v9 + c /\ v13' = v13 + c + d /\ v14' = v14 + d
    BY <1>2
  <2>. HIDE DEF Deb!DebateInv
  <2>. QED
    BY <1>3, <2>1, <2>2, <2>3
<1>5. Deb!TypeOK'
  <2>1. v8' \in 0 .. MaxRounds
    BY <1>2, <1>3, DebateConstants
  <2>2. v1' \in {"synthesis", "round"}
    BY <1>2
  <2>. QED
    BY <1>1, <1>4, <2>1, <2>2 DEF Deb!TypeOK
<1>6. Deb!RoundsWhole'
  BY <1>1, <1>2 DEF Deb!RoundsWhole
<1>7. (Deb!Last(v5))' = Deb!Last(v5) /\ Deb!Clean(Deb!Last(v5))' = Deb!Clean(Deb!Last(v5))
  BY <1>1 DEF Deb!Clean, Deb!Last
<1>8. Deb!ShortDebateIsAgreed'
  BY <1>1, <1>2, <1>7 DEF Deb!ShortDebateIsAgreed
<1>9. v14' > 0 => Deb!MayLose'
  <2>1. Deb!MayLose' = Deb!MayLose /\ (v3.early => Deb!MayLose)
    BY <1>1, DebateSameLosses DEF Deb!MayLose
  <2>2. d > 0 \/ v14' = v14
    BY <1>2, <1>3
  <2>. QED
    BY <1>1, <1>2, <2>1, <2>2
<1>. QED
  BY <1>1, <1>2, <1>4, <1>5, <1>6, <1>8, <1>9 DEF Deb!AnswersCommitted

(* The synthesis and the claims. *)
LEMMA DebateEndKeeps ==
  ASSUME Deb!DebateInv, Deb!Synthesize \/ Deb!SkipSynthesis \/ Deb!Extract \/ Deb!SkipExtract
  PROVE  Deb!DebateInv'
<1>. USE DEF Deb!DebateInv
<1>1. /\ Deb!TypeOK /\ v1 \in {"synthesis", "claims"} /\ v11 = 0
      /\ v1 = "synthesis" => v10.cost = 0
      /\ UNCHANGED <<v2, v3, v4, v5, v6, v7, v8, v9, v12, v15>>
      /\ v5 \in Seq(Seq(BOOLEAN))
  BY DEF Deb!Synthesize, Deb!SkipSynthesis, Deb!Extract, Deb!SkipExtract, Deb!given,
         Deb!transcript, Deb!verdict, Deb!ledger
<1>2. PICK draft \in Deb!Cost, c \in Deb!Cost :
        /\ v14' = v14 + draft
        /\ v13' = v13 + c + draft
        /\ \/ /\ v1 = "synthesis" /\ v1' = "claims" /\ v11' = v11
              /\ v10' \in [cost : Deb!Cost, parsed : BOOLEAN] /\ v10'.cost = c
              /\ draft > 0 => v3.structured \/ c = 0
           \/ /\ v1 = "claims" /\ v1' = "commit" /\ v11' = c /\ UNCHANGED v10
              /\ draft > 0 => v3.claims
  <2>1. CASE Deb!Synthesize
    <3>1. PICK c \in Deb!Cost, d \in Deb!Cost, parsed \in BOOLEAN :
            /\ ~v3.structured => c = 0 \/ d = 0
            /\ v10' = [cost |-> c, parsed |-> parsed]
            /\ v13' = v13 + c + d /\ v14' = v14 + d
      BY <2>1 DEF Deb!Synthesize, Deb!Spend
    <3>2. v10' \in [cost : Deb!Cost, parsed : BOOLEAN] /\ v10'.cost = c
      BY <3>1
    <3>3. v1 = "synthesis" /\ v1' = "claims" /\ v11' = v11
      BY <2>1 DEF Deb!Synthesize
    <3>4. d > 0 => d # 0
      BY DebateConstants DEF Deb!Cost
    <3>. QED
      BY <3>1, <3>2, <3>3, <3>4
  <2>2. CASE Deb!Extract
    BY <2>2 DEF Deb!Extract, Deb!Spend, Deb!MayExtract
  <2>3. CASE Deb!SkipSynthesis \/ Deb!SkipExtract
    <3>1. /\ 0 \in Deb!Cost /\ v14' = v14 + 0 /\ v13' = v13 + 0 + 0
          /\ UNCHANGED <<v10, v11>> /\ ~(0 > 0)
          /\ v10 \in [cost : Deb!Cost, parsed : BOOLEAN]
      BY <1>1, <2>3, DebateConstants
         DEF Deb!SkipSynthesis, Deb!SkipExtract, Deb!ledger, Deb!TypeOK, Deb!Cost
    <3>2. \/ v1 = "synthesis" /\ v1' = "claims"
          \/ v1 = "claims" /\ v1' = "commit"
      BY <2>3 DEF Deb!SkipSynthesis, Deb!SkipExtract
    <3>. QED
      BY <1>1, <3>1, <3>2
  <2>. QED
    BY <2>1, <2>2, <2>3
<1>3. /\ c \in Nat /\ draft \in Nat /\ v6 \in Nat /\ v13 \in Nat /\ v9 \in Nat
      /\ v14 \in Nat /\ v10.cost \in Nat
  BY <1>1, DebateConstants DEF Deb!TypeOK, Deb!Cost
<1>4. v13' = v6' + v10'.cost + v11' + v9' + v14'
      /\ v13' \in Nat /\ v14' \in Nat
  <2>1. v13 = v6 + v10.cost + 0 + v9 + v14
    BY <1>1
  <2>2. CASE v1 = "synthesis"
    <3>1. v10'.cost = c /\ v11' = 0 /\ v10.cost = 0
      BY <1>1, <1>2, <2>2
    <3>. QED
      BY <1>1, <1>2, <1>3, <2>1, <3>1
  <2>3. CASE v1 = "claims"
    <3>1. v11' = c /\ v10'.cost = v10.cost
      BY <1>1, <1>2, <2>3
    <3>2. /\ v14' = v14 + draft /\ v13' = v13 + c + draft
          /\ v9' = v9 /\ v6' = v6
      BY <1>1, <1>2
    <3>. HIDE DEF Deb!DebateInv
    <3>. QED
      BY <1>3, <2>1, <3>1, <3>2
  <2>. QED
    BY <1>1, <2>2, <2>3
<1>5. Deb!TypeOK'
  <2>1. v11' \in Deb!Cost /\ v10' \in [cost : Deb!Cost, parsed : BOOLEAN]
        /\ v1' \in {"claims", "commit"}
    BY <1>1, <1>2 DEF Deb!TypeOK
  <2>. QED
    BY <1>1, <1>4, <2>1 DEF Deb!TypeOK
<1>6. Deb!RoundsWhole'
  BY <1>1, <1>2 DEF Deb!RoundsWhole
<1>7. (Deb!Last(v5))' = Deb!Last(v5) /\ Deb!Clean(Deb!Last(v5))' = Deb!Clean(Deb!Last(v5))
  BY <1>1 DEF Deb!Clean, Deb!Last
<1>8. Deb!ShortDebateIsAgreed'
  BY <1>1, <1>2, <1>7 DEF Deb!ShortDebateIsAgreed
<1>9. v14' > 0 => Deb!MayLose' \/ v10'.cost = 0
  <2>1. /\ Deb!MayLose' = Deb!MayLose
        /\ v3.structured \/ v3.claims => Deb!MayLose
    BY <1>1, DebateSameLosses DEF Deb!MayLose
  <2>2. draft > 0 \/ v14' = v14
    BY <1>2, <1>3
  <2>3. v1 # "raised" /\ (v14 > 0 => Deb!MayLose \/ v10.cost = 0)
    BY <1>1
  <2>4. v14' = v14 /\ v14 > 0 /\ ~Deb!MayLose => v1 = "claims" /\ v10.cost = 0
    BY <1>1
  <2>. HIDE DEF Deb!DebateInv
  <2>. QED
    BY <1>2, <2>1, <2>2, <2>3, <2>4
<1>. QED
  BY <1>1, <1>2, <1>4, <1>5, <1>6, <1>8, <1>9 DEF Deb!AnswersCommitted

(* A request raises. *)
LEMMA DebateRaises ==
  ASSUME Deb!DebateInv, Deb!Raise
  PROVE  Deb!DebateInv'
<1>. USE DEF Deb!DebateInv
<1>1. /\ Deb!TypeOK /\ v1' = "raised" /\ v5 \in Seq(Seq(BOOLEAN))
      /\ UNCHANGED <<v2, v3, v4, v5, v6, v7, v8, v9, v10, v11, v12, v15>>
      /\ v13 = v6 + v10.cost + v11 + v9 + v14
  BY DEF Deb!Raise, Deb!given, Deb!transcript, Deb!verdict
<1>2. PICK d \in Deb!Cost : v13' = v13 + 0 + d /\ v14' = v14 + d
  BY DEF Deb!Raise, Deb!Spend
<1>3. /\ d \in Nat /\ v6 \in Nat /\ v13 \in Nat /\ v9 \in Nat /\ v14 \in Nat
      /\ v10.cost \in Nat /\ v11 \in Nat
  BY <1>1, DebateConstants DEF Deb!TypeOK, Deb!Cost
<1>4. /\ v13' = v6' + v10'.cost + v11' + v9' + v14'
      /\ v13' \in Nat /\ v14' \in Nat
  <2>1. v6' = v6 /\ v10'.cost = v10.cost /\ v11' = v11 /\ v9' = v9
    BY <1>1
  <2>2. v13 = v6 + v10.cost + v11 + v9 + v14
    BY <1>1
  <2>. HIDE DEF Deb!DebateInv
  <2>. QED
    BY <1>2, <1>3, <2>1, <2>2
<1>5. Deb!TypeOK'
  BY <1>1, <1>4 DEF Deb!TypeOK
<1>. QED
  BY <1>1, <1>4, <1>5 DEF Deb!RoundsWhole, Deb!ShortDebateIsAgreed, Deb!AnswersCommitted

(* The commit records all that the answers report, and what is kept after  *)
(* it changes no record.                                                   *)
LEMMA DebateLeaves ==
  ASSUME Deb!DebateInv, Deb!Commit \/ Deb!Keep \/ Deb!Answer
  PROVE  Deb!DebateInv'
<1>1. /\ Deb!TypeOK /\ v1' \in {"persist", "done"} /\ v5 \in Seq(Seq(BOOLEAN))
      /\ UNCHANGED <<v2, v3, v4, v5, v6, v7, v8, v9, v10,
                     v11, v13, v14>>
      /\ v1 \in {"commit", "persist"}
      /\ v12' \in 0 .. MaxClaims
  <2>1. Deb!TypeOK /\ v5 \in Seq(Seq(BOOLEAN))
    BY DEF Deb!DebateInv
  <2>2. /\ v1' \in {"persist", "done"} /\ v1 \in {"commit", "persist"}
        /\ UNCHANGED <<v2, v3, v4, v5, v6, v7, v8, v9, v10,
                       v11, v13, v14>>
    BY <2>1
       DEF Deb!Commit, Deb!Keep, Deb!Answer, Deb!given, Deb!transcript, Deb!verdict, Deb!ledger,
           Deb!TypeOK
  <2>3. v12 \in 0 .. MaxClaims
    BY <2>1 DEF Deb!TypeOK
  <2>4. v12' = v12 \/ (v12 < MaxClaims /\ v12' = v12 + 1)
    <3>1. Deb!Commit \/ Deb!Answer => v12' = v12
      BY DEF Deb!Commit, Deb!Answer
    <3>2. Deb!Keep => v12 < MaxClaims /\ v12' = v12 + 1
      BY DEF Deb!Keep
    <3>. QED
      BY <3>1, <3>2
  <2>5. v12' \in 0 .. MaxClaims
    BY <2>3, <2>4, DebateConstants
  <2>. QED
    BY <2>1, <2>2, <2>5
<1>. USE DEF Deb!DebateInv
<1>2. Deb!MayLose' = Deb!MayLose
  BY <1>1, DebateSameLosses
<1>3. v15' \in Nat /\ Deb!AnswersCommitted'
  <2>1. CASE Deb!Commit
    <3>1. /\ v6 \in Nat /\ v10.cost \in Nat /\ v11 \in Nat /\ v9 \in Nat
          /\ v14 \in Nat
      BY <1>1, DebateConstants DEF Deb!TypeOK, Deb!Cost
    <3>2. v15' = v6 + v10.cost + v11 + v9
      BY <2>1 DEF Deb!Commit
    <3>3. v13 = v6 + v10.cost + v11 + v9 + v14
      OBVIOUS
    <3>4. v14 > 0 => Deb!MayLose \/ v10.cost = 0
      <4>1. v1 = "commit"
        BY <2>1 DEF Deb!Commit
      <4>. QED
        BY <4>1
    <3>5. v15' \in Nat /\ v15' + v14' = v13'
      <4>. HIDE DEF Deb!DebateInv
      <4>. QED
        BY <1>1, <3>1, <3>2, <3>3
    <3>. QED
      BY <1>1, <1>2, <3>4, <3>5 DEF Deb!AnswersCommitted
  <2>2. CASE Deb!Keep \/ Deb!Answer
    <3>1. v15' = v15 /\ v1 = "persist"
      BY <2>2 DEF Deb!Keep, Deb!Answer, Deb!ledger
    <3>. QED
      BY <1>1, <1>2, <3>1 DEF Deb!AnswersCommitted, Deb!TypeOK
  <2>. QED
    BY <2>1, <2>2
<1>4. Deb!TypeOK'
  BY <1>1, <1>3 DEF Deb!TypeOK
<1>5. Deb!RoundsWhole'
  BY <1>1 DEF Deb!RoundsWhole
<1>6. (Deb!Last(v5))' = Deb!Last(v5) /\ Deb!Clean(Deb!Last(v5))' = Deb!Clean(Deb!Last(v5))
  BY <1>1 DEF Deb!Clean, Deb!Last
<1>7. Deb!ShortDebateIsAgreed'
  BY <1>1, <1>6 DEF Deb!ShortDebateIsAgreed
<1>. QED
  BY <1>1, <1>2, <1>3, <1>4, <1>5, <1>7

(* Every step of debate keeps its invariant. *)
LEMMA DebateStep == Deb!DebateInv /\ Deb!Next => Deb!DebateInv'
BY DebateEnters, DebateRounds, DebateTurns, DebateRoundEnds, DebateJudgeKeeps, DebateEndKeeps,
   DebateRaises, DebateLeaves
   DEF Deb!Next, Deb!Run, Deb!Stopped

-----------------------------------------------------------------------------
(* coordinate.                                                             *)

(* What coordinate is called with. *)
LEMMA CoordinateConstants ==
  /\ IsFiniteSet(Provider) /\ Moderator \in Provider /\ Allowed \subseteq Provider
  /\ SessionCap \in Nat /\ AnswerCost \in Nat
BY ConstantsFit DEF Coord!CoordinateAssumption, Coord!IsFiniteSet, IsFiniteSet

(* Sums are the same in the instance. *)
LEMMA CoordinateSums == \A f, S : Coord!SumFunctionOnSet(f, S) = SumFunctionOnSet(f, S)
BY DEF Coord!SumFunctionOnSet, SumFunctionOnSet, Coord!FoldFunctionOnSet, FoldFunctionOnSet,
       Coord!MapThenFoldSet, MapThenFoldSet

(* What the answer of the proposer changes of the costs. *)
LEMMA ProposerCosts ==
  ASSUME NEW r \in [proposer : Nat, critic : [Provider -> Nat], synth : Nat], NEW x \in Nat
  PROVE  /\ [r EXCEPT !.proposer = x] \in
              [proposer : Nat, critic : [Provider -> Nat], synth : Nat]
         /\ [r EXCEPT !.proposer = x].proposer = x
         /\ [r EXCEPT !.proposer = x].critic = r.critic
         /\ [r EXCEPT !.proposer = x].synth = r.synth
BY Zenon

(* What the answer of the synthesizer changes of them. *)
LEMMA SynthCosts ==
  ASSUME NEW r \in [proposer : Nat, critic : [Provider -> Nat], synth : Nat], NEW x \in Nat
  PROVE  /\ [r EXCEPT !.synth = x] \in [proposer : Nat, critic : [Provider -> Nat], synth : Nat]
         /\ [r EXCEPT !.synth = x].synth = x
         /\ [r EXCEPT !.synth = x].critic = r.critic
         /\ [r EXCEPT !.synth = x].proposer = r.proposer
BY Zenon

(* What the answer of a critic changes of them. *)
LEMMA CriticCosts ==
  ASSUME NEW r \in [proposer : Nat, critic : [Provider -> Nat], synth : Nat], NEW x \in Nat,
         NEW p \in Provider
  PROVE  /\ [r EXCEPT !.critic[p] = x] \in
              [proposer : Nat, critic : [Provider -> Nat], synth : Nat]
         /\ [r EXCEPT !.critic[p] = x].critic = [r.critic EXCEPT ![p] = x]
         /\ [r EXCEPT !.critic[p] = x].proposer = r.proposer
         /\ [r EXCEPT !.critic[p] = x].synth = r.synth
BY Zenon

(* Coordinate begins with nobody asked and nothing paid. *)
LEMMA CoordinateStarts == Coord!Init => Coord!CoordinateInv
<1>. SUFFICES ASSUME Coord!Init PROVE Coord!CoordinateInv
  OBVIOUS
<1>1. /\ v8 \in [proposer : Nat, critic : [Provider -> Nat], synth : Nat]
      /\ v8.proposer = 0 /\ v8.synth = 0 /\ v8.critic = [p \in Provider |-> 0]
  BY DEF Coord!Init, Coord!NoCost
<1>2. /\ v4 \in [proposer : Provider, synth : Provider, critics : SUBSET Provider]
      /\ v4.critics = {}
  BY CoordinateConstants DEF Coord!Init, Coord!Nobody
<1>3. /\ v5 = [p \in Provider |-> "none"] /\ v7 = [p \in Provider |-> "none"]
      /\ v6 = "none" /\ v9 = {} /\ v10 = 0 /\ v11 = 0 /\ v12 = 0
      /\ v1 = "roles" /\ v2 \in [named : BOOLEAN, critics : BOOLEAN, tools : BOOLEAN]
      /\ v3 \in 0 .. SessionCap
  BY DEF Coord!Init
<1>4. v5 \in [Provider -> {"none", "queued", "asking", "raised"} \union Coord!Outcome]
      /\ v7 \in [Provider -> {"none"} \union Coord!Outcome]
  BY <1>3
<1>5. Coord!TypeOK
  BY <1>1, <1>2, <1>3, <1>4 DEF Coord!TypeOK
<1>6. Coord!SumFunctionOnSet(v8.critic, Provider) = 0
  <2>1. \A f : (\A p \in Provider : f[p] = 0) => SumFunctionOnSet(f, Provider) = 0
    BY SumOfZeros, CoordinateConstants
  <2>2. \A p \in Provider : v8.critic[p] = 0
    BY <1>1
  <2>. QED
    BY <2>1, <2>2, CoordinateSums
<1>. QED
  BY <1>1, <1>2, <1>3, <1>5, <1>6
     DEF Coord!CoordinateInv, Coord!DefaultCriticsAreOthers, Coord!BallotsOfWholeRound,
         Coord!Joined, Coord!Answered, Coord!AnswersCommitted, Coord!LossBound

(* What may be lost at most does not grow before the synthesis.            *)
LEMMA LossStays ==
  ASSUME Coord!LossBound, v11 \in Nat, UNCHANGED <<v11, v2>>,
         Coord!AllMerged' => Coord!AllMerged,
         v1 \in {"commit", "done"} => v1' \in {"commit", "done"}
  PROVE  Coord!LossBound'
BY CoordinateConstants DEF Coord!LossBound

(* The roles are chosen, or the call refused; or nothing happens. *)
LEMMA RolesKeep ==
  ASSUME Coord!CoordinateInv,
         Coord!Roles \/ Coord!RefuseRoles \/ Coord!Enter \/ Coord!Gather \/ UNCHANGED Coord!vars
  PROVE  Coord!CoordinateInv'
<1>. USE DEF Coord!CoordinateInv
<1>1. /\ Coord!TypeOK
      /\ UNCHANGED <<v2, v3, v5, v7, v6, v8, v9, v10, v11, v12>>
      /\ Coord!Answered' = Coord!Answered /\ Coord!Joined' = Coord!Joined
  BY DEF Coord!Roles, Coord!RefuseRoles, Coord!Enter, Coord!Gather, Coord!vars, Coord!request,
         Coord!pool, Coord!Answered, Coord!Joined
<1>0. v11 \in Nat /\ Coord!AllMerged' = Coord!AllMerged
  BY <1>1 DEF Coord!TypeOK, Coord!AllMerged
<1>2. CASE Coord!Roles
  <2>0. Coord!LossBound'
    <3>1. v1 = "roles"
      BY <1>2 DEF Coord!Roles
    <3>. QED
      BY <1>0, <1>1, <3>1, LossStays
  <2>1. v1 = "roles" /\ v1' = "entry"
    BY <1>2 DEF Coord!Roles
  <2>2. PICK S \in SUBSET Allowed :
          \E proposer \in IF v2.named THEN Provider ELSE S,
             synth \in IF v2.named THEN Provider ELSE {Moderator} :
            \E C \in IF v2.critics THEN (SUBSET Provider) \ {{}}
                                    ELSE Coord!DefaultCritics(S, proposer, synth) :
              v4' = [proposer |-> proposer, synth |-> synth, critics |-> C]
    BY <1>2 DEF Coord!Roles
  <2>3. PICK proposer \in IF v2.named THEN Provider ELSE S,
             synth \in IF v2.named THEN Provider ELSE {Moderator} :
          \E C \in IF v2.critics THEN (SUBSET Provider) \ {{}}
                                  ELSE Coord!DefaultCritics(S, proposer, synth) :
            v4' = [proposer |-> proposer, synth |-> synth, critics |-> C]
    BY <2>2
  <2>4. PICK C \in IF v2.critics THEN (SUBSET Provider) \ {{}}
                                  ELSE Coord!DefaultCritics(S, proposer, synth) :
          v4' = [proposer |-> proposer, synth |-> synth, critics |-> C]
    BY <2>3
  <2>5. proposer \in Provider /\ synth \in Provider /\ S \subseteq Provider
    BY <2>3, CoordinateConstants
  <2>6. C \subseteq Provider /\ (~v2.critics => proposer \notin C)
    BY <2>4, <2>5 DEF Coord!DefaultCritics
  <2>7. /\ v4' \in [proposer : Provider, synth : Provider, critics : SUBSET Provider]
        /\ v4'.proposer = proposer /\ v4'.critics = C
    BY <2>4, <2>5, <2>6
  <2>8. Coord!TypeOK'
    BY <1>1, <2>1, <2>7 DEF Coord!TypeOK
  <2>9. Coord!DefaultCriticsAreOthers' /\ Coord!BallotsOfWholeRound'
    BY <1>1, <2>1, <2>6, <2>7 DEF Coord!DefaultCriticsAreOthers, Coord!BallotsOfWholeRound
  <2>. QED
    BY <1>1, <2>0, <2>1, <2>8, <2>9 DEF Coord!AnswersCommitted
<1>3. CASE Coord!RefuseRoles \/ Coord!Enter \/ Coord!Gather \/ UNCHANGED Coord!vars
  <2>1. UNCHANGED v4
    BY <1>3 DEF Coord!RefuseRoles, Coord!Enter, Coord!Gather, Coord!vars
  <2>2. \/ v1 = "roles" /\ v1' = "refused"
        \/ v1 = "entry" /\ v1' \in {"refused", "propose"}
        \/ /\ v1 = "critics" /\ Coord!Joined
           /\ v1' = IF \E p \in Provider : v5[p] = "raised" THEN "raised" ELSE "vote"
        \/ v1' = v1
    BY <1>3 DEF Coord!RefuseRoles, Coord!Enter, Coord!Gather, Coord!vars
  <2>0. Coord!LossBound'
    BY <1>0, <1>1, <2>2, LossStays
  <2>3. Coord!TypeOK'
    BY <1>1, <2>1, <2>2 DEF Coord!TypeOK
  <2>4. Coord!DefaultCriticsAreOthers' /\ Coord!BallotsOfWholeRound'
    BY <1>1, <2>1 DEF Coord!DefaultCriticsAreOthers, Coord!BallotsOfWholeRound
  <2>5. CASE v1' = "vote" /\ v1 = "critics" /\ Coord!Joined /\
               \A p \in Provider : v5[p] # "raised"
    <3>1. \A p \in v4.critics : p \in Provider /\ v5[p] \in Coord!Outcome
      BY <2>5, <1>1 DEF Coord!Joined, Coord!TypeOK
    <3>2. v4.critics \subseteq Coord!Answered
      BY <3>1 DEF Coord!Answered
    <3>3. v1 = "critics" /\ v1' = "vote"
      BY <2>2, <2>5
    <3>6. Coord!Joined' /\ v9' = {} /\ v8'.synth = 0
      <4>1. v9 = {} /\ v8.synth = 0
        BY <2>5
      <4>. HIDE DEF Coord!CoordinateInv
      <4>. QED
        BY <1>1, <2>5, <4>1
    <3>4. v4'.critics \subseteq Coord!Answered'
      BY <1>1, <2>1, <3>2
    <3>5. /\ \A p \in Provider : v5'[p] # "none" => p \in v4'.critics
          /\ \A p \in Provider : v5'[p] \notin {"none", "queued"} => v7'[p] = v6'
          /\ \A p \in Provider \ Coord!Answered' : v8'.critic[p] = 0
          /\ v10' = v8'.proposer + Coord!SumFunctionOnSet(v8'.critic, Provider)
                       + v8'.synth + v11'
      BY <1>1, <2>1, <2>5, <3>3
    <3>. QED
      BY <1>1, <2>0, <2>1, <2>3, <2>4, <2>5, <3>3, <3>4, <3>5, <3>6 DEF Coord!AnswersCommitted
  <2>6. CASE ~ (v1' = "vote" /\ v1 = "critics" /\ Coord!Joined /\
               \A p \in Provider : v5[p] # "raised")
    <3>1. \/ v1 = "roles" /\ v1' = "refused"
          \/ v1 = "entry" /\ v1' \in {"refused", "propose"}
          \/ /\ v1 = "critics" /\ Coord!Joined /\ v1' = "raised"
          \/ v1' = v1
      BY <2>2, <2>6
    <3>. QED
      BY <1>0, <1>1, <2>0, <2>1, <2>3, <2>4, <3>1 DEF Coord!AnswersCommitted
  <2>. QED
    BY <2>5, <2>6
<1>. QED
  BY <1>2, <1>3

(* What a structured request adds to what was paid and to what is lost. *)
LEMMA Spending ==
  ASSUME v10 \in Nat, v11 \in Nat, NEW c \in Nat, NEW d \in Nat,
         NEW o, NEW merged \in BOOLEAN, Coord!Spend(o, c, d, merged)
  PROVE  /\ v10' \in Nat /\ v11' \in Nat
         /\ v10' - v11' = (v10 - v11) + c
         /\ v10 = v11 => v10' = c + v11'
         /\ o = "structured" /\ merged => v11' = v11
<1>1. v10' = v10 + c + d /\ v11' = v11 + d /\ (o = "structured" /\ merged => d = 0)
  BY DEF Coord!Spend
<1>. QED
  BY <1>1

(* The proposal queues the critics. *)
LEMMA ProposeKeeps == ASSUME Coord!CoordinateInv, Coord!Propose PROVE Coord!CoordinateInv'
<1>1. /\ Coord!TypeOK /\ v1 = "propose" /\ v1' = "critics"
      /\ UNCHANGED <<v2, v3, v4, v7, v9, v12>>
      /\ v5' = [p \in Provider |-> IF p \in v4.critics THEN "queued" ELSE "none"]
  BY DEF Coord!CoordinateInv, Coord!Propose, Coord!request
<1>2. /\ v8 \in [proposer : Nat, critic : [Provider -> Nat], synth : Nat]
      /\ v8.proposer = 0 /\ v8.synth = 0 /\ v9 = {}
      /\ \A p \in Provider : v5[p] = "none"
      /\ Coord!DefaultCriticsAreOthers
      /\ v10 = v8.proposer + Coord!SumFunctionOnSet(v8.critic, Provider) + v8.synth + v11
      /\ v10 \in Nat /\ v11 \in Nat /\ v2.tools \in BOOLEAN
  BY <1>1 DEF Coord!CoordinateInv, Coord!TypeOK
<1>3. PICK o \in Coord!Outcome, c \in 0 .. AnswerCost, d \in 0 .. AnswerCost :
        /\ Coord!Spend(o, c, d, v2.tools)
        /\ v8' = [v8 EXCEPT !.proposer = c]
        /\ v6' = o
  BY DEF Coord!Propose
<1>4. c \in Nat /\ d \in Nat
  BY CoordinateConstants
<1>5. /\ v10' \in Nat /\ v11' \in Nat
      /\ v10 = v11 => v10' = c + v11'
      /\ o = "structured" /\ v2.tools => v11' = v11
  BY <1>2, <1>3, <1>4, Spending
<1>6. /\ v8' \in [proposer : Nat, critic : [Provider -> Nat], synth : Nat]
      /\ v8'.proposer = c
      /\ v8'.critic = v8.critic /\ v8'.synth = v8.synth
  BY <1>2, <1>3, <1>4, ProposerCosts
<1>7. v4 \in [proposer : Provider, synth : Provider, critics : SUBSET Provider]
  BY <1>1 DEF Coord!TypeOK
<1>8. /\ v5' \in [Provider -> {"none", "queued", "asking", "raised"} \union Coord!Outcome]
      /\ \A p \in Provider : v5'[p] = IF p \in v4.critics THEN "queued" ELSE "none"
  BY <1>1
<1>9. Coord!TypeOK'
  BY <1>1, <1>3, <1>5, <1>6, <1>8 DEF Coord!TypeOK
<1>10. \A p \in Provider : v8.critic[p] = 0
  BY <1>2 DEF Coord!CoordinateInv, Coord!Answered, Coord!Outcome
<1>11. Coord!SumFunctionOnSet(v8.critic, Provider) = 0
  <2>1. \A f : (\A p \in Provider : f[p] = 0) => SumFunctionOnSet(f, Provider) = 0
    BY SumOfZeros, CoordinateConstants
  <2>. QED
    BY <1>10, <2>1, CoordinateSums
<1>12. v10' = v8'.proposer + Coord!SumFunctionOnSet(v8'.critic, Provider) + v8'.synth + v11'
  <2>1. v10 = v11
    BY <1>2, <1>11
  <2>2. v10' = c + v11'
    BY <1>5, <2>1
  <2>3. Coord!SumFunctionOnSet(v8'.critic, Provider) = 0 /\ v8'.synth = 0 /\ v8'.proposer = c
    BY <1>2, <1>6, <1>11
  <2>. QED
    BY <1>4, <1>5, <2>2, <2>3
<1>13. \A p \in v4'.critics : v5'[p] # "none"
  BY <1>1, <1>7, <1>8
<1>14. Coord!BallotsOfWholeRound' /\ Coord!DefaultCriticsAreOthers' /\ Coord!AnswersCommitted'
  BY <1>1, <1>2
     DEF Coord!BallotsOfWholeRound, Coord!DefaultCriticsAreOthers, Coord!AnswersCommitted
<1>15. Coord!LossBound'
  <2>1. Coord!LossBound /\ v6 = "none"
    BY <1>1 DEF Coord!CoordinateInv
  <2>2. v6 # "text" /\ \A p \in Provider : v5[p] # "text"
    BY <1>2, <2>1
  <2>3. v2.tools => v11 <= 0
    BY <1>1, <2>1, <2>2 DEF Coord!LossBound, Coord!AllMerged
  <2>4. Coord!AllMerged' => v2.tools /\ o = "structured"
    BY <1>1, <1>3 DEF Coord!AllMerged, Coord!Outcome
  <2>. QED
    BY <1>1, <1>5, <2>3, <2>4 DEF Coord!LossBound
<1>. QED
  BY <1>1, <1>2, <1>6, <1>8, <1>9, <1>10, <1>12, <1>13, <1>14, <1>15 DEF Coord!CoordinateInv

(* Only a round of the critics has one of them queued or asked. *)
LEMMA InCritics ==
  ASSUME Coord!CoordinateInv, NEW p \in Provider, v5[p] \in {"queued", "asking"}
  PROVE  /\ Coord!TypeOK /\ v1 = "critics" /\ p \in v4.critics
         /\ v9 = {} /\ v8.critic[p] = 0 /\ v8.synth = 0
BY DEF Coord!CoordinateInv, Coord!Joined, Coord!Answered, Coord!Outcome

(* A critic is shown the proposal. *)
LEMMA StartKeeps ==
  ASSUME Coord!CoordinateInv, NEW p \in Provider, Coord!Start(p)
  PROVE  Coord!CoordinateInv'
<1>1. /\ v5[p] = "queued"
      /\ v5' = [v5 EXCEPT ![p] = "asking"] /\ v7' = [v7 EXCEPT ![p] = v6]
      /\ UNCHANGED <<v1, v2, v3, v4, v6, v8, v9, v10, v11, v12>>
  BY DEF Coord!Start, Coord!request
<1>2. Coord!TypeOK /\ v1 = "critics" /\ p \in v4.critics /\ v9 = {} /\ v8.critic[p] = 0
      /\ v8.synth = 0
  BY <1>1, InCritics
<1>3. /\ v5 \in [Provider -> {"none", "queued", "asking", "raised"} \union Coord!Outcome]
      /\ v7 \in [Provider -> {"none"} \union Coord!Outcome] /\
           v6 \in {"none"} \union Coord!Outcome
  BY <1>2 DEF Coord!TypeOK
<1>4. /\ v5'[p] = "asking" /\ v7'[p] = v6
      /\ \A q \in Provider : q # p => v5'[q] = v5[q] /\ v7'[q] = v7[q]
      /\ v5' \in [Provider -> {"none", "queued", "asking", "raised"} \union Coord!Outcome]
      /\ v7' \in [Provider -> {"none"} \union Coord!Outcome]
  BY <1>1, <1>3
<1>5. Coord!TypeOK'
  BY <1>1, <1>2, <1>4 DEF Coord!TypeOK
<1>6. Coord!Answered' = Coord!Answered
  BY <1>1, <1>4 DEF Coord!Answered, Coord!Outcome
<1>7. /\ Coord!DefaultCriticsAreOthers' /\ Coord!BallotsOfWholeRound' /\ Coord!AnswersCommitted'
  BY <1>1, <1>2
     DEF Coord!CoordinateInv, Coord!DefaultCriticsAreOthers, Coord!BallotsOfWholeRound,
         Coord!AnswersCommitted
<1>8. v4'.critics \subseteq Provider
  BY <1>5 DEF Coord!TypeOK
<1>9. /\ \A q \in Provider : v5'[q] # "none" => q \in v4'.critics
      /\ \A q \in Provider : v5'[q] \notin {"none", "queued"} => v7'[q] = v6'
      /\ \A q \in Provider \ Coord!Answered' : v8'.critic[q] = 0
      /\ \A q \in v4'.critics : v5'[q] # "none"
  BY <1>1, <1>2, <1>4, <1>6, <1>8 DEF Coord!CoordinateInv
<1>10. ((\A q \in Provider : v5'[q] # "raised") => \A q \in Provider : v5[q] # "raised")
  BY <1>1, <1>4
<1>11. (\A q \in Provider : v5'[q] # "raised") =>
         v10' = v8'.proposer + Coord!SumFunctionOnSet(v8'.critic, Provider) + v8'.synth + v11'
  BY <1>1, <1>2, <1>10 DEF Coord!CoordinateInv
<1>12. Coord!LossBound'
  <2>1. Coord!LossBound /\ v11 \in Nat
    BY <1>2 DEF Coord!CoordinateInv, Coord!TypeOK
  <2>2. Coord!AllMerged' => Coord!AllMerged
    BY <1>1, <1>4 DEF Coord!AllMerged
  <2>. QED
    BY <1>1, <2>1, <2>2, LossStays
<1>. QED
  BY <1>1, <1>2, <1>5, <1>7, <1>9, <1>11, <1>12 DEF Coord!CoordinateInv

(* A critic answers. *)
LEMMA CriticiseKeeps ==
  ASSUME Coord!CoordinateInv, NEW p \in Provider, Coord!Criticise(p) PROVE Coord!CoordinateInv'
<1>1. /\ v5[p] = "asking"
      /\ UNCHANGED <<v1, v2, v3, v4, v7, v6, v9, v12>>
  BY DEF Coord!Criticise, Coord!request
<1>2. Coord!TypeOK /\ v1 = "critics" /\ p \in v4.critics /\ v9 = {} /\ v8.critic[p] = 0
      /\ v8.synth = 0
  BY <1>1, InCritics
<1>3. PICK o \in Coord!Outcome, c \in 0 .. AnswerCost, d \in 0 .. AnswerCost :
        /\ Coord!Spend(o, c, d, v2.tools)
        /\ v8' = [v8 EXCEPT !.critic[p] = c]
        /\ v5' = [v5 EXCEPT ![p] = o]
  BY DEF Coord!Criticise
<1>4. /\ v5 \in [Provider -> {"none", "queued", "asking", "raised"} \union Coord!Outcome]
      /\ v8 \in [proposer : Nat, critic : [Provider -> Nat], synth : Nat]
      /\ v10 \in Nat /\ v11 \in Nat /\ v2.tools \in BOOLEAN
  BY <1>2 DEF Coord!TypeOK
<1>5. c \in Nat /\ d \in Nat
  BY CoordinateConstants
<1>6. /\ v10' \in Nat /\ v11' \in Nat
      /\ v10' - v11' = (v10 - v11) + c
      /\ o = "structured" /\ v2.tools => v11' = v11
  BY <1>3, <1>4, <1>5, Spending
<1>7. v8' = [v8 EXCEPT !.critic[p] = c]
  BY <1>3
<1>8. /\ v8' \in [proposer : Nat, critic : [Provider -> Nat], synth : Nat]
      /\ v8'.proposer = v8.proposer
      /\ v8'.critic = [v8.critic EXCEPT ![p] = c] /\ v8'.synth = v8.synth
  BY <1>4, <1>5, <1>7, CriticCosts
<1>9. /\ v8.critic \in [Provider -> Nat] /\ v8'.critic \in [Provider -> Nat]
      /\ v8'.critic[p] = c /\ \A q \in Provider : q # p => v8'.critic[q] = v8.critic[q]
  BY <1>4, <1>5, <1>8
<1>10. /\ v5'[p] = o /\ \A q \in Provider : q # p => v5'[q] = v5[q]
       /\ v5' \in [Provider -> {"none", "queued", "asking", "raised"} \union Coord!Outcome]
  BY <1>3, <1>4
<1>11. Coord!TypeOK'
  BY <1>1, <1>2, <1>6, <1>8, <1>10 DEF Coord!TypeOK
<1>12. Coord!Answered' = Coord!Answered \union {p}
  BY <1>10 DEF Coord!Answered
<1>13. Coord!DefaultCriticsAreOthers' /\ Coord!BallotsOfWholeRound' /\ Coord!AnswersCommitted'
  BY <1>1, <1>2
     DEF Coord!CoordinateInv, Coord!DefaultCriticsAreOthers, Coord!BallotsOfWholeRound,
         Coord!AnswersCommitted
<1>14. v4'.critics \subseteq Provider /\ o # "none" /\ o # "queued" /\ o # "raised"
  BY <1>11 DEF Coord!TypeOK, Coord!Outcome
<1>15. /\ \A q \in Provider : v5'[q] # "none" => q \in v4'.critics
       /\ \A q \in Provider : v5'[q] \notin {"none", "queued"} => v7'[q] = v6'
       /\ \A q \in v4'.critics : v5'[q] # "none"
  BY <1>1, <1>2, <1>10, <1>14 DEF Coord!CoordinateInv
<1>16. \A q \in Provider \ Coord!Answered' : v8'.critic[q] = 0
  BY <1>9, <1>12 DEF Coord!CoordinateInv
<1>17. /\ Coord!SumFunctionOnSet(v8'.critic, Provider) =
            Coord!SumFunctionOnSet(v8.critic, Provider) + c
       /\ Coord!SumFunctionOnSet(v8.critic, Provider) \in Int
  <2>1. \A f, g : /\ \A q \in Provider : f[q] \in Int
                  /\ \A q \in Provider : g[q] \in Int
                  /\ \A q \in Provider : q # p => f[q] = g[q]
                  => /\ SumFunctionOnSet(f, Provider) \in Int
                     /\ SumFunctionOnSet(g, Provider) =
                          SumFunctionOnSet(f, Provider) + (g[p] - f[p])
    BY SumMoves, CoordinateConstants
  <2>2. /\ SumFunctionOnSet(v8.critic, Provider) \in Int
        /\ SumFunctionOnSet(v8'.critic, Provider)
             = SumFunctionOnSet(v8.critic, Provider) + (v8'.critic[p] - v8.critic[p])
    BY <1>9, <2>1
  <2>. QED
    BY <1>2, <1>5, <1>9, <2>2, CoordinateSums
<1>18. ASSUME \A q \in Provider : v5'[q] # "raised"
       PROVE  v10' = v8'.proposer + Coord!SumFunctionOnSet(v8'.critic, Provider)
                        + v8'.synth + v11'
  <2>1. \A q \in Provider : v5[q] # "raised"
    BY <1>1, <1>10, <1>18
  <2>2. v10 = v8.proposer + Coord!SumFunctionOnSet(v8.critic, Provider) + v8.synth + v11
    BY <1>2, <2>1 DEF Coord!CoordinateInv
  <2>3. v8.proposer \in Nat /\ v8.synth \in Nat
    BY <1>4
  <2>. QED
    BY <1>4, <1>5, <1>6, <1>8, <1>17, <2>2, <2>3
<1>19. Coord!LossBound'
  <2>1. Coord!LossBound
    BY DEF Coord!CoordinateInv
  <2>2. Coord!AllMerged' => Coord!AllMerged /\ v2.tools /\ o = "structured"
    BY <1>1, <1>2, <1>10 DEF Coord!AllMerged, Coord!Outcome
  <2>. QED
    BY <1>1, <1>2, <1>6, <2>1, <2>2 DEF Coord!LossBound
<1>. QED
  BY <1>1, <1>2, <1>8, <1>11, <1>13, <1>15, <1>16, <1>18, <1>19 DEF Coord!CoordinateInv

(* A critic's request raises. *)
LEMMA CriticRaisesKeeps ==
  ASSUME Coord!CoordinateInv, NEW p \in Provider, Coord!CriticRaises(p) PROVE Coord!CoordinateInv'
<1>1. /\ v5[p] = "asking" /\ v5' = [v5 EXCEPT ![p] = "raised"]
      /\ UNCHANGED <<v1, v2, v3, v4, v7, v6, v8, v9, v11, v12>>
      /\ \E d \in 0 .. AnswerCost : v10' = v10 + d
  BY DEF Coord!CriticRaises, Coord!request
<1>2. Coord!TypeOK /\ v1 = "critics" /\ p \in v4.critics /\ v9 = {} /\ v8.critic[p] = 0
      /\ v8.synth = 0
  BY <1>1, InCritics
<1>3. v5 \in [Provider -> {"none", "queued", "asking", "raised"} \union Coord!Outcome]
      /\ v10 \in Nat
  BY <1>2 DEF Coord!TypeOK
<1>4. v10' \in Nat
  BY <1>1, <1>3, CoordinateConstants
<1>5. /\ v5'[p] = "raised" /\ \A q \in Provider : q # p => v5'[q] = v5[q]
      /\ v5' \in [Provider -> {"none", "queued", "asking", "raised"} \union Coord!Outcome]
  BY <1>1, <1>3
<1>6. Coord!TypeOK'
  BY <1>1, <1>2, <1>4, <1>5 DEF Coord!TypeOK
<1>7. Coord!Answered' = Coord!Answered
  BY <1>1, <1>5 DEF Coord!Answered, Coord!Outcome
<1>8. Coord!DefaultCriticsAreOthers' /\ Coord!BallotsOfWholeRound' /\ Coord!AnswersCommitted'
  BY <1>1, <1>2
     DEF Coord!CoordinateInv, Coord!DefaultCriticsAreOthers, Coord!BallotsOfWholeRound,
         Coord!AnswersCommitted
<1>9. v4'.critics \subseteq Provider
  BY <1>6 DEF Coord!TypeOK
<1>10. /\ \A q \in Provider : v5'[q] # "none" => q \in v4'.critics
       /\ \A q \in Provider : v5'[q] \notin {"none", "queued"} => v7'[q] = v6'
       /\ \A q \in Provider \ Coord!Answered' : v8'.critic[q] = 0
       /\ \A q \in v4'.critics : v5'[q] # "none"
  BY <1>1, <1>2, <1>5, <1>7, <1>9 DEF Coord!CoordinateInv
<1>11. Coord!LossBound'
  <2>1. Coord!LossBound /\ v11 \in Nat
    BY <1>2 DEF Coord!CoordinateInv, Coord!TypeOK
  <2>2. Coord!AllMerged' => Coord!AllMerged
    BY <1>1, <1>5 DEF Coord!AllMerged
  <2>. QED
    BY <1>1, <2>1, <2>2, LossStays
<1>. QED
  BY <1>1, <1>2, <1>5, <1>6, <1>8, <1>10, <1>11 DEF Coord!CoordinateInv

(* The votes are those of critics of a whole round. *)
LEMMA VoteKeeps == ASSUME Coord!CoordinateInv, Coord!Vote PROVE Coord!CoordinateInv'
<1>1. /\ v1 = "vote" /\ v1' = "synth" /\ v9' \subseteq {p \in Provider : v5[p] = "structured"}
      /\ UNCHANGED <<v2, v3, v4, v5, v7, v6, v8, v10, v11, v12>>
      /\ Coord!TypeOK
  BY DEF Coord!Vote, Coord!CoordinateInv, Coord!request, Coord!pool
<1>2. /\ Coord!TypeOK'
  BY <1>1 DEF Coord!TypeOK
<1>3. Coord!BallotsOfWholeRound'
  <2>1. v4.critics \subseteq Coord!Answered
    BY <1>1 DEF Coord!CoordinateInv
  <2>2. \A p \in Provider : v5[p] = "structured" => v7[p] = v6
    BY <1>1 DEF Coord!CoordinateInv
  <2>. QED
    BY <1>1, <2>1, <2>2 DEF Coord!BallotsOfWholeRound, Coord!Answered
<1>4. Coord!Answered' = Coord!Answered /\ Coord!Joined' = Coord!Joined
  BY <1>1 DEF Coord!Answered, Coord!Joined
<1>5. Coord!DefaultCriticsAreOthers' /\ Coord!AnswersCommitted'
  BY <1>1 DEF Coord!CoordinateInv, Coord!DefaultCriticsAreOthers, Coord!AnswersCommitted
<1>6. Coord!LossBound'
  <2>1. Coord!LossBound /\ v11 \in Nat
    BY <1>1 DEF Coord!CoordinateInv, Coord!TypeOK
  <2>2. Coord!AllMerged' = Coord!AllMerged
    BY <1>1 DEF Coord!AllMerged
  <2>. QED
    BY <1>1, <2>1, <2>2, LossStays
<1>. QED
  BY <1>1, <1>2, <1>3, <1>4, <1>5, <1>6 DEF Coord!CoordinateInv

(* The synthesis costs too, or raises, as the proposal may. *)
LEMMA SynthesiseKeeps ==
  ASSUME Coord!CoordinateInv, Coord!Synthesise \/ Coord!Raise
  PROVE  Coord!CoordinateInv'
<1>1. /\ UNCHANGED <<v2, v3, v4, v5, v7, v6, v9, v12>> /\ Coord!TypeOK
      /\ Coord!Answered' = Coord!Answered /\ Coord!Joined' = Coord!Joined
  BY DEF Coord!Synthesise, Coord!Raise, Coord!CoordinateInv, Coord!request, Coord!pool,
         Coord!Answered, Coord!Joined
<1>2. Coord!DefaultCriticsAreOthers' /\ Coord!BallotsOfWholeRound'
  BY <1>1 DEF Coord!CoordinateInv, Coord!DefaultCriticsAreOthers, Coord!BallotsOfWholeRound
<1>3. v10 \in Nat /\ v11 \in Nat
      /\ v8 \in [proposer : Nat, critic : [Provider -> Nat], synth : Nat]
  BY <1>1 DEF Coord!TypeOK
<1>4. CASE Coord!Synthesise
  <2>1. v1 = "synth" /\ v1' = "commit" /\ v8.synth = 0
    BY <1>4 DEF Coord!Synthesise, Coord!CoordinateInv
  <2>2. PICK o \in Coord!Outcome, c \in 0 .. AnswerCost, d \in 0 .. AnswerCost :
          Coord!Spend(o, c, d, FALSE) /\ v8' = [v8 EXCEPT !.synth = c]
    BY <1>4 DEF Coord!Synthesise
  <2>3. c \in Nat /\ d \in Nat
    BY CoordinateConstants
  <2>4. /\ v10' \in Nat /\ v11' \in Nat
        /\ v10' - v11' = (v10 - v11) + c
    BY <1>3, <2>2, <2>3 DEF Coord!Spend
  <2>5. /\ v8' \in [proposer : Nat, critic : [Provider -> Nat], synth : Nat]
        /\ v8'.proposer = v8.proposer /\ v8'.critic = v8.critic /\ v8'.synth = c
    BY <1>3, <2>2, <2>3, SynthCosts
  <2>6. Coord!TypeOK'
    BY <1>1, <2>1, <2>4, <2>5 DEF Coord!TypeOK
  <2>7. Coord!SumFunctionOnSet(v8.critic, Provider) \in Nat /\ v8.proposer \in Nat
    <3>1. \A f : (\A p \in Provider : f[p] \in Nat) => SumFunctionOnSet(f, Provider) \in Nat
      BY SumOfNats, CoordinateConstants
    <3>. QED
      BY <1>3, <3>1, CoordinateSums
  <2>8. ASSUME \A p \in Provider : v5[p] # "raised"
        PROVE  v10' = v8'.proposer + Coord!SumFunctionOnSet(v8'.critic, Provider)
                         + v8'.synth + v11'
    <3>1. v10 = v8.proposer + Coord!SumFunctionOnSet(v8.critic, Provider) + v8.synth + v11
      BY <2>1, <2>8 DEF Coord!CoordinateInv
    <3>. QED
      BY <1>3, <2>1, <2>3, <2>4, <2>5, <2>7, <3>1
  <2>9. Coord!LossBound'
    <3>1. Coord!LossBound
      BY DEF Coord!CoordinateInv
    <3>2. Coord!AllMerged' = Coord!AllMerged
      BY <1>1 DEF Coord!AllMerged
    <3>3. v11' = v11 + d /\ d <= AnswerCost
      BY <2>2 DEF Coord!Spend
    <3>. QED
      BY <1>3, <2>1, <2>3, <3>1, <3>2, <3>3, CoordinateConstants DEF Coord!LossBound
  <2>. QED
    BY <1>1, <1>2, <2>1, <2>5, <2>6, <2>8, <2>9 DEF Coord!CoordinateInv, Coord!AnswersCommitted
<1>5. CASE Coord!Raise
  <2>1. /\ v1 \in {"propose", "synth"} /\ v1' = "raised" /\ UNCHANGED <<v8, v11>>
        /\ \E d \in 0 .. AnswerCost : v10' = v10 + d
    BY <1>5 DEF Coord!Raise
  <2>2. v10' \in Nat
    BY <1>3, <2>1, CoordinateConstants
  <2>3. Coord!TypeOK'
    BY <1>1, <2>1, <2>2 DEF Coord!TypeOK
  <2>4. Coord!LossBound'
    <3>1. Coord!LossBound
      BY DEF Coord!CoordinateInv
    <3>2. Coord!AllMerged' = Coord!AllMerged
      BY <1>1 DEF Coord!AllMerged
    <3>. QED
      BY <1>1, <1>3, <2>1, <3>1, <3>2, LossStays
  <2>. QED
    BY <1>1, <1>2, <2>1, <2>3, <2>4 DEF Coord!CoordinateInv, Coord!AnswersCommitted
<1>. QED
  BY <1>4, <1>5

(* The commit records what all answers report. *)
LEMMA CoordinateCommits == ASSUME Coord!CoordinateInv, Coord!Commit PROVE Coord!CoordinateInv'
<1>1. /\ v1 = "commit" /\ v1' = "done" /\ Coord!TypeOK /\ v12' = Coord!AllAnswers
      /\ UNCHANGED <<v2, v3, v4, v5, v7, v6, v8, v9, v10, v11>>
      /\ Coord!Answered' = Coord!Answered /\ Coord!Joined' = Coord!Joined
  BY DEF Coord!Commit, Coord!CoordinateInv, Coord!request, Coord!pool, Coord!Answered,
         Coord!Joined
<1>2. /\ v4.critics \subseteq Coord!Answered /\ v8.critic \in [Provider -> Nat]
      /\ v8.proposer \in Nat /\ v8.synth \in Nat /\ v11 \in Nat
      /\ v4.critics \subseteq Provider
      /\ \A p \in Provider : v5[p] \in Coord!Outcome => p \in v4.critics
      /\ \A p \in Provider : v5[p] \notin Coord!Outcome => v8.critic[p] = 0
  BY <1>1 DEF Coord!CoordinateInv, Coord!TypeOK, Coord!Answered, Coord!Outcome
<1>3. \A p \in Provider \ v4.critics : v8.critic[p] = 0
  BY <1>2
<1>4. Coord!SumFunctionOnSet(v8.critic, v4.critics) = Coord!SumFunctionOnSet(v8.critic, Provider)
  <2>1. \A f, T : /\ T \in SUBSET Provider /\ \A p \in Provider : f[p] \in Int
                  /\ \A p \in Provider \ T : f[p] = 0
                  => SumFunctionOnSet(f, Provider) = SumFunctionOnSet(f, T)
    BY SumIgnoresZeros, CoordinateConstants
  <2>2. \A p \in Provider : v8.critic[p] \in Int
    BY <1>2
  <2>3. SumFunctionOnSet(v8.critic, Provider) = SumFunctionOnSet(v8.critic, v4.critics)
    BY <1>2, <1>3, <2>1, <2>2
  <2>. QED
    BY <2>3, CoordinateSums
<1>5. Coord!SumFunctionOnSet(v8.critic, v4.critics) \in Nat
  <2>1. \A f, T : T \in SUBSET Provider /\ (\A p \in T : f[p] \in Nat)
                    => SumFunctionOnSet(f, T) \in Nat
    BY SumOfNats, CoordinateConstants, FS_Subset
  <2>. QED
    BY <1>2, <2>1, CoordinateSums
<1>6. Coord!AllAnswers \in Nat
  BY <1>2, <1>5 DEF Coord!AllAnswers
<1>7. Coord!TypeOK'
  BY <1>1, <1>6 DEF Coord!TypeOK
<1>8. \A p \in Provider : v5[p] # "raised"
  BY <1>2 DEF Coord!CoordinateInv, Coord!Answered, Coord!Outcome
<1>9. v10 = v8.proposer + Coord!SumFunctionOnSet(v8.critic, Provider) + v8.synth + v11
  BY <1>1, <1>8 DEF Coord!CoordinateInv
<1>10. Coord!AllAnswers + v11 = v10
  BY <1>2, <1>4, <1>5, <1>9 DEF Coord!AllAnswers
<1>12. Coord!LossBound' /\ (Coord!AllMerged' => v11' <= AnswerCost)
  <2>1. Coord!LossBound
    BY DEF Coord!CoordinateInv
  <2>2. Coord!AllMerged' = Coord!AllMerged
    BY <1>1 DEF Coord!AllMerged
  <2>. QED
    BY <1>1, <2>1, <2>2 DEF Coord!LossBound
<1>11. Coord!DefaultCriticsAreOthers' /\ Coord!BallotsOfWholeRound' /\ Coord!AnswersCommitted'
  BY <1>1, <1>10, <1>12
     DEF Coord!CoordinateInv, Coord!DefaultCriticsAreOthers, Coord!BallotsOfWholeRound,
         Coord!AnswersCommitted
<1>. QED
  BY <1>1, <1>7, <1>9, <1>11, <1>12 DEF Coord!CoordinateInv

(* Every step of coordinate keeps its invariant. *)
LEMMA CoordinateStep == ASSUME Coord!CoordinateInv, Coord!Next PROVE Coord!CoordinateInv'
BY RolesKeep, ProposeKeeps, StartKeeps, CriticiseKeeps, CriticRaisesKeeps, VoteKeeps,
   SynthesiseKeeps, CoordinateCommits
   DEF Coord!Next, Coord!Main, Coord!Pool, Coord!Stopped

-----------------------------------------------------------------------------
(* Rounding.                                                               *)

(* Division with a remainder.                                              *)
LEMMA DivMod ==
  ASSUME NEW a \in Nat, NEW b \in Nat \ {0}
  PROVE  /\ a \div b \in Nat /\ a % b \in Nat /\ a % b < b
         /\ a = b * (a \div b) + (a % b)
OBVIOUS

(* A product grows with the one factor.                                    *)
LEMMA TimesGrows ==
  ASSUME NEW x \in Nat, NEW y \in Nat, NEW b \in Nat \ {0}
  PROVE  /\ x * b \in Nat
         /\ x < y => x * b + b <= y * b
         /\ x <= y => x * b <= y * b
         /\ x * b < y * b => x < y
         /\ x * b <= y * b => x <= y
<1>1. x * b \in Nat /\ y * b \in Nat /\ b >= 1
  OBVIOUS
<1>2. x < y => x * b + b <= y * b
  <2>1. SUFFICES ASSUME x < y PROVE x * b + b <= y * b
    OBVIOUS
  <2>2. y = x + 1 + (y - x - 1) /\ y - x - 1 \in Nat
    BY <2>1
  <2>3. \A k \in Nat : (x + 1 + k) * b = x * b + b + k * b /\ k * b \in Nat
    OBVIOUS
  <2>. QED
    BY <1>1, <2>2, <2>3
<1>3. y < x => y * b + b <= x * b
  <2>1. SUFFICES ASSUME y < x PROVE y * b + b <= x * b
    OBVIOUS
  <2>2. x = y + 1 + (x - y - 1) /\ x - y - 1 \in Nat
    BY <2>1
  <2>3. \A k \in Nat : (y + 1 + k) * b = y * b + b + k * b /\ k * b \in Nat
    OBVIOUS
  <2>. QED
    BY <1>1, <2>2, <2>3
<1>. QED
  BY <1>1, <1>2, <1>3

(* What is rounded is a natural number, at most a half away.               *)
LEMMA NearestIs ==
  ASSUME NEW n \in Nat, NEW d \in Nat \ {0}
  PROVE  /\ Nearest(n, d) \in Nat
         /\ Nearest(n, d) = 0 => 2 * n <= d
         /\ n = 0 => Nearest(n, d) = 0
<1>. DEFINE q == n \div d
            r == n % d
<1>1. q \in Nat /\ r \in Nat /\ r < d /\ n = d * q + r
  BY DivMod
<1>2. Nearest(n, d) = IF 2 * r < d \/ (2 * r = d /\ q % 2 = 0) THEN q ELSE q + 1
  BY DEF Nearest
<1>. HIDE DEF q, r
<1>3. q = 0 => n = r
  BY <1>1
<1>4. n = 0 => q = 0 /\ r = 0
  <2>1. q >= 1 => d * q >= 1
    BY <1>1
  <2>2. d * q \in Nat
    BY <1>1
  <2>. QED
    BY <1>1, <2>1, <2>2
<1>5. 0 % 2 = 0
  OBVIOUS
<1>. QED
  BY <1>1, <1>2, <1>3, <1>4, <1>5

(* A fraction that is no less is rounded to no less.                       *)
LEMMA NearestGrows ==
  ASSUME NEW a \in Nat, NEW b \in Nat \ {0}, NEW c \in Nat, NEW d \in Nat \ {0},
         a * d <= c * b
  PROVE  Nearest(a, b) <= Nearest(c, d)
<1>. DEFINE q == a \div b
            r == a % b
            s == c \div d
            t == c % d
<1>1. /\ q \in Nat /\ r \in Nat /\ r < b /\ a = b * q + r
      /\ s \in Nat /\ t \in Nat /\ t < d /\ c = d * s + t
  BY DivMod
<1>2. /\ Nearest(a, b) = IF 2 * r < b \/ (2 * r = b /\ q % 2 = 0) THEN q ELSE q + 1
      /\ Nearest(c, d) = IF 2 * t < d \/ (2 * t = d /\ s % 2 = 0) THEN s ELSE s + 1
  BY DEF Nearest
<1>. HIDE DEF q, r, s, t
<1>3. b * d \in Nat \ {0}
  OBVIOUS
<1>4. a * d = q * (b * d) + r * d /\ c * b = s * (b * d) + t * b
  BY <1>1
<1>5. r * d \in Nat /\ t * b + b <= b * d
  <2>1. r * d \in Nat
    BY <1>1
  <2>2. t * b + b <= d * b
    BY <1>1, TimesGrows
  <2>. QED
    BY <2>1, <2>2
<1>6. q <= s
  <2>1. SUFFICES ASSUME s < q PROVE FALSE
    BY <1>1
  <2>2. s * (b * d) + b * d <= q * (b * d)
    BY <1>1, <1>3, <2>1, TimesGrows
  <2>3. s * (b * d) \in Nat /\ q * (b * d) \in Nat /\ t * b \in Nat
    BY <1>1, <1>3
  <2>. QED
    BY <1>3, <1>4, <1>5, <2>2, <2>3
<1>7. CASE q < s
  BY <1>1, <1>2, <1>7
<1>8. CASE q = s
  <2>1. r * d <= t * b
    <3>1. q * (b * d) \in Nat /\ t * b \in Nat
      BY <1>1, <1>3
    <3>. QED
      BY <1>4, <1>5, <1>8, <3>1
  <2>2. (2 * r) * d <= (2 * t) * b
    <3>1. t * b \in Nat
      BY <1>1
    <3>2. (2 * r) * d = 2 * (r * d) /\ (2 * t) * b = 2 * (t * b)
      BY <1>1
    <3>. QED
      BY <1>5, <2>1, <3>1, <3>2
  <2>3. 2 * r >= b => 2 * t >= d
    <3>1. SUFFICES ASSUME 2 * r >= b, 2 * t < d PROVE FALSE
      BY <1>1
    <3>2. b * d <= (2 * r) * d
      BY <1>1, <3>1, TimesGrows
    <3>3. (2 * t) * b + b <= d * b
      BY <1>1, <3>1, TimesGrows
    <3>4. b * d = d * b /\ (2 * t) * b \in Nat /\ (2 * r) * d \in Nat
      BY <1>1
    <3>. QED
      BY <1>3, <2>2, <3>2, <3>3, <3>4
  <2>4. 2 * r > b => 2 * t > d
    <3>1. SUFFICES ASSUME b < 2 * r, 2 * t <= d PROVE FALSE
      BY <1>1
    <3>2. b * d + d <= (2 * r) * d
      BY <1>1, <3>1, TimesGrows
    <3>3. (2 * t) * b <= d * b
      BY <1>1, <3>1, TimesGrows
    <3>4. b * d = d * b /\ (2 * t) * b \in Nat /\ (2 * r) * d \in Nat
      BY <1>1
    <3>. QED
      BY <1>3, <2>2, <3>2, <3>3, <3>4
  <2>. QED
    BY <1>1, <1>2, <1>8, <2>3, <2>4
<1>. QED
  BY <1>1, <1>6, <1>7, <1>8

-----------------------------------------------------------------------------
(* pick.                                                                   *)

(* What pick is called with. *)
LEMMA PickConstants ==
  /\ IsFiniteSet(Panelist) /\ Cardinality(Panelist) \in 0 .. 6
  /\ NOptions \in Nat /\ NOptions >= 2
  /\ IsFiniteSet(Criterion) /\ Criterion # {} /\ Weight \in [Criterion -> Nat]
  /\ \A o \in Object : DOMAIN o \subseteq {0} \union Pk!Option /\
       \A i \in DOMAIN o : o[i] \in Pk!Entry
  /\ Sure \in 0 .. 10 /\ Grain \in Nat \ {0}
<1>1. Pk!PickAssumption
  BY ConstantsFit
<1>2. /\ IsFiniteSet(Panelist) /\ Cardinality(Panelist) <= 6 /\ IsFiniteSet(Criterion)
  BY <1>1
     DEF Pk!PickAssumption, Pk!MaxScorers, Pk!IsFiniteSet, IsFiniteSet, Pk!Cardinality,
         Cardinality
<1>3. Cardinality(Panelist) \in Nat
  BY <1>2, FS_CardinalityType
<1>. QED
  BY <1>1, <1>2, <1>3 DEF Pk!PickAssumption, Pk!Score

(* The community operators are the same in the instance. *)
LEMMA PickOperators ==
  /\ \A S : Pk!Max(S) = Max(S)
  /\ \A S : Pk!Min(S) = Min(S)
  /\ \A f, S : Pk!SumFunctionOnSet(f, S) = SumFunctionOnSet(f, S)
  /\ \A s : Pk!ToSet(s) = {s[i] : i \in DOMAIN s}
  /\ \A S : IsFiniteSet(S) => Pk!Cardinality(S) = Cardinality(S)
  /\ \A n, d : Pk!Nearest(n, d) = Nearest(n, d)
<1>1. \A S : Pk!Max(S) = Max(S)
  BY DEF Pk!Max, Max
<1>2. \A S : Pk!Min(S) = Min(S)
  BY DEF Pk!Min, Min
<1>3. \A f, S : Pk!SumFunctionOnSet(f, S) = SumFunctionOnSet(f, S)
  BY DEF Pk!SumFunctionOnSet, SumFunctionOnSet, Pk!FoldFunctionOnSet, FoldFunctionOnSet,
         Pk!MapThenFoldSet, MapThenFoldSet
<1>4. \A s : Pk!ToSet(s) = {s[i] : i \in DOMAIN s}
  BY DEF Pk!ToSet
<1>5. \A S : Pk!Cardinality(S) = Cardinality(S)
  BY DEF Pk!Cardinality, Cardinality
<1>6. \A n, d : Pk!Nearest(n, d) = Nearest(n, d)
  BY DEF Pk!Nearest, Nearest
<1>. QED
  BY <1>1, <1>2, <1>3, <1>4, <1>5, <1>6

(* A panel is a sequence of providers, its set is theirs. *)
LEMMA PanelIsSeq ==
  ASSUME v3 \in UNION {Pk!SetToSeqs(P) : P \in (SUBSET Panelist) \ {{}}}
  PROVE  /\ v3 \in Seq(Panelist)
         /\ Pk!ToSet(v3) \subseteq Panelist
         /\ Len(v3) >= 2 => {Pk!First, Pk!Second} \subseteq Pk!ToSet(v3)
<1>1. PICK P \in SUBSET Panelist : v3 \in Pk!SetToSeqs(P)
  OBVIOUS
<1>2. v3 \in [1 .. Pk!Cardinality(P) -> P]
  BY <1>1 DEF Pk!SetToSeqs
<1>3. IsFiniteSet(P) /\ Cardinality(P) \in Nat /\ Pk!Cardinality(P) = Cardinality(P)
  <2>1. IsFiniteSet(P)
    BY PickConstants, FS_Subset
  <2>. QED
    BY <2>1, PickOperators, FS_CardinalityType
<1>. DEFINE n == Cardinality(P)
<1>4. n \in Nat /\ v3 \in [1 .. n -> P]
  BY <1>2, <1>3
<1>. HIDE DEF n
<1>5. v3 \in Seq(Panelist) /\ Len(v3) = n
  BY <1>1, <1>4
<1>6. Pk!ToSet(v3) = {v3[i] : i \in 1 .. n}
  BY <1>4, PickOperators
<1>7. n >= 2 => 1 \in 1 .. n /\ 2 \in 1 .. n
  BY <1>4
<1>. QED
  BY <1>4, <1>5, <1>6, <1>7 DEF Pk!First, Pk!Second

(* What does not change with the objects: who was asked first, their       *)
(* agreement and the ranking.                                              *)
LEMMA SameScores ==
  /\ UNCHANGED v3 => Pk!First' = Pk!First /\ Pk!Second' = Pk!Second /\
       (Pk!ToSet(v3))' = Pk!ToSet(v3)
  /\ UNCHANGED <<v3, v5>> => (Pk!Agree' <=> Pk!Agree)
  /\ UNCHANGED v5 => Pk!Leader(v5)' = Pk!Leader(v5)
<1>1. UNCHANGED v3 => Pk!First' = Pk!First /\ Pk!Second' = Pk!Second /\
                        (Pk!ToSet(v3))' = Pk!ToSet(v3)
  BY DEF Pk!First, Pk!Second, Pk!ToSet
<1>2. UNCHANGED <<v3, v5>> => (Pk!Agree' <=> Pk!Agree)
  BY DEF Pk!Agree, Pk!First, Pk!Second, Pk!Choice, Pk!Max
<1>3. UNCHANGED v5 => Pk!Leader(v5)' = Pk!Leader(v5)
  BY DEF Pk!Leader, Pk!Weighted, Pk!Total, Pk!AllWeight, Pk!Nearest, Pk!Mean, Pk!Scorers,
         Pk!Option, Pk!Unit, Pk!Min, Pk!SumFunctionOnSet, Pk!FoldFunctionOnSet,
         Pk!MapThenFoldSet, Pk!Cardinality
<1>. QED
  BY <1>1, <1>2, <1>3

(* Pick begins with nobody asked. *)
LEMMA PickStarts == Pk!Init => Pk!PickInv
<1>. SUFFICES ASSUME Pk!Init PROVE Pk!PickInv
  OBVIOUS
<1>1. /\ v1 = "entry" /\ ~v6 /\ ~v7 /\ v8 = {} /\ v9 = 0
      /\ v4 = [p \in Panelist |-> "none"] /\ v5 = [p \in Panelist |-> Pk!NoObject]
      /\ v2 \in BOOLEAN /\ v6 \in BOOLEAN /\ v7 \in BOOLEAN
      /\ v3 \in UNION {Pk!SetToSeqs(P) : P \in (SUBSET Panelist) \ {{}}}
  BY DEF Pk!Init
<1>2. v4 \in [Panelist -> {"none", "queued", "asking", "answered", "raised"}]
      /\ v5 \in [Panelist -> Object \union {Pk!NoObject}]
  BY <1>1
<1>3. Pk!TypeOK
  BY <1>1, <1>2 DEF Pk!TypeOK
<1>4. Pk!Called = {} /\ Pk!Joined
  BY <1>1 DEF Pk!Called, Pk!Joined
<1>. QED
  BY <1>1, <1>3, <1>4 DEF Pk!PickInv

(* The call is refused, or begins. *)
LEMMA PickEnters ==
  ASSUME Pk!PickInv, Pk!Refuse \/ Pk!Enter \/ UNCHANGED Pk!vars PROVE Pk!PickInv'
<1>1. CASE Pk!Refuse
  <2>1. /\ v1 = "entry" /\ v1' = "refused"
        /\ UNCHANGED <<v2, v3, v4, v5, v6, v7, v8, v9>>
    BY <1>1 DEF Pk!Refuse, Pk!request, Pk!pool
  <2>2. Pk!TypeOK /\ Pk!Called = {} /\ v8 = {} /\ v9 = 0 /\ Pk!Joined
    BY <2>1 DEF Pk!PickInv
  <2>3. Pk!TypeOK' /\ Pk!Called' = {} /\ Pk!Joined'
    BY <2>1, <2>2 DEF Pk!TypeOK, Pk!Called, Pk!Joined
  <2>. QED
    BY <2>1, <2>2, <2>3 DEF Pk!PickInv
<1>2. CASE Pk!Enter
  <2>1. /\ v1 = "entry"
        /\ UNCHANGED <<v2, v3, v5, v6, v7, v8, v9>>
    BY <1>2 DEF Pk!Enter, Pk!request
  <2>2. Pk!TypeOK /\ Pk!Called = {} /\ v8 = {} /\ v9 = 0 /\ ~v6
    BY <2>1 DEF Pk!PickInv
  <2>3. v3 \in UNION {Pk!SetToSeqs(P) : P \in (SUBSET Panelist) \ {{}}}
    BY <2>2 DEF Pk!TypeOK
  <2>4. v3 \in Seq(Panelist) /\ Pk!ToSet(v3) \subseteq Panelist
        /\ (Len(v3) >= 2 => {Pk!First, Pk!Second} \subseteq Pk!ToSet(v3))
    BY <2>3, PanelIsSeq
  <2>5. /\ Pk!First' = Pk!First /\ Pk!Second' = Pk!Second /\ (Pk!ToSet(v3))' = Pk!ToSet(v3)
        /\ Len(v3) \in Nat
    BY <2>1, <2>4 DEF Pk!First, Pk!Second
  <2>6. PICK P \in SUBSET Panelist :
          /\ Pk!Queue(P)
          /\ \/ v1' = "first" /\ P = {Pk!First, Pk!Second} /\ Len(v3) >= 3
             \/ v1' = "all" /\ P = Pk!ToSet(v3)
    BY <1>2, <2>4, <2>5 DEF Pk!Enter
  <2>7. \A p \in Panelist : v4[p] = "none"
    BY <2>2 DEF Pk!Called
  <2>8. /\ v4' \in [Panelist -> {"none", "queued", "asking", "answered", "raised"}]
        /\ \A p \in Panelist : v4'[p] # "none" <=> p \in P
    BY <2>6, <2>7 DEF Pk!Queue
  <2>9. Pk!TypeOK'
    BY <2>1, <2>2, <2>6, <2>8 DEF Pk!TypeOK
  <2>10. Pk!Called' = P
    BY <2>6, <2>8 DEF Pk!Called
  <2>. QED
    BY <2>1, <2>2, <2>5, <2>6, <2>9, <2>10 DEF Pk!PickInv
<1>3. CASE UNCHANGED Pk!vars
  <2>1. UNCHANGED <<v1, v2, v3, v4, v5, v6, v7, v8, v9>>
    BY <1>3 DEF Pk!vars, Pk!request, Pk!pool
  <2>2. Pk!TypeOK' <=> Pk!TypeOK
    BY <2>1 DEF Pk!TypeOK
  <2>3. Pk!Called' = Pk!Called /\ (Pk!Joined' <=> Pk!Joined) /\ (Pk!Raised' <=> Pk!Raised)
    BY <2>1 DEF Pk!Called, Pk!Joined, Pk!Raised
  <2>4. Pk!First' = Pk!First /\ Pk!Second' = Pk!Second /\ (Pk!ToSet(v3))' = Pk!ToSet(v3)
    BY <2>1, SameScores
  <2>5. (Pk!Agree' <=> Pk!Agree) /\ Pk!Leader(v5)' = Pk!Leader(v5)
    BY <2>1, SameScores
  <2>. QED
    BY <2>1, <2>2, <2>3, <2>4, <2>5 DEF Pk!PickInv
<1>. QED
  BY <1>1, <1>2, <1>3

(* A natural number over another one is one. *)
LEMMA Quotient ==
  ASSUME NEW a \in Nat, NEW k \in 1 .. 6
  PROVE  a \div k \in Nat
<1>1. k = 1 \/ k = 2 \/ k = 3 \/ k = 4 \/ k = 5 \/ k = 6
  OBVIOUS
<1>. QED
  BY <1>1

(* The scores of an object are numbers. *)
LEMMA ScoresAreNumbers ==
  ASSUME Pk!PickInv, NEW p \in Panelist, NEW i \in DOMAIN v5[p]
  PROVE  /\ v5[p][i].overall \in 0 .. 10
         /\ DOMAIN v5[p][i].by \subseteq Criterion
         /\ \A c \in DOMAIN v5[p][i].by : v5[p][i].by[c] \in 0 .. 10
         /\ DOMAIN v5[p] \subseteq 0 .. NOptions
<1>1. v5[p] \in Object \union {Pk!NoObject}
  BY DEF Pk!PickInv, Pk!TypeOK
<1>2. v5[p] # Pk!NoObject
  BY DEF Pk!NoObject
<1>3. v5[p] \in Object
  BY <1>1, <1>2
<1>4. v5[p][i] \in Pk!Entry /\ DOMAIN v5[p] \subseteq {0} \union Pk!Option
  BY <1>3, PickConstants
<1>5. /\ v5[p][i].overall \in 0 .. 10
      /\ v5[p][i].by \in UNION {[C -> 0 .. 10] : C \in SUBSET Criterion}
  BY <1>4 DEF Pk!Entry, Pk!Score
<1>6. PICK C \in SUBSET Criterion : v5[p][i].by \in [C -> 0 .. 10]
  BY <1>5
<1>7. {0} \union Pk!Option \subseteq 0 .. NOptions
  BY PickConstants DEF Pk!Option
<1>. QED
  BY <1>4, <1>5, <1>6, <1>7

(* The scorers of an option are some of six. *)
LEMMA ScorersAreFew ==
  ASSUME NEW i, NEW c
  PROVE  /\ IsFiniteSet(Pk!Scorers(v5, i, c))
         /\ Pk!Scorers(v5, i, c) \subseteq Panelist
         /\ Pk!Scorers(v5, i, c) # {} => Pk!Cardinality(Pk!Scorers(v5, i, c)) \in 1 .. 6
<1>. DEFINE S == Pk!Scorers(v5, i, c)
<1>1. S \subseteq Panelist
  BY DEF Pk!Scorers
<1>. HIDE DEF S
<1>2. IsFiniteSet(S) /\ Cardinality(S) \in Nat /\ Cardinality(S) <= Cardinality(Panelist)
  BY <1>1, PickConstants, FS_Subset, FS_CardinalityType
<1>3. S # {} => Cardinality(S) # 0
  BY <1>2, FS_EmptySet
<1>4. Pk!Cardinality(S) = Cardinality(S)
  BY <1>2, PickOperators
<1>. QED
  BY <1>1, <1>2, <1>3, <1>4, PickConstants DEF S

(* The points that the scorers of an option have given it. *)
Points(i, c) == [p \in Pk!Scorers(v5, i, c) |-> v5[p][i].by[c] * 60]

(* They are sixtieths of scores.                                           *)
LEMMA PointsAreNumbers ==
  ASSUME Pk!PickInv, NEW i, NEW c
  PROVE  /\ \A p \in Pk!Scorers(v5, i, c) :
              /\ Points(i, c)[p] = v5[p][i].by[c] * 60
              /\ v5[p][i].by[c] \in 0 .. 10 /\ Points(i, c)[p] \in Nat
         /\ SumFunctionOnSet(Points(i, c), Pk!Scorers(v5, i, c)) \in Nat
<1>. DEFINE S == Pk!Scorers(v5, i, c)
            f == Points(i, c)
<1>1. ASSUME NEW p \in S
      PROVE  f[p] = v5[p][i].by[c] * 60 /\ v5[p][i].by[c] \in 0 .. 10 /\ f[p] \in Nat
  <2>1. p \in Panelist /\ i \in DOMAIN v5[p] /\ c \in DOMAIN v5[p][i].by
    BY <1>1 DEF Pk!Scorers
  <2>2. v5[p][i].by[c] \in 0 .. 10
    BY <2>1, ScoresAreNumbers
  <2>3. f[p] = v5[p][i].by[c] * 60
    BY <1>1 DEF Points
  <2>. HIDE DEF f, S
  <2>. QED
    BY <2>2, <2>3
<1>2. IsFiniteSet(S)
  BY ScorersAreFew
<1>3. SumFunctionOnSet(f, S) \in Nat
  <2>1. \A p \in S : f[p] \in Nat
    BY <1>1
  <2>. HIDE DEF f, S
  <2>. QED
    BY <1>2, <2>1, SumOfNats
<1>. QED
  BY <1>1, <1>3

(* The mean of the scores of an option on a criterion. *)
LEMMA MeanIs ==
  ASSUME Pk!PickInv, NEW i, NEW c
  PROVE  /\ Pk!Mean(v5, i, c) \in Nat
         /\ Pk!Scorers(v5, i, c) = {} => Pk!Mean(v5, i, c) = 0
         /\ Pk!Scorers(v5, i, c) # {} =>
              Pk!Mean(v5, i, c) = SumFunctionOnSet(Points(i, c), Pk!Scorers(v5, i, c))
                                     \div Pk!Cardinality(Pk!Scorers(v5, i, c))
<1>. DEFINE S == Pk!Scorers(v5, i, c)
<1>1. Pk!Scorers(v5, i, c) = {} => Pk!Mean(v5, i, c) = 0
  BY DEF Pk!Mean
<1>2. Pk!Scorers(v5, i, c) # {} =>
        Pk!Mean(v5, i, c) = SumFunctionOnSet(Points(i, c), Pk!Scorers(v5, i, c))
                               \div Pk!Cardinality(Pk!Scorers(v5, i, c))
  <2>1. Pk!SumFunctionOnSet(Points(i, c), S) = SumFunctionOnSet(Points(i, c), S)
    BY PickOperators
  <2>2. S # {} => Pk!Mean(v5, i, c) = Pk!SumFunctionOnSet(Points(i, c), S) \div Pk!Cardinality(S)
    BY DEF Pk!Mean, Points, Pk!Unit
  <2>. QED
    BY <2>1, <2>2
<1>3. S # {} => Pk!Mean(v5, i, c) \in Nat
  <2>1. SumFunctionOnSet(Points(i, c), S) \in Nat
    BY PointsAreNumbers
  <2>2. S # {} => Pk!Cardinality(S) \in 1 .. 6
    BY ScorersAreFew
  <2>3. S # {} => SumFunctionOnSet(Points(i, c), S) \div Pk!Cardinality(S) \in Nat
    <3>. HIDE DEF S
    <3>. QED
      BY <2>1, <2>2, Quotient
  <2>. QED
    BY <1>2, <2>3
<1>. QED
  BY <1>1, <1>2, <1>3

(* What the criteria contribute to the weighted score of an option. *)
Parts(i) == [c \in Criterion |-> Pk!Mean(v5, i, c) * Weight[c]]

(* They are numbers, whose sum is rounded. *)
LEMMA TotalIs ==
  ASSUME Pk!PickInv, NEW i
  PROVE  /\ Pk!Total(v5, i) = SumFunctionOnSet(Parts(i), Criterion)
         /\ Pk!Total(v5, i) \in Nat
         /\ \A c \in Criterion : Parts(i)[c] \in Nat /\
              Parts(i)[c] = Pk!Mean(v5, i, c) * Weight[c]
<1>1. Pk!Total(v5, i) = SumFunctionOnSet(Parts(i), Criterion)
  <2>1. Pk!Total(v5, i) = Pk!SumFunctionOnSet(Parts(i), Criterion)
    BY DEF Pk!Total, Parts
  <2>. QED
    BY <2>1, PickOperators
<1>2. \A c \in Criterion : Parts(i)[c] = Pk!Mean(v5, i, c) * Weight[c]
  BY DEF Parts
<1>3. ASSUME NEW c \in Criterion PROVE Parts(i)[c] \in Nat
  <2>1. Pk!Mean(v5, i, c) \in Nat /\ Weight[c] \in Nat
    BY MeanIs, PickConstants
  <2>2. \A a, b \in Nat : a * b \in Nat
    OBVIOUS
  <2>. QED
    BY <1>2, <2>1, <2>2
<1>4. SumFunctionOnSet(Parts(i), Criterion) \in Nat
  BY <1>3, PickConstants, SumOfNats
<1>. QED
  BY <1>1, <1>2, <1>3, <1>4

(* The weighted score of an option grows with its total, unless no         *)
(* criterion has a weight.                                                 *)
LEMMA WeightedIs ==
  ASSUME Pk!PickInv, NEW i
  PROVE  /\ Pk!Weighted(v5, i) \in Nat
         /\ Pk!Total(v5, i) = 0 => Pk!Weighted(v5, i) = 0
         /\ Pk!AllWeight = 0 => \A c \in Criterion : Weight[c] = 0
         /\ Pk!AllWeight \in Nat
         /\ Pk!Weighted(v5, i) = 0 => 2 * Pk!Total(v5, i) * Grain <= 600 * Pk!AllWeight
         /\ \A j : Pk!Total(v5, i) <= Pk!Total(v5, j) => Pk!Weighted(v5, i) <= Pk!Weighted(v5, j)
<1>. DEFINE d == 600 * Pk!AllWeight
<1>1. /\ Pk!AllWeight \in Nat
      /\ Pk!AllWeight = 0 => \A c \in Criterion : Weight[c] = 0
  <2>1. Pk!AllWeight = SumFunctionOnSet(Weight, Criterion)
    BY PickOperators DEF Pk!AllWeight
  <2>2. \A c \in Criterion : Weight[c] \in Nat
    BY PickConstants
  <2>3. Pk!AllWeight \in Nat
    BY <2>1, <2>2, PickConstants, SumOfNats
  <2>4. ASSUME NEW c \in Criterion, Pk!AllWeight = 0 PROVE Weight[c] = 0
    <3>1. Weight[c] <= 0
      BY <2>1, <2>2, <2>4, PartOfSum, PickConstants
    <3>. QED
      BY <2>2, <3>1
  <2>. QED
    BY <2>3, <2>4
<1>2. /\ d \in Nat
      /\ Pk!AllWeight # 0 => d \in Nat \ {0}
      /\ \A j : Pk!Weighted(v5, j)
                 = IF Pk!AllWeight = 0 THEN 0 ELSE Nearest(Pk!Total(v5, j) * Grain, d)
  <2>1. \A j : Pk!Weighted(v5, j) = IF Pk!AllWeight = 0 THEN 0
                                    ELSE Pk!Nearest(Pk!Total(v5, j) * Grain, d)
    <3>1. 10 * 60 * Pk!AllWeight = d
      BY <1>1
    <3>. HIDE DEF d
    <3>. QED
      BY <3>1 DEF Pk!Weighted, Pk!Unit
  <2>2. d \in Nat /\ (Pk!AllWeight # 0 => d \in Nat \ {0})
    BY <1>1
  <2>. QED
    BY <2>1, <2>2, PickOperators
<1>. HIDE DEF d
<1>3. \A j : Pk!Total(v5, j) \in Nat /\ Pk!Total(v5, j) * Grain \in Nat
  <2>1. \A j : Pk!Total(v5, j) \in Nat
    BY TotalIs
  <2>2. Grain \in Nat /\ \A a \in Nat : a * Grain \in Nat
    BY PickConstants
  <2>. QED
    BY <2>1, <2>2
<1>4. CASE Pk!AllWeight = 0
  <2>1. \A j : Pk!Weighted(v5, j) = 0
    BY <1>2, <1>4
  <2>2. Pk!Total(v5, i) = 0
    <3>1. \A c \in Criterion : Parts(i)[c] = 0
      <4>1. \A c \in Criterion : Pk!Mean(v5, i, c) \in Nat /\ Weight[c] = 0
        BY <1>1, <1>4, MeanIs
      <4>. QED
        BY <4>1, TotalIs
    <3>. QED
      BY <3>1, TotalIs, SumOfZeros, PickConstants
  <2>. QED
    BY <1>1, <1>4, <2>1, <2>2, PickConstants
<1>5. CASE Pk!AllWeight # 0
  <2>1. d \in Nat \ {0} /\ \A j : Pk!Weighted(v5, j) = Nearest(Pk!Total(v5, j) * Grain, d)
    BY <1>2, <1>5
  <2>2. /\ Pk!Weighted(v5, i) \in Nat
        /\ Pk!Total(v5, i) * Grain = 0 => Pk!Weighted(v5, i) = 0
        /\ Pk!Weighted(v5, i) = 0 => 2 * (Pk!Total(v5, i) * Grain) <= d
    BY <1>3, <2>1, NearestIs
  <2>3. Pk!Total(v5, i) = 0 => Pk!Total(v5, i) * Grain = 0
    BY PickConstants
  <2>4. 2 * Pk!Total(v5, i) * Grain = 2 * (Pk!Total(v5, i) * Grain)
    BY <1>3, PickConstants
  <2>5. ASSUME NEW j, Pk!Total(v5, i) <= Pk!Total(v5, j)
        PROVE  Pk!Weighted(v5, i) <= Pk!Weighted(v5, j)
    <3>1. Pk!Total(v5, i) * Grain <= Pk!Total(v5, j) * Grain
      BY <1>3, <2>5, PickConstants, TimesGrows
    <3>2. (Pk!Total(v5, i) * Grain) * d <= (Pk!Total(v5, j) * Grain) * d
      BY <1>3, <2>1, <3>1, TimesGrows
    <3>. QED
      BY <1>3, <2>1, <3>2, NearestGrows
  <2>. QED
    BY <1>1, <1>5, <2>2, <2>3, <2>4, <2>5 DEF d
<1>. QED
  BY <1>4, <1>5

(* The leader is an option, none has a higher weighted score, and none     *)
(* with the same has an earlier name.                                      *)
LEMMA LeaderLeads ==
  ASSUME Pk!PickInv
  PROVE  /\ Pk!Leader(v5) \in Pk!Option
         /\ \A j \in Pk!Option :
              /\ Pk!Weighted(v5, j) <= Pk!Weighted(v5, Pk!Leader(v5))
              /\ Pk!Weighted(v5, j) = Pk!Weighted(v5, Pk!Leader(v5)) => Pk!Leader(v5) <= j
<1>. DEFINE V == {Pk!Weighted(v5, i) : i \in Pk!Option}
            T == {i \in Pk!Option : \A j \in Pk!Option : Pk!Weighted(v5, j) <= Pk!Weighted(v5, i)}
<1>1. \A i \in Pk!Option : Pk!Weighted(v5, i) \in Nat
  BY WeightedIs
<1>2. IsFiniteSet(Pk!Option) /\ Pk!Option # {} /\ Pk!Option \subseteq Nat
  <2>1. IsFiniteSet(Pk!Option)
    BY FS_Interval, PickConstants DEF Pk!Option
  <2>2. 1 \in Pk!Option /\ Pk!Option \subseteq Nat
    BY PickConstants DEF Pk!Option
  <2>. QED
    BY <2>1, <2>2
<1>3. T # {}
  <2>. DEFINE W == [i \in Pk!Option |-> Pk!Weighted(v5, i)]
  <2>1. \A i \in Pk!Option : W[i] = Pk!Weighted(v5, i) /\ W[i] \in Nat
    BY <1>1
  <2>. HIDE DEF W
  <2>2. \E i \in Pk!Option : \A j \in Pk!Option : W[j] <= W[i]
    BY <1>2, <2>1, GreatestValue
  <2>. QED
    BY <2>1, <2>2
<1>4. T \in SUBSET Nat
  BY <1>2
<1>5. Min(T) \in T /\ \A j \in T : Min(T) <= j
  <2>. HIDE DEF T
  <2>. QED
    BY <1>3, <1>4, LeastIsMin
<1>6. Pk!Leader(v5) = Min(T)
  BY PickOperators DEF Pk!Leader
<1>7. ASSUME NEW j \in Pk!Option, Pk!Weighted(v5, j) = Pk!Weighted(v5, Pk!Leader(v5))
      PROVE  j \in T
  BY <1>5, <1>6, <1>7
<1>. QED
  BY <1>5, <1>6, <1>7

(* A thread of the pool goes on: only while the pool is being waited for.  *)
LEMMA PickThreads ==
  ASSUME Pk!PickInv, NEW p \in Panelist, Pk!Start(p) \/ Pk!Scores(p) \/ Pk!Raises(p)
  PROVE  Pk!PickInv'
<1>1. /\ v4[p] \in {"queued", "asking"} /\ Pk!TypeOK
      /\ UNCHANGED <<v1, v2, v3, v6, v7, v8, v9>>
      /\ \E t \in {"asking", "answered", "raised"} : v4' = [v4 EXCEPT ![p] = t]
  BY DEF Pk!PickInv, Pk!Start, Pk!Scores, Pk!Raises, Pk!request
<1>2. v1 \in {"first", "all"}
  BY <1>1 DEF Pk!PickInv, Pk!Joined
<1>3. /\ v4 \in [Panelist -> {"none", "queued", "asking", "answered", "raised"}]
      /\ v5 \in [Panelist -> Object \union {Pk!NoObject}]
  BY <1>1 DEF Pk!TypeOK
<1>4. v4' \in [Panelist -> {"none", "queued", "asking", "answered", "raised"}]
  BY <1>1, <1>3
<1>5. Pk!Called' = Pk!Called
  BY <1>1, <1>3 DEF Pk!Called
<1>6. v5' \in [Panelist -> Object \union {Pk!NoObject}]
  BY <1>3 DEF Pk!Start, Pk!Scores, Pk!Raises
<1>7. Pk!TypeOK'
  BY <1>1, <1>4, <1>6 DEF Pk!TypeOK
<1>8. Pk!First' = Pk!First /\ Pk!Second' = Pk!Second /\ (Pk!ToSet(v3))' = Pk!ToSet(v3)
  BY <1>1, SameScores
<1>. QED
  BY <1>1, <1>2, <1>5, <1>7, <1>8 DEF Pk!PickInv

(* The two that are asked first are of the panel. *)
LEMMA FirstTwo ==
  ASSUME Pk!TypeOK, Len(v3) >= 3
  PROVE  {Pk!First, Pk!Second} \subseteq Pk!ToSet(v3) /\ Pk!ToSet(v3) \subseteq Panelist
<1>1. v3 \in UNION {Pk!SetToSeqs(P) : P \in (SUBSET Panelist) \ {{}}}
  BY DEF Pk!TypeOK
<1>2. v3 \in Seq(Panelist)
  BY <1>1, PanelIsSeq
<1>3. Len(v3) >= 2
  BY <1>2
<1>. QED
  BY <1>1, <1>3, PanelIsSeq

(* The main thread goes on when the pool is done. *)
LEMMA PickGathers ==
  ASSUME Pk!PickInv, Pk!GatherRaises \/ Pk!StopEarly \/ Pk!AskTheRest \/ Pk!GatherAll
  PROVE  Pk!PickInv'
<1>1. /\ Pk!TypeOK /\ Pk!Joined /\ v1 \in {"first", "all"}
      /\ UNCHANGED <<v2, v3, v5, v8, v9>>
  BY DEF Pk!PickInv, Pk!GatherRaises, Pk!StopEarly, Pk!AskTheRest, Pk!GatherAll, Pk!request,
         Pk!pool
<1>2. /\ v8 = {} /\ v9 = 0
      /\ v1 = "first" => Len(v3) >= 3 /\ Pk!Called = {Pk!First, Pk!Second} /\ ~v6
      /\ v1 = "all" => Pk!Called = Pk!ToSet(v3)
  BY <1>1 DEF Pk!PickInv
<1>3. Pk!First' = Pk!First /\ Pk!Second' = Pk!Second /\ (Pk!ToSet(v3))' = Pk!ToSet(v3) /\
        (Pk!Agree' <=> Pk!Agree)
  BY <1>1, SameScores
<1>4. CASE Pk!GatherRaises
  <2>1. v1' = "raised" /\ UNCHANGED <<v4, v6, v7>>
    BY <1>4 DEF Pk!GatherRaises, Pk!pool
  <2>2. Pk!TypeOK' /\ Pk!Joined'
    BY <1>1, <2>1 DEF Pk!TypeOK, Pk!Joined
  <2>. QED
    BY <1>1, <1>2, <2>1, <2>2 DEF Pk!PickInv
<1>5. CASE Pk!StopEarly
  <2>1. /\ v1 = "first" /\ v1' = "commit" /\ v7' = TRUE /\ UNCHANGED <<v4, v6>>
        /\ ~Pk!Raised /\ Pk!Agree
    BY <1>5 DEF Pk!StopEarly, Pk!pool
  <2>2. Pk!TypeOK' /\ Pk!Joined' /\ Pk!Called' = Pk!Called /\ ~Pk!Raised'
    BY <1>1, <2>1 DEF Pk!TypeOK, Pk!Joined, Pk!Called, Pk!Raised
  <2>3. Pk!Agree'
    BY <1>3, <2>1
  <2>4. Pk!Called' = {Pk!First', Pk!Second'} /\ Len(v3') >= 3 /\ v7' /\ ~v6'
    BY <1>1, <1>2, <1>3, <2>1, <2>2
  <2>. QED
    BY <1>1, <1>2, <2>1, <2>2, <2>3, <2>4 DEF Pk!PickInv
<1>6. CASE Pk!AskTheRest
  <2>1. /\ v1 = "first" /\ v1' = "all" /\ UNCHANGED v7
        /\ v6' \in BOOLEAN
        /\ Pk!Queue(Pk!ToSet(v3) \ {Pk!First, Pk!Second})
    BY <1>6 DEF Pk!AskTheRest
  <2>2. {Pk!First, Pk!Second} \subseteq Pk!ToSet(v3) /\ Pk!ToSet(v3) \subseteq Panelist
    BY <1>1, <1>2, <2>1, FirstTwo
  <2>3. v4 \in [Panelist -> {"none", "queued", "asking", "answered", "raised"}]
    BY <1>1 DEF Pk!TypeOK
  <2>4. /\ v4' \in [Panelist -> {"none", "queued", "asking", "answered", "raised"}]
        /\ \A p \in Panelist : v4'[p] # "none" <=> p \in Pk!ToSet(v3) \/ p \in Pk!Called
    BY <1>2, <2>1, <2>2, <2>3 DEF Pk!Queue, Pk!Called
  <2>5. Pk!Called' = Pk!ToSet(v3)
    BY <1>2, <2>1, <2>2, <2>4 DEF Pk!Called
  <2>6. Pk!TypeOK'
    BY <1>1, <2>1, <2>4 DEF Pk!TypeOK
  <2>. QED
    BY <1>1, <1>2, <1>3, <2>1, <2>5, <2>6 DEF Pk!PickInv
<1>7. CASE Pk!GatherAll
  <2>1. /\ v1 = "all" /\ v1' = "commit" /\ UNCHANGED <<v4, v6, v7>> /\ ~Pk!Raised
    BY <1>7 DEF Pk!GatherAll, Pk!pool
  <2>2. Pk!TypeOK' /\ Pk!Joined' /\ Pk!Called' = Pk!Called /\ ~Pk!Raised'
    BY <1>1, <2>1 DEF Pk!TypeOK, Pk!Joined, Pk!Called, Pk!Raised
  <2>. QED
    BY <1>1, <1>2, <1>3, <2>1, <2>2 DEF Pk!PickInv
<1>. QED
  BY <1>4, <1>5, <1>6, <1>7

(* The commit takes whoever was asked, and claims the leader. *)
LEMMA PickCommits == ASSUME Pk!PickInv, Pk!Commit PROVE Pk!PickInv'
<1>1. /\ v1 = "commit" /\ v1' = "done" /\ Pk!TypeOK
      /\ v8' = {p \in Panelist : v4[p] = "answered"} /\ v9' = Pk!Leader(v5)
      /\ UNCHANGED <<v2, v3, v4, v5, v6, v7>>
  BY DEF Pk!PickInv, Pk!Commit, Pk!request, Pk!pool
<1>2. /\ Pk!Joined /\ ~Pk!Raised
      /\ \/ Pk!Called = Pk!ToSet(v3)
         \/ Pk!Called = {Pk!First, Pk!Second} /\ Len(v3) >= 3 /\ v7 /\ ~v6 /\ Pk!Agree
  BY <1>1 DEF Pk!PickInv
<1>3. v8' = Pk!Called
  BY <1>1, <1>2 DEF Pk!Joined, Pk!Raised, Pk!Called
<1>4. Pk!Called \subseteq Pk!ToSet(v3)
  BY <1>1, <1>2, FirstTwo
<1>5. Pk!Leader(v5) \in Pk!Option
  BY LeaderLeads
<1>6. Pk!TypeOK'
  BY <1>1, <1>3, <1>4, <1>5 DEF Pk!TypeOK
<1>7. /\ Pk!First' = Pk!First /\ Pk!Second' = Pk!Second /\ (Pk!ToSet(v3))' = Pk!ToSet(v3)
      /\ (Pk!Agree' <=> Pk!Agree) /\ Pk!Leader(v5)' = Pk!Leader(v5)
  BY <1>1, SameScores
<1>8. Pk!Called' = Pk!Called /\ Pk!Joined' /\ ~Pk!Raised'
  BY <1>1, <1>2 DEF Pk!Called, Pk!Joined, Pk!Raised
<1>9. v9' = Pk!Leader(v5)'
  BY <1>1, <1>7
<1>. QED
  BY <1>1, <1>2, <1>3, <1>6, <1>7, <1>8, <1>9 DEF Pk!PickInv

(* Every step of pick keeps its invariant. *)
LEMMA PickStep == ASSUME Pk!PickInv, Pk!Next PROVE Pk!PickInv'
BY PickEnters, PickThreads, PickGathers, PickCommits DEF Pk!Next, Pk!Stopped

(* A provider's choice is an option it scored, and none higher. *)
LEMMA ChoiceIsBest ==
  ASSUME Pk!PickInv, NEW p \in Panelist, Pk!Choice(v5[p]) # -1
  PROVE  /\ Pk!Choice(v5[p]) \in DOMAIN v5[p]
         /\ Pk!Choice(v5[p]) \in {0} \union Pk!Option
         /\ \A j \in DOMAIN v5[p] : v5[p][j].overall <= v5[p][Pk!Choice(v5[p])].overall
<1>. DEFINE D == DOMAIN v5[p]
            T == {i \in D : \A j \in D : v5[p][j].overall <= v5[p][i].overall}
            f == [i \in D |-> v5[p][i].overall]
<1>1. D # {} /\ Pk!Choice(v5[p]) = Max(T)
  BY PickOperators DEF Pk!Choice
<1>2. D \subseteq 0 .. NOptions /\ \A i \in D : f[i] = v5[p][i].overall /\ f[i] \in 0 .. 10
  BY <1>1, ScoresAreNumbers
<1>3. IsFiniteSet(D)
  <2>1. IsFiniteSet(0 .. NOptions)
    BY FS_Interval, PickConstants
  <2>. QED
    BY <1>2, <2>1, FS_Subset
<1>4. T # {}
  <2>1. \A i \in D : f[i] \in Nat
    BY <1>2
  <2>2. \E i \in D : \A j \in D : f[j] <= f[i]
    <3>. HIDE DEF f, D
    <3>. QED
      BY <1>1, <1>3, <2>1, GreatestValue
  <2>3. \A i \in D : f[i] = v5[p][i].overall
    OBVIOUS
  <2>. QED
    BY <2>2, <2>3
<1>5. Max(T) \in T
  <2>1. T \in SUBSET (0 .. NOptions) /\ NOptions \in Nat
    BY <1>2, PickConstants
  <2>. HIDE DEF T
  <2>. QED
    BY <1>4, <2>1, GreatestIsMax
<1>6. 0 .. NOptions \subseteq {0} \union Pk!Option
  BY PickConstants DEF Pk!Option
<1>. QED
  BY <1>1, <1>2, <1>5, <1>6

(* What the invariant says of a call of pick. *)
LEMMA PickHolds == ASSUME Pk!PickInv PROVE Pk!TypeOK /\ Pk!AnswersCommitted /\ Pk!SkippedIsAgreed
<1>1. Pk!TypeOK
  BY DEF Pk!PickInv
<1>2. /\ v1 = "done" => v8 = Pk!Called
      /\ v1 \in {"commit", "raised", "done"} => Pk!Joined
      /\ v1 \in {"commit", "done"} =>
           \/ Pk!Called = Pk!ToSet(v3)
           \/ Pk!Called = {Pk!First, Pk!Second} /\ Len(v3) >= 3 /\ v7 /\ ~v6 /\ Pk!Agree
  BY DEF Pk!PickInv
<1>3. Pk!ToSet(v3) \subseteq Panelist
  <2>1. v3 \in UNION {Pk!SetToSeqs(P) : P \in (SUBSET Panelist) \ {{}}}
    BY <1>1 DEF Pk!TypeOK
  <2>. QED
    BY <2>1, PanelIsSeq
<1>4. Pk!AnswersCommitted
  <2>1. ASSUME v1 = "done" PROVE v8 = {p \in Pk!ToSet(v3) : v4[p] # "none"}
    <3>1. v8 = Pk!Called /\ Pk!Called \subseteq Pk!ToSet(v3)
      BY <1>1, <1>2, <2>1, FirstTwo
    <3>. QED
      BY <1>3, <3>1 DEF Pk!Called
  <2>. QED
    BY <1>2, <2>1 DEF Pk!AnswersCommitted
<1>5. Pk!SkippedIsAgreed
  <2>. SUFFICES ASSUME v1 \in {"commit", "done"}, NEW q \in Pk!ToSet(v3), v4[q] = "none"
                PROVE  /\ v7 /\ ~v6 /\ Len(v3) >= 3
                       /\ \E i \in {0} \union Pk!Option : \A p \in {Pk!First, Pk!Second} :
                            /\ i \in DOMAIN v5[p] /\ v5[p][i].overall >= Sure
                            /\ \A j \in DOMAIN v5[p] :
                                 v5[p][j].overall <= v5[p][i].overall
    BY DEF Pk!SkippedIsAgreed
  <2>1. Pk!Called # Pk!ToSet(v3)
    BY DEF Pk!Called
  <2>2. Len(v3) >= 3 /\ v7 /\ ~v6 /\ Pk!Agree
    BY <1>2, <2>1
  <2>3. Pk!First \in Panelist /\ Pk!Second \in Panelist
    BY <1>1, <2>2, FirstTwo
  <2>. DEFINE i == Pk!Choice(v5[Pk!First])
  <2>4. /\ i # -1 /\ i = Pk!Choice(v5[Pk!Second])
        /\ \A p \in {Pk!First, Pk!Second} : v5[p][i].overall >= Sure
    BY <2>2 DEF Pk!Agree
  <2>5. /\ i \in DOMAIN v5[Pk!First] /\ i \in {0} \union Pk!Option
        /\ \A j \in DOMAIN v5[Pk!First] : v5[Pk!First][j].overall <= v5[Pk!First][i].overall
    BY <2>3, <2>4, ChoiceIsBest
  <2>6. /\ i \in DOMAIN v5[Pk!Second]
        /\ \A j \in DOMAIN v5[Pk!Second] : v5[Pk!Second][j].overall <= v5[Pk!Second][i].overall
    BY <2>3, <2>4, ChoiceIsBest
  <2>. HIDE DEF i
  <2>. QED
    BY <2>2, <2>4, <2>5, <2>6
<1>. QED
  BY <1>1, <1>4, <1>5

(* A quotient by up to six grows with the number. *)
LEMMA QuotientGrows ==
  ASSUME NEW a \in Nat, NEW b \in Nat, NEW k \in 1 .. 6
  PROVE  a <= b => a \div k <= b \div k
<1>1. k = 1 \/ k = 2 \/ k = 3 \/ k = 4 \/ k = 5 \/ k = 6
  OBVIOUS
<1>. QED
  BY <1>1

(* So does a product. *)
LEMMA ProductGrows ==
  ASSUME NEW a \in Nat, NEW b \in Nat, NEW w \in Nat
  PROVE  a <= b => a * w <= b * w
<1>1. CASE w = 0
  BY <1>1
<1>2. CASE w # 0
  BY <1>2, TimesGrows
<1>. QED
  BY <1>1, <1>2

(* When every object is complete, all who gave one score everything. *)
LEMMA AllScore ==
  ASSUME \A p \in Panelist : v5[p] # Pk!NoObject => Pk!Complete(v5[p]),
         NEW i \in Pk!Option, NEW c \in Criterion
  PROVE  Pk!Scorers(v5, i, c) = {p \in Panelist : v5[p] # Pk!NoObject}
<1>1. ASSUME NEW p \in Panelist, v5[p] # Pk!NoObject
      PROVE  i \in DOMAIN v5[p] /\ c \in DOMAIN v5[p][i].by
  BY <1>1 DEF Pk!Complete
<1>2. \A p \in Panelist : i \in DOMAIN v5[p] => v5[p] # Pk!NoObject
  BY DEF Pk!NoObject
<1>. QED
  BY <1>1, <1>2 DEF Pk!Scorers

(* Scores that are no lower have a mean that is no lower. *)
LEMMA MeanGrows ==
  ASSUME Pk!PickInv, NEW i, NEW j, NEW c,
         Pk!Scorers(v5, i, c) = Pk!Scorers(v5, j, c),
         \A p \in Pk!Scorers(v5, i, c) : v5[p][i].by[c] <= v5[p][j].by[c]
  PROVE  Pk!Mean(v5, i, c) <= Pk!Mean(v5, j, c)
<1>. DEFINE S == Pk!Scorers(v5, i, c)
            k == Pk!Cardinality(S)
            a == SumFunctionOnSet(Points(i, c), S)
            b == SumFunctionOnSet(Points(j, c), S)
<1>1. CASE S = {}
  <2>1. Pk!Mean(v5, i, c) = 0 /\ Pk!Mean(v5, j, c) = 0
    BY <1>1, MeanIs
  <2>. QED
    BY <2>1
<1>2. CASE S # {}
  <2>1. k \in 1 .. 6 /\ IsFiniteSet(S)
    BY <1>2, ScorersAreFew
  <2>2. Pk!Mean(v5, i, c) = a \div k /\ Pk!Mean(v5, j, c) = b \div k
    BY <1>2, MeanIs
  <2>3. a \in Nat /\ b \in Nat
    BY PointsAreNumbers
  <2>4. \A p \in S : /\ Points(i, c)[p] = v5[p][i].by[c] * 60
                     /\ Points(j, c)[p] = v5[p][j].by[c] * 60
                     /\ v5[p][i].by[c] \in 0 .. 10 /\ v5[p][j].by[c] \in 0 .. 10
    BY PointsAreNumbers
  <2>5. \A p \in S : /\ Points(i, c)[p] \in Int /\ Points(j, c)[p] \in Int
                     /\ Points(i, c)[p] <= Points(j, c)[p]
    <3>. HIDE DEF S
    <3>1. \A p \in S : v5[p][i].by[c] <= v5[p][j].by[c]
      BY DEF S
    <3>. QED
      BY <2>4, <3>1
  <2>. HIDE DEF S, k
  <2>6. a <= b
    BY <2>1, <2>5, SumGrows
  <2>. HIDE DEF a, b
  <2>. QED
    BY <2>1, <2>2, <2>3, <2>6, QuotientGrows
<1>. QED
  BY <1>1, <1>2

(* The leader is not dominated, but by a later name with the same score. *)
LEMMA LeaderUndominated == ASSUME Pk!PickInv PROVE Pk!LeaderIsUndominated
<1>. DEFINE S == {p \in Panelist : v5[p] # Pk!NoObject}
<1>. SUFFICES ASSUME v1 = "done", \A p \in S : Pk!Complete(v5[p]), NEW i \in Pk!Option,
                     \A p \in S, c \in Criterion : v5[p][i].by[c] >= v5[p][v9].by[c]
              PROVE  v9 <= i /\ Pk!Weighted(v5, i) = Pk!Weighted(v5, v9)
  BY DEF Pk!LeaderIsUndominated
<1>1. /\ v9 \in Pk!Option /\ Pk!Weighted(v5, i) <= Pk!Weighted(v5, v9)
      /\ Pk!Weighted(v5, i) = Pk!Weighted(v5, v9) => v9 <= i
  BY LeaderLeads DEF Pk!PickInv
<1>2. \A c \in Criterion : Pk!Scorers(v5, i, c) = S /\ Pk!Scorers(v5, v9, c) = S
  BY <1>1, AllScore
<1>3. \A c \in Criterion, p \in S : v5[p][i].by[c] \in 0 .. 10 /\ v5[p][v9].by[c] \in 0 .. 10
  BY <1>2, PointsAreNumbers
<1>4. ASSUME NEW c \in Criterion
      PROVE  /\ Pk!Mean(v5, v9, c) <= Pk!Mean(v5, i, c)
             /\ Pk!Mean(v5, v9, c) \in Nat /\ Pk!Mean(v5, i, c) \in Nat
  <2>1. \A p \in S : v5[p][v9].by[c] <= v5[p][i].by[c]
    BY <1>3
  <2>2. Pk!Mean(v5, v9, c) \in Nat /\ Pk!Mean(v5, i, c) \in Nat
    BY MeanIs
  <2>. HIDE DEF S
  <2>. QED
    BY <1>2, <2>1, <2>2, MeanGrows
<1>5. \A c \in Criterion : Weight[c] \in Nat
  BY PickConstants
<1>6. \A c \in Criterion : /\ Parts(v9)[c] \in Int /\ Parts(i)[c] \in Int
                           /\ Parts(v9)[c] <= Parts(i)[c]
  <2>1. \A c \in Criterion : /\ Parts(v9)[c] = Pk!Mean(v5, v9, c) * Weight[c]
                             /\ Parts(i)[c] = Pk!Mean(v5, i, c) * Weight[c]
                             /\ Parts(v9)[c] \in Nat /\ Parts(i)[c] \in Nat
    BY TotalIs
  <2>. QED
    BY <1>4, <1>5, <2>1, ProductGrows
<1>7. Pk!Total(v5, v9) <= Pk!Total(v5, i)
  <2>1. SumFunctionOnSet(Parts(v9), Criterion) <= SumFunctionOnSet(Parts(i), Criterion)
    BY <1>6, SumGrows, PickConstants
  <2>. QED
    BY <2>1, TotalIs
<1>8. /\ Pk!Weighted(v5, v9) <= Pk!Weighted(v5, i)
      /\ Pk!Weighted(v5, v9) \in Nat /\ Pk!Weighted(v5, i) \in Nat
  BY <1>7, WeightedIs
<1>. QED
  BY <1>1, <1>8

(* A leader without a score means that every score is rounded to zero. *)
LEMMA LeaderScored == ASSUME Pk!PickInv PROVE Pk!LeaderIsScored
<1>. SUFFICES ASSUME v1 = "done", \A c \in Criterion : Pk!Scorers(v5, v9, c) = {},
                     NEW i \in Pk!Option
              PROVE  2 * Pk!Total(v5, i) * Grain <= 10 * Pk!Unit * Pk!AllWeight
  BY DEF Pk!LeaderIsScored
<1>1. v9 \in Pk!Option /\ Pk!Weighted(v5, i) <= Pk!Weighted(v5, v9)
  BY LeaderLeads DEF Pk!PickInv
<1>2. Pk!Weighted(v5, v9) = 0
  <2>1. \A k \in Criterion : Pk!Mean(v5, v9, k) = 0 /\ Weight[k] \in Nat
    BY MeanIs, PickConstants
  <2>2. \A k \in Criterion : Parts(v9)[k] = 0
    BY <2>1, TotalIs
  <2>3. SumFunctionOnSet(Parts(v9), Criterion) = 0
    BY <2>2, SumOfZeros, PickConstants
  <2>. QED
    BY <2>3, TotalIs, WeightedIs
<1>3. Pk!Weighted(v5, i) = 0
  <2>1. Pk!Weighted(v5, i) \in Nat
    BY WeightedIs
  <2>. QED
    BY <1>1, <1>2, <2>1
<1>4. 2 * Pk!Total(v5, i) * Grain <= 600 * Pk!AllWeight /\ Pk!AllWeight \in Nat
  BY <1>3, WeightedIs
<1>5. 10 * Pk!Unit * Pk!AllWeight = 600 * Pk!AllWeight
  BY <1>4 DEF Pk!Unit
<1>. QED
  BY <1>4, <1>5

-----------------------------------------------------------------------------
(* The router.                                                             *)

(* What the router knows of the providers. *)
LEMMA RouterConstants ==
  /\ IsFiniteSet(Ranked) /\ Ranked \subseteq Nat
  /\ Price \in [Ranked -> Nat] /\ Tokens \in [Ranked -> Nat] /\ Trust \in [Ranked -> Nat]
  /\ ColdBelow \in Nat /\ Grain \in Nat \ {0} /\ MaxCalls \in Nat
BY ConstantsFit DEF Rank!RouterAssumption, Rank!IsFiniteSet, IsFiniteSet

(* The community operators are the same in the instance. *)
LEMMA RouterOperators ==
  /\ \A f, S : Rank!SumFunctionOnSet(f, S) = SumFunctionOnSet(f, S)
  /\ \A S : Rank!Min(S) = Min(S)
  /\ \A S : Rank!Cardinality(S) = Cardinality(S)
  /\ \A n, d : Rank!Nearest(n, d) = Nearest(n, d)
<1>1. \A f, S : Rank!SumFunctionOnSet(f, S) = SumFunctionOnSet(f, S)
  BY DEF Rank!SumFunctionOnSet, SumFunctionOnSet, Rank!FoldFunctionOnSet, FoldFunctionOnSet,
         Rank!MapThenFoldSet, MapThenFoldSet
<1>2. \A S : Rank!Min(S) = Min(S)
  BY DEF Rank!Min, Min
<1>3. \A S : Rank!Cardinality(S) = Cardinality(S)
  BY DEF Rank!Cardinality, Cardinality
<1>4. \A n, d : Rank!Nearest(n, d) = Nearest(n, d)
  BY DEF Rank!Nearest, Nearest
<1>. QED
  BY <1>1, <1>2, <1>3, <1>4

(* The calls that the router has seen of each provider. *)
Seen == [p \in Ranked |-> Rank!Made(p) + v3[p]]

(* They are numbers, and none of more calls than there are.                *)
LEMMA SeenAreNumbers ==
  ASSUME Rank!TypeOK
  PROVE  /\ Rank!AllCalls = SumFunctionOnSet(Seen, Ranked) /\ Rank!AllCalls \in Nat
         /\ \A p \in Ranked :
              /\ Seen[p] = v1[p].ok + v1[p].failed + v2[p].ok + v2[p].failed
                             + v3[p]
              /\ Seen[p] \in Nat /\ Seen[p] <= Rank!AllCalls
              /\ v1[p].ok \in Nat /\ v1[p].failed \in Nat
              /\ v2[p].ok \in Nat /\ v2[p].failed \in Nat /\ v3[p] \in Nat
<1>1. Rank!AllCalls = SumFunctionOnSet(Seen, Ranked)
  BY RouterOperators DEF Rank!AllCalls, Seen
<1>2. ASSUME NEW p \in Ranked
      PROVE  /\ v1[p].ok \in Nat /\ v1[p].failed \in Nat
             /\ v2[p].ok \in Nat /\ v2[p].failed \in Nat /\ v3[p] \in Nat
  BY RouterConstants DEF Rank!TypeOK, Rank!Outcomes
<1>3. \A p \in Ranked :
        Seen[p] = v1[p].ok + v1[p].failed + v2[p].ok + v2[p].failed + v3[p]
  BY DEF Seen, Rank!Made
<1>4. \A p \in Ranked : Seen[p] \in Nat
  BY <1>2, <1>3
<1>5. SumFunctionOnSet(Seen, Ranked) \in Nat
  BY <1>4, RouterConstants, SumOfNats
<1>6. \A p \in Ranked : Seen[p] <= SumFunctionOnSet(Seen, Ranked)
  BY <1>4, RouterConstants, PartOfSum
<1>. QED
  BY <1>1, <1>2, <1>3, <1>4, <1>5, <1>6

(* The router begins without a call. *)
LEMMA RouterStarts == Rank!Init => Rank!TypeOK
<1>. SUFFICES ASSUME Rank!Init PROVE Rank!TypeOK
  OBVIOUS
<1>1. 0 \in 0 .. MaxCalls
  BY RouterConstants
<1>2. /\ v1 \in [Ranked -> Rank!Outcomes] /\ v2 \in [Ranked -> Rank!Outcomes]
      /\ v3 \in [Ranked -> 0 .. MaxCalls]
  BY <1>1 DEF Rank!Init, Rank!Outcomes
<1>3. \A p \in Ranked : Seen[p] = 0
  BY DEF Rank!Init, Seen, Rank!Made
<1>4. Rank!AllCalls = 0
  <2>1. SumFunctionOnSet(Seen, Ranked) = 0
    BY <1>3, SumOfZeros, RouterConstants
  <2>. QED
    BY <2>1, RouterOperators DEF Rank!AllCalls, Seen
<1>. QED
  BY <1>1, <1>2, <1>4 DEF Rank!TypeOK

(* One more call of one provider is one more call. *)
LEMMA OneMore ==
  ASSUME Rank!TypeOK, NEW p \in Ranked, \A q \in Ranked : Seen'[q] \in Nat,
         Seen'[p] = Seen[p] + 1, \A q \in Ranked : q # p => Seen'[q] = Seen[q]
  PROVE  Rank!AllCalls' = Rank!AllCalls + 1
<1>1. Rank!AllCalls = SumFunctionOnSet(Seen, Ranked)
  BY SeenAreNumbers
<1>2. Rank!AllCalls' = SumFunctionOnSet(Seen', Ranked)
  BY RouterOperators DEF Rank!AllCalls, Seen
<1>3. \A q \in Ranked : Seen[q] \in Int
  BY SeenAreNumbers
<1>4. \A f, g : /\ \A q \in Ranked : f[q] \in Int
                /\ \A q \in Ranked : g[q] \in Int
                /\ \A q \in Ranked : q # p => f[q] = g[q]
                => /\ SumFunctionOnSet(f, Ranked) \in Int
                   /\ SumFunctionOnSet(g, Ranked) = SumFunctionOnSet(f, Ranked) + (g[p] - f[p])
  <2>1. IsFiniteSet(Ranked)
    BY RouterConstants
  <2>. QED
    BY <2>1, SumMoves
<1>5. /\ SumFunctionOnSet(Seen, Ranked) \in Int
      /\ SumFunctionOnSet(Seen', Ranked) = SumFunctionOnSet(Seen, Ranked) + (Seen'[p] - Seen[p])
  <2>1. \A q \in Ranked : Seen'[q] \in Int
    OBVIOUS
  <2>. QED
    BY <1>3, <1>4, <2>1
<1>. QED
  BY <1>1, <1>2, <1>3, <1>5

(* The outcomes f with one more o of p. *)
OneMoreOf(f, p, o) == [f EXCEPT ![p][o] = @ + 1]

(* They are outcomes of one call more. *)
LEMMA OutcomeCounted ==
  ASSUME NEW f \in [Ranked -> Rank!Outcomes], NEW p \in Ranked, NEW o \in {"ok", "failed"},
         f[p].ok < MaxCalls, f[p].failed < MaxCalls,
         NEW g, g = OneMoreOf(f, p, o)
  PROVE  /\ g \in [Ranked -> Rank!Outcomes]
         /\ g[p].ok + g[p].failed = f[p].ok + f[p].failed + 1
         /\ \A q \in Ranked : q # p => g[q] = f[q]
<1>. USE DEF OneMoreOf
<1>1. \A q \in Ranked : q # p => g[q] = f[q]
  OBVIOUS
<1>2. g[p] = [f[p] EXCEPT ![o] = @ + 1] /\ DOMAIN g = Ranked
      /\ g = [q \in Ranked |-> g[q]]
  OBVIOUS
<1>3. f[p] \in [ok : 0 .. MaxCalls, failed : 0 .. MaxCalls]
  BY DEF Rank!Outcomes
<1>4. f[p].ok + 1 \in 0 .. MaxCalls /\ f[p].failed + 1 \in 0 .. MaxCalls
      /\ f[p].ok \in 0 .. MaxCalls /\ f[p].failed \in 0 .. MaxCalls
  BY <1>3, RouterConstants
<1>5. CASE o = "ok"
  <2>1. g[p] = [f[p] EXCEPT !.ok = f[p].ok + 1]
    BY <1>2, <1>5
  <2>2. g[p] \in [ok : 0 .. MaxCalls, failed : 0 .. MaxCalls]
    BY <1>3, <1>4, <2>1, Zenon
  <2>3. g[p].ok = f[p].ok + 1 /\ g[p].failed = f[p].failed
    BY <1>3, <2>1, Zenon
  <2>4. g \in [Ranked -> Rank!Outcomes]
    <3>1. \A q \in Ranked : g[q] \in Rank!Outcomes
      BY <1>1, <2>2 DEF Rank!Outcomes
    <3>. QED
      BY <1>2, <3>1
  <2>. QED
    BY <1>1, <1>4, <2>3, <2>4
<1>6. CASE o = "failed"
  <2>1. g[p] = [f[p] EXCEPT !.failed = f[p].failed + 1]
    BY <1>2, <1>6
  <2>2. g[p] \in [ok : 0 .. MaxCalls, failed : 0 .. MaxCalls]
    BY <1>3, <1>4, <2>1, Zenon
  <2>3. g[p].failed = f[p].failed + 1 /\ g[p].ok = f[p].ok
    BY <1>3, <2>1, Zenon
  <2>4. g \in [Ranked -> Rank!Outcomes]
    <3>1. \A q \in Ranked : g[q] \in Rank!Outcomes
      BY <1>1, <2>2 DEF Rank!Outcomes
    <3>. QED
      BY <1>2, <3>1
  <2>. QED
    BY <1>1, <1>4, <2>3, <2>4
<1>. QED
  BY <1>5, <1>6

(* A call is counted once, and within the bound. *)
LEMMA RouterStep == ASSUME Rank!TypeOK, Rank!Next PROVE Rank!TypeOK'
<1>1. PICK p \in Ranked : Rank!CallLogged(p) \/ Rank!CallOutside(p) \/ Rank!FailElsewhere(p)
  BY DEF Rank!Next
<1>2. /\ Rank!Bounded /\ Rank!AllCalls \in Nat /\ MaxCalls \in Nat
      /\ v1 \in [Ranked -> Rank!Outcomes] /\ v2 \in [Ranked -> Rank!Outcomes]
      /\ v3 \in [Ranked -> 0 .. MaxCalls]
  BY <1>1, SeenAreNumbers, RouterConstants
     DEF Rank!CallLogged, Rank!CallOutside, Rank!FailElsewhere, Rank!TypeOK
<1>3. /\ v1[p].ok < MaxCalls /\ v1[p].failed < MaxCalls
      /\ v2[p].ok < MaxCalls /\ v2[p].failed < MaxCalls /\ v3[p] < MaxCalls
  <2>1. /\ Seen[p] = v1[p].ok + v1[p].failed + v2[p].ok + v2[p].failed + v3[p]
        /\ Seen[p] \in Nat /\ Seen[p] <= Rank!AllCalls
        /\ v1[p].ok \in Nat /\ v1[p].failed \in Nat
        /\ v2[p].ok \in Nat /\ v2[p].failed \in Nat /\ v3[p] \in Nat
    BY SeenAreNumbers
  <2>2. Rank!AllCalls < MaxCalls
    BY <1>2 DEF Rank!Bounded
  <2>. QED
    BY <1>2, <2>1, <2>2
<1>4. \A q \in Ranked : /\ v1[q].ok \in Nat /\ v1[q].failed \in Nat
                          /\ v2[q].ok \in Nat /\ v2[q].failed \in Nat /\ v3[q] \in Nat
  BY SeenAreNumbers
<1>5. /\ v1' \in [Ranked -> Rank!Outcomes] /\ v2' \in [Ranked -> Rank!Outcomes]
      /\ v3' \in [Ranked -> 0 .. MaxCalls]
      /\ \A q \in Ranked : q # p =>
           v1'[q] = v1[q] /\ v2'[q] = v2[q] /\ v3'[q] = v3[q]
      /\ v1'[p].ok + v1'[p].failed + (v2'[p].ok + v2'[p].failed) + v3'[p]
           = v1[p].ok + v1[p].failed + (v2[p].ok + v2[p].failed) + v3[p] + 1
  <2>1. CASE Rank!CallLogged(p)
    <3>1. PICK o \in {"ok", "failed"} : v1' = OneMoreOf(v1, p, o)
      BY <2>1 DEF Rank!CallLogged, OneMoreOf
    <3>2. UNCHANGED <<v2, v3>>
      BY <2>1 DEF Rank!CallLogged
    <3>3. /\ v1' \in [Ranked -> Rank!Outcomes]
          /\ v1'[p].ok + v1'[p].failed = v1[p].ok + v1[p].failed + 1
          /\ \A q \in Ranked : q # p => v1'[q] = v1[q]
      BY <1>2, <1>3, <3>1, OutcomeCounted
    <3>4. v1'[p].ok \in Nat /\ v1'[p].failed \in Nat
      BY <3>3, RouterConstants DEF Rank!Outcomes
    <3>. QED
      BY <1>2, <1>4, <3>2, <3>3, <3>4
  <2>2. CASE Rank!CallOutside(p)
    <3>1. PICK o \in {"ok", "failed"} : v2' = OneMoreOf(v2, p, o)
      BY <2>2 DEF Rank!CallOutside, OneMoreOf
    <3>2. UNCHANGED <<v1, v3>>
      BY <2>2 DEF Rank!CallOutside
    <3>3. /\ v2' \in [Ranked -> Rank!Outcomes]
          /\ v2'[p].ok + v2'[p].failed = v2[p].ok + v2[p].failed + 1
          /\ \A q \in Ranked : q # p => v2'[q] = v2[q]
      BY <1>2, <1>3, <3>1, OutcomeCounted
    <3>4. v2'[p].ok \in Nat /\ v2'[p].failed \in Nat
      BY <3>3, RouterConstants DEF Rank!Outcomes
    <3>. QED
      BY <1>2, <1>4, <3>2, <3>3, <3>4
  <2>3. CASE Rank!FailElsewhere(p)
    <3>1. v3' = [v3 EXCEPT ![p] = v3[p] + 1] /\ UNCHANGED <<v1, v2>>
      BY <2>3 DEF Rank!FailElsewhere
    <3>2. v3[p] + 1 \in 0 .. MaxCalls
      BY <1>2, <1>3, <1>4
    <3>3. /\ v3' \in [Ranked -> 0 .. MaxCalls] /\ v3'[p] = v3[p] + 1
          /\ \A q \in Ranked : q # p => v3'[q] = v3[q]
      BY <1>2, <3>1, <3>2
    <3>. QED
      BY <1>2, <1>4, <3>1, <3>3
  <2>. QED
    BY <1>1, <2>1, <2>2, <2>3
<1>6. \A q \in Ranked :
        /\ Seen[q] = v1[q].ok + v1[q].failed + v2[q].ok + v2[q].failed + v3[q]
        /\ Seen'[q] = v1'[q].ok + v1'[q].failed + v2'[q].ok + v2'[q].failed
                        + v3'[q]
  BY DEF Seen, Rank!Made
<1>7. \A q \in Ranked : /\ v1'[q].ok \in Nat /\ v1'[q].failed \in Nat
                          /\ v2'[q].ok \in Nat /\ v2'[q].failed \in Nat
                          /\ v3'[q] \in Nat
  BY <1>5, RouterConstants DEF Rank!Outcomes
<1>8. /\ \A q \in Ranked : Seen'[q] \in Nat
      /\ Seen'[p] = Seen[p] + 1
      /\ \A q \in Ranked : q # p => Seen'[q] = Seen[q]
  <2>1. \A q \in Ranked : Seen'[q] \in Nat
    BY <1>6, <1>7
  <2>2. Seen'[p] = Seen[p] + 1
    BY <1>4, <1>5, <1>6, <1>7
  <2>3. \A q \in Ranked : q # p => Seen'[q] = Seen[q]
    BY <1>5, <1>6
  <2>. QED
    BY <2>1, <2>2, <2>3
<1>9. Rank!AllCalls' = Rank!AllCalls + 1
  BY <1>8, OneMore
<1>. QED
  BY <1>2, <1>5, <1>9 DEF Rank!TypeOK, Rank!Bounded

(* Nothing is counted while nothing happens. *)
LEMMA RouterRests == ASSUME Rank!TypeOK, UNCHANGED Rank!vars PROVE Rank!TypeOK'
BY DEF Rank!vars, Rank!TypeOK, Rank!AllCalls, Rank!Made

(* A step of Euclid's algorithm, given the divisors for smaller numbers.   *)
Divisors(g, n) == [m \in Nat |-> IF n = 0 THEN m ELSE g[m % n][n]]

(* The table of them up to n.                                              *)
Euclid(g, n) == g = [k \in 0 .. n |-> Divisors(g, k)]

(* What is left of a number is less than what it was divided by. *)
LEMMA Remainder ==
  ASSUME NEW m \in Nat, NEW n \in Nat, n > 0
  PROVE  m % n \in 0 .. n - 1 /\ m \div n \in Nat /\ m = (m \div n) * n + (m % n)
OBVIOUS

(* Two tables agree where both are defined. *)
LEMMA TablesAgree ==
  ASSUME NEW a \in Nat, NEW b \in Nat, NEW g, NEW h, Euclid(g, a), Euclid(h, b)
  PROVE  \A n \in Nat : n <= a /\ n <= b => g[n] = h[n]
<1>. DEFINE F == {n \in Nat : n <= a /\ n <= b /\ g[n] # h[n]}
<1>1. SUFFICES ASSUME F # {} PROVE FALSE
  OBVIOUS
<1>2. PICK n \in F : \A k \in F : n <= k
  <2>1. F \in SUBSET Nat
    OBVIOUS
  <2>. HIDE DEF F
  <2>. QED
    BY <1>1, <2>1, LeastNatural
<1>3. n \in 0 .. a /\ n \in 0 .. b /\ g[n] # h[n]
  OBVIOUS
<1>4. g[n] = Divisors(g, n) /\ h[n] = Divisors(h, n)
  BY <1>3 DEF Euclid
<1>5. \A k \in 0 .. n - 1 : g[k] = h[k]
  BY <1>2, <1>3
<1>6. \A m \in Nat : n # 0 => m % n \in 0 .. n - 1
  BY <1>3, Remainder
<1>7. Divisors(g, n) = Divisors(h, n)
  BY <1>5, <1>6 DEF Divisors
<1>. QED
  BY <1>3, <1>4, <1>7

(* There is a table up to every number. *)
LEMMA TablesExist == \A n \in Nat : \E g : Euclid(g, n)
<1>. DEFINE F == {n \in Nat : ~ \E g : Euclid(g, n)}
<1>1. SUFFICES ASSUME F # {} PROVE FALSE
  OBVIOUS
<1>2. PICK n \in F : \A k \in F : n <= k
  <2>1. F \in SUBSET Nat
    OBVIOUS
  <2>. HIDE DEF F
  <2>. QED
    BY <1>1, <2>1, LeastNatural
<1>3. n \in Nat /\ ~ \E g : Euclid(g, n)
  OBVIOUS
<1>4. \E g : n # 0 => Euclid(g, n - 1)
  <2>1. n # 0 => n - 1 \in Nat /\ n - 1 \notin F
    BY <1>2, <1>3
  <2>. QED
    BY <2>1
<1>5. PICK g : n # 0 => Euclid(g, n - 1)
  BY <1>4
<1>. DEFINE h == [k \in 0 .. n |-> IF k = n THEN Divisors(g, n) ELSE g[k]]
<1>6. \A m \in Nat : n # 0 => m % n \in 0 .. n - 1
  BY <1>3, Remainder
<1>7. ASSUME NEW k \in 0 .. n PROVE h[k] = Divisors(h, k)
  <2>1. \A j \in 0 .. n : j # n => h[j] = g[j]
    OBVIOUS
  <2>2. CASE k = n
    <3>1. h[k] = Divisors(g, n)
      BY <2>2
    <3>2. \A m \in Nat : n # 0 => g[m % n] = h[m % n]
      <4>. HIDE DEF h
      <4>1. \A m \in Nat : n # 0 => m % n \in 0 .. n /\ m % n # n
        BY <1>3, <1>6
      <4>. QED
        BY <2>1, <4>1
    <3>3. Divisors(g, n) = Divisors(h, n)
      <4>. HIDE DEF h
      <4>. QED
        BY <3>2 DEF Divisors
    <3>. QED
      BY <2>2, <3>1, <3>3
  <2>3. CASE k # n
    <3>1. k \in 0 .. n - 1 /\ n # 0 /\ k \in Nat
      BY <1>3, <2>3
    <3>2. h[k] = Divisors(g, k)
      <4>1. g[k] = Divisors(g, k)
        BY <1>5, <3>1 DEF Euclid
      <4>. QED
        BY <2>1, <2>3, <4>1
    <3>3. \A m \in Nat : k # 0 => m % k \in 0 .. k - 1
      BY <3>1, Remainder
    <3>4. \A m \in Nat : k # 0 => g[m % k] = h[m % k]
      <4>. HIDE DEF h
      <4>1. \A m \in Nat : k # 0 => m % k \in 0 .. n /\ m % k # n
        BY <1>3, <3>1, <3>3
      <4>. QED
        BY <2>1, <4>1
    <3>5. Divisors(g, k) = Divisors(h, k)
      <4>. HIDE DEF h
      <4>. QED
        BY <3>4 DEF Divisors
    <3>. QED
      BY <3>2, <3>5
  <2>. QED
    BY <2>2, <2>3
<1>8. h = [k \in 0 .. n |-> h[k]]
  OBVIOUS
<1>9. Euclid(h, n)
  <2>. HIDE DEF h
  <2>. QED
    BY <1>7, <1>8 DEF Euclid
<1>. QED
  BY <1>3, <1>9

(* Hence the divisors are what the algorithm says. *)
LEMMA GcdRecurs ==
  \A n \in Nat, m \in Nat : Rank!gcd[n][m] = IF n = 0 THEN m ELSE Rank!gcd[m % n][n]
<1>. DEFINE T(n) == CHOOSE g : Euclid(g, n)
            G == [n \in Nat |-> T(n)[n]]
<1>1. \A n \in Nat : Euclid(T(n), n)
  BY TablesExist
<1>2. ASSUME NEW n \in Nat PROVE G[n] = Divisors(G, n)
  <2>1. G[n] = T(n)[n] /\ T(n)[n] = Divisors(T(n), n)
    <3>1. Euclid(T(n), n) /\ n \in 0 .. n /\ G[n] = T(n)[n]
      BY <1>1
    <3>. HIDE DEF T, G
    <3>. QED
      BY <3>1 DEF Euclid
  <2>2. ASSUME NEW k \in 0 .. n - 1 PROVE T(n)[k] = G[k]
    <3>1. k \in Nat /\ k <= n /\ k <= k
      OBVIOUS
    <3>2. T(n)[k] = T(k)[k]
      <4>1. Euclid(T(n), n) /\ Euclid(T(k), k)
        BY <1>1, <3>1
      <4>. HIDE DEF T
      <4>. QED
        BY <3>1, <4>1, TablesAgree
    <3>. QED
      BY <3>1, <3>2
  <2>3. \A m \in Nat : n # 0 => m % n \in 0 .. n - 1
    BY Remainder
  <2>4. Divisors(T(n), n) = Divisors(G, n)
    <3>. HIDE DEF T, G
    <3>. QED
      BY <2>2, <2>3 DEF Divisors
  <2>. QED
    BY <2>1, <2>4
<1>3. G = [n \in Nat |-> G[n]]
  OBVIOUS
<1>4. \E g : g = [n \in Nat |-> Divisors(g, n)]
  <2>1. G = [n \in Nat |-> Divisors(G, n)]
    <3>. HIDE DEF G
    <3>. QED
      BY <1>2, <1>3
  <2>. QED
    BY <2>1
<1>5. Rank!gcd = CHOOSE g : g = [n \in Nat |-> Divisors(g, n)]
  BY DEF Rank!gcd, Divisors
<1>6. Rank!gcd = [n \in Nat |-> Divisors(Rank!gcd, n)]
  BY <1>4, <1>5
<1>7. \A n \in Nat : Rank!gcd[n] = Divisors(Rank!gcd, n)
  BY <1>6
<1>. QED
  BY <1>7 DEF Divisors

(* And they divide. *)
LEMMA GcdDivides ==
  \A n \in Nat, m \in Nat : n > 0 \/ m > 0 =>
    /\ Rank!gcd[n][m] \in Nat /\ Rank!gcd[n][m] > 0
    /\ \E a, b \in Nat : m = a * Rank!gcd[n][m] /\ n = b * Rank!gcd[n][m]
<1>. DEFINE Good(n) == \A m \in Nat : n > 0 \/ m > 0 =>
                         /\ Rank!gcd[n][m] \in Nat /\ Rank!gcd[n][m] > 0
                         /\ \E a, b \in Nat : m = a * Rank!gcd[n][m] /\ n = b * Rank!gcd[n][m]
            F == {n \in Nat : ~Good(n)}
<1>1. SUFFICES ASSUME F # {} PROVE FALSE
  OBVIOUS
<1>2. PICK n \in F : \A k \in F : n <= k
  <2>1. F \in SUBSET Nat
    OBVIOUS
  <2>. HIDE DEF F
  <2>. QED
    BY <1>1, <2>1, LeastNatural
<1>3. n \in Nat /\ \A k \in 0 .. n - 1 : Good(k)
  BY <1>2
<1>4. SUFFICES ASSUME NEW m \in Nat, n > 0 \/ m > 0
               PROVE  /\ Rank!gcd[n][m] \in Nat /\ Rank!gcd[n][m] > 0
                      /\ \E a, b \in Nat : m = a * Rank!gcd[n][m] /\ n = b * Rank!gcd[n][m]
  BY <1>2
<1>5. CASE n = 0
  <2>1. Rank!gcd[n][m] = m /\ m > 0
    BY <1>4, <1>5, GcdRecurs
  <2>2. m = 1 * m /\ n = 0 * m /\ 1 \in Nat /\ 0 \in Nat
    BY <1>5
  <2>. QED
    BY <2>1, <2>2
<1>6. CASE n > 0
  <2>. DEFINE r == m % n
              d == Rank!gcd[r][n]
              q == m \div n
  <2>1. r \in 0 .. n - 1 /\ q \in Nat /\ m = q * n + r
    BY <1>3, <1>6, Remainder
  <2>2. Rank!gcd[n][m] = d
    <3>1. Rank!gcd[n][m] = IF n = 0 THEN m ELSE Rank!gcd[m % n][n]
      BY <1>3, GcdRecurs
    <3>. QED
      BY <1>6, <3>1
  <2>. HIDE DEF r, q
  <2>3. d \in Nat /\ d > 0 /\ \E a, b \in Nat : n = a * d /\ r = b * d
    <3>1. Good(r)
      BY <1>3, <2>1
    <3>. QED
      BY <1>3, <1>6, <3>1
  <2>. HIDE DEF d
  <2>4. PICK a \in Nat, b \in Nat : n = a * d /\ r = b * d
    BY <2>3
  <2>5. m = (q * a + b) * d /\ q * a + b \in Nat
    <3>1. q * n = q * (a * d) /\ m = q * (a * d) + b * d
      BY <2>1, <2>4
    <3>2. q * (a * d) + b * d = (q * a + b) * d /\ q * a + b \in Nat
      BY <2>1, <2>3, <2>4
    <3>. QED
      BY <3>1, <3>2
  <2>. QED
    BY <2>2, <2>3, <2>4, <2>5
<1>. QED
  BY <1>3, <1>5, <1>6

(* Fractions, and their order. *)
Fraction == Nat \X (Nat \ {0})
x \preceq y == x[1] * y[2] <= y[1] * x[2]
x \prec y == x[1] * y[2] < y[1] * x[2]

(* A fraction is its two numbers. *)
LEMMA FractionParts ==
  /\ \A x \in Fraction : x[1] \in Nat /\ x[2] \in Nat /\ x[2] > 0
  /\ \A a, b \in Nat : b > 0 => <<a, b>> \in Fraction /\ <<a, b>>[1] = a /\ <<a, b>>[2] = b
BY DEF Fraction

(* The order is that of the instance. *)
LEMMA SameOrder ==
  ASSUME NEW x, NEW y
  PROVE  (Rank!\preceq(x, y) <=> x \preceq y) /\ (Rank!\prec(x, y) <=> x \prec y)
BY DEF \preceq, \prec, Rank!\preceq, Rank!\prec

(* A product of numbers is one, and order survives it both ways. *)
LEMMA Scaled ==
  ASSUME NEW a \in Nat, NEW b \in Nat, NEW k \in Nat
  PROVE  /\ a * k \in Nat
         /\ a <= b => a * k <= b * k
         /\ k > 0 => (a * k <= b * k <=> a <= b) /\ (a * k < b * k <=> a < b)
<1>1. a * k \in Nat /\ b * k \in Nat
  OBVIOUS
<1>2. a <= b => a * k <= b * k
  BY ProductGrows
<1>3. k > 0 => /\ a * k <= b * k => a <= b
               /\ a * k < b * k => a < b
               /\ a < b => a * k + k <= b * k
  BY TimesGrows
<1>. QED
  BY <1>1, <1>2, <1>3

(* The order is linear. *)
LEMMA OrderIsLinear ==
  ASSUME NEW x \in Fraction, NEW y \in Fraction
  PROVE  /\ x \preceq x
         /\ x \prec y <=> ~(y \preceq x)
         /\ x \preceq y \/ y \preceq x
         /\ x \prec y => x \preceq y
<1>1. x[1] \in Nat /\ x[2] \in Nat /\ y[1] \in Nat /\ y[2] \in Nat
  BY FractionParts
<1>2. x[1] * y[2] \in Nat /\ y[1] * x[2] \in Nat /\ x[1] * x[2] \in Nat
  BY <1>1
<1>. QED
  BY <1>2 DEF \preceq, \prec

(* And it is one. *)
LEMMA OrderIsTransitive ==
  ASSUME NEW x \in Fraction, NEW y \in Fraction, NEW z \in Fraction, x \preceq y, y \preceq z
  PROVE  x \preceq z /\ (x \prec y \/ y \prec z => x \prec z)
<1>. DEFINE a == x[1] b == x[2] c == y[1] d == y[2] e == z[1] f == z[2]
<1>1. /\ a \in Nat /\ b \in Nat /\ c \in Nat /\ d \in Nat /\ e \in Nat /\ f \in Nat
      /\ b > 0 /\ d > 0 /\ f > 0
  BY FractionParts
<1>2. a * d <= c * b /\ c * f <= e * d
  BY DEF \preceq
<1>3. x \prec y => a * d < c * b
  BY DEF \prec
<1>4. y \prec z => c * f < e * d
  BY DEF \prec
<1>5. (x \preceq z <=> a * f <= e * b) /\ (x \prec z <=> a * f < e * b)
  BY DEF \preceq, \prec
<1>. HIDE DEF a, b, c, d, e, f
<1>6. /\ a * d \in Nat /\ c * b \in Nat /\ c * f \in Nat /\ e * d \in Nat
      /\ a * f \in Nat /\ e * b \in Nat
  BY <1>1
<1>7. (a * d) * f <= (c * b) * f /\ (a * d < c * b => (a * d) * f < (c * b) * f)
  BY <1>1, <1>2, <1>6, Scaled
<1>8. (c * f) * b <= (e * d) * b /\ (c * f < e * d => (c * f) * b < (e * d) * b)
  BY <1>1, <1>2, <1>6, Scaled
<1>9. /\ (a * d) * f = (a * f) * d /\ (c * b) * f = (c * f) * b /\ (e * d) * b = (e * b) * d
      /\ (a * f) * d \in Nat /\ (c * f) * b \in Nat /\ (e * b) * d \in Nat
  BY <1>1
<1>10. /\ (a * f) * d <= (e * b) * d
       /\ a * d < c * b \/ c * f < e * d => (a * f) * d < (e * b) * d
  BY <1>7, <1>8, <1>9
<1>11. a * f <= e * b /\ (a * d < c * b \/ c * f < e * d => a * f < e * b)
  BY <1>1, <1>6, <1>10, Scaled
<1>. QED
  BY <1>3, <1>4, <1>5, <1>11

(* Fractions that are no more than each other take each other's place. *)
LEMMA OrderOfEquals ==
  ASSUME NEW x \in Fraction, NEW y \in Fraction, NEW u \in Fraction, NEW v \in Fraction,
         u \preceq x, x \preceq u, v \preceq y, y \preceq v
  PROVE  (u \preceq v <=> x \preceq y) /\ (u \prec v <=> x \prec y)
<1>1. u \preceq v <=> x \preceq y
  BY OrderIsTransitive
<1>2. v \preceq u <=> y \preceq x
  BY OrderIsTransitive
<1>. QED
  BY <1>1, <1>2, OrderIsLinear

(* A reduced fraction has the same value. *)
LEMMA ReducedIs ==
  ASSUME NEW x \in Fraction
  PROVE  Rank!Reduced(x) \in Fraction /\ Rank!Reduced(x) \preceq x /\ x \preceq Rank!Reduced(x)
<1>. DEFINE m == x[1] n == x[2] d == Rank!gcd[n][m]
<1>1. m \in Nat /\ n \in Nat /\ n > 0
  BY FractionParts
<1>2. Rank!Reduced(x) = <<m \div d, n \div d>>
  BY DEF Rank!Reduced
<1>3. d \in Nat /\ d > 0 /\ \E a, b \in Nat : m = a * d /\ n = b * d
  <2>. HIDE DEF m, n
  <2>. QED
    BY <1>1, GcdDivides
<1>4. (x \preceq Rank!Reduced(x) <=> m * Rank!Reduced(x)[2] <= Rank!Reduced(x)[1] * n)
      /\ (Rank!Reduced(x) \preceq x <=> Rank!Reduced(x)[1] * n <= m * Rank!Reduced(x)[2])
  BY DEF \preceq
<1>. HIDE DEF d
<1>5. PICK a \in Nat, b \in Nat : m = a * d /\ n = b * d
  BY <1>3
<1>. HIDE DEF m, n
<1>6. m \div d = a /\ n \div d = b
  <2>1. (a * d) \div d = a /\ (b * d) \div d = b
    BY <1>3
  <2>. QED
    BY <1>5, <2>1
<1>7. b > 0
  <2>1. b = 0 => b * d = 0
    BY <1>3
  <2>. QED
    BY <1>1, <1>5, <2>1
<1>8. m * b = a * n /\ m * b \in Nat
  <2>1. (a * d) * b = a * (b * d) /\ (a * d) * b \in Nat
    BY <1>3
  <2>. QED
    BY <1>5, <2>1
<1>9. Rank!Reduced(x) = <<a, b>> /\ <<a, b>> \in Fraction /\ <<a, b>>[1] = a /\ <<a, b>>[2] = b
  BY <1>2, <1>6, <1>7, FractionParts
<1>10. Rank!Reduced(x)[1] = a /\ Rank!Reduced(x)[2] = b /\ Rank!Reduced(x) \in Fraction
  BY <1>9
<1>. QED
  BY <1>4, <1>8, <1>10

(* A sum grows with what is added. *)
LEMMA PlusGrows ==
  ASSUME NEW x \in Fraction, NEW y \in Fraction, NEW u \in Fraction, NEW v \in Fraction,
         x \preceq u, y \preceq v
  PROVE  /\ Rank!Plus(x, y) \in Fraction /\ Rank!Plus(u, v) \in Fraction
         /\ Rank!Plus(x, y) \preceq Rank!Plus(u, v)
<1>. DEFINE a == x[1] b == x[2] c == y[1] d == y[2]
            e == u[1] f == u[2] g == v[1] h == v[2]
            s == <<a * d + c * b, b * d>>
            t == <<e * h + g * f, f * h>>
<1>1. /\ a \in Nat /\ b \in Nat /\ c \in Nat /\ d \in Nat /\ b > 0 /\ d > 0
      /\ e \in Nat /\ f \in Nat /\ g \in Nat /\ h \in Nat /\ f > 0 /\ h > 0
  BY FractionParts
<1>2. Rank!Plus(x, y) = Rank!Reduced(s) /\ Rank!Plus(u, v) = Rank!Reduced(t)
  BY DEF Rank!Plus
<1>3. a * f <= e * b /\ c * h <= g * d
  BY DEF \preceq
<1>. HIDE DEF a, b, c, d, e, f, g, h
<1>4. /\ s \in Fraction /\ t \in Fraction
      /\ s[1] = a * d + c * b /\ s[2] = b * d /\ t[1] = e * h + g * f /\ t[2] = f * h
  <2>1. a * d + c * b \in Nat /\ e * h + g * f \in Nat
    BY <1>1
  <2>2. b * d \in Nat /\ b * d > 0 /\ f * h \in Nat /\ f * h > 0
    BY <1>1
  <2>. QED
    BY <2>1, <2>2, FractionParts
<1>5. /\ (a * d + c * b) * (f * h) = (a * f) * (d * h) + (c * h) * (b * f)
      /\ (e * h + g * f) * (b * d) = (e * b) * (d * h) + (g * d) * (b * f)
  BY <1>1
<1>6. /\ a * f \in Nat /\ e * b \in Nat /\ c * h \in Nat /\ g * d \in Nat
      /\ d * h \in Nat /\ d * h > 0 /\ b * f \in Nat /\ b * f > 0
  BY <1>1
<1>7. /\ (a * f) * (d * h) \in Nat /\ (e * b) * (d * h) \in Nat
      /\ (a * f) * (d * h) <= (e * b) * (d * h)
  BY <1>3, <1>6, Scaled
<1>8. /\ (c * h) * (b * f) \in Nat /\ (g * d) * (b * f) \in Nat
      /\ (c * h) * (b * f) <= (g * d) * (b * f)
  BY <1>3, <1>6, Scaled
<1>9. s \preceq t
  <2>1. s \preceq t <=> (a * d + c * b) * (f * h) <= (e * h + g * f) * (b * d)
    <3>. HIDE DEF s, t
    <3>. QED
      BY <1>4 DEF \preceq
  <2>. HIDE DEF s, t
  <2>. QED
    BY <1>5, <1>7, <1>8, <2>1
<1>. HIDE DEF s, t
<1>10. /\ Rank!Reduced(s) \in Fraction /\ Rank!Reduced(s) \preceq s /\ s \preceq Rank!Reduced(s)
       /\ Rank!Reduced(t) \in Fraction /\ Rank!Reduced(t) \preceq t /\ t \preceq Rank!Reduced(t)
  BY <1>4, ReducedIs
<1>11. Rank!Reduced(s) \preceq Rank!Reduced(t) <=> s \preceq t
  BY <1>4, <1>10, OrderOfEquals
<1>. QED
  BY <1>2, <1>9, <1>10, <1>11

(* A difference falls with what is taken away. *)
LEMMA MinusFalls ==
  ASSUME NEW c \in Fraction, NEW x \in Fraction, NEW y \in Fraction, x \preceq y, y \preceq c
  PROVE  /\ Rank!Minus(c, x) \in Fraction /\ Rank!Minus(c, y) \in Fraction
         /\ Rank!Minus(c, y) \preceq Rank!Minus(c, x)
<1>. DEFINE a == x[1] b == x[2] e == y[1] f == y[2] g == c[1] h == c[2]
            s == <<g * f - e * h, h * f>>
            t == <<g * b - a * h, h * b>>
<1>1. /\ a \in Nat /\ b \in Nat /\ e \in Nat /\ f \in Nat /\ g \in Nat /\ h \in Nat
      /\ b > 0 /\ f > 0 /\ h > 0
  BY FractionParts
<1>2. Rank!Minus(c, y) = Rank!Reduced(s) /\ Rank!Minus(c, x) = Rank!Reduced(t)
  BY DEF Rank!Minus
<1>3. x \preceq c
  BY OrderIsTransitive
<1>4. a * f <= e * b /\ e * h <= g * f /\ a * h <= g * b
  BY <1>3 DEF \preceq
<1>. HIDE DEF a, b, e, f, g, h
<1>5. /\ a * f \in Nat /\ e * b \in Nat /\ e * h \in Nat /\ g * f \in Nat
      /\ a * h \in Nat /\ g * b \in Nat /\ h * h \in Nat /\ h * h > 0
      /\ h * f \in Nat /\ h * f > 0 /\ h * b \in Nat /\ h * b > 0
  BY <1>1
<1>6. /\ s \in Fraction /\ t \in Fraction
      /\ s[1] = g * f - e * h /\ s[2] = h * f /\ t[1] = g * b - a * h /\ t[2] = h * b
  <2>1. g * f - e * h \in Nat /\ g * b - a * h \in Nat
    BY <1>4, <1>5
  <2>. QED
    BY <1>5, <2>1, FractionParts
<1>7. /\ (g * f - e * h) * (h * b) = (g * f) * (h * b) - (e * b) * (h * h)
      /\ (g * b - a * h) * (h * f) = (g * f) * (h * b) - (a * f) * (h * h)
      /\ (g * f) * (h * b) \in Nat
  BY <1>1
<1>8. /\ (a * f) * (h * h) \in Nat /\ (e * b) * (h * h) \in Nat
      /\ (a * f) * (h * h) <= (e * b) * (h * h)
  BY <1>4, <1>5, Scaled
<1>9. s \preceq t
  <2>1. s \preceq t <=> (g * f - e * h) * (h * b) <= (g * b - a * h) * (h * f)
    <3>. HIDE DEF s, t
    <3>. QED
      BY <1>6 DEF \preceq
  <2>. HIDE DEF s, t
  <2>. QED
    BY <1>7, <1>8, <2>1
<1>. HIDE DEF s, t
<1>10. /\ Rank!Reduced(s) \in Fraction /\ Rank!Reduced(s) \preceq s /\ s \preceq Rank!Reduced(s)
       /\ Rank!Reduced(t) \in Fraction /\ Rank!Reduced(t) \preceq t /\ t \preceq Rank!Reduced(t)
  BY <1>6, ReducedIs
<1>11. Rank!Reduced(s) \preceq Rank!Reduced(t) <=> s \preceq t
  BY <1>6, <1>10, OrderOfEquals
<1>. QED
  BY <1>2, <1>9, <1>10, <1>11

(* A multiple grows with what it is of. *)
LEMMA ScaleGrows ==
  ASSUME NEW x \in Fraction, NEW y \in Fraction, NEW k \in Nat, k > 0, x \preceq y
  PROVE  /\ Rank!Scale(k, x) \in Fraction /\ Rank!Scale(k, y) \in Fraction
         /\ Rank!Scale(k, x) \preceq Rank!Scale(k, y)
<1>. DEFINE a == x[1] b == x[2] e == y[1] f == y[2]
<1>1. /\ a \in Nat /\ b \in Nat /\ e \in Nat /\ f \in Nat /\ b > 0 /\ f > 0
  BY FractionParts
<1>2. Rank!Scale(k, x) = <<k * a, b>> /\ Rank!Scale(k, y) = <<k * e, f>>
  BY DEF Rank!Scale
<1>3. a * f <= e * b
  BY DEF \preceq
<1>. HIDE DEF a, b, e, f
<1>4. k * a \in Nat /\ k * e \in Nat /\ a * f \in Nat /\ e * b \in Nat
  BY <1>1
<1>5. /\ Rank!Scale(k, x) \in Fraction /\ Rank!Scale(k, x)[1] = k * a /\ Rank!Scale(k, x)[2] = b
      /\ Rank!Scale(k, y) \in Fraction /\ Rank!Scale(k, y)[1] = k * e /\ Rank!Scale(k, y)[2] = f
  BY <1>1, <1>2, <1>4, FractionParts
<1>6. (k * a) * f = (a * f) * k /\ (k * e) * b = (e * b) * k
  BY <1>1
<1>7. (a * f) * k <= (e * b) * k
  BY <1>3, <1>4, Scaled
<1>8. Rank!Scale(k, x) \preceq Rank!Scale(k, y) <=> (k * a) * f <= (k * e) * b
  BY <1>5 DEF \preceq
<1>. QED
  BY <1>5, <1>6, <1>7, <1>8

(* One fraction over another. *)
Over(x, r) == Rank!Reduced(<<x[1] * r[2], x[2] * r[1]>>)

(* It grows with the one. *)
LEMMA OverGrows ==
  ASSUME NEW x \in Fraction, NEW y \in Fraction, NEW r \in Fraction, r[1] # 0, x \preceq y
  PROVE  /\ Over(x, r) \in Fraction /\ Over(y, r) \in Fraction
         /\ Over(x, r) \preceq Over(y, r)
<1>. DEFINE a == x[1] b == x[2] e == y[1] f == y[2] p == r[1] q == r[2]
            s == <<a * q, b * p>>
            t == <<e * q, f * p>>
<1>1. /\ a \in Nat /\ b \in Nat /\ e \in Nat /\ f \in Nat /\ b > 0 /\ f > 0
      /\ p \in Nat /\ q \in Nat /\ p > 0 /\ q > 0
  BY FractionParts
<1>2. Over(x, r) = Rank!Reduced(s) /\ Over(y, r) = Rank!Reduced(t)
  BY DEF Over
<1>3. a * f <= e * b
  BY DEF \preceq
<1>. HIDE DEF a, b, e, f, p, q
<1>4. /\ s \in Fraction /\ t \in Fraction
      /\ s[1] = a * q /\ s[2] = b * p /\ t[1] = e * q /\ t[2] = f * p
  <2>1. a * q \in Nat /\ e * q \in Nat /\ b * p \in Nat /\ b * p > 0 /\ f * p \in Nat /\ f * p > 0
    BY <1>1
  <2>. QED
    BY <2>1, FractionParts
<1>5. /\ a * f \in Nat /\ e * b \in Nat /\ q * p \in Nat /\ q * p > 0
      /\ (a * q) * (f * p) = (a * f) * (q * p) /\ (e * q) * (b * p) = (e * b) * (q * p)
  BY <1>1
<1>6. (a * f) * (q * p) <= (e * b) * (q * p)
  BY <1>3, <1>5, Scaled
<1>7. s \preceq t
  <2>1. s \preceq t <=> (a * q) * (f * p) <= (e * q) * (b * p)
    <3>. HIDE DEF s, t
    <3>. QED
      BY <1>4 DEF \preceq
  <2>. HIDE DEF s, t
  <2>. QED
    BY <1>5, <1>6, <2>1
<1>. HIDE DEF s, t
<1>8. /\ Rank!Reduced(s) \in Fraction /\ Rank!Reduced(s) \preceq s /\ s \preceq Rank!Reduced(s)
      /\ Rank!Reduced(t) \in Fraction /\ Rank!Reduced(t) \preceq t /\ t \preceq Rank!Reduced(t)
  BY <1>4, ReducedIs
<1>9. Rank!Reduced(s) \preceq Rank!Reduced(t) <=> s \preceq t
  BY <1>4, <1>8, OrderOfEquals
<1>. QED
  BY <1>2, <1>7, <1>8, <1>9

(* What is rounded is a number of grains, and grows with what it was.      *)
LEMMA RoundedGrows ==
  ASSUME NEW x \in Fraction, NEW y \in Fraction
  PROVE  /\ Rank!Rounded(x) \in Nat \X {Grain} /\ Rank!Rounded(x) \in Fraction
         /\ Rank!Rounded(y) \in Nat \X {Grain} /\ Rank!Rounded(y) \in Fraction
         /\ x \preceq y => Rank!Rounded(x) \preceq Rank!Rounded(y)
         /\ Rank!Rounded(y) \preceq Rank!Rounded(x) /\ Rank!Rounded(x) \preceq Rank!Rounded(y)
              => Rank!Rounded(x) = Rank!Rounded(y)
<1>. DEFINE a == x[1] b == x[2] c == y[1] d == y[2] g == Grain
            m == Nearest(a * g, b)
            n == Nearest(c * g, d)
<1>1. /\ a \in Nat /\ b \in Nat \ {0} /\ c \in Nat /\ d \in Nat \ {0} /\ g \in Nat \ {0}
      /\ a * g \in Nat /\ c * g \in Nat
  <2>1. a \in Nat /\ b \in Nat /\ b > 0 /\ c \in Nat /\ d \in Nat /\ d > 0
    BY FractionParts
  <2>2. g \in Nat \ {0}
    BY RouterConstants
  <2>. HIDE DEF a, b, c, d, g
  <2>. QED
    BY <2>1, <2>2
<1>2. Rank!Rounded(x) = <<m, g>> /\ Rank!Rounded(y) = <<n, g>>
  BY RouterOperators DEF Rank!Rounded
<1>3. x \preceq y <=> a * d <= c * b
  BY DEF \preceq
<1>. HIDE DEF a, b, c, d
<1>4. m \in Nat /\ n \in Nat
  BY <1>1, NearestIs
<1>5. a * d <= c * b => m <= n
  <2>1. /\ (a * g) * d = (a * d) * g /\ (c * g) * b = (c * b) * g
        /\ a * d \in Nat /\ c * b \in Nat
    BY <1>1
  <2>2. a * d <= c * b => (a * g) * d <= (c * g) * b
    BY <1>1, <2>1, TimesGrows
  <2>. QED
    BY <1>1, <2>2, NearestGrows
<1>. HIDE DEF m, n
<1>6. /\ <<m, g>> \in Nat \X {Grain} /\ <<m, g>> \in Fraction
      /\ <<n, g>> \in Nat \X {Grain} /\ <<n, g>> \in Fraction
      /\ <<m, g>> \preceq <<n, g>> <=> m * g <= n * g
      /\ <<n, g>> \preceq <<m, g>> <=> n * g <= m * g
  BY <1>1, <1>4 DEF \preceq, Fraction
<1>7. (m <= n <=> m * g <= n * g) /\ (n <= m <=> n * g <= m * g)
  BY <1>1, <1>4, TimesGrows
<1>. QED
  BY <1>2, <1>3, <1>4, <1>5, <1>6, <1>7

(* A finite set of things with fractions has one with the greatest. *)
LEMMA GreatestFraction ==
  ASSUME NEW S, IsFiniteSet(S), S # {}, NEW f, \A x \in S : f[x] \in Fraction
  PROVE  /\ \E x \in S : \A y \in S : f[y] \preceq f[x]
         /\ \E x \in S : \A y \in S : f[x] \preceq f[y]
<1>. DEFINE Good(T) == /\ \E x \in T : \A y \in T : f[y] \preceq f[x]
                       /\ \E x \in T : \A y \in T : f[x] \preceq f[y]
            F == {T \in SUBSET S : T # {} /\ ~Good(T)}
<1>1. SUFFICES ASSUME F # {} PROVE FALSE
  OBVIOUS
<1>2. \A T \in F : IsFiniteSet(T)
  BY FS_Subset
<1>3. PICK T \in F : \A U \in F : U \subseteq T => U = T
  <2>. HIDE DEF F
  <2>. QED
    BY <1>1, <1>2, Smallest
<1>4. PICK x \in T : TRUE
  OBVIOUS
<1>5. \A y \in T : f[y] \in Fraction /\ f[y] \preceq f[y]
  <2>1. \A y \in T : f[y] \in Fraction
    OBVIOUS
  <2>. QED
    BY <2>1, OrderIsLinear
<1>6. T \ {x} # {}
  <2>1. SUFFICES ASSUME T = {x} PROVE FALSE
    BY <1>4
  <2>. QED
    BY <1>3, <1>4, <1>5, <2>1
<1>7. Good(T \ {x})
  <2>1. T \ {x} \in SUBSET S /\ T \ {x} \subseteq T /\ T \ {x} # T
    BY <1>4
  <2>. QED
    BY <1>3, <1>6, <2>1
<1>8. PICK g \in T \ {x} : \A y \in T \ {x} : f[y] \preceq f[g]
  BY <1>7
<1>9. PICK l \in T \ {x} : \A y \in T \ {x} : f[l] \preceq f[y]
  BY <1>7
<1>10. \E z \in T : \A y \in T : f[y] \preceq f[z]
  <2>1. CASE f[x] \preceq f[g]
    BY <1>8, <2>1
  <2>2. CASE f[g] \preceq f[x]
    <3>1. \A y \in T \ {x} : f[y] \preceq f[x]
      BY <1>4, <1>5, <1>8, <2>2, OrderIsTransitive
    <3>. QED
      BY <1>4, <1>5, <3>1
  <2>. QED
    BY <1>4, <1>5, <1>8, <2>1, <2>2, OrderIsLinear
<1>11. \E z \in T : \A y \in T : f[z] \preceq f[y]
  <2>1. CASE f[l] \preceq f[x]
    BY <1>9, <2>1
  <2>2. CASE f[x] \preceq f[l]
    <3>1. \A y \in T \ {x} : f[x] \preceq f[y]
      BY <1>4, <1>5, <1>9, <2>2, OrderIsTransitive
    <3>. QED
      BY <1>4, <1>5, <3>1
  <2>. QED
    BY <1>4, <1>5, <1>9, <2>1, <2>2, OrderIsLinear
<1>. QED
  BY <1>3, <1>10, <1>11

One == <<1, 1>>

(* What is no more than one is rounded to no more. *)
LEMMA RoundedOfOne == ASSUME NEW x \in Fraction, x \preceq One PROVE Rank!Rounded(x) \preceq One
<1>1. One \in Fraction
  BY DEF Fraction, One
<1>2. Grain \in Nat \ {0}
  BY RouterConstants
<1>3. Rank!Rounded(One) = <<Grain, Grain>>
  <2>1. (1 * Grain) \div 1 = Grain /\ (1 * Grain) % 1 = 0
    BY <1>2
  <2>2. Nearest(1 * Grain, 1) = Grain
    BY <2>1 DEF Nearest
  <2>. QED
    BY <2>2, RouterOperators DEF Rank!Rounded, One
<1>4. Rank!Rounded(One) \in Fraction /\ Rank!Rounded(One) \preceq One
  BY <1>1, <1>2, <1>3, RoundedGrows DEF One, \preceq
<1>5. Rank!Rounded(x) \in Fraction /\ Rank!Rounded(x) \preceq Rank!Rounded(One)
  BY <1>1, RoundedGrows
<1>. QED
  BY <1>1, <1>4, <1>5, OrderIsTransitive

(* What is known of a provider makes fractions. *)
LEMMA ScoresAreFractions ==
  ASSUME Rank!TypeOK, NEW p \in Ranked
  PROVE  /\ Rank!Calls(p) \in Nat /\ Rank!Errors(p) \in Nat
         /\ Rank!ErrorRate(p) \in Fraction /\ Rank!ErrorRate(p) \preceq One
         /\ Rank!AvgCost(p) \in Fraction /\ (Rank!Calls(p) = 0 => Rank!AvgCost(p) = <<0, 1>>)
         /\ Rank!Engagement(p) \in Fraction
<1>1. /\ v1[p].ok \in Nat /\ v1[p].failed \in Nat
      /\ v2[p].ok \in Nat /\ v2[p].failed \in Nat
  BY SeenAreNumbers
<1>2. /\ Rank!Calls(p) \in Nat /\ Rank!Errors(p) \in Nat
      /\ Rank!Calls(p) = v1[p].ok + v1[p].failed
  BY <1>1 DEF Rank!Calls, Rank!Errors
<1>3. <<0, 1>> \in Fraction /\ One \in Fraction /\ <<0, 1>> \preceq One
  BY DEF Fraction, One, \preceq
<1>4. Rank!ErrorRate(p) \in Fraction /\ Rank!ErrorRate(p) \preceq One
  <2>1. CASE Rank!Calls(p) = 0
    BY <1>3, <2>1 DEF Rank!ErrorRate
  <2>2. CASE Rank!Calls(p) # 0
    <3>. DEFINE e == Rank!Errors(p) n == Rank!Calls(p) + Rank!Errors(p)
    <3>1. e \in Nat /\ n \in Nat /\ n > 0 /\ e <= n
          /\ Rank!ErrorRate(p) = Rank!Rounded(<<e, n>>)
      BY <1>2, <2>2 DEF Rank!ErrorRate
    <3>. HIDE DEF e, n
    <3>2. <<e, n>> \in Fraction /\ <<e, n>> \preceq One
      BY <3>1 DEF Fraction, One, \preceq
    <3>. QED
      BY <3>1, <3>2, RoundedGrows, RoundedOfOne
  <2>. QED
    BY <2>1, <2>2
<1>5. Rank!AvgCost(p) \in Fraction /\ (Rank!Calls(p) = 0 => Rank!AvgCost(p) = <<0, 1>>)
  <2>1. CASE Rank!Calls(p) = 0
    BY <1>3, <2>1 DEF Rank!AvgCost
  <2>2. CASE Rank!Calls(p) # 0
    <3>1. Price[p] \in Nat
      BY RouterConstants
    <3>2. \A a, b \in Nat : a * b \in Nat
      OBVIOUS
    <3>3. Price[p] * v1[p].ok \in Nat
      BY <1>1, <3>1, <3>2
    <3>. QED
      BY <1>2, <2>2, <3>3, FractionParts DEF Rank!AvgCost
  <2>. QED
    BY <2>1, <2>2
<1>6. Rank!Engagement(p) \in Fraction
  <2>1. CASE Rank!Calls(p) = 0
    BY <1>3, <2>1 DEF Rank!Engagement
  <2>2. CASE Rank!Calls(p) # 0
    <3>1. Tokens[p] \in Nat
      BY RouterConstants
    <3>2. \A a, b \in Nat : a * b \in Nat
      OBVIOUS
    <3>3. Tokens[p] * v1[p].ok \in Nat
      BY <1>1, <3>1, <3>2
    <3>4. 10 * Rank!Calls(p) \in Nat /\ 10 * Rank!Calls(p) > 0
      BY <1>2, <2>2
    <3>5. <<Tokens[p] * v1[p].ok, 10 * Rank!Calls(p)>> \in Fraction
      BY <3>3, <3>4, FractionParts
    <3>. QED
      BY <1>3, <2>2, <3>5 DEF Rank!Engagement, One
  <2>. QED
    BY <2>1, <2>2
<1>. QED
  BY <1>2, <1>4, <1>5, <1>6

(* The dearest and the cheapest of those that have been called. *)
LEMMA Extremes ==
  ASSUME Rank!TypeOK, NEW S \in SUBSET Ranked, Rank!Observed(S) # {}
  PROVE  /\ Rank!Dearest(S) \in Rank!Observed(S) /\ Rank!Cheapest(S) \in Rank!Observed(S)
         /\ \A p \in S : Rank!AvgCost(p) \preceq Rank!AvgCost(Rank!Dearest(S))
         /\ \A p \in Rank!Observed(S) : Rank!AvgCost(Rank!Cheapest(S)) \preceq Rank!AvgCost(p)
<1>. DEFINE O == Rank!Observed(S)
            f == [p \in O |-> Rank!AvgCost(p)]
<1>1. O \subseteq S /\ O \subseteq Ranked /\ IsFiniteSet(O)
  <2>1. O \subseteq S /\ O \subseteq Ranked
    BY DEF Rank!Observed
  <2>. QED
    BY <2>1, RouterConstants, FS_Subset
<1>2. \A p \in O : f[p] = Rank!AvgCost(p) /\ f[p] \in Fraction
  BY <1>1, ScoresAreFractions
<1>3. /\ \E x \in O : \A y \in O : f[y] \preceq f[x]
      /\ \E x \in O : \A y \in O : f[x] \preceq f[y]
  <2>1. O # {}
    OBVIOUS
  <2>. HIDE DEF O, f
  <2>. QED
    BY <1>1, <1>2, <2>1, GreatestFraction
<1>4. /\ \E x \in O : \A y \in O : Rank!\preceq(Rank!AvgCost(y), Rank!AvgCost(x))
      /\ \E x \in O : \A y \in O : Rank!\preceq(Rank!AvgCost(x), Rank!AvgCost(y))
  <2>. HIDE DEF f
  <2>. QED
    BY <1>2, <1>3, SameOrder
<1>5. /\ Rank!Dearest(S) \in O /\
           \A q \in O : Rank!\preceq(Rank!AvgCost(q), Rank!AvgCost(Rank!Dearest(S)))
      /\ Rank!Cheapest(S) \in O /\
           \A q \in O : Rank!\preceq(Rank!AvgCost(Rank!Cheapest(S)), Rank!AvgCost(q))
  <2>. HIDE DEF O
  <2>1. O = Rank!Observed(S)
    BY DEF O
  <2>. QED
    BY <1>4, <2>1 DEF Rank!Dearest, Rank!Cheapest
<1>6. ASSUME NEW p \in S, p \notin O PROVE Rank!AvgCost(p) \preceq Rank!AvgCost(Rank!Dearest(S))
  <2>1. p \in Ranked /\ Rank!Calls(p) = 0
    BY <1>6, ScoresAreFractions DEF Rank!Observed
  <2>2. Rank!AvgCost(p) = <<0, 1>> /\ Rank!AvgCost(Rank!Dearest(S)) \in Fraction
    BY <1>1, <1>5, <2>1, ScoresAreFractions
  <2>3. \A x \in Fraction : <<0, 1>> \preceq x
    BY FractionParts DEF \preceq
  <2>. QED
    BY <2>2, <2>3
<1>. QED
  BY <1>5, <1>6, SameOrder

(* Who costs less has the better factor. *)
LEMMA CostFactorFalls ==
  ASSUME Rank!TypeOK, NEW S \in SUBSET Ranked, NEW p \in S, NEW q \in S,
         Rank!AvgCost(p) \preceq Rank!AvgCost(q)
  PROVE  /\ Rank!CostFactor(S, p) \in Fraction /\ Rank!CostFactor(S, q) \in Fraction
         /\ Rank!CostFactor(S, q) \preceq Rank!CostFactor(S, p)
<1>. DEFINE range == Rank!Minus(Rank!AvgCost(Rank!Dearest(S)), Rank!AvgCost(Rank!Cheapest(S)))
            low(x) == Rank!Minus(Rank!AvgCost(Rank!Dearest(S)), Rank!AvgCost(x))
<1>1. One \in Fraction /\ One \preceq One
  BY DEF Fraction, One, \preceq
<1>2. \A x \in S : Rank!CostFactor(S, x) = IF Rank!Observed(S) = {} \/ range[1] = 0 THEN One
                                           ELSE Over(low(x), range)
  BY DEF Rank!CostFactor, Over, One
<1>3. CASE Rank!Observed(S) = {}
  BY <1>1, <1>2, <1>3
<1>4. CASE Rank!Observed(S) # {}
  <2>1. /\ Rank!Dearest(S) \in Rank!Observed(S) /\ Rank!Cheapest(S) \in Rank!Observed(S)
        /\ \A x \in S : Rank!AvgCost(x) \preceq Rank!AvgCost(Rank!Dearest(S))
        /\ \A x \in Rank!Observed(S) : Rank!AvgCost(Rank!Cheapest(S)) \preceq Rank!AvgCost(x)
    BY <1>4, Extremes
  <2>2. Rank!Observed(S) \subseteq S /\ S \subseteq Ranked
    BY DEF Rank!Observed
  <2>3. /\ Rank!AvgCost(Rank!Dearest(S)) \in Fraction /\
             Rank!AvgCost(Rank!Cheapest(S)) \in Fraction
        /\ Rank!AvgCost(p) \in Fraction /\ Rank!AvgCost(q) \in Fraction
        /\ Rank!AvgCost(Rank!Cheapest(S)) \preceq Rank!AvgCost(Rank!Dearest(S))
    BY <2>1, <2>2, ScoresAreFractions
  <2>4. range \in Fraction
    <3>1. Rank!AvgCost(Rank!Dearest(S)) \preceq Rank!AvgCost(Rank!Dearest(S))
      BY <2>3, OrderIsLinear
    <3>. QED
      BY <2>3, <3>1, MinusFalls
  <2>5. low(p) \in Fraction /\ low(q) \in Fraction /\ low(q) \preceq low(p)
    BY <2>1, <2>3, MinusFalls
  <2>6. CASE range[1] = 0
    BY <1>1, <1>2, <2>6
  <2>7. CASE range[1] # 0
    <3>1. Rank!CostFactor(S, p) = Over(low(p), range) /\
            Rank!CostFactor(S, q) = Over(low(q), range)
      BY <1>2, <1>4, <2>7
    <3>. HIDE DEF low, range
    <3>. QED
      BY <2>4, <2>5, <2>7, <3>1, OverGrows
  <2>. QED
    BY <2>6, <2>7
<1>. QED
  BY <1>3, <1>4

(* Who is worse in no respect has no lower score. *)
LEMMA ScoreGrows ==
  ASSUME Rank!TypeOK, NEW S \in SUBSET Ranked, NEW p \in S, NEW q \in S,
         Rank!ErrorRate(p) \preceq Rank!ErrorRate(q), Rank!AvgCost(p) \preceq Rank!AvgCost(q),
         Rank!Engagement(q) \preceq Rank!Engagement(p)
  PROVE  /\ Rank!Score(S, p) \in Fraction /\ Rank!Score(S, q) \in Fraction
         /\ Rank!Score(S, q) \preceq Rank!Score(S, p)
         /\ Rank!Score(S, p) \preceq Rank!Score(S, q) => Rank!Score(S, p) = Rank!Score(S, q)
<1>. DEFINE a(x) == Rank!Scale(6, Rank!Minus(One, Rank!ErrorRate(x)))
            b(x) == Rank!Scale(3, Rank!CostFactor(S, x))
            e(x) == Rank!Engagement(x)
            t(x) == Rank!Plus(a(x), Rank!Plus(b(x), e(x)))
<1>1. /\ Rank!Score(S, p) = Rank!Rounded(<<t(p)[1], 10 * t(p)[2]>>)
      /\ Rank!Score(S, q) = Rank!Rounded(<<t(q)[1], 10 * t(q)[2]>>)
  BY DEF Rank!Score, Rank!Tenfold, One
<1>2. p \in Ranked /\ q \in Ranked
  OBVIOUS
<1>3. /\ One \in Fraction /\ Rank!ErrorRate(p) \in Fraction /\ Rank!ErrorRate(q) \in Fraction
      /\ Rank!ErrorRate(q) \preceq One /\ e(p) \in Fraction /\ e(q) \in Fraction
      /\ e(q) \preceq e(p)
  <2>1. One \in Fraction
    BY DEF Fraction, One
  <2>. QED
    BY <1>2, <2>1, ScoresAreFractions
<1>4. a(p) \in Fraction /\ a(q) \in Fraction /\ a(q) \preceq a(p)
  <2>1. /\ Rank!Minus(One, Rank!ErrorRate(p)) \in Fraction
        /\ Rank!Minus(One, Rank!ErrorRate(q)) \in Fraction
        /\ Rank!Minus(One, Rank!ErrorRate(q)) \preceq Rank!Minus(One, Rank!ErrorRate(p))
    BY <1>3, MinusFalls
  <2>2. 6 \in Nat /\ 6 > 0
    OBVIOUS
  <2>. QED
    BY <2>1, <2>2, ScaleGrows
<1>5. b(p) \in Fraction /\ b(q) \in Fraction /\ b(q) \preceq b(p)
  <2>1. /\ Rank!CostFactor(S, p) \in Fraction /\ Rank!CostFactor(S, q) \in Fraction
        /\ Rank!CostFactor(S, q) \preceq Rank!CostFactor(S, p)
    BY CostFactorFalls
  <2>2. 3 \in Nat /\ 3 > 0
    OBVIOUS
  <2>. QED
    BY <2>1, <2>2, ScaleGrows
<1>6. t(p) \in Fraction /\ t(q) \in Fraction /\ t(q) \preceq t(p)
  <2>. HIDE DEF a, b, e
  <2>1. /\ Rank!Plus(b(p), e(p)) \in Fraction /\ Rank!Plus(b(q), e(q)) \in Fraction
        /\ Rank!Plus(b(q), e(q)) \preceq Rank!Plus(b(p), e(p))
    BY <1>3, <1>5, PlusGrows
  <2>. QED
    BY <1>4, <2>1, PlusGrows
<1>. HIDE DEF a, b, e, t
<1>. DEFINE x == <<t(p)[1], 10 * t(p)[2]>>
            y == <<t(q)[1], 10 * t(q)[2]>>
<1>7. x \in Fraction /\ y \in Fraction /\ y \preceq x
  <2>. DEFINE k == t(p)[1] l == t(p)[2] m == t(q)[1] n == t(q)[2]
  <2>1. k \in Nat /\ l \in Nat /\ l > 0 /\ m \in Nat /\ n \in Nat /\ n > 0
    BY <1>6, FractionParts
  <2>2. m * l <= k * n
    BY <1>6 DEF \preceq
  <2>. HIDE DEF k, l, m, n
  <2>3. /\ m * l \in Nat /\ k * n \in Nat
        /\ m * (10 * l) = 10 * (m * l) /\ k * (10 * n) = 10 * (k * n)
    BY <2>1
  <2>4. m * (10 * l) <= k * (10 * n)
    BY <2>2, <2>3
  <2>5. <<k, 10 * l>> \in Fraction /\ <<m, 10 * n>> \in Fraction
    BY <2>1, FractionParts
  <2>6. <<m, 10 * n>> \preceq <<k, 10 * l>>
    BY <2>4 DEF \preceq
  <2>. QED
    BY <2>5, <2>6 DEF k, l, m, n
<1>8. Rank!Score(S, p) = Rank!Rounded(x) /\ Rank!Score(S, q) = Rank!Rounded(y)
  BY <1>1
<1>. HIDE DEF x, y
<1>. QED
  BY <1>7, <1>8, RoundedGrows

(* B is a linear order of S. *)
LinearOn(S, B) ==
  /\ \A p, q \in S : p # q => <<p, q>> \in B \/ <<q, p>> \in B
  /\ \A p, q \in S : <<p, q>> \in B => <<q, p>> \notin B
  /\ \A p, q, r \in S : <<p, q>> \in B /\ <<q, r>> \in B => <<p, r>> \in B

(* It has a last element of a finite set.                                  *)
LEMMA LastOfAll ==
  ASSUME NEW S, NEW B, LinearOn(S, B), NEW T \in SUBSET S, IsFiniteSet(T), T # {}
  PROVE  \E l \in T : \A q \in T \ {l} : <<q, l>> \in B
<1>. DEFINE Has(U) == \E l \in U : \A q \in U \ {l} : <<q, l>> \in B
            F == {U \in SUBSET T : U # {} /\ ~Has(U)}
<1>1. SUFFICES ASSUME F # {} PROVE FALSE
  OBVIOUS
<1>2. \A U \in F : IsFiniteSet(U)
  BY FS_Subset
<1>3. PICK U \in F : \A V \in F : V \subseteq U => V = U
  <2>. HIDE DEF F
  <2>. QED
    BY <1>1, <1>2, Smallest
<1>4. PICK x \in U : TRUE
  OBVIOUS
<1>5. U \ {x} # {}
  BY <1>4
<1>6. PICK l \in U \ {x} : \A q \in (U \ {x}) \ {l} : <<q, l>> \in B
  <2>1. U \ {x} \in SUBSET T /\ U \ {x} \subseteq U /\ U \ {x} # U
    BY <1>4
  <2>2. Has(U \ {x})
    <3>. HIDE DEF Has
    <3>. QED
      BY <1>3, <1>5, <2>1
  <2>. QED
    BY <2>2
<1>7. x \in S /\ l \in S /\ x # l /\ x \in U /\ l \in U /\ U \subseteq S
  BY <1>4, <1>6
<1>8. CASE <<x, l>> \in B
  BY <1>6, <1>7, <1>8
<1>9. CASE <<l, x>> \in B
  <2>1. \A q \in U \ {x} : <<q, x>> \in B
    BY <1>6, <1>7, <1>9 DEF LinearOn
  <2>. QED
    BY <1>7, <2>1
<1>. QED
  BY <1>7, <1>8, <1>9 DEF LinearOn

(* When all calls are of sessions, error rates follow the failures. *)
LEMMA RatesCompare ==
  ASSUME Rank!TypeOK, Rank!AllInSessions, NEW p \in Ranked, NEW q \in Ranked, Rank!Calls(p) > 0,
         Rank!Calls(q) > 0, Rank!FailureShare(p) \preceq Rank!FailureShare(q)
  PROVE  Rank!ErrorRate(p) \preceq Rank!ErrorRate(q)
<1>. DEFINE f(x) == v1[x].failed
            n(x) == Rank!Calls(x)
<1>1. ASSUME NEW x \in Ranked, Rank!Calls(x) > 0
      PROVE  /\ f(x) \in Nat /\ n(x) \in Nat /\ n(x) > 0
             /\ Rank!FailureShare(x) = <<f(x), n(x)>>
             /\ Rank!ErrorRate(x) = Rank!Rounded(<<f(x), n(x) + f(x)>>)
  <2>1. v2[x].ok = 0 /\ v2[x].failed = 0
    <3>1. v2[x] = [ok |-> 0, failed |-> 0]
      BY DEF Rank!AllInSessions
    <3>. QED
      BY <3>1
  <2>2. v1[x].ok \in Nat /\ v1[x].failed \in Nat
    BY SeenAreNumbers
  <2>3. Rank!Made(x) = Rank!Calls(x) /\ Rank!Errors(x) = f(x) /\ Rank!Calls(x) \in Nat
    BY <2>1, <2>2 DEF Rank!Made, Rank!Calls, Rank!Errors
  <2>4. Rank!FailureShare(x) = <<f(x), n(x)>>
    BY <2>1, <2>2, <2>3 DEF Rank!FailureShare
  <2>5. Rank!ErrorRate(x) = Rank!Rounded(<<f(x), n(x) + f(x)>>)
    BY <1>1, <2>3 DEF Rank!ErrorRate
  <2>. QED
    BY <1>1, <2>2, <2>3, <2>4, <2>5
<1>. DEFINE a == f(p) b == n(p) c == f(q) d == n(q)
<1>2. /\ a \in Nat /\ b \in Nat /\ b > 0 /\ c \in Nat /\ d \in Nat /\ d > 0
      /\ Rank!FailureShare(p) = <<a, b>> /\ Rank!ErrorRate(p) = Rank!Rounded(<<a, b + a>>)
      /\ Rank!FailureShare(q) = <<c, d>> /\ Rank!ErrorRate(q) = Rank!Rounded(<<c, d + c>>)
  BY <1>1
<1>. HIDE DEF f, n, a, b, c, d
<1>3. /\ <<a, b + a>> \in Fraction /\ <<c, d + c>> \in Fraction
      /\ (<<a, b>> \preceq <<c, d>> <=> a * d <= c * b)
      /\ (<<a, b + a>> \preceq <<c, d + c>> <=> a * (d + c) <= c * (b + a))
  <2>1. b + a \in Nat /\ b + a > 0 /\ d + c \in Nat /\ d + c > 0
    BY <1>2
  <2>. QED
    BY <1>2, <2>1, FractionParts DEF \preceq
<1>4. /\ a * (d + c) = a * d + a * c /\ c * (b + a) = c * b + a * c
      /\ a * d \in Nat /\ c * b \in Nat /\ a * c \in Nat
  BY <1>2
<1>5. <<a, b + a>> \preceq <<c, d + c>>
  BY <1>2, <1>3, <1>4
<1>. QED
  BY <1>2, <1>3, <1>5, RoundedGrows

(* Rates follow failures. *)
LEMMA RouterRates == ASSUME Rank!TypeOK PROVE Rank!RatesFollowFailures
<1>. SUFFICES ASSUME Rank!AllInSessions, NEW p \in Rank!Observed(Ranked),
                     NEW q \in Rank!Observed(Ranked),
                     Rank!\preceq(Rank!FailureShare(p), Rank!FailureShare(q))
              PROVE  Rank!\preceq(Rank!ErrorRate(p), Rank!ErrorRate(q))
  BY DEF Rank!RatesFollowFailures
<1>1. p \in Ranked /\ q \in Ranked /\ Rank!Calls(p) > 0 /\ Rank!Calls(q) > 0
  BY DEF Rank!Observed
<1>. QED
  BY <1>1, RatesCompare, SameOrder

(* Whoever is better comes first, or has the same score. *)
LEMMA RouterBetter == ASSUME Rank!TypeOK PROVE Rank!BetterComesFirst
<1>. SUFFICES ASSUME Rank!AllInSessions, NEW S \in SUBSET Ranked,
                     NEW p \in Rank!Observed(S), NEW q \in Rank!Observed(S), p # q,
                     Rank!\preceq(Rank!FailureShare(p), Rank!FailureShare(q)),
                     Rank!\preceq(Rank!AvgCost(p), Rank!AvgCost(q)),
                     Rank!\preceq(Rank!Engagement(q), Rank!Engagement(p))
              PROVE  \/ Rank!Before(S, FALSE, p, q)
                     \/ q < p /\ Rank!Score(S, p) = Rank!Score(S, q)
  BY DEF Rank!BetterComesFirst
<1>1. p \in S /\ q \in S /\ p \in Ranked /\ q \in Ranked /\ Rank!Calls(p) > 0 /\ Rank!Calls(q) > 0
  BY DEF Rank!Observed
<1>2. /\ Rank!ErrorRate(p) \preceq Rank!ErrorRate(q) /\ Rank!AvgCost(p) \preceq Rank!AvgCost(q)
      /\ Rank!Engagement(q) \preceq Rank!Engagement(p)
  BY <1>1, RatesCompare, SameOrder
<1>. DEFINE x == Rank!Score(S, p) y == Rank!Score(S, q)
<1>3. x \in Fraction /\ y \in Fraction /\ y \preceq x /\ (x \preceq y => x = y)
  BY <1>1, <1>2, ScoreGrows
<1>4. Rank!Before(S, FALSE, p, q) <=> (y \prec x \/ (~(x \prec y) /\ p < q))
  <2>1. Rank!Before(S, FALSE, p, q) <=> (Rank!\prec(y, x) \/ (~Rank!\prec(x, y) /\ p < q))
    BY DEF Rank!Before
  <2>. QED
    BY <2>1, SameOrder
<1>. HIDE DEF x, y
<1>5. p < q \/ q < p
  BY <1>1, RouterConstants
<1>6. ~(x \prec y)
  BY <1>3, OrderIsLinear
<1>7. ~(y \prec x) => x = y
  BY <1>3, OrderIsLinear
<1>. QED
  <2>1. Rank!Before(S, FALSE, p, q) \/ (q < p /\ x = y)
    BY <1>4, <1>5, <1>6, <1>7
  <2>. QED
    BY <2>1 DEF x, y

(* The order of a recommendation is a linear one. *)
LEMMA RecommendationIsOrdered ==
  ASSUME Rank!TypeOK, NEW S \in SUBSET Ranked, NEW cold \in BOOLEAN
  PROVE  /\ \A p \in S : ~Rank!Before(S, cold, p, p)
         /\ \A p, q \in S : p # q => Rank!Before(S, cold, p, q) \/ Rank!Before(S, cold, q, p)
         /\ \A p, q \in S : Rank!Before(S, cold, p, q) => ~Rank!Before(S, cold, q, p)
         /\ \A p, q, r \in S : Rank!Before(S, cold, p, q) /\
              Rank!Before(S, cold, q, r) => Rank!Before(S, cold, p, r)
<1>1. \A p \in S : p \in Nat /\ Trust[p] \in Nat
  BY RouterConstants
<1>2. CASE cold
  BY <1>1, <1>2 DEF Rank!Before
<1>3. CASE ~cold
  <2>. DEFINE f == [p \in S |-> Rank!Score(S, p)]
              B(p, q) == f[q] \prec f[p] \/ (~(f[p] \prec f[q]) /\ p < q)
  <2>1. \A p \in S : f[p] = Rank!Score(S, p) /\ f[p] \in Fraction
    <3>1. ASSUME NEW p \in S PROVE Rank!Score(S, p) \in Fraction
      <4>1. Rank!ErrorRate(p) \in Fraction /\ Rank!AvgCost(p) \in Fraction /\
              Rank!Engagement(p) \in Fraction
        BY ScoresAreFractions
      <4>. QED
        BY <4>1, OrderIsLinear, ScoreGrows
    <3>. QED
      BY <3>1
  <2>. HIDE DEF f
  <2>2. \A p, q \in S : Rank!Before(S, cold, p, q) <=> B(p, q)
    BY <1>3, <2>1, SameOrder DEF Rank!Before
  <2>3. \A p, q \in S : (f[p] \prec f[q] <=> ~(f[q] \preceq f[p])) /\ f[p] \preceq f[p]
    BY <2>1, OrderIsLinear
  <2>4. \A p, q \in S : f[p] \preceq f[q] \/ f[q] \preceq f[p]
    BY <2>1, OrderIsLinear
  <2>5. \A p, q, r \in S : f[p] \preceq f[q] /\ f[q] \preceq f[r] => f[p] \preceq f[r]
    BY <2>1, OrderIsTransitive
  <2>6. /\ \A p \in S : ~B(p, p)
        /\ \A p, q \in S : p # q => B(p, q) \/ B(q, p)
        /\ \A p, q \in S : B(p, q) => ~B(q, p)
    BY <1>1, <2>3, <2>4
  <2>7. \A p, q, r \in S : B(p, q) /\ B(q, r) => B(p, r)
    <3>. SUFFICES ASSUME NEW p \in S, NEW q \in S, NEW r \in S, B(p, q), B(q, r)
                  PROVE  B(p, r)
      OBVIOUS
    <3>1. p \in Nat /\ q \in Nat /\ r \in Nat
      BY <1>1
    <3>. QED
      BY <2>3, <2>4, <2>5, <3>1
  <2>. HIDE DEF B
  <2>. QED
    BY <2>2, <2>6, <2>7
<1>. QED
  BY <1>2, <1>3

(* The elements of a set with fewer than n others before them.             *)
AheadOf(p, S, B) == {q \in S \ {p} : <<q, p>> \in B}
FirstOf(n, S, B) == {p \in S : Cardinality(AheadOf(p, S, B)) < n}

(* In a linear order they are n, if the set has as many. *)
LEMMA FirstOfAll ==
  ASSUME NEW S, IsFiniteSet(S), NEW B, LinearOn(S, B), NEW n \in Nat
  PROVE  Cardinality(FirstOf(n, S, B)) = IF n <= Cardinality(S) THEN n ELSE Cardinality(S)
<1>. DEFINE Ahead(T, p) == AheadOf(p, T, B)
            Top(T) == FirstOf(n, T, B)
            Size(T) == IF n <= Cardinality(T) THEN n ELSE Cardinality(T)
            F == {T \in SUBSET S : Cardinality(Top(T)) # Size(T)}
<1>1. SUFFICES ASSUME F # {} PROVE FALSE
  OBVIOUS
<1>2. \A T \in F : IsFiniteSet(T)
  BY FS_Subset
<1>3. PICK T \in F : \A U \in F : U \subseteq T => U = T
  <2>. HIDE DEF F
  <2>. QED
    BY <1>1, <1>2, Smallest
<1>4. T \subseteq S /\ IsFiniteSet(T) /\ Cardinality(T) \in Nat /\ Cardinality(Top(T)) # Size(T)
  BY <1>2, FS_CardinalityType
<1>5. T # {}
  <2>1. SUFFICES ASSUME T = {} PROVE FALSE
    OBVIOUS
  <2>2. Top(T) = {} /\ Cardinality({}) = 0
    BY <2>1, FS_EmptySet DEF FirstOf
  <2>3. Size(T) = 0 /\ Cardinality(Top(T)) = 0
    BY <2>1, <2>2
  <2>. QED
    BY <1>4, <2>3
<1>6. PICK l \in T : \A q \in T \ {l} : <<q, l>> \in B
  <2>. HIDE DEF F, Top, Size, Ahead
  <2>. QED
    BY <1>4, <1>5, LastOfAll
<1>. DEFINE U == T \ {l}
<1>7. /\ U \subseteq S /\ IsFiniteSet(U) /\ Cardinality(U) \in Nat
      /\ Cardinality(T) = Cardinality(U) + 1 /\ l \in T /\ l \notin U /\ T = U \union {l}
  <2>1. U \subseteq S /\ IsFiniteSet(U) /\ l \in T /\ T = U \union {l} /\ l \notin U
    BY <1>4, <1>6, FS_Subset
  <2>2. Cardinality(U) \in Nat /\ Cardinality(U \union {l}) = Cardinality(U) + 1
    <3>. HIDE DEF U
    <3>. QED
      BY <2>1, FS_AddElement, FS_CardinalityType
  <2>. QED
    BY <2>1, <2>2
<1>8. Cardinality(Top(U)) = Size(U)
  <2>1. U \in SUBSET S /\ U \subseteq T /\ U # T
    BY <1>7
  <2>. HIDE DEF Top, Size, U
  <2>. QED
    BY <1>3, <2>1
<1>9. \A p \in U : Ahead(T, p) = Ahead(U, p)
  <2>1. \A p \in U : <<l, p>> \notin B
    BY <1>4, <1>6 DEF LinearOn
  <2>. QED
    BY <1>6, <2>1 DEF AheadOf
<1>10. Ahead(T, l) = U
  BY <1>6 DEF AheadOf
<1>11. Top(T) = Top(U) \union (IF Cardinality(U) < n THEN {l} ELSE {})
  <2>. HIDE DEF Ahead, U
  <2>. QED
    BY <1>7, <1>9, <1>10 DEF FirstOf, Ahead
<1>12. IsFiniteSet(Top(U)) /\ l \notin Top(U) /\ Cardinality(Top(U)) \in Nat
  <2>1. Top(U) \subseteq U
    BY DEF FirstOf
  <2>. HIDE DEF Top, U
  <2>. QED
    BY <1>7, <2>1, FS_Subset, FS_CardinalityType
<1>13. Cardinality(Top(U) \union {l}) = Cardinality(Top(U)) + 1
  <2>. HIDE DEF Top, U
  <2>. QED
    BY <1>12, FS_AddElement
<1>14. Cardinality(Top(T)) = Size(T)
  <2>1. CASE Cardinality(U) < n
    <3>1. Top(T) = Top(U) \union {l}
      <4>. HIDE DEF Top, U
      <4>. QED
        BY <1>11, <2>1
    <3>2. Cardinality(Top(T)) = Cardinality(Top(U)) + 1
      <4>. HIDE DEF Top, U
      <4>. QED
        BY <1>13, <3>1
    <3>3. Cardinality(Top(U)) = Cardinality(U)
      <4>. HIDE DEF Top, U
      <4>. QED
        BY <1>7, <1>8, <2>1
    <3>. HIDE DEF Top, U
    <3>. QED
      BY <1>7, <2>1, <3>2, <3>3
  <2>2. CASE ~(Cardinality(U) < n)
    <3>1. Top(T) = Top(U)
      <4>. HIDE DEF Top, U
      <4>. QED
        BY <1>11, <2>2
    <3>. HIDE DEF Top, U
    <3>. QED
      BY <1>7, <1>8, <2>2, <3>1
  <2>. QED
    BY <2>1, <2>2
<1>. QED
  BY <1>4, <1>14

(* A recommendation has as many as were asked for. *)
LEMMA RouterEnough == ASSUME Rank!TypeOK PROVE Rank!RecommendsEnough
<1>. SUFFICES ASSUME NEW S \in SUBSET Ranked, NEW cold \in BOOLEAN,
                     NEW n \in 1 .. Rank!Cardinality(Ranked)
              PROVE  Rank!Cardinality(Rank!Recommended(S, cold, n))
                       = Rank!Min({n, Rank!Cardinality(S)})
  BY DEF Rank!RecommendsEnough
<1>1. IsFiniteSet(S) /\ Cardinality(S) \in Nat /\ n \in Nat
  <2>1. IsFiniteSet(S)
    BY RouterConstants, FS_Subset
  <2>2. Cardinality(Ranked) \in Nat /\ Rank!Cardinality(Ranked) = Cardinality(Ranked)
    BY RouterConstants, RouterOperators, FS_CardinalityType
  <2>. QED
    BY <2>1, <2>2, FS_CardinalityType
<1>. DEFINE B == {x \in S \X S : Rank!Before(S, cold, x[1], x[2])}
<1>2. \A p, q \in S : <<p, q>> \in B <=> Rank!Before(S, cold, p, q)
  OBVIOUS
<1>. HIDE DEF B
<1>3. LinearOn(S, B)
  BY <1>2, RecommendationIsOrdered DEF LinearOn
<1>4. Cardinality(FirstOf(n, S, B)) = IF n <= Cardinality(S) THEN n ELSE Cardinality(S)
  BY <1>1, <1>3, FirstOfAll
<1>5. Rank!Recommended(S, cold, n) = FirstOf(n, S, B)
  <2>1. \A p \in S : {q \in S \ {p} : Rank!Before(S, cold, q, p)} = {q \in S \ {p} : <<q, p>> \in B}
    BY <1>2
  <2>. QED
    BY <2>1, RouterOperators DEF Rank!Recommended, FirstOf, AheadOf
<1>6. Min({n, Cardinality(S)}) = IF n <= Cardinality(S) THEN n ELSE Cardinality(S)
  <2>1. {n, Cardinality(S)} \in SUBSET Nat /\ {n, Cardinality(S)} # {}
    BY <1>1
  <2>2. Min({n, Cardinality(S)}) \in {n, Cardinality(S)}
        /\ \A y \in {n, Cardinality(S)} : Min({n, Cardinality(S)}) <= y
    BY <2>1, LeastIsMin
  <2>. QED
    BY <1>1, <2>2
<1>. QED
  BY <1>4, <1>5, <1>6, RouterOperators

-----------------------------------------------------------------------------
(* The theorems.                                                           *)

(* What holds throughout a call, whichever tool it is of.                  *)
PanelsInv ==
  /\ tool \in {"confer", "debate", "coordinate", "pick", "recommend_panel"}
  /\ tool = "confer" => Conf!ConferInv
  /\ tool = "debate" => Deb!DebateInv
  /\ tool = "coordinate" => Coord!CoordinateInv
  /\ tool = "pick" => Pk!PickInv
  /\ tool = "recommend_panel" => Rank!TypeOK

(* Every call begins with it.                                              *)
LEMMA PanelsStart == Init => PanelsInv
  BY ConferStarts, DebateStarts, CoordinateStarts, PickStarts, RouterStarts
     DEF Init, PanelsInv

(* A step of a call is one of its tool, or none.                           *)
LEMMA PanelsStep == PanelsInv /\ [Next]_vars => PanelsInv'
<1>. SUFFICES ASSUME PanelsInv, [Next]_vars PROVE PanelsInv'
  OBVIOUS
<1>1. tool' = tool
  BY DEF Next, vars
<1>2. ASSUME tool = "confer" PROVE Conf!ConferInv'
  <2>1. Conf!Next \/ UNCHANGED Conf!vars
    BY <1>2 DEF Next, AtRest, vars, Conf!vars
  <2>. QED
    BY <1>2, <2>1, ConferStep, ConferRests DEF PanelsInv
<1>3. ASSUME tool = "debate" PROVE Deb!DebateInv'
  <2>1. Deb!Next \/ UNCHANGED Deb!vars
    BY <1>3 DEF Next, AtRest, vars, Deb!vars, Deb!given, Deb!transcript,
                Deb!verdict, Deb!ledger
  <2>. QED
    BY <1>3, <2>1, DebateStep, DebateEnters DEF PanelsInv
<1>4. ASSUME tool = "coordinate" PROVE Coord!CoordinateInv'
  <2>1. Coord!Next \/ UNCHANGED Coord!vars
    BY <1>4 DEF Next, AtRest, vars, Coord!vars, Coord!request,
                Coord!pool
  <2>. QED
    BY <1>4, <2>1, CoordinateStep, RolesKeep DEF PanelsInv
<1>5. ASSUME tool = "pick" PROVE Pk!PickInv'
  <2>1. Pk!Next \/ UNCHANGED Pk!vars
    BY <1>5 DEF Next, AtRest, vars, Pk!vars, Pk!request, Pk!pool
  <2>. QED
    BY <1>5, <2>1, PickStep, PickEnters DEF PanelsInv
<1>6. ASSUME tool = "recommend_panel" PROVE Rank!TypeOK'
  <2>1. Rank!Next \/ UNCHANGED Rank!vars
    BY <1>6 DEF Next, AtRest, vars, Rank!vars
  <2>. QED
    BY <1>6, <2>1, RouterStep, RouterRests DEF PanelsInv
<1>. QED
  BY <1>1, <1>2, <1>3, <1>4, <1>5, <1>6 DEF PanelsInv

(* The inductive invariant of a call.                                      *)
THEOREM Invariance == Spec => []PanelsInv
<1>. QED
  BY PanelsStart, PanelsStep, PTL DEF Spec

(* The locals of a call always have their types.                           *)
THEOREM TypeCorrect == Spec => []TypeOK
<1>1. PanelsInv => TypeOK
  BY ConferHolds, PickHolds
     DEF PanelsInv, TypeOK, Deb!DebateInv, Coord!CoordinateInv
<1>. QED
  BY <1>1, Invariance, PTL

(* A call that ends has committed all that its answers report, whoever     *)
(* gave them, in whichever phase, round or role (_session_record), and     *)
(* what it was charged for beyond that is the charge of an error or of a   *)
(* draft that was asked for again.                                         *)
THEOREM AnswersAreCommitted == Spec => []AnswersCommitted
<1>1. PanelsInv => AnswersCommitted
  BY ConferHolds, PickHolds
     DEF PanelsInv, AnswersCommitted, Deb!DebateInv, Coord!CoordinateInv
<1>. QED
  BY <1>1, Invariance, PTL

(* Nobody moves on from a half-done round, and no proposer is his own      *)
(* critic by default (_run_parallel, tool_debate, tool_coordinate).        *)
THEOREM RoundsAreWhole == Spec => []RoundsWhole
<1>1. PanelsInv => RoundsWhole
  BY ConferHolds
     DEF PanelsInv, RoundsWhole, Deb!DebateInv, Coord!CoordinateInv
<1>. QED
  BY <1>1, Invariance, PTL

(* A panelist is spared, and a debate cut short, on the agreement of clean *)
(* answers or when time ran out; the judge of the agreement is asked below *)
(* the session's cap only (tool_confer, tool_debate, tool_pick).           *)
THEOREM EarlyStopsAreAgreed == Spec => EarlyStopIsAgreed
<1>1. PanelsInv => /\ tool = "confer" => Conf!WholePanelOrAgreement
                   /\ tool = "debate" => Deb!ShortDebateIsAgreed
                   /\ tool = "pick" => Pk!SkippedIsAgreed
  BY ConferHolds, PickHolds DEF PanelsInv, Deb!DebateInv
<1>2. PanelsInv /\ [Next]_vars => [tool = "confer" => Conf!JudgeStep]_vars
  <2>1. SUFFICES ASSUME PanelsInv, Next, tool = "confer" PROVE Conf!JudgeStep
    OBVIOUS
  <2>2. Conf!Next
    BY <2>1 DEF Next, AtRest
  <2>. QED
    BY <2>1, <2>2, ConferJudges DEF PanelsInv
<1>. QED
  BY <1>1, <1>2, Invariance, PTL DEF Spec, EarlyStopIsAgreed

(* What is better comes first, as far as the rounding tells it apart: an   *)
(* option that dominates another, a provider that dominates another, and a *)
(* lower share of failures (tool_pick, _router_recommend).                 *)
THEOREM TheBetterComesFirst == Spec => []BetterComesFirst
<1>1. PanelsInv => BetterComesFirst
  BY LeaderUndominated, LeaderScored, RouterBetter, RouterRates, RouterEnough
     DEF PanelsInv, BetterComesFirst
<1>. QED
  BY <1>1, Invariance, PTL
=============================================================================
