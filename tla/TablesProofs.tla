---------------------------- MODULE TablesProofs ----------------------------
(***************************************************************************)
(* What servers that share the database keep, for any number of them, any  *)
(* sessions, texts, costs, caps and bounds, in every use that the          *)
(* constants give. Each part is proved from the inductive invariant of its *)
(* own module: ClaimsInv of Claims, MemoryInv of Memory, BallotsInv of     *)
(* Ballots, LedgerInv of SessionLedger with the balance of its debts,      *)
(* DelegateInv of Delegate and EgressInv of Egress.                        *)
(***************************************************************************)
EXTENDS Tables, Sequences, SetProofs


-----------------------------------------------------------------------------
(***************************************************************************)
(* The claim graph.                                                        *)
(***************************************************************************)
(* The graph begins empty.                                                 *)
LEMMA ClaimsStart ==
  ASSUME NEW u \in Graphs, Graph(u)!ClaimsAssumption, Graph(u)!Init
  PROVE  Graph(u)!ClaimsInv
<1>1. Len(v1) = 0 /\ DOMAIN v1 = {} /\ v1 \in Seq(Graph(u)!Row)
  BY DEF Graph!Init
<1>2. \A s \in GraphOf[u].server : Graph(u)!NoCall(0) \in [session : GraphOf[u].session
        \union {"none"}, linking : BOOLEAN,
                                                           no : 0 .. GraphOf[u].calls,
                                                           rank : 1 .. 4,
                                                           added : 0 .. GraphOf[u].items]
  <2>1. 0 \in 0 .. GraphOf[u].calls /\ 1 \in 1 .. 4 /\ 0 \in 0 .. GraphOf[u].items
    <3>1. GraphOf[u].calls \in Nat /\ GraphOf[u].items \in Nat
      BY Zenon DEF Graph!ClaimsAssumption
    <3>. QED
      BY <3>1
  <2>. QED
    BY <2>1, Zenon DEF Graph!NoCall
<1>3. Graph(u)!TypeOK
  BY <1>1, <1>2 DEF Graph!Init, Graph!TypeOK
<1>4. \A s \in GraphOf[u].server : v3[s] = "idle" /\ v5[s] = 0 /\ v7[s] = {}
  BY DEF Graph!Init
<1>5. \A s \in GraphOf[u].server : Graph(u)!Adding(s)
  BY <1>4 DEF Graph!Adding, Graph!Busy
<1>6. v2 = {}
  BY DEF Graph!Init
<1>. QED
  BY <1>1, <1>3, <1>4, <1>5, <1>6 DEF Graph!ClaimsInv, Graph!LinksWithinSession,
                                      Graph!LinksPointBack, Graph!Busy

(* What the other servers and the older claims see of a step of s: the     *)
(* tables grow, and a row that is new is last and of the call of s.        *)
Grows(u, s) ==
  /\ v2 \subseteq v2' /\ v8 \subseteq v8'
  /\ v1' \in Seq(Graph(u)!Row) /\ Len(v1) <= Len(v1')
  /\ \A i \in DOMAIN v1 : v1'[i] = v1[i]
  /\ \A i \in DOMAIN v1' \ DOMAIN v1 :
       i = Len(v1) + 1 /\ v1'[i].server = s /\ v1'[i].no = v4[s].no /\ v3[s] = "add"
  /\ \A t \in GraphOf[u].server \ {s} : /\ v3'[t] = v3[t] /\ v4'[t] = v4[t] /\ v5'[t] = v5[t]
                                        /\ v6'[t] = v6[t] /\ v7'[t] = v7[t]

(* The row of an insertion. *)
LEMMA Inserted ==
  ASSUME NEW u \in Graphs, Graph(u)!ClaimsAssumption, Graph(u)!ClaimsInv,
         NEW s \in GraphOf[u].server, Graph(u)!Insert(s)
  PROVE  \E kind \in GraphOf[u].kind, row \in Graph(u)!Row :
           /\ row.session = v4[s].session /\ row.kind = kind /\ row.server = s
           /\ row.no = v4[s].no /\ row.target = Graph(u)!Target(s, kind)
           /\ v1' = Append(v1, row)
           /\ v4'[s].session = v4[s].session /\ v4'[s].no = v4[s].no
           /\ v4'[s].linking = v4[s].linking
<1>1. PICK kind \in GraphOf[u].kind, text \in GraphOf[u].text :
        /\ v1' = Append(v1, [session |-> v4[s].session, text |-> text, kind |-> kind,
                             server |-> s, no |-> v4[s].no, target |-> Graph(u)!Target(s,
                             kind)])
        /\ v4' = [v4 EXCEPT ![s].rank = Graph(u)!Rank[kind], ![s].added = @ + 1]
  BY DEF Graph!Insert
<1>2. Graph(u)!Adding(s) /\ v3[s] = "add"
  BY DEF Graph!ClaimsInv, Graph!Insert
<1>3. v4[s].session \in GraphOf[u].session /\ v4[s].no \in 1 .. GraphOf[u].calls
  BY <1>2 DEF Graph!Adding
<1>4. Graph(u)!Target(s, kind) \in Nat
  <2>1. v5[s] \in {0} \union DOMAIN v1 /\ v1 \in Seq(Graph(u)!Row)
    BY DEF Graph!ClaimsInv, Graph!TypeOK
  <2>. QED
    BY <2>1 DEF Graph!Target
<1>5. PICK row : row = [session |-> v4[s].session, text |-> text, kind |-> kind,
                        server |-> s, no |-> v4[s].no, target |-> Graph(u)!Target(s, kind)]
  OBVIOUS
<1>6. row \in Graph(u)!Row
  BY <1>3, <1>4, <1>5 DEF Graph!Row
<1>7. /\ v4'[s].session = v4[s].session /\ v4'[s].no = v4[s].no
      /\ v4'[s].linking = v4[s].linking
  <2>1. PICK c : c = v4[s]
    OBVIOUS
  <2>2. c \in [session : GraphOf[u].session \union {"none"}, linking : BOOLEAN,
        no : 0 .. GraphOf[u].calls,
               rank : 1 .. 4, added : 0 .. GraphOf[u].items]
    BY <2>1 DEF Graph!ClaimsInv, Graph!TypeOK
  <2>3. v4'[s] = [c EXCEPT !.rank = Graph(u)!Rank[kind], !.added = @ + 1]
    BY <1>1, <2>1 DEF Graph!ClaimsInv, Graph!TypeOK
  <2>. QED
    BY <2>1, <2>2, <2>3
<1>. QED
  BY <1>1, <1>5, <1>6, <1>7

(* Every step grows the tables.                                            *)
LEMMA StepGrows ==
  ASSUME NEW u \in Graphs, Graph(u)!ClaimsAssumption, Graph(u)!ClaimsInv,
         NEW s \in GraphOf[u].server, Graph(u)!Step(s)
  PROVE  Grows(u, s)
<1>1. v1 \in Seq(Graph(u)!Row) /\ Len(v1) \in Nat /\ DOMAIN v1 = 1 .. Len(v1)
  BY DEF Graph!ClaimsInv, Graph!TypeOK
<1>2. /\ v3 \in [GraphOf[u].server -> {"idle", "add", "scan", "merge", "link"}]
           /\ DOMAIN v4 = GraphOf[u].server
      /\ DOMAIN v5 = GraphOf[u].server /\ DOMAIN v6 = GraphOf[u].server
           /\ DOMAIN v7 = GraphOf[u].server
  BY DEF Graph!ClaimsInv, Graph!TypeOK
<1>3. CASE Graph(u)!Insert(s)
  <2>1. PICK row \in Graph(u)!Row : row.server = s /\ row.no = v4[s].no /\ v1' = Append(v1, row)
    BY <1>3, Inserted
  <2>2. /\ v1' \in Seq(Graph(u)!Row) /\ Len(v1') = Len(v1) + 1
        /\ DOMAIN v1' = 1 .. Len(v1) + 1
        /\ \A i \in DOMAIN v1 : v1'[i] = v1[i]
        /\ v1'[Len(v1) + 1] = row
    BY <1>1, <2>1
  <2>3. \A i \in DOMAIN v1' \ DOMAIN v1 : i = Len(v1) + 1
    BY <1>1, <2>2
  <2>4. \A t \in GraphOf[u].server \ {s} : /\ v3'[t] = v3[t] /\ v4'[t] = v4[t] /\ v5'[t] = v5[t]
                                           /\ v6'[t] = v6[t] /\ v7'[t] = v7[t]
    BY <1>2, <1>3 DEF Graph!Insert
  <2>5. v3[s] = "add" /\ v2' = v2 /\ v8' = v8
    BY <1>3 DEF Graph!Insert
  <2>. QED
    BY <1>1, <2>1, <2>2, <2>3, <2>4, <2>5 DEF Grows
<1>4. CASE ~Graph(u)!Insert(s)
  <2>1. v1' = v1 /\ v2 \subseteq v2' /\ v8 \subseteq v8'
    BY <1>4 DEF Graph!Step, Graph!table, Graph!Begin, Graph!Leave, Graph!Scan,
                Graph!ScanFails, Graph!Merge, Graph!Merged, Graph!LinkRole,
                Graph!LinkRoleFails, Graph!Crash
  <2>2. \A t \in GraphOf[u].server \ {s} : /\ v3'[t] = v3[t] /\ v4'[t] = v4[t] /\ v5'[t] = v5[t]
                                           /\ v6'[t] = v6[t] /\ v7'[t] = v7[t]
    <3>1. CASE Graph(u)!Begin(s)
      BY <1>2, <3>1 DEF Graph!Begin
    <3>2. CASE Graph(u)!Leave(s) \/ Graph(u)!LinkRoleFails(s) \/ Graph(u)!Crash(s)
      BY <1>2, <3>2 DEF Graph!Leave, Graph!LinkRoleFails, Graph!Crash, Graph!Return
    <3>3. CASE Graph(u)!Scan(s) \/ Graph(u)!ScanFails(s) \/ Graph(u)!Merge(s)
                 \/ Graph(u)!Merged(s) \/ Graph(u)!LinkRole(s)
      BY <1>2, <3>3 DEF Graph!Scan, Graph!ScanFails, Graph!Merge, Graph!Merged, Graph!LinkRole
    <3>. QED
      BY <1>4, <3>1, <3>2, <3>3 DEF Graph!Step
  <2>. QED
    BY <1>1, <2>1, <2>2 DEF Grows
<1>. QED
  BY <1>3, <1>4

(* What another server knows stays true.                                   *)
LEMMA OthersKeepAdding ==
  ASSUME NEW u \in Graphs, Graph(u)!TypeOK, NEW s \in GraphOf[u].server, Grows(u, s),
         NEW t \in GraphOf[u].server \ {s}, Graph(u)!Adding(t)
  PROVE  Graph(u)!Adding(t)'
<1>1. /\ v3'[t] = v3[t] /\ v4'[t] = v4[t] /\ v5'[t] = v5[t] /\ v6'[t] = v6[t]
      /\ v7'[t] = v7[t]
      /\ \A i \in DOMAIN v1 : i \in DOMAIN v1' /\ v1'[i] = v1[i]
  BY DEF Grows, Graph!TypeOK
<1>2. v5[t] \in {0} \union DOMAIN v1 /\ v7[t] \subseteq DOMAIN v1
  BY DEF Graph!TypeOK
<1>. QED
  BY <1>1, <1>2 DEF Graph!Adding, Graph!Target

(* A call that is over leaves nothing to know.                             *)
LEMMA ReturnForgets ==
  ASSUME NEW u \in Graphs, Graph(u)!TypeOK, NEW s \in GraphOf[u].server, Graph(u)!Return(s)
  PROVE  Graph(u)!Adding(s)' /\ v3'[s] = "idle" /\ v4'[s].no = v4[s].no
<1>1. /\ v3'[s] = "idle" /\ v5'[s] = 0 /\ v7'[s] = {}
      /\ v4'[s] = Graph(u)!NoCall(v4[s].no)
  BY DEF Graph!Return, Graph!TypeOK
<1>. QED
  BY <1>1 DEF Graph!Adding, Graph!Busy, Graph!NoCall

(* A server that begins a call is at its first claim.                      *)
LEMMA BeginSteps ==
  ASSUME NEW u \in Graphs, Graph(u)!ClaimsAssumption, Graph(u)!TypeOK,
         NEW s \in GraphOf[u].server, Graph(u)!Adding(s), Graph(u)!Begin(s)
  PROVE  Graph(u)!Adding(s)' /\ v4'[s].no = v4[s].no + 1 /\ v3'[s] = "add"
<1>1. PICK session \in GraphOf[u].session, linking \in BOOLEAN :
        v4' = [v4 EXCEPT ![s] = [session |-> session, linking |-> linking, no |-> @.no + 1,
                                 rank |-> 1, added |-> 0]]
  BY DEF Graph!Begin
<1>2. DOMAIN v4 = GraphOf[u].server /\ v4[s].no \in 0 .. GraphOf[u].calls
        /\ DOMAIN v3 = GraphOf[u].server
  BY DEF Graph!TypeOK
<1>3. v4'[s].session = session /\ v4'[s].no = v4[s].no + 1
  BY <1>1, <1>2
<1>4. v3'[s] = "add" /\ v3[s] = "idle" /\ v4[s].no < GraphOf[u].calls
      /\ v5'[s] = v5[s] /\ v7'[s] = v7[s]
  BY <1>2 DEF Graph!Begin
<1>5. v4'[s].no \in 1 .. GraphOf[u].calls
  BY <1>2, <1>3, <1>4 DEF Graph!ClaimsAssumption
<1>6. v5[s] = 0 /\ v7[s] = {}
  BY <1>4 DEF Graph!Adding
<1>. QED
  BY <1>1, <1>3, <1>4, <1>5, <1>6 DEF Graph!Adding, Graph!Busy

(* The claim that is inserted is that of the call.                         *)
LEMMA InsertSteps ==
  ASSUME NEW u \in Graphs, Graph(u)!ClaimsAssumption, Graph(u)!ClaimsInv,
         NEW s \in GraphOf[u].server, Graph(u)!Insert(s)
  PROVE  Graph(u)!Adding(s)' /\ v4'[s].no = v4[s].no
<1>1. /\ v1 \in Seq(Graph(u)!Row) /\ Len(v1) \in Nat /\ DOMAIN v1 = 1 .. Len(v1)
      /\ v3 \in [GraphOf[u].server -> {"idle", "add", "scan", "merge", "link"}]
           /\ DOMAIN v6 = GraphOf[u].server
      /\ v5[s] \in {0} \union DOMAIN v1 /\ Graph(u)!Adding(s)
  BY DEF Graph!ClaimsInv, Graph!TypeOK
<1>2. PICK kind \in GraphOf[u].kind, row \in Graph(u)!Row :
        /\ row.session = v4[s].session /\ row.kind = kind /\ row.server = s
        /\ row.no = v4[s].no /\ row.target = Graph(u)!Target(s, kind)
        /\ v1' = Append(v1, row)
        /\ v4'[s].session = v4[s].session /\ v4'[s].no = v4[s].no
        /\ v4'[s].linking = v4[s].linking
  BY Inserted
<1>6. /\ v3[s] = "add" /\ v3'[s] = "scan" /\ v6'[s] = Len(v1')
      /\ v5' = v5 /\ v7' = v7
  BY <1>1 DEF Graph!Insert
<1>7. /\ Len(v1') = Len(v1) + 1 /\ DOMAIN v1' = 1 .. Len(v1) + 1
      /\ \A i \in DOMAIN v1 : v1'[i] = v1[i]
      /\ v1'[Len(v1) + 1] = row
  BY <1>1, <1>2
<1>8. Graph(u)!Target(s, kind)' = Graph(u)!Target(s, kind)
  BY <1>2, <1>6 DEF Graph!Target
<1>9. v7[s] = {} /\ v4[s].session \in GraphOf[u].session /\ v4[s].no \in 1 .. GraphOf[u].calls
      /\ (v5[s] # 0 => v1[v5[s]].session = v4[s].session)
  BY <1>1, <1>6 DEF Graph!Adding
<1>10. v6'[s] = Len(v1) + 1 /\ v1'[v6'[s]] = row /\ v6'[s] \in DOMAIN v1'
       /\ v5'[s] < v6'[s]
  BY <1>1, <1>6, <1>7
<1>11. v5'[s] # 0 => v1'[v5'[s]].session = v4'[s].session
  BY <1>1, <1>2, <1>6, <1>7, <1>9
<1>12. row.target = Graph(u)!Target(s, row.kind)'
  BY <1>2, <1>8
<1>. QED
  BY <1>2, <1>6, <1>9, <1>10, <1>11, <1>12 DEF Graph!Adding, Graph!Target

(* The later steps of a claim keep what is known of it.                    *)
LEMMA ClaimSteps ==
  ASSUME NEW u \in Graphs, Graph(u)!ClaimsAssumption, Graph(u)!ClaimsInv,
         NEW s \in GraphOf[u].server,
         Graph(u)!Scan(s) \/ Graph(u)!ScanFails(s) \/ Graph(u)!Merge(s)
           \/ Graph(u)!Merged(s) \/ Graph(u)!LinkRole(s)
  PROVE  Graph(u)!Adding(s)' /\ v4' = v4
<1>1. /\ v3 \in [GraphOf[u].server -> {"idle", "add", "scan", "merge", "link"}]
           /\ DOMAIN v6 = GraphOf[u].server
      /\ DOMAIN v7 = GraphOf[u].server /\ DOMAIN v5 = GraphOf[u].server
           /\ v5[s] \in {0} \union DOMAIN v1
      /\ v1 \in Seq(Graph(u)!Row) /\ Graph(u)!Adding(s)
  BY DEF Graph!ClaimsInv, Graph!TypeOK
<1>2. CASE Graph(u)!Scan(s)
  <2>1. /\ v7'[s] = {i \in DOMAIN v1 \ {v6[s]} :
                       Graph(u)!Alike(i, v1[v6[s]].session, v1[v6[s]].text)}
        /\ v3'[s] = "merge" /\ v3[s] = "scan"
        /\ UNCHANGED <<v1, v4, v5, v6>>
    BY <1>1, <1>2 DEF Graph!Scan, Graph!table
  <2>2. \A i \in v7'[s] : i # v6[s] /\ v1[i].session = v1[v6[s]].session
    BY <2>1 DEF Graph!Alike
  <2>. QED
    BY <1>1, <2>1, <2>2 DEF Graph!Adding, Graph!Busy, Graph!Target
<1>3. CASE Graph(u)!ScanFails(s) \/ Graph(u)!Merged(s)
  <2>1. /\ v3[s] \in {"scan", "merge"} /\ v3'[s] = "link" /\ UNCHANGED <<v1, v4, v5, v6, v7>>
        /\ v7[s] = {}
    BY <1>1, <1>3 DEF Graph!ScanFails, Graph!Merged, Graph!table, Graph!Adding
  <2>. QED
    BY <1>1, <2>1 DEF Graph!Adding, Graph!Busy, Graph!Target
<1>4. CASE Graph(u)!Merge(s)
  <2>1. /\ v7'[s] \subseteq v7[s] /\ v3[s] = "merge" /\ UNCHANGED <<v1, v3, v4, v5, v6>>
    BY <1>1, <1>4 DEF Graph!Merge
  <2>. QED
    BY <1>1, <2>1 DEF Graph!Adding, Graph!Target
<1>5. CASE Graph(u)!LinkRole(s)
  <2>1. /\ v5'[s] = IF v1[v6[s]].kind = "consensus" THEN v6[s] ELSE v5[s]
        /\ v3'[s] = "add" /\ v3[s] = "link" /\ UNCHANGED <<v1, v4, v6, v7>>
    BY <1>1, <1>5 DEF Graph!LinkRole
  <2>2. v1[v6[s]].session = v4[s].session /\ v7[s] = {}
    BY <1>1, <2>1 DEF Graph!Adding, Graph!Busy
  <2>3. v5'[s] # 0 => v1[v5'[s]].session = v4[s].session
    BY <1>1, <2>1, <2>2 DEF Graph!Adding
  <2>. QED
    BY <1>1, <2>1, <2>2, <2>3 DEF Graph!Adding, Graph!Busy
<1>6. v4' = v4
  BY DEF Graph!Scan, Graph!ScanFails, Graph!Merge, Graph!Merged, Graph!LinkRole
<1>. QED
  BY <1>2, <1>3, <1>4, <1>5, <1>6

(* And so every server knows what it should.                               *)
LEMMA AddingSteps ==
  ASSUME NEW u \in Graphs, Graph(u)!ClaimsAssumption, Graph(u)!ClaimsInv,
         NEW s \in GraphOf[u].server, Graph(u)!Step(s)
  PROVE  /\ \A t \in GraphOf[u].server : Graph(u)!Adding(t)'
         /\ \A t \in GraphOf[u].server : v4[t].no <= v4'[t].no
         /\ v4'[s].no = v4[s].no \/ Graph(u)!Begin(s)
<1>1. Graph(u)!TypeOK /\ \A t \in GraphOf[u].server : Graph(u)!Adding(t) /\ v4[t].no \in Nat
  BY DEF Graph!ClaimsInv, Graph!TypeOK
<1>2. Grows(u, s)
  BY StepGrows
<1>3. Graph(u)!Adding(s)' /\ v4[s].no <= v4'[s].no
        /\ (v4'[s].no = v4[s].no \/ Graph(u)!Begin(s))
  <2>1. CASE Graph(u)!Begin(s)
    BY <1>1, <2>1, BeginSteps
  <2>2. CASE Graph(u)!Leave(s) \/ Graph(u)!LinkRoleFails(s) \/ Graph(u)!Crash(s)
    <3>1. Graph(u)!Return(s)
      BY <2>2 DEF Graph!Leave, Graph!LinkRoleFails, Graph!Crash
    <3>. QED
      BY <1>1, <3>1, ReturnForgets
  <2>3. CASE Graph(u)!Insert(s)
    BY <1>1, <2>3, InsertSteps
  <2>4. CASE Graph(u)!Scan(s) \/ Graph(u)!ScanFails(s) \/ Graph(u)!Merge(s)
               \/ Graph(u)!Merged(s) \/ Graph(u)!LinkRole(s)
    BY <1>1, <2>4, ClaimSteps
  <2>. QED
    BY <2>1, <2>2, <2>3, <2>4 DEF Graph!Step
<1>4. \A t \in GraphOf[u].server \ {s} : Graph(u)!Adding(t)' /\ v4'[t] = v4[t]
  BY <1>1, <1>2, OthersKeepAdding DEF Grows
<1>. QED
  BY <1>1, <1>3, <1>4

(* A link that is new leads from the claim being added to another of its   *)
(* session, one found similar or an earlier one.                           *)
NewLink(u, s, l) ==
  /\ v3[s] \in Graph(u)!Busy
  /\ l = Graph(u)!Link(v6[s], l.dst, l.kind)
  /\ l.kind \in {"merges_with", "supports", "attacks"}
  /\ l.dst \in DOMAIN v1 /\ l.dst # v6[s]
  /\ v1[l.dst].session = v1[v6[s]].session
  /\ l.dst \in v7[s] \/ l.dst < v6[s]

LEMMA LinksMade ==
  ASSUME NEW u \in Graphs, Graph(u)!ClaimsInv, NEW s \in GraphOf[u].server, Graph(u)!Step(s),
         NEW l \in v2', l \notin v2
  PROVE  NewLink(u, s, l)
<1>1. Graph(u)!Adding(s) /\ v7[s] \subseteq DOMAIN v1 /\ v5[s] \in {0} \union DOMAIN v1
      /\ v1 \in Seq(Graph(u)!Row) /\ v6[s] \in {0} \union DOMAIN v1
  BY DEF Graph!ClaimsInv, Graph!TypeOK
<1>2. CASE Graph(u)!Merge(s)
  <2>1. PICK i \in v7[s] : v2' = v2 \union {Graph(u)!Link(v6[s], i, "merges_with")} \/ v2' = v2
    BY <1>2 DEF Graph!Merge
  <2>2. l = Graph(u)!Link(v6[s], i, "merges_with") /\ v3[s] = "merge"
    BY <1>2, <2>1 DEF Graph!Merge
  <2>3. l.dst = i /\ l.kind = "merges_with"
    BY <2>2 DEF Graph!Link
  <2>4. i # v6[s] /\ v1[i].session = v1[v6[s]].session
    BY <1>1, <2>2 DEF Graph!Adding, Graph!Busy
  <2>. QED
    BY <1>1, <2>1, <2>2, <2>3, <2>4 DEF NewLink, Graph!Busy
<1>3. CASE Graph(u)!LinkRole(s)
  <2>1. PICK k : k = v1[v6[s]].kind
    OBVIOUS
  <2>2. /\ Graph(u)!Target(s, k) # 0
             /\ l = Graph(u)!Link(v6[s], v5[s], Graph(u)!LinkKind[k]) /\ v3[s] = "link"
    BY <1>3, <2>1 DEF Graph!LinkRole
  <2>3. v5[s] # 0 /\ k \in DOMAIN Graph(u)!LinkKind
    BY <2>2 DEF Graph!Target
  <2>4. Graph(u)!LinkKind[k] \in {"supports", "attacks"}
    BY <2>3 DEF Graph!LinkKind
  <2>5. l.dst = v5[s] /\ l.kind = Graph(u)!LinkKind[k]
    BY <2>2 DEF Graph!Link
  <2>6. v5[s] < v6[s] /\ v1[v5[s]].session = v1[v6[s]].session
        /\ v5[s] \in DOMAIN v1
    BY <1>1, <2>2, <2>3 DEF Graph!Adding, Graph!Busy
  <2>7. v5[s] # v6[s]
    BY <1>1, <2>6
  <2>. QED
    BY <1>1, <2>2, <2>4, <2>5, <2>6, <2>7 DEF NewLink, Graph!Busy
<1>. QED
  BY <1>2, <1>3 DEF Graph!Step, Graph!table, Graph!Begin, Graph!Insert, Graph!Leave,
                    Graph!Scan, Graph!ScanFails, Graph!Merged, Graph!LinkRoleFails, Graph!Crash

(* The variables keep their types. *)
LEMMA ClaimsTyped ==
  ASSUME NEW u \in Graphs, Graph(u)!ClaimsAssumption, Graph(u)!ClaimsInv,
         NEW s \in GraphOf[u].server, Graph(u)!Step(s)
  PROVE  Graph(u)!TypeOK'
<1>1. Graph(u)!TypeOK /\ Grows(u, s) /\ Graph(u)!Adding(s)
  BY StepGrows DEF Graph!ClaimsInv
<1>2. /\ v1 \in Seq(Graph(u)!Row) /\ v1' \in Seq(Graph(u)!Row) /\ Len(v1) \in Nat
      /\ Len(v1') \in Nat /\ DOMAIN v1' = 1 .. Len(v1')
      /\ DOMAIN v1 \subseteq DOMAIN v1' /\ DOMAIN v1 = 1 .. Len(v1)
  BY <1>1 DEF Grows, Graph!TypeOK
<1>. DEFINE Labels == {"idle", "add", "scan", "merge", "link"}
            Calls == [session : GraphOf[u].session \union {"none"}, linking : BOOLEAN,
            no : 0 .. GraphOf[u].calls,
                      rank : 1 .. 4, added : 0 .. GraphOf[u].items]
<1>3. v3 \in [GraphOf[u].server -> Labels] /\ v4 \in [GraphOf[u].server -> Calls]
  BY <1>1 DEF Graph!TypeOK
<1>4. v2' \subseteq [src : DOMAIN v1', dst : DOMAIN v1',
                     kind : {"merges_with", "supports", "attacks"}]
  <2>. SUFFICES ASSUME NEW l \in v2'
                PROVE  l \in [src : DOMAIN v1', dst : DOMAIN v1',
                              kind : {"merges_with", "supports", "attacks"}]
    OBVIOUS
  <2>1. CASE l \in v2
    BY <1>1, <1>2, <2>1 DEF Graph!TypeOK
  <2>2. CASE l \notin v2
    <3>1. NewLink(u, s, l)
      BY <2>2, LinksMade
    <3>2. l = [src |-> v6[s], dst |-> l.dst, kind |-> l.kind] /\ v6[s] \in DOMAIN v1
      BY <1>1, <3>1 DEF NewLink, Graph!Link, Graph!Adding
    <3>. QED
      BY <1>2, <3>1, <3>2 DEF NewLink
  <2>. QED
    BY <2>1, <2>2
<1>5. v3' \in [GraphOf[u].server -> Labels]
  BY <1>3 DEF Graph!Step, Graph!Begin, Graph!Insert, Graph!Leave, Graph!Scan, Graph!ScanFails,
              Graph!Merge, Graph!Merged, Graph!LinkRole,
              Graph!LinkRoleFails, Graph!Crash, Graph!Return
<1>6. v4' \in [GraphOf[u].server -> Calls]
  <2>1. PICK c : c = v4[s]
    OBVIOUS
  <2>2. c \in Calls
    BY <1>3, <2>1
  <2>3. CASE Graph(u)!Begin(s)
    <3>1. PICK session \in GraphOf[u].session, linking \in BOOLEAN :
            v4' = [v4 EXCEPT ![s] = [session |-> session, linking |-> linking,
                                     no |-> c.no + 1, rank |-> 1, added |-> 0]]
      BY <2>1, <2>3 DEF Graph!Begin
    <3>2. /\ c.no + 1 \in 0 .. GraphOf[u].calls /\ 1 \in 1 .. 4 /\ 0 \in 0 .. GraphOf[u].items
      <4>1. GraphOf[u].calls \in Nat /\ GraphOf[u].items \in Nat
        BY Zenon DEF Graph!ClaimsAssumption
      <4>2. c.no \in 0 .. GraphOf[u].calls /\ c.no < GraphOf[u].calls
        BY <2>1, <2>2, <2>3 DEF Graph!Begin
      <4>. QED
        BY <4>1, <4>2
    <3>3. [session |-> session, linking |-> linking, no |-> c.no + 1, rank |-> 1, added |-> 0]
            \in Calls
      BY <3>2, Zenon
    <3>. HIDE DEF Calls
    <3>. QED
      BY <1>3, <3>1, <3>3
  <2>4. CASE Graph(u)!Insert(s)
    <3>1. PICK kind \in GraphOf[u].kind :
           v4' = [v4 EXCEPT ![s].rank = Graph(u)!Rank[kind],
                            ![s].added = @ + 1]
      BY <2>4 DEF Graph!Insert
    <3>2. Graph(u)!Rank[kind] \in 1 .. 4
      <4>1. kind \in {"consensus", "support", "dissent", "open_question"}
        BY Zenon DEF Graph!ClaimsAssumption
      <4>. QED
        BY <4>1 DEF Graph!Rank
    <3>3. c.added + 1 \in 0 .. GraphOf[u].items
      <4>1. GraphOf[u].items \in Nat
        BY Zenon DEF Graph!ClaimsAssumption
      <4>2. c.added \in 0 .. GraphOf[u].items /\ c.added < GraphOf[u].items
        BY <2>1, <2>2, <2>4 DEF Graph!Insert
      <4>. QED
        BY <4>1, <4>2
    <3>4. [c EXCEPT !.rank = Graph(u)!Rank[kind], !.added = @ + 1] \in Calls
      <4>1. PICK r, a : r = Graph(u)!Rank[kind] /\ a = c.added + 1
        OBVIOUS
      <4>2. [c EXCEPT !.rank = r, !.added = a] \in Calls
        BY <2>2, <3>2, <3>3, <4>1
      <4>. QED
        BY <4>1, <4>2
    <3>. HIDE DEF Calls
    <3>. QED
      BY <1>3, <2>1, <3>1, <3>4
  <2>5. CASE Graph(u)!Leave(s) \/ Graph(u)!LinkRoleFails(s) \/ Graph(u)!Crash(s)
    <3>1. v4' = [v4 EXCEPT ![s] = Graph(u)!NoCall(c.no)]
      BY <2>1, <2>5 DEF Graph!Leave, Graph!LinkRoleFails, Graph!Crash, Graph!Return
    <3>2. Graph(u)!NoCall(c.no) \in Calls
      <4>1. GraphOf[u].calls \in Nat /\ GraphOf[u].items \in Nat
        BY Zenon DEF Graph!ClaimsAssumption
      <4>2. c.no \in 0 .. GraphOf[u].calls /\ 1 \in 1 .. 4 /\ 0 \in 0 .. GraphOf[u].items
        BY <2>2, <4>1
      <4>. QED
        BY <4>2, Zenon DEF Graph!NoCall
    <3>. HIDE DEF Calls
    <3>. QED
      BY <1>3, <3>1, <3>2
  <2>6. CASE Graph(u)!Scan(s) \/ Graph(u)!ScanFails(s) \/ Graph(u)!Merge(s)
               \/ Graph(u)!Merged(s) \/ Graph(u)!LinkRole(s)
    BY <1>3, <2>6 DEF Graph!Scan, Graph!ScanFails, Graph!Merge, Graph!Merged, Graph!LinkRole
  <2>. QED
    BY <2>3, <2>4, <2>5, <2>6 DEF Graph!Step
<1>7. v5' \in [GraphOf[u].server -> {0} \union DOMAIN v1']
  <2>1. v5 \in [GraphOf[u].server -> {0} \union DOMAIN v1]
          /\ v6 \in [GraphOf[u].server -> {0} \union DOMAIN v1]
    BY <1>1 DEF Graph!TypeOK
  <2>2. v5' = v5 \/ v5' = [v5 EXCEPT ![s] = 0] \/ v5' = [v5 EXCEPT ![s] = v6[s]]
        \/ v5' = [v5 EXCEPT ![s] = v5[s]]
    BY DEF Graph!Step, Graph!Begin, Graph!Insert, Graph!Leave, Graph!Scan, Graph!ScanFails,
           Graph!Merge, Graph!Merged, Graph!LinkRole,
           Graph!LinkRoleFails, Graph!Crash, Graph!Return
  <2>. QED
    BY <1>2, <2>1, <2>2
<1>8. v6' \in [GraphOf[u].server -> {0} \union DOMAIN v1']
  <2>1. v6 \in [GraphOf[u].server -> {0} \union DOMAIN v1]
    BY <1>1 DEF Graph!TypeOK
  <2>2. v6' = v6 \/ v6' = [v6 EXCEPT ![s] = 0]
        \/ (v6' = [v6 EXCEPT ![s] = Len(v1')] /\ \E row : v1' = Append(v1, row))
    BY DEF Graph!Step, Graph!Begin, Graph!Insert, Graph!Leave, Graph!Scan, Graph!ScanFails,
           Graph!Merge, Graph!Merged, Graph!LinkRole,
           Graph!LinkRoleFails, Graph!Crash, Graph!Return
  <2>3. (\E row : v1' = Append(v1, row)) => Len(v1') \in DOMAIN v1'
    BY <1>2
  <2>. QED
    BY <1>2, <2>1, <2>2, <2>3
<1>9. v7' \in [GraphOf[u].server -> SUBSET DOMAIN v1']
  <2>1. v7 \in [GraphOf[u].server -> SUBSET DOMAIN v1]
    BY <1>1 DEF Graph!TypeOK
  <2>2. v7' = v7 \/ \E ids \in SUBSET DOMAIN v1 : v7' = [v7 EXCEPT ![s] = ids]
    <3>1. CASE Graph(u)!Merge(s)
      <4>1. PICK i \in v7[s] : v7' = [v7 EXCEPT ![s] = v7[s] \ {i}]
        BY <3>1 DEF Graph!Merge
      <4>2. v7[s] \ {i} \in SUBSET DOMAIN v1
        BY <2>1
      <4>. QED
        BY <4>1, <4>2
    <3>2. CASE Graph(u)!Scan(s)
      BY <3>2 DEF Graph!Scan
    <3>3. CASE Graph(u)!Leave(s) \/ Graph(u)!LinkRoleFails(s) \/ Graph(u)!Crash(s)
      BY <3>3 DEF Graph!Leave, Graph!LinkRoleFails, Graph!Crash, Graph!Return
    <3>. QED
      BY <3>1, <3>2, <3>3 DEF Graph!Step, Graph!Begin, Graph!Insert, Graph!ScanFails,
                              Graph!Merged, Graph!LinkRole
  <2>. QED
    BY <1>2, <2>1, <2>2
<1>10. v8' \subseteq DOMAIN v1'
  <2>1. v8 \subseteq DOMAIN v1
    BY <1>1 DEF Graph!TypeOK
  <2>2. v8' = v8 \/ (v8' = v8 \union {v6[s]} /\ v3[s] \in Graph(u)!Busy)
    BY DEF Graph!Step, Graph!Begin, Graph!Insert, Graph!Leave, Graph!Scan, Graph!ScanFails,
           Graph!Merge, Graph!Merged, Graph!LinkRole,
           Graph!LinkRoleFails, Graph!Crash, Graph!Busy
  <2>3. v3[s] \in Graph(u)!Busy => v6[s] \in DOMAIN v1
    BY <1>1 DEF Graph!Adding
  <2>. QED
    BY <1>2, <2>1, <2>2, <2>3
<1>. QED
  BY <1>2, <1>4, <1>5, <1>6, <1>7, <1>8, <1>9, <1>10 DEF Graph!TypeOK

(* No link leaves its session, and no claim has a number that its server   *)
(* has not come to.                                                        *)
LEMMA SessionsKept ==
  ASSUME NEW u \in Graphs, Graph(u)!ClaimsAssumption, Graph(u)!ClaimsInv,
         NEW s \in GraphOf[u].server, Graph(u)!Step(s)
  PROVE  /\ Graph(u)!LinksWithinSession'
         /\ \A i \in DOMAIN v1' : v1'[i].no <= v4'[v1'[i].server].no
<1>1. Graph(u)!TypeOK /\ Grows(u, s) /\ Graph(u)!TypeOK' /\ Graph(u)!Adding(s)
  BY StepGrows, ClaimsTyped DEF Graph!ClaimsInv
<1>2. \A l \in v2 : l.src \in DOMAIN v1 /\ l.dst \in DOMAIN v1
  BY <1>1 DEF Graph!TypeOK
<1>3. \A i \in DOMAIN v1 : v1'[i] = v1[i]
  BY <1>1 DEF Grows
<1>4. ASSUME NEW l \in v2' PROVE v1'[l.src].session = v1'[l.dst].session
  <2>1. CASE l \in v2
    BY <1>2, <1>3, <2>1 DEF Graph!ClaimsInv, Graph!LinksWithinSession
  <2>2. CASE l \notin v2
    <3>1. NewLink(u, s, l)
      BY <2>2, LinksMade
    <3>2. l.src = v6[s] /\ v6[s] \in DOMAIN v1
      BY <1>1, <3>1 DEF NewLink, Graph!Link, Graph!Adding
    <3>. QED
      BY <1>3, <3>1, <3>2 DEF NewLink
  <2>. QED
    BY <2>1, <2>2
<1>5. ASSUME NEW i \in DOMAIN v1' PROVE v1'[i].no <= v4'[v1'[i].server].no
  <2>0. /\ \A t \in GraphOf[u].server : v4[t].no <= v4'[t].no /\ v4[t].no \in Int
             /\ v4'[t].no \in Int
        /\ v1 \in Seq(Graph(u)!Row)
    BY <1>1, AddingSteps DEF Graph!TypeOK
  <2>1. CASE i \in DOMAIN v1
    <3>1. v1[i] \in Graph(u)!Row
      BY <2>0, <2>1
    <3>2. v1[i].server \in GraphOf[u].server /\ v1[i].no \in Int
      BY <3>1 DEF Graph!Row
    <3>3. v1[i].no <= v4[v1[i].server].no
      BY <2>1 DEF Graph!ClaimsInv
    <3>. QED
      BY <1>3, <2>0, <2>1, <3>2, <3>3
  <2>2. CASE i \notin DOMAIN v1
    <3>1. v1'[i].server = s /\ v1'[i].no = v4[s].no
      BY <1>1, <2>2 DEF Grows
    <3>. QED
      BY <2>0, <3>1
  <2>. QED
    BY <2>1, <2>2
<1>. QED
  BY <1>4, <1>5 DEF Graph!LinksWithinSession

(* The row of a claim that is being added does not change, nor does that   *)
(* of any other.                                                           *)
LEMMA PairsKept ==
  ASSUME NEW u \in Graphs, Graph(u)!ClaimsAssumption, Graph(u)!ClaimsInv,
         NEW s \in GraphOf[u].server, Graph(u)!Step(s)
  PROVE  \A i, j \in DOMAIN v1' : Graph(u)!Paired(i, j)' => Graph(u)!Covered(i, j)'
<1>1. Graph(u)!TypeOK /\ Grows(u, s) /\ Graph(u)!Adding(s)
  BY StepGrows DEF Graph!ClaimsInv
<1>2. /\ v1 \in Seq(Graph(u)!Row) /\ v1' \in Seq(Graph(u)!Row) /\ Len(v1) \in Nat
      /\ Len(v1') \in Nat /\ DOMAIN v1' = 1 .. Len(v1')
      /\ DOMAIN v1 \subseteq DOMAIN v1' /\ DOMAIN v1 = 1 .. Len(v1)
      /\ \A i \in DOMAIN v1 : v1'[i] = v1[i]
      /\ v2 \subseteq v2' /\ v8 \subseteq v8'
      /\ \A i \in DOMAIN v1' \ DOMAIN v1 : i = Len(v1) + 1 /\ v3[s] = "add"
  BY <1>1 DEF Grows, Graph!TypeOK
<1>3. \A t \in GraphOf[u].server \ {s} : /\ v3'[t] = v3[t] /\ v6'[t] = v6[t] /\ v7'[t] = v7[t]
  BY <1>1 DEF Grows
<1>4. /\ v3 \in [GraphOf[u].server -> {"idle", "add", "scan", "merge", "link"}]
           /\ DOMAIN v6 = GraphOf[u].server
      /\ DOMAIN v7 = GraphOf[u].server
  BY <1>1 DEF Graph!TypeOK
<1>5. SUFFICES ASSUME NEW i \in DOMAIN v1', NEW j \in DOMAIN v1', Graph(u)!Paired(i, j)'
               PROVE  Graph(u)!Covered(i, j)'
  OBVIOUS
<1>6. i < j /\ i \in DOMAIN v1
  <2>1. i < j
    BY <1>5 DEF Graph!Paired
  <2>2. i \in DOMAIN v1 \/ i = Len(v1) + 1
    BY <1>2
  <2>3. j \in DOMAIN v1 \/ j = Len(v1) + 1
    BY <1>2
  <2>. QED
    BY <1>2, <2>1, <2>2, <2>3
<1>7. CASE j \notin DOMAIN v1
  <2>1. j = Len(v1) + 1 /\ v3[s] = "add"
    BY <1>2, <1>7
  <2>2. Graph(u)!Insert(s)
    <3>1. v1' # v1
      BY <1>7
    <3>. QED
      BY <3>1 DEF Graph!Step, Graph!table, Graph!Begin, Graph!Leave, Graph!Scan,
                  Graph!ScanFails, Graph!Merge, Graph!Merged, Graph!LinkRole,
                  Graph!LinkRoleFails, Graph!Crash
  <2>3. Len(v1') = Len(v1) + 1
    <3>1. PICK row \in Graph(u)!Row : v1' = Append(v1, row)
      BY <2>2, Inserted
    <3>. QED
      BY <1>2, <3>1
  <2>4. v6'[s] = j /\ v3'[s] = "scan"
    BY <1>4, <2>1, <2>2, <2>3 DEF Graph!Insert
  <2>. QED
    BY <2>4 DEF Graph!Covered
<1>8. CASE j \in DOMAIN v1
  <2>1. Graph(u)!Paired(i, j)
    BY <1>2, <1>5, <1>6, <1>8 DEF Graph!Paired
  <2>2. Graph(u)!Covered(i, j)
    BY <1>6, <1>8, <2>1 DEF Graph!ClaimsInv
  <2>3. CASE Graph(u)!Link(j, i, "merges_with") \in v2 \/ j \in v8
    BY <1>2, <2>3 DEF Graph!Covered, Graph!Link
  <2>4. ASSUME NEW t \in GraphOf[u].server, v6[t] = j, v3[t] \in {"scan", "merge"},
               v3[t] = "merge" => i \in v7[t]
        PROVE  Graph(u)!Covered(i, j)'
    <3>1. CASE t # s
      BY <1>3, <2>4, <3>1 DEF Graph!Covered
    <3>2. CASE t = s
      <4>1. CASE Graph(u)!Scan(s)
        <5>1. /\ v7'[s] = {k \in DOMAIN v1 \ {v6[s]} :
                             Graph(u)!Alike(k, v1[v6[s]].session, v1[v6[s]].text)}
              /\ v3'[s] = "merge" /\ v6' = v6
          BY <1>4, <4>1 DEF Graph!Scan
        <5>2. i \in v7'[s]
          BY <1>2, <1>6, <2>1, <2>4, <3>2, <5>1 DEF Graph!Paired, Graph!Alike
        <5>. QED
          BY <2>4, <3>2, <5>1, <5>2 DEF Graph!Covered
      <4>2. CASE Graph(u)!ScanFails(s) \/ Graph(u)!Crash(s)
        <5>1. j \in v8'
          BY <2>4, <3>2, <4>2 DEF Graph!ScanFails, Graph!Crash
        <5>. QED
          BY <5>1 DEF Graph!Covered
      <4>3. CASE Graph(u)!Merge(s)
        <5>1. PICK k \in v7[s] :
                /\ v7' = [v7 EXCEPT ![s] = v7[s] \ {k}]
                /\ Graph(u)!Link(v6[s], k, "merges_with") \in v2' \/ v6[s] \in v8'
          BY <4>3 DEF Graph!Merge
        <5>2. CASE i = k
          BY <2>4, <3>2, <5>1, <5>2 DEF Graph!Covered, Graph!Link
        <5>3. CASE i # k
          <6>1. i \in v7'[s] /\ v3' = v3 /\ v6' = v6
            BY <1>4, <2>4, <3>2, <4>3, <5>1, <5>3 DEF Graph!Merge
          <6>. QED
            BY <2>4, <3>2, <6>1 DEF Graph!Covered
        <5>. QED
          BY <5>2, <5>3
      <4>4. ~Graph(u)!Merged(s)
        BY <2>4, <3>2 DEF Graph!Merged
      <4>. QED
        BY <2>4, <3>2, <4>1, <4>2, <4>3, <4>4
           DEF Graph!Step, Graph!Begin, Graph!Insert, Graph!Leave, Graph!LinkRole,
               Graph!LinkRoleFails
    <3>. QED
      BY <3>1, <3>2
  <2>. QED
    BY <2>2, <2>3, <2>4 DEF Graph!Covered
<1>. QED
  BY <1>7, <1>8

(* A claim without its link stays the last of its call.                    *)
LEMMA DanglingKept ==
  ASSUME NEW u \in Graphs, Graph(u)!ClaimsAssumption, Graph(u)!ClaimsInv,
         NEW s \in GraphOf[u].server, Graph(u)!Step(s),
         NEW i \in DOMAIN v1, ~Graph(u)!Linked(i)
  PROVE  Graph(u)!Linked(i)' \/ Graph(u)!Dangling(i)'
<1>1. Graph(u)!TypeOK /\ Grows(u, s) /\ Graph(u)!Adding(s) /\ Graph(u)!Dangling(i)
  BY StepGrows DEF Graph!ClaimsInv
<1>2. PICK t : t = v1[i].server
  OBVIOUS
<1>3. /\ v1 \in Seq(Graph(u)!Row) /\ v1' \in Seq(Graph(u)!Row) /\ DOMAIN v1 \subseteq DOMAIN v1'
      /\ \A j \in DOMAIN v1 : v1'[j] = v1[j]
      /\ v1[i] \in Graph(u)!Row
  BY <1>1 DEF Grows, Graph!TypeOK
<1>4. t \in GraphOf[u].server /\ v1[i].no \in Int /\ v1'[i].server = t /\ v1'[i].no = v1[i].no
  BY <1>2, <1>3 DEF Graph!Row
<1>5. /\ \A j \in DOMAIN v1 : i < j => ~Graph(u)!SameCall(i, j)
      /\ v3[t] # "idle" /\ v4[t].no = v1[i].no => v3[t] \in Graph(u)!Busy /\ v6[t] = i
  BY <1>1, <1>2 DEF Graph!Dangling
<1>6. ASSUME NEW j \in DOMAIN v1', i < j PROVE ~Graph(u)!SameCall(i, j)'
  <2>1. CASE j \in DOMAIN v1
    BY <1>3, <1>5, <1>6, <2>1 DEF Graph!SameCall
  <2>2. CASE j \notin DOMAIN v1
    <3>1. v1'[j].server = s /\ v1'[j].no = v4[s].no /\ v3[s] = "add"
      BY <1>1, <2>2 DEF Grows
    <3>2. ASSUME Graph(u)!SameCall(i, j)' PROVE FALSE
      <4>1. t = s /\ v1[i].no = v4[s].no
        BY <1>2, <1>3, <3>1, <3>2 DEF Graph!SameCall
      <4>. QED
        BY <1>5, <3>1, <4>1 DEF Graph!Busy
    <3>. QED
      BY <3>2
  <2>. QED
    BY <2>1, <2>2
<1>7. ASSUME v3'[t] # "idle", v4'[t].no = v1[i].no, ~Graph(u)!Linked(i)'
      PROVE  v3'[t] \in Graph(u)!Busy /\ v6'[t] = i
  <2>1. CASE t # s
    <3>1. v3'[t] = v3[t] /\ v4'[t] = v4[t] /\ v6'[t] = v6[t]
      BY <1>1, <1>4, <2>1 DEF Grows
    <3>. QED
      BY <1>5, <1>7, <3>1
  <2>2. CASE t = s
    <3>1. v3 \in [GraphOf[u].server -> {"idle", "add", "scan", "merge", "link"}]
            /\ DOMAIN v6 = GraphOf[u].server
          /\ v4[s].no \in Int
      BY <1>1 DEF Graph!TypeOK
    <3>2. ~Graph(u)!Begin(s)
      <4>1. v1[i].no <= v4[s].no
        BY <1>2, <2>2 DEF Graph!ClaimsInv
      <4>2. Graph(u)!Begin(s) => v4'[s].no = v4[s].no + 1
        BY <1>1, BeginSteps
      <4>. QED
        BY <1>4, <1>7, <2>2, <3>1, <4>1, <4>2
    <3>3. v4'[s].no = v4[s].no
      BY <3>2, AddingSteps
    <3>4. v3[s] # "idle"
      BY <3>2 DEF Graph!Step, Graph!Insert, Graph!Leave, Graph!Scan, Graph!ScanFails,
                  Graph!Merge, Graph!Merged, Graph!LinkRole,
                  Graph!LinkRoleFails, Graph!Crash
    <3>5. v3[s] \in Graph(u)!Busy /\ v6[s] = i
      BY <1>5, <1>7, <2>2, <3>3, <3>4
    <3>6. CASE Graph(u)!Scan(s) \/ Graph(u)!ScanFails(s) \/ Graph(u)!Merge(s)
                 \/ Graph(u)!Merged(s)
      <4>1. v3'[s] \in Graph(u)!Busy /\ v6' = v6
        BY <3>1, <3>6 DEF Graph!Scan, Graph!ScanFails, Graph!Merge, Graph!Merged, Graph!Busy
      <4>. QED
        BY <2>2, <3>5, <4>1
    <3>7. CASE Graph(u)!LinkRole(s)
      <4>1. v1[i].target = Graph(u)!Target(s, v1[i].kind)
        BY <1>1, <3>5 DEF Graph!Adding
      <4>2. Graph(u)!Target(s, v1[i].kind) # 0
        BY <4>1 DEF Graph!Linked
      <4>3. Graph(u)!Target(s, v1[i].kind) = v5[s]
        BY <4>2 DEF Graph!Target
      <4>4. Graph(u)!Link(i, v1[i].target, Graph(u)!LinkKind[v1[i].kind]) \in v2'
        BY <3>5, <3>7, <4>1, <4>2, <4>3 DEF Graph!LinkRole
      <4>. QED
        BY <1>3, <1>7, <4>4 DEF Graph!Linked, Graph!Link, Graph!LinkKind
    <3>8. CASE Graph(u)!Leave(s) \/ Graph(u)!LinkRoleFails(s) \/ Graph(u)!Crash(s)
      BY <1>7, <2>2, <3>1, <3>8 DEF Graph!Leave, Graph!LinkRoleFails, Graph!Crash, Graph!Return
    <3>9. ~Graph(u)!Insert(s)
      BY <3>5 DEF Graph!Insert, Graph!Busy
    <3>. QED
      BY <3>2, <3>6, <3>7, <3>8, <3>9 DEF Graph!Step
  <2>. QED
    BY <2>1, <2>2
<1>. QED
  BY <1>4, <1>6, <1>7 DEF Graph!Dangling

(* A claim that is new is the one its server is at.                        *)
LEMMA NewDangles ==
  ASSUME NEW u \in Graphs, Graph(u)!ClaimsAssumption, Graph(u)!ClaimsInv,
         NEW s \in GraphOf[u].server, Graph(u)!Step(s),
         NEW i \in DOMAIN v1', i \notin DOMAIN v1
  PROVE  Graph(u)!Dangling(i)' /\ v3'[s] = "scan" /\ v6'[s] = i /\ i = Len(v1')
           /\ Graph(u)!Insert(s)
<1>1. Graph(u)!TypeOK /\ Grows(u, s)
  BY StepGrows DEF Graph!ClaimsInv
<1>2. /\ i = Len(v1) + 1 /\ v1'[i].server = s /\ v1 \in Seq(Graph(u)!Row)
      /\ DOMAIN v6 = GraphOf[u].server /\ DOMAIN v3 = GraphOf[u].server
  BY <1>1 DEF Grows, Graph!TypeOK
<1>3. Graph(u)!Insert(s)
  <2>1. v1' # v1
    OBVIOUS
  <2>. QED
    BY <2>1 DEF Graph!Step, Graph!table, Graph!Begin, Graph!Leave, Graph!Scan,
                Graph!ScanFails, Graph!Merge, Graph!Merged, Graph!LinkRole,
                Graph!LinkRoleFails, Graph!Crash
<1>4. PICK row \in Graph(u)!Row : v1' = Append(v1, row)
  BY <1>3, Inserted
<1>5. Len(v1') = i /\ DOMAIN v1' = 1 .. i
  BY <1>2, <1>4
<1>6. v3'[s] = "scan" /\ v6'[s] = i
  BY <1>2, <1>3, <1>5 DEF Graph!Insert
<1>. QED
  BY <1>2, <1>3, <1>5, <1>6 DEF Graph!Dangling, Graph!Busy

(* With one server, what it links comes before what it links it to.        *)
LEMMA OneServer ==
  ASSUME NEW u \in Graphs, Graph(u)!ClaimsAssumption, Graph(u)!ClaimsInv,
         NEW s \in GraphOf[u].server, Graph(u)!Step(s), GraphOf[u].server = {s}
  PROVE  Graph(u)!LinksPointBack' /\ \A t \in GraphOf[u].server : v3'[t] \in Graph(u)!Busy
           => v6'[t] = Len(v1')
<1>1. Graph(u)!TypeOK /\ Grows(u, s) /\ Graph(u)!LinksPointBack
        /\ (v3[s] \in Graph(u)!Busy => v6[s] = Len(v1))
  BY StepGrows DEF Graph!ClaimsInv
<1>2. v1 \in Seq(Graph(u)!Row) /\ Len(v1) \in Nat /\ DOMAIN v1 = 1 .. Len(v1)
      /\ DOMAIN v6 = GraphOf[u].server /\ DOMAIN v3 = GraphOf[u].server
  BY <1>1 DEF Graph!TypeOK
<1>3. ASSUME NEW l \in v2', l \notin v2 PROVE l.src > l.dst
  <2>1. NewLink(u, s, l)
    BY <1>3, LinksMade
  <2>2. l.src = v6[s] /\ v6[s] = Len(v1) /\ l.dst \in 1 .. Len(v1) /\ l.dst # v6[s]
    BY <1>1, <1>2, <2>1 DEF NewLink, Graph!Link
  <2>. QED
    BY <1>2, <2>2
<1>4. Graph(u)!LinksPointBack'
  BY <1>1, <1>3 DEF Graph!LinksPointBack
<1>5. v3'[s] \in Graph(u)!Busy => v6'[s] = Len(v1')
  <2>1. CASE Graph(u)!Insert(s)
    BY <1>2, <2>1 DEF Graph!Insert
  <2>2. CASE Graph(u)!Begin(s) \/ Graph(u)!Leave(s) \/ Graph(u)!LinkRoleFails(s)
               \/ Graph(u)!Crash(s) \/ Graph(u)!LinkRole(s)
    BY <1>2, <2>2 DEF Graph!Begin, Graph!Leave, Graph!LinkRoleFails, Graph!Crash,
                      Graph!LinkRole, Graph!Return, Graph!Busy
  <2>3. CASE Graph(u)!Scan(s) \/ Graph(u)!ScanFails(s) \/ Graph(u)!Merge(s)
               \/ Graph(u)!Merged(s)
    BY <1>1, <1>2, <2>3 DEF Graph!Scan, Graph!ScanFails, Graph!Merge, Graph!Merged,
                            Graph!table, Graph!Busy
  <2>. QED
    BY <2>1, <2>2, <2>3 DEF Graph!Step
<1>. QED
  BY <1>4, <1>5

(* The invariant is kept by every step.                                    *)
LEMMA ClaimsStep ==
  ASSUME NEW u \in Graphs, Graph(u)!ClaimsAssumption, Graph(u)!ClaimsInv,
         [Graph(u)!Next]_(Graph(u)!vars)
  PROVE  Graph(u)!ClaimsInv'
<1>1. CASE UNCHANGED Graph(u)!vars
  BY <1>1 DEF Graph!vars, Graph!table, Graph!ClaimsInv, Graph!TypeOK, Graph!Adding,
              Graph!Target, Graph!Paired, Graph!Covered, Graph!LinksWithinSession,
              Graph!Linked, Graph!Dangling, Graph!SameCall, Graph!LinksPointBack
<1>2. ASSUME NEW s \in GraphOf[u].server, Graph(u)!Step(s) PROVE Graph(u)!ClaimsInv'
  <2>1. Graph(u)!TypeOK'
    BY <1>2, ClaimsTyped
  <2>2. \A t \in GraphOf[u].server : Graph(u)!Adding(t)'
    BY <1>2, AddingSteps
  <2>3. /\ Graph(u)!LinksWithinSession'
        /\ \A i \in DOMAIN v1' : v1'[i].no <= v4'[v1'[i].server].no
    BY <1>2, SessionsKept
  <2>4. \A i, j \in DOMAIN v1' : Graph(u)!Paired(i, j)' => Graph(u)!Covered(i, j)'
    BY <1>2, PairsKept
  <2>5. ASSUME NEW i \in DOMAIN v1' PROVE Graph(u)!Linked(i)' \/ Graph(u)!Dangling(i)'
    <3>1. CASE i \notin DOMAIN v1
      BY <1>2, <3>1, NewDangles
    <3>2. CASE i \in DOMAIN v1 /\ ~Graph(u)!Linked(i)
      BY <1>2, <3>2, DanglingKept
    <3>3. CASE i \in DOMAIN v1 /\ Graph(u)!Linked(i)
      <4>1. Grows(u, s)
        BY <1>2, StepGrows
      <4>2. v1'[i] = v1[i] /\ v2 \subseteq v2'
        BY <3>3, <4>1 DEF Grows
      <4>. QED
        BY <3>3, <4>2 DEF Graph!Linked, Graph!Link, Graph!LinkKind
    <3>. QED
      BY <3>1, <3>2, <3>3
  <2>6. ASSUME NEW t \in GraphOf[u].server, GraphOf[u].server = {t}
        PROVE  Graph(u)!LinksPointBack'
                 /\ \A r \in GraphOf[u].server : v3'[r] \in Graph(u)!Busy => v6'[r] = Len(v1')
    <3>1. GraphOf[u].server = {s}
      BY <1>2, <2>6
    <3>. QED
      BY <1>2, <3>1, OneServer
  <2>. QED
    BY <2>1, <2>2, <2>3, <2>4, <2>5, <2>6 DEF Graph!ClaimsInv, Graph!Busy
<1>. QED
  BY <1>1, <1>2 DEF Graph!Next

(* What the invariant says. *)
LEMMA ClaimsHold ==
  ASSUME NEW u \in Graphs, Graph(u)!ClaimsInv
  PROVE  /\ Graph(u)!TypeOK /\ Graph(u)!SimilarAreLinked /\ Graph(u)!LinksWithinSession
              /\ Graph(u)!OnlyLastUnlinked
         /\ Alone(GraphOf[u].server) => Graph(u)!LinksPointBack
<1>1. Graph(u)!TypeOK /\ Graph(u)!LinksWithinSession
        /\ (Alone(GraphOf[u].server) => Graph(u)!LinksPointBack)
  BY DEF Graph!ClaimsInv, Alone
<1>2. Graph(u)!SimilarAreLinked
  <2>1. \A i, j \in DOMAIN v1 : Graph(u)!Paired(i, j) => Graph(u)!Covered(i, j)
    BY DEF Graph!ClaimsInv
  <2>2. \A i, j \in DOMAIN v1 : Graph(u)!Covered(i, j) =>
          Graph(u)!Link(j, i, "merges_with") \in v2 \/ j \in v8 \/ Graph(u)!Deduping(j)
    BY DEF Graph!Covered, Graph!Deduping
  <2>. QED
    BY <2>1, <2>2 DEF Graph!SimilarAreLinked, Graph!Paired
<1>3. Graph(u)!OnlyLastUnlinked
  <2>1. \A i \in DOMAIN v1 : Graph(u)!Linked(i) \/ Graph(u)!Dangling(i)
    BY DEF Graph!ClaimsInv
  <2>. QED
    BY <2>1 DEF Graph!OnlyLastUnlinked, Graph!Linked, Graph!Dangling, Graph!SameCall
<1>. QED
  BY <1>1, <1>2, <1>3


-----------------------------------------------------------------------------
(***************************************************************************)
(* Session memory.                                                         *)
(***************************************************************************)
(* Memory begins empty.                                                    *)
LEMMA MemoryStarts ==
  ASSUME NEW u \in Memories, Memo(u)!MemoryAssumption, Memo(u)!Init
  PROVE  Memo(u)!MemoryInv
<1>1. /\ v1 \in Seq(Memo(u)!Rows) /\ Len(v1) = 0 /\ DOMAIN v1 = {}
      /\ v4 = {} /\ v5 = {}
      /\ v3 = [s \in MemoryOf[u].server |-> {}] /\ v2 = [s \in MemoryOf[u].server |-> "idle"]
  BY DEF Memo!Init
<1>2. MemoryOf[u].rows \in Nat
  BY DEF Memo!MemoryAssumption
<1>. QED
  BY <1>1, <1>2 DEF Memo!MemoryInv, Memo!TypeOK, Memo!Untainted

(* A row that is added is fresh, and the last.                             *)
AddsRow(u, roots) ==
  \E kind \in MemoryOf[u].kind : v1' = Append(v1, Memo(u)!Row(kind, roots))

LEMMA Added ==
  ASSUME NEW u \in Memories, Memo(u)!TypeOK, NEW roots \in SUBSET DOMAIN v1, AddsRow(u, roots)
  PROVE  LET n == Len(v1) + 1 IN
         /\ v1' \in Seq(Memo(u)!Rows) /\ Len(v1') = n /\ DOMAIN v1' = 1 .. n
         /\ DOMAIN v1 = 1 .. Len(v1) /\ Len(v1) \in Nat
         /\ \A i \in DOMAIN v1 : v1'[i] = v1[i] /\ i # n
         /\ v1'[n].roots = roots /\ v1'[n].state = "fresh"
<1>1. v1 \in Seq(Memo(u)!Rows) /\ Len(v1) \in Nat /\ DOMAIN v1 = 1 .. Len(v1)
  BY DEF Memo!TypeOK
<1>2. PICK kind \in MemoryOf[u].kind : v1' = Append(v1, Memo(u)!Row(kind, roots))
  BY DEF AddsRow
<1>3. PICK row : row = Memo(u)!Row(kind, roots)
  OBVIOUS
<1>4. row \in Memo(u)!Rows /\ row.roots = roots /\ row.state = "fresh"
  BY <1>1, <1>3 DEF Memo!Row, Memo!Rows
<1>. QED
  BY <1>1, <1>2, <1>3, <1>4

(* What marking or clearing rows changes.                                  *)
Marks(u) ==
  /\ v1' \in Seq(Memo(u)!Rows) /\ Len(v1') = Len(v1)
  /\ \A i \in DOMAIN v1 :
       /\ v1'[i].roots = v1[i].roots
       /\ \/ v1'[i] = v1[i]
          \/ v1[i].state = "fresh" /\ v1'[i].state # "fresh"
          \/ v1[i].state = "stale" /\ v1'[i].state = "deleted"

(* What holds of the row of every id.                                      *)
LEMMA Restated ==
  ASSUME NEW u \in Memories, Memo(u)!TypeOK, NEW g, v1' = [i \in DOMAIN v1 |-> g[i]],
         \A i \in DOMAIN v1 :
           /\ g[i] \in Memo(u)!Rows /\ g[i].roots = v1[i].roots
           /\ \/ g[i] = v1[i]
              \/ v1[i].state = "fresh" /\ g[i].state # "fresh"
              \/ v1[i].state = "stale" /\ g[i].state = "deleted"
  PROVE  Marks(u)
<1>1. v1 \in Seq(Memo(u)!Rows) /\ Len(v1) \in Nat /\ DOMAIN v1 = 1 .. Len(v1)
  BY DEF Memo!TypeOK
<1>2. \A i \in DOMAIN v1 : v1'[i] = g[i]
  OBVIOUS
<1>3. v1' \in [1 .. Len(v1) -> Memo(u)!Rows]
  BY <1>1
<1>4. v1' \in Seq(Memo(u)!Rows) /\ Len(v1') = Len(v1)
  BY <1>1, <1>3
<1>. QED
  BY <1>2, <1>4 DEF Marks

LEMMA StalingMarks ==
  ASSUME NEW u \in Memories, Memo(u)!TypeOK, NEW ids, v1' = Memo(u)!Staled(ids)
  PROVE  Marks(u)
<1>. DEFINE g == [i \in DOMAIN v1 |-> IF i \in ids \intersect Memo(u)!Fresh
                                        THEN [v1[i] EXCEPT !.state = "stale"] ELSE v1[i]]
<1>1. v1' = [i \in DOMAIN v1 |-> g[i]]
  BY DEF Memo!Staled
<1>2. ASSUME NEW i \in DOMAIN v1
      PROVE  /\ g[i] \in Memo(u)!Rows /\ g[i].roots = v1[i].roots
             /\ \/ g[i] = v1[i]
                \/ v1[i].state = "fresh" /\ g[i].state # "fresh"
                \/ v1[i].state = "stale" /\ g[i].state = "deleted"
  <2>1. PICK r \in Memo(u)!Rows : r = v1[i]
    BY DEF Memo!TypeOK
  <2>2. [r EXCEPT !.state = "stale"] \in Memo(u)!Rows
          /\ [r EXCEPT !.state = "stale"].roots = r.roots
        /\ [r EXCEPT !.state = "stale"].state = "stale"
    BY DEF Memo!Rows
  <2>3. i \in Memo(u)!Fresh => r.state = "fresh"
    BY <2>1 DEF Memo!Fresh
  <2>. QED
    BY <2>1, <2>2, <2>3
<1>. HIDE DEF g
<1>. QED
  BY <1>1, <1>2, Restated

LEMMA ClearingMarks ==
  ASSUME NEW u \in Memories, Memo(u)!TypeOK, NEW s, Memo(u)!Clear(s)
  PROVE  Marks(u)
<1>. DEFINE g == [i \in DOMAIN v1 |-> [v1[i] EXCEPT !.state = "deleted"]]
<1>1. v1' = [i \in DOMAIN v1 |-> g[i]]
  BY DEF Memo!Clear
<1>2. ASSUME NEW i \in DOMAIN v1
      PROVE  /\ g[i] \in Memo(u)!Rows /\ g[i].roots = v1[i].roots
             /\ \/ g[i] = v1[i]
                \/ v1[i].state = "fresh" /\ g[i].state # "fresh"
                \/ v1[i].state = "stale" /\ g[i].state = "deleted"
  <2>1. PICK r \in Memo(u)!Rows : r = v1[i]
    BY DEF Memo!TypeOK
  <2>2. PICK d : d = [r EXCEPT !.state = "deleted"]
    OBVIOUS
  <2>3. d \in Memo(u)!Rows /\ d.roots = r.roots /\ d.state = "deleted"
    BY <2>2 DEF Memo!Rows
  <2>4. r.state = "deleted" => d = r
    BY <2>2 DEF Memo!Rows
  <2>5. r.state \in {"fresh", "stale", "deleted"}
    BY DEF Memo!Rows
  <2>. QED
    BY <2>1, <2>2, <2>3, <2>4, <2>5
<1>. HIDE DEF g
<1>. QED
  BY <1>1, <1>2, Restated

(* What marks rows leaves no more of them fresh.                           *)
LEMMA MarkedKeeps ==
  ASSUME NEW u \in Memories, Memo(u)!TypeOK, Marks(u)
  PROVE  /\ DOMAIN v1' = DOMAIN v1 /\ Memo(u)!Fresh' \subseteq Memo(u)!Fresh
         /\ Len(v1') <= MemoryOf[u].rows
         /\ \A i \in DOMAIN v1' : v1'[i].roots = v1[i].roots
         /\ \A i \in DOMAIN v1' : v1'[i].roots \subseteq 1 .. i - 1
<1>1. v1 \in Seq(Memo(u)!Rows) /\ v1' \in Seq(Memo(u)!Rows) /\ Len(v1') = Len(v1)
  BY DEF Marks, Memo!TypeOK
<1>2. DOMAIN v1' = DOMAIN v1
  BY <1>1
<1>3. Memo(u)!Fresh' \subseteq Memo(u)!Fresh
  BY <1>2 DEF Memo!Fresh, Marks
<1>. QED
  BY <1>1, <1>2, <1>3 DEF Marks, Memo!TypeOK

(* What is said of a state in which all but the rows stays.                *)
LEMMA MarkSteps ==
  ASSUME NEW u \in Memories, Memo(u)!MemoryInv, Marks(u), UNCHANGED <<v2, v3, v4, v5>>
  PROVE  Memo(u)!MemoryInv'
<1>1. Memo(u)!TypeOK
  BY DEF Memo!MemoryInv
<1>2. /\ DOMAIN v1' = DOMAIN v1 /\ Memo(u)!Fresh' \subseteq Memo(u)!Fresh
      /\ Len(v1') <= MemoryOf[u].rows
      /\ \A i \in DOMAIN v1' : v1'[i].roots = v1[i].roots
      /\ \A i \in DOMAIN v1' : v1'[i].roots \subseteq 1 .. i - 1
  BY <1>1, MarkedKeeps
<1>3. Memo(u)!TypeOK'
  BY <1>1, <1>2 DEF Memo!TypeOK, Marks
<1>4. ASSUME Memo(u)!Untainted PROVE Memo(u)!Untainted'
  <2>. SUFFICES ASSUME NEW s \in MemoryOf[u].server
                PROVE  Memo(u)!Origins(Memo(u)!Fresh \union v3[s])' \intersect v4' \subseteq v5'
    BY DEF Memo!Untainted
  <2>1. Memo(u)!Fresh \subseteq DOMAIN v1 /\ v3[s] \subseteq DOMAIN v1
    BY <1>1 DEF Memo!Fresh, Memo!TypeOK
  <2>2. Memo(u)!Origins(Memo(u)!Fresh
          \union v3[s])' \subseteq Memo(u)!Origins(Memo(u)!Fresh \union v3[s])
    BY <1>2, <2>1 DEF Memo!Origins
  <2>3. Memo(u)!Origins(Memo(u)!Fresh \union v3[s]) \intersect v4 \subseteq v5
    BY <1>4 DEF Memo!Untainted
  <2>. QED
    BY <2>2, <2>3
<1>. QED
  BY <1>2, <1>3, <1>4 DEF Memo!MemoryInv

(* A row that is added goes back to what its prompt was given.             *)
LEMMA AddSteps ==
  ASSUME NEW u \in Memories, Memo(u)!MemoryAssumption, Memo(u)!MemoryInv,
         NEW s \in MemoryOf[u].server,
         Memo(u)!Remember(s) \/ Memo(u)!Add(s)
  PROVE  Memo(u)!MemoryInv'
<1>1. Memo(u)!TypeOK
  BY DEF Memo!MemoryInv
<1>2. /\ v1 \in Seq(Memo(u)!Rows) /\ Len(v1) \in Nat /\ DOMAIN v1 = 1 .. Len(v1)
      /\ v3[s] \subseteq DOMAIN v1
      /\ \A i \in DOMAIN v1 : v1[i].roots \subseteq 1 .. i - 1
  BY <1>1 DEF Memo!TypeOK
<1>3. UNCHANGED <<v2, v3, v4, v5>> /\ Len(v1) < MemoryOf[u].rows
  BY DEF Memo!Remember, Memo!Add
<1>4. PICK roots : /\ AddsRow(u, roots)
                   /\ roots = {} \/ roots = Memo(u)!Origins(v3[s])
  BY DEF Memo!Remember, Memo!Add, AddsRow
<1>5. roots \subseteq DOMAIN v1
  <2>1. \A i \in v3[s] : i \in DOMAIN v1 /\ v1[i].roots \subseteq DOMAIN v1
    BY <1>2
  <2>. QED
    BY <1>2, <1>4, <2>1 DEF Memo!Origins
<1>6. PICK n : n = Len(v1) + 1
  OBVIOUS
<1>7. /\ v1' \in Seq(Memo(u)!Rows) /\ Len(v1') = n /\ DOMAIN v1' = 1 .. n
      /\ \A i \in DOMAIN v1 : v1'[i] = v1[i] /\ i # n
      /\ v1'[n].roots = roots /\ v1'[n].state = "fresh"
  BY <1>1, <1>4, <1>5, <1>6, Added
<1>8. DOMAIN v1' = DOMAIN v1 \union {n} /\ n \notin DOMAIN v1
  BY <1>2, <1>6, <1>7
<1>9. Memo(u)!TypeOK'
  <2>1. roots \subseteq 1 .. n - 1
    BY <1>2, <1>5, <1>6
  <2>2. \A i \in DOMAIN v1' : v1'[i].roots \subseteq 1 .. i - 1
    BY <1>2, <1>7, <1>8, <2>1
  <2>3. Len(v1') <= MemoryOf[u].rows
    BY <1>2, <1>3, <1>6, <1>7 DEF Memo!MemoryAssumption
  <2>4. /\ v2' \in [MemoryOf[u].server -> {"idle", "asking", "gate"}]
        /\ v3' \in [MemoryOf[u].server -> SUBSET DOMAIN v1']
        /\ v4' \subseteq DOMAIN v1' /\ v5' \subseteq v4'
    BY <1>1, <1>3, <1>8 DEF Memo!TypeOK
  <2>. QED
    BY <1>7, <2>2, <2>3, <2>4 DEF Memo!TypeOK
<1>10. Memo(u)!Fresh' = Memo(u)!Fresh \union {n}
  BY <1>7, <1>8 DEF Memo!Fresh
<1>11. n \notin v4
  BY <1>1, <1>8 DEF Memo!TypeOK
<1>12. ASSUME NEW t \in MemoryOf[u].server, MemoryOf[u].server = {t}, Memo(u)!Untainted
       PROVE Memo(u)!Untainted'
  <2>1. t = s
    BY <1>12
  <2>2. Memo(u)!Fresh \subseteq DOMAIN v1
          /\ Memo(u)!Origins(Memo(u)!Fresh \union v3[s]) \intersect v4 \subseteq v5
    BY <1>12 DEF Memo!Fresh, Memo!Untainted
  <2>3. roots \subseteq Memo(u)!Origins(Memo(u)!Fresh \union v3[s])
    BY <1>4 DEF Memo!Origins
  <2>4. Memo(u)!Origins(Memo(u)!Fresh
          \union v3[s])' \subseteq Memo(u)!Origins(Memo(u)!Fresh \union v3[s])
            \union {n} \union roots
    BY <1>2, <1>3, <1>7, <1>10, <2>2 DEF Memo!Origins
  <2>5. Memo(u)!Origins(Memo(u)!Fresh \union v3[s])' \intersect v4' \subseteq v5'
    BY <1>3, <1>11, <2>2, <2>3, <2>4
  <2>. QED
    BY <1>12, <2>1, <2>5 DEF Memo!Untainted
<1>. QED
  BY <1>3, <1>9, <1>10, <1>11, <1>12 DEF Memo!MemoryInv

(* What a prompt is given is fresh, or nothing.                            *)
LEMMA AskSteps ==
  ASSUME NEW u \in Memories, Memo(u)!MemoryInv, NEW s \in MemoryOf[u].server,
         Memo(u)!Inject(s) \/ Memo(u)!Ask(s) \/ Memo(u)!Leave(s)
  PROVE  Memo(u)!MemoryInv' /\ (v3'[s] = {} \/ v3'[s] \subseteq Memo(u)!Fresh)
<1>1. Memo(u)!TypeOK
  BY DEF Memo!MemoryInv
<1>2. v2 \in [MemoryOf[u].server -> {"idle", "asking", "gate"}]
        /\ v3 \in [MemoryOf[u].server -> SUBSET DOMAIN v1]
  BY <1>1 DEF Memo!TypeOK
<1>3. UNCHANGED <<v1, v4, v5>>
  BY DEF Memo!Inject, Memo!Ask, Memo!Leave
<1>4. PICK ids \in SUBSET DOMAIN v1 :
        /\ v3' = [v3 EXCEPT ![s] = ids] /\ (ids = {} \/ ids \subseteq Memo(u)!Fresh)
        /\ v2' = [v2 EXCEPT ![s] = "asking"] \/ (v2' = [v2 EXCEPT ![s] = "idle"] /\ ids = {})
  <2>1. CASE Memo(u)!Inject(s)
    BY <2>1 DEF Memo!Inject, Memo!Newest, Memo!Fresh
  <2>2. CASE Memo(u)!Ask(s)
    <3>1. v3[s] = {} /\ v3' = v3
      BY <2>2 DEF Memo!Ask, Memo!MemoryInv
    <3>2. v3' = [v3 EXCEPT ![s] = {}]
      BY <1>2, <3>1
    <3>. QED
      BY <2>2, <3>2 DEF Memo!Ask
  <2>3. CASE Memo(u)!Leave(s)
    BY <2>3 DEF Memo!Leave
  <2>. QED
    BY <2>1, <2>2, <2>3
<1>5. Memo(u)!TypeOK'
  BY <1>1, <1>2, <1>3, <1>4 DEF Memo!TypeOK
<1>6. Memo(u)!Fresh' = Memo(u)!Fresh
  BY <1>3 DEF Memo!Fresh
<1>7. ASSUME NEW t \in MemoryOf[u].server, MemoryOf[u].server = {t}, Memo(u)!Untainted
      PROVE Memo(u)!Untainted'
  <2>1. MemoryOf[u].server = {s}
    BY <1>7
  <2>2. Memo(u)!Origins(Memo(u)!Fresh
          \union v3[s])' \subseteq Memo(u)!Origins(Memo(u)!Fresh \union v3[s])
    BY <1>2, <1>3, <1>4, <1>6 DEF Memo!Origins
  <2>. QED
    BY <1>3, <1>7, <2>1, <2>2 DEF Memo!Untainted
<1>8. \A t \in MemoryOf[u].server : v2'[t] # "asking" => v3'[t] = {}
  BY <1>2, <1>4 DEF Memo!MemoryInv
<1>. QED
  BY <1>2, <1>3, <1>4, <1>5, <1>6, <1>7, <1>8 DEF Memo!MemoryInv

(* What an audit contradicts is in question until a gate closes; a gate    *)
(* that fails leaves it there.                                             *)
LEMMA AuditSteps ==
  ASSUME NEW u \in Memories, Memo(u)!MemoryInv, NEW s \in MemoryOf[u].server,
         Memo(u)!AuditFails(s) \/ Memo(u)!GateFails(s)
  PROVE  Memo(u)!MemoryInv'
<1>1. Memo(u)!TypeOK /\ v3[s] = {}
  BY DEF Memo!MemoryInv, Memo!AuditFails, Memo!GateFails
<1>2. /\ UNCHANGED <<v1, v3>>
      /\ v2' = [v2 EXCEPT ![s] = "idle"] \/ v2' = [v2 EXCEPT ![s] = "gate"]
  BY DEF Memo!AuditFails, Memo!GateFails
<1>3. PICK new \in SUBSET Memo(u)!Fresh : v4' = v4 \union new /\ v5' = v5 \union new
  <2>1. CASE Memo(u)!AuditFails(s)
    BY <2>1 DEF Memo!AuditFails
  <2>2. CASE Memo(u)!GateFails(s)
    <3>1. v4' = v4 \union {} /\ v5' = v5 \union {}
      BY <2>2 DEF Memo!GateFails
    <3>. QED
      BY <3>1
  <2>. QED
    BY <2>1, <2>2
<1>4. Memo(u)!TypeOK'
  <2>1. v2' \in [MemoryOf[u].server -> {"idle", "asking", "gate"}]
    BY <1>1, <1>2 DEF Memo!TypeOK
  <2>2. v4' \subseteq DOMAIN v1 /\ v5' \subseteq v4'
    BY <1>1, <1>3 DEF Memo!TypeOK, Memo!Fresh
  <2>. QED
    BY <1>1, <1>2, <2>1, <2>2 DEF Memo!TypeOK
<1>5. Memo(u)!Fresh' = Memo(u)!Fresh
  BY <1>2 DEF Memo!Fresh
<1>6. \A t \in MemoryOf[u].server : v2'[t] # "asking" => v3'[t] = {}
  BY <1>1, <1>2 DEF Memo!MemoryInv, Memo!TypeOK
<1>7. Memo(u)!Fresh' \intersect v4' \subseteq v5'
  BY <1>3, <1>5 DEF Memo!MemoryInv
<1>8. ASSUME Memo(u)!Untainted PROVE Memo(u)!Untainted'
  <2>. SUFFICES ASSUME NEW t \in MemoryOf[u].server
                PROVE  Memo(u)!Origins(Memo(u)!Fresh \union v3[t])' \intersect v4' \subseteq v5'
    BY DEF Memo!Untainted
  <2>1. Memo(u)!Origins(Memo(u)!Fresh \union v3[t])' = Memo(u)!Origins(Memo(u)!Fresh
          \union v3[t])
    BY <1>2, <1>5 DEF Memo!Origins
  <2>2. Memo(u)!Origins(Memo(u)!Fresh \union v3[t]) \intersect v4 \subseteq v5
    BY <1>8 DEF Memo!Untainted
  <2>. QED
    BY <1>3, <2>1, <2>2
<1>. QED
  BY <1>4, <1>6, <1>7, <1>8 DEF Memo!MemoryInv

(* The gate: whatever is fresh when it closes is fresh no more.            *)
LEMMA GateSteps ==
  ASSUME NEW u \in Memories, Memo(u)!MemoryInv, NEW s \in MemoryOf[u].server,
         Memo(u)!CloseGate(s)
  PROVE  Memo(u)!MemoryInv' /\ Marks(u)
<1>1. Memo(u)!TypeOK /\ v3[s] = {}
  BY DEF Memo!MemoryInv, Memo!CloseGate
<1>2. v1' = Memo(u)!Staled(DOMAIN v1) /\ UNCHANGED <<v3, v4>>
      /\ v5' = {} /\ v2' = [v2 EXCEPT ![s] = "idle"]
  BY DEF Memo!CloseGate
<1>3. Marks(u)
  BY <1>1, <1>2, StalingMarks
<1>4. /\ DOMAIN v1' = DOMAIN v1 /\ Len(v1') <= MemoryOf[u].rows
      /\ \A i \in DOMAIN v1' : v1'[i].roots \subseteq 1 .. i - 1
  BY <1>1, <1>3, MarkedKeeps
<1>5. Memo(u)!Fresh' = {}
  <2>1. ASSUME NEW i \in DOMAIN v1 PROVE v1'[i].state # "fresh"
    <3>1. PICK r \in Memo(u)!Rows : r = v1[i]
      BY <1>1 DEF Memo!TypeOK
    <3>2. v1'[i] = IF r.state = "fresh" THEN [r EXCEPT !.state = "stale"] ELSE r
      BY <1>2, <3>1 DEF Memo!Staled, Memo!Fresh
    <3>. QED
      BY <3>1, <3>2 DEF Memo!Rows
  <2>. QED
    BY <1>4, <2>1 DEF Memo!Fresh
<1>6. Memo(u)!TypeOK'
  BY <1>1, <1>2, <1>3, <1>4 DEF Memo!TypeOK, Marks, Memo!Fresh
<1>7. ASSUME NEW t \in MemoryOf[u].server, MemoryOf[u].server = {t} PROVE Memo(u)!Untainted'
  <2>1. t = s
    BY <1>7
  <2>2. Memo(u)!Origins(Memo(u)!Fresh \union v3[s])' = {}
    BY <1>1, <1>2, <1>5 DEF Memo!Origins
  <2>. QED
    BY <1>7, <2>1, <2>2 DEF Memo!Untainted
<1>8. \A t \in MemoryOf[u].server : v2'[t] # "asking" => v3'[t] = {}
  BY <1>1, <1>2 DEF Memo!MemoryInv, Memo!TypeOK
<1>. QED
  BY <1>3, <1>5, <1>6, <1>7, <1>8 DEF Memo!MemoryInv

(* The invariant is kept by every step, and every step keeps the gate shut. *)
LEMMA MemorySteps ==
  ASSUME NEW u \in Memories, Memo(u)!MemoryAssumption, Memo(u)!MemoryInv,
         [Memo(u)!Next]_(Memo(u)!vars)
  PROVE  Memo(u)!MemoryInv' /\ Memo(u)!StaleStep /\ Memo(u)!InjectStep
<1>1. CASE UNCHANGED Memo(u)!vars
  BY <1>1 DEF Memo!vars, Memo!MemoryInv, Memo!TypeOK, Memo!Fresh, Memo!Untainted,
              Memo!Origins, Memo!StaleStep, Memo!InjectStep
<1>2. ASSUME NEW s \in MemoryOf[u].server, Memo(u)!Call(s)
      PROVE Memo(u)!MemoryInv' /\ Memo(u)!StaleStep /\ Memo(u)!InjectStep
  <2>1. Memo(u)!TypeOK
    BY DEF Memo!MemoryInv
  <2>2. CASE Memo(u)!Remember(s) \/ Memo(u)!Add(s)
    <3>1. Memo(u)!MemoryInv'
      BY <2>2, AddSteps
    <3>2. UNCHANGED v3
      BY <2>2 DEF Memo!Remember, Memo!Add
    <3>3. \A i \in DOMAIN v1 : v1'[i] = v1[i]
      BY <2>1, <2>2 DEF Memo!Remember, Memo!Add, Memo!TypeOK
    <3>. QED
      BY <3>1, <3>2, <3>3 DEF Memo!StaleStep, Memo!InjectStep
  <2>3. CASE Memo(u)!Inject(s) \/ Memo(u)!Ask(s) \/ Memo(u)!Leave(s)
    <3>1. Memo(u)!MemoryInv' /\ (v3'[s] = {} \/ v3'[s] \subseteq Memo(u)!Fresh)
      BY <2>3, AskSteps
    <3>2. UNCHANGED v1 /\ \A t \in MemoryOf[u].server : t # s => v3'[t] = v3[t]
      BY <2>1, <2>3 DEF Memo!Inject, Memo!Ask, Memo!Leave, Memo!TypeOK
    <3>3. Memo(u)!Fresh \intersect v4 \subseteq v5 /\ UNCHANGED <<v4, v5>>
      BY <2>3 DEF Memo!MemoryInv, Memo!Inject, Memo!Ask, Memo!Leave
    <3>. QED
      BY <3>1, <3>2, <3>3 DEF Memo!StaleStep, Memo!InjectStep
  <2>4. CASE Memo(u)!AuditFails(s) \/ Memo(u)!GateFails(s)
    <3>1. Memo(u)!MemoryInv'
      BY <2>4, AuditSteps
    <3>2. UNCHANGED <<v1, v3>>
      BY <2>4 DEF Memo!AuditFails, Memo!GateFails
    <3>. QED
      BY <3>1, <3>2 DEF Memo!StaleStep, Memo!InjectStep
  <2>5. CASE Memo(u)!CloseGate(s) \/ Memo(u)!MarkStale(s) \/ Memo(u)!Clear(s)
    <3>1. Memo(u)!MemoryInv' /\ Marks(u)
      <4>1. CASE Memo(u)!CloseGate(s)
        BY <4>1, GateSteps
      <4>2. CASE Memo(u)!Clear(s)
        <5>1. Marks(u)
          BY <2>1, <4>2, ClearingMarks
        <5>. QED
          BY <4>2, <5>1, MarkSteps DEF Memo!Clear
      <4>3. CASE Memo(u)!MarkStale(s)
        <5>1. Marks(u)
          BY <2>1, <4>3, StalingMarks DEF Memo!MarkStale
        <5>. QED
          BY <4>3, <5>1, MarkSteps DEF Memo!MarkStale
      <4>. QED
        BY <2>5, <4>1, <4>2, <4>3
    <3>2. UNCHANGED v3
      BY <2>5 DEF Memo!CloseGate, Memo!MarkStale, Memo!Clear
    <3>. QED
      BY <3>1, <3>2 DEF Memo!StaleStep, Memo!InjectStep, Marks
  <2>. QED
    BY <1>2, <2>2, <2>3, <2>4, <2>5 DEF Memo!Call
<1>. QED
  BY <1>1, <1>2 DEF Memo!Next

(* What the invariant says. *)
LEMMA MemoryHolds ==
  ASSUME NEW u \in Memories, Memo(u)!MemoryInv
  PROVE  Memo(u)!TypeOK /\ (Alone(MemoryOf[u].server) => Memo(u)!FreshIsUntainted)
<1>1. ASSUME NEW s \in MemoryOf[u].server, Memo(u)!Untainted PROVE Memo(u)!FreshIsUntainted
  BY <1>1 DEF Memo!Untainted, Memo!FreshIsUntainted, Memo!Origins
<1>. QED
  BY <1>1 DEF Memo!MemoryInv, Alone


-----------------------------------------------------------------------------
(***************************************************************************)
(* The ballots.                                                            *)
(***************************************************************************)
(* The sums of Ballots are those of SetProofs.                             *)
LEMMA BallotSums ==
  /\ \A f : Stats!SumFunction(f) = SumFunctionOnSet(f, DOMAIN f)
  /\ Stats!BallotsAssumption => IsFiniteSet(Voter)
<1>1. \A f, S : Stats!SumFunctionOnSet(f, S) = SumFunctionOnSet(f, S)
  BY DEF Stats!SumFunctionOnSet, SumFunctionOnSet, Stats!FoldFunctionOnSet, FoldFunctionOnSet,
         Stats!MapThenFoldSet, MapThenFoldSet
<1>2. \A S : Stats!IsFiniteSet(S) => IsFiniteSet(S)
  BY DEF Stats!IsFiniteSet, IsFiniteSet
<1>. QED
  BY <1>1, <1>2 DEF Stats!SumFunction, Stats!BallotsAssumption

(* A ballot is for a provider and of a kind, and each kind has a column.   *)
LEMMA VotesAre ==
  /\ \A p \in Provider, b \in Stats!Ballot : <<p, b>> \in Stats!Votes
  /\ \A v \in Stats!Votes : v[1] \in Provider /\ v[2] \in Stats!Ballot /\ v = <<v[1], v[2]>>
BY DEF Stats!Votes

(* What is in no row yet of the ballots of a call.                         *)
LEMMA PendingIsNat ==
  ASSUME Stats!TypeOK
  PROVE  \A s \in Voter, v \in Stats!Votes : Stats!Pending(s, v) \in Nat
BY DEF Stats!TypeOK, Stats!Pending

(* A step of a server moves what is open by what it changes of its own.    *)
LEMMA OpenMoves ==
  ASSUME Stats!BallotsAssumption, Stats!TypeOK, Stats!TypeOK', NEW s \in Voter,
         NEW v \in Stats!Votes,
         \A t \in Voter \ {s} : Stats!Pending(t, v)' = Stats!Pending(t, v)
  PROVE  /\ Stats!Open(v) \in Int
         /\ Stats!Open(v)' = Stats!Open(v) + (Stats!Pending(s, v)' - Stats!Pending(s, v))
<1>. DEFINE f == [t \in Voter |-> Stats!Pending(t, v)]
            g == [t \in Voter |-> Stats!Pending(t, v)']
<1>1. \A t \in Voter : f[t] \in Int /\ g[t] \in Int
  <2>1. \A t \in Voter : Stats!Pending(t, v) \in Nat /\ Stats!Pending(t, v)' \in Nat
    BY PendingIsNat DEF Stats!TypeOK, Stats!Pending
  <2>. QED
    BY <2>1
<1>2. \A t \in Voter : t # s => f[t] = g[t]
  OBVIOUS
<1>3. Stats!Open(v) = SumFunctionOnSet(f, Voter) /\ Stats!Open(v)' = SumFunctionOnSet(g, Voter)
  BY BallotSums DEF Stats!Open
<1>4. f[s] = Stats!Pending(s, v) /\ g[s] = Stats!Pending(s, v)'
  OBVIOUS
<1>. HIDE DEF f, g
<1>. QED
  BY <1>1, <1>2, <1>3, <1>4, BallotSums, SumMoves

(* What a step of s adds to the rows, to the losses and to the demand is   *)
(* what it takes from the open ballots.                                    *)
Settles(s) ==
  \A v \in Stats!Votes :
    /\ \A t \in Voter \ {s} : Stats!Pending(t, v)' = Stats!Pending(t, v)
    /\ v1[v[1]][Stats!Column(v[2])] \in Nat /\ v7[v] \in Nat /\ v6[v] \in Nat
    /\ v1'[v[1]][Stats!Column(v[2])] \in Nat /\ v7'[v] \in Nat /\ v6'[v] \in Nat
    /\ v1'[v[1]][Stats!Column(v[2])] + v7'[v] + Stats!Pending(s, v)' + v6[v]
         = v1[v[1]][Stats!Column(v[2])] + v7[v] + Stats!Pending(s, v) + v6'[v]

LEMMA Settled ==
  ASSUME Stats!BallotsAssumption, Stats!TypeOK, Stats!TypeOK', Stats!BallotsCounted,
         NEW s \in Voter, Settles(s)
  PROVE  Stats!BallotsCounted'
<1>. SUFFICES ASSUME NEW p \in Provider, NEW b \in Stats!Ballot
              PROVE  v1'[p][Stats!Column(b)] + v7'[<<p, b>>] + Stats!Open(<<p, b>>)' = v6'[<<p,
                                                                                           b>>]
  BY DEF Stats!BallotsCounted, Stats!Column
<1>1. PICK v \in Stats!Votes : v = <<p, b>>
  BY VotesAre
<1>2. v[1] = p /\ v[2] = b
  BY <1>1
<1>3. v1[p][Stats!Column(b)] + v7[v] + Stats!Open(v) = v6[v]
  BY <1>1 DEF Stats!BallotsCounted
<1>4. /\ Stats!Open(v) \in Int
      /\ Stats!Open(v)' = Stats!Open(v) + (Stats!Pending(s, v)' - Stats!Pending(s, v))
  BY OpenMoves DEF Settles
<1>5. Stats!Pending(s, v) \in Nat /\ Stats!Pending(s, v)' \in Nat
  BY PendingIsNat DEF Stats!TypeOK, Stats!Pending
<1>6. /\ v1[p][Stats!Column(b)] \in Nat /\ v7[v] \in Nat /\ v6[v] \in Nat
      /\ v1'[p][Stats!Column(b)] \in Nat /\ v7'[v] \in Nat /\ v6'[v] \in Nat
      /\ v1'[p][Stats!Column(b)] + v7'[v] + Stats!Pending(s, v)' + v6[v]
           = v1[p][Stats!Column(b)] + v7[v] + Stats!Pending(s, v) + v6'[v]
  BY <1>2 DEF Settles
<1>7. v1'[p][Stats!Column(b)] + v7'[v] + Stats!Open(v)' = v6'[v]
  BY <1>3, <1>4, <1>5, <1>6
<1>. QED
  BY <1>1, <1>7

(* The columns of a row.                                                   *)
LEMMA ColumnsOf ==
  ASSUME NEW r \in [there : BOOLEAN, wins : Nat, losses : Nat, abstains : Nat]
  PROVE  \A b \in Stats!Ballot : r[Stats!Column(b)] \in Nat
<1>. SUFFICES ASSUME NEW b \in Stats!Ballot PROVE r[Stats!Column(b)] \in Nat
  OBVIOUS
<1>1. Stats!Column(b) \in {"wins", "losses", "abstains"}
  BY DEF Stats!Ballot, Stats!Column
<1>2. r["wins"] \in Nat /\ r["losses"] \in Nat /\ r["abstains"] \in Nat
  OBVIOUS
<1>. QED
  BY <1>1, <1>2

(* One more in one column.                                                 *)
LEMMA ColumnCounts ==
  ASSUME NEW r \in [there : BOOLEAN, wins : Nat, losses : Nat, abstains : Nat],
         NEW b \in Stats!Ballot, NEW q, q = [r EXCEPT ![Stats!Column(b)] = @ + 1]
  PROVE  /\ q \in [there : BOOLEAN, wins : Nat, losses : Nat, abstains : Nat]
         /\ q.there = r.there
         /\ q[Stats!Column(b)] = r[Stats!Column(b)] + 1
         /\ \A c \in Stats!Ballot \ {b} : q[Stats!Column(c)] = r[Stats!Column(c)]
         /\ q.wins = r.wins + IF b = "agree" THEN 1 ELSE 0
         /\ q.losses = r.losses + IF b = "disagree" THEN 1 ELSE 0
         /\ q.abstains = r.abstains + IF b = "abstain" THEN 1 ELSE 0
<1>1. CASE b = "agree"
  <2>1. q = [r EXCEPT !.wins = @ + 1]
    BY <1>1 DEF Stats!Column
  <2>. QED
    BY <1>1, <2>1 DEF Stats!Column, Stats!Ballot
<1>2. CASE b = "disagree"
  <2>1. q = [r EXCEPT !.losses = @ + 1]
    BY <1>2 DEF Stats!Column
  <2>. QED
    BY <1>2, <2>1 DEF Stats!Column, Stats!Ballot
<1>3. CASE b = "abstain"
  <2>1. q = [r EXCEPT !.abstains = @ + 1]
    BY <1>3 DEF Stats!Column
  <2>. QED
    BY <1>3, <2>1 DEF Stats!Column, Stats!Ballot
<1>. QED
  BY <1>1, <1>2, <1>3 DEF Stats!Ballot

(* Nobody has voted at first.                                              *)
LEMMA BallotsStart ==
  ASSUME Stats!BallotsAssumption, Stats!Init
  PROVE  Stats!BallotsInv
<1>1. Stats!Zero \in [Stats!Votes -> Nat] /\ 0 \in 0 .. MaxCalls
  BY DEF Stats!Zero, Stats!BallotsAssumption
<1>2. /\ v1 = [p \in Provider |-> Stats!NoRow] /\ v2 = [s \in Voter |-> "idle"]
      /\ v3 = [s \in Voter |-> Stats!Zero]
           /\ v4 = [s \in Voter |-> CHOOSE v \in Stats!Votes : TRUE]
      /\ v5 = 0 /\ v6 = Stats!Zero /\ v7 = Stats!Zero
  BY DEF Stats!Init
<1>3. Stats!NoRow \in [there : BOOLEAN, wins : Nat, losses : Nat, abstains : Nat]
      /\ \A b \in Stats!Ballot : Stats!NoRow[Stats!Column(b)] = 0
  BY DEF Stats!NoRow, Stats!Row, Stats!Column, Stats!Ballot
<1>4. Stats!TypeOK
  <2>1. v1 \in [Provider -> [there : BOOLEAN, wins : Nat, losses : Nat, abstains : Nat]]
        /\ \A p \in Provider : ~v1[p].there => v1[p] = Stats!NoRow
    BY <1>2, <1>3
  <2>2. (CHOOSE v \in Stats!Votes : TRUE) \in Stats!Votes
    <3>1. PICK p \in Provider : TRUE
      BY DEF Stats!BallotsAssumption
    <3>2. <<p, "agree">> \in Stats!Votes
      BY DEF Stats!Votes, Stats!Ballot
    <3>. QED
      BY <3>2
  <2>3. v4 \in [Voter -> Stats!Votes]
    BY <1>2, <2>2
  <2>. QED
    BY <1>1, <1>2, <2>1, <2>3 DEF Stats!TypeOK
<1>5. Stats!BallotsCounted
  <2>. SUFFICES ASSUME NEW p \in Provider, NEW b \in Stats!Ballot
                PROVE  v1[p][Stats!Column(b)] + v7[<<p, b>>] + Stats!Open(<<p, b>>) = v6[<<p,
                                                                                         b>>]
    BY DEF Stats!BallotsCounted
  <2>1. PICK v \in Stats!Votes : v = <<p, b>>
    BY VotesAre
  <2>. DEFINE f == [s \in Voter |-> Stats!Pending(s, v)]
  <2>2. \A s \in Voter : f[s] = 0
    BY <1>2 DEF Stats!Pending, Stats!Zero
  <2>3. Stats!Open(v) = SumFunctionOnSet(f, Voter)
    BY BallotSums DEF Stats!Open
  <2>4. Stats!Open(v) = 0
    <3>. HIDE DEF f
    <3>. QED
      BY <2>2, <2>3, BallotSums, SumOfZeros
  <2>5. v1[p][Stats!Column(b)] = 0 /\ v7[v] = 0 /\ v6[v] = 0
    BY <1>2, <1>3 DEF Stats!Zero
  <2>. QED
    BY <2>1, <2>4, <2>5
<1>. QED
  BY <1>2, <1>4, <1>5 DEF Stats!BallotsInv

(* A call votes what it demands. *)
LEMMA BeginSettles ==
  ASSUME Stats!BallotsAssumption, Stats!BallotsInv, NEW s \in Voter, Stats!Begin(s)
  PROVE  Stats!TypeOK' /\ Settles(s)
<1>1. Stats!TypeOK /\ v2[s] = "idle" /\ v3[s] = Stats!Zero
  BY DEF Stats!BallotsInv, Stats!Begin
<1>2. PICK f \in Stats!Coordinate \union Stats!Bench :
        /\ v3' = [v3 EXCEPT ![s] = f]
        /\ v6' = [v \in Stats!Votes |-> v6[v] + f[v]]
  BY DEF Stats!Begin
<1>3. f \in [Stats!Votes -> Nat]
  <2>1. MaxGoldens \in Nat
    BY DEF Stats!BallotsAssumption
  <2>2. f \in [Stats!Votes -> 0 .. 1] \/ f \in [Stats!Votes -> 0 .. MaxGoldens]
    BY DEF Stats!Coordinate, Stats!Bench
  <2>. QED
    BY <2>1, <2>2
<1>4. /\ v2' = [v2 EXCEPT ![s] = "voting"] /\ v5' = v5 + 1 /\ v5 < MaxCalls
      /\ UNCHANGED <<v1, v4, v7>>
  BY DEF Stats!Begin
<1>5. Stats!TypeOK'
  <2>1. v6' \in [Stats!Votes -> Nat] /\ v3' \in [Voter -> [Stats!Votes -> Nat]]
    BY <1>1, <1>2, <1>3 DEF Stats!TypeOK
  <2>2. v5' \in 0 .. MaxCalls
    BY <1>1, <1>4 DEF Stats!TypeOK, Stats!BallotsAssumption
  <2>. QED
    BY <1>1, <1>4, <2>1, <2>2 DEF Stats!TypeOK
<1>6. \A t \in Voter \ {s}, v \in Stats!Votes : Stats!Pending(t, v)' = Stats!Pending(t, v)
  BY <1>1, <1>2, <1>4 DEF Stats!Pending, Stats!TypeOK
<1>7. \A v \in Stats!Votes : Stats!Pending(s, v) = 0 /\ Stats!Pending(s, v)' = f[v]
  <2>1. v3'[s] = f /\ v2'[s] = "voting"
    BY <1>1, <1>2, <1>4 DEF Stats!TypeOK
  <2>. QED
    BY <1>1, <1>3, <2>1 DEF Stats!Pending, Stats!Zero
<1>. QED
  <2>. SUFFICES ASSUME NEW v \in Stats!Votes
                PROVE  /\ \A t \in Voter \ {s} : Stats!Pending(t, v)' = Stats!Pending(t, v)
                       /\ v1[v[1]][Stats!Column(v[2])] \in Nat /\ v7[v] \in Nat /\ v6[v] \in Nat
                       /\ v1'[v[1]][Stats!Column(v[2])] \in Nat /\ v7'[v] \in Nat
                            /\ v6'[v] \in Nat
                       /\ v1'[v[1]][Stats!Column(v[2])] + v7'[v] + Stats!Pending(s, v)' + v6[v]
                            = v1[v[1]][Stats!Column(v[2])] + v7[v] + Stats!Pending(s,
                                                                v) + v6'[v]
    BY <1>5 DEF Settles
  <2>1. v1[v[1]][Stats!Column(v[2])] \in Nat
    BY <1>1, VotesAre, ColumnsOf DEF Stats!TypeOK
  <2>2. v7[v] \in Nat /\ v6[v] \in Nat /\ f[v] \in Nat
    BY <1>1, <1>3 DEF Stats!TypeOK
  <2>3. v6'[v] = v6[v] + f[v]
    BY <1>2
  <2>. QED
    BY <1>4, <1>6, <1>7, <2>1, <2>2, <2>3

(* A ballot that is not recorded, or whose row is only made, is open or    *)
(* lost as before.                                                         *)
LEMMA InsertSettles ==
  ASSUME Stats!BallotsInv, NEW s \in Voter, Stats!Insert(s) \/ Stats!InsertFails(s)
  PROVE  Stats!TypeOK' /\ Settles(s) /\ (v2'[s] = "update" => v1'[v4'[s][1]].there)
<1>1. Stats!TypeOK /\ v2[s] = "voting"
  BY DEF Stats!BallotsInv, Stats!Insert, Stats!InsertFails
<1>2. PICK w \in Stats!Votes : /\ v3[s][w] > 0 /\ v3' = [v3 EXCEPT ![s][w] = @ - 1]
                               /\ \/ /\ v4' = [v4 EXCEPT ![s] = w] /\ v7' = v7
                                     /\ v1' = [v1 EXCEPT ![w[1]] = [@ EXCEPT !.there = TRUE]]
                                     /\ v2' = [v2 EXCEPT ![s] = "update"]
                                  \/ /\ v4' = v4 /\ v7' = [v7 EXCEPT ![w] = @ + 1]
                                     /\ v1' = v1 /\ v2' = v2
  BY DEF Stats!Insert, Stats!InsertFails
<1>3. UNCHANGED <<v5, v6>>
  BY DEF Stats!Insert, Stats!InsertFails
<1>4. PICK q : q = v1[w[1]]
  OBVIOUS
<1>5. w[1] \in Provider /\ q \in [there : BOOLEAN, wins : Nat, losses : Nat, abstains : Nat]
  BY <1>1, <1>4, VotesAre DEF Stats!TypeOK
<1>6. PICK r : r = [q EXCEPT !.there = TRUE]
  OBVIOUS
<1>7. /\ r \in [there : BOOLEAN, wins : Nat, losses : Nat, abstains : Nat]
      /\ r.there = TRUE /\ r.wins = q.wins /\ r.losses = q.losses /\ r.abstains = q.abstains
  BY <1>5, <1>6
<1>8. \A b \in Stats!Ballot : r[Stats!Column(b)] = q[Stats!Column(b)]
  BY <1>7 DEF Stats!Ballot, Stats!Column
<1>9. /\ v1' = [v1 EXCEPT ![w[1]] = r] \/ v1' = v1
      /\ v1' \in [Provider -> [there : BOOLEAN, wins : Nat, losses : Nat, abstains : Nat]]
      /\ \A p \in Provider, b \in Stats!Ballot : v1'[p][Stats!Column(b)] =
           v1[p][Stats!Column(b)]
      /\ \A p \in Provider : ~v1'[p].there => v1'[p] = Stats!NoRow
  <2>. DEFINE R == [there : BOOLEAN, wins : Nat, losses : Nat, abstains : Nat]
  <2>1. v1 \in [Provider -> R] /\ r \in R /\ w[1] \in Provider
    BY <1>1, <1>5, <1>7 DEF Stats!TypeOK
  <2>2. v1' = [v1 EXCEPT ![w[1]] = r] \/ v1' = v1
    BY <1>2, <1>4, <1>6
  <2>. HIDE DEF R
  <2>3. v1' \in [Provider -> R]
    BY <2>1, <2>2
  <2>4. \A p \in Provider : v1'[p] = v1[p] \/ (p = w[1] /\ v1'[p] = r)
    BY <2>1, <2>2
  <2>5. \A p \in Provider, b \in Stats!Ballot : v1'[p][Stats!Column(b)] = v1[p][Stats!Column(b)]
    BY <1>4, <1>8, <2>4
  <2>6. ASSUME NEW p \in Provider, ~v1'[p].there PROVE v1'[p] = Stats!NoRow
    <3>1. v1'[p] = v1[p]
      BY <1>7, <2>4, <2>6
    <3>. QED
      BY <1>1, <2>6, <3>1 DEF Stats!TypeOK
  <2>. QED
    BY <2>2, <2>3, <2>5, <2>6 DEF R
<1>10. v3[s] \in [Stats!Votes -> Nat] /\ v7 \in [Stats!Votes -> Nat]
         /\ v6 \in [Stats!Votes -> Nat]
  BY <1>1 DEF Stats!TypeOK
<1>11. v3' = [v3 EXCEPT ![s] = [v3[s] EXCEPT ![w] = v3[s][w] - 1]]
  BY <1>2
<1>12. [v3[s] EXCEPT ![w] = v3[s][w] - 1] \in [Stats!Votes -> Nat]
  BY <1>2, <1>10
<1>13. Stats!TypeOK'
  <2>1. v3' \in [Voter -> [Stats!Votes -> Nat]]
    BY <1>1, <1>11, <1>12 DEF Stats!TypeOK
  <2>2. v7' \in [Stats!Votes -> Nat]
    BY <1>2, <1>10
  <2>3. v4' \in [Voter -> Stats!Votes] /\ v2' \in [Voter -> {"idle", "voting", "update"}]
    BY <1>1, <1>2 DEF Stats!TypeOK
  <2>. QED
    BY <1>1, <1>3, <1>9, <2>1, <2>2, <2>3 DEF Stats!TypeOK
<1>14. \A t \in Voter \ {s}, v \in Stats!Votes : Stats!Pending(t, v)' = Stats!Pending(t, v)
  BY <1>1, <1>2 DEF Stats!Pending, Stats!TypeOK
<1>15. ASSUME NEW v \in Stats!Votes
       PROVE  /\ v7'[v] \in Nat /\ v7'[v] + Stats!Pending(s, v)' = v7[v] + Stats!Pending(s, v)
  <2>1. v3'[s][v] = IF v = w THEN v3[s][v] - 1 ELSE v3[s][v]
    BY <1>1, <1>10, <1>11 DEF Stats!TypeOK
  <2>2. Stats!Pending(s, v) = v3[s][v]
    BY <1>1, <1>10 DEF Stats!Pending
  <2>3. v3[s][v] \in Nat /\ v3[s][w] \in Nat /\ v7[v] \in Nat
    BY <1>10
  <2>4. CASE v7' = v7 /\ v4' = [v4 EXCEPT ![s] = w] /\ v2' = [v2 EXCEPT ![s] = "update"]
    <3>1. v4'[s] = w /\ v2'[s] = "update"
      BY <1>1, <2>4 DEF Stats!TypeOK
    <3>2. Stats!Pending(s, v)' = v3[s][v]
      BY <1>2, <2>1, <2>3, <3>1 DEF Stats!Pending
    <3>. QED
      BY <2>2, <2>3, <2>4, <3>2
  <2>5. CASE v7' = [v7 EXCEPT ![w] = @ + 1] /\ v2' = v2
    <3>1. Stats!Pending(s, v)' = IF v = w THEN v3[s][v] - 1 ELSE v3[s][v]
      BY <1>1, <1>2, <2>1, <2>3, <2>5 DEF Stats!Pending
    <3>2. v7'[v] = IF v = w THEN v7[v] + 1 ELSE v7[v]
      BY <1>10, <2>5
    <3>. QED
      BY <2>2, <2>3, <3>1, <3>2
  <2>. QED
    BY <1>2, <2>4, <2>5
<1>16. Settles(s)
  <2>. SUFFICES ASSUME NEW v \in Stats!Votes
                PROVE  /\ \A t \in Voter \ {s} : Stats!Pending(t, v)' = Stats!Pending(t, v)
                       /\ v1[v[1]][Stats!Column(v[2])] \in Nat /\ v7[v] \in Nat /\ v6[v] \in Nat
                       /\ v1'[v[1]][Stats!Column(v[2])] \in Nat /\ v7'[v] \in Nat
                            /\ v6'[v] \in Nat
                       /\ v1'[v[1]][Stats!Column(v[2])] + v7'[v] + Stats!Pending(s, v)' + v6[v]
                            = v1[v[1]][Stats!Column(v[2])] + v7[v] + Stats!Pending(s,
                                                                v) + v6'[v]
    BY DEF Settles
  <2>1. v1[v[1]][Stats!Column(v[2])] \in Nat
          /\ v1'[v[1]][Stats!Column(v[2])] = v1[v[1]][Stats!Column(v[2])]
    BY <1>1, <1>9, VotesAre, ColumnsOf DEF Stats!TypeOK
  <2>2. v7[v] \in Nat /\ v6[v] \in Nat /\ v6' = v6
    BY <1>3, <1>10
  <2>3. Stats!Pending(s, v) \in Nat /\ Stats!Pending(s, v)' \in Nat
    BY <1>1, <1>13, PendingIsNat DEF Stats!TypeOK, Stats!Pending
  <2>. QED
    BY <1>14, <1>15, <2>1, <2>2, <2>3
<1>17. v2'[s] = "update" => v1'[v4'[s][1]].there
  BY <1>1, <1>2, <1>4, <1>5, <1>6, <1>7 DEF Stats!TypeOK
<1>. QED
  BY <1>13, <1>16, <1>17

(* A ballot that is being recorded is counted in its column, or lost.      *)
LEMMA UpdateSettles ==
  ASSUME Stats!BallotsInv, NEW s \in Voter, Stats!Update(s) \/ Stats!UpdateFails(s)
  PROVE  Stats!TypeOK' /\ Settles(s)
<1>1. Stats!TypeOK /\ v2[s] = "update" /\ v1[v4[s][1]].there
  BY DEF Stats!BallotsInv, Stats!Update, Stats!UpdateFails
<1>2. PICK w \in Stats!Votes : w = v4[s]
  BY <1>1 DEF Stats!TypeOK
<1>3. w[1] \in Provider /\ w[2] \in Stats!Ballot /\ w = <<w[1], w[2]>>
  BY VotesAre
<1>. DEFINE R == [there : BOOLEAN, wins : Nat, losses : Nat, abstains : Nat]
<1>4. PICK q \in R : q = v1[w[1]]
  BY <1>1, <1>3 DEF Stats!TypeOK
<1>5. PICK r : r = [q EXCEPT ![Stats!Column(w[2])] = @ + 1]
  OBVIOUS
<1>6. /\ r \in R /\ r.there = q.there
      /\ r[Stats!Column(w[2])] = q[Stats!Column(w[2])] + 1
      /\ \A c \in Stats!Ballot \ {w[2]} : r[Stats!Column(c)] = q[Stats!Column(c)]
  <2>1. PICK b \in Stats!Ballot : b = w[2]
    BY <1>3
  <2>2. r = [q EXCEPT ![Stats!Column(b)] = @ + 1]
    BY <1>5, <2>1
  <2>3. r \in R
    BY <2>2, ColumnCounts
  <2>4. r.there = q.there
    BY <2>2, ColumnCounts
  <2>5. r[Stats!Column(b)] = q[Stats!Column(b)] + 1
    BY <2>2, ColumnCounts
  <2>6. \A c \in Stats!Ballot \ {b} : r[Stats!Column(c)] = q[Stats!Column(c)]
    BY <2>2, ColumnCounts
  <2>. QED
    BY <2>1, <2>3, <2>4, <2>5, <2>6
<1>7. /\ \/ v7' = v7 /\ v1' = [v1 EXCEPT ![w[1]] = r]
         \/ v1' = v1 /\ v7' = [v7 EXCEPT ![w] = @ + 1]
      /\ v2' = [v2 EXCEPT ![s] = "voting"]
      /\ UNCHANGED <<v3, v4, v5, v6>>
  BY <1>2, <1>4, <1>5 DEF Stats!Update, Stats!UpdateFails
<1>8. v1 \in [Provider -> R] /\ v7 \in [Stats!Votes -> Nat] /\ v6 \in [Stats!Votes -> Nat]
  BY <1>1 DEF Stats!TypeOK
<1>. HIDE DEF R
<1>9. /\ v1' \in [Provider -> R]
      /\ \A p \in Provider : v1'[p] = v1[p] \/ (p = w[1] /\ v1'[p] = r)
  BY <1>3, <1>6, <1>7, <1>8
<1>10. ASSUME NEW p \in Provider, ~v1'[p].there PROVE v1'[p] = Stats!NoRow
  <2>1. v1'[p] = v1[p]
    BY <1>1, <1>2, <1>4, <1>6, <1>9, <1>10
  <2>. QED
    BY <1>1, <1>10, <2>1 DEF Stats!TypeOK
<1>11. Stats!TypeOK'
  <2>1. v7' \in [Stats!Votes -> Nat]
    BY <1>7, <1>8
  <2>2. v2' \in [Voter -> {"idle", "voting", "update"}]
    BY <1>1, <1>7 DEF Stats!TypeOK
  <2>. QED
    BY <1>1, <1>7, <1>9, <1>10, <2>1, <2>2 DEF Stats!TypeOK, R
<1>12. \A t \in Voter \ {s}, v \in Stats!Votes : Stats!Pending(t, v)' = Stats!Pending(t, v)
  BY <1>1, <1>7 DEF Stats!Pending, Stats!TypeOK
<1>13. ASSUME NEW v \in Stats!Votes
       PROVE  /\ v1[v[1]][Stats!Column(v[2])] \in Nat /\ v7[v] \in Nat /\ v6[v] \in Nat
              /\ v1'[v[1]][Stats!Column(v[2])] \in Nat /\ v7'[v] \in Nat /\ v6'[v] \in Nat
              /\ v1'[v[1]][Stats!Column(v[2])] + v7'[v] + Stats!Pending(s, v)' + v6[v]
                   = v1[v[1]][Stats!Column(v[2])] + v7[v] + Stats!Pending(s, v) + v6'[v]
  <2>1. v[1] \in Provider /\ v[2] \in Stats!Ballot /\ v = <<v[1], v[2]>>
    BY VotesAre
  <2>2. v2'[s] = "voting"
    BY <1>1, <1>7 DEF Stats!TypeOK
  <2>3. Stats!Pending(s, v)' = v3[s][v] /\ v3[s][v] \in Nat
    BY <1>1, <1>7, <2>2 DEF Stats!Pending, Stats!TypeOK
  <2>4. Stats!Pending(s, v) = v3[s][v] + IF v = w THEN 1 ELSE 0
    BY <1>1, <1>2 DEF Stats!Pending
  <2>5. v1[v[1]][Stats!Column(v[2])] \in Nat /\ v7[v] \in Nat /\ v6[v] \in Nat /\ v6' = v6
    BY <1>7, <1>8, <2>1, ColumnsOf DEF R
  <2>6. CASE v7' = v7 /\ v1' = [v1 EXCEPT ![w[1]] = r]
    <3>1. v1'[v[1]] = IF v[1] = w[1] THEN r ELSE v1[v[1]]
      BY <1>8, <2>1, <2>6
    <3>2. v1'[v[1]][Stats!Column(v[2])]
            = v1[v[1]][Stats!Column(v[2])] + IF v[1] = w[1] /\ v[2] = w[2] THEN 1 ELSE 0
      BY <1>4, <1>6, <2>1, <2>5, <3>1
    <3>3. v = w <=> v[1] = w[1] /\ v[2] = w[2]
      BY <1>3, <2>1
    <3>. QED
      BY <2>3, <2>4, <2>5, <2>6, <3>2, <3>3
  <2>7. CASE v1' = v1 /\ v7' = [v7 EXCEPT ![w] = @ + 1]
    <3>1. v7'[v] = IF v = w THEN v7[v] + 1 ELSE v7[v]
      BY <1>8, <2>7
    <3>. QED
      BY <2>3, <2>4, <2>5, <2>7, <3>1
  <2>. QED
    BY <1>7, <2>6, <2>7
<1>. QED
  BY <1>11, <1>12, <1>13 DEF Settles

(* The end of a call leaves nothing open, and a kill loses what was.       *)
LEMMA EndSettles ==
  ASSUME Stats!BallotsInv, NEW s \in Voter, Stats!End(s) \/ Stats!Kill(s)
  PROVE  Stats!TypeOK' /\ Settles(s) /\ v2'[s] = "idle" /\ v3'[s] = Stats!Zero
<1>1. Stats!TypeOK
  BY DEF Stats!BallotsInv
<1>2. Stats!Zero \in [Stats!Votes -> Nat] /\ \A v \in Stats!Votes : Stats!Zero[v] = 0
  BY DEF Stats!Zero
<1>3. /\ v2' = [v2 EXCEPT ![s] = "idle"]
      /\ UNCHANGED <<v1, v4, v5, v6>>
      /\ v3' = v3 \/ v3' = [v3 EXCEPT ![s] = Stats!Zero]
  BY DEF Stats!End, Stats!Kill
<1>4. v2'[s] = "idle" /\ v3'[s] = Stats!Zero
  BY <1>1 DEF Stats!End, Stats!Kill, Stats!TypeOK
<1>5. \A v \in Stats!Votes : Stats!Pending(s, v)' = 0
  BY <1>2, <1>4 DEF Stats!Pending
<1>6. \A v \in Stats!Votes : Stats!Pending(s, v) \in Nat /\ v7[v] \in Nat /\ v6[v] \in Nat
  BY <1>1, PendingIsNat DEF Stats!TypeOK
<1>7. v7' \in [Stats!Votes -> Nat]
        /\ \A v \in Stats!Votes : v7'[v] = v7[v] + Stats!Pending(s, v)
  <2>1. CASE Stats!Kill(s)
    BY <1>6, <2>1 DEF Stats!Kill
  <2>2. CASE Stats!End(s)
    <3>1. \A v \in Stats!Votes : Stats!Pending(s, v) = 0
      BY <1>2, <2>2 DEF Stats!End, Stats!Pending
    <3>. QED
      BY <1>1, <1>6, <2>2, <3>1 DEF Stats!End, Stats!TypeOK
  <2>. QED
    BY <2>1, <2>2
<1>8. Stats!TypeOK'
  BY <1>1, <1>2, <1>3, <1>7 DEF Stats!TypeOK
<1>9. \A t \in Voter \ {s}, v \in Stats!Votes : Stats!Pending(t, v)' = Stats!Pending(t, v)
  BY <1>1, <1>3 DEF Stats!Pending, Stats!TypeOK
<1>10. \A v \in Stats!Votes : v1[v[1]][Stats!Column(v[2])] \in Nat
  BY <1>1, VotesAre, ColumnsOf DEF Stats!TypeOK
<1>. QED
  BY <1>3, <1>4, <1>5, <1>6, <1>7, <1>8, <1>9, <1>10 DEF Settles

(* Every ballot stays counted.                                             *)
LEMMA BallotsStep ==
  ASSUME Stats!BallotsAssumption, Stats!BallotsInv, [Stats!Next]_(Stats!vars)
  PROVE  Stats!BallotsInv'
<1>1. CASE UNCHANGED Stats!vars
  <2>1. Stats!TypeOK'
    BY <1>1 DEF Stats!vars, Stats!BallotsInv, Stats!TypeOK
  <2>2. \A v : Stats!Open(v)' = Stats!Open(v)
    BY <1>1 DEF Stats!vars, Stats!Open, Stats!Pending
  <2>3. Stats!BallotsCounted'
    BY <1>1, <2>2 DEF Stats!vars, Stats!BallotsInv, Stats!BallotsCounted
  <2>. QED
    BY <1>1, <2>1, <2>3 DEF Stats!vars, Stats!BallotsInv
<1>2. ASSUME NEW s \in Voter,
             Stats!Begin(s) \/ Stats!Insert(s) \/ Stats!InsertFails(s) \/ Stats!Update(s)
                                \/ Stats!UpdateFails(s) \/ Stats!End(s) \/ Stats!Kill(s)
      PROVE  Stats!BallotsInv'
  <2>1. Stats!TypeOK /\ Stats!BallotsCounted
    BY DEF Stats!BallotsInv
  <2>2. Stats!TypeOK' /\ Settles(s)
    BY <1>2, BeginSettles, InsertSettles, UpdateSettles, EndSettles
  <2>3. Stats!BallotsCounted'
    BY <2>1, <2>2, Settled
  <2>4. ASSUME NEW t \in Voter \ {s}
        PROVE  v2'[t] = v2[t] /\ v3'[t] = v3[t] /\ v4'[t] = v4[t]
    BY <1>2, <2>1 DEF Stats!Begin, Stats!Insert, Stats!InsertFails, Stats!Update,
                      Stats!UpdateFails, Stats!End, Stats!Kill, Stats!TypeOK
  <2>5. \A p \in Provider : v1[p].there => v1'[p].there
    <3>1. CASE Stats!Insert(s)
      <4>1. PICK w \in Stats!Votes : v1' = [v1 EXCEPT ![w[1]] = [@ EXCEPT !.there = TRUE]]
        BY <3>1 DEF Stats!Insert
      <4>. QED
        BY <2>1, <4>1 DEF Stats!TypeOK
    <3>2. CASE Stats!Update(s)
      <4>1. PICK w \in Stats!Votes : w = v4[s]
        BY <2>1 DEF Stats!TypeOK
      <4>2. PICK q \in [there : BOOLEAN, wins : Nat, losses : Nat, abstains : Nat] :
              q = v1[w[1]]
        BY <2>1, VotesAre DEF Stats!TypeOK
      <4>3. PICK r : r = [q EXCEPT ![Stats!Column(w[2])] = @ + 1]
        OBVIOUS
      <4>4. r.there = q.there
        BY <4>3, VotesAre, ColumnCounts
      <4>5. v1' = [v1 EXCEPT ![w[1]] = r]
        BY <3>2, <4>1, <4>2, <4>3 DEF Stats!Update
      <4>. QED
        BY <2>1, <4>2, <4>4, <4>5, VotesAre DEF Stats!TypeOK
    <3>3. CASE Stats!Begin(s) \/ Stats!InsertFails(s) \/ Stats!UpdateFails(s)
                 \/ Stats!End(s) \/ Stats!Kill(s)
      BY <3>3 DEF Stats!Begin, Stats!InsertFails, Stats!UpdateFails, Stats!End, Stats!Kill
    <3>. QED
      BY <1>2, <3>1, <3>2, <3>3
  <2>6. /\ v2'[s] = "idle" => v3'[s] = Stats!Zero
        /\ v2'[s] = "update" => v1'[v4'[s][1]].there
    <3>1. CASE Stats!Begin(s) \/ Stats!Update(s) \/ Stats!UpdateFails(s)
      <4>1. v2'[s] = "voting"
        BY <2>1, <3>1 DEF Stats!Begin, Stats!Update, Stats!UpdateFails, Stats!TypeOK
      <4>. QED
        BY <4>1
    <3>2. CASE Stats!Insert(s) \/ Stats!InsertFails(s)
      <4>1. v2'[s] # "idle"
        BY <2>1, <3>2 DEF Stats!Insert, Stats!InsertFails, Stats!TypeOK
      <4>. QED
        BY <3>2, <4>1, InsertSettles
    <3>3. CASE Stats!End(s) \/ Stats!Kill(s)
      BY <3>3, EndSettles
    <3>. QED
      BY <1>2, <3>1, <3>2, <3>3
  <2>7. \A t \in Voter \ {s} : /\ v2'[t] = "idle" => v3'[t] = Stats!Zero
                               /\ v2'[t] = "update" => v1'[v4'[t][1]].there
    <3>1. \A t \in Voter : v4[t][1] \in Provider
      BY <2>1, VotesAre DEF Stats!TypeOK
    <3>. QED
      BY <2>4, <2>5, <3>1 DEF Stats!BallotsInv
  <2>. QED
    BY <2>2, <2>3, <2>6, <2>7 DEF Stats!BallotsInv, Stats!Zero, Stats!Votes
<1>. QED
  BY <1>1, <1>2 DEF Stats!Next

(* What the invariant is for.                                              *)
LEMMA BallotsHold ==
  Stats!BallotsInv => Stats!TypeOK /\ Stats!BallotsCounted
BY DEF Stats!BallotsInv

(* A fraction whose parts grow by as much, or whose whole grows alone.     *)
LEMMA FractionGrows ==
  ASSUME NEW n \in Nat, NEW m \in Nat, n <= m, NEW d \in Nat
  PROVE  /\ n * (m + d) <= (n + d) * m
         /\ n * m <= n * (m + d)
<1>1. n * (m + d) = n * m + n * d /\ (n + d) * m = n * m + d * m
  OBVIOUS
<1>2. \A i, j, k \in Nat : i <= j => i * k <= k * j
  OBVIOUS
<1>3. n * d <= d * m
  BY <1>2
<1>4. n * m \in Nat /\ n * d \in Nat /\ d * m \in Nat
  OBVIOUS
<1>. QED
  BY <1>1, <1>3, <1>4

(* The weights of a row and of one with a vote more.                       *)
LEMMA WeightsMove ==
  ASSUME NEW r \in [there : BOOLEAN, wins : Nat, losses : Nat, abstains : Nat],
         NEW b \in {"agree", "disagree"}, NEW q, q = [r EXCEPT ![Stats!Column(b)] = @ + 1]
  PROVE  /\ b = "agree" => /\ Stats!Leq(Stats!TriangulateWeight(r), Stats!TriangulateWeight(q))
                           /\ Stats!Leq(Stats!RouterWeight(r), Stats!RouterWeight(q))
         /\ b = "disagree"
              => /\ Stats!Leq(Stats!TriangulateWeight(q), Stats!TriangulateWeight(r))
                              /\ Stats!Leq(Stats!RouterWeight(q), Stats!RouterWeight(r))
<1>1. PICK w \in Nat, l \in Nat, a \in Nat : r.wins = w /\ r.losses = l /\ r.abstains = a
  OBVIOUS
<1>2. /\ q.wins = w + (IF b = "agree" THEN 1 ELSE 0)
      /\ q.losses = l + (IF b = "disagree" THEN 1 ELSE 0)
      /\ q.abstains = a
  <2>1. b \in Stats!Ballot
    BY DEF Stats!Ballot
  <2>2. q.wins = r.wins + (IF b = "agree" THEN 1 ELSE 0)
    BY <2>1, ColumnCounts
  <2>3. q.losses = r.losses + (IF b = "disagree" THEN 1 ELSE 0)
    BY <2>1, ColumnCounts
  <2>4. q.abstains = r.abstains + (IF b = "abstain" THEN 1 ELSE 0)
    BY <2>1, ColumnCounts
  <2>. QED
    BY <1>1, <2>2, <2>3, <2>4
<1>3. PICK c \in Nat, t \in Nat : c = w + l /\ t = w + l + a
  OBVIOUS
<1>4. /\ Stats!Committed(r) = c /\ Stats!Total(r) = t /\ Stats!Committed(q) = c + 1
           /\ Stats!Total(q) = t + 1
  BY <1>1, <1>2, <1>3 DEF Stats!Committed, Stats!Total
<1>5. w * (c + 1) <= (w + 1) * c /\ w * c <= w * (c + 1)
  BY <1>3, FractionGrows
<1>6. PICK n \in Nat, m \in Nat : n = 2 * w + a /\ m = 2 * t
  OBVIOUS
<1>7. n * (m + 2) <= (n + 2) * m /\ n * m <= n * (m + 2)
  <2>1. n <= m
    BY <1>3, <1>6
  <2>. QED
    BY <2>1, FractionGrows
<1>8. /\ Stats!TriangulateWeight(r) = IF t = 0 THEN <<1, 1>> ELSE IF c =
           0 THEN <<1, 2>> ELSE <<w, c>>
      /\ Stats!RouterWeight(r) = IF t = 0 THEN <<1, 2>> ELSE <<n, m>>
  BY <1>1, <1>4, <1>6 DEF Stats!TriangulateWeight, Stats!RouterWeight
<1>9. CASE b = "agree"
  <2>1. Stats!TriangulateWeight(q) = <<w + 1, c + 1>>
          /\ Stats!RouterWeight(q) = <<n + 2, m + 2>>
    <3>1. c + 1 # 0 /\ t + 1 # 0 /\ q.wins = w + 1 /\ q.abstains = a
      BY <1>2, <1>9
    <3>2. 2 * (w + 1) + a = n + 2 /\ 2 * (t + 1) = m + 2
      BY <1>6
    <3>. QED
      BY <1>4, <3>1, <3>2 DEF Stats!TriangulateWeight, Stats!RouterWeight
  <2>2. t = 0 => w = 0 /\ c = 0 /\ n = 0 /\ m = 0
    BY <1>3, <1>6
  <2>3. c = 0 => w = 0
    BY <1>3
  <2>4. Stats!Leq(Stats!TriangulateWeight(r), Stats!TriangulateWeight(q))
    BY <1>5, <1>8, <2>1, <2>2, <2>3 DEF Stats!Leq
  <2>5. Stats!Leq(Stats!RouterWeight(r), Stats!RouterWeight(q))
    BY <1>7, <1>8, <2>1, <2>2 DEF Stats!Leq
  <2>. QED
    BY <1>9, <2>4, <2>5
<1>10. CASE b = "disagree"
  <2>1. Stats!TriangulateWeight(q) = <<w, c + 1>> /\ Stats!RouterWeight(q) = <<n, m + 2>>
    <3>1. c + 1 # 0 /\ t + 1 # 0 /\ q.wins = w /\ q.abstains = a
      BY <1>2, <1>10
    <3>2. 2 * w + a = n /\ 2 * (t + 1) = m + 2
      BY <1>6
    <3>. QED
      BY <1>4, <3>1, <3>2 DEF Stats!TriangulateWeight, Stats!RouterWeight
  <2>2. t = 0 => w = 0 /\ c = 0 /\ n = 0 /\ m = 0
    BY <1>3, <1>6
  <2>3. c = 0 => w = 0
    BY <1>3
  <2>4. Stats!Leq(Stats!TriangulateWeight(q), Stats!TriangulateWeight(r))
    BY <1>5, <1>8, <2>1, <2>2, <2>3 DEF Stats!Leq
  <2>5. Stats!Leq(Stats!RouterWeight(q), Stats!RouterWeight(r))
    BY <1>7, <1>8, <2>1, <2>2 DEF Stats!Leq
  <2>. QED
    BY <1>10, <2>4, <2>5
<1>. QED
  BY <1>9, <1>10

(* A ballot moves the weights of its provider the way it was cast.         *)
LEMMA WeighsRight ==
  ASSUME Stats!BallotsInv, [Stats!Next]_(Stats!vars)
  PROVE  Stats!WeightsStep
<1>1. ASSUME NEW p \in Provider, NEW b \in {"agree", "disagree"}, NEW s \in Voter,
             v2[s] = "update", v2'[s] = "voting", v7' = v7, v4[s] = <<p, b>>
      PROVE  /\ b = "agree"
                  => /\ Stats!Leq(Stats!TriangulateWeight(v1[p]),
                                                             Stats!TriangulateWeight(v1'[p]))
                               /\ Stats!Leq(Stats!RouterWeight(v1[p]),
                                                                  Stats!RouterWeight(v1'[p]))
             /\ b = "disagree"
                  => /\ Stats!Leq(Stats!TriangulateWeight(v1'[p]),
                                                              Stats!TriangulateWeight(v1[p]))
                                  /\ Stats!Leq(Stats!RouterWeight(v1'[p]),
                                                                      Stats!RouterWeight(v1[p]))
  <2>1. Stats!TypeOK
    BY DEF Stats!BallotsInv
  <2>2. PICK t \in Voter : Stats!Begin(t) \/ Stats!Insert(t) \/ Stats!InsertFails(t)
               \/ Stats!Update(t)
                            \/ Stats!UpdateFails(t) \/ Stats!End(t) \/ Stats!Kill(t)
    BY <1>1 DEF Stats!Next, Stats!vars
  <2>3. t = s
    BY <1>1, <2>1, <2>2 DEF Stats!TypeOK, Stats!Begin, Stats!Insert, Stats!InsertFails,
                            Stats!Update, Stats!UpdateFails, Stats!End, Stats!Kill
  <2>4. ~Stats!UpdateFails(s)
    <3>1. v4[s] \in Stats!Votes /\ v7[v4[s]] \in Nat
      BY <2>1 DEF Stats!TypeOK
    <3>2. v7[v4[s]] + 1 # v7[v4[s]]
      BY <3>1
    <3>. QED
      BY <1>1, <2>1, <3>1, <3>2 DEF Stats!UpdateFails, Stats!TypeOK
  <2>5. Stats!Update(s)
    BY <1>1, <2>1, <2>2, <2>3, <2>4 DEF Stats!TypeOK, Stats!Begin, Stats!Insert,
                                        Stats!InsertFails, Stats!End, Stats!Kill
  <2>6. PICK r \in [there : BOOLEAN, wins : Nat, losses : Nat, abstains : Nat] : r = v1[p]
    BY <2>1 DEF Stats!TypeOK
  <2>7. v4[s][1] = p /\ v4[s][2] = b
    BY <1>1
  <2>8. v1' = [v1 EXCEPT ![p] = [r EXCEPT ![Stats!Column(b)] = @ + 1]]
    BY <2>5, <2>6, <2>7 DEF Stats!Update
  <2>9. v1'[p] = [r EXCEPT ![Stats!Column(b)] = @ + 1]
    BY <2>1, <2>8 DEF Stats!TypeOK
  <2>. QED
    BY <2>6, <2>9, WeightsMove
<1>2. ASSUME NEW p \in Provider, NEW s \in Voter,
             v2[s] = "update", v2'[s] = "voting", v7' = v7, v4[s] = <<p, "agree">>
      PROVE  /\ Stats!Leq(Stats!TriangulateWeight(v1[p]), Stats!TriangulateWeight(v1'[p]))
             /\ Stats!Leq(Stats!RouterWeight(v1[p]), Stats!RouterWeight(v1'[p]))
  BY <1>1, <1>2
<1>3. ASSUME NEW p \in Provider, NEW s \in Voter,
             v2[s] = "update", v2'[s] = "voting", v7' = v7, v4[s] = <<p, "disagree">>
      PROVE  /\ Stats!Leq(Stats!TriangulateWeight(v1'[p]), Stats!TriangulateWeight(v1[p]))
             /\ Stats!Leq(Stats!RouterWeight(v1'[p]), Stats!RouterWeight(v1[p]))
  BY <1>1, <1>3
<1>. QED
  BY <1>2, <1>3 DEF Stats!WeightsStep


-----------------------------------------------------------------------------
(***************************************************************************)
(* A session's row and log.                                                *)
(***************************************************************************)
(* An empty row owes nobody anything. *)
LEMMA LedgerStarts ==
  ASSUME NEW u \in Ledgers, Ledger(u)!LedgerAssumption, Ledger(u)!Init
  PROVE  Ledger(u)!LedgerInv
<1>1. Ledger(u)!Backed
  <2>1. Ledger(u)!TypeOK
    <3>1. Ledger(u)!Zero \in Ledger(u)!Totals /\ 0 \in 0 .. LedgerOf[u].calls
      BY DEF Ledger!Zero, Ledger!Totals, Ledger!LedgerAssumption
    <3>2. "idle" \in Ledger(u)!Labels
      BY DEF Ledger!Labels
    <3>. QED
      BY <3>1, <3>2, Zenon DEF Ledger!Init, Ledger!TypeOK
  <2>2. Ledger(u)!RowIsBacked /\ \A p \in LedgerOf[u].process : v4[p] = "idle"
    BY DEF Ledger!Init, Ledger!RowIsBacked, Ledger!AtMost, Ledger!Zero
  <2>. QED
    BY <2>1, <2>2 DEF Ledger!Backed, Ledger!Init, Ledger!Pending
<1>2. Ledger(u)!Unshared
  BY DEF Ledger!Init, Ledger!Unshared, Ledger!RowIsCumulative
<1>. QED
  BY <1>1, <1>2 DEF Ledger!LedgerInv

(* An answer is billed to the process and to the history alike.            *)
LEMMA AnswerBacked ==
  ASSUME NEW u \in Ledgers, Ledger(u)!LedgerAssumption, Ledger(u)!Backed,
         NEW p \in LedgerOf[u].process, Ledger(u)!Answer(p)
  PROVE  Ledger(u)!Backed'
<1>. USE DEF Ledger!Backed, Ledger!TypeOK, Ledger!Totals, Ledger!Labels, Ledger!Pending,
             Ledger!RowIsBacked, Ledger!AtMost, Ledger!Plus, Ledger!Zero
<1>1. PICK cost \in 0 .. LedgerOf[u].cost : \E shown \in 0 .. cost :
        /\ v6' = [v6 EXCEPT ![p] = Ledger(u)!Plus(@, [calls |-> 1, tokens |-> shown])]
        /\ v8' = Ledger(u)!Plus(v8, [calls |-> 1, tokens |-> cost])
        /\ v9' = v9 + (cost - shown)
  BY DEF Ledger!Answer
<1>2. PICK shown \in 0 .. cost :
        /\ v6' = [v6 EXCEPT ![p] = Ledger(u)!Plus(@, [calls |-> 1, tokens |-> shown])]
        /\ v8' = Ledger(u)!Plus(v8, [calls |-> 1, tokens |-> cost])
        /\ v9' = v9 + (cost - shown)
  BY <1>1
<1>4. cost \in Nat /\ shown \in Nat /\ shown <= cost /\ cost - shown \in Nat
  BY <1>1, <1>2 DEF Ledger!LedgerAssumption
<1>3. UNCHANGED <<v1, v2, v3, v4, v5, v7, v10, v11>> /\ v4[p] = "work"
  BY DEF Ledger!Answer
<1>. QED
  BY <1>2, <1>3, <1>4

(* Every step adds to a bill what it adds to a total.                      *)
LEMMA StepBacked ==
  ASSUME NEW u \in Ledgers, Ledger(u)!LedgerAssumption, Ledger(u)!Backed,
         [Ledger(u)!Next]_(Ledger(u)!vars)
  PROVE  Ledger(u)!Backed'
<1>. USE DEF Ledger!Backed, Ledger!TypeOK, Ledger!Totals, Ledger!Labels, Ledger!Pending,
             Ledger!RowIsBacked, Ledger!AtMost, Ledger!Plus, Ledger!Zero, Ledger!Goto
<1>1. CASE UNCHANGED Ledger(u)!vars
  BY <1>1 DEF Ledger!vars
<1>2. ASSUME NEW p \in LedgerOf[u].process, Ledger(u)!ToolCall(p) \/ Ledger(u)!Crash(p)
      PROVE Ledger(u)!Backed'
  <2>1. CASE Ledger(u)!Begin(p)
    BY <2>1 DEF Ledger!Begin, Ledger!LedgerAssumption
  <2>2. CASE Ledger(u)!Select(p)
    BY <2>2 DEF Ledger!Select
  <2>3. CASE Ledger(u)!Insert(p)
    BY <2>3 DEF Ledger!Insert
  <2>4. CASE Ledger(u)!Answer(p)
    BY <2>4, AnswerBacked
  <2>5. CASE Ledger(u)!Save(p)
    BY <2>5 DEF Ledger!Save
  <2>6. CASE Ledger(u)!Abandon(p)
    BY <2>6 DEF Ledger!Abandon
  <2>7. CASE Ledger(u)!Log(p)
    BY <2>7 DEF Ledger!Log
  <2>8. CASE Ledger(u)!LogFails(p)
    BY <2>8 DEF Ledger!LogFails
  <2>9. CASE Ledger(u)!Crash(p)
    BY <2>9 DEF Ledger!Crash
  <2>. QED
    BY <1>2, <2>1, <2>2, <2>3, <2>4, <2>5, <2>6, <2>7, <2>8, <2>9 DEF Ledger!ToolCall
<1>. QED
  BY <1>1, <1>2 DEF Ledger!Next, Ledger!Stopped

(* With one process, its snapshot stays the row until it writes.           *)
LEMMA StepUnshared ==
  ASSUME NEW u \in Ledgers, Ledger(u)!LedgerAssumption, Ledger(u)!Backed, Ledger(u)!Unshared,
         [Ledger(u)!Next]_(Ledger(u)!vars),
         NEW server, LedgerOf[u].process = {server}
  PROVE  Ledger(u)!Unshared'
<1>. USE DEF Ledger!Unshared, Ledger!RowIsCumulative, Ledger!Backed, Ledger!TypeOK,
             Ledger!Totals, Ledger!Labels, Ledger!Plus, Ledger!Zero, Ledger!Goto, Ledger!Tripped
<1>1. CASE UNCHANGED Ledger(u)!vars
  BY <1>1 DEF Ledger!vars
<1>2. ASSUME NEW p \in LedgerOf[u].process, Ledger(u)!ToolCall(p) \/ Ledger(u)!Crash(p)
      PROVE Ledger(u)!Unshared'
  <2>1. CASE Ledger(u)!Begin(p)
    BY <2>1 DEF Ledger!Begin
  <2>2. CASE Ledger(u)!Select(p)
    BY <2>2 DEF Ledger!Select
  <2>3. CASE Ledger(u)!Insert(p)
    BY <2>3 DEF Ledger!Insert, Ledger!LedgerAssumption
  <2>4. CASE Ledger(u)!Answer(p)
    BY <2>4 DEF Ledger!Answer
  <2>5. CASE Ledger(u)!Save(p)
    BY <2>5 DEF Ledger!Save
  <2>6. CASE Ledger(u)!Abandon(p)
    BY <2>6 DEF Ledger!Abandon
  <2>7. CASE Ledger(u)!Log(p)
    BY <2>7 DEF Ledger!Log
  <2>8. CASE Ledger(u)!LogFails(p)
    BY <2>8 DEF Ledger!LogFails
  <2>9. CASE Ledger(u)!Crash(p)
    BY <2>9 DEF Ledger!Crash
  <2>. QED
    BY <1>2, <2>1, <2>2, <2>3, <2>4, <2>5, <2>6, <2>7, <2>8, <2>9 DEF Ledger!ToolCall
<1>. QED
  BY <1>1, <1>2 DEF Ledger!Next, Ledger!Stopped

(* The invariant is kept by every step.                                    *)
LEMMA LedgerSteps ==
  ASSUME NEW u \in Ledgers, Ledger(u)!LedgerAssumption, Ledger(u)!LedgerInv,
         [Ledger(u)!Next]_(Ledger(u)!vars)
  PROVE  Ledger(u)!LedgerInv'
<1>1. Ledger(u)!Backed'
  BY StepBacked DEF Ledger!LedgerInv
<1>2. ASSUME NEW p \in LedgerOf[u].process, LedgerOf[u].process = {p} PROVE Ledger(u)!Unshared'
  BY <1>2, StepUnshared DEF Ledger!LedgerInv
<1>. QED
  BY <1>1, <1>2 DEF Ledger!LedgerInv

(* What a process has spent and not yet logged, in calls or in tokens.      *)
Owed(u, part) ==
  [p \in LedgerOf[u].process |-> IF v4[p] \notin Ledger(u)!Pending THEN 0
                                 ELSE IF part = "calls" THEN v6[p].calls ELSE v6[p].tokens]

Owing(u, part) == SumFunctionOnSet(Owed(u, part), LedgerOf[u].process)

(* As long as nothing went wrong, what was billed is in the log, owed, or  *)
(* shown by no answer.                                                     *)
Balanced(u) ==
  ~v11 => /\ v8.calls = v3.calls + Owing(u, "calls")
          /\ v8.tokens = v3.tokens + v9 + Owing(u, "tokens")

(* The finite sets of FiniteSets and of the session row are the same.      *)
LEMMA LedgerUsersFinite ==
  ASSUME NEW u \in Ledgers, Ledger(u)!LedgerAssumption
  PROVE  IsFiniteSet(LedgerOf[u].process)
BY DEF Ledger!LedgerAssumption, Ledger!IsFiniteSet, IsFiniteSet

(* Nothing is owed while no call is under way.                             *)
LEMMA NothingOwed ==
  ASSUME NEW u \in Ledgers, Ledger(u)!LedgerAssumption, Ledger(u)!AtRest, NEW part
  PROVE  Owing(u, part) = 0
<1>1. \A p \in LedgerOf[u].process : Owed(u, part)[p] = 0
  BY DEF Owed, Ledger!AtRest, Ledger!Pending
<1>. HIDE DEF Owed
<1>. QED
  BY <1>1, LedgerUsersFinite, SumOfZeros DEF Owing

(* And so the books balance at first.                                      *)
LEMMA BalancedAtFirst ==
  ASSUME NEW u \in Ledgers, Ledger(u)!LedgerAssumption, Ledger(u)!Init
  PROVE  Balanced(u)
<1>1. Owing(u, "calls") = 0 /\ Owing(u, "tokens") = 0
  BY NothingOwed DEF Ledger!Init, Ledger!AtRest
<1>2. v8.calls = 0 /\ v8.tokens = 0 /\ v3.calls = 0 /\ v3.tokens = 0
      /\ v9 = 0
  BY DEF Ledger!Init, Ledger!Zero
<1>. QED
  BY <1>1, <1>2 DEF Balanced

(* A step of a process moves what is owed by what it changes of its own.   *)
LEMMA OwingMoves ==
  ASSUME NEW u \in Ledgers, Ledger(u)!LedgerAssumption, Ledger(u)!Backed, Ledger(u)!Backed',
         NEW p \in LedgerOf[u].process, NEW part,
         \A q \in LedgerOf[u].process : q # p => v4'[q] = v4[q] /\ v6'[q] = v6[q]
  PROVE  /\ Owing(u, part) \in Int
         /\ Owing(u, part)' = Owing(u, part) + (Owed(u, part)'[p] - Owed(u, part)[p])
<1>1. /\ \A q \in LedgerOf[u].process : Owed(u, part)[q] \in Int
      /\ \A q \in LedgerOf[u].process : Owed(u, part)'[q] \in Int
  BY DEF Owed, Ledger!Backed, Ledger!TypeOK, Ledger!Totals
<1>2. \A q \in LedgerOf[u].process : q # p => Owed(u, part)[q] = Owed(u, part)'[q]
  BY DEF Owed
<1>. QED
  BY <1>1, <1>2, LedgerUsersFinite, SumMoves DEF Owing

(* Every step keeps that balance.                                          *)
LEMMA StepBalanced ==
  ASSUME NEW u \in Ledgers, Ledger(u)!LedgerAssumption, Ledger(u)!Backed, Balanced(u),
         [Ledger(u)!Next]_(Ledger(u)!vars)
  PROVE  Balanced(u)'
<1>0. Ledger(u)!Backed'
  BY StepBacked
<1>1. CASE UNCHANGED Ledger(u)!vars
  BY <1>1 DEF Ledger!vars, Balanced, Owing, Owed
<1>2. ASSUME NEW p \in LedgerOf[u].process, Ledger(u)!ToolCall(p) \/ Ledger(u)!Crash(p)
      PROVE Balanced(u)'
  <2>1. \A q \in LedgerOf[u].process : q # p => v4'[q] = v4[q] /\ v6'[q] = v6[q]
    BY <1>2 DEF Ledger!ToolCall, Ledger!Crash, Ledger!Begin, Ledger!Select, Ledger!Insert,
                Ledger!Answer, Ledger!Save, Ledger!Abandon, Ledger!Log,
                Ledger!LogFails, Ledger!Goto, Ledger!Backed, Ledger!TypeOK
  <2>2. \A part : /\ Owing(u, part) \in Int
                  /\ Owing(u, part)' = Owing(u, part) + (Owed(u, part)'[p] - Owed(u, part)[p])
    BY <1>0, <2>1, OwingMoves
  <2>3. /\ v4[p] \in Ledger(u)!Labels /\ v3 \in Ledger(u)!Totals /\ v8 \in Ledger(u)!Totals
             /\ v6[p] \in Ledger(u)!Totals
        /\ v9 \in Nat /\ v11 \in BOOLEAN
    BY DEF Ledger!Backed, Ledger!TypeOK
  <2>4. CASE Ledger(u)!Begin(p) \/ Ledger(u)!Select(p) \/ Ledger(u)!Insert(p)
               \/ Ledger(u)!Save(p)
    <3>1. UNCHANGED <<v3, v8, v9>> /\ \A part : Owed(u, part)'[p] = Owed(u, part)[p]
      <4>1. CASE Ledger(u)!Begin(p)
        BY <2>3, <4>1 DEF Ledger!Begin, Ledger!Goto, Owed, Ledger!Backed, Ledger!TypeOK,
                          Ledger!Pending
      <4>2. CASE Ledger(u)!Select(p)
        BY <2>3, <4>2 DEF Ledger!Select, Ledger!Goto, Owed, Ledger!Backed, Ledger!TypeOK,
                          Ledger!Pending, Ledger!Zero
      <4>3. CASE Ledger(u)!Insert(p)
        BY <2>3, <4>3 DEF Ledger!Insert, Ledger!Goto, Owed, Ledger!Backed, Ledger!TypeOK,
                          Ledger!Pending, Ledger!Zero
      <4>4. CASE Ledger(u)!Save(p)
        BY <2>3, <4>4 DEF Ledger!Save, Ledger!Goto, Owed, Ledger!Backed, Ledger!TypeOK,
                          Ledger!Pending
      <4>. QED
        BY <2>4, <4>1, <4>2, <4>3, <4>4
    <3>2. v11 => v11'
      BY <2>3, <2>4 DEF Ledger!Begin, Ledger!Select, Ledger!Insert, Ledger!Save
    <3>3. /\ Owing(u, "calls")' = Owing(u, "calls")
          /\ Owing(u, "tokens")' = Owing(u, "tokens")
      <4>1. \A part : Owed(u, part)[p] \in Int
        BY <2>3 DEF Owed, Ledger!Totals
      <4>2. \A part : Owed(u, part)'[p] - Owed(u, part)[p] = 0
        BY <3>1, <4>1
      <4>. QED
        BY <2>2, <4>2
    <3>. QED
      BY <3>1, <3>2, <3>3 DEF Balanced
  <2>5. CASE Ledger(u)!Answer(p)
    <3>0. PICK cost \in 0 .. LedgerOf[u].cost : \E shown \in 0 .. cost :
            /\ v6' = [v6 EXCEPT ![p] = Ledger(u)!Plus(@, [calls |-> 1, tokens |-> shown])]
            /\ v8' = Ledger(u)!Plus(v8, [calls |-> 1, tokens |-> cost])
            /\ v9' = v9 + (cost - shown)
      BY <2>5 DEF Ledger!Answer
    <3>1. PICK shown \in 0 .. cost :
            /\ v6' = [v6 EXCEPT ![p] = Ledger(u)!Plus(@, [calls |-> 1, tokens |-> shown])]
            /\ v8' = Ledger(u)!Plus(v8, [calls |-> 1, tokens |-> cost])
            /\ v9' = v9 + (cost - shown)
      BY <3>0
    <3>2. cost \in Nat /\ shown \in Nat /\ v4[p] = "work" /\ UNCHANGED <<v4, v3, v11>>
      BY <2>5, <3>0, <3>1 DEF Ledger!Answer, Ledger!LedgerAssumption
    <3>3. /\ v6'[p] = Ledger(u)!Plus(v6[p], [calls |-> 1, tokens |-> shown])
          /\ v6[p].calls \in Nat /\ v6[p].tokens \in Nat
          /\ v8.calls \in Nat /\ v8.tokens \in Nat
          /\ v3.calls \in Nat /\ v3.tokens \in Nat
      BY <2>3, <3>1 DEF Ledger!Backed, Ledger!TypeOK, Ledger!Totals
    <3>4. /\ Owed(u, "calls")'[p] - Owed(u, "calls")[p] = 1
          /\ Owed(u, "tokens")'[p] - Owed(u, "tokens")[p] = shown
          /\ v8'.calls = v8.calls + 1 /\ v8'.tokens = v8.tokens + cost
      BY <3>1, <3>2, <3>3 DEF Owed, Ledger!Plus, Ledger!Pending
    <3>5. /\ Owing(u, "calls")' = Owing(u, "calls") + 1 /\ Owing(u, "calls") \in Int
          /\ Owing(u, "tokens")' = Owing(u, "tokens") + shown /\ Owing(u, "tokens") \in Int
      BY <2>2, <3>2, <3>4
    <3>. QED
      BY <2>3, <3>1, <3>2, <3>3, <3>4, <3>5 DEF Balanced
  <2>6. CASE Ledger(u)!Log(p)
    <3>1. /\ v4[p] = "log" /\ v4'[p] = "idle" /\ v3' = Ledger(u)!Plus(v3, v6[p])
          /\ UNCHANGED <<v8, v9, v11>>
      BY <2>3, <2>6 DEF Ledger!Log, Ledger!Goto, Ledger!Backed, Ledger!TypeOK
    <3>2. /\ v6[p].calls \in Nat /\ v6[p].tokens \in Nat
          /\ v8.calls \in Nat /\ v8.tokens \in Nat
          /\ v3.calls \in Nat /\ v3.tokens \in Nat
      BY <2>3 DEF Ledger!Totals
    <3>3. /\ Owed(u, "calls")'[p] - Owed(u, "calls")[p] = - v6[p].calls
          /\ Owed(u, "tokens")'[p] - Owed(u, "tokens")[p] = - v6[p].tokens
          /\ v3'.calls = v3.calls + v6[p].calls
          /\ v3'.tokens = v3.tokens + v6[p].tokens
      BY <3>1, <3>2 DEF Owed, Ledger!Plus, Ledger!Pending
    <3>4. /\ Owing(u, "calls")' = Owing(u, "calls") - v6[p].calls
          /\ Owing(u, "calls") \in Int
          /\ Owing(u, "tokens")' = Owing(u, "tokens") - v6[p].tokens
          /\ Owing(u, "tokens") \in Int
      BY <2>2, <3>2, <3>3
    <3>. QED
      BY <2>3, <3>1, <3>2, <3>3, <3>4 DEF Balanced
  <2>7. CASE Ledger(u)!Abandon(p) \/ Ledger(u)!LogFails(p) \/ Ledger(u)!Crash(p)
    BY <2>7 DEF Ledger!Abandon, Ledger!LogFails, Ledger!Crash, Balanced
  <2>. QED
    BY <1>2, <2>4, <2>5, <2>6, <2>7 DEF Ledger!ToolCall
<1>. QED
  BY <1>1, <1>2 DEF Ledger!Next, Ledger!Stopped

(* What the invariants say. *)
LEMMA LedgerHolds ==
  ASSUME NEW u \in Ledgers, Ledger(u)!LedgerAssumption, Ledger(u)!LedgerInv, Balanced(u)
  PROVE  /\ Ledger(u)!TypeOK /\ Ledger(u)!RowIsBacked /\ Ledger(u)!LogIsComplete
         /\ Alone(LedgerOf[u].process) => Ledger(u)!RowIsCumulative
<1>1. Ledger(u)!TypeOK /\ Ledger(u)!RowIsBacked
  BY DEF Ledger!LedgerInv, Ledger!Backed
<1>2. ASSUME Ledger(u)!AtRest, ~v11
      PROVE  v3.calls = v8.calls /\ v3.tokens + v9 = v8.tokens
  <2>1. Owing(u, "calls") = 0 /\ Owing(u, "tokens") = 0
    BY <1>2, NothingOwed
  <2>. QED
    BY <1>1, <1>2, <2>1 DEF Balanced, Ledger!TypeOK, Ledger!Totals
<1>3. Alone(LedgerOf[u].process) => Ledger(u)!RowIsCumulative
  BY DEF Alone, Ledger!LedgerInv, Ledger!Unshared
<1>. QED
  BY <1>1, <1>2, <1>3 DEF Ledger!LogIsComplete

(* Once at its cap the session is never billed again: the only step that   *)
(* bills belongs to a call whose snapshot is the row and has passed the    *)
(* breaker.                                                                *)
LEMMA BreakerHolds ==
  ASSUME NEW u \in Ledgers, Ledger(u)!LedgerInv, Alone(LedgerOf[u].process),
         [Ledger(u)!Next]_(Ledger(u)!vars)
  PROVE  Ledger(u)!TrippedStep
<1>. SUFFICES ASSUME Ledger(u)!Tripped(v2) PROVE v8' = v8
  BY DEF Ledger!TrippedStep, Ledger!Tripped
<1>1. Ledger(u)!Unshared
  BY DEF Alone, Ledger!LedgerInv
<1>2. CASE UNCHANGED Ledger(u)!vars
  BY <1>2 DEF Ledger!vars
<1>3. ASSUME NEW p \in LedgerOf[u].process, Ledger(u)!ToolCall(p) \/ Ledger(u)!Crash(p)
      PROVE v8' = v8
  <2>1. ~Ledger(u)!Answer(p)
    BY <1>1 DEF Ledger!Answer, Ledger!Unshared
  <2>. QED
    BY <1>3, <2>1 DEF Ledger!ToolCall, Ledger!Begin, Ledger!Select, Ledger!Insert,
                      Ledger!Save, Ledger!Abandon, Ledger!Log, Ledger!LogFails, Ledger!Crash
<1>. QED
  BY <1>2, <1>3 DEF Ledger!Next, Ledger!Stopped, Ledger!vars


-----------------------------------------------------------------------------
(***************************************************************************)
(* Delegations.                                                            *)
(***************************************************************************)
(* Finite sets are counted alike in Delegate and in the lemmas.            *)
LEMMA DelegateSets ==
  /\ \A S : Delegations!IsFiniteSet(S) <=> IsFiniteSet(S)
  /\ \A S : Delegations!Cardinality(S) = Cardinality(S)
  /\ \A s : \A S : Delegations!SessionBudget(s)!Cardinality(S) = Cardinality(S)
  /\ \A r : \A S : Delegations!RequesterBudget(r)!Cardinality(S) = Cardinality(S)
BY DEF Delegations!IsFiniteSet, IsFiniteSet, Delegations!Cardinality, Cardinality,
       Delegations!SessionBudget!Cardinality, Delegations!RequesterBudget!Cardinality

(* Who is inside the two budgets.                                          *)
InSession(s) == {p \in Process : Delegations!Inside(p) /\ v5[p] = s /\ v7[p] < PerSession}
InRequester(r) == {p \in Process : /\ Delegations!Inside(p) /\ v4[p] # "count_requester"
                                   /\ v6[p] = r /\ v8[p] < PerRequester}

(* A step of a budget, in terms of who is inside.                          *)
MovesSession(s) ==
  \/ v1'[s] = v1[s] /\ InSession(s)' = InSession(s)
  \/ /\ v1[s] < PerSession /\ v1'[s] = v1[s]
     /\ \E p \in Process : InSession(s)' = InSession(s) \union {p}
  \/ \E p \in InSession(s) : /\ InSession(s)' = InSession(s) \ {p}
                             /\ \E k \in 0 .. 1 : v1'[s] = v1[s] + k
MovesRequester(r) ==
  \/ v2'[r] = v2[r] /\ InRequester(r)' = InRequester(r)
  \/ /\ v2[r] < PerRequester /\ v2'[r] = v2[r]
     /\ \E p \in Process : InRequester(r)' = InRequester(r) \union {p}
  \/ \E p \in InRequester(r) : /\ InRequester(r)' = InRequester(r) \ {p}
                               /\ \E k \in 0 .. 1 : v2'[r] = v2[r] + k

LEMMA MovesAreSteps ==
  /\ (\A s \in Session : MovesSession(s)) => Delegations!SessionsStep
  /\ (\A r \in Requester : MovesRequester(r)) => Delegations!RequestersStep
<1>1. ASSUME NEW s \in Session, MovesSession(s)
      PROVE  [Delegations!SessionBudget(s)!Next]_(Delegations!SessionBudget(s)!vars)
  <2>1. CASE v1'[s] = v1[s] /\ InSession(s)' = InSession(s)
    BY <2>1 DEF Delegations!SessionBudget!vars, InSession
  <2>2. ASSUME NEW p \in Process, v1[s] < PerSession, v1'[s] = v1[s],
               InSession(s)' = InSession(s) \union {p}
        PROVE  Delegations!SessionBudget(s)!Next
    BY <2>2 DEF Delegations!SessionBudget!Next, Delegations!SessionBudget!Admit, InSession
  <2>3. ASSUME NEW p \in InSession(s), InSession(s)' = InSession(s) \ {p},
               NEW k \in 0 .. 1, v1'[s] = v1[s] + k
        PROVE  Delegations!SessionBudget(s)!Next
    <3>1. p \in Process
      BY DEF InSession
    <3>2. Delegations!SessionBudget(s)!Leave(p)
      BY <2>3 DEF Delegations!SessionBudget!Leave, InSession
    <3>. QED
      BY <3>1, <3>2 DEF Delegations!SessionBudget!Next
  <2>. QED
    BY <1>1, <2>1, <2>2, <2>3 DEF MovesSession
<1>2. ASSUME NEW r \in Requester, MovesRequester(r)
      PROVE  [Delegations!RequesterBudget(r)!Next]_(Delegations!RequesterBudget(r)!vars)
  <2>1. CASE v2'[r] = v2[r] /\ InRequester(r)' = InRequester(r)
    BY <2>1 DEF Delegations!RequesterBudget!vars, InRequester
  <2>2. ASSUME NEW p \in Process, v2[r] < PerRequester, v2'[r] = v2[r],
               InRequester(r)' = InRequester(r) \union {p}
        PROVE  Delegations!RequesterBudget(r)!Next
    BY <2>2 DEF Delegations!RequesterBudget!Next, Delegations!RequesterBudget!Admit, InRequester
  <2>3. ASSUME NEW p \in InRequester(r), InRequester(r)' = InRequester(r) \ {p},
               NEW k \in 0 .. 1, v2'[r] = v2[r] + k
        PROVE  Delegations!RequesterBudget(r)!Next
    <3>1. p \in Process
      BY DEF InRequester
    <3>2. Delegations!RequesterBudget(r)!Leave(p)
      BY <2>3 DEF Delegations!RequesterBudget!Leave, InRequester
    <3>. QED
      BY <3>1, <3>2 DEF Delegations!RequesterBudget!Next
  <2>. QED
    BY <1>2, <2>1, <2>2, <2>3 DEF MovesRequester
<1>. QED
  BY <1>1, <1>2 DEF Delegations!SessionsStep, Delegations!RequestersStep

(* Either keeps the overshoot within what is promised.                     *)
LEMMA OvershootStays ==
  ASSUME Delegations!DelegateAssumption, Delegations!TypeOK, Delegations!TypeOK',
         Delegations!QuotaOvershoot,
         \A s \in Session : MovesSession(s), \A r \in Requester : MovesRequester(r)
  PROVE  Delegations!QuotaOvershoot'
<1>1. IsFiniteSet(Process) /\ PerSession \in Nat /\ PerRequester \in Nat
  BY DelegateSets DEF Delegations!DelegateAssumption
<1>2. ASSUME NEW s \in Session PROVE Delegations!SessionBudget(s)!Overshoot'
  <2>1. PICK x \in Nat, y \in Nat : x = v1[s] /\ y = v1'[s]
    BY DEF Delegations!TypeOK
  <2>. DEFINE S == InSession(s)
              T == InSession(s)'
  <2>2. S \in SUBSET Process
    BY DEF InSession
  <2>3. x + 1 * Cardinality(S) <= PerSession - 1 + 1 * Cardinality(Process)
    BY <2>1, DelegateSets DEF Delegations!QuotaOvershoot, Delegations!SessionBudget!Overshoot,
                              InSession
  <2>4. \/ y = x /\ T = S
        \/ x < PerSession /\ y = x /\ \E a \in Process : T = S \union {a}
        \/ \E a \in S : T = S \ {a} /\ \E k \in 0 .. 1 : y = x + k
    BY <2>1 DEF MovesSession
  <2>. HIDE DEF S, T
  <2>5. y + 1 * Cardinality(T) <= PerSession - 1 + 1 * Cardinality(Process)
    BY <1>1, <2>2, <2>3, <2>4, OvershootKept
  <2>. QED
    BY <2>1, <2>5, DelegateSets DEF Delegations!SessionBudget!Overshoot, InSession, S, T
<1>3. ASSUME NEW r \in Requester PROVE Delegations!RequesterBudget(r)!Overshoot'
  <2>1. PICK x \in Nat, y \in Nat : x = v2[r] /\ y = v2'[r]
    BY DEF Delegations!TypeOK
  <2>. DEFINE S == InRequester(r)
              T == InRequester(r)'
  <2>2. S \in SUBSET Process
    BY DEF InRequester
  <2>3. x + 1 * Cardinality(S) <= PerRequester - 1 + 1 * Cardinality(Process)
    BY <2>1, DelegateSets DEF Delegations!QuotaOvershoot,
                              Delegations!RequesterBudget!Overshoot, InRequester
  <2>4. \/ y = x /\ T = S
        \/ x < PerRequester /\ y = x /\ \E a \in Process : T = S \union {a}
        \/ \E a \in S : T = S \ {a} /\ \E k \in 0 .. 1 : y = x + k
    BY <2>1 DEF MovesRequester
  <2>. HIDE DEF S, T
  <2>5. y + 1 * Cardinality(T) <= PerRequester - 1 + 1 * Cardinality(Process)
    BY <1>1, <2>2, <2>3, <2>4, OvershootKept
  <2>. QED
    BY <2>1, <2>5, DelegateSets DEF Delegations!RequesterBudget!Overshoot, InRequester, S, T
<1>. QED
  BY <1>2, <1>3 DEF Delegations!QuotaOvershoot

(* The types hold after each step.                                         *)
LEMMA DelegateTypes ==
  ASSUME Delegations!DelegateAssumption, Delegations!TypeOK,
         [Delegations!Next]_(Delegations!vars)
  PROVE  Delegations!TypeOK'
<1>1. CASE UNCHANGED Delegations!vars
  BY <1>1 DEF Delegations!TypeOK, Delegations!vars
<1>2. ASSUME NEW p \in Process, Delegations!Delegation(p) \/ Delegations!Crash(p)
      PROVE Delegations!TypeOK'
  <2>1. CASE Delegations!Begin(p)
    BY <2>1 DEF Delegations!TypeOK, Delegations!Begin, Delegations!Goto, Delegations!Labels,
                Delegations!rows, Delegations!DelegateAssumption
  <2>2. CASE Delegations!CountSession(p)
    BY <2>2 DEF Delegations!TypeOK, Delegations!CountSession, Delegations!Goto,
                Delegations!Labels, Delegations!rows, Delegations!args
  <2>3. CASE Delegations!CountRequester(p)
    BY <2>3 DEF Delegations!TypeOK, Delegations!CountRequester, Delegations!Goto,
                Delegations!Labels, Delegations!rows, Delegations!args
  <2>4. CASE Delegations!Check(p)
    BY <2>4 DEF Delegations!TypeOK, Delegations!Check, Delegations!Goto, Delegations!Labels,
                Delegations!rows, Delegations!args, Delegations!counts
  <2>5. CASE Delegations!Run(p)
    <3>1. v10' \in [Session -> Nat]
      BY <2>5 DEF Delegations!TypeOK, Delegations!Run
    <3>. QED
      BY <2>5, <3>1 DEF Delegations!TypeOK, Delegations!Run, Delegations!Goto,
                        Delegations!Labels, Delegations!rows, Delegations!args,
         Delegations!counts
  <2>6. CASE Delegations!RunRaises(p)
    BY <2>6 DEF Delegations!TypeOK, Delegations!RunRaises, Delegations!Goto,
                Delegations!Labels, Delegations!rows, Delegations!args, Delegations!counts
  <2>7. CASE Delegations!Record(p)
    <3>1. v1' \in [Session -> Nat] /\ v2' \in [Requester -> Nat]
      BY <2>7 DEF Delegations!TypeOK, Delegations!Record
    <3>. QED
      BY <2>7, <3>1 DEF Delegations!TypeOK, Delegations!Record, Delegations!Goto,
                        Delegations!Labels, Delegations!args, Delegations!counts
  <2>8. CASE Delegations!RecordRefused(p)
    BY <2>8 DEF Delegations!TypeOK, Delegations!RecordRefused, Delegations!Goto,
                Delegations!Labels, Delegations!args, Delegations!counts
  <2>9. CASE Delegations!Report(p)
    BY <2>9 DEF Delegations!TypeOK, Delegations!Report, Delegations!Goto, Delegations!Labels,
                Delegations!rows, Delegations!args, Delegations!counts
  <2>10. CASE Delegations!Crash(p)
    BY <2>10 DEF Delegations!TypeOK, Delegations!Crash, Delegations!Goto, Delegations!Labels,
                 Delegations!rows, Delegations!args, Delegations!counts
  <2>. QED
    BY <1>2, <2>1, <2>2, <2>3, <2>4, <2>5, <2>6, <2>7, <2>8, <2>9, <2>10
       DEF Delegations!Delegation
<1>. QED
  BY <1>1, <1>2 DEF Delegations!Next, Delegations!Stopped

(* A step of a server changes nothing of another.                          *)
LEMMA OthersStay ==
  ASSUME Delegations!TypeOK, NEW p \in Process,
         Delegations!Delegation(p) \/ Delegations!Crash(p)
  PROVE  \A q \in Process \ {p} :
           /\ v4'[q] = v4[q] /\ v5'[q] = v5[q] /\ v6'[q] = v6[q]
           /\ v7'[q] = v7[q] /\ v8'[q] = v8[q]
BY DEF Delegations!TypeOK, Delegations!Delegation, Delegations!Begin,
       Delegations!CountSession, Delegations!CountRequester, Delegations!Check,
   Delegations!Run, Delegations!RunRaises,
       Delegations!Record, Delegations!RecordRefused, Delegations!Report, Delegations!Crash,
       Delegations!Goto, Delegations!args, Delegations!counts

(* So it moves a budget by what it does itself.                            *)
LEMMA ServerMoves ==
  ASSUME Delegations!TypeOK, Delegations!TypeOK', NEW p \in Process,
         Delegations!Delegation(p) \/ Delegations!Crash(p)
  PROVE  /\ \A s \in Session :
              /\ p \in InSession(s)' /\ p \notin InSession(s) =>
                   v1[s] < PerSession /\ v1'[s] = v1[s]
              /\ p \in InSession(s) /\ p \notin InSession(s)' =>
                   v1'[s] = v1[s] \/ v1'[s] = v1[s] + 1
              /\ (p \in InSession(s) <=> p \in InSession(s)') => v1'[s] = v1[s]
              => MovesSession(s)
         /\ \A r \in Requester :
              /\ p \in InRequester(r)' /\ p \notin InRequester(r) =>
                   v2[r] < PerRequester /\ v2'[r] = v2[r]
              /\ p \in InRequester(r) /\ p \notin InRequester(r)' =>
                   v2'[r] = v2[r] \/ v2'[r] = v2[r] + 1
              /\ (p \in InRequester(r) <=> p \in InRequester(r)') => v2'[r] = v2[r]
              => MovesRequester(r)
<1>1. \A s \in Session, q \in Process \ {p} : q \in InSession(s)' <=> q \in InSession(s)
  BY OthersStay DEF InSession, Delegations!Inside
<1>2. \A r \in Requester, q \in Process \ {p} : q \in InRequester(r)' <=> q \in InRequester(r)
  BY OthersStay DEF InRequester, Delegations!Inside
<1>3. /\ \A s \in Session : InSession(s) \subseteq Process /\ InSession(s)' \subseteq Process
      /\ \A r \in Requester : InRequester(r) \subseteq Process
           /\ InRequester(r)' \subseteq Process
  BY DEF InSession, InRequester
<1>4. \A x, y \in Nat : y = x \/ y = x + 1 => \E k \in 0 .. 1 : y = x + k
  OBVIOUS
<1>5. ASSUME NEW s \in Session,
             p \in InSession(s)' /\ p \notin InSession(s) =>
               v1[s] < PerSession /\ v1'[s] = v1[s],
             p \in InSession(s) /\ p \notin InSession(s)' =>
               v1'[s] = v1[s] \/ v1'[s] = v1[s] + 1,
             (p \in InSession(s) <=> p \in InSession(s)') => v1'[s] = v1[s]
      PROVE  MovesSession(s)
  <2>. DEFINE S == InSession(s)
              T == InSession(s)'
  <2>1. v1[s] \in Nat /\ v1'[s] \in Nat
    BY DEF Delegations!TypeOK
  <2>2. CASE p \in S <=> p \in T
    <3>1. T = S
      BY <1>1, <1>3, <2>2
    <3>. QED
      BY <1>5, <2>2, <3>1 DEF MovesSession
  <2>3. CASE p \in T /\ p \notin S
    <3>1. T = S \union {p}
      BY <1>1, <1>3, <2>3
    <3>. QED
      BY <1>5, <2>3, <3>1 DEF MovesSession
  <2>4. CASE p \in S /\ p \notin T
    <3>1. T = S \ {p}
      BY <1>1, <1>3, <2>4
    <3>2. \E k \in 0 .. 1 : v1'[s] = v1[s] + k
      BY <1>4, <1>5, <2>1, <2>4
    <3>. QED
      BY <2>4, <3>1, <3>2 DEF MovesSession
  <2>. QED
    BY <2>2, <2>3, <2>4
<1>6. ASSUME NEW r \in Requester,
             p \in InRequester(r)' /\ p \notin InRequester(r) =>
               v2[r] < PerRequester /\ v2'[r] = v2[r],
             p \in InRequester(r) /\ p \notin InRequester(r)' =>
               v2'[r] = v2[r] \/ v2'[r] = v2[r] + 1,
             (p \in InRequester(r) <=> p \in InRequester(r)') => v2'[r] = v2[r]
      PROVE  MovesRequester(r)
  <2>. DEFINE S == InRequester(r)
              T == InRequester(r)'
  <2>1. v2[r] \in Nat /\ v2'[r] \in Nat
    BY DEF Delegations!TypeOK
  <2>2. CASE p \in S <=> p \in T
    <3>1. T = S
      BY <1>2, <1>3, <2>2
    <3>. QED
      BY <1>6, <2>2, <3>1 DEF MovesRequester
  <2>3. CASE p \in T /\ p \notin S
    <3>1. T = S \union {p}
      BY <1>2, <1>3, <2>3
    <3>. QED
      BY <1>6, <2>3, <3>1 DEF MovesRequester
  <2>4. CASE p \in S /\ p \notin T
    <3>1. T = S \ {p}
      BY <1>2, <1>3, <2>4
    <3>2. \E k \in 0 .. 1 : v2'[r] = v2[r] + k
      BY <1>4, <1>6, <2>1, <2>4
    <3>. QED
      BY <2>4, <3>1, <3>2 DEF MovesRequester
  <2>. QED
    BY <2>2, <2>3, <2>4
<1>. QED
  BY <1>5, <1>6

(* Every step of a server is a step of each budget, or none.               *)
LEMMA ServersBudget ==
  ASSUME Delegations!DelegateAssumption, Delegations!DelegateInv, Delegations!TypeOK',
         NEW p \in Process, Delegations!Delegation(p) \/ Delegations!Crash(p)
  PROVE  (\A s \in Session : MovesSession(s)) /\ (\A r \in Requester : MovesRequester(r))
<1>1. Delegations!TypeOK /\ (v4[p] \in {"run", "record"} => Delegations!QuotaLeft(p))
  BY DEF Delegations!DelegateInv
<1>2. p \in Process /\ NoId \notin Session /\ NoId \notin Requester
  BY DEF Delegations!DelegateAssumption
<1>3. ASSUME NEW s \in Session
      PROVE  /\ p \in InSession(s)' /\ p \notin InSession(s) =>
                  v1[s] < PerSession /\ v1'[s] = v1[s]
             /\ p \in InSession(s) /\ p \notin InSession(s)' =>
                  v1'[s] = v1[s] \/ v1'[s] = v1[s] + 1
             /\ (p \in InSession(s) <=> p \in InSession(s)') => v1'[s] = v1[s]
  <2>1. CASE Delegations!Begin(p)
    <3>1. v4[p] = "idle" /\ v4'[p] = "count_session" /\ v1' = v1
      BY <1>1, <2>1 DEF Delegations!Begin, Delegations!Goto, Delegations!rows,
                        Delegations!TypeOK
    <3>. QED
      BY <3>1 DEF InSession, Delegations!Inside
  <2>2. CASE Delegations!CountSession(p)
    <3>1. /\ v4[p] = "count_session" /\ v4'[p] = "count_requester" /\ v5'[p] = v5[p]
          /\ v5[p] = s => v7'[p] = v1[s]
          /\ v1' = v1
      BY <1>1, <2>2 DEF Delegations!CountSession, Delegations!Goto, Delegations!rows,
                        Delegations!args, Delegations!TypeOK
    <3>. QED
      BY <3>1 DEF InSession, Delegations!Inside
  <2>3. CASE Delegations!CountRequester(p)
    <3>1. /\ v4[p] = "count_requester" /\ v4'[p] = "check" /\ v5'[p] = v5[p]
          /\ v7'[p] = v7[p] /\ v1' = v1
      BY <1>1, <2>3 DEF Delegations!CountRequester, Delegations!Goto, Delegations!rows,
                        Delegations!args, Delegations!TypeOK
    <3>. QED
      BY <3>1 DEF InSession, Delegations!Inside
  <2>4. CASE Delegations!Check(p) \/ Delegations!Run(p) \/ Delegations!RunRaises(p)
    <3>1. /\ v4[p] \in {"check", "run"} /\ v5'[p] = v5[p]
          /\ v7'[p] = v7[p] /\ v1' = v1
      BY <1>1, <2>4 DEF Delegations!Check, Delegations!Run, Delegations!RunRaises,
                        Delegations!rows, Delegations!args, Delegations!counts,
         Delegations!TypeOK
    <3>. QED
      BY <3>1 DEF InSession, Delegations!Inside
  <2>5. CASE Delegations!Record(p)
    <3>1. /\ v4[p] = "record" /\ v4'[p] = "recount" /\ v5'[p] = v5[p]
          /\ v1'[s] = IF v5[p] = s THEN v1[s] + 1 ELSE v1[s]
      BY <1>1, <2>5 DEF Delegations!Record, Delegations!Goto, Delegations!args,
                        Delegations!TypeOK
    <3>2. v5[p] = s => v7[p] < PerSession
      BY <1>1, <1>2, <3>1 DEF Delegations!QuotaLeft
    <3>. QED
      BY <3>1, <3>2 DEF InSession, Delegations!Inside
  <2>6. CASE Delegations!RecordRefused(p) \/ Delegations!Report(p)
    <3>1. v4[p] \in {"record_refused", "recount"} /\ v4'[p] = "idle" /\ v1' = v1
      BY <1>1, <2>6 DEF Delegations!RecordRefused, Delegations!Report, Delegations!Goto,
                        Delegations!rows, Delegations!TypeOK
    <3>. QED
      BY <3>1 DEF InSession, Delegations!Inside
  <2>7. CASE Delegations!Crash(p)
    <3>1. v4'[p] = "idle" /\ v1' = v1
      BY <1>1, <2>7 DEF Delegations!Crash, Delegations!Goto, Delegations!rows,
                        Delegations!TypeOK
    <3>. QED
      BY <3>1 DEF InSession, Delegations!Inside
  <2>. QED
    BY <2>1, <2>2, <2>3, <2>4, <2>5, <2>6, <2>7 DEF Delegations!Delegation
<1>4. ASSUME NEW r \in Requester
      PROVE  /\ p \in InRequester(r)' /\ p \notin InRequester(r) =>
                  v2[r] < PerRequester /\ v2'[r] = v2[r]
             /\ p \in InRequester(r) /\ p \notin InRequester(r)' =>
                  v2'[r] = v2[r] \/ v2'[r] = v2[r] + 1
             /\ (p \in InRequester(r) <=> p \in InRequester(r)') => v2'[r] = v2[r]
  <2>1. CASE Delegations!Begin(p) \/ Delegations!CountSession(p)
    <3>1. /\ v4[p] \in {"idle", "count_session"}
               /\ v4'[p] \in {"count_session", "count_requester"}
          /\ v2' = v2
      BY <1>1, <2>1 DEF Delegations!Begin, Delegations!CountSession, Delegations!Goto,
                        Delegations!rows, Delegations!TypeOK
    <3>. QED
      BY <3>1 DEF InRequester, Delegations!Inside
  <2>2. CASE Delegations!CountRequester(p)
    <3>1. /\ v4[p] = "count_requester" /\ v4'[p] = "check" /\ v6'[p] = v6[p]
          /\ v6[p] = r => v8'[p] = v2[r]
          /\ v2' = v2
      BY <1>1, <2>2 DEF Delegations!CountRequester, Delegations!Goto, Delegations!rows,
                        Delegations!args, Delegations!TypeOK
    <3>. QED
      BY <3>1 DEF InRequester, Delegations!Inside
  <2>3. CASE Delegations!Check(p) \/ Delegations!Run(p) \/ Delegations!RunRaises(p)
    <3>1. /\ v4[p] \in {"check", "run"} /\ v6'[p] = v6[p]
          /\ v8'[p] = v8[p] /\ v2' = v2
      BY <1>1, <2>3 DEF Delegations!Check, Delegations!Run, Delegations!RunRaises,
                        Delegations!rows, Delegations!args, Delegations!counts,
         Delegations!TypeOK
    <3>. QED
      BY <3>1 DEF InRequester, Delegations!Inside
  <2>4. CASE Delegations!Record(p)
    <3>1. /\ v4[p] = "record" /\ v4'[p] = "recount" /\ v6'[p] = v6[p]
          /\ v2'[r] = IF v6[p] = r THEN v2[r] + 1 ELSE v2[r]
      BY <1>1, <2>4 DEF Delegations!Record, Delegations!Goto, Delegations!args,
                        Delegations!TypeOK
    <3>2. v6[p] = r => v8[p] < PerRequester
      BY <1>1, <1>2, <3>1 DEF Delegations!QuotaLeft
    <3>. QED
      BY <3>1, <3>2 DEF InRequester, Delegations!Inside
  <2>5. CASE Delegations!RecordRefused(p) \/ Delegations!Report(p)
    <3>1. v4[p] \in {"record_refused", "recount"} /\ v4'[p] = "idle" /\ v2' = v2
      BY <1>1, <2>5 DEF Delegations!RecordRefused, Delegations!Report, Delegations!Goto,
                        Delegations!rows, Delegations!TypeOK
    <3>. QED
      BY <3>1 DEF InRequester, Delegations!Inside
  <2>6. CASE Delegations!Crash(p)
    <3>1. v4'[p] = "idle" /\ v2' = v2
      BY <1>1, <2>6 DEF Delegations!Crash, Delegations!Goto, Delegations!rows,
                        Delegations!TypeOK
    <3>. QED
      BY <3>1 DEF InRequester, Delegations!Inside
  <2>. QED
    BY <2>1, <2>2, <2>3, <2>4, <2>5, <2>6 DEF Delegations!Delegation
<1>. QED
  BY <1>1, <1>3, <1>4, ServerMoves

(* No server delegates without a quota.                                    *)
LEMMA QuotaStays ==
  ASSUME Delegations!DelegateInv, NEW p \in Process,
         Delegations!Delegation(p) \/ Delegations!Crash(p)
  PROVE  \A q \in Process : v4'[q] \in {"run", "record"} => Delegations!QuotaLeft(q)'
<1>1. Delegations!TypeOK /\ \A q \in Process : v4[q] \in {"run", "record"}
        => Delegations!QuotaLeft(q)
  BY DEF Delegations!DelegateInv
<1>2. \A q \in Process \ {p} : v4'[q] \in {"run", "record"} => Delegations!QuotaLeft(q)'
  BY <1>1, OthersStay DEF Delegations!QuotaLeft
<1>3. ASSUME v4'[p] \in {"run", "record"} PROVE Delegations!QuotaLeft(p)'
  <2>1. CASE Delegations!Check(p)
    BY <1>1, <1>3, <2>1 DEF Delegations!Check, Delegations!Goto, Delegations!args,
                            Delegations!counts, Delegations!TypeOK, Delegations!QuotaLeft
  <2>2. CASE Delegations!Run(p)
    BY <1>1, <1>3, <2>2 DEF Delegations!Run, Delegations!args, Delegations!counts,
                            Delegations!QuotaLeft
  <2>3. CASE ~(Delegations!Check(p) \/ Delegations!Run(p))
    BY <1>1, <1>3, <2>3 DEF Delegations!Delegation, Delegations!Begin,
                            Delegations!CountSession, Delegations!CountRequester,
       Delegations!RunRaises,
                            Delegations!Record, Delegations!RecordRefused, Delegations!Report,
                            Delegations!Crash, Delegations!Goto, Delegations!TypeOK
  <2>. QED
    BY <2>1, <2>2, <2>3
<1>. QED
  BY <1>2, <1>3

(* A session is charged for what has returned, but for what is between the *)
(* call and its row, or was lost there.                                    *)
Charges(s) ==
  LET charged == v1[s] + Delegations!Cardinality(Delegations!Unrecorded(s))
  IN  charged <= v10[s] /\ (~v11 => charged = v10[s])

LEMMA ChargesStay ==
  ASSUME Delegations!DelegateAssumption, Delegations!DelegateInv, Delegations!TypeOK',
         NEW p \in Process, Delegations!Delegation(p) \/ Delegations!Crash(p),
         NEW s \in Session
  PROVE  Charges(s)'
<1>. DEFINE U == Delegations!Unrecorded(s)
            V == Delegations!Unrecorded(s)'
<1>1. Delegations!TypeOK /\ IsFiniteSet(Process)
  BY DelegateSets DEF Delegations!DelegateInv, Delegations!DelegateAssumption
<1>2. U \subseteq Process /\ V \subseteq Process /\ \A q \in Process \ {p} : q \in V <=> q \in U
  BY OthersStay, <1>1 DEF Delegations!Unrecorded
<1>3. /\ v1[s] + Cardinality(U) <= v10[s]
      /\ ~v11 => v1[s] + Cardinality(U) = v10[s]
  BY DelegateSets DEF Delegations!DelegateInv
<1>4. /\ v1[s] \in Nat /\ v10[s] \in Nat /\ v1'[s] \in Nat /\ v10'[s] \in Nat
      /\ v11 \in BOOLEAN
  BY <1>1 DEF Delegations!TypeOK
<1>5. IsFiniteSet(U) /\ IsFiniteSet(V) /\ Cardinality(U) \in Nat /\ Cardinality(V) \in Nat
  BY <1>1, <1>2, FS_Subset, FS_CardinalityType
<1>6. p \in U <=> v4[p] = "record" /\ v5[p] = s
  BY DEF Delegations!Unrecorded
<1>7. p \in V <=> v4'[p] = "record" /\ v5'[p] = s
  BY DEF Delegations!Unrecorded
<1>8. /\ p \in U /\ p \notin V => Cardinality(V) = Cardinality(U) - 1
      /\ p \notin U /\ p \in V => Cardinality(V) = Cardinality(U) + 1
      /\ (p \in U <=> p \in V) => Cardinality(V) = Cardinality(U)
  <2>1. ASSUME p \in U, p \notin V PROVE Cardinality(V) = Cardinality(U) - 1
    <3>1. V = U \ {p}
      BY <1>2, <2>1
    <3>. QED
      BY <1>5, <2>1, <3>1, FS_RemoveElement
  <2>2. ASSUME p \notin U, p \in V PROVE Cardinality(V) = Cardinality(U) + 1
    <3>1. V = U \union {p}
      BY <1>2, <2>2
    <3>. QED
      BY <1>5, <2>2, <3>1, FS_AddElement
  <2>3. ASSUME p \in U <=> p \in V PROVE Cardinality(V) = Cardinality(U)
    <3>1. V = U
      BY <1>2, <2>3
    <3>. QED
      BY <3>1
  <2>. QED
    BY <2>1, <2>2, <2>3
<1>9. /\ v1'[s] + Cardinality(V) <= v10'[s]
      /\ ~v11' => v1'[s] + Cardinality(V) = v10'[s]
  <2>1. CASE Delegations!Run(p)
    <3>1. /\ v4[p] = "run" /\ v4'[p] = "record" /\ v5'[p] = v5[p]
          /\ v1' = v1 /\ v11' = v11
          /\ v10'[s] = IF v5[p] = s THEN v10[s] + 1 ELSE v10[s]
      BY <1>1, <2>1 DEF Delegations!Run, Delegations!Goto, Delegations!rows, Delegations!args,
                        Delegations!TypeOK
    <3>. HIDE DEF U, V
    <3>. QED
      BY <1>3, <1>4, <1>5, <1>6, <1>7, <1>8, <3>1
  <2>2. CASE Delegations!Record(p)
    <3>1. /\ v4[p] = "record" /\ v4'[p] = "recount" /\ v5'[p] = v5[p]
          /\ v10' = v10 /\ v11' = v11
          /\ v1'[s] = IF v5[p] = s THEN v1[s] + 1 ELSE v1[s]
      BY <1>1, <2>2 DEF Delegations!Record, Delegations!Goto, Delegations!args,
                        Delegations!TypeOK
    <3>. HIDE DEF U, V
    <3>. QED
      BY <1>3, <1>4, <1>5, <1>6, <1>7, <1>8, <3>1
  <2>3. CASE Delegations!Crash(p)
    <3>1. v4'[p] = "idle" /\ v11' = TRUE /\ v10' = v10 /\ v1' = v1
      BY <1>1, <2>3 DEF Delegations!Crash, Delegations!Goto, Delegations!rows,
                        Delegations!TypeOK
    <3>. HIDE DEF U, V
    <3>. QED
      BY <1>3, <1>4, <1>5, <1>6, <1>7, <1>8, <3>1
  <2>4. CASE ~(Delegations!Run(p) \/ Delegations!Record(p) \/ Delegations!Crash(p))
    <3>1. /\ v4[p] # "record" /\ v4'[p] # "record"
          /\ v11' = v11 /\ v10' = v10 /\ v1' = v1
      BY <1>1, <2>4 DEF Delegations!Delegation, Delegations!Begin, Delegations!CountSession,
                        Delegations!CountRequester, Delegations!Check, Delegations!RunRaises,
                        Delegations!RecordRefused, Delegations!Report, Delegations!Goto,
                        Delegations!rows, Delegations!TypeOK
    <3>. HIDE DEF U, V
    <3>. QED
      BY <1>3, <1>4, <1>5, <1>6, <1>7, <1>8, <3>1
  <2>. QED
    BY <2>1, <2>2, <2>3, <2>4
<1>. QED
  BY <1>9, DelegateSets DEF Charges

(* At first nobody is inside and nothing is charged.                       *)
LEMMA DelegateStarts ==
  ASSUME Delegations!DelegateAssumption, Delegations!Init
  PROVE  Delegations!DelegateInv /\ Delegations!SessionsStart /\ Delegations!RequestersStart
<1>1. Delegations!TypeOK
  <2>1. 0 \in 0 .. MaxDelegations /\ 0 \in Nat
    BY DEF Delegations!DelegateAssumption
  <2>. QED
    BY <2>1 DEF Delegations!Init, Delegations!TypeOK, Delegations!Labels
<1>2. \A p \in Process : v4[p] = "idle"
  BY DEF Delegations!Init
<1>3. /\ \A s \in Session : v1[s] = 0 /\ v10[s] = 0 /\ InSession(s) = {}
           /\ Delegations!Unrecorded(s) = {}
      /\ \A r \in Requester : v2[r] = 0 /\ InRequester(r) = {}
  BY <1>2 DEF Delegations!Init, InSession, InRequester, Delegations!Unrecorded,
              Delegations!Inside
<1>4. Cardinality({}) = 0 /\ Cardinality(Process) \in Nat \ {0}
  BY DelegateSets, FS_EmptySet, FS_CardinalityType DEF Delegations!DelegateAssumption
<1>5. PerSession \in Nat /\ PerRequester \in Nat
  BY DEF Delegations!DelegateAssumption
<1>6. Delegations!QuotaOvershoot
  <2>1. ASSUME NEW s \in Session PROVE Delegations!SessionBudget(s)!Overshoot
    <3>. DEFINE I == InSession(s)
    <3>0. v1[s] = 0 /\ I = {}
      BY <1>3
    <3>. HIDE DEF I
    <3>1. v1[s] + 1 * Cardinality(I) <= PerSession - 1 + 1 * Cardinality(Process)
      BY <1>4, <1>5, <3>0
    <3>. QED
      BY <3>1, DelegateSets DEF Delegations!SessionBudget!Overshoot, I, InSession
  <2>2. ASSUME NEW r \in Requester PROVE Delegations!RequesterBudget(r)!Overshoot
    <3>. DEFINE I == InRequester(r)
    <3>0. v2[r] = 0 /\ I = {}
      BY <1>3
    <3>. HIDE DEF I
    <3>1. v2[r] + 1 * Cardinality(I) <= PerRequester - 1 + 1 * Cardinality(Process)
      BY <1>4, <1>5, <3>0
    <3>. QED
      BY <3>1, DelegateSets DEF Delegations!RequesterBudget!Overshoot, I, InRequester
  <2>. QED
    BY <2>1, <2>2 DEF Delegations!QuotaOvershoot
<1>7. \A s \in Session : Charges(s)
  BY <1>3, <1>4, DelegateSets DEF Charges
<1>8. Delegations!SessionsStart /\ Delegations!RequestersStart
  BY <1>3 DEF Delegations!SessionsStart, Delegations!RequestersStart,
              Delegations!SessionBudget!Init, Delegations!RequesterBudget!Init,
              InSession, InRequester
<1>. QED
  BY <1>1, <1>2, <1>6, <1>7, <1>8 DEF Delegations!DelegateInv, Charges

(* And every step keeps the budgets.                                       *)
LEMMA DelegateSteps ==
  ASSUME Delegations!DelegateAssumption, Delegations!DelegateInv,
         [Delegations!Next]_(Delegations!vars)
  PROVE  Delegations!DelegateInv' /\ Delegations!SessionsStep /\ Delegations!RequestersStep
<1>1. Delegations!TypeOK /\ Delegations!TypeOK' /\ Delegations!QuotaOvershoot
        /\ \A s \in Session : Charges(s)
  BY DelegateTypes DEF Delegations!DelegateInv, Charges
<1>2. CASE UNCHANGED Delegations!vars
  <2>1. (\A s \in Session : MovesSession(s)) /\ (\A r \in Requester : MovesRequester(r))
    BY <1>2 DEF Delegations!vars, MovesSession, MovesRequester, InSession, InRequester,
                Delegations!Inside
  <2>2. Delegations!QuotaOvershoot'
    BY <1>1, <2>1, OvershootStays
  <2>3. \A s \in Session : Charges(s)'
    BY <1>1, <1>2 DEF Delegations!vars, Charges, Delegations!Unrecorded
  <2>4. \A p \in Process : v4'[p] \in {"run", "record"} => Delegations!QuotaLeft(p)'
    BY <1>2 DEF Delegations!DelegateInv, Delegations!vars, Delegations!QuotaLeft
  <2>. QED
    BY <1>1, <2>1, <2>2, <2>3, <2>4, MovesAreSteps DEF Delegations!DelegateInv, Charges
<1>3. ASSUME NEW p \in Process, Delegations!Delegation(p) \/ Delegations!Crash(p)
      PROVE  Delegations!DelegateInv' /\ Delegations!SessionsStep /\ Delegations!RequestersStep
  <2>1. (\A s \in Session : MovesSession(s)) /\ (\A r \in Requester : MovesRequester(r))
    BY <1>1, <1>3, ServersBudget
  <2>2. Delegations!QuotaOvershoot'
    BY <1>1, <2>1, OvershootStays
  <2>3. \A s \in Session : Charges(s)'
    BY <1>1, <1>3, ChargesStay
  <2>4. \A q \in Process : v4'[q] \in {"run", "record"} => Delegations!QuotaLeft(q)'
    BY <1>3, QuotaStays
  <2>. QED
    BY <1>1, <2>1, <2>2, <2>3, <2>4, MovesAreSteps DEF Delegations!DelegateInv, Charges
<1>. QED
  BY <1>2, <1>3 DEF Delegations!Next, Delegations!Stopped

(* What the invariant is for.                                              *)
LEMMA DelegateHolds ==
  ASSUME Delegations!DelegateAssumption, Delegations!DelegateInv
  PROVE  Delegations!TypeOK /\ Delegations!ChargedForWork /\ Delegations!QuotaOvershoot
<1>1. ASSUME NEW s \in Session
      PROVE  v1[s] <= v10[s] /\ (Delegations!AtRest /\ ~v11 => v1[s] = v10[s])
  <2>1. Charges(s)
    BY DEF Delegations!DelegateInv, Charges
  <2>2. IsFiniteSet(Delegations!Unrecorded(s)) /\ Cardinality(Delegations!Unrecorded(s)) \in Nat
    <3>1. Delegations!Unrecorded(s) \in SUBSET Process
      BY DEF Delegations!Unrecorded
    <3>. QED
      BY <3>1, DelegateSets, FS_Subset, FS_CardinalityType DEF Delegations!DelegateAssumption
  <2>3. v1[s] \in Nat /\ v10[s] \in Nat
    BY DEF Delegations!DelegateInv, Delegations!TypeOK
  <2>4. Delegations!AtRest => Cardinality(Delegations!Unrecorded(s)) = 0
    <3>1. Delegations!AtRest => Delegations!Unrecorded(s) = {}
      BY DEF Delegations!AtRest, Delegations!Unrecorded
    <3>. QED
      BY <3>1, FS_EmptySet
  <2>. QED
    BY <2>1, <2>2, <2>3, <2>4, DelegateSets DEF Charges
<1>. QED
  BY <1>1 DEF Delegations!DelegateInv, Delegations!ChargedForWork


-----------------------------------------------------------------------------
(***************************************************************************)
(* The egress ledger and its evidence.                                     *)
(***************************************************************************)
(* Sets and sums are those of the lemmas.                                  *)
LEMMA EgressSets ==
  ASSUME NEW u \in Egresses
  PROVE  /\ \A S : Fetches(u)!IsFiniteSet(S) <=> IsFiniteSet(S)
         /\ \A S : Fetches(u)!Cardinality(S) = Cardinality(S)
         /\ \A S : Fetches(u)!BytesBudget!Cardinality(S) = Cardinality(S)
         /\ \A S : Fetches(u)!HostBudget!Cardinality(S) = Cardinality(S)
BY DEF Fetches!IsFiniteSet, IsFiniteSet, Fetches!Cardinality, Cardinality,
       Fetches!BytesBudget!Cardinality, Fetches!HostBudget!Cardinality

LEMMA EgressSums ==
  ASSUME NEW u \in Egresses
  PROVE  \A f : Fetches(u)!SumFunction(f) = SumFunctionOnSet(f, DOMAIN f)
<1>1. \A f, S : Fetches(u)!SumFunctionOnSet(f, S) = SumFunctionOnSet(f, S)
  BY DEF Fetches!SumFunctionOnSet, SumFunctionOnSet, Fetches!FoldFunctionOnSet,
         FoldFunctionOnSet,
         Fetches!MapThenFoldSet, MapThenFoldSet
<1>. QED
  BY <1>1 DEF Fetches!SumFunction

(* A ledger l of the hosts D, and m with k bytes more of the host a.       *)
Charged(l, D, a, k, m) ==
  /\ IsFiniteSet(D) /\ k \in Nat /\ \A h \in D : l[h] \in Nat
  /\ \A h \in D \union {a} : m[h] = (IF h \in D THEN l[h] ELSE 0) + (IF h = a THEN k ELSE 0)

GrownBy(l, D, a, k, m) ==
  /\ SumFunctionOnSet(l, D) \in Nat
  /\ SumFunctionOnSet(m, D \union {a}) = SumFunctionOnSet(l, D) + k
  /\ \A h \in D \union {a} : m[h] \in Nat

LEMMA LedgerAdds ==
  ASSUME NEW l, NEW D, NEW a, NEW k, NEW m, Charged(l, D, a, k, m)
  PROVE  GrownBy(l, D, a, k, m)
<1>. USE DEF Charged
<1>1. \A h \in D \union {a} : m[h] \in Nat
  OBVIOUS
<1>2. SumFunctionOnSet(l, D) \in Nat
  BY SumOfNats
<1>3. CASE a \in D
  <2>1. D \union {a} = D
    BY <1>3
  <2>2. \A h \in D : h # a => l[h] = m[h]
    OBVIOUS
  <2>3. \A h \in D : l[h] \in Int /\ m[h] \in Int
    BY <1>1
  <2>4. m[a] = l[a] + k /\ l[a] \in Nat
    BY <1>3
  <2>5. SumFunctionOnSet(m, D) = SumFunctionOnSet(l, D) + (m[a] - l[a])
    BY <1>3, <2>2, <2>3, SumMoves
  <2>. QED
    <3>. DEFINE E == D \union {a}
    <3>1. E = D
      BY <2>1
    <3>. HIDE DEF E
    <3>2. SumFunctionOnSet(m, E) = SumFunctionOnSet(l, D) + k
      BY <1>2, <2>4, <2>5, <3>1
    <3>. QED
      BY <1>1, <1>2, <3>2 DEF GrownBy, E
<1>4. CASE a \notin D
  <2>1. m[a] = k
    BY <1>4
  <2>2. \A h \in D : m[h] = l[h]
    BY <1>4
  <2>3. SumFunctionOnSet(m, D) = SumFunctionOnSet(l, D)
    BY <2>2, SumDepends
  <2>4. \A h \in D \union {a} : m[h] \in Int
    BY <1>1
  <2>5. SumFunctionOnSet(m, D \union {a}) = m[a] + SumFunctionOnSet(m, D)
    BY <1>4, <2>4, SumWith
  <2>. QED
    BY <1>1, <1>2, <2>1, <2>3, <2>5 DEF GrownBy
<1>. QED
  BY <1>3, <1>4

(* The numbers of the ledger.                                              *)
LEMMA LedgerNumbers ==
  ASSUME NEW u \in Egresses, Fetches(u)!EgressAssumption, Fetches(u)!TypeOK
  PROVE  /\ IsFiniteSet(DOMAIN v1) /\ Fetches(u)!Total = SumFunctionOnSet(v1, DOMAIN v1)
         /\ Fetches(u)!Hosts = Cardinality(DOMAIN v1) /\ Fetches(u)!Total \in Nat
              /\ Fetches(u)!Hosts \in Nat
<1>1. IsFiniteSet(DOMAIN v1)
  BY EgressSets, FS_Subset DEF Fetches!EgressAssumption, Fetches!TypeOK
<1>2. Fetches(u)!Total = SumFunctionOnSet(v1, DOMAIN v1)
        /\ Fetches(u)!Hosts = Cardinality(DOMAIN v1)
  BY EgressSums, EgressSets DEF Fetches!Total, Fetches!Hosts
<1>3. SumFunctionOnSet(v1, DOMAIN v1) \in Nat
  BY <1>1, SumOfNats DEF Fetches!TypeOK
<1>. QED
  BY <1>1, <1>2, <1>3, FS_CardinalityType

LEMMA RecordAdds ==
  ASSUME NEW u \in Egresses, Fetches(u)!EgressAssumption, Fetches(u)!TypeOK,
         NEW f \in EgressOf[u].fetcher, Fetches(u)!Record(f)
  PROVE  /\ Fetches(u)!Total' = Fetches(u)!Total + v8[f]
         /\ DOMAIN v1' = DOMAIN v1 \union {v5[f]}
         /\ Fetches(u)!Hosts' =
              IF v5[f] \in DOMAIN v1 THEN Fetches(u)!Hosts ELSE Fetches(u)!Hosts + 1
         /\ \A h \in DOMAIN v1' : v1'[h] \in Nat
<1>. DEFINE D == DOMAIN v1
<1>1. /\ v5[f] \in EgressOf[u].host /\ v8[f] \in Nat /\ \A h \in D : v1[h] \in Nat
  BY DEF Fetches!TypeOK, Fetches!Content, Fetches!EgressAssumption
<1>2. /\ DOMAIN v1' = D \union {v5[f]}
      /\ \A h \in D \union {v5[f]} :
           v1'[h] = (IF h \in D THEN v1[h] ELSE 0) + (IF h = v5[f] THEN v8[f] ELSE 0)
  BY DEF Fetches!Record
<1>3. IsFiniteSet(D) /\ Fetches(u)!Total = SumFunctionOnSet(v1, D)
        /\ Fetches(u)!Hosts = Cardinality(D)
  BY LedgerNumbers
<1>. HIDE DEF D
<1>4. /\ SumFunctionOnSet(v1', D \union {v5[f]}) = SumFunctionOnSet(v1, D) + v8[f]
      /\ \A h \in D \union {v5[f]} : v1'[h] \in Nat
  <2>1. Charged(v1, D, v5[f], v8[f], v1')
    BY <1>1, <1>2, <1>3 DEF Charged
  <2>2. GrownBy(v1, D, v5[f], v8[f], v1')
    BY <2>1, LedgerAdds
  <2>. QED
    BY <2>2 DEF GrownBy
<1>5. Fetches(u)!Total' = SumFunctionOnSet(v1', DOMAIN v1')
        /\ Fetches(u)!Hosts' = Cardinality(DOMAIN v1')
  BY EgressSums, EgressSets DEF Fetches!Total, Fetches!Hosts
<1>6. Cardinality(D \union {v5[f]}) = IF v5[f] \in D THEN Cardinality(D) ELSE Cardinality(D) + 1
  BY <1>3, FS_AddElement
<1>. QED
  BY <1>2, <1>3, <1>4, <1>5, <1>6 DEF D

(* A transfer without a page wastes what it has received.                  *)
LEMMA WastesBytes ==
  ASSUME NEW u \in Egresses, Fetches(u)!EgressAssumption, NEW f \in EgressOf[u].fetcher,
         Fetches(u)!Abort(f) \/ Fetches(u)!HttpError(f) \/ Fetches(u)!Break(f)
  PROVE  \E c \in Nat : Fetches(u)!Waste(f, c)
<1>1. EgressOf[u].bytes \in Nat /\ EgressOf[u].bytes + 1 \in Nat
        /\ 0 .. EgressOf[u].bytes + 1 \subseteq Nat
      /\ Fetches(u)!Content \subseteq Nat
  BY DEF Fetches!EgressAssumption, Fetches!Content
<1>2. CASE Fetches(u)!Abort(f)
  BY <1>1, <1>2 DEF Fetches!Abort
<1>3. CASE Fetches(u)!HttpError(f)
  BY <1>1, <1>3 DEF Fetches!HttpError
<1>4. CASE Fetches(u)!Break(f)
  BY <1>1, <1>4 DEF Fetches!Break
<1>. QED
  BY <1>2, <1>3, <1>4

(* The types hold after each step.                                         *)
LEMMA EgressTypes ==
  ASSUME NEW u \in Egresses, Fetches(u)!EgressAssumption, Fetches(u)!TypeOK,
         [Fetches(u)!Next]_(Fetches(u)!vars)
  PROVE  Fetches(u)!TypeOK'
<1>1. CASE UNCHANGED Fetches(u)!vars
  BY <1>1 DEF Fetches!TypeOK, Fetches!vars, Fetches!books, Fetches!files, Fetches!call
<1>. USE DEF Fetches!Goto, Fetches!Labels, Fetches!Transfer
<1>2. ASSUME NEW f \in EgressOf[u].fetcher, Fetches(u)!Fetch(f) \/ Fetches(u)!Crash(f)
      PROVE Fetches(u)!TypeOK'
  <2>0. /\ EgressOf[u].bytes \in Nat /\ EgressOf[u].fetches \in Nat
             /\ v5[f] \in EgressOf[u].host /\ v8[f] \in Fetches(u)!Content
        /\ Fetches(u)!Content \subseteq Nat
    BY DEF Fetches!EgressAssumption, Fetches!TypeOK, Fetches!Content
  <2>1. CASE Fetches(u)!Begin(f)
    <3>1. v9' \in 0 .. EgressOf[u].fetches
      BY <2>0, <2>1 DEF Fetches!TypeOK, Fetches!Begin
    <3>. QED
      BY <2>1, <3>1 DEF Fetches!TypeOK, Fetches!Begin, Fetches!books, Fetches!files
  <2>2. CASE Fetches(u)!Stats(f)
    BY <2>2 DEF Fetches!TypeOK, Fetches!Stats, Fetches!books, Fetches!files, Fetches!call
  <2>3. CASE Fetches(u)!StatsFail(f)
    BY <2>3 DEF Fetches!TypeOK, Fetches!StatsFail, Fetches!books, Fetches!files, Fetches!call
  <2>4. CASE Fetches(u)!SeenHost(f)
    BY <2>4 DEF Fetches!TypeOK, Fetches!SeenHost, Fetches!books, Fetches!files
  <2>5. CASE Fetches(u)!Lookup(f)
    BY <2>5 DEF Fetches!TypeOK, Fetches!Lookup, Fetches!books, Fetches!files, Fetches!call
  <2>6. CASE Fetches(u)!Download(f)
    <3>1. v10' \in Nat
      BY <2>0, <2>6 DEF Fetches!TypeOK, Fetches!Download
    <3>. QED
      BY <2>6, <3>1 DEF Fetches!TypeOK, Fetches!Download, Fetches!files
  <2>7. CASE Fetches(u)!Abort(f) \/ Fetches(u)!HttpError(f) \/ Fetches(u)!Break(f)
    <3>1. PICK c \in Nat : Fetches(u)!Waste(f, c)
      BY <2>7, WastesBytes
    <3>2. v10' \in Nat /\ v11' \in Nat
      BY <3>1 DEF Fetches!TypeOK, Fetches!Waste
    <3>. QED
      BY <3>1, <3>2 DEF Fetches!TypeOK, Fetches!Waste, Fetches!files, Fetches!call
  <2>9. CASE Fetches(u)!TruncateBody(f)
    BY <2>0, <2>9 DEF Fetches!TypeOK, Fetches!TruncateBody, Fetches!books, Fetches!call,
                      Fetches!File
  <2>10. CASE Fetches(u)!FillBody(f)
    BY <2>0, <2>10 DEF Fetches!TypeOK, Fetches!FillBody, Fetches!books, Fetches!call,
                       Fetches!File
  <2>11. CASE Fetches(u)!TruncateMeta(f)
    <3>1. [file |-> "torn", of |-> v8[f]] \in [file : Fetches(u)!File, of : Fetches(u)!Content]
      BY <2>0 DEF Fetches!File
    <3>. QED
      BY <2>0, <2>11, <3>1 DEF Fetches!TypeOK, Fetches!TruncateMeta, Fetches!books, Fetches!call
  <2>12. CASE Fetches(u)!FillMeta(f)
    <3>1. \E file \in {"whole", "torn"} : v2' = [v2 EXCEPT ![v5[f]] = [file |-> file,
                                                                       of |-> v8[f]]]
      BY <2>12 DEF Fetches!FillMeta
    <3>2. PICK file \in {"whole", "torn"} : v2' = [v2 EXCEPT ![v5[f]] = [file |-> file,
                                                                         of |-> v8[f]]]
      BY <3>1
    <3>3. [file |-> file, of |-> v8[f]] \in [file : Fetches(u)!File, of : Fetches(u)!Content]
      BY <2>0 DEF Fetches!File
    <3>4. v2' \in [EgressOf[u].host -> [file : Fetches(u)!File, of : Fetches(u)!Content]]
      BY <2>0, <3>2, <3>3 DEF Fetches!TypeOK
    <3>. QED
      BY <2>12, <3>4 DEF Fetches!TypeOK, Fetches!FillMeta, Fetches!books, Fetches!call
  <2>13. CASE Fetches(u)!Record(f)
    <3>1. DOMAIN v1' \subseteq EgressOf[u].host /\ \A h \in DOMAIN v1' : v1'[h] \in Nat
      BY <2>0, <2>13, RecordAdds DEF Fetches!TypeOK
    <3>. QED
      BY <2>13, <3>1 DEF Fetches!TypeOK, Fetches!Record, Fetches!files, Fetches!call
  <2>14. CASE Fetches(u)!RecordFails(f)
    BY <2>14 DEF Fetches!TypeOK, Fetches!RecordFails, Fetches!books, Fetches!files, Fetches!call
  <2>15. CASE Fetches(u)!Crash(f)
    BY <2>15 DEF Fetches!TypeOK, Fetches!Crash, Fetches!books, Fetches!files, Fetches!call
  <2>. QED
    BY <1>2, <2>1, <2>2, <2>3, <2>4, <2>5, <2>6, <2>7, <2>9, <2>10, <2>11, <2>12, <2>13,
       <2>14, <2>15 DEF Fetches!Fetch
<1>. QED
  BY <1>1, <1>2 DEF Fetches!Next, Fetches!Stopped

(* A step of a thread changes nothing of another.                          *)
LEMMA FetchersStay ==
  ASSUME NEW u \in Egresses, Fetches(u)!TypeOK, NEW f \in EgressOf[u].fetcher,
         Fetches(u)!Fetch(f) \/ Fetches(u)!Crash(f)
  PROVE  \A g \in EgressOf[u].fetcher \ {f} : /\ v4'[g] = v4[g] /\ v5'[g] = v5[g]
                                              /\ v7'[g] = v7[g] /\ v8'[g] = v8[g]
<1>. USE DEF Fetches!TypeOK, Fetches!Goto, Fetches!call
<1>1. CASE Fetches(u)!Begin(f) \/ Fetches(u)!Stats(f) \/ Fetches(u)!StatsFail(f)
             \/ Fetches(u)!SeenHost(f) \/ Fetches(u)!Lookup(f)
  BY <1>1 DEF Fetches!Begin, Fetches!Stats, Fetches!StatsFail, Fetches!SeenHost, Fetches!Lookup
<1>2. CASE Fetches(u)!Download(f) \/ Fetches(u)!TruncateBody(f) \/ Fetches(u)!FillBody(f)
  BY <1>2 DEF Fetches!Download, Fetches!TruncateBody, Fetches!FillBody
<1>4. CASE Fetches(u)!Abort(f) \/ Fetches(u)!HttpError(f) \/ Fetches(u)!Break(f)
  BY <1>4 DEF Fetches!Abort, Fetches!HttpError, Fetches!Break, Fetches!Waste
<1>3. CASE Fetches(u)!TruncateMeta(f) \/ Fetches(u)!FillMeta(f) \/ Fetches(u)!Record(f)
             \/ Fetches(u)!RecordFails(f) \/ Fetches(u)!Crash(f)
  BY <1>3 DEF Fetches!TruncateMeta, Fetches!FillMeta, Fetches!Record, Fetches!RecordFails,
              Fetches!Crash
<1>. QED
  BY <1>1, <1>2, <1>3, <1>4 DEF Fetches!Fetch

(* The bytes in hand move by what the thread does with its own.            *)
LEMMA HeldMoves ==
  ASSUME NEW u \in Egresses, Fetches(u)!EgressAssumption, Fetches(u)!TypeOK,
         Fetches(u)!TypeOK', NEW f \in EgressOf[u].fetcher,
         \A g \in EgressOf[u].fetcher \ {f} : v4'[g] = v4[g] /\ v8'[g] = v8[g]
  PROVE  /\ Fetches(u)!Held \in Nat /\ Fetches(u)!InHand(f) \in Nat
              /\ Fetches(u)!InHand(f)' \in Nat
         /\ Fetches(u)!Held' = Fetches(u)!Held + (Fetches(u)!InHand(f)' - Fetches(u)!InHand(f))
<1>. DEFINE x == [g \in EgressOf[u].fetcher |-> Fetches(u)!InHand(g)]
            y == [g \in EgressOf[u].fetcher |-> Fetches(u)!InHand(g)']
<1>1. \A g \in EgressOf[u].fetcher : Fetches(u)!InHand(g) \in Nat
        /\ Fetches(u)!InHand(g)' \in Nat
  <2>1. Fetches(u)!Content \subseteq Nat
    BY DEF Fetches!Content, Fetches!EgressAssumption
  <2>2. \A g \in EgressOf[u].fetcher : v8[g] \in Nat /\ v8'[g] \in Nat
    BY <2>1 DEF Fetches!TypeOK
  <2>. QED
    BY <2>2 DEF Fetches!InHand
<1>2. \A g \in EgressOf[u].fetcher : x[g] \in Nat /\ y[g] \in Nat /\ x[g] \in Int
        /\ y[g] \in Int
  BY <1>1
<1>3. \A g \in EgressOf[u].fetcher : g # f => x[g] = y[g]
  BY DEF Fetches!InHand
<1>4. Fetches(u)!Held = SumFunctionOnSet(x, EgressOf[u].fetcher)
        /\ Fetches(u)!Held' = SumFunctionOnSet(y, EgressOf[u].fetcher)
  BY EgressSums DEF Fetches!Held
<1>5. x[f] = Fetches(u)!InHand(f) /\ y[f] = Fetches(u)!InHand(f)'
  OBVIOUS
<1>6. IsFiniteSet(EgressOf[u].fetcher)
  BY EgressSets DEF Fetches!EgressAssumption
<1>. HIDE DEF x, y
<1>7. Fetches(u)!Held \in Nat
  BY <1>2, <1>4, <1>6, SumOfNats
<1>8. Fetches(u)!Held' = Fetches(u)!Held + (y[f] - x[f])
  BY <1>2, <1>3, <1>4, <1>6, SumMoves
<1>. QED
  BY <1>1, <1>5, <1>7, <1>8

(* What a step does to the bytes of its thread, of the ledger and of what  *)
(* has been pulled.                                                        *)
Balances(u, f) ==
  \/ v12' = v12
       /\ Fetches(u)!Total' + v11' + Fetches(u)!InHand(f)' + v10 =
            Fetches(u)!Total + v11 + Fetches(u)!InHand(f) + v10'
  \/ v12' = TRUE
       /\ Fetches(u)!Total' + v11' + Fetches(u)!InHand(f)' + v10
            <= Fetches(u)!Total + v11 + Fetches(u)!InHand(f) + v10'

LEMMA FetchBalances ==
  ASSUME NEW u \in Egresses, Fetches(u)!EgressAssumption, Fetches(u)!TypeOK,
         Fetches(u)!TypeOK', NEW f \in EgressOf[u].fetcher,
         Fetches(u)!Fetch(f) \/ Fetches(u)!Crash(f)
  PROVE  Balances(u, f)
<1>1. /\ v8[f] \in Nat /\ v8'[f] \in Nat /\ v11 \in Nat /\ v10 \in Nat
           /\ Fetches(u)!Total \in Nat
      /\ EgressOf[u].bytes \in Nat
  <2>1. Fetches(u)!Content \subseteq Nat /\ EgressOf[u].bytes \in Nat
    BY DEF Fetches!Content, Fetches!EgressAssumption
  <2>2. v8[f] \in Fetches(u)!Content /\ v8'[f] \in Fetches(u)!Content /\ v11 \in Nat
          /\ v10 \in Nat
    BY DEF Fetches!TypeOK
  <2>. QED
    BY <2>1, <2>2, LedgerNumbers
<1>2. v1' = v1 => Fetches(u)!Total' = Fetches(u)!Total
  BY DEF Fetches!Total
<1>3. CASE Fetches(u)!Begin(f) \/ Fetches(u)!Stats(f) \/ Fetches(u)!StatsFail(f)
             \/ Fetches(u)!SeenHost(f) \/ Fetches(u)!Lookup(f)
  <2>1. v4[f] \in {"idle", "totals", "host", "lookup", "get"}
          /\ v4'[f] \in {"idle", "totals", "host", "lookup", "get"}
    BY <1>3 DEF Fetches!Begin, Fetches!Stats, Fetches!StatsFail, Fetches!SeenHost,
                Fetches!Lookup, Fetches!Goto, Fetches!TypeOK
  <2>2. /\ v1' = v1 /\ v11' = v11 /\ v10' = v10
        /\ v12' = v12 \/ v12' = TRUE
    BY <1>3 DEF Fetches!Begin, Fetches!Stats, Fetches!StatsFail, Fetches!SeenHost,
                Fetches!Lookup, Fetches!books
  <2>. QED
    BY <1>1, <1>2, <2>1, <2>2 DEF Balances, Fetches!InHand
<1>4. CASE Fetches(u)!Download(f)
  <2>1. /\ v4[f] = "get" /\ v4'[f] = "body" /\ v1' = v1 /\ v11' = v11 /\ v12' = v12
        /\ v10' = v10 + v8'[f]
    BY <1>4 DEF Fetches!Download, Fetches!Goto, Fetches!TypeOK
  <2>. QED
    BY <1>1, <1>2, <2>1 DEF Balances, Fetches!InHand
<1>5. CASE Fetches(u)!Abort(f) \/ Fetches(u)!HttpError(f) \/ Fetches(u)!Break(f)
  <2>1. PICK c \in Nat : Fetches(u)!Waste(f, c)
    BY <1>5, WastesBytes
  <2>2. /\ v4[f] = "get" /\ v4'[f] = "idle" /\ v1' = v1 /\ v12' = v12
        /\ v10' = v10 + c /\ v11' = v11 + c
    BY <2>1 DEF Fetches!Waste, Fetches!Goto, Fetches!TypeOK
  <2>. QED
    BY <1>1, <1>2, <2>2 DEF Balances, Fetches!InHand
<1>6. CASE Fetches(u)!TruncateBody(f) \/ Fetches(u)!FillBody(f)
             \/ Fetches(u)!TruncateMeta(f) \/ Fetches(u)!FillMeta(f)
  <2>1. /\ v4[f] \in {"body", "fill_body", "meta", "fill_meta"}
        /\ v4'[f] \in {"fill_body", "meta", "fill_meta", "record"}
    BY <1>6 DEF Fetches!TruncateBody, Fetches!FillBody, Fetches!TruncateMeta,
                Fetches!FillMeta, Fetches!Goto, Fetches!TypeOK
  <2>2. v1' = v1 /\ v11' = v11 /\ v10' = v10 /\ v8' = v8 /\ v12' = v12
    BY <1>6 DEF Fetches!TruncateBody, Fetches!FillBody, Fetches!TruncateMeta,
                Fetches!FillMeta, Fetches!books, Fetches!call
  <2>. QED
    BY <1>1, <1>2, <2>1, <2>2 DEF Balances, Fetches!InHand
<1>7. CASE Fetches(u)!Record(f)
  <2>1. /\ v4[f] = "record" /\ v4'[f] = "idle" /\ v11' = v11 /\ v10' = v10 /\ v12' = v12
        /\ Fetches(u)!Total' = Fetches(u)!Total + v8[f]
    BY <1>7, RecordAdds DEF Fetches!Record, Fetches!Goto, Fetches!TypeOK
  <2>. QED
    BY <1>1, <2>1 DEF Balances, Fetches!InHand
<1>8. CASE Fetches(u)!RecordFails(f) \/ Fetches(u)!Crash(f)
  <2>1. /\ v4'[f] = "idle" /\ v1' = v1 /\ v11' = v11 /\ v10' = v10 /\ v12' = TRUE
    BY <1>8 DEF Fetches!RecordFails, Fetches!Crash, Fetches!Goto, Fetches!TypeOK, Fetches!books
  <2>2. Fetches(u)!InHand(f) \in Nat /\ Fetches(u)!InHand(f)' = 0
    BY <1>1, <2>1 DEF Fetches!InHand
  <2>3. Fetches(u)!Total' + v11' + Fetches(u)!InHand(f)' + v10
          <= Fetches(u)!Total + v11 + Fetches(u)!InHand(f) + v10'
    BY <1>1, <1>2, <2>1, <2>2
  <2>. QED
    BY <2>1, <2>3 DEF Balances
<1>. QED
  BY <1>3, <1>4, <1>5, <1>6, <1>7, <1>8 DEF Fetches!Fetch

LEMMA AccountsStay ==
  ASSUME NEW u \in Egresses, Fetches(u)!EgressAssumption, Fetches(u)!TypeOK,
         Fetches(u)!TypeOK', Fetches(u)!Accounted,
         NEW f \in EgressOf[u].fetcher, Fetches(u)!Fetch(f) \/ Fetches(u)!Crash(f)
  PROVE  Fetches(u)!Accounted'
<1>1. /\ Fetches(u)!Held \in Nat /\ Fetches(u)!InHand(f) \in Nat
           /\ Fetches(u)!InHand(f)' \in Nat
      /\ Fetches(u)!Held' = Fetches(u)!Held + (Fetches(u)!InHand(f)' - Fetches(u)!InHand(f))
  BY FetchersStay, HeldMoves
<1>2. Fetches(u)!Total \in Nat /\ Fetches(u)!Total' \in Nat
  <2>1. IsFiniteSet(DOMAIN v1') /\ Fetches(u)!Total' = SumFunctionOnSet(v1', DOMAIN v1')
    <3>1. DOMAIN v1' \in SUBSET EgressOf[u].host
      BY DEF Fetches!TypeOK
    <3>. QED
      BY <3>1, EgressSets, EgressSums, FS_Subset DEF Fetches!EgressAssumption, Fetches!Total
  <2>2. \A h \in DOMAIN v1' : v1'[h] \in Nat
    BY DEF Fetches!TypeOK
  <2>. QED
    BY <2>1, <2>2, SumOfNats, LedgerNumbers
<1>3. /\ v11 \in Nat /\ v10 \in Nat /\ v11' \in Nat /\ v10' \in Nat
      /\ v12 \in BOOLEAN
  BY DEF Fetches!TypeOK
<1>4. /\ Fetches(u)!Total + v11 + Fetches(u)!Held <= v10
      /\ ~v12 => Fetches(u)!Total + v11 + Fetches(u)!Held = v10
  BY DEF Fetches!Accounted
<1>5. /\ Fetches(u)!Total' + v11' + Fetches(u)!Held' <= v10'
      /\ ~v12' => Fetches(u)!Total' + v11' + Fetches(u)!Held' = v10'
  <2>1. CASE v12' = v12
               /\ Fetches(u)!Total' + v11' + Fetches(u)!InHand(f)' + v10 =
                    Fetches(u)!Total + v11 + Fetches(u)!InHand(f) + v10'
    <3>1. Fetches(u)!Total' + v11' + Fetches(u)!Held' <= v10'
      BY <1>1, <1>2, <1>3, <1>4, <2>1
    <3>2. ASSUME ~v12' PROVE Fetches(u)!Total' + v11' + Fetches(u)!Held' = v10'
      <4>1. Fetches(u)!Total + v11 + Fetches(u)!Held = v10
        BY <1>4, <2>1, <3>2
      <4>. QED
        BY <1>1, <1>2, <1>3, <2>1, <4>1
    <3>. QED
      BY <3>1, <3>2
  <2>2. CASE v12' = TRUE
               /\ Fetches(u)!Total' + v11' + Fetches(u)!InHand(f)' + v10
                    <= Fetches(u)!Total + v11 + Fetches(u)!InHand(f) + v10'
    <3>1. Fetches(u)!Total' + v11' + Fetches(u)!Held' <= v10'
      BY <1>1, <1>2, <1>3, <1>4, <2>2
    <3>. QED
      BY <2>2, <3>1
  <2>. QED
    BY <2>1, <2>2, FetchBalances DEF Balances
<1>. QED
  BY <1>5 DEF Fetches!Accounted

(* A body is written before the meta file that names it.                   *)
LEMMA BodiesStay ==
  ASSUME NEW u \in Egresses, Fetches(u)!TypeOK, Fetches(u)!TypeOK', Fetches(u)!BodiesFirst,
         NEW f \in EgressOf[u].fetcher, Fetches(u)!Fetch(f) \/ Fetches(u)!Crash(f)
  PROVE  Fetches(u)!BodiesFirst'
<1>1. /\ v5[f] \in EgressOf[u].host /\ v8[f] \in Fetches(u)!Content
           /\ v2 \in [EgressOf[u].host -> [file : Fetches(u)!File, of : Fetches(u)!Content]]
      /\ v3 \in [Fetches(u)!Content -> Fetches(u)!File] /\ v12 \in BOOLEAN
  BY DEF Fetches!TypeOK
<1>2. \/ v3' = v3 /\ ~Fetches(u)!TruncateBody(f) /\ ~Fetches(u)!FillBody(f)
      \/ Fetches(u)!TruncateBody(f) /\ v3' = [v3 EXCEPT ![v8[f]] = "torn"]
           /\ v4'[f] = "fill_body" /\ v8' = v8
      \/ Fetches(u)!FillBody(f) /\ v3' = [v3 EXCEPT ![v8[f]] = "whole"] /\ v4'[f] = "meta"
           /\ v8' = v8
  <2>1. CASE Fetches(u)!TruncateBody(f)
    BY <2>1 DEF Fetches!TruncateBody, Fetches!Goto, Fetches!TypeOK, Fetches!call
  <2>2. CASE Fetches(u)!FillBody(f)
    BY <2>2 DEF Fetches!FillBody, Fetches!Goto, Fetches!TypeOK, Fetches!call
  <2>3. CASE ~Fetches(u)!TruncateBody(f) /\ ~Fetches(u)!FillBody(f)
    BY <2>3 DEF Fetches!Fetch, Fetches!Crash, Fetches!Begin, Fetches!Stats, Fetches!StatsFail,
                Fetches!SeenHost, Fetches!Lookup, Fetches!Download, Fetches!Abort,
       Fetches!HttpError, Fetches!Break, Fetches!Waste,
                Fetches!TruncateMeta, Fetches!FillMeta, Fetches!Record, Fetches!RecordFails,
                Fetches!files
  <2>. QED
    BY <2>1, <2>2, <2>3
<1>3. \A c \in Fetches(u)!Content : v3[c] # "none" => v3'[c] # "none"
  BY <1>1, <1>2
<1>4. \A h \in EgressOf[u].host : \/ v2'[h] = v2[h]
                                  \/ v2'[h].file # "whole"
                                  \/ v2'[h].of = v8[f] /\ v4[f] = "fill_meta"
  <2>1. CASE Fetches(u)!TruncateMeta(f)
    BY <1>1, <2>1 DEF Fetches!TruncateMeta
  <2>2. CASE Fetches(u)!FillMeta(f)
    <3>1. PICK file : v2' = [v2 EXCEPT ![v5[f]] = [file |-> file, of |-> v8[f]]]
      BY <2>2 DEF Fetches!FillMeta
    <3>. QED
      BY <1>1, <2>2, <3>1 DEF Fetches!FillMeta
  <2>3. CASE ~Fetches(u)!TruncateMeta(f) /\ ~Fetches(u)!FillMeta(f)
    BY <2>3 DEF Fetches!Fetch, Fetches!Crash, Fetches!Begin, Fetches!Stats, Fetches!StatsFail,
                Fetches!SeenHost, Fetches!Lookup, Fetches!Download, Fetches!Abort,
       Fetches!HttpError, Fetches!Break, Fetches!Waste,
                Fetches!TruncateBody, Fetches!FillBody, Fetches!Record, Fetches!RecordFails,
                Fetches!files
  <2>. QED
    BY <2>1, <2>2, <2>3
<1>5. \A h \in EgressOf[u].host : v2'[h].file = "whole" => v3'[v2'[h].of] # "none"
  <2>1. \A h \in EgressOf[u].host : v2[h].of \in Fetches(u)!Content
    BY <1>1
  <2>. QED
    BY <1>1, <1>3, <1>4, <2>1 DEF Fetches!BodiesFirst
<1>6. \A g \in EgressOf[u].fetcher \ {f} : v4'[g] = v4[g] /\ v8'[g] = v8[g]
  BY FetchersStay
<1>7. ASSUME v4'[f] \in {"meta", "fill_meta", "record"} PROVE v3'[v8'[f]] # "none"
  <2>1. CASE Fetches(u)!FillBody(f)
    BY <1>1, <1>2, <2>1
  <2>2. CASE Fetches(u)!TruncateMeta(f) \/ Fetches(u)!FillMeta(f)
    <3>1. v4[f] \in {"meta", "fill_meta"} /\ v8' = v8
      BY <2>2 DEF Fetches!TruncateMeta, Fetches!FillMeta, Fetches!call
    <3>. QED
      BY <1>1, <1>3, <3>1 DEF Fetches!BodiesFirst
  <2>3. CASE ~Fetches(u)!FillBody(f) /\ ~Fetches(u)!TruncateMeta(f) /\ ~Fetches(u)!FillMeta(f)
    <3>1. v4'[f] \in {"idle", "totals", "host", "lookup", "get", "body", "fill_body"}
      BY <2>3 DEF Fetches!Fetch, Fetches!Crash, Fetches!Begin, Fetches!Stats,
                  Fetches!StatsFail, Fetches!SeenHost, Fetches!Lookup, Fetches!Download,
         Fetches!Abort, Fetches!HttpError, Fetches!Break, Fetches!Waste,
                  Fetches!TruncateBody, Fetches!Record, Fetches!RecordFails, Fetches!Goto,
                  Fetches!TypeOK
    <3>. QED
      BY <1>7, <3>1
  <2>. QED
    BY <2>1, <2>2, <2>3
<1>8. \A g \in EgressOf[u].fetcher : v4'[g] \in {"meta", "fill_meta", "record"}
        => v3'[v8'[g]] # "none"
  <2>1. \A g \in EgressOf[u].fetcher : v8[g] \in Fetches(u)!Content
    BY DEF Fetches!TypeOK
  <2>. QED
    BY <1>3, <1>6, <1>7, <2>1 DEF Fetches!BodiesFirst
<1>9. ASSUME ~v12', NEW c \in Fetches(u)!Content, v3'[c] = "torn"
      PROVE  \E g \in EgressOf[u].fetcher : v4'[g] = "fill_body" /\ v8'[g] = c
  <2>1. ~v12 /\ ~Fetches(u)!Crash(f)
    BY <1>1, <1>9 DEF Fetches!Fetch, Fetches!Crash, Fetches!Begin, Fetches!Stats,
                      Fetches!StatsFail, Fetches!SeenHost, Fetches!Lookup, Fetches!Download,
       Fetches!Abort, Fetches!HttpError, Fetches!Break, Fetches!Waste,
                Fetches!TruncateBody, Fetches!FillBody, Fetches!TruncateMeta,
                Fetches!FillMeta, Fetches!Record, Fetches!RecordFails
  <2>2. CASE v3[c] = "torn"
    <3>1. PICK g \in EgressOf[u].fetcher : v4[g] = "fill_body" /\ v8[g] = c
      BY <2>1, <2>2 DEF Fetches!BodiesFirst
    <3>2. CASE g # f
      BY <1>6, <3>1, <3>2
    <3>3. CASE g = f
      <4>1. Fetches(u)!FillBody(f)
        BY <2>1, <3>1, <3>3 DEF Fetches!Fetch, Fetches!Begin, Fetches!Stats,
                                Fetches!StatsFail, Fetches!SeenHost, Fetches!Lookup,
           Fetches!Download, Fetches!Abort, Fetches!HttpError, Fetches!Break, Fetches!Waste,
                                Fetches!TruncateBody, Fetches!TruncateMeta, Fetches!FillMeta,
                                Fetches!Record, Fetches!RecordFails
      <4>. QED
        BY <1>1, <1>2, <1>9, <3>1, <3>3, <4>1 DEF Fetches!FillBody, Fetches!TruncateBody
    <3>. QED
      BY <3>2, <3>3
  <2>3. CASE v3[c] # "torn"
    BY <1>1, <1>2, <1>9, <2>3
  <2>. QED
    BY <2>2, <2>3
<1>. QED
  BY <1>5, <1>8, <1>9 DEF Fetches!BodiesFirst

(* A host that has a row keeps it.                                         *)
LEMMA SeenStays ==
  ASSUME NEW u \in Egresses, Fetches(u)!EgressAssumption, Fetches(u)!TypeOK,
         \A g \in EgressOf[u].fetcher : v7[g] => v5[g] \in DOMAIN v1,
         NEW f \in EgressOf[u].fetcher, Fetches(u)!Fetch(f) \/ Fetches(u)!Crash(f)
  PROVE  \A g \in EgressOf[u].fetcher : v7'[g] => v5'[g] \in DOMAIN v1'
<1>1. DOMAIN v1 \subseteq DOMAIN v1'
  <2>1. CASE Fetches(u)!Record(f)
    BY <2>1, RecordAdds
  <2>2. CASE ~Fetches(u)!Record(f)
    <3>1. v1' = v1
      BY <2>2 DEF Fetches!Fetch, Fetches!Crash, Fetches!Begin, Fetches!Stats,
                  Fetches!StatsFail, Fetches!SeenHost, Fetches!Lookup, Fetches!Download,
         Fetches!Abort, Fetches!HttpError, Fetches!Break, Fetches!Waste,
                  Fetches!TruncateBody, Fetches!FillBody, Fetches!TruncateMeta,
                  Fetches!FillMeta, Fetches!RecordFails, Fetches!books
    <3>. QED
      BY <3>1
  <2>. QED
    BY <2>1, <2>2
<1>2. \A g \in EgressOf[u].fetcher \ {f} : v7'[g] => v5'[g] \in DOMAIN v1'
  BY <1>1, FetchersStay
<1>3. v7'[f] => v5'[f] \in DOMAIN v1'
  <2>1. CASE Fetches(u)!Begin(f)
    BY <2>1 DEF Fetches!Begin, Fetches!TypeOK
  <2>2. CASE Fetches(u)!SeenHost(f)
    BY <1>1, <2>2 DEF Fetches!SeenHost, Fetches!TypeOK
  <2>3. CASE ~Fetches(u)!Begin(f) /\ ~Fetches(u)!SeenHost(f)
    <3>1. v5' = v5 /\ v7' = v7
      BY <2>3 DEF Fetches!Fetch, Fetches!Crash, Fetches!Stats, Fetches!StatsFail,
                  Fetches!Lookup, Fetches!Download, Fetches!Abort, Fetches!HttpError,
         Fetches!Break, Fetches!Waste,
                  Fetches!TruncateBody, Fetches!FillBody, Fetches!TruncateMeta,
                  Fetches!FillMeta, Fetches!Record, Fetches!RecordFails, Fetches!call
    <3>. QED
      BY <1>1, <3>1
  <2>. QED
    BY <2>1, <2>2, <2>3
<1>. QED
  BY <1>2, <1>3

(* Who is inside the two budgets, and what a step of a thread makes of it. *)
InBytes(u) == {f \in EgressOf[u].fetcher : v4[f] \in Fetches(u)!Transfer \union {"host"}}
InHosts(u) == {f \in EgressOf[u].fetcher : v4[f] \in Fetches(u)!Transfer /\ ~v7[f]}

Budgeted(A, cap, m, x, y, S, T) ==
  \/ y = x /\ T = S
  \/ x < cap /\ y = x /\ \E a \in A : T = S \union {a}
  \/ \E a \in S : T = S \ {a} /\ \E k \in 0 .. m : y = x + k

LEMMA OneMoves ==
  ASSUME NEW A, NEW S \in SUBSET A, NEW T \in SUBSET A, NEW a \in A,
         \A b \in A \ {a} : b \in T <=> b \in S,
         NEW cap, NEW m, NEW x, NEW y,
         a \in T /\ a \notin S => x < cap /\ y = x,
         a \in S /\ a \notin T => \E k \in 0 .. m : y = x + k,
         (a \in S <=> a \in T) => y = x
  PROVE  Budgeted(A, cap, m, x, y, S, T)
<1>1. CASE a \in S <=> a \in T
  <2>1. T = S
    BY <1>1
  <2>. QED
    BY <1>1, <2>1 DEF Budgeted
<1>2. CASE a \in T /\ a \notin S
  <2>1. T = S \union {a}
    BY <1>2
  <2>. QED
    BY <1>2, <2>1 DEF Budgeted
<1>3. CASE a \in S /\ a \notin T
  <2>1. T = S \ {a}
    BY <1>3
  <2>. QED
    BY <1>3, <2>1 DEF Budgeted
<1>. QED
  BY <1>1, <1>2, <1>3

(* A thread enters the bytes below their cap, and leaves with no more than *)
(* one response.                                                           *)
LEMMA BytesMove ==
  ASSUME NEW u \in Egresses, Fetches(u)!EgressAssumption, Fetches(u)!TypeOK,
         EgressOf[u].session > 0, ~EgressOf[u].fails,
         NEW f \in EgressOf[u].fetcher, Fetches(u)!Fetch(f) \/ Fetches(u)!Crash(f)
  PROVE  Budgeted(EgressOf[u].fetcher, EgressOf[u].session, EgressOf[u].bytes,
                                                                     Fetches(u)!Total,
                                                                     Fetches(u)!Total',
                                                                     InBytes(u), InBytes(u)')
<1>1. Fetches(u)!Total \in Nat /\ EgressOf[u].session \in Nat /\ EgressOf[u].bytes \in Nat
        /\ v8[f] \in 0 .. EgressOf[u].bytes
  BY LedgerNumbers DEF Fetches!EgressAssumption, Fetches!TypeOK, Fetches!Content
<1>2. \A g \in EgressOf[u].fetcher \ {f} : g \in InBytes(u)' <=> g \in InBytes(u)
  BY FetchersStay DEF InBytes
<1>3. /\ InBytes(u) \in SUBSET EgressOf[u].fetcher /\ InBytes(u)' \in SUBSET EgressOf[u].fetcher
      /\ f \in InBytes(u) <=> v4[f] \in Fetches(u)!Transfer \union {"host"}
      /\ f \in InBytes(u)' <=> v4'[f] \in Fetches(u)!Transfer \union {"host"}
  BY DEF InBytes
<1>4. Fetches(u)!Total = Fetches(u)!Total + 0 /\ 0 \in 0 .. EgressOf[u].bytes
  BY <1>1
<1>5. /\ f \in InBytes(u)' /\ f \notin InBytes(u)
           => Fetches(u)!Total < EgressOf[u].session /\ Fetches(u)!Total' = Fetches(u)!Total
      /\ f \in InBytes(u) /\ f \notin InBytes(u)'
           => \E k \in 0 .. EgressOf[u].bytes : Fetches(u)!Total' = Fetches(u)!Total + k
      /\ (f \in InBytes(u) <=> f \in InBytes(u)') => Fetches(u)!Total' = Fetches(u)!Total
  <2>1. CASE Fetches(u)!Stats(f)
    <3>1. /\ v4[f] = "totals" /\ v1' = v1
          /\ v4'[f] # "idle" => ~Fetches(u)!OverBytes(Fetches(u)!Total)
      BY <2>1 DEF Fetches!Stats, Fetches!Goto, Fetches!TypeOK, Fetches!books
    <3>2. f \in InBytes(u)' => v4'[f] # "idle"
      BY <1>3 DEF Fetches!Transfer
    <3>3. f \notin InBytes(u)
      BY <1>3, <3>1 DEF Fetches!Transfer
    <3>4. ~Fetches(u)!OverBytes(Fetches(u)!Total) => Fetches(u)!Total < EgressOf[u].session
      BY <1>1 DEF Fetches!OverBytes
    <3>5. Fetches(u)!Total' = Fetches(u)!Total
      BY <3>1 DEF Fetches!Total
    <3>. QED
      BY <3>1, <3>2, <3>3, <3>4, <3>5
  <2>2. CASE Fetches(u)!Record(f)
    <3>1. v4[f] = "record" /\ v4'[f] = "idle" /\ Fetches(u)!Total' = Fetches(u)!Total + v8[f]
      BY <2>2, RecordAdds DEF Fetches!Record, Fetches!Goto, Fetches!TypeOK
    <3>2. f \in InBytes(u) /\ f \notin InBytes(u)'
      BY <1>3, <3>1 DEF Fetches!Transfer
    <3>. QED
      BY <1>1, <3>1, <3>2
  <2>3. CASE ~Fetches(u)!Stats(f) /\ ~Fetches(u)!Record(f)
    <3>1. v1' = v1
      BY <2>3 DEF Fetches!Fetch, Fetches!Crash, Fetches!Begin, Fetches!StatsFail,
                  Fetches!SeenHost, Fetches!Lookup, Fetches!Download, Fetches!Abort,
         Fetches!HttpError, Fetches!Break, Fetches!Waste,
                  Fetches!TruncateBody, Fetches!FillBody, Fetches!TruncateMeta,
                  Fetches!FillMeta, Fetches!RecordFails, Fetches!books
    <3>2. v4'[f] \in Fetches(u)!Transfer \union {"host"}
            => v4[f] \in Fetches(u)!Transfer \union {"host"}
      <4>1. CASE Fetches(u)!Begin(f) \/ Fetches(u)!Crash(f)
        <5>1. v4'[f] \in {"idle", "totals"}
          BY <4>1 DEF Fetches!Begin, Fetches!Crash, Fetches!Goto, Fetches!TypeOK
        <5>. QED
          BY <5>1 DEF Fetches!Transfer
      <4>2. CASE ~Fetches(u)!Begin(f) /\ ~Fetches(u)!Crash(f)
        BY <2>3, <4>2 DEF Fetches!Fetch, Fetches!StatsFail, Fetches!SeenHost, Fetches!Lookup,
                          Fetches!Download, Fetches!Abort, Fetches!HttpError, Fetches!Break,
           Fetches!Waste,
                  Fetches!TruncateBody, Fetches!FillBody, Fetches!TruncateMeta,
                  Fetches!FillMeta, Fetches!RecordFails, Fetches!Transfer
      <4>. QED
        BY <4>1, <4>2
    <3>3. Fetches(u)!Total' = Fetches(u)!Total
      BY <3>1 DEF Fetches!Total
    <3>. QED
      BY <1>3, <1>4, <3>2, <3>3
  <2>. QED
    BY <2>1, <2>2, <2>3
<1>. DEFINE S == InBytes(u)
            T == InBytes(u)'
<1>6. /\ S \in SUBSET EgressOf[u].fetcher /\ T \in SUBSET EgressOf[u].fetcher
      /\ \A g \in EgressOf[u].fetcher \ {f} : g \in T <=> g \in S
      /\ f \in T /\ f \notin S
           => Fetches(u)!Total < EgressOf[u].session /\ Fetches(u)!Total' = Fetches(u)!Total
      /\ f \in S /\ f \notin T
           => \E k \in 0 .. EgressOf[u].bytes : Fetches(u)!Total' = Fetches(u)!Total + k
      /\ (f \in S <=> f \in T) => Fetches(u)!Total' = Fetches(u)!Total
  BY <1>2, <1>3, <1>5
<1>. HIDE DEF S, T
<1>7. Budgeted(EgressOf[u].fetcher, EgressOf[u].session, EgressOf[u].bytes, Fetches(u)!Total,
                                                                  Fetches(u)!Total', S, T)
  BY <1>6, OneMoves
<1>. QED
  BY <1>7 DEF S, T

(* A thread whose host has no row enters the hosts below their cap, and    *)
(* leaves with one row more at most.                                       *)
LEMMA HostsMove ==
  ASSUME NEW u \in Egresses, Fetches(u)!EgressAssumption, Fetches(u)!TypeOK,
         EgressOf[u].hosts > 0, ~EgressOf[u].fails,
         \A g \in EgressOf[u].fetcher : v7[g] => v5[g] \in DOMAIN v1,
         NEW f \in EgressOf[u].fetcher, Fetches(u)!Fetch(f) \/ Fetches(u)!Crash(f)
  PROVE  Budgeted(EgressOf[u].fetcher, EgressOf[u].hosts, 1, Fetches(u)!Hosts,
                                                Fetches(u)!Hosts', InHosts(u), InHosts(u)')
<1>1. Fetches(u)!Hosts \in Nat /\ EgressOf[u].hosts \in Nat
  BY LedgerNumbers DEF Fetches!EgressAssumption
<1>2. \A g \in EgressOf[u].fetcher \ {f} : g \in InHosts(u)' <=> g \in InHosts(u)
  BY FetchersStay DEF InHosts
<1>3. /\ InHosts(u) \in SUBSET EgressOf[u].fetcher /\ InHosts(u)' \in SUBSET EgressOf[u].fetcher
      /\ f \in InHosts(u) <=> v4[f] \in Fetches(u)!Transfer /\ ~v7[f]
      /\ f \in InHosts(u)' <=> v4'[f] \in Fetches(u)!Transfer /\ ~v7'[f]
  BY DEF InHosts
<1>4. Fetches(u)!Hosts = Fetches(u)!Hosts + 0 /\ 0 \in 0 .. 1 /\ 1 \in 0 .. 1
  BY <1>1
<1>5. /\ f \in InHosts(u)' /\ f \notin InHosts(u)
           => Fetches(u)!Hosts < EgressOf[u].hosts /\ Fetches(u)!Hosts' = Fetches(u)!Hosts
      /\ f \in InHosts(u) /\ f \notin InHosts(u)'
           => \E k \in 0 .. 1 : Fetches(u)!Hosts' = Fetches(u)!Hosts + k
      /\ (f \in InHosts(u) <=> f \in InHosts(u)') => Fetches(u)!Hosts' = Fetches(u)!Hosts
  <2>1. CASE Fetches(u)!Stats(f)
    <3>1. /\ v4[f] = "totals" /\ v1' = v1
          /\ v4'[f] \notin {"idle", "host"} => ~Fetches(u)!OverHosts(Fetches(u)!Hosts)
      BY <2>1 DEF Fetches!Stats, Fetches!Goto, Fetches!TypeOK, Fetches!books
    <3>2. f \in InHosts(u)' => v4'[f] \notin {"idle", "host"}
      BY <1>3 DEF Fetches!Transfer
    <3>3. f \notin InHosts(u)
      BY <1>3, <3>1 DEF Fetches!Transfer
    <3>4. ~Fetches(u)!OverHosts(Fetches(u)!Hosts) => Fetches(u)!Hosts < EgressOf[u].hosts
      BY <1>1 DEF Fetches!OverHosts
    <3>5. Fetches(u)!Hosts' = Fetches(u)!Hosts
      BY <3>1 DEF Fetches!Hosts
    <3>. QED
      BY <3>1, <3>2, <3>3, <3>4, <3>5
  <2>2. CASE Fetches(u)!Record(f)
    <3>1. /\ v4[f] = "record" /\ v4'[f] = "idle"
          /\ Fetches(u)!Hosts' = Fetches(u)!Hosts \/ Fetches(u)!Hosts' = Fetches(u)!Hosts + 1
          /\ v7[f] => Fetches(u)!Hosts' = Fetches(u)!Hosts
      BY <2>2, RecordAdds DEF Fetches!Record, Fetches!Goto, Fetches!TypeOK
    <3>2. f \notin InHosts(u)' /\ (f \notin InHosts(u) => v7[f])
      BY <1>3, <3>1 DEF Fetches!Transfer
    <3>. QED
      BY <1>4, <3>1, <3>2
  <2>3. CASE ~Fetches(u)!Stats(f) /\ ~Fetches(u)!Record(f)
    <3>1. v1' = v1
      BY <2>3 DEF Fetches!Fetch, Fetches!Crash, Fetches!Begin, Fetches!StatsFail,
                  Fetches!SeenHost, Fetches!Lookup, Fetches!Download, Fetches!Abort,
         Fetches!HttpError, Fetches!Break, Fetches!Waste,
                  Fetches!TruncateBody, Fetches!FillBody, Fetches!TruncateMeta,
                  Fetches!FillMeta, Fetches!RecordFails, Fetches!books
    <3>2. v4'[f] \in Fetches(u)!Transfer /\ ~v7'[f] => v4[f] \in Fetches(u)!Transfer /\ ~v7[f]
      <4>1. CASE Fetches(u)!Begin(f) \/ Fetches(u)!Crash(f)
        <5>1. v4'[f] \in {"idle", "totals"}
          BY <4>1 DEF Fetches!Begin, Fetches!Crash, Fetches!Goto, Fetches!TypeOK
        <5>. QED
          BY <5>1 DEF Fetches!Transfer
      <4>2. CASE Fetches(u)!SeenHost(f)
        <5>1. v7'[f] \/ v4'[f] = "idle"
          BY <4>2 DEF Fetches!SeenHost, Fetches!Goto, Fetches!TypeOK
        <5>. QED
          BY <5>1 DEF Fetches!Transfer
      <4>3. CASE ~Fetches(u)!Begin(f) /\ ~Fetches(u)!Crash(f) /\ ~Fetches(u)!SeenHost(f)
        <5>1. v4[f] \in Fetches(u)!Transfer /\ v7' = v7
          BY <2>3, <4>3 DEF Fetches!Fetch, Fetches!StatsFail, Fetches!Lookup,
                            Fetches!Download, Fetches!Abort, Fetches!HttpError, Fetches!Break,
             Fetches!Waste,
                  Fetches!TruncateBody, Fetches!FillBody, Fetches!TruncateMeta,
                  Fetches!FillMeta, Fetches!RecordFails, Fetches!Transfer, Fetches!call
        <5>. QED
          BY <5>1
      <4>. QED
        BY <4>1, <4>2, <4>3
    <3>3. Fetches(u)!Hosts' = Fetches(u)!Hosts
      BY <3>1 DEF Fetches!Hosts
    <3>. QED
      BY <1>3, <1>4, <3>2, <3>3
  <2>. QED
    BY <2>1, <2>2, <2>3
<1>. DEFINE S == InHosts(u)
            T == InHosts(u)'
<1>6. /\ S \in SUBSET EgressOf[u].fetcher /\ T \in SUBSET EgressOf[u].fetcher
      /\ \A g \in EgressOf[u].fetcher \ {f} : g \in T <=> g \in S
      /\ f \in T /\ f \notin S
           => Fetches(u)!Hosts < EgressOf[u].hosts /\ Fetches(u)!Hosts' = Fetches(u)!Hosts
      /\ f \in S /\ f \notin T => \E k \in 0 .. 1 : Fetches(u)!Hosts' = Fetches(u)!Hosts + k
      /\ (f \in S <=> f \in T) => Fetches(u)!Hosts' = Fetches(u)!Hosts
  BY <1>2, <1>3, <1>5
<1>. HIDE DEF S, T
<1>7. Budgeted(EgressOf[u].fetcher, EgressOf[u].hosts, 1, Fetches(u)!Hosts, Fetches(u)!Hosts',
                                             S, T)
  BY <1>6, OneMoves
<1>. QED
  BY <1>7 DEF S, T

(* Such a move is a step of the budget, and keeps its overshoot.           *)
LEMMA BytesKept ==
  ASSUME NEW u \in Egresses, Fetches(u)!EgressAssumption, Fetches(u)!TypeOK,
         Fetches(u)!TypeOK', Fetches(u)!Total' \in Nat,
         Budgeted(EgressOf[u].fetcher, EgressOf[u].session, EgressOf[u].bytes,
         Fetches(u)!Total, Fetches(u)!Total', InBytes(u), InBytes(u)')
  PROVE  Fetches(u)!BytesStep /\ (Fetches(u)!BytesOvershoot => Fetches(u)!BytesOvershoot')
<1>. DEFINE S == InBytes(u)
            T == InBytes(u)'
<1>1. S \in SUBSET EgressOf[u].fetcher
        /\ S = {f \in EgressOf[u].fetcher : v4[f] \in Fetches(u)!Transfer \union {"host"}}
  BY DEF InBytes
<1>2. T = {f \in EgressOf[u].fetcher : v4'[f] \in Fetches(u)!Transfer \union {"host"}}
  BY DEF InBytes
<1>3. \/ Fetches(u)!Total' = Fetches(u)!Total /\ T = S
      \/ Fetches(u)!Total < EgressOf[u].session /\ Fetches(u)!Total' = Fetches(u)!Total
           /\ \E a \in EgressOf[u].fetcher : T = S \union {a}
      \/ \E a \in S : T = S \ {a}
           /\ \E k \in 0 .. EgressOf[u].bytes : Fetches(u)!Total' = Fetches(u)!Total + k
  BY DEF Budgeted
<1>. HIDE DEF S, T
<1>4. Fetches(u)!BytesStep
  <2>1. CASE Fetches(u)!Total' = Fetches(u)!Total /\ T = S
    BY <1>1, <1>2, <2>1 DEF Fetches!BytesStep, Fetches!BytesBudget!vars
  <2>2. ASSUME NEW a \in EgressOf[u].fetcher, Fetches(u)!Total < EgressOf[u].session,
               Fetches(u)!Total' = Fetches(u)!Total, T = S \union {a}
        PROVE  Fetches(u)!BytesBudget!Next
    BY <1>1, <1>2, <2>2 DEF Fetches!BytesBudget!Next, Fetches!BytesBudget!Admit
  <2>3. ASSUME NEW a \in S, T = S \ {a}, NEW k \in 0 .. EgressOf[u].bytes,
               Fetches(u)!Total' = Fetches(u)!Total + k
        PROVE  Fetches(u)!BytesBudget!Next
    <3>1. Fetches(u)!BytesBudget!Leave(a)
      BY <1>1, <1>2, <2>3 DEF Fetches!BytesBudget!Leave
    <3>. QED
      BY <1>1, <3>1 DEF Fetches!BytesBudget!Next
  <2>. QED
    BY <1>3, <2>1, <2>2, <2>3 DEF Fetches!BytesStep
<1>5. ASSUME Fetches(u)!BytesOvershoot PROVE Fetches(u)!BytesOvershoot'
  <2>1. Fetches(u)!Total + EgressOf[u].bytes * Cardinality(S)
          <= EgressOf[u].session - 1 + EgressOf[u].bytes * Cardinality(EgressOf[u].fetcher)
    BY <1>1, <1>5, EgressSets DEF Fetches!BytesOvershoot, Fetches!BytesBudget!Overshoot
  <2>2. Fetches(u)!Total \in Nat /\ EgressOf[u].session \in Nat /\ EgressOf[u].bytes \in Nat
          /\ IsFiniteSet(EgressOf[u].fetcher)
    BY LedgerNumbers, EgressSets DEF Fetches!EgressAssumption
  <2>3. Fetches(u)!Total' + EgressOf[u].bytes * Cardinality(T)
          <= EgressOf[u].session - 1 + EgressOf[u].bytes * Cardinality(EgressOf[u].fetcher)
    <3>1. PICK x \in Nat, y \in Nat, cap \in Nat, m \in Nat :
            x = Fetches(u)!Total /\ y = Fetches(u)!Total' /\ cap = EgressOf[u].session
              /\ m = EgressOf[u].bytes
      BY <2>2
    <3>2. PICK A : A = EgressOf[u].fetcher
      OBVIOUS
    <3>3. IsFiniteSet(A) /\ S \in SUBSET A
      BY <1>1, <2>2, <3>2
    <3>4. x + m * Cardinality(S) <= cap - 1 + m * Cardinality(A)
      BY <2>1, <3>1, <3>2
    <3>5. \/ y = x /\ T = S
          \/ x < cap /\ y = x /\ \E a \in A : T = S \union {a}
          \/ \E a \in S : T = S \ {a} /\ \E k \in 0 .. m : y = x + k
      BY <1>3, <3>1, <3>2
    <3>6. y + m * Cardinality(T) <= cap - 1 + m * Cardinality(A)
      BY <3>3, <3>4, <3>5, OvershootKept
    <3>. QED
      BY <3>1, <3>2, <3>6
  <2>. QED
    BY <1>2, <2>3, EgressSets DEF Fetches!BytesOvershoot, Fetches!BytesBudget!Overshoot
<1>. QED
  BY <1>4, <1>5

LEMMA HostsKept ==
  ASSUME NEW u \in Egresses, Fetches(u)!EgressAssumption, Fetches(u)!TypeOK,
         Fetches(u)!TypeOK', Fetches(u)!Hosts' \in Nat,
         Budgeted(EgressOf[u].fetcher, EgressOf[u].hosts, 1, Fetches(u)!Hosts,
         Fetches(u)!Hosts', InHosts(u), InHosts(u)')
  PROVE  Fetches(u)!HostsStep /\ (Fetches(u)!HostsOvershoot => Fetches(u)!HostsOvershoot')
<1>. DEFINE S == InHosts(u)
            T == InHosts(u)'
<1>1. S \in SUBSET EgressOf[u].fetcher
        /\ S = {f \in EgressOf[u].fetcher : v4[f] \in Fetches(u)!Transfer /\ ~v7[f]}
  BY DEF InHosts
<1>2. T = {f \in EgressOf[u].fetcher : v4'[f] \in Fetches(u)!Transfer /\ ~v7'[f]}
  BY DEF InHosts
<1>3. \/ Fetches(u)!Hosts' = Fetches(u)!Hosts /\ T = S
      \/ Fetches(u)!Hosts < EgressOf[u].hosts /\ Fetches(u)!Hosts' = Fetches(u)!Hosts
           /\ \E a \in EgressOf[u].fetcher : T = S \union {a}
      \/ \E a \in S : T = S \ {a} /\ \E k \in 0 .. 1 : Fetches(u)!Hosts' = Fetches(u)!Hosts + k
  BY DEF Budgeted
<1>. HIDE DEF S, T
<1>4. Fetches(u)!HostsStep
  <2>1. CASE Fetches(u)!Hosts' = Fetches(u)!Hosts /\ T = S
    BY <1>1, <1>2, <2>1 DEF Fetches!HostsStep, Fetches!HostBudget!vars
  <2>2. ASSUME NEW a \in EgressOf[u].fetcher, Fetches(u)!Hosts < EgressOf[u].hosts,
               Fetches(u)!Hosts' = Fetches(u)!Hosts, T = S \union {a}
        PROVE  Fetches(u)!HostBudget!Next
    BY <1>1, <1>2, <2>2 DEF Fetches!HostBudget!Next, Fetches!HostBudget!Admit
  <2>3. ASSUME NEW a \in S, T = S \ {a}, NEW k \in 0 .. 1,
               Fetches(u)!Hosts' = Fetches(u)!Hosts + k
        PROVE  Fetches(u)!HostBudget!Next
    <3>1. Fetches(u)!HostBudget!Leave(a)
      BY <1>1, <1>2, <2>3 DEF Fetches!HostBudget!Leave
    <3>. QED
      BY <1>1, <3>1 DEF Fetches!HostBudget!Next
  <2>. QED
    BY <1>3, <2>1, <2>2, <2>3 DEF Fetches!HostsStep
<1>5. ASSUME Fetches(u)!HostsOvershoot PROVE Fetches(u)!HostsOvershoot'
  <2>1. Fetches(u)!Hosts + 1 * Cardinality(S)
          <= EgressOf[u].hosts - 1 + 1 * Cardinality(EgressOf[u].fetcher)
    BY <1>1, <1>5, EgressSets DEF Fetches!HostsOvershoot, Fetches!HostBudget!Overshoot
  <2>2. Fetches(u)!Hosts \in Nat /\ EgressOf[u].hosts \in Nat
          /\ IsFiniteSet(EgressOf[u].fetcher)
    BY LedgerNumbers, EgressSets DEF Fetches!EgressAssumption
  <2>3. Fetches(u)!Hosts' + 1 * Cardinality(T)
          <= EgressOf[u].hosts - 1 + 1 * Cardinality(EgressOf[u].fetcher)
    <3>1. PICK x \in Nat, y \in Nat, cap \in Nat, m \in Nat :
            x = Fetches(u)!Hosts /\ y = Fetches(u)!Hosts' /\ cap = EgressOf[u].hosts /\ m = 1
      BY <2>2
    <3>2. PICK A : A = EgressOf[u].fetcher
      OBVIOUS
    <3>3. IsFiniteSet(A) /\ S \in SUBSET A
      BY <1>1, <2>2, <3>2
    <3>4. x + m * Cardinality(S) <= cap - 1 + m * Cardinality(A)
      BY <2>1, <3>1, <3>2
    <3>5. \/ y = x /\ T = S
          \/ x < cap /\ y = x /\ \E a \in A : T = S \union {a}
          \/ \E a \in S : T = S \ {a} /\ \E k \in 0 .. m : y = x + k
      BY <1>3, <3>1, <3>2
    <3>6. y + m * Cardinality(T) <= cap - 1 + m * Cardinality(A)
      BY <3>3, <3>4, <3>5, OvershootKept
    <3>. QED
      BY <3>1, <3>2, <3>6
  <2>. QED
    BY <1>2, <2>3, EgressSets DEF Fetches!HostsOvershoot, Fetches!HostBudget!Overshoot
<1>. QED
  BY <1>4, <1>5

(* At first nothing has been received.                                     *)
LEMMA EgressStarts ==
  ASSUME NEW u \in Egresses, Fetches(u)!EgressAssumption, Fetches(u)!Init
  PROVE  /\ Fetches(u)!EgressInv
         /\ EgressOf[u].session > 0 /\ ~EgressOf[u].fails => Fetches(u)!BytesBudget!Init
         /\ EgressOf[u].hosts > 0 /\ ~EgressOf[u].fails => Fetches(u)!HostBudget!Init
<1>1. Fetches(u)!TypeOK
  <2>1. /\ 0 \in Fetches(u)!Content /\ 0 \in 0 .. EgressOf[u].fetches /\ 0 \in Nat
        /\ [file |-> "none", of |-> 0] \in [file : Fetches(u)!File, of : Fetches(u)!Content]
    BY DEF Fetches!EgressAssumption, Fetches!Content, Fetches!File
  <2>. QED
    BY <2>1 DEF Fetches!Init, Fetches!TypeOK, Fetches!Labels, Fetches!File
<1>2. /\ v1 = [h \in {} |-> 0] /\ DOMAIN v1 = {} /\ v10 = 0 /\ v11 = 0
      /\ \A f \in EgressOf[u].fetcher : v4[f] = "idle" /\ ~v7[f]
  BY DEF Fetches!Init
<1>3. Fetches(u)!Total = 0 /\ Fetches(u)!Hosts = 0
  <2>1. Fetches(u)!Total = SumFunctionOnSet(v1, {}) /\ Fetches(u)!Hosts = Cardinality({})
    BY <1>1, <1>2, LedgerNumbers
  <2>. QED
    BY <2>1, SumOfNone, FS_EmptySet
<1>4. Fetches(u)!Held = 0
  <2>. DEFINE x == [f \in EgressOf[u].fetcher |-> Fetches(u)!InHand(f)]
  <2>1. Fetches(u)!Held = SumFunctionOnSet(x, EgressOf[u].fetcher)
    BY EgressSums DEF Fetches!Held
  <2>2. \A f \in EgressOf[u].fetcher : x[f] = 0
    BY <1>2 DEF Fetches!InHand
  <2>3. IsFiniteSet(EgressOf[u].fetcher)
    BY EgressSets DEF Fetches!EgressAssumption
  <2>. HIDE DEF x
  <2>. QED
    BY <2>1, <2>2, <2>3, SumOfZeros
<1>5. Fetches(u)!Accounted
  BY <1>2, <1>3, <1>4 DEF Fetches!Accounted
<1>6. Fetches(u)!BodiesFirst
  BY <1>2 DEF Fetches!BodiesFirst, Fetches!Init
<1>7. /\ {f \in EgressOf[u].fetcher : v4[f] \in Fetches(u)!Transfer \union {"host"}} = {}
      /\ {f \in EgressOf[u].fetcher : v4[f] \in Fetches(u)!Transfer /\ ~v7[f]} = {}
  BY <1>2 DEF Fetches!Transfer
<1>8. /\ Cardinality({}) = 0 /\ Cardinality(EgressOf[u].fetcher) \in Nat
      /\ EgressOf[u].bytes \in Nat /\ EgressOf[u].session \in Nat /\ EgressOf[u].hosts \in Nat
      /\ EgressOf[u].bytes * Cardinality(EgressOf[u].fetcher) \in Nat
  <2>1. Cardinality({}) = 0 /\ Cardinality(EgressOf[u].fetcher) \in Nat
    BY EgressSets, FS_EmptySet, FS_CardinalityType DEF Fetches!EgressAssumption
  <2>. QED
    BY <2>1 DEF Fetches!EgressAssumption
<1>9. EgressOf[u].session > 0 => Fetches(u)!BytesOvershoot /\ Fetches(u)!BytesBudget!Init
  <2>1. EgressOf[u].session > 0 =>
          0 + EgressOf[u].bytes * 0
            <= EgressOf[u].session - 1 + EgressOf[u].bytes * Cardinality(EgressOf[u].fetcher)
    BY <1>8
  <2>. QED
    BY <1>3, <1>7, <1>8, <2>1, EgressSets DEF Fetches!BytesOvershoot,
                                              Fetches!BytesBudget!Overshoot,
       Fetches!BytesBudget!Init
<1>10. EgressOf[u].hosts > 0 => Fetches(u)!HostsOvershoot /\ Fetches(u)!HostBudget!Init
  <2>1. EgressOf[u].hosts > 0
          => 0 + 1 * 0 <= EgressOf[u].hosts - 1 + 1 * Cardinality(EgressOf[u].fetcher)
    BY <1>8
  <2>. QED
    BY <1>3, <1>7, <1>8, <2>1, EgressSets DEF Fetches!HostsOvershoot,
                                              Fetches!HostBudget!Overshoot,
       Fetches!HostBudget!Init
<1>. QED
  BY <1>1, <1>2, <1>5, <1>6, <1>9, <1>10 DEF Fetches!EgressInv

(* And every step keeps the books and the caps.                            *)
LEMMA EgressSteps ==
  ASSUME NEW u \in Egresses, Fetches(u)!EgressAssumption, Fetches(u)!EgressInv,
         [Fetches(u)!Next]_(Fetches(u)!vars)
  PROVE  /\ Fetches(u)!EgressInv'
         /\ EgressOf[u].session > 0 /\ ~EgressOf[u].fails => Fetches(u)!BytesStep
         /\ EgressOf[u].hosts > 0 /\ ~EgressOf[u].fails => Fetches(u)!HostsStep
<1>1. Fetches(u)!TypeOK /\ Fetches(u)!TypeOK'
  BY EgressTypes DEF Fetches!EgressInv
<1>2. CASE UNCHANGED Fetches(u)!vars
  <2>1. Fetches(u)!Accounted'
    BY <1>2 DEF Fetches!EgressInv, Fetches!Accounted, Fetches!Total, Fetches!Held,
                Fetches!InHand, Fetches!vars
  <2>2. Fetches(u)!BodiesFirst'
    BY <1>2 DEF Fetches!EgressInv, Fetches!BodiesFirst, Fetches!vars
  <2>3. Fetches(u)!Total' = Fetches(u)!Total /\ Fetches(u)!Hosts' = Fetches(u)!Hosts
          /\ InBytes(u)' = InBytes(u) /\ InHosts(u)' = InHosts(u)
    BY <1>2 DEF Fetches!Total, Fetches!Hosts, InBytes, InHosts, Fetches!vars
  <2>4. Fetches(u)!Total' \in Nat /\ Fetches(u)!Hosts' \in Nat
    BY <1>1, <2>3, LedgerNumbers
  <2>5. Fetches(u)!BytesStep /\ (Fetches(u)!BytesOvershoot => Fetches(u)!BytesOvershoot')
    BY <1>1, <2>3, <2>4, BytesKept DEF Budgeted
  <2>6. Fetches(u)!HostsStep /\ (Fetches(u)!HostsOvershoot => Fetches(u)!HostsOvershoot')
    BY <1>1, <2>3, <2>4, HostsKept DEF Budgeted
  <2>7. \A f \in EgressOf[u].fetcher : v7'[f] => v5'[f] \in DOMAIN v1'
    BY <1>2 DEF Fetches!EgressInv, Fetches!vars
  <2>. QED
    BY <1>1, <2>1, <2>2, <2>5, <2>6, <2>7 DEF Fetches!EgressInv
<1>3. ASSUME NEW f \in EgressOf[u].fetcher, Fetches(u)!Fetch(f) \/ Fetches(u)!Crash(f)
      PROVE  /\ Fetches(u)!EgressInv'
             /\ EgressOf[u].session > 0 /\ ~EgressOf[u].fails => Fetches(u)!BytesStep
             /\ EgressOf[u].hosts > 0 /\ ~EgressOf[u].fails => Fetches(u)!HostsStep
  <2>1. Fetches(u)!Accounted'
    BY <1>1, <1>3, AccountsStay DEF Fetches!EgressInv
  <2>2. Fetches(u)!BodiesFirst'
    BY <1>1, <1>3, BodiesStay DEF Fetches!EgressInv
  <2>3. \A g \in EgressOf[u].fetcher : v7'[g] => v5'[g] \in DOMAIN v1'
    BY <1>1, <1>3, SeenStays DEF Fetches!EgressInv
  <2>4. Fetches(u)!Total' \in Nat /\ Fetches(u)!Hosts' \in Nat
    <3>1. DOMAIN v1' \in SUBSET EgressOf[u].host /\ \A h \in DOMAIN v1' : v1'[h] \in Nat
      BY <1>1 DEF Fetches!TypeOK
    <3>2. IsFiniteSet(DOMAIN v1')
      BY <3>1, EgressSets, FS_Subset DEF Fetches!EgressAssumption
    <3>3. Fetches(u)!Total' = SumFunctionOnSet(v1', DOMAIN v1')
            /\ Fetches(u)!Hosts' = Cardinality(DOMAIN v1')
      BY EgressSums, EgressSets DEF Fetches!Total, Fetches!Hosts
    <3>. QED
      BY <3>1, <3>2, <3>3, SumOfNats, FS_CardinalityType
  <2>5. EgressOf[u].session > 0 /\ ~EgressOf[u].fails
          => Fetches(u)!BytesStep /\ (Fetches(u)!BytesOvershoot => Fetches(u)!BytesOvershoot')
    BY <1>1, <1>3, <2>4, BytesMove, BytesKept
  <2>6. EgressOf[u].hosts > 0 /\ ~EgressOf[u].fails
          => Fetches(u)!HostsStep /\ (Fetches(u)!HostsOvershoot => Fetches(u)!HostsOvershoot')
    BY <1>1, <1>3, <2>4, HostsMove, HostsKept DEF Fetches!EgressInv
  <2>. QED
    BY <1>1, <2>1, <2>2, <2>3, <2>5, <2>6 DEF Fetches!EgressInv
<1>. QED
  BY <1>2, <1>3 DEF Fetches!Next, Fetches!Stopped

(* What the invariant is for.                                              *)
LEMMA EgressHolds ==
  ASSUME NEW u \in Egresses, Fetches(u)!EgressAssumption, Fetches(u)!EgressInv
  PROVE  /\ Fetches(u)!TypeOK /\ Fetches(u)!LedgerIsBacked /\ Fetches(u)!OnlyWasteEscapes
              /\ Fetches(u)!EvidenceAtRest
         /\ EgressOf[u].session > 0 /\ ~EgressOf[u].fails => Fetches(u)!BytesOvershoot
         /\ EgressOf[u].hosts > 0 /\ ~EgressOf[u].fails => Fetches(u)!HostsOvershoot
<1>1. Fetches(u)!TypeOK /\ Fetches(u)!Accounted /\ Fetches(u)!BodiesFirst
  BY DEF Fetches!EgressInv
<1>2. Fetches(u)!Total \in Nat /\ v11 \in Nat /\ v10 \in Nat
  BY <1>1, LedgerNumbers DEF Fetches!TypeOK
<1>3. Fetches(u)!Held \in Nat /\ (Fetches(u)!AtRest => Fetches(u)!Held = 0)
  <2>. DEFINE x == [f \in EgressOf[u].fetcher |-> Fetches(u)!InHand(f)]
  <2>1. Fetches(u)!Held = SumFunctionOnSet(x, EgressOf[u].fetcher)
    BY EgressSums DEF Fetches!Held
  <2>2. IsFiniteSet(EgressOf[u].fetcher)
    BY EgressSets DEF Fetches!EgressAssumption
  <2>3. \A f \in EgressOf[u].fetcher : x[f] \in Nat
    <3>1. \A f \in EgressOf[u].fetcher : v8[f] \in Nat
      <4>1. Fetches(u)!Content \subseteq Nat
        BY DEF Fetches!Content, Fetches!EgressAssumption
      <4>. QED
        BY <1>1, <4>1 DEF Fetches!TypeOK
    <3>. QED
      BY <3>1 DEF Fetches!InHand
  <2>4. Fetches(u)!AtRest => \A f \in EgressOf[u].fetcher : x[f] = 0
    BY DEF Fetches!AtRest, Fetches!InHand
  <2>. HIDE DEF x
  <2>. QED
    BY <2>1, <2>2, <2>3, <2>4, SumOfNats, SumOfZeros
<1>4. Fetches(u)!LedgerIsBacked
  BY <1>1, <1>2, <1>3 DEF Fetches!LedgerIsBacked, Fetches!Accounted
<1>5. Fetches(u)!OnlyWasteEscapes
  <2>. SUFFICES ASSUME Fetches(u)!AtRest, ~v12 PROVE Fetches(u)!Total + v11 = v10
    BY DEF Fetches!OnlyWasteEscapes
  <2>1. Fetches(u)!Total + v11 + Fetches(u)!Held = v10
    BY <1>1 DEF Fetches!Accounted
  <2>. QED
    BY <1>2, <1>3, <2>1
<1>6. Fetches(u)!EvidenceAtRest
  <2>. SUFFICES ASSUME Fetches(u)!AtRest, ~v12, NEW h \in EgressOf[u].host, v2[h].file = "whole"
                PROVE  v3[v2[h].of] = "whole"
    BY DEF Fetches!EvidenceAtRest
  <2>1. v2[h].of \in Fetches(u)!Content /\ v3[v2[h].of] \in Fetches(u)!File
    BY <1>1 DEF Fetches!TypeOK
  <2>2. v3[v2[h].of] # "none"
    BY <1>1 DEF Fetches!BodiesFirst
  <2>3. v3[v2[h].of] # "torn"
    BY <1>1, <2>1 DEF Fetches!BodiesFirst, Fetches!AtRest
  <2>. QED
    BY <2>1, <2>2, <2>3 DEF Fetches!File
<1>. QED
  BY <1>1, <1>4, <1>5, <1>6 DEF Fetches!EgressInv


-----------------------------------------------------------------------------
(***************************************************************************)
(* All of them.                                                            *)
(***************************************************************************)

(* The table in use keeps the invariant of its component.                  *)
TablesInv ==
  /\ \A u \in Graphs : Claiming(u) => Graph(u)!ClaimsInv
  /\ \A u \in Memories : Remembering(u) => Memo(u)!MemoryInv
  /\ table = "ballots" => Stats!BallotsInv
  /\ \A u \in Ledgers : Billing(u) => Ledger(u)!LedgerInv /\ Balanced(u)
  /\ table = "delegations" => Delegations!DelegateInv
  /\ \A u \in Egresses : Fetching(u) => Fetches(u)!EgressInv

(* What each table begins with.                                            *)
LEMMA TablesStart ==
  Init => /\ TablesInv
          /\ table = "delegations" => Delegations!SessionsStart /\ Delegations!RequestersStart
          /\ \A u \in Egresses : /\ BytesCapped(u) => Fetches(u)!BytesBudget!Init
                                 /\ HostsCapped(u) => Fetches(u)!HostBudget!Init
<1>. SUFFICES ASSUME Init
              PROVE  /\ TablesInv
                     /\ table = "delegations" =>
                          Delegations!SessionsStart /\ Delegations!RequestersStart
                     /\ \A u \in Egresses : /\ BytesCapped(u) => Fetches(u)!BytesBudget!Init
                                            /\ HostsCapped(u) => Fetches(u)!HostBudget!Init
  OBVIOUS
<1>1. ASSUME NEW u \in Graphs, Claiming(u) PROVE Graph(u)!ClaimsInv
  <2>1. Graph(u)!Init /\ Graph(u)!ClaimsAssumption
    BY <1>1, ConstantsFit DEF Init, Claiming
  <2>. QED
    BY <2>1, ClaimsStart
<1>2. ASSUME NEW u \in Memories, Remembering(u) PROVE Memo(u)!MemoryInv
  <2>1. Memo(u)!Init /\ Memo(u)!MemoryAssumption
    BY <1>2, ConstantsFit DEF Init, Remembering
  <2>. QED
    BY <2>1, MemoryStarts
<1>3. table = "ballots" => Stats!BallotsInv
  BY ConstantsFit, BallotsStart DEF Init
<1>4. ASSUME NEW u \in Ledgers, Billing(u) PROVE Ledger(u)!LedgerInv /\ Balanced(u)
  <2>1. Ledger(u)!Init /\ Ledger(u)!LedgerAssumption
    BY <1>4, ConstantsFit DEF Init, Billing
  <2>. QED
    BY <2>1, LedgerStarts, BalancedAtFirst
<1>5. table = "delegations" =>
        Delegations!DelegateInv /\ Delegations!SessionsStart /\ Delegations!RequestersStart
  BY ConstantsFit, DelegateStarts DEF Init
<1>6. ASSUME NEW u \in Egresses, Fetching(u)
      PROVE  /\ Fetches(u)!EgressInv
             /\ BytesCapped(u) => Fetches(u)!BytesBudget!Init
             /\ HostsCapped(u) => Fetches(u)!HostBudget!Init
  <2>1. Fetches(u)!Init /\ Fetches(u)!EgressAssumption
    BY <1>6, ConstantsFit DEF Init, Fetching
  <2>. QED
    BY <2>1, EgressStarts DEF BytesCapped, HostsCapped
<1>. QED
  BY <1>1, <1>2, <1>3, <1>4, <1>5, <1>6 DEF TablesInv, BytesCapped, HostsCapped

(* A step of the whole is one of the table in use, or none.                *)
LEMMA TableSteps ==
  ASSUME [Next]_vars
  PROVE  /\ table' = table /\ use' = use
         /\ \A u \in Graphs : Claiming(u) => [Graph(u)!Next]_(Graph(u)!vars)
         /\ \A u \in Memories : Remembering(u) => [Memo(u)!Next]_(Memo(u)!vars)
         /\ table = "ballots" => [Stats!Next]_(Stats!vars)
         /\ \A u \in Ledgers : Billing(u) => [Ledger(u)!Next]_(Ledger(u)!vars)
         /\ table = "delegations" => [Delegations!Next]_(Delegations!vars)
         /\ \A u \in Egresses : Fetching(u) => [Fetches(u)!Next]_(Fetches(u)!vars)
<1>1. table' = table /\ use' = use
  BY DEF Next, vars
<1>2. ASSUME NEW u \in Graphs, Claiming(u) PROVE [Graph(u)!Next]_(Graph(u)!vars)
  BY <1>2 DEF Next, vars, Claiming, Graph!vars, Graph!table
<1>3. ASSUME NEW u \in Memories, Remembering(u) PROVE [Memo(u)!Next]_(Memo(u)!vars)
  BY <1>3 DEF Next, vars, Remembering, Memo!vars
<1>4. table = "ballots" => [Stats!Next]_(Stats!vars)
  BY DEF Next, vars, Stats!vars
<1>5. ASSUME NEW u \in Ledgers, Billing(u) PROVE [Ledger(u)!Next]_(Ledger(u)!vars)
  BY <1>5 DEF Next, AtRest, vars, Billing, Ledger!vars
<1>6. table = "delegations" => [Delegations!Next]_(Delegations!vars)
  BY DEF Next, vars, Delegations!vars
<1>7. ASSUME NEW u \in Egresses, Fetching(u) PROVE [Fetches(u)!Next]_(Fetches(u)!vars)
  BY <1>7 DEF Next, vars, Fetching, Fetches!vars
<1>. QED
  BY <1>1, <1>2, <1>3, <1>4, <1>5, <1>6, <1>7

LEMMA TablesSteps == TablesInv /\ [Next]_vars => TablesInv'
<1>. SUFFICES ASSUME TablesInv, [Next]_vars PROVE TablesInv'
  OBVIOUS
<1>1. ASSUME NEW u \in Graphs, Claiming(u) PROVE Graph(u)!ClaimsInv'
  BY <1>1, TableSteps, ConstantsFit, ClaimsStep DEF TablesInv
<1>2. ASSUME NEW u \in Memories, Remembering(u) PROVE Memo(u)!MemoryInv'
  BY <1>2, TableSteps, ConstantsFit, MemorySteps DEF TablesInv
<1>3. table = "ballots" => Stats!BallotsInv'
  BY TableSteps, ConstantsFit, BallotsStep DEF TablesInv
<1>4. ASSUME NEW u \in Ledgers, Billing(u) PROVE Ledger(u)!LedgerInv' /\ Balanced(u)'
  <2>1. /\ Ledger(u)!LedgerAssumption /\ Ledger(u)!LedgerInv /\ Balanced(u)
        /\ [Ledger(u)!Next]_(Ledger(u)!vars)
    BY <1>4, TableSteps, ConstantsFit DEF TablesInv
  <2>2. Ledger(u)!Backed
    BY <2>1 DEF Ledger!LedgerInv
  <2>. QED
    BY <2>1, <2>2, LedgerSteps, StepBalanced
<1>5. table = "delegations" => Delegations!DelegateInv'
  BY TableSteps, ConstantsFit, DelegateSteps DEF TablesInv
<1>6. ASSUME NEW u \in Egresses, Fetching(u) PROVE Fetches(u)!EgressInv'
  BY <1>6, TableSteps, ConstantsFit, EgressSteps DEF TablesInv
<1>7. table' = table /\ use' = use
  BY TableSteps
<1>. QED
  BY <1>1, <1>2, <1>3, <1>4, <1>5, <1>6, <1>7
  DEF TablesInv, Claiming, Remembering, Billing, Fetching

(* The inductive invariant of the database.                                *)
THEOREM Invariance == Spec => []TablesInv
<1>. QED
  BY TablesStart, TablesSteps, PTL DEF Spec

(* The variables always have their types.                                  *)
THEOREM TypeCorrect == Spec => []TypeOK
<1>1. TablesInv => TypeOK
  <2>. SUFFICES ASSUME TablesInv PROVE TypeOK
    OBVIOUS
  <2>1. ASSUME NEW u \in Graphs, Claiming(u) PROVE Graph(u)!TypeOK
    BY <2>1, ClaimsHold DEF TablesInv
  <2>2. ASSUME NEW u \in Memories, Remembering(u) PROVE Memo(u)!TypeOK
    BY <2>2, MemoryHolds DEF TablesInv
  <2>3. table = "ballots" => Stats!TypeOK
    BY BallotsHold DEF TablesInv
  <2>4. ASSUME NEW u \in Ledgers, Billing(u) PROVE Ledger(u)!TypeOK
    BY <2>4, ConstantsFit, LedgerHolds DEF TablesInv
  <2>5. table = "delegations" => Delegations!TypeOK
    BY ConstantsFit, DelegateHolds DEF TablesInv
  <2>6. ASSUME NEW u \in Egresses, Fetching(u) PROVE Fetches(u)!TypeOK
    BY <2>6, ConstantsFit, EgressHolds DEF TablesInv
  <2>. QED
    BY <2>1, <2>2, <2>3, <2>4, <2>5, <2>6 DEF TypeOK
<1>. QED
  BY <1>1, Invariance, PTL

(* Servers that add similar claims at once do not miss each other, links   *)
(* stay in their session, a synthesis that was cut off leaves one claim    *)
(* unlinked at most, and one server links only to what was there before.   *)
THEOREM GraphsAreSound == Spec => []LinksSound
<1>1. TablesInv => LinksSound
  BY ClaimsHold DEF TablesInv, LinksSound
<1>. QED
  BY <1>1, Invariance, PTL

(* Once stale, always stale; no row that was contradicted before a gate    *)
(* closed is put in a prompt; and with one server nothing fresh goes back  *)
(* to such a row. A gate is an UPDATE that may fail or never come.         *)
THEOREM MemoryIsGated == Spec => MemoryGate
<1>1. TablesInv => \A u \in Memories : Remembering(u) /\ Alone(MemoryOf[u].server)
                                        => Memo(u)!FreshIsUntainted
  BY MemoryHolds DEF TablesInv
<1>2. TablesInv /\ [Next]_vars =>
        [\A u \in Memories : Remembering(u) => Memo(u)!StaleStep /\ Memo(u)!InjectStep]_vars
  <2>1. SUFFICES ASSUME TablesInv, [Next]_vars, NEW u \in Memories, Remembering(u)
                 PROVE  Memo(u)!StaleStep /\ Memo(u)!InjectStep
    OBVIOUS
  <2>. QED
    BY <2>1, TableSteps, ConstantsFit, MemorySteps DEF TablesInv
<1>. QED
  BY <1>1, <1>2, Invariance, PTL DEF Spec, MemoryGate

(* Every ballot is counted once or lost with what failed, and moves the    *)
(* weights of its provider the way it was cast.                            *)
THEOREM BallotsAreCounted == Spec => BallotsCounted
<1>1. TablesInv => (table = "ballots" => Stats!BallotsCounted)
  BY BallotsHold DEF TablesInv
<1>2. TablesInv /\ [Next]_vars => [table = "ballots" => Stats!WeightsStep]_vars
  <2>1. SUFFICES ASSUME TablesInv, [Next]_vars, table = "ballots" PROVE Stats!WeightsStep
    OBVIOUS
  <2>. QED
    BY <2>1, TableSteps, WeighsRight DEF TablesInv
<1>. QED
  BY <1>1, <1>2, Invariance, PTL DEF Spec, BallotsCounted

(* Rows, logs, delegations, the egress ledger and its evidence say what    *)
(* happened; the log lacks what no answer's usage showed, the egress       *)
(* ledger the transfers that returned no page; and a tripped session that  *)
(* one server uses is not billed.                                          *)
THEOREM LedgersTrue == Spec => LedgersAreTrue
<1>1. TablesInv =>
        /\ \A u \in Ledgers : Billing(u) =>
             /\ Ledger(u)!RowIsBacked
             /\ Ledger(u)!LogIsComplete
             /\ Alone(LedgerOf[u].process) => Ledger(u)!RowIsCumulative
        /\ table = "delegations" => Delegations!ChargedForWork
        /\ \A u \in Egresses : Fetching(u) => /\ Fetches(u)!LedgerIsBacked
                                              /\ Fetches(u)!OnlyWasteEscapes
                                              /\ Fetches(u)!EvidenceAtRest
  BY ConstantsFit, LedgerHolds, DelegateHolds, EgressHolds DEF TablesInv
<1>2. TablesInv /\ [Next]_vars =>
        [\A u \in Ledgers : Billing(u) /\ Alone(LedgerOf[u].process)
                               => Ledger(u)!TrippedStep]_vars
  <2>1. SUFFICES ASSUME TablesInv, [Next]_vars, NEW u \in Ledgers, Billing(u),
                        Alone(LedgerOf[u].process)
                 PROVE  Ledger(u)!TrippedStep
    OBVIOUS
  <2>. QED
    BY <2>1, TableSteps, BreakerHolds DEF TablesInv
<1>. QED
  BY <1>1, <1>2, Invariance, PTL DEF Spec, LedgersAreTrue

(* The quotas and the caps are Budgets: nobody enters one that is used up, *)
(* and those inside overshoot it by what each may add at most.             *)
THEOREM BudgetsAreKept == Spec => BudgetsHold
<1>1. Init =>
        /\ table = "delegations" =>
             Delegations!SessionsStart /\ Delegations!RequestersStart
        /\ \A u \in Egresses : /\ BytesCapped(u) => Fetches(u)!BytesBudget!Init
                               /\ HostsCapped(u) => Fetches(u)!HostBudget!Init
  BY TablesStart
<1>2. TablesInv =>
        /\ table = "delegations" => Delegations!QuotaOvershoot
        /\ \A u \in Egresses : /\ BytesCapped(u) => Fetches(u)!BytesOvershoot
                               /\ HostsCapped(u) => Fetches(u)!HostsOvershoot
  BY ConstantsFit, DelegateHolds, EgressHolds DEF TablesInv, BytesCapped, HostsCapped
<1>3. TablesInv /\ [Next]_vars =>
        [table = "delegations" => Delegations!SessionsStep /\ Delegations!RequestersStep]_vars
  <2>1. SUFFICES ASSUME TablesInv, [Next]_vars, table = "delegations"
                 PROVE  Delegations!SessionsStep /\ Delegations!RequestersStep
    OBVIOUS
  <2>. QED
    BY <2>1, TableSteps, ConstantsFit, DelegateSteps DEF TablesInv
<1>4. TablesInv /\ [Next]_vars =>
        [\A u \in Egresses : /\ BytesCapped(u) => Fetches(u)!BytesStep
                             /\ HostsCapped(u) => Fetches(u)!HostsStep]_vars
  <2>1. SUFFICES ASSUME TablesInv, [Next]_vars, NEW u \in Egresses
                 PROVE  /\ BytesCapped(u) => Fetches(u)!BytesStep
                        /\ HostsCapped(u) => Fetches(u)!HostsStep
    OBVIOUS
  <2>. QED
    BY <2>1, TableSteps, ConstantsFit, EgressSteps DEF TablesInv, BytesCapped, HostsCapped
<1>. QED
  BY <1>1, <1>2, <1>3, <1>4, Invariance, PTL DEF Spec, BudgetsHold
=============================================================================
