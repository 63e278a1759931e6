------------------------------ MODULE Ballots ------------------------------
(***************************************************************************)
(* provider_stats of src/servers/python/crosscheck_server.py: the critics' *)
(* ballots of tool_coordinate and the passed and failed goldens of         *)
(* tool_bench, recorded by _record_ballot in two statements, each ballot   *)
(* under a try of its own, by servers that share the database; and the     *)
(* three weights that are computed from the counts.                        *)
(***************************************************************************)
EXTENDS Naturals, FiniteSets, Functions

CONSTANTS
  Provider,      (* the providers *)
  Server,        (* the server processes *)
  MaxGoldens,    (* bound: goldens of one bench *)
  MaxCalls       (* bound: calls of all servers *)

BallotsAssumption ==
  /\ IsFiniteSet(Provider) /\ Provider # {}
  /\ IsFiniteSet(Server)
  /\ MaxGoldens \in Nat
  /\ MaxCalls \in Nat

VARIABLES
  stats,         (* the rows of provider_stats *)
  pc,            (* what a server is doing *)
  todo,          (* the ballots its call has still to record *)
  vote,          (* the ballot it is recording *)
  calls,         (* bound: calls made *)
  demanded,      (* history: the ballots of every call *)
  lost           (* history: those a failure or a kill has dropped *)

vars == <<stats, pc, todo, vote, calls, demanded, lost>>

Ballot == {"agree", "disagree", "abstain"}
Votes == Provider \X Ballot
Zero == [v \in Votes |-> 0]

Row == [there |-> TRUE, wins |-> 0, losses |-> 0, abstains |-> 0]
NoRow == [Row EXCEPT !.there = FALSE]

(* Mutant: who disagrees wins.                                             *)
ColumnSwapped(b) ==
  CASE b = "agree" -> "losses" [] b = "disagree" -> "wins" [] b = "abstain" -> "abstains"

Column(b) ==
  CASE b = "agree" -> "wins" [] b = "disagree" -> "losses" [] b = "abstain" -> "abstains"

-----------------------------------------------------------------------------

Init ==
  /\ stats = [p \in Provider |-> NoRow]
  /\ pc = [s \in Server |-> "idle"]
  /\ todo = [s \in Server |-> Zero]
  /\ vote = [s \in Server |-> CHOOSE v \in Votes : TRUE]
  /\ calls = 0
  /\ demanded = Zero
  /\ lost = Zero

(* A critic casts one ballot, or none that can be used. *)
Coordinate == {f \in [Votes -> 0 .. 1] : \A p \in Provider :
                 Cardinality({b \in Ballot : f[<<p, b>>] = 1}) <= 1}

(* A provider passes or fails each golden, or errs. *)
Bench == {f \in [Votes -> 0 .. MaxGoldens] : \A p \in Provider :
            f[<<p, "agree">>] + f[<<p, "disagree">>] <= MaxGoldens /\ f[<<p, "abstain">>] = 0}

Begin(s) ==
  /\ pc[s] = "idle"
  /\ calls < MaxCalls
  /\ \E f \in Coordinate \union Bench :
       /\ todo' = [todo EXCEPT ![s] = f]
       /\ demanded' = [v \in Votes |-> demanded[v] + f[v]]
  /\ pc' = [pc EXCEPT ![s] = "voting"]
  /\ calls' = calls + 1
  /\ UNCHANGED <<stats, vote, lost>>

(* Mutant: the row is replaced by a new one.                               *)
InsertReplacing(s) ==
  /\ pc[s] = "voting"
  /\ \E v \in Votes :
       /\ todo[s][v] > 0
       /\ vote' = [vote EXCEPT ![s] = v]
       /\ todo' = [todo EXCEPT ![s][v] = @ - 1]
       /\ stats' = [stats EXCEPT ![v[1]] = Row]
  /\ pc' = [pc EXCEPT ![s] = "update"]
  /\ UNCHANGED <<calls, demanded, lost>>

(* INSERT ... ON CONFLICT touches last_at only.                            *)
Insert(s) ==
  /\ pc[s] = "voting"
  /\ \E v \in Votes :
       /\ todo[s][v] > 0
       /\ vote' = [vote EXCEPT ![s] = v]
       /\ todo' = [todo EXCEPT ![s][v] = @ - 1]
       /\ stats' = [stats EXCEPT ![v[1]] = [@ EXCEPT !.there = TRUE]]
  /\ pc' = [pc EXCEPT ![s] = "update"]
  /\ UNCHANGED <<calls, demanded, lost>>

InsertFails(s) ==
  /\ pc[s] = "voting"
  /\ \E v \in Votes :
       /\ todo[s][v] > 0
       /\ todo' = [todo EXCEPT ![s][v] = @ - 1]
       /\ lost' = [lost EXCEPT ![v] = @ + 1]
  /\ UNCHANGED <<stats, pc, vote, calls, demanded>>

Update(s) ==
  /\ pc[s] = "update"
  /\ stats' = [stats EXCEPT ![vote[s][1]][Column(vote[s][2])] = @ + 1]
  /\ pc' = [pc EXCEPT ![s] = "voting"]
  /\ UNCHANGED <<todo, vote, calls, demanded, lost>>

UpdateFails(s) ==
  /\ pc[s] = "update"
  /\ lost' = [lost EXCEPT ![vote[s]] = @ + 1]
  /\ pc' = [pc EXCEPT ![s] = "voting"]
  /\ UNCHANGED <<stats, todo, vote, calls, demanded>>

End(s) ==
  /\ pc[s] = "voting"
  /\ todo[s] = Zero
  /\ pc' = [pc EXCEPT ![s] = "idle"]
  /\ UNCHANGED <<stats, todo, vote, calls, demanded, lost>>

(* The ballots of s that are in no row yet. *)
Pending(s, v) == todo[s][v] + IF pc[s] = "update" /\ vote[s] = v THEN 1 ELSE 0

Kill(s) ==
  /\ pc[s] # "idle"
  /\ lost' = [v \in Votes |-> lost[v] + Pending(s, v)]
  /\ todo' = [todo EXCEPT ![s] = Zero]
  /\ pc' = [pc EXCEPT ![s] = "idle"]
  /\ UNCHANGED <<stats, vote, calls, demanded>>

Next == \E s \in Server :
  Begin(s) \/ Insert(s) \/ InsertFails(s) \/ Update(s) \/ UpdateFails(s) \/ End(s) \/ Kill(s)

Spec == Init /\ [][Next]_vars

-----------------------------------------------------------------------------
(* The weights of a row, as fractions <<numerator, denominator>>.          *)

Committed(r) == r.wins + r.losses
Total(r) == Committed(r) + r.abstains

(* _provider_weights, the weights triangulate answers with.                *)
TriangulateWeight(r) ==
  IF Total(r) = 0 THEN <<1, 1>>
  ELSE IF Committed(r) = 0 THEN <<1, 2>> ELSE <<r.wins, Committed(r)>>

(* _provider_weight, the tie-break of the cheap-mode router.               *)
RouterWeight(r) ==
  IF Total(r) = 0 THEN <<1, 2>> ELSE <<2 * r.wins + r.abstains, 2 * Total(r)>>

(* tool_scoreboard, for a row that is there.                               *)
BoardWeight(r) == IF Committed(r) = 0 THEN <<1, 1>> ELSE <<r.wins, Committed(r)>>

Leq(x, y) == x[1] * y[2] <= y[1] * x[2]

-----------------------------------------------------------------------------

(* The values the variables range over.                                    *)
TypeOK ==
  /\ stats \in [Provider -> [there : BOOLEAN, wins : Nat, losses : Nat, abstains : Nat]]
  /\ \A p \in Provider : ~stats[p].there => stats[p] = NoRow
  /\ pc \in [Server -> {"idle", "voting", "update"}]
  /\ todo \in [Server -> [Votes -> Nat]]
  /\ vote \in [Server -> Votes]
  /\ calls \in 0 .. MaxCalls
  /\ demanded \in [Votes -> Nat]
  /\ lost \in [Votes -> Nat]

(* What all servers have still to record of a vote.                        *)
Open(v) == SumFunction([s \in Server |-> Pending(s, v)])

(* Every ballot of every call is counted once, in the column of what was   *)
(* cast, unless a statement failed or its server died: servers that record *)
(* at once overwrite nothing.                                              *)
BallotsCounted ==
  \A p \in Provider, b \in Ballot :
    stats[p][Column(b)] + lost[<<p, b>>] + Open(<<p, b>>) = demanded[<<p, b>>]

(* A provider's agreement never lowers its weight, in triangulate or in    *)
(* the router, and its disagreement never raises it.                       *)
WeightsStep ==
  \A p \in Provider : \A w \in {"triangulate", "router"} :
    LET W(r) == IF w = "router" THEN RouterWeight(r) ELSE TriangulateWeight(r)
        rise(b) == \E s \in Server : pc[s] = "update" /\ pc'[s] = "voting" /\ lost' = lost
                                       /\ vote[s] = <<p, b>>
    IN  /\ rise("agree") => Leq(W(stats[p]), W(stats'[p]))
        /\ rise("disagree") => Leq(W(stats'[p]), W(stats[p]))

(* schema/tools.schema.json:1348, the scoreboard "surfaces the per-repo    *)
(* win-rate that triangulate uses for weights": false of a provider that   *)
(* has only abstained.                                                     *)
BoardIsTriangulate ==
  \A p \in Provider : stats[p].there => BoardWeight(stats[p]) = TriangulateWeight(stats[p])

-----------------------------------------------------------------------------

(* The inductive invariant. *)
BallotsInv ==
  /\ TypeOK
  /\ \A s \in Server : /\ pc[s] = "idle" => todo[s] = Zero
                       /\ pc[s] = "update" => stats[vote[s][1]].there
  /\ BallotsCounted
=============================================================================
