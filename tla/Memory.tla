------------------------------- MODULE Memory -------------------------------
(***************************************************************************)
(* The working memory of a session (table session_memory) in               *)
(* src/servers/python/crosscheck_server.py: tool_coordinate and            *)
(* tool_confer put it into their prompts, tool_coordinate adds what its    *)
(* synthesis says, tool_session_memory edits it, and after an audit that   *)
(* fails an UPDATE marks all of it stale, the anti-poisoning gate. Servers *)
(* share the database; each SQL statement is one step and may fail.        *)
(***************************************************************************)
EXTENDS Naturals, Sequences, FiniteSets

CONSTANTS
  Server,        (* server processes on one database *)
  Kind,          (* the kinds of rows *)
  Limit,         (* _SESSION_MEMORY_DEFAULT_LIMIT: rows put into a prompt *)
  MaxRows        (* bound: rows ever added *)

MemoryAssumption == Limit \in Nat /\ MaxRows \in Nat

VARIABLES
  rows,          (* session_memory in the order of its ids: kind, state, and *)
                 (* as history the rows its text may go back to              *)
  pc,            (* what each server's tool call does next *)
  prompt,        (* the rows that its prompt was given *)
  contradicted,  (* history: rows that were there when an audit failed *)
  open           (* history: those of them that no gate has reached since *)

vars == <<rows, pc, prompt, contradicted, open>>

Fresh == {i \in DOMAIN rows : rows[i].state = "fresh"}

(* The newest Limit rows of a set. *)
Newest(ids) == {i \in ids : Cardinality({j \in ids : j > i}) < Limit}

-----------------------------------------------------------------------------

Init ==
  /\ rows = <<>>
  /\ pc = [s \in Server |-> "idle"]
  /\ prompt = [s \in Server |-> {}]
  /\ contradicted = {}
  /\ open = {}

(* Mutant: the rows are taken without looking at stale_at. *)
InjectAny(s) ==
  /\ pc[s] = "idle"
  /\ prompt' = [prompt EXCEPT ![s] = Newest(DOMAIN rows)]
  /\ pc' = [pc EXCEPT ![s] = "asking"]
  /\ UNCHANGED <<rows, contradicted, open>>

(* A coordinate or confer call with inject_session_memory. *)
Inject(s) ==
  /\ pc[s] = "idle"
  /\ prompt' = [prompt EXCEPT ![s] = Newest(Fresh)]
  /\ pc' = [pc EXCEPT ![s] = "asking"]
  /\ UNCHANGED <<rows, contradicted, open>>

(* One without it, or whose select fails: the block is then empty. *)
Ask(s) ==
  /\ pc[s] = "idle"
  /\ pc' = [pc EXCEPT ![s] = "asking"]
  /\ UNCHANGED <<rows, prompt, contradicted, open>>

(* Rows and the rows that their texts may go back to. *)
Origins(ids) == ids \union UNION {rows[i].roots : i \in ids}

Row(kind, roots) == [kind |-> kind, state |-> "fresh", roots |-> roots]

(* coordinate, its synthesis answered: the decision, facts, dissent and    *)
(* open questions, one by one.                                             *)
Remember(s) ==
  /\ pc[s] = "asking"
  /\ Len(rows) < MaxRows
  /\ \E kind \in Kind : rows' = Append(rows, Row(kind, Origins(prompt[s])))
  /\ UNCHANGED <<pc, prompt, contradicted, open>>

(* The last row is added, a row fails, the call fails, or its server dies. *)
Leave(s) ==
  /\ pc[s] = "asking"
  /\ pc' = [pc EXCEPT ![s] = "idle"]
  /\ prompt' = [prompt EXCEPT ![s] = {}]
  /\ UNCHANGED <<rows, contradicted, open>>

Staled(ids) ==
  [i \in DOMAIN rows |-> IF i \in ids \intersect Fresh THEN [rows[i] EXCEPT !.state = "stale"]
                         ELSE rows[i]]

(* The verdict of an audit of one judge or of a panel: not all items pass. *)
AuditFails(s) ==
  /\ pc[s] = "idle"
  /\ contradicted' = contradicted \union Fresh
  /\ open' = open \union Fresh
  /\ pc' = [pc EXCEPT ![s] = "gate"]
  /\ UNCHANGED <<rows, prompt>>

(* Mutant: the gate closes on the rows that a prompt would show. *)
CloseGateNewest(s) ==
  /\ pc[s] = "gate"
  /\ rows' = Staled(Newest(Fresh))
  /\ open' = {}
  /\ pc' = [pc EXCEPT ![s] = "idle"]
  /\ UNCHANGED <<prompt, contradicted>>

(* The gate: neither ids nor kinds, so every row that is not stale yet. *)
CloseGate(s) ==
  /\ pc[s] = "gate"
  /\ rows' = Staled(DOMAIN rows)
  /\ open' = {}
  /\ pc' = [pc EXCEPT ![s] = "idle"]
  /\ UNCHANGED <<prompt, contradicted>>

(* The UPDATE raises, which is swallowed, or the server dies before it.    *)
GateFails(s) ==
  /\ pc[s] = "gate"
  /\ pc' = [pc EXCEPT ![s] = "idle"]
  /\ UNCHANGED <<rows, prompt, contradicted, open>>

Add(s) ==
  /\ pc[s] = "idle"
  /\ Len(rows) < MaxRows
  /\ \E kind \in Kind : rows' = Append(rows, Row(kind, {}))
  /\ UNCHANGED <<pc, prompt, contradicted, open>>

(* Mutant: marking rows turns those marked before. *)
MarkStaleToggling(s) ==
  /\ pc[s] = "idle"
  /\ \E ids \in SUBSET DOMAIN rows, kinds \in SUBSET Kind :
       rows' = [i \in DOMAIN rows |->
                  CASE rows[i].state = "deleted" -> rows[i]
                    [] i \in ids -> [rows[i] EXCEPT !.state = IF @ = "fresh" THEN "stale" ELSE "fresh"]
                    [] OTHER -> rows[i]]
  /\ UNCHANGED <<pc, prompt, contradicted, open>>

(* By ids, by kinds, by both; an empty list is no restriction. *)
MarkStale(s) ==
  /\ pc[s] = "idle"
  /\ \E ids \in SUBSET DOMAIN rows, kinds \in SUBSET Kind :
       rows' = Staled({i \in DOMAIN rows : /\ ids # {} => i \in ids
                                           /\ kinds # {} => rows[i].kind \in kinds})
  /\ UNCHANGED <<pc, prompt, contradicted, open>>

Clear(s) ==
  /\ pc[s] = "idle"
  /\ rows' = [i \in DOMAIN rows |-> [rows[i] EXCEPT !.state = "deleted"]]
  /\ UNCHANGED <<pc, prompt, contradicted, open>>

-----------------------------------------------------------------------------

Call(s) ==
  \/ Inject(s) \/ Ask(s) \/ Remember(s) \/ Leave(s)
  \/ AuditFails(s) \/ CloseGate(s) \/ GateFails(s)
  \/ Add(s) \/ MarkStale(s) \/ Clear(s)

Next == \E s \in Server : Call(s)

Spec == Init /\ [][Next]_vars

-----------------------------------------------------------------------------

Rows == [kind : Kind, state : {"fresh", "stale", "deleted"}, roots : SUBSET Nat]

(* The variables have their types; a text goes back to earlier rows only. *)
TypeOK ==
  /\ rows \in Seq(Rows)
  /\ Len(rows) <= MaxRows
  /\ \A i \in DOMAIN rows : rows[i].roots \subseteq 1 .. i - 1
  /\ pc \in [Server -> {"idle", "asking", "gate"}]
  /\ prompt \in [Server -> SUBSET DOMAIN rows]
  /\ contradicted \subseteq DOMAIN rows
  /\ open \subseteq contradicted

(* A row that is stale stays stale until it is deleted, and a deleted one  *)
(* is gone.                                                                *)
StaleStep ==
  \A i \in DOMAIN rows :
    \/ rows'[i] = rows[i]
    \/ rows[i].state = "fresh"
    \/ rows[i].state = "stale" /\ rows'[i].state = "deleted"

(* No prompt is given a row that stood when an audit failed, by whichever  *)
(* server, once any gate has closed after it (crosscheck_server.py:1275: a *)
(* stale entry never auto-injects). Between the verdict and the UPDATE,    *)
(* and where the UPDATE fails, until the next one, it may be given.        *)
InjectStep ==
  \A s \in Server :
    prompt'[s] # prompt[s] => prompt'[s] \intersect contradicted \subseteq open

(* What a prompt may be given goes back to no row that an audit has found  *)
(* wanting and a gate has closed on, over any number of calls and failed   *)
(* gates. True of one server; with two, a call that was in flight when the *)
(* gate closed adds rows made of the old ones.                             *)
FreshIsUntainted ==
  Origins(Fresh) \intersect contradicted \subseteq open

(* crosscheck_server.py:1272: on a failed audit the server marks every     *)
(* entry of the session stale. False where that UPDATE fails (:7971).      *)
AuditsClose ==
  (\A s \in Server : pc[s] # "gate") => Fresh \intersect contradicted = {}

-----------------------------------------------------------------------------

(* With one server, what a call was given is as good as what is fresh.     *)
Untainted ==
  \A s \in Server : Origins(Fresh \union prompt[s]) \intersect contradicted \subseteq open

(* The inductive invariant. *)
MemoryInv ==
  /\ TypeOK
  /\ Fresh \intersect contradicted \subseteq open
  /\ \A s \in Server : pc[s] # "asking" => prompt[s] = {}
  /\ (\E s \in Server : Server = {s}) => Untainted
=============================================================================
