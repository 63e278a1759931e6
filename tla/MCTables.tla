------------------------------ MODULE MCTables ------------------------------
(***************************************************************************)
(* Tables on a small instance: one server, and two or three at once.       *)
(***************************************************************************)
EXTENDS Tables, TLC

CONSTANTS
  m1, m2,        (* texts, providers or requesters *)
  s0, s1, s2,    (* a server alone, and others at once *)
  n1, n2,        (* sessions *)
  h1, h2, h3     (* hosts *)

(* m1 is similar to itself, any other text has no tokens and is similar to *)
(* none.                                                                   *)
Pairs == {<<m1, m1>>}

Kinds == {"consensus", "support", "dissent", "open_question"}

GraphUses ==
  [shared |-> [server |-> {s1, s2}, session |-> {n1}, text |-> {m1}, similar |-> Pairs,
               kind |-> {"support"}, items |-> 2, calls |-> 1],
   alone |-> [server |-> {s0}, session |-> {n1, n2}, text |-> {m1, m2}, similar |-> Pairs,
              kind |-> {"consensus", "dissent"}, items |-> 2, calls |-> 2],
   long |-> [server |-> {s0}, session |-> {n1}, text |-> {m1, m2}, similar |-> Pairs,
             kind |-> Kinds, items |-> 3, calls |-> 1]]

MemoryUses ==
  [shared |-> [server |-> {s1, s2}, kind |-> {"fact"}, limit |-> 2, rows |-> 3],
   alone |-> [server |-> {s0}, kind |-> {"fact", "decision"}, limit |-> 2, rows |-> 3]]

LedgerUses ==
  [shared |-> [process |-> {s0, s1, s2}, cap |-> 2, cost |-> 1, answers |-> 1, calls |-> 3],
   alone |-> [process |-> {s0}, cap |-> 3, cost |-> 2, answers |-> 2, calls |-> 3]]

EgressUses ==
  [failing |-> [fetcher |-> {s1, s2}, host |-> {h1, h2}, bytes |-> 2, session |-> 2,
                hosts |-> 1, fails |-> TRUE, fetches |-> 3],
   capped |-> [fetcher |-> {s1, s2}, host |-> {h1, h2, h3}, bytes |-> 1, session |-> 1,
               hosts |-> 1, fails |-> FALSE, fetches |-> 3]]

(* The two servers are interchangeable, and the hosts are.                *)
Symmetry == Permutations({s1, s2}) \union Permutations({h1, h2, h3})
=============================================================================
