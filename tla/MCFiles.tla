------------------------------ MODULE MCFiles -------------------------------
(***************************************************************************)
(* Files on a small instance: pins of one server and of two, a cache that  *)
(* is bounded by its entries and one that is bounded by its bytes.         *)
(***************************************************************************)
EXTENDS Files, TLC

CONSTANTS
  m1, m2, f3,    (* contents or models, and a key *)
  m1CRLF,        (* the text of m1 with other line endings *)
  f1, f2,        (* files or keys *)
  s0, s1, s2,    (* a server alone, and others at once *)
  n1, n2         (* sessions *)

(* Two texts, the first of them with either line ending.                   *)
Contents == {m1, m2, m1CRLF}
Texts == [w \in Contents |-> IF w = m1CRLF THEN m1 ELSE w]

PinUses ==
  [alone |-> [server |-> {s0}, file |-> {f1, f2}, content |-> Contents,
              text |-> Texts, reject |-> TRUE,
              action |-> {"show", "set", "accept_drift", "clear"},
              edits |-> 2, calls |-> 2],
   shared |-> [server |-> {s1, s2}, file |-> {f1, f2}, content |-> {m1, m2},
               text |-> [w \in {m1, m2} |-> w], reject |-> TRUE,
               action |-> {"set", "accept_drift"}, edits |-> 1, calls |-> 2]]

CacheUses ==
  [entries |-> [thread |-> {s0, s1, s2}, key |-> {f1, f2}, entries |-> 1,
                bytes |-> 0, ops |-> 1],
   bytes |-> [thread |-> {s1, s2}, key |-> {f1, f2, f3}, entries |-> 3,
              bytes |-> 2, ops |-> 2]]

(* Two servers or threads are interchangeable; so are the files, and the   *)
(* sessions.                                                               *)
Symmetry ==
  Permutations({s1, s2}) \union Permutations({f1, f2}) \union Permutations({n1, n2})
=============================================================================
