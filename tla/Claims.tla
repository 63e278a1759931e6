------------------------------- MODULE Claims -------------------------------
(***************************************************************************)
(* The claim graph that several servers share in one database:             *)
(* _claim_add, _claim_dedupe and _claim_link of                            *)
(* src/servers/python/crosscheck_server.py, as tool_coordinate (which      *)
(* links the claims of a synthesis to its consensus), tool_debate and      *)
(* tool_pick (which do not) call them after their commit. One step per SQL *)
(* statement, each of which may fail; a server may die between any two.    *)
(* A text stands for its set of tokens.                                    *)
(***************************************************************************)
EXTENDS Naturals, Sequences

CONSTANTS
  Server,        (* server processes on one database *)
  Session,       (* session ids *)
  Text,          (* claim texts *)
  Similar,       (* pairs of texts whose Jaccard index reaches the threshold *)
  Kind,          (* the kinds of claims that syntheses hold *)
  MaxItems,      (* bound: claims of one synthesis *)
  MaxCalls       (* bound: calls of one server *)

ClaimsAssumption ==
  /\ Similar \subseteq Text \X Text
  /\ \A t, u \in Text : <<t, u>> \in Similar => <<u, t>> \in Similar
  /\ Kind \subseteq {"consensus", "support", "dissent", "open_question"}
  /\ MaxItems \in Nat
  /\ MaxCalls \in Nat

VARIABLES
  claims,        (* the table claims in the order of its ids, with the call  *)
                 (* that added the row and the consensus it should link to   *)
  links,         (* the table claim_links *)
  pc,            (* where each server's _claim_add is, or "idle" *)
  call,          (* its call: session, whether claims are linked, number,    *)
                 (* the rank of the kinds it has come to, claims added       *)
  cons,          (* consensus_id, 0 for None *)
  cur,           (* new_id *)
  merged,        (* the ids found similar and not linked yet *)
  missed         (* history: claims whose dedupe failed or was cut off *)

table == <<claims, links>>
vars == <<table, pc, call, cons, cur, merged, missed>>

(* The order in which the kinds of a synthesis are kept. *)
Rank == [consensus |-> 1, support |-> 2, dissent |-> 3, open_question |-> 4]

LinkKind == [support |-> "supports", dissent |-> "attacks"]

Link(src, dst, kind) == [src |-> src, dst |-> dst, kind |-> kind]

NoCall(n) == [session |-> "none", linking |-> FALSE, no |-> n, rank |-> 1, added |-> 0]

-----------------------------------------------------------------------------

Init ==
  /\ claims = <<>>
  /\ links = {}
  /\ pc = [s \in Server |-> "idle"]
  /\ call = [s \in Server |-> NoCall(0)]
  /\ cons = [s \in Server |-> 0]
  /\ cur = [s \in Server |-> 0]
  /\ merged = [s \in Server |-> {}]
  /\ missed = {}

Begin(s) ==
  /\ pc[s] = "idle"
  /\ call[s].no < MaxCalls
  /\ \E session \in Session, linking \in BOOLEAN :
       call' = [call EXCEPT ![s] = [session |-> session, linking |-> linking, no |-> @.no + 1,
                                    rank |-> 1, added |-> 0]]
  /\ pc' = [pc EXCEPT ![s] = "add"]
  /\ UNCHANGED <<table, cons, cur, merged, missed>>

(* The call is over, and its local variables with it. *)
Return(s) ==
  /\ pc' = [pc EXCEPT ![s] = "idle"]
  /\ call' = [call EXCEPT ![s] = NoCall(@.no)]
  /\ cons' = [cons EXCEPT ![s] = 0]
  /\ cur' = [cur EXCEPT ![s] = 0]
  /\ merged' = [merged EXCEPT ![s] = {}]

(* The consensus that a claim of kind k added by s is to be linked to. *)
Target(s, k) == IF call[s].linking /\ k \in DOMAIN LinkKind THEN cons[s] ELSE 0

(* The consensus, if there is one, comes first, then supporting claims,    *)
(* dissent and open questions.                                             *)
Insert(s) ==
  /\ pc[s] = "add"
  /\ call[s].added < MaxItems
  /\ \E kind \in Kind, text \in Text :
       /\ Rank[kind] >= call[s].rank
       /\ kind = "consensus" => call[s].added = 0
       /\ claims' = Append(claims, [session |-> call[s].session, text |-> text, kind |-> kind,
                                    server |-> s, no |-> call[s].no, target |-> Target(s, kind)])
       /\ call' = [call EXCEPT ![s].rank = Rank[kind], ![s].added = @ + 1]
  /\ cur' = [cur EXCEPT ![s] = Len(claims')]
  /\ pc' = [pc EXCEPT ![s] = "scan"]
  /\ UNCHANGED <<links, cons, merged, missed>>

(* The persistence is over, or an error ends it. *)
Leave(s) ==
  /\ pc[s] = "add"
  /\ Return(s)
  /\ UNCHANGED <<table, missed>>

Alike(i, session, text) == claims[i].session = session /\ <<claims[i].text, text>> \in Similar

(* Mutant: one similar claim is enough. *)
ScanOne(s) ==
  /\ pc[s] = "scan"
  /\ LET new == claims[cur[s]]
         found == {i \in DOMAIN claims \ {cur[s]} : Alike(i, new.session, new.text)}
     IN  merged' = [merged EXCEPT ![s] = IF found = {} THEN {} ELSE {CHOOSE i \in found : TRUE}]
  /\ pc' = [pc EXCEPT ![s] = "merge"]
  /\ UNCHANGED <<table, call, cons, cur, missed>>

(* Mutant: claims of every session are compared. *)
ScanEverywhere(s) ==
  /\ pc[s] = "scan"
  /\ LET new == claims[cur[s]]
     IN  merged' = [merged EXCEPT ![s] = {i \in DOMAIN claims \ {cur[s]} :
                                            Alike(i, claims[i].session, new.text)}]
  /\ pc' = [pc EXCEPT ![s] = "merge"]
  /\ UNCHANGED <<table, call, cons, cur, missed>>

(* Mutant: the new claim is compared with itself. *)
ScanSelf(s) ==
  /\ pc[s] = "scan"
  /\ LET new == claims[cur[s]]
     IN  merged' = [merged EXCEPT ![s] = {i \in DOMAIN claims : Alike(i, new.session, new.text)}]
  /\ pc' = [pc EXCEPT ![s] = "merge"]
  /\ UNCHANGED <<table, call, cons, cur, missed>>

Scan(s) ==
  /\ pc[s] = "scan"
  /\ LET new == claims[cur[s]]
     IN  merged' = [merged EXCEPT ![s] = {i \in DOMAIN claims \ {cur[s]} :
                                            Alike(i, new.session, new.text)}]
  /\ pc' = [pc EXCEPT ![s] = "merge"]
  /\ UNCHANGED <<table, call, cons, cur, missed>>

(* The select fails: the claim stays, without its merges. *)
ScanFails(s) ==
  /\ pc[s] = "scan"
  /\ missed' = missed \union {cur[s]}
  /\ pc' = [pc EXCEPT ![s] = "link"]
  /\ UNCHANGED <<table, call, cons, cur, merged>>

(* The similar claims are linked one by one, an error skips one of them. *)
Merge(s) ==
  /\ pc[s] = "merge"
  /\ merged[s] # {}
  /\ \E i \in merged[s] :
       /\ \A j \in merged[s] : i <= j
       /\ merged' = [merged EXCEPT ![s] = @ \ {i}]
       /\ \/ links' = links \union {Link(cur[s], i, "merges_with")} /\ UNCHANGED missed
          \/ missed' = missed \union {cur[s]} /\ UNCHANGED links
  /\ UNCHANGED <<claims, pc, call, cons, cur>>

Merged(s) ==
  /\ pc[s] = "merge"
  /\ merged[s] = {}
  /\ pc' = [pc EXCEPT ![s] = "link"]
  /\ UNCHANGED <<table, call, cons, cur, merged, missed>>

(* The caller links the claim to its consensus, or keeps it as such. *)
LinkRole(s) ==
  /\ pc[s] = "link"
  /\ LET new == claims[cur[s]]
     IN  /\ cons' = [cons EXCEPT ![s] = IF new.kind = "consensus" THEN cur[s] ELSE @]
         /\ links' = IF Target(s, new.kind) = 0 THEN links
                     ELSE links \union {Link(cur[s], cons[s], LinkKind[new.kind])}
  /\ pc' = [pc EXCEPT ![s] = "add"]
  /\ UNCHANGED <<claims, call, cur, merged, missed>>

(* Mutant: the next claim is tried. *)
LinkRoleFailsOn(s) ==
  /\ pc[s] = "link"
  /\ Target(s, claims[cur[s]].kind) # 0
  /\ pc' = [pc EXCEPT ![s] = "add"]
  /\ UNCHANGED <<table, call, cons, cur, merged, missed>>

(* An error here ends the persistence: a prefix of the synthesis is kept.  *)
LinkRoleFails(s) ==
  /\ pc[s] = "link"
  /\ Target(s, claims[cur[s]].kind) # 0
  /\ Return(s)
  /\ UNCHANGED <<table, missed>>

Crash(s) ==
  /\ pc[s] \in {"scan", "merge", "link"}
  /\ Return(s)
  /\ missed' = IF pc[s] = "link" THEN missed ELSE missed \union {cur[s]}
  /\ UNCHANGED table

-----------------------------------------------------------------------------

Step(s) ==
  \/ Begin(s) \/ Insert(s) \/ Leave(s) \/ Scan(s) \/ ScanFails(s) \/ Merge(s)
  \/ Merged(s) \/ LinkRole(s) \/ LinkRoleFails(s) \/ Crash(s)

Next == \E s \in Server : Step(s)

Spec == Init /\ [][Next]_vars

-----------------------------------------------------------------------------

Row == [session : Session, text : Text, kind : Kind,
        server : Server, no : 1 .. MaxCalls, target : Nat]

(* The variables have their types; a server's current claim is a row. *)
TypeOK ==
  /\ claims \in Seq(Row)
  /\ links \subseteq [src : DOMAIN claims, dst : DOMAIN claims,
                      kind : {"merges_with", "supports", "attacks"}]
  /\ pc \in [Server -> {"idle", "add", "scan", "merge", "link"}]
  /\ call \in [Server -> [session : Session \union {"none"}, linking : BOOLEAN, no : 0 .. MaxCalls,
                      rank : 1 .. 4, added : 0 .. MaxItems]]
  /\ cons \in [Server -> {0} \union DOMAIN claims]
  /\ cur \in [Server -> {0} \union DOMAIN claims]
  /\ merged \in [Server -> SUBSET DOMAIN claims]
  /\ missed \subseteq DOMAIN claims

(* A session's claims are linked among themselves only. *)
LinksWithinSession ==
  \A l \in links : claims[l.src].session = claims[l.dst].session

Deduping(i) == \E s \in Server : pc[s] \in {"scan", "merge"} /\ cur[s] = i

(* Of two similar claims of one session the later is linked to the         *)
(* earlier, whichever servers added them in whichever order of their       *)
(* statements, unless its own dedupe failed or is not over.                *)
SimilarAreLinked ==
  \A i, j \in DOMAIN claims :
    /\ i < j
    /\ claims[i].session = claims[j].session
    /\ <<claims[i].text, claims[j].text>> \in Similar
    => Link(j, i, "merges_with") \in links \/ j \in missed \/ Deduping(j)

(* What is kept of a synthesis is a prefix: a claim without the link to    *)
(* its consensus is the last one of its call.                              *)
OnlyLastUnlinked ==
  \A i \in DOMAIN claims :
    \/ claims[i].target = 0
    \/ Link(i, claims[i].target, LinkKind[claims[i].kind]) \in links
    \/ \A j \in DOMAIN claims : i < j => \/ claims[j].server # claims[i].server
                                         \/ claims[j].no # claims[i].no

(* With one server every link leads from a later claim to an earlier one,  *)
(* so that following them ends. With two, similar claims added at once     *)
(* may be linked both ways.                                                *)
LinksPointBack == \A l \in links : l.src > l.dst

-----------------------------------------------------------------------------

Busy == {"scan", "merge", "link"}

SameCall(i, j) == claims[j].server = claims[i].server /\ claims[j].no = claims[i].no

(* What a server knows of the call it is in and of the claim it is adding. *)
Adding(s) ==
  /\ pc[s] # "idle" => call[s].session \in Session /\ call[s].no \in 1 .. MaxCalls
  /\ cons[s] # 0 => pc[s] # "idle" /\ claims[cons[s]].session = call[s].session
  /\ pc[s] \in Busy =>
       /\ cur[s] \in DOMAIN claims
       /\ cons[s] < cur[s]
       /\ claims[cur[s]].server = s
       /\ claims[cur[s]].no = call[s].no
       /\ claims[cur[s]].session = call[s].session
       /\ claims[cur[s]].target = Target(s, claims[cur[s]].kind)
  /\ merged[s] # {} => pc[s] = "merge"
  /\ \A i \in merged[s] : i # cur[s] /\ claims[i].session = call[s].session

(* A similar claim j of i is linked, missed, or about to be linked.        *)
Covered(i, j) ==
  \/ Link(j, i, "merges_with") \in links
  \/ j \in missed
  \/ \E s \in Server : /\ cur[s] = j
                       /\ pc[s] \in {"scan", "merge"}
                       /\ pc[s] = "merge" => i \in merged[s]

Paired(i, j) ==
  /\ i < j
  /\ claims[i].session = claims[j].session
  /\ <<claims[i].text, claims[j].text>> \in Similar

Linked(i) ==
  claims[i].target = 0 \/ Link(i, claims[i].target, LinkKind[claims[i].kind]) \in links

(* A claim without its link is the last of its call, and its server is at  *)
(* it or has ended that call.                                              *)
Dangling(i) ==
  LET s == claims[i].server IN
  /\ \A j \in DOMAIN claims : i < j => ~SameCall(i, j)
  /\ pc[s] # "idle" /\ call[s].no = claims[i].no => pc[s] \in Busy /\ cur[s] = i

(* The inductive invariant. *)
ClaimsInv ==
  /\ TypeOK
  /\ \A s \in Server : Adding(s)
  /\ \A i \in DOMAIN claims : claims[i].no <= call[claims[i].server].no
  /\ \A i, j \in DOMAIN claims : Paired(i, j) => Covered(i, j)
  /\ LinksWithinSession
  /\ \A i \in DOMAIN claims : Linked(i) \/ Dangling(i)
  /\ (\E s \in Server : Server = {s}) =>
       /\ LinksPointBack
       /\ \A s \in Server : pc[s] \in Busy => cur[s] = Len(claims)
=============================================================================
