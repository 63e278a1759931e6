----------------------------- MODULE Coordinate -----------------------------
(***************************************************************************)
(* tool_coordinate of src/servers/python/crosscheck_server.py: the choice  *)
(* of the roles, the proposal, the critics' pool, their ballots, the       *)
(* synthesis and the commit. What the call then persists is in Claims and  *)
(* Memory, what becomes of the ballots in Ballots; a turn is one           *)
(* structured request (WorkerTools).                                       *)
(***************************************************************************)
EXTENDS Naturals, FiniteSets, Functions

CONSTANTS
  Provider,      (* the registered providers *)
  Allowed,       (* provider_allowlist *)
  Moderator,     (* the configured moderator *)
  Cap,           (* max_session_tokens, 0 disables the breaker *)
  MaxCost        (* bound: tokens of one turn *)

CoordinateAssumption ==
  /\ IsFiniteSet(Provider)
  /\ Allowed \subseteq Provider
  /\ Cardinality(Allowed) >= 2
  /\ Moderator \in Provider
  /\ Cap \in Nat
  /\ MaxCost \in Nat

VARIABLES
  pc,            (* where the main thread is *)
  args,          (* proposer and synthesizer named, critics named, worker_tools *)
  prior,         (* the tokens of the session on entry *)
  roles,         (* proposer, synthesizer and critics *)
  thread,        (* the pool thread of each critic *)
  proposal,      (* what the proposer answered *)
  saw,           (* what each critic was shown as the proposal *)
  cost,          (* the tokens of the answers of proposer, critics, synthesizer *)
  ballots,       (* the critics whose ballots were handed to _record_ballot *)
  paid,          (* history: the tokens of all answers *)
  lost,          (* history: of those, the ones that no answer reports *)
  logged         (* what the commit recorded *)

request == <<args, prior>>
pool == <<thread, saw>>
vars == <<pc, request, roles, pool, proposal, cost, ballots, paid, lost, logged>>

Nobody == [proposer |-> Moderator, synth |-> Moderator, critics |-> {}]
NoCost == [proposer |-> 0, critic |-> [p \in Provider |-> 0], synth |-> 0]

-----------------------------------------------------------------------------

Init ==
  /\ pc = "roles"
  /\ args \in [named : BOOLEAN, critics : BOOLEAN, tools : BOOLEAN]
  /\ prior \in 0 .. Cap
  /\ roles = Nobody
  /\ thread = [p \in Provider |-> "none"]
  /\ proposal = "none"
  /\ saw = [p \in Provider |-> "none"]
  /\ cost = NoCost
  /\ ballots = {}
  /\ paid = 0 /\ lost = 0 /\ logged = 0

(* Mutant: a panel without others has its proposer as its critic.          *)
DefaultCriticsAny(S, proposer, synth) ==
  LET others == S \ {proposer, synth}
  IN  IF others # {} THEN {others} ELSE {{p} : p \in S}

(* The others of the panel, or one who is not the proposer. *)
DefaultCritics(S, proposer, synth) ==
  LET others == S \ {proposer, synth}
  IN  IF others # {} THEN {others} ELSE {{p} : p \in S \ {proposer}}

(* Mutant: a critic the caller names is taken as it is.                    *)
RolesAsNamed ==
  /\ pc = "roles"
  /\ \E S \in SUBSET Allowed :
       /\ Cardinality(S) >= 2
       /\ \E proposer \in S, C \in SUBSET (Provider \union {"unknown"}) :
            roles' = [proposer |-> proposer, synth |-> Moderator, critics |-> C]
  /\ pc' = "entry"
  /\ UNCHANGED <<request, pool, proposal, cost, ballots, paid, lost, logged>>

(* Roles that the caller names are looked up among all providers; the      *)
(* default proposer is the first of the panel, the default synthesizer the *)
(* configured moderator.                                                   *)
Roles ==
  /\ pc = "roles"
  /\ \E S \in SUBSET Allowed :
       /\ Cardinality(S) >= 2
       /\ \E proposer \in IF args.named THEN Provider ELSE S,
             synth \in IF args.named THEN Provider ELSE {Moderator} :
            \E C \in IF args.critics THEN (SUBSET Provider) \ {{}}
                                    ELSE DefaultCritics(S, proposer, synth) :
              roles' = [proposer |-> proposer, synth |-> synth, critics |-> C]
  /\ pc' = "entry"
  /\ UNCHANGED <<request, pool, proposal, cost, ballots, paid, lost, logged>>

(* Fewer than two providers, or no critic. *)
RefuseRoles ==
  /\ pc = "roles"
  /\ pc' = "refused"
  /\ UNCHANGED <<request, roles, pool, proposal, cost, ballots, paid, lost, logged>>

Tripped == Cap > 0 /\ prior >= Cap

Enter ==
  /\ pc = "entry"
  /\ pc' = IF Tripped THEN "refused" ELSE "propose"
  /\ UNCHANGED <<request, roles, pool, proposal, cost, ballots, paid, lost, logged>>

(* An object, or the text of a response that has none, which may be empty. *)
Outcome == {"structured", "text"}

(* A structured request of a role comes back with an answer that reports c *)
(* tokens. It may have spent d more, on a draft that a retry replaced or   *)
(* an error that was charged; with worker tools, which merge every usage,  *)
(* on the error only.                                                      *)
Spend(o, c, d, tools) ==
  /\ o = "structured" /\ tools => d = 0
  /\ paid' = paid + c + d
  /\ lost' = lost + d

Propose ==
  /\ pc = "propose"
  /\ \E o \in Outcome, c, d \in 0 .. MaxCost :
       /\ Spend(o, c, d, args.tools)
       /\ cost' = [cost EXCEPT !.proposer = c]
       /\ proposal' = o
  /\ thread' = [p \in Provider |-> IF p \in roles.critics THEN "queued" ELSE "none"]
  /\ pc' = "critics"
  /\ UNCHANGED <<request, roles, saw, ballots, logged>>

Start(p) ==
  /\ thread[p] = "queued"
  /\ thread' = [thread EXCEPT ![p] = "asking"]
  /\ saw' = [saw EXCEPT ![p] = proposal]
  /\ UNCHANGED <<pc, request, roles, proposal, cost, ballots, paid, lost, logged>>

(* Mutant: the ballot goes out with the critic's answer.                   *)
CriticiseAndVote(p) ==
  /\ thread[p] = "asking"
  /\ \E o \in Outcome, c, d \in 0 .. MaxCost :
       /\ Spend(o, c, d, args.tools)
       /\ cost' = [cost EXCEPT !.critic[p] = c]
       /\ thread' = [thread EXCEPT ![p] = o]
       /\ ballots' = IF o = "structured" THEN ballots \union {p} ELSE ballots
  /\ UNCHANGED <<pc, request, roles, saw, proposal, logged>>

Criticise(p) ==
  /\ thread[p] = "asking"
  /\ \E o \in Outcome, c, d \in 0 .. MaxCost :
       /\ Spend(o, c, d, args.tools)
       /\ cost' = [cost EXCEPT !.critic[p] = c]
       /\ thread' = [thread EXCEPT ![p] = o]
  /\ UNCHANGED <<pc, request, roles, saw, proposal, ballots, logged>>

CriticRaises(p) ==
  /\ thread[p] = "asking"
  /\ \E d \in 0 .. MaxCost : paid' = paid + d
  /\ thread' = [thread EXCEPT ![p] = "raised"]
  /\ UNCHANGED <<pc, request, roles, saw, proposal, cost, ballots, lost, logged>>

Joined == \A p \in Provider : thread[p] \notin {"queued", "asking"}

Gather ==
  /\ pc = "critics"
  /\ Joined
  /\ pc' = IF \E p \in Provider : thread[p] = "raised" THEN "raised" ELSE "vote"
  /\ UNCHANGED <<request, roles, pool, proposal, cost, ballots, paid, lost, logged>>

(* Critics that answered with an object; its ballot may be unusable. *)
Vote ==
  /\ pc = "vote"
  /\ \E S \in SUBSET {p \in Provider : thread[p] = "structured"} : ballots' = S
  /\ pc' = "synth"
  /\ UNCHANGED <<request, roles, pool, proposal, cost, paid, lost, logged>>

(* The synthesizer has no tools. *)
Synthesise ==
  /\ pc = "synth"
  /\ \E o \in Outcome, c, d \in 0 .. MaxCost :
       /\ Spend(o, c, d, FALSE)
       /\ cost' = [cost EXCEPT !.synth = c]
  /\ pc' = "commit"
  /\ UNCHANGED <<request, roles, pool, proposal, ballots, logged>>

(* The proposer's or the synthesizer's request raises. *)
Raise ==
  /\ pc \in {"propose", "synth"}
  /\ \E d \in 0 .. MaxCost : paid' = paid + d
  /\ pc' = "raised"
  /\ UNCHANGED <<request, roles, pool, proposal, cost, ballots, lost, logged>>

(* Mutant: a synthesizer that has been a critic too is counted once.       *)
AllAnswersByName ==
  cost.proposer + SumFunctionOnSet(cost.critic, roles.critics \ {roles.synth}) + cost.synth

AllAnswers == cost.proposer + SumFunctionOnSet(cost.critic, roles.critics) + cost.synth

Commit ==
  /\ pc = "commit"
  /\ logged' = AllAnswers
  /\ pc' = "done"
  /\ UNCHANGED <<request, roles, pool, proposal, cost, ballots, paid, lost>>

-----------------------------------------------------------------------------

Main == \/ Roles \/ RefuseRoles \/ Enter \/ Propose \/ Gather \/ Vote
        \/ Synthesise \/ Raise \/ Commit

Pool(p) == Start(p) \/ Criticise(p) \/ CriticRaises(p)

Ended == pc \in {"refused", "raised", "done"}

Stopped == Ended /\ UNCHANGED vars

Next == Main \/ (\E p \in Provider : Pool(p)) \/ Stopped

Spec == Init /\ [][Next]_vars

(* The main thread waits for its pool only, and every request returns. *)
LiveSpec == Spec /\ WF_vars(Main) /\ \A p \in Provider : WF_vars(Pool(p))

-----------------------------------------------------------------------------

(* The values the variables range over.                                    *)
TypeOK ==
  /\ pc \in {"roles", "entry", "propose", "critics", "vote", "synth", "commit",
             "refused", "raised", "done"}
  /\ args \in [named : BOOLEAN, critics : BOOLEAN, tools : BOOLEAN]
  /\ prior \in 0 .. Cap
  /\ roles \in [proposer : Provider, synth : Provider, critics : SUBSET Provider]
  /\ thread \in [Provider -> {"none", "queued", "asking", "raised"} \union Outcome]
  /\ proposal \in {"none"} \union Outcome
  /\ saw \in [Provider -> {"none"} \union Outcome]
  /\ cost \in [proposer : Nat, critic : [Provider -> Nat], synth : Nat]
  /\ ballots \subseteq Provider
  /\ paid \in Nat /\ lost \in Nat /\ logged \in Nat

(* With worker tools, and an object from everyone who has answered.        *)
AllMerged ==
  args.tools /\ proposal # "text" /\ \A p \in Provider : thread[p] # "text"

(* The commit records what the answers of every role report, whoever plays *)
(* several of them. What they do not, the drafts that a retry replaced and *)
(* the charges of errors, is in no ledger: where every usage is merged,    *)
(* that is no more than what the one turn of the synthesizer may lose.     *)
AnswersCommitted ==
  pc = "done" => logged + lost = paid /\ (AllMerged => lost <= MaxCost)

(* Roles the caller left open give no one a proposal of his own to judge.  *)
DefaultCriticsAreOthers == ~args.critics => roles.proposer \notin roles.critics

(* A ballot counts only if every critic of the round came back: a round    *)
(* that one of them brought down has no votes, and every vote is that of a *)
(* critic who was shown the proposal there is.                             *)
BallotsOfWholeRound ==
  ballots # {} =>
    /\ \A p \in roles.critics : thread[p] \in Outcome
    /\ \A p \in ballots : thread[p] = "structured" /\ saw[p] = proposal

Answered == {p \in Provider : thread[p] \in Outcome}

LossBound == AllMerged => lost <= IF pc \in {"commit", "done"} THEN MaxCost ELSE 0

(* The inductive invariant: who has been asked what, and what was paid. A  *)
(* request that raises leaves what it cost on no record.                   *)
CoordinateInv ==
  /\ TypeOK
  /\ DefaultCriticsAreOthers
  /\ BallotsOfWholeRound
  /\ \A p \in Provider : thread[p] # "none" => p \in roles.critics
  /\ \A p \in Provider : thread[p] \notin {"none", "queued"} => saw[p] = proposal
  /\ \A p \in Provider \ Answered : cost.critic[p] = 0
  /\ pc # "critics" => Joined
  /\ pc \in {"roles", "entry", "propose"} =>
       /\ cost.proposer = 0 /\ proposal = "none"
       /\ \A p \in Provider : thread[p] = "none"
  /\ pc = "critics" => \A p \in roles.critics : thread[p] # "none"
  /\ pc \in {"vote", "synth", "commit", "done"} => roles.critics \subseteq Answered
  /\ pc \in {"roles", "entry", "propose", "critics", "vote", "synth"} => cost.synth = 0
  /\ pc \in {"roles", "entry", "propose", "critics", "vote"} => ballots = {}
  /\ pc # "raised" /\ (\A p \in Provider : thread[p] # "raised") =>
       paid = cost.proposer + SumFunctionOnSet(cost.critic, Provider) + cost.synth + lost
  /\ LossBound
  /\ AnswersCommitted

(* A call is answered. *)
Terminates == <>Ended

(* README.md:503, the allowlist "is the only set of providers that may     *)
(* run, even when callers ask for others": false of roles and moderator.   *)
OnlyAllowedRun ==
  pc \notin {"roles", "entry", "refused"} =>
    roles.critics \union {roles.proposer, roles.synth} \subseteq Allowed
=============================================================================
