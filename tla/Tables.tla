------------------------------- MODULE Tables -------------------------------
(***************************************************************************)
(* Servers that share one database, .crosscheck/sessions.sqlite3. The      *)
(* components below write different tables of it, and no statement reads   *)
(* two of them together, so no two of them ever share a state: which one   *)
(* it is is in `table`, and its variables are those of its own module, in  *)
(* order. Some of them come in several uses, each with the parameters of   *)
(* its module.                                                             *)
(***************************************************************************)
EXTENDS Naturals

CONSTANTS
  GraphOf,       (* the uses of the claim graph *)
  MemoryOf,      (* the uses of session memory *)
  Provider,      (* the providers that are voted on *)
  Voter,         (* the servers that record ballots *)
  LedgerOf,      (* the uses of a session's row and log *)
  Process,       (* the servers that delegate *)
  Session,       (* for these sessions *)
  Requester,     (* and these requesters *)
  NoId,          (* an argument that is not given *)
  PerSession,    (* delegation.max_per_session *)
  PerRequester,  (* delegation.max_per_requester *)
  EgressOf,      (* the uses of fetch *)
  MaxGoldens,    (* bound: goldens of one bench *)
  MaxCalls,      (* bound: calls that record ballots *)
  MaxDelegations (* bound: delegations *)

VARIABLES
  table,          (* the table in use *)
  use,            (* in which use *)
  v1, v2, v3, v4, v5, v6, v7, v8, v9, v10, v11, v12 (* the variables of its component *)

vars == <<table, use, v1, v2, v3, v4, v5, v6, v7, v8, v9, v10, v11, v12>>

Graph(u) == INSTANCE Claims WITH
  Server <- GraphOf[u].server, Session <- GraphOf[u].session,
  Text <- GraphOf[u].text, Similar <- GraphOf[u].similar,
  Kind <- GraphOf[u].kind, MaxItems <- GraphOf[u].items,
  MaxCalls <- GraphOf[u].calls,
  claims <- v1, links <- v2, pc <- v3, call <- v4, cons <- v5, cur <- v6,
  merged <- v7, missed <- v8

Memo(u) == INSTANCE Memory WITH
  Server <- MemoryOf[u].server, Kind <- MemoryOf[u].kind,
  Limit <- MemoryOf[u].limit, MaxRows <- MemoryOf[u].rows,
  rows <- v1, pc <- v2, prompt <- v3, contradicted <- v4,
  open <- v5

Stats == INSTANCE Ballots WITH
  Provider <- Provider, Server <- Voter, MaxGoldens <- MaxGoldens,
  MaxCalls <- MaxCalls,
  stats <- v1, pc <- v2, todo <- v3, vote <- v4, calls <- v5,
  demanded <- v6, lost <- v7

Ledger(u) == INSTANCE SessionLedger WITH
  Process <- LedgerOf[u].process, Cap <- LedgerOf[u].cap,
  MaxCost <- LedgerOf[u].cost, MaxAnswers <- LedgerOf[u].answers,
  MaxCalls <- LedgerOf[u].calls,
  present <- v1, row <- v2, logged <- v3, pc <- v4, snap <- v5,
  spent <- v6, started <- v7, paid <- v8, unseen <- v9, saved <- v10,
  mishap <- v11

Delegations == INSTANCE Delegate WITH
  Process <- Process, Session <- Session, Requester <- Requester,
  NoId <- NoId, MaxPerSession <- PerSession, MaxPerRequester <- PerRequester,
  MaxDelegations <- MaxDelegations,
  bySession <- v1, byRequester <- v2, refused <- v3, pc <- v4,
  session <- v5, requester <- v6, usedSession <- v7, usedRequester <- v8,
  started <- v9, ran <- v10, mishap <- v11

Fetches(u) == INSTANCE Egress WITH
  Fetcher <- EgressOf[u].fetcher, Host <- EgressOf[u].host,
  MaxBytes <- EgressOf[u].bytes, MaxBytesSession <- EgressOf[u].session,
  MaxHosts <- EgressOf[u].hosts, DbFails <- EgressOf[u].fails,
  MaxFetches <- EgressOf[u].fetches,
  ledger <- v1, meta <- v2, body <- v3, pc <- v4, host <- v5, force <- v6,
  seen <- v7, got <- v8, started <- v9, pulled <- v10, wasted <- v11,
  mishap <- v12

Graphs == DOMAIN GraphOf
Memories == DOMAIN MemoryOf
Ledgers == DOMAIN LedgerOf
Egresses == DOMAIN EgressOf

ASSUME ConstantsFit ==
  /\ \A u \in Graphs : Graph(u)!ClaimsAssumption
  /\ \A u \in Memories : Memo(u)!MemoryAssumption
  /\ Stats!BallotsAssumption
  /\ \A u \in Ledgers : Ledger(u)!LedgerAssumption
  /\ Delegations!DelegateAssumption
  /\ \A u \in Egresses : Fetches(u)!EgressAssumption

-----------------------------------------------------------------------------

Unused == "unused"

Init ==
  \/ /\ table = "claims" /\ \E u \in Graphs : use = u /\ Graph(u)!Init
     /\ v9 = Unused /\ v10 = Unused /\ v11 = Unused /\ v12 = Unused
  \/ /\ table = "memory" /\ \E u \in Memories : use = u /\ Memo(u)!Init
     /\ v6 = Unused /\ v7 = Unused /\ v8 = Unused
     /\ v9 = Unused /\ v10 = Unused /\ v11 = Unused /\ v12 = Unused
  \/ /\ table = "ballots" /\ use = Unused /\ Stats!Init
     /\ v8 = Unused /\ v9 = Unused /\ v10 = Unused /\ v11 = Unused
     /\ v12 = Unused
  \/ /\ table = "sessions" /\ \E u \in Ledgers : use = u /\ Ledger(u)!Init
     /\ v12 = Unused
  \/ /\ table = "delegations" /\ use = Unused /\ Delegations!Init
     /\ v12 = Unused
  \/ /\ table = "egress" /\ \E u \in Egresses : use = u /\ Fetches(u)!Init

(* Where a bound stops everything, nothing is under way.                   *)
AtRest ==
  \/ table = "claims" /\ \A s \in DOMAIN v3 : v3[s] = "idle"
  \/ table \in {"memory", "ballots"} /\ \A s \in DOMAIN v2 : v2[s] = "idle"

Next ==
  \/ /\ table = "claims" /\ \E u \in Graphs : use = u /\ Graph(u)!Next
     /\ UNCHANGED <<table, use, v9, v10, v11, v12>>
  \/ /\ table = "memory" /\ \E u \in Memories : use = u /\ Memo(u)!Next
     /\ UNCHANGED <<table, use, v6, v7, v8, v9, v10, v11, v12>>
  \/ /\ table = "ballots" /\ Stats!Next
     /\ UNCHANGED <<table, use, v8, v9, v10, v11, v12>>
  \/ /\ table = "sessions" /\ \E u \in Ledgers : use = u /\ Ledger(u)!Next
     /\ UNCHANGED <<table, use, v12>>
  \/ /\ table = "delegations" /\ Delegations!Next
     /\ UNCHANGED <<table, use, v12>>
  \/ /\ table = "egress" /\ \E u \in Egresses : use = u /\ Fetches(u)!Next
     /\ UNCHANGED <<table, use>>
  \/ AtRest /\ UNCHANGED vars

Spec == Init /\ [][Next]_vars

Claiming(u) == table = "claims" /\ use = u
Remembering(u) == table = "memory" /\ use = u
Billing(u) == table = "sessions" /\ use = u
Fetching(u) == table = "egress" /\ use = u

(* A server that has the database to itself.                               *)
Alone(servers) == \E s \in servers : servers = {s}

-----------------------------------------------------------------------------

(* The variables have their types. *)
TypeOK ==
  /\ \A u \in Graphs : Claiming(u) => Graph(u)!TypeOK
  /\ \A u \in Memories : Remembering(u) => Memo(u)!TypeOK
  /\ table = "ballots" => Stats!TypeOK
  /\ \A u \in Ledgers : Billing(u) => Ledger(u)!TypeOK
  /\ table = "delegations" => Delegations!TypeOK
  /\ \A u \in Egresses : Fetching(u) => Fetches(u)!TypeOK

(* The claim graph: servers that add similar claims at once do not miss    *)
(* each other; no link leaves its session; what a synthesis that failed or *)
(* was cut off leaves is a prefix of it, with the last claim unlinked at   *)
(* most; and with one server links go from a later claim to an earlier     *)
(* one.                                                                    *)
LinksSound ==
  \A u \in Graphs : Claiming(u) => /\ Graph(u)!SimilarAreLinked
                                   /\ Graph(u)!LinksWithinSession
                                   /\ Graph(u)!OnlyLastUnlinked
                                   /\ Alone(GraphOf[u].server) => Graph(u)!LinksPointBack

(* The gate of a failed audit, which closes when its UPDATE has run, and   *)
(* that may fail: a row that is stale is never fresh again, no prompt is   *)
(* given a row that was contradicted before a gate closed, and with one    *)
(* server no fresh row goes back to such a row.                            *)
MemoryGate ==
  /\ [](\A u \in Memories : Remembering(u) /\ Alone(MemoryOf[u].server)
                              => Memo(u)!FreshIsUntainted)
  /\ [][\A u \in Memories : Remembering(u) => Memo(u)!StaleStep /\ Memo(u)!InjectStep]_vars

(* Every ballot is counted once, or lost with a failure or a kill, and     *)
(* moves the weight of its provider the way it was cast.                   *)
BallotsCounted ==
  /\ [](table = "ballots" => Stats!BallotsCounted)
  /\ [][table = "ballots" => Stats!WeightsStep]_vars

(* What is written down is what happened: the row of a session never shows *)
(* more than was billed, and once all calls have ended the log lacks only  *)
(* what no answer's usage showed; the row shows what its calls saved, and  *)
(* once at its cap is never billed again, if one server uses it; a         *)
(* delegation is charged if and only if the call has returned; the egress  *)
(* ledger has no bytes that were not received and at rest lacks only those *)
(* of transfers that returned no page; at rest, evidence that has a meta   *)
(* file is whole.                                                          *)
LedgersAreTrue ==
  /\ [](/\ \A u \in Ledgers : Billing(u) =>
             /\ Ledger(u)!RowIsBacked
             /\ Ledger(u)!LogIsComplete
             /\ Alone(LedgerOf[u].process) => Ledger(u)!RowIsCumulative
        /\ table = "delegations" => Delegations!ChargedForWork
        /\ \A u \in Egresses : Fetching(u) => /\ Fetches(u)!LedgerIsBacked
                                              /\ Fetches(u)!OnlyWasteEscapes
                                              /\ Fetches(u)!EvidenceAtRest)
  /\ [][\A u \in Ledgers : Billing(u) /\ Alone(LedgerOf[u].process)
                             => Ledger(u)!TrippedStep]_vars

(* Egress has caps, on the bytes and on the hosts, and a ledger that can   *)
(* be read and written.                                                    *)
BytesCapped(u) == Fetching(u) /\ ~EgressOf[u].fails /\ EgressOf[u].session > 0
HostsCapped(u) == Fetching(u) /\ ~EgressOf[u].fails /\ EgressOf[u].hosts > 0

(* The quotas of a session and of a requester, and the byte and host caps  *)
(* of egress, are each a Budget: nobody enters once it is used up, and it  *)
(* is overshot by what those inside may add at most.                       *)
BudgetsHold ==
  /\ table = "delegations" => Delegations!SessionsStart /\ Delegations!RequestersStart
  /\ \A u \in Egresses : /\ BytesCapped(u) => Fetches(u)!BytesBudget!Init
                         /\ HostsCapped(u) => Fetches(u)!HostBudget!Init
  /\ [](/\ table = "delegations" => Delegations!QuotaOvershoot
        /\ \A u \in Egresses : /\ BytesCapped(u) => Fetches(u)!BytesOvershoot
                               /\ HostsCapped(u) => Fetches(u)!HostsOvershoot)
  /\ [][table = "delegations" => Delegations!SessionsStep /\ Delegations!RequestersStep]_vars
  /\ [][\A u \in Egresses : /\ BytesCapped(u) => Fetches(u)!BytesStep
                            /\ HostsCapped(u) => Fetches(u)!HostsStep]_vars
=============================================================================
