------------------------------ MODULE Delegate ------------------------------
(***************************************************************************)
(* tool_delegate of src/servers/python/crosscheck_server.py: the rows of   *)
(* delegations, and the servers that delegate for shared sessions and      *)
(* requesters. One step is one SQL statement or the delegated call.        *)
(***************************************************************************)
EXTENDS Naturals, FiniteSets

CONSTANTS
  Process,         (* the server processes *)
  Session,         (* the values of session_id *)
  Requester,       (* the values of requested_by *)
  NoId,            (* an argument that is not given *)
  MaxPerSession,   (* delegation.max_per_session *)
  MaxPerRequester, (* delegation.max_per_requester *)
  MaxDelegations   (* bound: delegations of all servers *)

DelegateAssumption ==
  /\ IsFiniteSet(Process) /\ Process # {}
  /\ NoId \notin Session \union Requester
  /\ MaxPerSession \in Nat
  /\ MaxPerRequester \in Nat
  /\ MaxDelegations \in Nat

VARIABLES
  bySession,     (* accepted rows of each session *)
  byRequester,   (* accepted rows of each requester *)
  refused,       (* rows that were not accepted *)
  pc,            (* where each server is in its delegation *)
  session,       (* its session_id *)
  requester,     (* its requested_by *)
  usedSession,   (* what it has counted *)
  usedRequester,
  started,       (* delegations begun, at most MaxDelegations *)
  ran,           (* history: delegated calls that returned, per session *)
  mishap         (* history: a server died or a statement failed *)

vars == <<bySession, byRequester, refused, pc, session, requester,
          usedSession, usedRequester, started, ran, mishap>>
rows == <<bySession, byRequester, refused>>
args == <<session, requester>>
counts == <<usedSession, usedRequester>>

Goto(p, label) == pc' = [pc EXCEPT ![p] = label]

-----------------------------------------------------------------------------

Init ==
  /\ bySession = [s \in Session |-> 0]
  /\ byRequester = [r \in Requester |-> 0]
  /\ refused = 0
  /\ pc = [p \in Process |-> "idle"]
  /\ session = [p \in Process |-> NoId]
  /\ requester = [p \in Process |-> NoId]
  /\ usedSession = [p \in Process |-> 0]
  /\ usedRequester = [p \in Process |-> 0]
  /\ started = 0
  /\ ran = [s \in Session |-> 0]
  /\ mishap = FALSE

Begin(p) ==
  /\ pc[p] = "idle"
  /\ started < MaxDelegations
  /\ started' = started + 1
  /\ \E s \in Session \union {NoId} : session' = [session EXCEPT ![p] = s]
  /\ \E r \in Requester \union {NoId} : requester' = [requester EXCEPT ![p] = r]
  /\ usedSession' = [usedSession EXCEPT ![p] = 0]
  /\ usedRequester' = [usedRequester EXCEPT ![p] = 0]
  /\ Goto(p, "count_session")
  /\ UNCHANGED <<rows, ran, mishap>>

(* The two SELECTs of _delegation_count. *)
CountSession(p) ==
  /\ pc[p] = "count_session"
  /\ usedSession' = [usedSession EXCEPT ![p] =
                       IF session[p] \in Session THEN bySession[session[p]] ELSE 0]
  /\ Goto(p, "count_requester")
  /\ UNCHANGED <<rows, args, usedRequester, started, ran, mishap>>

CountRequester(p) ==
  /\ pc[p] = "count_requester"
  /\ usedRequester' = [usedRequester EXCEPT ![p] =
                         IF requester[p] \in Requester THEN byRequester[requester[p]] ELSE 0]
  /\ Goto(p, "check")
  /\ UNCHANGED <<rows, args, usedSession, started, ran, mishap>>

(* Mutant: one more than the limit is let through. *)
QuotaLeftLate(p) ==
  /\ session[p] = NoId \/ usedSession[p] <= MaxPerSession
  /\ requester[p] = NoId \/ usedRequester[p] <= MaxPerRequester

QuotaLeft(p) ==
  /\ session[p] = NoId \/ usedSession[p] < MaxPerSession
  /\ requester[p] = NoId \/ usedRequester[p] < MaxPerRequester

(* The tool is not delegable or the provider not available: \E stands for  *)
(* the arguments that decide it; or a quota is used up.                    *)
Check(p) ==
  /\ pc[p] = "check"
  /\ \E wellFormed \in BOOLEAN :
       Goto(p, IF wellFormed /\ QuotaLeft(p) THEN "run" ELSE "record_refused")
  /\ UNCHANGED <<rows, args, counts, started, ran, mishap>>

(* The handler returns a result, which may be an error envelope. *)
Run(p) ==
  /\ pc[p] = "run"
  /\ ran' = IF session[p] \in Session THEN [ran EXCEPT ![session[p]] = @ + 1] ELSE ran
  /\ Goto(p, "record")
  /\ UNCHANGED <<rows, args, counts, started, mishap>>

(* Mutant: a failed call is recorded like one that returned. *)
RunRaisesAccepted(p) ==
  /\ pc[p] = "run"
  /\ Goto(p, "record")
  /\ UNCHANGED <<rows, args, counts, started, ran, mishap>>

RunRaises(p) ==
  /\ pc[p] = "run"
  /\ Goto(p, "record_refused")
  /\ UNCHANGED <<rows, args, counts, started, ran, mishap>>

(* Mutant: the row of an accepted call has no session. *)
RecordSessionless(p) ==
  /\ pc[p] = "record"
  /\ byRequester' = IF requester[p] \in Requester
                    THEN [byRequester EXCEPT ![requester[p]] = @ + 1] ELSE byRequester
  /\ Goto(p, "recount")
  /\ UNCHANGED <<bySession, refused, args, counts, started, ran, mishap>>

(* The INSERT of _delegation_record; loading the session before it creates *)
(* its row in sessions, which quotas do not read.                          *)
Record(p) ==
  /\ pc[p] = "record"
  /\ bySession' = IF session[p] \in Session
                  THEN [bySession EXCEPT ![session[p]] = @ + 1] ELSE bySession
  /\ byRequester' = IF requester[p] \in Requester
                    THEN [byRequester EXCEPT ![requester[p]] = @ + 1] ELSE byRequester
  /\ Goto(p, "recount")
  /\ UNCHANGED <<refused, args, counts, started, ran, mishap>>

RecordRefused(p) ==
  /\ pc[p] = "record_refused"
  /\ refused' = refused + 1
  /\ Goto(p, "idle")
  /\ UNCHANGED <<bySession, byRequester, args, counts, started, ran, mishap>>

(* The counts are read once more for the answer. *)
Report(p) ==
  /\ pc[p] = "recount"
  /\ Goto(p, "idle")
  /\ UNCHANGED <<rows, args, counts, started, ran, mishap>>

(* The server dies, or a statement raises out of the tool. *)
Crash(p) ==
  /\ pc[p] # "idle"
  /\ Goto(p, "idle")
  /\ mishap' = TRUE
  /\ UNCHANGED <<rows, args, counts, started, ran>>

-----------------------------------------------------------------------------

Delegation(p) ==
  \/ Begin(p) \/ CountSession(p) \/ CountRequester(p) \/ Check(p)
  \/ Run(p) \/ RunRaises(p) \/ Record(p) \/ RecordRefused(p) \/ Report(p)

AtRest == \A p \in Process : pc[p] = "idle"

Stopped == AtRest /\ started = MaxDelegations /\ UNCHANGED vars

Next == (\E p \in Process : Delegation(p) \/ Crash(p)) \/ Stopped

Spec == Init /\ [][Next]_vars

-----------------------------------------------------------------------------

Labels == {"idle", "count_session", "count_requester", "check", "run",
           "record", "record_refused", "recount"}

(* The variables have their types. *)
TypeOK ==
  /\ bySession \in [Session -> Nat]
  /\ byRequester \in [Requester -> Nat]
  /\ refused \in Nat
  /\ pc \in [Process -> Labels]
  /\ session \in [Process -> Session \union {NoId}]
  /\ requester \in [Process -> Requester \union {NoId}]
  /\ usedSession \in [Process -> Nat]
  /\ usedRequester \in [Process -> Nat]
  /\ started \in 0 .. MaxDelegations
  /\ ran \in [Session -> Nat]
  /\ mishap \in BOOLEAN

(* A session is charged for no call but those that returned, and at rest   *)
(* for all of them, unless a server died between the call and its row.     *)
ChargedForWork ==
  \A s \in Session : /\ bySession[s] <= ran[s]
                     /\ AtRest /\ ~mishap => bySession[s] = ran[s]

Inside(p) == pc[p] \in {"count_requester", "check", "run", "record"}

SessionBudget(s) ==
  INSTANCE Budget WITH
    Actor <- Process, Cap <- MaxPerSession, MaxUse <- 1, spent <- bySession[s],
    inside <- {p \in Process : Inside(p) /\ session[p] = s /\ usedSession[p] < MaxPerSession}

RequesterBudget(r) ==
  INSTANCE Budget WITH
    Actor <- Process, Cap <- MaxPerRequester, MaxUse <- 1, spent <- byRequester[r],
    inside <- {p \in Process : /\ Inside(p) /\ pc[p] # "count_requester"
                               /\ requester[p] = r /\ usedRequester[p] < MaxPerRequester}

(* Servers that count before and record after the delegated call keep the  *)
(* promise of a budget, crash or not: no call is let in on a quota that is *)
(* used up.                                                                *)
SessionsStart == \A s \in Session : SessionBudget(s)!Init
SessionsStep == \A s \in Session : [SessionBudget(s)!Next]_(SessionBudget(s)!vars)

(* The same of the quota of a requester.                                   *)
RequestersStart == \A r \in Requester : RequesterBudget(r)!Init
RequestersStep == \A r \in Requester : [RequesterBudget(r)!Next]_(RequesterBudget(r)!vars)

(* Each server but one can take a quota one past its limit.                *)
QuotaOvershoot ==
  /\ \A s \in Session : SessionBudget(s)!Overshoot
  /\ \A r \in Requester : RequesterBudget(r)!Overshoot

-----------------------------------------------------------------------------

(* Whose call has returned and has no row yet. *)
Unrecorded(s) == {p \in Process : pc[p] = "record" /\ session[p] = s}

(* The inductive invariant. *)
DelegateInv ==
  /\ TypeOK
  /\ \A p \in Process : pc[p] \in {"run", "record"} => QuotaLeft(p)
  /\ \A s \in Session : LET charged == bySession[s] + Cardinality(Unrecorded(s))
                       IN  charged <= ran[s] /\ (~mishap => charged = ran[s])
  /\ QuotaOvershoot
=============================================================================
