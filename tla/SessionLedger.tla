--------------------------- MODULE SessionLedger ---------------------------
(***************************************************************************)
(* The two books of one session in .crosscheck/sessions.sqlite3, as every  *)
(* paid tool of src/servers/python/crosscheck_server.py keeps them:        *)
(* _session_load and the session breakers on entry, the provider calls,    *)
(* then _session_record and _session_save (the row of `sessions`) and      *)
(* log_usage (the rows of `usage_log`). A server runs one tool at a time;  *)
(* several servers may share the database. One step is one SQL statement   *)
(* or one provider answer. The tokens stand for the cost as well, the two  *)
(* totals that answers add to and breakers cap; wall_ms, which a call adds *)
(* to once, is left out.                                                   *)
(***************************************************************************)
EXTENDS Naturals, FiniteSets

CONSTANTS
  Process,       (* the server processes *)
  Cap,           (* max_session_tokens, 0 disables the breaker *)
  MaxCost,       (* bound: tokens of one answer; a cache hit costs 0 *)
  MaxAnswers,    (* bound: answers collected by one tool call *)
  MaxCalls       (* bound: tool calls of all processes *)

LedgerAssumption ==
  /\ IsFiniteSet(Process)
  /\ Cap \in Nat
  /\ MaxCost \in Nat
  /\ MaxAnswers \in Nat
  /\ MaxCalls \in Nat

VARIABLES
  present,       (* the session has a row *)
  row,           (* its totals *)
  logged,        (* the totals of the session's usage_log rows *)
  pc,            (* where each process is in its tool call *)
  snap,          (* the totals _session_load returned to it *)
  spent,         (* the totals of the answers it has collected *)
  started,       (* tool calls begun, at most MaxCalls *)
  paid,          (* history: the answers collected and what they were billed *)
  unseen,        (* history: tokens billed that no answer's usage shows *)
  saved,         (* history: what the calls that saved had spent *)
  mishap         (* history: a process died or a statement failed *)

vars == <<present, row, logged, pc, snap, spent, started, paid, unseen, saved, mishap>>

Totals == [calls : Nat, tokens : Nat]
Zero == [calls |-> 0, tokens |-> 0]
Plus(a, b) == [calls |-> a.calls + b.calls, tokens |-> a.tokens + b.tokens]
AtMost(a, b) == a.calls <= b.calls /\ a.tokens <= b.tokens

Goto(p, label) == pc' = [pc EXCEPT ![p] = label]

-----------------------------------------------------------------------------

Init ==
  /\ present = FALSE
  /\ row = Zero
  /\ logged = Zero
  /\ pc = [p \in Process |-> "idle"]
  /\ snap = [p \in Process |-> Zero]
  /\ spent = [p \in Process |-> Zero]
  /\ started = 0
  /\ paid = Zero
  /\ unseen = 0
  /\ saved = Zero
  /\ mishap = FALSE

Begin(p) ==
  /\ pc[p] = "idle"
  /\ started < MaxCalls
  /\ started' = started + 1
  /\ Goto(p, "select")
  /\ spent' = [spent EXCEPT ![p] = Zero]
  /\ UNCHANGED <<present, row, logged, snap, paid, unseen, saved, mishap>>

(* Mutant: the breaker trips only above its cap. *)
TrippedAbove(totals) == Cap > 0 /\ totals.tokens > Cap

(* _check_session_breakers *)
Tripped(totals) == Cap > 0 /\ totals.tokens >= Cap

(* Mutant: the totals of an existing row are not read back. *)
SelectForgetting(p) ==
  /\ pc[p] = "select"
  /\ snap' = [snap EXCEPT ![p] = Zero]
  /\ Goto(p, IF present THEN "work" ELSE "insert")
  /\ UNCHANGED <<present, row, logged, spent, started, paid, unseen, saved, mishap>>

(* The SELECT, and the breaker on the row it finds. *)
Select(p) ==
  /\ pc[p] = "select"
  /\ snap' = [snap EXCEPT ![p] = row]
  /\ Goto(p, IF ~present THEN "insert" ELSE IF Tripped(row) THEN "idle" ELSE "work")
  /\ UNCHANGED <<present, row, logged, spent, started, paid, unseen, saved, mishap>>

(* The INSERT of a new session: an IntegrityError if another process was   *)
(* faster, and then the tool call fails.                                   *)
Insert(p) ==
  /\ pc[p] = "insert"
  /\ present' = TRUE
  /\ Goto(p, IF present THEN "idle" ELSE "work")
  /\ mishap' = (mishap \/ present)
  /\ UNCHANGED <<row, logged, snap, spent, started, paid, unseen, saved>>

(* An answer is collected. Its usage shows what it was billed, 0 of a      *)
(* cache hit or a refused call, or less: an answer that cannot be cached   *)
(* becomes an error with an empty usage, and a structured request that is  *)
(* asked again shows its last draft only.                                  *)
Answer(p) ==
  /\ pc[p] = "work"
  /\ spent[p].calls < MaxAnswers
  /\ \E bill \in 0 .. MaxCost : \E shown \in 0 .. bill :
       /\ spent' = [spent EXCEPT ![p] = Plus(@, [calls |-> 1, tokens |-> shown])]
       /\ paid' = Plus(paid, [calls |-> 1, tokens |-> bill])
       /\ unseen' = unseen + (bill - shown)
  /\ UNCHANGED <<present, row, logged, pc, snap, started, saved, mishap>>

(* Mutant: a tool composed of tools records what they have recorded. *)
SaveTwice(p) ==
  /\ pc[p] = "work"
  /\ present' = TRUE
  /\ row' = Plus(Plus(snap[p], spent[p]), spent[p])
  /\ saved' = Plus(saved, spent[p])
  /\ Goto(p, "log")
  /\ UNCHANGED <<logged, snap, spent, started, paid, unseen, mishap>>

(* _session_record on the snapshot, and the upsert of its totals. *)
Save(p) ==
  /\ pc[p] = "work"
  /\ present' = TRUE
  /\ row' = Plus(snap[p], spent[p])
  /\ saved' = Plus(saved, spent[p])
  /\ Goto(p, "log")
  /\ UNCHANGED <<logged, snap, spent, started, paid, unseen, mishap>>

(* The tool raises or returns before it records, or the database stays     *)
(* locked past its timeout: what it spent is in neither book.              *)
Abandon(p) ==
  /\ pc[p] = "work"
  /\ Goto(p, "idle")
  /\ mishap' = TRUE
  /\ UNCHANGED <<present, row, logged, snap, spent, started, paid, unseen, saved>>

(* Mutant: the answers of the first phase only are passed to log_usage. *)
LogFirst(p) ==
  /\ pc[p] = "log"
  /\ logged' = IF spent[p].calls > 1 THEN Plus(logged, [spent[p] EXCEPT !.calls = 1])
               ELSE Plus(logged, spent[p])
  /\ Goto(p, "idle")
  /\ UNCHANGED <<present, row, snap, spent, started, paid, unseen, saved, mishap>>

Log(p) ==
  /\ pc[p] = "log"
  /\ logged' = Plus(logged, spent[p])
  /\ Goto(p, "idle")
  /\ UNCHANGED <<present, row, snap, spent, started, paid, unseen, saved, mishap>>

(* executemany commits row by row: an error, which is swallowed, leaves    *)
(* the rows before it.                                                     *)
LogFails(p) ==
  /\ pc[p] = "log"
  /\ \E rows \in 0 .. spent[p].calls, part \in 0 .. spent[p].tokens :
       logged' = Plus(logged, [calls |-> rows, tokens |-> part])
  /\ Goto(p, "idle")
  /\ mishap' = TRUE
  /\ UNCHANGED <<present, row, snap, spent, started, paid, unseen, saved>>

(* The server is killed and started again. *)
Crash(p) ==
  /\ pc[p] # "idle"
  /\ Goto(p, "idle")
  /\ mishap' = TRUE
  /\ UNCHANGED <<present, row, logged, snap, spent, started, paid, unseen, saved>>

-----------------------------------------------------------------------------

ToolCall(p) ==
  \/ Begin(p) \/ Select(p) \/ Insert(p) \/ Answer(p)
  \/ Save(p) \/ Abandon(p) \/ Log(p) \/ LogFails(p)

AtRest == \A p \in Process : pc[p] = "idle"

Stopped == AtRest /\ started = MaxCalls /\ UNCHANGED vars

Next == (\E p \in Process : ToolCall(p) \/ Crash(p)) \/ Stopped

Spec == Init /\ [][Next]_vars

-----------------------------------------------------------------------------

Labels == {"idle", "select", "insert", "work", "log"}

(* The variables have their types. *)
TypeOK ==
  /\ present \in BOOLEAN
  /\ row \in Totals
  /\ logged \in Totals
  /\ pc \in [Process -> Labels]
  /\ snap \in [Process -> Totals]
  /\ spent \in [Process -> Totals]
  /\ started \in 0 .. MaxCalls
  /\ paid \in Totals
  /\ unseen \in Nat
  /\ saved \in Totals
  /\ mishap \in BOOLEAN

(* However servers interleave, die, fail to write or overwrite each other, *)
(* the row never shows more than the providers have billed: no answer is   *)
(* counted twice, and no breaker trips on money nobody spent.              *)
RowIsBacked == AtMost(row, paid)

(* When every call has ended and nothing went wrong, usage_log has every   *)
(* answer with what its usage shows, also where servers overwrote each     *)
(* other's row: what was billed and is not there, no answer showed.        *)
LogIsComplete ==
  AtRest /\ ~mishap => /\ logged.calls = paid.calls
                      /\ logged.tokens + unseen = paid.tokens

(* The row accumulates: it always shows what all the calls that saved it   *)
(* have spent (README.md on the `session` block). True of a session that   *)
(* one server at a time uses.                                              *)
RowIsCumulative == row = saved

(* A session that has reached its cap is never billed again by the server  *)
(* that uses it: the breaker trips before the operation runs.              *)
TrippedStep == Cap > 0 /\ row.tokens >= Cap => paid' = paid

-----------------------------------------------------------------------------

Pending == {"work", "log"}

(* A row that is read is backed, and what is spent on top of it is billed. *)
Backed ==
  /\ TypeOK
  /\ RowIsBacked
  /\ ~present => row = Zero
  /\ \A p \in Process :
       /\ pc[p] = "select" => spent[p] = Zero
       /\ pc[p] = "insert" => snap[p] = Zero /\ spent[p] = Zero
       /\ pc[p] \in Pending => AtMost(Plus(snap[p], spent[p]), paid)

(* The snapshot of a server that nobody writes beside stays the row.       *)
Unshared ==
  /\ RowIsCumulative
  /\ \A p \in Process :
       /\ pc[p] = "insert" => ~present
       /\ pc[p] = "work" => present /\ snap[p] = row /\ ~Tripped(row)

(* The inductive invariant. *)
LedgerInv == Backed /\ ((\E p \in Process : Process = {p}) => Unshared)
=============================================================================
