------------------------------- MODULE Egress -------------------------------
(***************************************************************************)
(* tool_fetch of src/servers/python/crosscheck_server.py for one session:  *)
(* the egress ledger in fetch_egress, the evidence files, and the worker   *)
(* threads (of one server or several) that fetch at the same time. One     *)
(* step is one SQL statement, one transfer or one half of a file write;    *)
(* write_bytes and write_text truncate and then write. A host serves one   *)
(* page, whose content may change. The gates on scheme, allowlist and      *)
(* configuration refuse before any state is read and are left out.         *)
(***************************************************************************)
EXTENDS Naturals, FiniteSets, Functions

CONSTANTS
  Fetcher,         (* the threads that fetch for the session *)
  Host,            (* the allowed hosts *)
  MaxBytes,        (* fetch.max_bytes, of one response *)
  MaxBytesSession, (* fetch.max_bytes_per_session, 0 disables *)
  MaxHosts,        (* fetch.max_unique_hosts_per_session, 0 disables *)
  DbFails,         (* whether the ledger's statements may fail *)
  MaxFetches       (* bound: fetches of all threads *)

EgressAssumption ==
  /\ IsFiniteSet(Fetcher)
  /\ IsFiniteSet(Host)
  /\ MaxBytes \in Nat
  /\ MaxBytesSession \in Nat
  /\ MaxHosts \in Nat
  /\ DbFails \in BOOLEAN
  /\ MaxFetches \in Nat

VARIABLES
  ledger,        (* the bytes of each host that has a row *)
  meta,          (* by-url-*.json of each host, and the content it names *)
  body,          (* the .bin file of each content *)
  pc,            (* where each thread is in its fetch *)
  host,          (* the host it fetches from *)
  force,         (* its force_refresh *)
  seen,          (* its host had a row when the number of hosts was at its cap *)
  got,           (* the content it has received *)
  started,       (* fetches begun, at most MaxFetches *)
  pulled,        (* history: bytes received *)
  wasted,        (* history: bytes of transfers that returned no page *)
  mishap         (* history: a crash, a failed write or a failed statement *)

vars == <<ledger, meta, body, pc, host, force, seen, got, started, pulled, wasted, mishap>>
books == <<ledger, pulled, wasted>>
files == <<meta, body>>
call == <<host, force, seen, got>>

(* A content is named by its size; the one beyond MaxBytes is too large.   *)
Content == 0 .. MaxBytes
File == {"none", "torn", "whole"}

Total == SumFunction(ledger)
Hosts == Cardinality(DOMAIN ledger)

Goto(f, label) == pc' = [pc EXCEPT ![f] = label]

-----------------------------------------------------------------------------

Init ==
  /\ ledger = [h \in {} |-> 0]
  /\ meta = [h \in Host |-> [file |-> "none", of |-> 0]]
  /\ body = [c \in Content |-> "none"]
  /\ pc = [f \in Fetcher |-> "idle"]
  /\ host \in [Fetcher -> Host]
  /\ force = [f \in Fetcher |-> FALSE]
  /\ seen = [f \in Fetcher |-> FALSE]
  /\ got = [f \in Fetcher |-> 0]
  /\ started = 0
  /\ pulled = 0
  /\ wasted = 0
  /\ mishap = FALSE

Begin(f) ==
  /\ pc[f] = "idle"
  /\ started < MaxFetches
  /\ started' = started + 1
  /\ \E h \in Host : host' = [host EXCEPT ![f] = h]
  /\ \E b \in BOOLEAN : force' = [force EXCEPT ![f] = b]
  /\ seen' = [seen EXCEPT ![f] = FALSE]
  /\ Goto(f, "totals")
  /\ UNCHANGED <<books, files, got, mishap>>

(* Mutant: the bytes are compared only when no host cap is set. *)
OverBytesUnlessHosts(total) == MaxHosts = 0 /\ MaxBytesSession > 0 /\ total >= MaxBytesSession

OverBytes(total) == MaxBytesSession > 0 /\ total >= MaxBytesSession

(* Mutant: the host cap is read as the last host number allowed. *)
OverHostsLate(hosts) == MaxHosts > 0 /\ hosts > MaxHosts

OverHosts(hosts) == MaxHosts > 0 /\ hosts >= MaxHosts

(* _fetch_egress_stats and the comparisons with both caps. *)
Stats(f) ==
  /\ pc[f] = "totals"
  /\ Goto(f, IF OverBytes(Total) THEN "idle" ELSE IF OverHosts(Hosts) THEN "host" ELSE "lookup")
  /\ UNCHANGED <<books, files, call, started, mishap>>

(* A failing statement reads as nothing spent. *)
StatsFail(f) ==
  /\ DbFails
  /\ pc[f] = "totals"
  /\ Goto(f, "lookup")
  /\ mishap' = TRUE
  /\ UNCHANGED <<books, files, call, started>>

(* A host at the cap is still served when it has a row. *)
SeenHost(f) ==
  /\ pc[f] = "host"
  /\ LET row == host[f] \in DOMAIN ledger
     IN /\ seen' = [seen EXCEPT ![f] = row]
        /\ Goto(f, IF row THEN "lookup" ELSE "idle")
  /\ UNCHANGED <<books, files, host, force, got, started, mishap>>

(* A snapshot of the page answers the fetch; a torn meta file is a miss.   *)
Lookup(f) ==
  /\ pc[f] = "lookup"
  /\ Goto(f, IF meta[host[f]].file = "whole" /\ ~force[f] THEN "idle" ELSE "get")
  /\ UNCHANGED <<books, files, call, started, mishap>>

(* Mutant: the response may be one byte larger than max_bytes. *)
DownloadOneMore(f) ==
  /\ pc[f] = "get"
  /\ \E c \in 0 .. MaxBytes + 1 :
       /\ got' = [got EXCEPT ![f] = c]
       /\ pulled' = pulled + c
  /\ Goto(f, "body")
  /\ UNCHANGED <<ledger, wasted, files, host, force, seen, started, mishap>>

Download(f) ==
  /\ pc[f] = "get"
  /\ \E c \in Content :
       /\ got' = [got EXCEPT ![f] = c]
       /\ pulled' = pulled + c
  /\ Goto(f, "body")
  /\ UNCHANGED <<ledger, wasted, files, host, force, seen, started, mishap>>

(* A transfer that returns no page is recorded nowhere.                    *)
Waste(f, c) ==
  /\ pc[f] = "get"
  /\ pulled' = pulled + c
  /\ wasted' = wasted + c
  /\ Goto(f, "idle")
  /\ UNCHANGED <<ledger, files, call, started, mishap>>

(* More than max_bytes has come: the fetch is refused.                     *)
Abort(f) == Waste(f, MaxBytes + 1)

(* The body of an error page is read to its end, whatever its size; a byte *)
(* beyond max_bytes stands for any excess.                                 *)
HttpError(f) == \E c \in 0 .. MaxBytes + 1 : Waste(f, c)

(* Nothing comes, or the transfer breaks off before its end.               *)
Break(f) == \E c \in Content : Waste(f, c)

(* Mutant: a page that has evidence is taken to have its body on disk.     *)
TruncateBodyOnce(f) ==
  /\ pc[f] = "body"
  /\ IF meta[host[f]].file = "whole" THEN Goto(f, "meta") /\ UNCHANGED body
     ELSE Goto(f, "fill_body") /\ body' = [body EXCEPT ![got[f]] = "torn"]
  /\ UNCHANGED <<books, meta, call, started, mishap>>

TruncateBody(f) ==
  /\ pc[f] = "body"
  /\ body' = [body EXCEPT ![got[f]] = "torn"]
  /\ Goto(f, "fill_body")
  /\ UNCHANGED <<books, meta, call, started, mishap>>

FillBody(f) ==
  /\ pc[f] = "fill_body"
  /\ body' = [body EXCEPT ![got[f]] = "whole"]
  /\ Goto(f, "meta")
  /\ UNCHANGED <<books, meta, call, started, mishap>>

TruncateMeta(f) ==
  /\ pc[f] = "meta"
  /\ meta' = [meta EXCEPT ![host[f]] = [file |-> "torn", of |-> got[f]]]
  /\ Goto(f, "fill_meta")
  /\ UNCHANGED <<books, body, call, started, mishap>>

(* Over a longer text that another thread wrote since the truncation, the  *)
(* end of that text remains.                                               *)
FillMeta(f) ==
  /\ pc[f] = "fill_meta"
  /\ LET overwrites == meta[host[f]].file = "whole" /\ meta[host[f]].of # got[f]
     IN \E file \in {"whole"} \union (IF overwrites THEN {"torn"} ELSE {}) :
          meta' = [meta EXCEPT ![host[f]] = [file |-> file, of |-> got[f]]]
  /\ Goto(f, "record")
  /\ UNCHANGED <<books, body, call, started, mishap>>

(* Mutant: the upsert replaces the row's bytes instead of adding to them.  *)
RecordReplacing(f) ==
  /\ pc[f] = "record"
  /\ ledger' = [h \in DOMAIN ledger \union {host[f]} |->
                  IF h = host[f] THEN got[f] ELSE ledger[h]]
  /\ Goto(f, "idle")
  /\ UNCHANGED <<pulled, wasted, files, call, started, mishap>>

(* Mutant: the size of the whole evidence is recorded for each fetch.      *)
RecordMaximum(f) ==
  /\ pc[f] = "record"
  /\ ledger' = [h \in DOMAIN ledger \union {host[f]} |->
                  IF h \in DOMAIN ledger THEN IF h = host[f] THEN ledger[h] + MaxBytes ELSE ledger[h]
                  ELSE MaxBytes]
  /\ Goto(f, "idle")
  /\ UNCHANGED <<pulled, wasted, files, call, started, mishap>>

(* The upsert of _fetch_egress_record. *)
Record(f) ==
  /\ pc[f] = "record"
  /\ ledger' = [h \in DOMAIN ledger \union {host[f]} |->
                  (IF h \in DOMAIN ledger THEN ledger[h] ELSE 0)
                  + (IF h = host[f] THEN got[f] ELSE 0)]
  /\ Goto(f, "idle")
  /\ UNCHANGED <<pulled, wasted, files, call, started, mishap>>

RecordFails(f) ==
  /\ DbFails
  /\ pc[f] = "record"
  /\ Goto(f, "idle")
  /\ mishap' = TRUE
  /\ UNCHANGED <<books, files, call, started>>

(* The server dies, or a file or statement outside every try raises.       *)
Crash(f) ==
  /\ pc[f] # "idle"
  /\ Goto(f, "idle")
  /\ mishap' = TRUE
  /\ UNCHANGED <<books, files, call, started>>

-----------------------------------------------------------------------------

Fetch(f) ==
  \/ Begin(f) \/ Stats(f) \/ StatsFail(f) \/ SeenHost(f) \/ Lookup(f)
  \/ Download(f) \/ Abort(f) \/ HttpError(f) \/ Break(f)
  \/ TruncateBody(f) \/ FillBody(f) \/ TruncateMeta(f) \/ FillMeta(f)
  \/ Record(f) \/ RecordFails(f)

AtRest == \A f \in Fetcher : pc[f] = "idle"

Stopped == AtRest /\ started = MaxFetches /\ UNCHANGED vars

Next == (\E f \in Fetcher : Fetch(f) \/ Crash(f)) \/ Stopped

Spec == Init /\ [][Next]_vars

-----------------------------------------------------------------------------

Transfer == {"lookup", "get", "body", "fill_body", "meta", "fill_meta", "record"}
Labels == {"idle", "totals", "host"} \union Transfer

(* The variables have their types. *)
TypeOK ==
  /\ DOMAIN ledger \subseteq Host
  /\ \A h \in DOMAIN ledger : ledger[h] \in Nat
  /\ meta \in [Host -> [file : File, of : Content]]
  /\ body \in [Content -> File]
  /\ pc \in [Fetcher -> Labels]
  /\ host \in [Fetcher -> Host]
  /\ force \in [Fetcher -> BOOLEAN]
  /\ seen \in [Fetcher -> BOOLEAN]
  /\ got \in [Fetcher -> Content]
  /\ started \in 0 .. MaxFetches
  /\ pulled \in Nat
  /\ wasted \in Nat
  /\ mishap \in BOOLEAN

(* The ledger never charges a session for bytes it has not received.       *)
LedgerIsBacked == Total <= pulled

(* When all threads are done and nothing failed, the bytes that are not in *)
(* the ledger are those of transfers that returned no page: too large, an  *)
(* error page, or broken off.                                              *)
OnlyWasteEscapes == AtRest /\ ~mishap => Total + wasted = pulled

(* When all threads are done and nothing failed, whatever a repeated fetch *)
(* would answer from evidence has its complete body, even if threads wrote *)
(* the same files at the same time. (A meta file they garbled is a miss.)  *)
EvidenceAtRest ==
  AtRest /\ ~mishap =>
    \A h \in Host : meta[h].file = "whole" => body[meta[h].of] = "whole"

BytesBudget ==
  INSTANCE Budget WITH
    Actor <- Fetcher, Cap <- MaxBytesSession, MaxUse <- MaxBytes,
    spent <- Total, inside <- {f \in Fetcher : pc[f] \in Transfer \union {"host"}}

HostBudget ==
  INSTANCE Budget WITH
    Actor <- Fetcher, Cap <- MaxHosts, MaxUse <- 1,
    spent <- Hosts, inside <- {f \in Fetcher : pc[f] \in Transfer /\ ~seen[f]}

(* Threads that race past the check of the bytes, die or fail to write keep *)
(* the promise of a budget: nobody enters once the cap is reached.         *)
BytesStep == [BytesBudget!Next]_(BytesBudget!vars)

(* The same of the number of hosts, where a host that has a row costs      *)
(* nothing.                                                                *)
HostsStep == [HostBudget!Next]_(HostBudget!vars)

(* What the session can be charged with at most: the cap, and one response *)
(* of each thread that was let in below it.                                *)
BytesOvershoot == BytesBudget!Overshoot
HostsOvershoot == HostBudget!Overshoot

(* README.md:346: each fetch ledgers its bytes against the session. False  *)
(* of a response that is given up after max_bytes, of an error page, whose *)
(* body is read without a cap (:5689), and of a transfer that breaks off.  *)
EachFetchLedgered == AtRest /\ ~mishap => Total = pulled

(* README.md:61: what a repeated fetch answers with is a snapshot with the *)
(* digest it reports. False while, and after, an interrupted refresh of an *)
(* unchanged page truncates the file under its digest.                     *)
SnapshotIsWhole == \A h \in Host : meta[h].file = "whole" => body[meta[h].of] = "whole"

-----------------------------------------------------------------------------

(* What a thread has received and not yet recorded. *)
InHand(f) == IF pc[f] \in {"body", "fill_body", "meta", "fill_meta", "record"} THEN got[f] ELSE 0

Held == SumFunction([f \in Fetcher |-> InHand(f)])

(* Where the bytes that were received have gone. *)
Accounted ==
  LET known == Total + wasted + Held
  IN  known <= pulled /\ (~mishap => known = pulled)

(* A body is there before the meta file that names it, and is torn only    *)
(* while a thread writes it.                                               *)
BodiesFirst ==
  /\ \A h \in Host : meta[h].file = "whole" => body[meta[h].of] # "none"
  /\ \A f \in Fetcher : pc[f] \in {"meta", "fill_meta", "record"} => body[got[f]] # "none"
  /\ ~mishap => \A c \in Content : body[c] = "torn" =>
                   \E f \in Fetcher : pc[f] = "fill_body" /\ got[f] = c

(* The inductive invariant. *)
EgressInv ==
  /\ TypeOK
  /\ Accounted
  /\ BodiesFirst
  /\ \A f \in Fetcher : seen[f] => host[f] \in DOMAIN ledger
  /\ MaxBytesSession > 0 /\ ~DbFails => BytesOvershoot
  /\ MaxHosts > 0 /\ ~DbFails => HostsOvershoot
=============================================================================
