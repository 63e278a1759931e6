---------------------------- MODULE Transcripts ----------------------------
(***************************************************************************)
(* Transcripts: one JSON file for each answer of a tool, in a directory    *)
(* that servers share.                                                     *)
(*                                                                         *)
(* write_transcript names the file after the millisecond and the tool,     *)
(* writes it in place and then puts a row in the full-text index, which    *)
(* may fail without a word.  An audit that is given only a session looks   *)
(* for the latest transcript of that session: it lists the directory,      *)
(* reads every file, skips those it cannot parse, takes the one that was   *)
(* modified last and reads it again.  It then writes a transcript of its   *)
(* own, with the same session.                                             *)
(*                                                                         *)
(* Nothing orders the servers.  A server may die at any step and is        *)
(* started again.                                                          *)
(***************************************************************************)
EXTENDS Naturals, Sequences, FiniteSets

CONSTANTS
  Server,       \* processes of the MCP server that share the directory
  Session,      \* session ids that tools are called with
  Tool,         \* other tools that write a transcript: confer, debate, ...
  MaxDocs,      \* bound: transcripts written
  MaxTime,      \* bound: milliseconds
  MaxDeaths     \* bound: servers killed

TranscriptsAssumption ==
  /\ MaxDocs \in Nat /\ MaxTime \in Nat /\ MaxDeaths \in Nat
  /\ "audit" \notin Tool

NoFile == <<>>

VARIABLES
  now,       \* the clock
  docs,      \* every transcript that was begun, in order
  dir,       \* what each name of the directory holds
  index,     \* rows of transcripts_fts: name and transcript
  sv,        \* what each server is doing
  deaths     \* servers killed

vars == <<now, docs, dir, index, sv, deaths>>

Kind == Tool \cup {"audit"}
Name == (0..MaxTime) \X Kind

NameOf(stamp, kind) == <<stamp, kind>>

Idle == [pc |-> "idle", doc |-> 0, session |-> "", todo |-> {}, found |-> {},
         name |-> NoFile, audited |-> 0, before |-> {}, answer |-> "none"]

Init ==
  /\ now = 0
  /\ docs = <<>>
  /\ dir = [n \in Name |-> NoFile]
  /\ index = {}
  /\ sv = [s \in Server |-> Idle]
  /\ deaths = 0

Files == {n \in Name : dir[n] # NoFile}

Tick == now < MaxTime /\ now' = now + 1 /\ UNCHANGED <<docs, dir, index, sv, deaths>>

(***************************************************************************)
(* write_transcript.  The stamp is taken first, and the file opened, which *)
(* empties it, filled, and indexed later.                                  *)
(***************************************************************************)
Begin(s, kind, session, state) ==
  /\ Len(docs) < MaxDocs
  /\ docs' = Append(docs, [kind |-> kind, session |-> session, name |-> NameOf(now, kind)])
  /\ sv' = [sv EXCEPT ![s] = [state EXCEPT !.pc = "open", !.doc = Len(docs) + 1]]
  /\ UNCHANGED <<now, dir, index, deaths>>

ToolEnds(s, kind, session) ==
  /\ sv[s].pc = "idle"
  /\ Begin(s, kind, session, Idle)

File(doc, whole) == [doc |-> doc, whole |-> whole, mtime |-> now]

Put(s, whole) ==
  dir' = [dir EXCEPT ![docs[sv[s].doc].name] = File(sv[s].doc, whole)]

\* Mutant: the row is written before the file.
EarlyIndex(s) ==
  /\ sv[s].pc = "open"
  /\ Put(s, FALSE)
  /\ index' = index \cup {[name |-> docs[sv[s].doc].name, doc |-> sv[s].doc]}
  /\ sv' = [sv EXCEPT ![s].pc = "write"]
  /\ UNCHANGED <<now, docs, deaths>>

Open(s) ==
  /\ sv[s].pc = "open"
  /\ Put(s, FALSE)
  /\ sv' = [sv EXCEPT ![s].pc = "write"]
  /\ UNCHANGED <<now, docs, index, deaths>>

Write(s) ==
  /\ sv[s].pc = "write"
  /\ Put(s, TRUE)
  /\ sv' = [sv EXCEPT ![s].pc = "index"]
  /\ UNCHANGED <<now, docs, index, deaths>>

\* _fts_index_transcript, best effort.
IndexRow(s) ==
  /\ sv[s].pc = "index"
  /\ \/ index' = index \cup {[name |-> docs[sv[s].doc].name, doc |-> sv[s].doc]}
     \/ UNCHANGED index
  /\ sv' = [sv EXCEPT ![s].pc = "idle", ![s].answer = "done"]
  /\ UNCHANGED <<now, docs, dir, deaths>>

(***************************************************************************)
(* audit(session_id): _latest_transcript_for_session, then the file again. *)
(* before is history: the transcripts that were there, whole, when the     *)
(* directory was listed.                                                   *)
(***************************************************************************)
Whole == {dir[n].doc : n \in {m \in Files : dir[m].whole}}

Audit(s, session) ==
  /\ sv[s].pc = "idle"
  /\ Len(docs) < MaxDocs
  /\ sv' = [sv EXCEPT ![s] = [Idle EXCEPT !.pc = "scan", !.session = session,
                                          !.todo = Files, !.before = Whole]]
  /\ UNCHANGED <<now, docs, dir, index, deaths>>

\* Mutant: a file that does not parse ends the scan.
ProbeStops(s, n) ==
  /\ sv[s].pc = "scan" /\ n \in sv[s].todo
  /\ sv' = IF dir[n].whole
           THEN [sv EXCEPT ![s].todo = @ \ {n},
                           ![s].found = IF docs[dir[n].doc].session = sv[s].session
                                        THEN @ \cup {[mtime |-> dir[n].mtime, name |-> n]} ELSE @]
           ELSE [sv EXCEPT ![s].todo = {}]
  /\ UNCHANGED <<now, docs, dir, index, deaths>>

\* A file that does not parse, or is of another session, is passed over.
Probe(s, n) ==
  /\ sv[s].pc = "scan" /\ n \in sv[s].todo
  /\ sv' = [sv EXCEPT ![s].todo = @ \ {n},
                      ![s].found = IF dir[n].whole /\ docs[dir[n].doc].session = sv[s].session
                                   THEN @ \cup {[mtime |-> dir[n].mtime, name |-> n]} ELSE @]
  /\ UNCHANGED <<now, docs, dir, index, deaths>>

\* Mutant: the last by name.
LastByName(found) ==
  {c \in found : \A d \in found : d.name[1] <= c.name[1]}

\* The last by modification time; names settle ties, in an order of strings.
Latest(found) ==
  {c \in found : \A d \in found : d.mtime <= c.mtime}

Choose(s) ==
  /\ sv[s].pc = "scan" /\ sv[s].todo = {}
  /\ IF sv[s].found = {}
     THEN sv' = [sv EXCEPT ![s].pc = "idle", ![s].answer = "load failed"]
     ELSE \E c \in Latest(sv[s].found) :
            sv' = [sv EXCEPT ![s].pc = "load", ![s].name = c.name]
  /\ UNCHANGED <<now, docs, dir, index, deaths>>

LoadText(s) ==
  /\ sv[s].pc = "load"
  /\ LET file == dir[sv[s].name] IN
     sv' = [sv EXCEPT ![s] = IF file.whole
                             THEN [@ EXCEPT !.pc = "judge", !.audited = file.doc]
                             ELSE [@ EXCEPT !.pc = "idle", !.answer = "load failed"]]
  /\ UNCHANGED <<now, docs, dir, index, deaths>>

\* The judges answer; the report has the session it was asked for.
Report(s) ==
  /\ sv[s].pc = "judge"
  /\ Begin(s, "audit", sv[s].session, sv[s])

Die(s) ==
  /\ sv[s].pc # "idle"
  /\ deaths < MaxDeaths
  /\ deaths' = deaths + 1
  /\ sv' = [sv EXCEPT ![s] = Idle]
  /\ UNCHANGED <<now, docs, dir, index>>

Step(s) ==
  \/ Open(s) \/ Write(s) \/ IndexRow(s) \/ Choose(s) \/ LoadText(s) \/ Report(s) \/ Die(s)
  \/ \E session \in Session : Audit(s, session) \/ \E kind \in Tool : ToolEnds(s, kind, session)
  \/ \E n \in Name : Probe(s, n)

Next == Tick \/ \E s \in Server : Step(s)

Spec == Init /\ [][Next]_vars
-----------------------------------------------------------------------------
Doc == 1..Len(docs)

TypeOK ==
  /\ now \in 0..MaxTime
  /\ \A d \in Doc : docs[d] \in [kind : Kind, session : Session, name : Name]
  /\ \A n \in Files : dir[n] \in [doc : Doc, whole : BOOLEAN, mtime : 0..now]
  /\ index \subseteq [name : Name, doc : Doc]
  /\ \A s \in Server : /\ sv[s].doc \in 0..Len(docs)
                       /\ sv[s].todo \subseteq Files
                       /\ sv[s].audited \in 0..Len(docs)
  /\ deaths \in 0..MaxDeaths

\* Two transcripts of one tool in the same millisecond.
Twins(d, e) == d # e /\ docs[d].kind = docs[e].kind /\ docs[d].name[1] = docs[e].name[1]
Twinned(d) == \E e \in Doc : Twins(d, e)

(***************************************************************************)
(* A row of the index names a file that holds, whole, the transcript the   *)
(* row was made from: across deaths, and whatever the others write.  Only  *)
(* a transcript of the same tool in the same millisecond can take its      *)
(* place (write_transcript).                                               *)
(***************************************************************************)
OnlyTwinsOverwrite ==
  \A row \in index :
    \/ dir[row.name].doc = row.doc /\ dir[row.name].whole
    \/ Twinned(row.doc)

(***************************************************************************)
(* An audit by session is of a transcript of that session, and no other    *)
(* that was complete when the audit began was modified after it, however   *)
(* the servers write while the directory is read.  Again twins are the     *)
(* exception (_latest_transcript_for_session, tool_audit).                 *)
(***************************************************************************)
MtimeOf(d) == dir[docs[d].name].mtime

LatestIsAudited ==
  \A s \in Server :
    sv[s].audited # 0 /\ (\A d \in Doc : ~Twinned(d))
    => /\ docs[sv[s].audited].session = sv[s].session
       /\ \A d \in sv[s].before :
            docs[d].session = sv[s].session => MtimeOf(d) <= MtimeOf(sv[s].audited)

(***************************************************************************)
(* An audit does not come back empty-handed from a session that had a      *)
(* complete transcript when it began.                                      *)
(***************************************************************************)
LoadFindsText ==
  \A s \in Server :
    sv[s].answer = "load failed" /\ (\A d \in Doc : ~Twinned(d))
    => \A d \in sv[s].before : docs[d].session # sv[s].session

(***************************************************************************)
(* tool_audit says of an audit by session: "pull the latest synth/output". *)
(* The latest transcript of a session that was audited before is the       *)
(* report of that audit.                                                   *)
(***************************************************************************)
AuditsAnOutput ==
  \A s \in Server : sv[s].audited # 0 => docs[sv[s].audited].kind # "audit"

-----------------------------------------------------------------------------
(***************************************************************************)
(* The inductive invariant.  A transcript is kept while its file holds it  *)
(* whole.  A writer's transcript is its own, and not kept before it has    *)
(* been written; as long as there are no twins, what was kept stays kept,  *)
(* unmodified, and a scan has found it or will come to it.                 *)
(***************************************************************************)
Untwinned == \A d \in Doc : ~Twinned(d)

Writing == {"open", "write", "index"}
Auditing == {"scan", "load", "judge"}

State ==
  [pc : {"idle"} \cup Writing \cup Auditing, doc : Nat, session : Session \cup {""},
   todo : SUBSET Name, found : SUBSET [mtime : Nat, name : Name],
   name : Name \cup {NoFile}, audited : Nat, before : SUBSET Nat,
   answer : {"none", "done", "load failed"}]

Shape ==
  /\ now \in 0..MaxTime
  /\ docs \in Seq([kind : Kind, session : Session, name : Name])
  /\ \A d \in Doc : docs[d].name[2] = docs[d].kind
  /\ dir \in [Name -> {NoFile} \cup [doc : Doc, whole : BOOLEAN, mtime : 0..now]]
  /\ index \subseteq [name : Name, doc : Doc]
  /\ sv \in [Server -> State]
  /\ deaths \in 0..MaxDeaths

Kept(d) ==
  LET n == docs[d].name IN n \in Files /\ dir[n].doc = d /\ dir[n].whole

Named ==
  /\ \A n \in Files : docs[dir[n].doc].name = n
  /\ \A row \in index : /\ docs[row.doc].name = row.name
                        /\ Kept(row.doc) \/ Twinned(row.doc)

Writer(s) ==
  /\ sv[s].pc \in Writing
     => /\ sv[s].doc \in Doc
        /\ \A row \in index : row.doc # sv[s].doc
        /\ \A t \in Server \ {s} : sv[t].pc \in Writing => sv[t].doc # sv[s].doc
  /\ sv[s].pc \in {"open", "write"} => ~Kept(sv[s].doc)
  /\ sv[s].pc = "index" => Kept(sv[s].doc) \/ Twinned(sv[s].doc)

Found(d) == [mtime |-> MtimeOf(d), name |-> docs[d].name]

Newest(s, a) ==
  /\ a \in Doc /\ Kept(a)
  /\ docs[a].session = sv[s].session
  /\ \A d \in sv[s].before : docs[d].session = sv[s].session => MtimeOf(d) <= MtimeOf(a)

Reader(s) ==
  /\ sv[s].doc \in 0..Len(docs) /\ sv[s].audited \in 0..Len(docs)
  /\ sv[s].todo \subseteq Files
  /\ sv[s].pc = "scan" => \A c \in sv[s].found : c.name \in Files
  /\ sv[s].pc = "load" => sv[s].name \in Files
  /\ sv[s].pc \in Auditing => sv[s].session \in Session
  /\ Untwinned =>
       /\ \A d \in sv[s].before : d \in Doc /\ Kept(d)
       /\ sv[s].pc = "scan"
          => /\ \A c \in sv[s].found :
                  \E d \in Doc : /\ Kept(d) /\ docs[d].session = sv[s].session
                                 /\ c = Found(d)
             /\ \A d \in sv[s].before :
                  \/ docs[d].session # sv[s].session
                  \/ docs[d].name \in sv[s].todo
                  \/ Found(d) \in sv[s].found
       /\ sv[s].pc = "load" => \E a \in Doc : Newest(s, a) /\ sv[s].name = docs[a].name
       /\ sv[s].audited # 0 => Newest(s, sv[s].audited)
       /\ sv[s].answer = "load failed"
          => \A d \in sv[s].before : docs[d].session # sv[s].session

DocsInv == Shape /\ Named /\ \A s \in Server : Writer(s) /\ Reader(s)
=============================================================================
