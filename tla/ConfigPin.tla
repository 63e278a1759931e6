----------------------------- MODULE ConfigPin -----------------------------
(***************************************************************************)
(* Config pinning and the gate of the dispatcher.                          *)
(*                                                                         *)
(* A pin file records the hash of each configuration file.  The drift is   *)
(* worked out by reading the pin file, then looking which files exist,     *)
(* then hashing them one by one, and last looking whether the pin file     *)
(* exists: seven or more system calls, while an editor saves files and     *)
(* another server pins.  When drift is rejected the dispatcher works it    *)
(* out before a tool call, and once more for the refusal; config_pin works *)
(* it out before each of its actions, and set and accept_drift hash the    *)
(* files again for what they write.                                        *)
(*                                                                         *)
(* A content is a text with its line endings: Text gives the text.  The    *)
(* hash of a file is its text, or Empty when it cannot be read.            *)
(***************************************************************************)
EXTENDS Naturals, FiniteSets

CONSTANTS
  Server,      \* processes of the MCP server that share the directory
  File,        \* the files of the pin set: _config_pin_targets
  Content,     \* contents a file may have
  Text,        \* the content with its line endings normalised
  Reject,      \* reject_drift, or CROSSCHECK_REJECT_CONFIG_DRIFT
  Action,      \* the actions of config_pin that are called
  MaxEdits,    \* bound: changes made from outside
  MaxCalls     \* bound: tool calls over all servers

Absent == "absent"           \* no such file
Unreadable == "unreadable"   \* read_bytes raises
Empty == ""                  \* the hash of a file that cannot be read
NoPin == "no pin"            \* the path is not a key of the document
PinAssumption ==
  /\ Text \in [Content -> Content]
  /\ Reject \in BOOLEAN
  /\ Action \subseteq {"show", "set", "accept_drift", "clear"}
  /\ MaxEdits \in Nat /\ MaxCalls \in Nat
  /\ {Absent, Unreadable, Empty, NoPin} \cap Content = {}

Hash == {Text[c] : c \in Content} \cup {Empty}
Pins == [File -> Hash \cup {NoPin}]
NoPins == [f \in File |-> NoPin]

(***************************************************************************)
(* The pin file: a document; or it does not exist; or it is not a JSON     *)
(* object, and loaded as {}; or an object whose "pins" is no object.       *)
(***************************************************************************)
Doc(pins) == [kind |-> "document", pins |-> pins]
NoDoc == [kind |-> "none", pins |-> NoPins]
Garbled == [kind |-> "garbled", pins |-> NoPins]
Malformed == [kind |-> "malformed", pins |-> NoPins]

VARIABLES
  files,       \* what each file holds
  pin,         \* the pin file
  sv,          \* what each server is doing
  edits,       \* changes made from outside
  calls,       \* tool calls taken up
  watch        \* history, for each server: see Watch

vars == <<files, pin, sv, edits, calls, watch>>

\* Mutant: the line endings are not normalised.
RawHash(c) == IF c \in Content THEN c ELSE Empty

\* Mutant: a file that cannot be read is hashed as its error.
ErrorHash(c) == IF c \in Content THEN Text[c] ELSE c

HashOf(c) == IF c \in Content THEN Text[c] ELSE Empty

(***************************************************************************)
(* The truth: the files whose text is not the pinned one, at one moment.   *)
(***************************************************************************)
Drifted ==
  {f \in File : /\ files[f] \in Content
                /\ pin.pins[f] # NoPin
                /\ Text[files[f]] # pin.pins[f]}

Idle == [pc |-> "idle", call |-> "none", why |-> "none",
         pins |-> NoPins, left |-> {}, listed |-> {},
         cur |-> NoPins,
         answer |-> "none", drift |-> {}]

Unwatched == [always |-> {}, ever |-> {}, calm |-> TRUE, touched |-> {},
              before |-> {}, after |-> {}]

Init ==
  /\ files \in [File -> Content]
  /\ pin \in {NoDoc, Doc([f \in File |-> HashOf(files[f])])}
  /\ sv = [s \in Server |-> Idle]
  /\ edits = 0 /\ calls = 0
  /\ watch = [s \in Server |-> Unwatched]

(***************************************************************************)
(* The world outside: an editor saves or removes a file, a file loses its  *)
(* permission, somebody writes the pin file by hand.                       *)
(***************************************************************************)
Edit(f) ==
  /\ edits < MaxEdits
  /\ edits' = edits + 1
  /\ \E c \in (Content \cup {Absent, Unreadable}) \ {files[f]} : files' = [files EXCEPT ![f] = c]
  /\ UNCHANGED <<pin, sv, calls>>

WritePinFile ==
  /\ edits < MaxEdits
  /\ edits' = edits + 1
  /\ pin' \in {Garbled, Malformed, NoDoc} \ {pin}
  /\ UNCHANGED <<files, sv, calls>>

(***************************************************************************)
(* A tool call reaches the dispatcher.  Only a call that is not config_pin *)
(* passes the gate, and only when drift is rejected.                       *)
(***************************************************************************)
Goto(s, step) == [sv EXCEPT ![s].pc = step]

\* The scan of _config_pin_drift, or of _config_pin_current alone.
Scanning(r, why) ==
  [r EXCEPT !.pc = IF why = "repin" THEN "list" ELSE "load",
            !.why = why, !.left = File, !.listed = {},
            !.cur = NoPins]

Call(s, name) ==
  /\ sv[s].pc = "idle"
  /\ calls < MaxCalls
  /\ calls' = calls + 1
  /\ sv' = [sv EXCEPT ![s] =
       IF name # "tool" THEN Scanning([Idle EXCEPT !.call = name], "report")
       ELSE IF Reject THEN Scanning([Idle EXCEPT !.call = name], "gate")
       ELSE [Idle EXCEPT !.pc = "run", !.call = name]]
  /\ UNCHANGED <<files, pin, edits>>

(***************************************************************************)
(* The scan.  Both the keys and the integer pinned_at of a malformed       *)
(* document raise: inside config_pin the dispatcher answers with the       *)
(* error, at the gate, which is outside its try, the server dies.          *)
(***************************************************************************)
Answer(s, kind, drift) ==
  sv' = [sv EXCEPT ![s] = [Idle EXCEPT !.answer = kind, !.drift = drift, !.call = sv[s].call]]

Load(s) ==
  /\ sv[s].pc = "load"
  /\ IF pin = Malformed
     THEN IF sv[s].why \in {"gate", "refusal"}
          THEN sv' = Goto(s, "dead")
          ELSE Answer(s, "error", {})
     ELSE sv' = [sv EXCEPT ![s].pc = "list", ![s].pins = pin.pins]
  /\ UNCHANGED <<files, pin, edits, calls>>

\* exists() and is_file(), file by file.
List(s, f) ==
  /\ sv[s].pc = "list" /\ f \in sv[s].left
  /\ LET listed == IF files[f] = Absent THEN sv[s].listed ELSE sv[s].listed \cup {f}
         left   == sv[s].left \ {f}
     IN sv' = [sv EXCEPT ![s].listed = listed,
                         ![s].left = IF left = {} THEN listed ELSE left,
                         ![s].pc = IF left = {} THEN "hash" ELSE "list"]
  /\ UNCHANGED <<files, pin, edits, calls>>

HashFile(s, f) ==
  /\ sv[s].pc = "hash" /\ f \in sv[s].left
  /\ sv' = [sv EXCEPT ![s].left = @ \ {f}, ![s].cur[f] = HashOf(files[f])]
  /\ UNCHANGED <<files, pin, edits, calls>>

\* Mutant: only the first file of the set is compared.
FirstDrift(r) ==
  LET f == CHOOSE g \in File : TRUE
  IN IF r.pins[f] # NoPin /\ r.cur[f] \notin {NoPin, Empty} /\ r.cur[f] # r.pins[f]
     THEN {f} ELSE {}

\* Mutant: a file that cannot be read counts as drift.
HardDrift(r) == {f \in File : r.pins[f] # NoPin /\ r.cur[f] # r.pins[f]}

Drift(r) ==
  {f \in File : /\ r.pins[f] # NoPin
                /\ r.cur[f] \notin {NoPin, Empty}
                /\ r.cur[f] # r.pins[f]}

HasPinFile == pin # NoDoc

(***************************************************************************)
(* The end of the scan, and what is done with it.                          *)
(***************************************************************************)
Scanned(s, why) == sv[s].pc = "hash" /\ sv[s].left = {} /\ sv[s].why = why

\* _config_pin_should_block; the refusal works the drift out again.
Gate(s) ==
  /\ Scanned(s, "gate")
  /\ sv' = [sv EXCEPT ![s] = IF HasPinFile /\ Drift(@) # {}
                             THEN Scanning(@, "refusal") ELSE [@ EXCEPT !.pc = "run"]]
  /\ UNCHANGED <<files, pin, edits, calls>>

Refuse(s) ==
  /\ Scanned(s, "refusal")
  /\ Answer(s, "blocked", Drift(sv[s]))
  /\ UNCHANGED <<files, pin, edits, calls>>

RunTool(s) ==
  /\ sv[s].pc = "run"
  /\ Answer(s, "ran", {})
  /\ UNCHANGED <<files, pin, edits, calls>>

Report(s) ==
  /\ Scanned(s, "report")
  /\ LET drift == Drift(sv[s]) IN
     CASE sv[s].call = "show" /\ ~Reject -> Answer(s, "shown", drift)
       [] sv[s].call = "show" /\ Reject ->
            sv' = [sv EXCEPT ![s] = [Scanning(@, "would") EXCEPT !.drift = drift]]
       [] sv[s].call = "set" -> sv' = [sv EXCEPT ![s] = Scanning(@, "repin")]
       [] sv[s].call = "clear" -> sv' = Goto(s, "clear")
       [] sv[s].call = "accept_drift" ->
            IF HasPinFile /\ drift # {}
            THEN sv' = [sv EXCEPT ![s] = [Scanning(@, "repin") EXCEPT !.drift = drift]]
            ELSE Answer(s, "nothing to accept", {})
  /\ UNCHANGED <<files, pin, edits, calls>>

Show(s) ==
  /\ Scanned(s, "would")
  /\ Answer(s, "shown", sv[s].drift)
  /\ UNCHANGED <<files, pin, edits, calls>>

\* Mutant: a file that is not there keeps the pin it had.
MergeSave(s) ==
  /\ Scanned(s, "repin")
  /\ pin' = Doc([f \in File |-> IF f \in sv[s].listed THEN sv[s].pins[f] ELSE sv[s].cur[f]])
  /\ sv' = [sv EXCEPT ![s] = [Idle EXCEPT !.answer = "pinned", !.drift = sv[s].drift,
                                          !.call = sv[s].call]]
  /\ UNCHANGED <<files, edits, calls>>

\* The document replaces the old one whole, by a rename.
Save(s) ==
  /\ Scanned(s, "repin")
  /\ pin' = Doc(sv[s].cur)
  /\ sv' = [sv EXCEPT ![s] = [Idle EXCEPT !.answer = "pinned", !.drift = sv[s].drift,
                                          !.call = sv[s].call]]
  /\ UNCHANGED <<files, edits, calls>>

Clear(s) ==
  /\ sv[s].pc = "clear"
  /\ \/ Answer(s, "cleared", {}) /\ pin' = NoDoc
     \/ Answer(s, "error", {}) /\ pin # NoDoc /\ UNCHANGED pin
  /\ UNCHANGED <<files, edits, calls>>

(***************************************************************************)
(* History, for each server, from the moment its last call was taken up to *)
(* the moment it was answered: the files that had drifted at every moment, *)
(* and those that had at some moment; whether the pin file stayed as it    *)
(* was; the files that were touched; and what had drifted before and after *)
(* the last step.                                                          *)
(***************************************************************************)
Watch ==
  watch' = [s \in Server |->
    IF sv'[s].pc = "idle" /\ sv[s].pc = "idle" THEN watch[s]
    ELSE IF sv[s].pc = "idle"
    THEN [Unwatched EXCEPT !.always = Drifted', !.ever = Drifted']
    ELSE [always  |-> watch[s].always \cap Drifted',
          ever    |-> watch[s].ever \cup Drifted',
          calm    |-> watch[s].calm /\ (pin' = pin),
          touched |-> watch[s].touched \cup {f \in File : files'[f] # files[f]},
          before  |-> Drifted,
          after   |-> Drifted']]

Step(s) ==
  \/ \E name \in Action \cup {"tool"} : Call(s, name)
  \/ Load(s) \/ Gate(s) \/ Refuse(s) \/ RunTool(s)
  \/ Report(s) \/ Show(s) \/ Save(s) \/ Clear(s)
  \/ \E f \in File : List(s, f) \/ HashFile(s, f)

Next ==
  /\ \/ WritePinFile
     \/ \E f \in File : Edit(f)
     \/ \E s \in Server : Step(s)
  /\ Watch

Spec == Init /\ [][Next]_vars
-----------------------------------------------------------------------------
Places == {"idle", "load", "list", "hash", "run", "clear", "dead"}

TypeOK ==
  /\ files \in [File -> Content \cup {Absent, Unreadable}]
  /\ pin \in {NoDoc, Garbled, Malformed} \cup {Doc(p) : p \in Pins}
  /\ \A s \in Server :
       /\ sv[s].pc \in Places
       /\ sv[s].pins \in Pins /\ sv[s].cur \in Pins
       /\ sv[s].left \subseteq File /\ sv[s].listed \subseteq File
       /\ sv[s].drift \subseteq File
  /\ edits \in 0..MaxEdits /\ calls \in 0..MaxCalls

Answered(s, kinds) == sv[s].pc = "idle" /\ sv[s].answer \in kinds

(***************************************************************************)
(* A file that has drifted all the time, from the moment a call is taken   *)
(* up to its answer, is seen, however the other files change under the     *)
(* scan: the gate does not let the call through, the refusal names the     *)
(* file, and show reports it.  That is so as long as nobody writes the pin *)
(* file meanwhile (main, _config_pin_should_block, tool_config_pin).       *)
(***************************************************************************)
Seen(s) ==
  /\ watch[s].calm
  /\ \/ Answered(s, {"blocked", "shown", "nothing to accept"})
     \/ Reject /\ Answered(s, {"ran"})
  => watch[s].always \subseteq sv[s].drift

SteadyDriftIsSeen == \A s \in Server : Seen(s)

(***************************************************************************)
(* Nothing is reported, and no call refused, for a file that never had     *)
(* another text than the pinned one while the call lasted: not for other   *)
(* line endings, not for a file that is gone or cannot be read, and not    *)
(* because the files were hashed at different moments.                     *)
(***************************************************************************)
Justified(s) ==
  /\ watch[s].calm
  /\ Answered(s, {"blocked", "shown"})
  => /\ sv[s].drift \subseteq watch[s].ever
     /\ sv[s].answer = "blocked" => watch[s].ever # {}

ReportIsJustified == \A s \in Server : Justified(s)

(***************************************************************************)
(* After set or accept_drift no file has drifted but one that was changed  *)
(* while the call lasted, whatever another server pinned in between.       *)
(***************************************************************************)
Settled(s) == Answered(s, {"pinned"}) => watch[s].after \subseteq watch[s].touched

RepinSettles == \A s \in Server : Settled(s)

(***************************************************************************)
(* tool_config_pin says of accept_drift that it "only succeeds when drift  *)
(* is currently present (semantic guardrail to avoid accidentally          *)
(* re-pinning a clean tree)".  The drift is read before the files are      *)
(* hashed again: when another server accepts it, or the file is put back,  *)
(* in between, a clean tree is pinned again.                               *)
(***************************************************************************)
AcceptNeedsDrift ==
  \A s \in Server :
    Answered(s, {"pinned"}) /\ sv[s].call = "accept_drift" => watch[s].before # {}

-----------------------------------------------------------------------------
(***************************************************************************)
(* The inductive invariant.  As long as the pin file is as it was, a scan  *)
(* has its pins; a file that has drifted all the time is still to be       *)
(* listed or hashed, or among the drift; and what is among the drift had   *)
(* drifted.                                                                *)
(***************************************************************************)
Whys == {"none", "gate", "refusal", "report", "would", "repin"}
Answers == {"none", "error", "blocked", "ran", "shown", "nothing to accept",
            "pinned", "cleared"}

Work ==
  [pc : Places, call : Action \cup {"tool", "none"}, why : Whys,
   pins : Pins, left : SUBSET File, listed : SUBSET File, cur : Pins,
   answer : Answers, drift : SUBSET File]

Watched ==
  [always : SUBSET File, ever : SUBSET File, calm : BOOLEAN,
   touched : SUBSET File, before : SUBSET File, after : SUBSET File]

Shape ==
  /\ files \in [File -> Content \cup {Absent, Unreadable}]
  /\ pin \in {NoDoc, Garbled, Malformed} \cup {Doc(p) : p \in Pins}
  /\ sv \in [Server -> Work]
  /\ edits \in 0..MaxEdits /\ calls \in 0..MaxCalls
  /\ watch \in [Server -> Watched]

CalmScan(s) ==
  /\ sv[s].pc \in {"list", "hash"} /\ sv[s].why # "repin" => sv[s].pins = pin.pins
  /\ sv[s].pc = "list" /\ sv[s].why # "repin"
     => watch[s].always \subseteq sv[s].left \cup sv[s].listed
  /\ sv[s].pc = "hash" /\ sv[s].why # "repin"
     => /\ watch[s].always \subseteq sv[s].left \cup Drift(sv[s])
        /\ Drift(sv[s]) \subseteq watch[s].ever
  /\ sv[s].why = "would"
     => watch[s].always \subseteq sv[s].drift /\ sv[s].drift \subseteq watch[s].ever
  /\ sv[s].why = "refusal" => watch[s].ever # {}
  /\ sv[s].pc = "run" /\ Reject => watch[s].always = {}

(* What set and accept_drift have hashed is what the files hold, or has    *)
(* been changed meanwhile.                                                 *)
Hashed(s) ==
  \A f \in File : \/ sv[s].cur[f] = NoPin
                  \/ sv[s].cur[f] = HashOf(files[f])
                  \/ f \in watch[s].touched

ServerOK(s) ==
  /\ sv[s].pc # "idle" => watch[s].always \subseteq Drifted /\ Drifted \subseteq watch[s].ever
  /\ sv[s].pc \in {"load", "list"} => sv[s].cur = NoPins
  /\ sv[s].pc = "load" => sv[s].left = File
  /\ sv[s].pc = "idle" => sv[s].why = "none"
  /\ sv[s].why = "report" => sv[s].call \in Action
  /\ watch[s].calm => CalmScan(s)
  /\ sv[s].why = "repin" => Hashed(s)
  /\ Seen(s) /\ Justified(s) /\ Settled(s)

PinInv == Shape /\ \A s \in Server : ServerOK(s)
=============================================================================
