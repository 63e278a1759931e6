---------------------------- MODULE FilesProofs -----------------------------
(***************************************************************************)
(* What threads and servers that share the environment, the pin file, the  *)
(* transcripts or a directory of answers keep, for any number of them, any *)
(* files, contents, caps and bounds, in every use that the constants give. *)
(* Each part is proved from the inductive invariant of its own module:     *)
(* RetargetInv of Retarget, PinInv of ConfigPin, DocsInv of Transcripts    *)
(* and CacheInv of DiskCache.                                              *)
(***************************************************************************)
EXTENDS Files, Sequences, SetProofs


-----------------------------------------------------------------------------
(***************************************************************************)
(* The environment that retargets share.                                   *)
(***************************************************************************)
(* Nobody is at work at first.                                             *)
LEMMA RetargetStarts ==
  ASSUME Environment!Init, Environment!RetargetAssumption
  PROVE Environment!RetargetInv
<1>1. Environment!TypeOK
  <2>1. 0 \in 0 .. MaxCalls /\ Default \in Model
    BY DEF Environment!RetargetAssumption
  <2>2. v7 \in [Thread -> 0 .. MaxCalls] /\ v8 \in BOOLEAN
    BY <2>1 DEF Environment!Init
  <2>3. v1 \in Model \union {Unset} /\ v2 \in {Unset, Default}
    BY <2>1 DEF Environment!Init
  <2>. QED
    BY <2>1, <2>2, <2>3 DEF Environment!Init, Environment!TypeOK
<1>2. v1 = v2 /\ \A t \in Thread : v3[t] = "idle"
  BY DEF Environment!Init
<1>. QED
  BY <1>1, <1>2 DEF Environment!RetargetInv, Environment!AtRest

(* Every step of a thread keeps the types.                                 *)
LEMMA RetargetTypes ==
  ASSUME Environment!RetargetAssumption, Environment!TypeOK, NEW t \in Thread,
         Environment!Read(t) \/ Environment!Set(t) \/ Environment!Build(t)
           \/ Environment!Restore(t)
  PROVE  Environment!TypeOK'
<1>. USE DEF Environment!TypeOK, Environment!RetargetAssumption
<1>1. CASE Environment!Read(t)
  <2>1. v8' \in BOOLEAN
    BY <1>1 DEF Environment!Read
  <2>2. PICK m \in Model : v4' = [v4 EXCEPT ![t] = m]
    BY <1>1 DEF Environment!Read
  <2>. QED
    BY <1>1, <2>1, <2>2 DEF Environment!Read
<1>2. CASE Environment!Set(t)
  BY <1>2 DEF Environment!Set
<1>3. CASE Environment!Build(t)
  <2>1. PICK m \in Model : v6' = [v6 EXCEPT ![t] = m]
    BY <1>3 DEF Environment!Build
  <2>. QED
    BY <1>3, <2>1 DEF Environment!Build
<1>4. CASE Environment!Restore(t)
  BY <1>4 DEF Environment!Restore
<1>. QED
  BY <1>1, <1>2, <1>3, <1>4

(* Every step of a thread keeps the invariant.                             *)
LEMMA RetargetSteps ==
  ASSUME Environment!RetargetAssumption, Environment!RetargetInv,
         [Environment!Next]_(Environment!vars)
  PROVE  Environment!RetargetInv'
<1>1. CASE UNCHANGED Environment!vars
  BY <1>1 DEF Environment!vars, Environment!locals, Environment!RetargetInv,
              Environment!TypeOK, Environment!AtRest
<1>2. ASSUME NEW t \in Thread,
             Environment!Read(t) \/ Environment!Set(t) \/ Environment!Build(t)
               \/ Environment!Restore(t)
      PROVE  Environment!RetargetInv'
  <2>. USE DEF Environment!RetargetInv, Environment!TypeOK, Environment!AtRest,
               Environment!RetargetAssumption
  <2>1. Environment!TypeOK'
    BY <1>2, RetargetTypes
  <2>2. SUFFICES ASSUME ~v8'
                 PROVE  /\ \A v, w \in Thread : v3'[v] # "idle" /\ v3'[w] # "idle" => v = w
                        /\ Environment!AtRest' => v1' = v2'
                        /\ \A v \in Thread :
                             /\ v3'[v] # "idle" => v5'[v] = v2'
                             /\ v3'[v] = "set" => v1' = v2'
                             /\ v3'[v] = "build" => v1' = v4'[v]
                             /\ v3'[v] = "restore" => v6'[v] = v4'[v]
    BY <2>1
  <2>3. ~v8 /\ v2' = v2
    BY <1>2, <2>2 DEF Environment!Read, Environment!Set, Environment!Build, Environment!Restore
  <2>4. \A v \in Thread \ {t} : v3[v] = "idle"
    BY <1>2, <2>2, <2>3 DEF Environment!Read, Environment!Set, Environment!Build,
                            Environment!Restore
  <2>5. \A v \in Thread \ {t} : v3'[v] = "idle"
    BY <1>2, <2>4 DEF Environment!Read, Environment!Set, Environment!Build, Environment!Restore
  <2>6. CASE Environment!Read(t)
    <3>1. Environment!AtRest
      BY <2>4, <2>6 DEF Environment!Read
    <3>2. v3'[t] = "set" /\ v5'[t] = v1 /\ v1' = v1
      BY <2>6 DEF Environment!Read
    <3>. QED
      BY <2>3, <2>5, <3>1, <3>2
  <2>7. CASE Environment!Set(t)
    <3>1. v3'[t] = "build" /\ v1' = v4'[t] /\ v5'[t] = v5[t] /\ v3[t] = "set"
      BY <2>7 DEF Environment!Set
    <3>. QED
      BY <2>3, <2>5, <3>1
  <2>8. CASE Environment!Build(t)
    <3>1. v3[t] = "build" /\ v1 # Unset
      BY <2>3, <2>8 DEF Environment!Build
    <3>2. /\ v3'[t] = "restore" /\ v6'[t] = v1 /\ v4'[t] = v4[t]
          /\ v5'[t] = v5[t]
      BY <2>8, <3>1 DEF Environment!Build
    <3>. QED
      BY <2>3, <2>5, <3>1, <3>2
  <2>9. CASE Environment!Restore(t)
    <3>1. v3[t] = "restore" /\ v3'[t] = "idle" /\ v1' = v5[t]
      BY <2>9 DEF Environment!Restore
    <3>. QED
      BY <2>3, <2>5, <3>1
  <2>. QED
    BY <1>2, <2>6, <2>7, <2>8, <2>9
<1>. QED
  BY <1>1, <1>2 DEF Environment!Next

(* The invariant has the property.                                         *)
LEMMA RetargetHolds == Environment!RetargetInv => Environment!ExactUnlessOverlapped
  BY DEF Environment!RetargetInv, Environment!ExactUnlessOverlapped


-----------------------------------------------------------------------------
(***************************************************************************)
(* The pin file.                                                           *)
(***************************************************************************)
(* What a file or the pin file can hold.                                   *)
LEMMA PinValues ==
  ASSUME NEW u \in Pins, Pin(u)!PinAssumption
  PROVE  /\ Pin(u)!NoPins \in Pin(u)!Pins
         /\ \A x \in PinOf[u].content
              \union {Pin(u)!Absent, Pin(u)!Unreadable} : Pin(u)!HashOf(x) \in Pin(u)!Hash
         /\ \A x \in PinOf[u].content : /\ Pin(u)!HashOf(x) = PinOf[u].text[x]
                                        /\ PinOf[u].text[x] \notin {Pin(u)!NoPin, Pin(u)!Empty}
         /\ \A x \in {Pin(u)!Absent, Pin(u)!Unreadable} : Pin(u)!HashOf(x) = Pin(u)!Empty
              /\ x \notin PinOf[u].content
         /\ Pin(u)!Empty # Pin(u)!NoPin
<1>. USE DEF Pin!PinAssumption, Pin!HashOf, Pin!Hash, Pin!Absent, Pin!Unreadable, Pin!Empty,
             Pin!NoPin
<1>1. Pin(u)!NoPins \in Pin(u)!Pins
  BY DEF Pin!NoPins, Pin!Pins
<1>. QED
  BY <1>1

(* The pin file's document, whatever it is.                                *)
LEMMA PinFileTyped ==
  ASSUME NEW u \in Pins, Pin(u)!PinAssumption
  PROVE  /\ Pin(u)!Shape => v2.pins \in Pin(u)!Pins
         /\ Pin(u)!Drifted \subseteq PinOf[u].file /\ Pin(u)!Drifted' \subseteq PinOf[u].file
<1>1. Pin(u)!NoPins \in Pin(u)!Pins
  BY PinValues
<1>. QED
  BY <1>1 DEF Pin!Shape, Pin!Doc, Pin!NoDoc, Pin!Garbled, Pin!Malformed, Pin!Drifted

(* A server that is idle.                                                  *)
LEMMA IdleTyped ==
  ASSUME NEW u \in Pins, Pin(u)!PinAssumption
  PROVE  Pin(u)!Idle \in Pin(u)!Work
<1>1. Pin(u)!NoPins \in Pin(u)!Pins
  BY PinValues
<1>. QED
  BY <1>1 DEF Pin!Idle, Pin!Work, Pin!Places, Pin!Whys, Pin!Answers

(* At first every server is idle.                                          *)
LEMMA PinStarts ==
  ASSUME NEW u \in Pins, Pin(u)!PinAssumption, Pin(u)!Init
  PROVE  Pin(u)!PinInv
<1>1. Pin(u)!Shape
  <2>1. Pin(u)!Unwatched \in Pin(u)!Watched
    BY DEF Pin!Unwatched, Pin!Watched
  <2>2. v2 \in {Pin(u)!NoDoc} \union {Pin(u)!Doc(p) : p \in Pin(u)!Pins}
    <3>1. v1 \in [PinOf[u].file -> PinOf[u].content]
      BY DEF Pin!Init
    <3>2. [f \in PinOf[u].file |-> Pin(u)!HashOf(v1[f])] \in Pin(u)!Pins
      BY <3>1, PinValues DEF Pin!Pins
    <3>. QED
      BY <3>2 DEF Pin!Init
  <2>3. v4 \in 0 .. PinOf[u].edits /\ v5 \in 0 .. PinOf[u].calls
    BY DEF Pin!Init, Pin!PinAssumption
  <2>. QED
    BY <2>1, <2>2, <2>3, IdleTyped DEF Pin!Init, Pin!Shape
<1>2. ASSUME NEW s \in PinOf[u].server PROVE Pin(u)!ServerOK(s)
  <2>1. v3[s] = Pin(u)!Idle
    BY DEF Pin!Init
  <2>2. /\ v3[s].pc = "idle" /\ v3[s].why = "none" /\ v3[s].answer = "none"
    BY <2>1 DEF Pin!Idle
  <2>. QED
    BY <2>2 DEF Pin!ServerOK, Pin!CalmScan, Pin!Hashed, Pin!Seen, Pin!Justified, Pin!Settled,
                Pin!Answered
<1>. QED
  BY <1>1, <1>2 DEF Pin!PinInv

-----------------------------------------------------------------------------
(* What each kind of step does to the records.                             *)

(* A server takes up a scan.                                               *)
LEMMA ScanningTyped ==
  ASSUME NEW u \in Pins, Pin(u)!PinAssumption, NEW r \in Pin(u)!Work, NEW why \in Pin(u)!Whys
  PROVE  /\ Pin(u)!Scanning(r, why) \in Pin(u)!Work
         /\ Pin(u)!Scanning(r, why).pc = (IF why = "repin" THEN "list" ELSE "load")
         /\ Pin(u)!Scanning(r, why).why = why
         /\ Pin(u)!Scanning(r, why).left = PinOf[u].file /\ Pin(u)!Scanning(r, why).listed = {}
         /\ Pin(u)!Scanning(r, why).cur = Pin(u)!NoPins
         /\ Pin(u)!Scanning(r, why).pins = r.pins
         /\ Pin(u)!Scanning(r, why).drift = r.drift
         /\ Pin(u)!Scanning(r, why).call = r.call
         /\ Pin(u)!Scanning(r, why).answer = r.answer
<1>1. Pin(u)!NoPins \in Pin(u)!Pins
  BY PinValues
<1>. QED
  BY <1>1 DEF Pin!Scanning, Pin!Work, Pin!Places

(* A server answers.                                                       *)
LEMMA AnswerTyped ==
  ASSUME NEW u \in Pins, Pin(u)!PinAssumption, Pin(u)!Shape, NEW s \in PinOf[u].server,
         NEW kind \in Pin(u)!Answers, NEW drift \in SUBSET PinOf[u].file, Pin(u)!Answer(s,
         kind, drift)
  PROVE  /\ v3' \in [PinOf[u].server -> Pin(u)!Work]
         /\ \A t \in PinOf[u].server \ {s} : v3'[t] = v3[t]
         /\ v3'[s].pc = "idle" /\ v3'[s].why = "none"
         /\ v3'[s].answer = kind /\ v3'[s].drift = drift
<1>. DEFINE r == [Pin(u)!Idle EXCEPT !.answer = kind, !.drift = drift, !.call = v3[s].call]
<1>1. v3' = [v3 EXCEPT ![s] = r]
  BY DEF Pin!Answer
<1>2. v3[s].call \in PinOf[u].action \union {"tool", "none"}
  BY DEF Pin!Shape, Pin!Work
<1>3. /\ r \in Pin(u)!Work /\ r.pc = "idle" /\ r.why = "none"
      /\ r.answer = kind /\ r.drift = drift
  <2>1. Pin(u)!Idle \in Pin(u)!Work
    BY IdleTyped
  <2>. QED
    BY <1>2, <2>1 DEF Pin!Work, Pin!Idle
<1>. HIDE DEF r
<1>4. v3 \in [PinOf[u].server -> Pin(u)!Work]
  BY DEF Pin!Shape
<1>. QED
  BY <1>1, <1>3, <1>4

(* History.                                                                *)
LEMMA WatchSteps ==
  ASSUME NEW u \in Pins, Pin(u)!PinAssumption, Pin(u)!Shape, Pin(u)!Watch,
         Pin(u)!Drifted' \subseteq PinOf[u].file
  PROVE  /\ v6' \in [PinOf[u].server -> Pin(u)!Watched]
         /\ \A s \in PinOf[u].server :
              /\ v3'[s].pc = "idle" /\ v3[s].pc = "idle" => v6'[s] = v6[s]
              /\ v3'[s].pc # "idle" /\ v3[s].pc = "idle"
                 => /\ v6'[s].always = Pin(u)!Drifted' /\ v6'[s].ever = Pin(u)!Drifted'
                    /\ v6'[s].touched = {}
              /\ v3[s].pc # "idle"
                 => /\ v6'[s].always = v6[s].always \cap Pin(u)!Drifted'
                    /\ v6'[s].ever = v6[s].ever \cup Pin(u)!Drifted'
                    /\ v6'[s].calm => v6[s].calm /\ v2' = v2
                    /\ v6'[s].touched
                         = v6[s].touched \cup {f \in PinOf[u].file : v1'[f] # v1[f]}
                    /\ v6'[s].after = Pin(u)!Drifted'
<1>1. v6 \in [PinOf[u].server -> Pin(u)!Watched]
  BY DEF Pin!Shape
<1>2. /\ [Pin(u)!Unwatched EXCEPT !.always = Pin(u)!Drifted',
          !.ever = Pin(u)!Drifted'] \in Pin(u)!Watched
      /\ [Pin(u)!Unwatched EXCEPT !.always = Pin(u)!Drifted',
          !.ever = Pin(u)!Drifted'].always = Pin(u)!Drifted'
      /\ [Pin(u)!Unwatched EXCEPT !.always = Pin(u)!Drifted',
          !.ever = Pin(u)!Drifted'].ever = Pin(u)!Drifted'
      /\ [Pin(u)!Unwatched EXCEPT !.always = Pin(u)!Drifted',
          !.ever = Pin(u)!Drifted'].touched = {}
  BY DEF Pin!Unwatched, Pin!Watched
<1>3. Pin(u)!Drifted \subseteq PinOf[u].file
  BY PinFileTyped
<1>4. ASSUME NEW s \in PinOf[u].server
      PROVE  [always  |-> v6[s].always \cap Pin(u)!Drifted',
              ever    |-> v6[s].ever \cup Pin(u)!Drifted',
              calm    |-> v6[s].calm /\ (v2' = v2),
              touched |-> v6[s].touched \cup {f \in PinOf[u].file : v1'[f] # v1[f]},
              before  |-> Pin(u)!Drifted,
              after   |-> Pin(u)!Drifted'] \in Pin(u)!Watched
  <2>1. v6[s] \in Pin(u)!Watched
    BY <1>1
  <2>2. (v6[s].calm /\ (v2' = v2)) \in BOOLEAN
    OBVIOUS
  <2>. QED
    BY <1>3, <2>1, <2>2 DEF Pin!Watched
<1>. QED
  BY <1>1, <1>2, <1>4 DEF Pin!Watch

(* A server that is not the one to move keeps its invariant.               *)
LEMMA OthersKeepOK ==
  ASSUME NEW u \in Pins, Pin(u)!PinAssumption, Pin(u)!Shape, Pin(u)!Shape', Pin(u)!Watch,
         NEW s \in PinOf[u].server, Pin(u)!ServerOK(s), v3'[s] = v3[s]
  PROVE  Pin(u)!ServerOK(s)'
<1>. DEFINE r == v3[s]
            w == v6[s]
            x == v6'[s]
<1>1. Pin(u)!Drifted \subseteq PinOf[u].file /\ Pin(u)!Drifted' \subseteq PinOf[u].file
  BY PinFileTyped
<1>2. /\ r.pc = "idle" => x = w
      /\ r.pc # "idle"
           => /\ x.always = w.always \cap Pin(u)!Drifted'
              /\ x.ever = w.ever \cup Pin(u)!Drifted'
              /\ x.calm => w.calm /\ v2' = v2
              /\ x.touched = w.touched \cup {f \in PinOf[u].file : v1'[f] # v1[f]}
              /\ x.after = Pin(u)!Drifted'
  BY <1>1, WatchSteps
<1>3. v3'[s].pc # "idle"
        => x.always \subseteq Pin(u)!Drifted' /\ Pin(u)!Drifted' \subseteq x.ever
  BY <1>2
<1>4. v3'[s].pc \in {"load", "list"} => v3'[s].cur = Pin(u)!NoPins
  BY DEF Pin!ServerOK
<1>5. /\ v3'[s].pc = "idle" => v3'[s].why = "none"
      /\ v3'[s].pc = "load" => v3'[s].left = PinOf[u].file
      /\ v3'[s].why = "report" => v3'[s].call \in PinOf[u].action
  BY DEF Pin!ServerOK
<1>6. x.calm => Pin(u)!CalmScan(s)'
  <2>1. CASE r.pc = "idle"
    BY <1>2, <2>1 DEF Pin!ServerOK, Pin!CalmScan
  <2>2. CASE r.pc # "idle" /\ x.calm
    <3>1. /\ w.calm /\ v2' = v2 /\ x.always \subseteq w.always /\ w.ever \subseteq x.ever
      BY <1>2, <2>2
    <3>2. Pin(u)!CalmScan(s)
      BY <3>1 DEF Pin!ServerOK
    <3>3. Pin(u)!Drift(v3'[s]) = Pin(u)!Drift(v3[s])
      OBVIOUS
    <3>. QED
      BY <3>1, <3>2, <3>3 DEF Pin!CalmScan
  <2>. QED
    BY <2>1, <2>2
<1>7. v3'[s].why = "repin" => Pin(u)!Hashed(s)'
  <2>1. ASSUME r.why = "repin", NEW f \in PinOf[u].file
        PROVE  \/ v3'[s].cur[f] = Pin(u)!NoPin
               \/ v3'[s].cur[f] = Pin(u)!HashOf(v1'[f])
               \/ f \in x.touched
    <3>1. r.pc # "idle"
      BY <2>1 DEF Pin!ServerOK
    <3>2. \/ r.cur[f] = Pin(u)!NoPin \/ r.cur[f] = Pin(u)!HashOf(v1[f]) \/ f \in w.touched
      BY <2>1 DEF Pin!ServerOK, Pin!Hashed
    <3>. QED
      BY <1>2, <3>1, <3>2
  <2>. QED
    BY <2>1 DEF Pin!Hashed
<1>8. Pin(u)!Seen(s)' /\ Pin(u)!Justified(s)' /\ Pin(u)!Settled(s)'
  BY <1>2 DEF Pin!ServerOK, Pin!Seen, Pin!Justified, Pin!Settled, Pin!Answered
<1>. QED
  BY <1>3, <1>4, <1>5, <1>6, <1>7, <1>8 DEF Pin!ServerOK

-----------------------------------------------------------------------------
(* The steps.                                                              *)

(* The server that moves, when its step changes neither the files nor the  *)
(* pin file: what of its history and of the drift has changed.             *)
LEMMA OwnStep ==
  ASSUME NEW u \in Pins, Pin(u)!PinAssumption, Pin(u)!Shape, Pin(u)!Watch,
         NEW s \in PinOf[u].server, Pin(u)!ServerOK(s), UNCHANGED <<v1, v2>>, v3[s].pc # "idle"
  PROVE  /\ Pin(u)!Drifted' = Pin(u)!Drifted
         /\ v6'[s].always = v6[s].always /\ v6[s].always \subseteq Pin(u)!Drifted
         /\ v6'[s].ever = v6[s].ever /\ Pin(u)!Drifted \subseteq v6[s].ever
         /\ v6'[s].calm => v6[s].calm
         /\ v6'[s].touched = v6[s].touched
         /\ v6'[s].after = Pin(u)!Drifted
<1>1. Pin(u)!Drifted' = Pin(u)!Drifted
  BY DEF Pin!Drifted
<1>2. /\ v6'[s].always = v6[s].always \cap Pin(u)!Drifted'
      /\ v6'[s].ever = v6[s].ever \cup Pin(u)!Drifted'
      /\ v6'[s].calm => v6[s].calm
      /\ v6'[s].touched = v6[s].touched \cup {f \in PinOf[u].file : v1'[f] # v1[f]}
      /\ v6'[s].after = Pin(u)!Drifted'
  BY PinFileTyped, WatchSteps
<1>3. v6[s].always \subseteq Pin(u)!Drifted /\ Pin(u)!Drifted \subseteq v6[s].ever
  BY DEF Pin!ServerOK
<1>. QED
  BY <1>1, <1>2, <1>3

(* A server that goes on to a record of its own.                           *)
LEMMA MovesTyped ==
  ASSUME NEW u \in Pins, Pin(u)!PinAssumption, Pin(u)!Shape, Pin(u)!Watch, UNCHANGED v4,
         v5' \in 0 .. PinOf[u].calls,
         v1' = v1, v2' \in {v2, Pin(u)!NoDoc} \cup {Pin(u)!Doc(p) : p \in Pin(u)!Pins},
         NEW s \in PinOf[u].server, NEW r \in Pin(u)!Work, v3' = [v3 EXCEPT ![s] = r]
  PROVE  Pin(u)!Shape' /\ v3'[s] = r /\ \A t \in PinOf[u].server \ {s} : v3'[t] = v3[t]
<1>1. v6' \in [PinOf[u].server -> Pin(u)!Watched]
  BY PinFileTyped, WatchSteps
<1>2. v3' \in [PinOf[u].server -> Pin(u)!Work]
  BY DEF Pin!Shape
<1>. QED
  BY <1>1, <1>2 DEF Pin!Shape

(* A call is taken up.                                                     *)
LEMMA CallSteps ==
  ASSUME NEW u \in Pins, Pin(u)!PinAssumption, Pin(u)!Shape, Pin(u)!Watch,
         NEW s \in PinOf[u].server, Pin(u)!ServerOK(s),
         NEW name \in PinOf[u].action \cup {"tool"}, Pin(u)!Call(s, name)
  PROVE  Pin(u)!Shape' /\ Pin(u)!ServerOK(s)' /\ \A t \in PinOf[u].server \ {s} : v3'[t] = v3[t]
<1>. DEFINE i == [Pin(u)!Idle EXCEPT !.call = name]
            r == IF name # "tool" THEN Pin(u)!Scanning(i, "report")
                 ELSE IF PinOf[u].reject THEN Pin(u)!Scanning(i, "gate")
                 ELSE [Pin(u)!Idle EXCEPT !.pc = "run", !.call = name]
<1>1. /\ i \in Pin(u)!Work /\ i.answer = "none" /\ i.call = name
  BY IdleTyped DEF Pin!Work, Pin!Idle
<1>2. {"report", "gate"} \subseteq Pin(u)!Whys
  BY DEF Pin!Whys
<1>3. /\ r \in Pin(u)!Work /\ r.answer = "none"
      /\ r.why = "report" => r.call \in PinOf[u].action
      /\ \/ r.pc = "load" /\ r.cur = Pin(u)!NoPins /\ r.left = PinOf[u].file
              /\ r.why \in {"report", "gate"}
         \/ r.pc = "run" /\ ~PinOf[u].reject /\ r.why = "none"
  <2>1. CASE name # "tool"
    <3>1. r = Pin(u)!Scanning(i, "report")
      BY <2>1
    <3>. HIDE DEF r, i
    <3>. QED
      BY <1>1, <1>2, <2>1, <3>1, ScanningTyped
  <2>2. CASE name = "tool" /\ PinOf[u].reject
    <3>1. r = Pin(u)!Scanning(i, "gate")
      BY <2>2
    <3>. HIDE DEF r, i
    <3>. QED
      BY <1>1, <1>2, <3>1, ScanningTyped
  <2>3. CASE name = "tool" /\ ~PinOf[u].reject
    <3>1. r = [Pin(u)!Idle EXCEPT !.pc = "run", !.call = name]
      BY <2>3
    <3>. QED
      BY <2>3, <3>1, IdleTyped DEF Pin!Work, Pin!Places, Pin!Idle
  <2>. QED
    BY <2>1, <2>2, <2>3
<1>4. v3' = [v3 EXCEPT ![s] = r] /\ UNCHANGED <<v1, v2, v4>> /\ v3[s].pc = "idle"
  BY DEF Pin!Call
<1>5. v5' \in 0 .. PinOf[u].calls
  BY DEF Pin!Call, Pin!Shape, Pin!PinAssumption
<1>. HIDE DEF r
<1>6. Pin(u)!Shape' /\ v3'[s] = r /\ \A t \in PinOf[u].server \ {s} : v3'[t] = v3[t]
  BY <1>3, <1>4, <1>5, MovesTyped
<1>7. v6'[s].always = Pin(u)!Drifted' /\ v6'[s].ever = Pin(u)!Drifted'
  BY <1>3, <1>4, <1>6, PinFileTyped, WatchSteps
<1>8. Pin(u)!CalmScan(s)'
  BY <1>3, <1>6 DEF Pin!CalmScan
<1>9. Pin(u)!Seen(s)' /\ Pin(u)!Justified(s)' /\ Pin(u)!Settled(s)'
  BY <1>3, <1>6 DEF Pin!Seen, Pin!Justified, Pin!Settled, Pin!Answered
<1>. QED
  BY <1>3, <1>6, <1>7, <1>8, <1>9 DEF Pin!ServerOK

(* The pin file is loaded.                                                 *)
LEMMA LoadSteps ==
  ASSUME NEW u \in Pins, Pin(u)!PinAssumption, Pin(u)!Shape, Pin(u)!Watch,
         NEW s \in PinOf[u].server, Pin(u)!ServerOK(s),
         Pin(u)!Load(s)
  PROVE  Pin(u)!Shape' /\ Pin(u)!ServerOK(s)' /\ \A t \in PinOf[u].server \ {s} : v3'[t] = v3[t]
<1>1. v3[s] \in Pin(u)!Work /\ v3[s].pc = "load" /\ UNCHANGED <<v1, v2, v4, v5>>
  BY DEF Pin!Load, Pin!Shape
<1>2. v5' \in 0 .. PinOf[u].calls
  BY <1>1 DEF Pin!Shape
<1>3. /\ Pin(u)!Drifted' = Pin(u)!Drifted
      /\ v6'[s].always = v6[s].always /\ v6[s].always \subseteq Pin(u)!Drifted
      /\ v6'[s].ever = v6[s].ever /\ Pin(u)!Drifted \subseteq v6[s].ever
      /\ v6'[s].calm => v6[s].calm
  BY <1>1, OwnStep
<1>4. v3[s].cur = Pin(u)!NoPins
  BY <1>1 DEF Pin!ServerOK
<1>5. CASE Pin(u)!Answer(s, "error", {})
  <2>1. /\ v3' \in [PinOf[u].server -> Pin(u)!Work]
        /\ \A t \in PinOf[u].server \ {s} : v3'[t] = v3[t]
        /\ v3'[s].pc = "idle" /\ v3'[s].why = "none" /\ v3'[s].answer = "error"
    BY <1>5, AnswerTyped DEF Pin!Answers
  <2>2. Pin(u)!Shape'
    BY <1>1, <2>1, PinFileTyped, WatchSteps DEF Pin!Shape
  <2>3. Pin(u)!CalmScan(s)' /\ Pin(u)!Seen(s)' /\ Pin(u)!Justified(s)' /\ Pin(u)!Settled(s)'
    BY <2>1 DEF Pin!CalmScan, Pin!Seen, Pin!Justified, Pin!Settled, Pin!Answered
  <2>. QED
    BY <2>1, <2>2, <2>3 DEF Pin!ServerOK
<1>6. CASE v3' = Pin(u)!Goto(s, "dead") /\ v3[s].why \in {"gate", "refusal"}
  <2>. DEFINE r == [v3[s] EXCEPT !.pc = "dead"]
  <2>1. /\ r \in Pin(u)!Work /\ r.pc = "dead" /\ r.why = v3[s].why
    BY <1>1 DEF Pin!Work, Pin!Places
  <2>2. v3' = [v3 EXCEPT ![s] = r]
    BY <1>6 DEF Pin!Goto
  <2>. HIDE DEF r
  <2>3. Pin(u)!Shape' /\ v3'[s] = r /\ \A t \in PinOf[u].server \ {s} : v3'[t] = v3[t]
    BY <1>1, <1>2, <2>1, <2>2, MovesTyped
  <2>4. v6'[s].calm => Pin(u)!CalmScan(s)'
    BY <1>3, <1>6, <2>1, <2>3 DEF Pin!ServerOK, Pin!CalmScan
  <2>5. Pin(u)!Seen(s)' /\ Pin(u)!Justified(s)' /\ Pin(u)!Settled(s)'
    BY <2>1, <2>3 DEF Pin!Seen, Pin!Justified, Pin!Settled, Pin!Answered
  <2>. QED
    BY <1>3, <1>6, <2>1, <2>3, <2>4, <2>5 DEF Pin!ServerOK
<1>7. CASE v3' = [v3 EXCEPT ![s].pc = "list", ![s].pins = v2.pins]
  <2>. DEFINE r == [v3[s] EXCEPT !.pc = "list", !.pins = v2.pins]
  <2>1. /\ r \in Pin(u)!Work /\ r.pc = "list" /\ r.why = v3[s].why /\ r.pins = v2.pins
        /\ r.left = v3[s].left /\ r.listed = v3[s].listed /\ r.cur = v3[s].cur
        /\ r.drift = v3[s].drift /\ r.call = v3[s].call
    BY <1>1, PinFileTyped DEF Pin!Work, Pin!Places
  <2>2. v3' = [v3 EXCEPT ![s] = r]
    BY <1>7 DEF Pin!Shape
  <2>. HIDE DEF r
  <2>3. Pin(u)!Shape' /\ v3'[s] = r /\ \A t \in PinOf[u].server \ {s} : v3'[t] = v3[t]
    BY <1>1, <1>2, <2>1, <2>2, MovesTyped
  <2>4. v6'[s].calm => Pin(u)!CalmScan(s)'
    <3>1. SUFFICES ASSUME v6[s].calm PROVE Pin(u)!CalmScan(s)'
      BY <1>3
    <3>2. Pin(u)!CalmScan(s)
      BY <3>1 DEF Pin!ServerOK
    <3>3. r.left = PinOf[u].file /\ v6[s].always \subseteq PinOf[u].file
      BY <1>1, <1>3, <2>1, PinFileTyped DEF Pin!ServerOK
    <3>4. v2'.pins = v2.pins /\ v3'[s] = r
      BY <1>1, <2>3
    <3>. QED
      BY <1>3, <2>1, <3>2, <3>3, <3>4 DEF Pin!CalmScan
  <2>5. Pin(u)!Seen(s)' /\ Pin(u)!Justified(s)' /\ Pin(u)!Settled(s)'
    BY <2>1, <2>3 DEF Pin!Seen, Pin!Justified, Pin!Settled, Pin!Answered
  <2>6. Pin(u)!Hashed(s)'
    BY <1>4, <2>1, <2>3 DEF Pin!Hashed, Pin!NoPins
  <2>. QED
    BY <1>3, <1>4, <2>1, <2>3, <2>4, <2>5, <2>6 DEF Pin!ServerOK
<1>. QED
  BY <1>5, <1>6, <1>7 DEF Pin!Load

(* A file of the pin set is looked for.                                    *)
LEMMA ListSteps ==
  ASSUME NEW u \in Pins, Pin(u)!PinAssumption, Pin(u)!Shape, Pin(u)!Watch,
         NEW s \in PinOf[u].server, Pin(u)!ServerOK(s),
         NEW f \in PinOf[u].file, Pin(u)!List(s, f)
  PROVE  Pin(u)!Shape' /\ Pin(u)!ServerOK(s)' /\ \A t \in PinOf[u].server \ {s} : v3'[t] = v3[t]
<1>1. /\ v3[s] \in Pin(u)!Work /\ v3[s].pc = "list" /\ f \in v3[s].left
      /\ UNCHANGED <<v1, v2, v4, v5>>
  BY DEF Pin!List, Pin!Shape
<1>2. v5' \in 0 .. PinOf[u].calls
  BY <1>1 DEF Pin!Shape
<1>3. /\ Pin(u)!Drifted' = Pin(u)!Drifted
      /\ v6'[s].always = v6[s].always /\ v6[s].always \subseteq Pin(u)!Drifted
      /\ v6'[s].ever = v6[s].ever /\ Pin(u)!Drifted \subseteq v6[s].ever
      /\ v6'[s].calm => v6[s].calm
  BY <1>1, OwnStep
<1>. DEFINE listed == IF v1[f] = Pin(u)!Absent THEN v3[s].listed ELSE v3[s].listed \cup {f}
            left   == v3[s].left \ {f}
            r == [v3[s] EXCEPT !.listed = listed,
                               !.left = IF left = {} THEN listed ELSE left,
                               !.pc = IF left = {} THEN "hash" ELSE "list"]
<1>4. /\ r \in Pin(u)!Work
      /\ r.pc = (IF left = {} THEN "hash" ELSE "list")
      /\ r.left = (IF left = {} THEN listed ELSE left)
      /\ r.listed = listed
      /\ r.why = v3[s].why /\ r.pins = v3[s].pins /\ r.cur = v3[s].cur
      /\ r.drift = v3[s].drift /\ r.call = v3[s].call
  BY <1>1 DEF Pin!Work, Pin!Places
<1>5. v3' = [v3 EXCEPT ![s] = r]
  BY DEF Pin!List, Pin!Shape
<1>6. f \in v6[s].always => f \in listed
  <2>1. f \in v6[s].always => v1[f] \in PinOf[u].content
    BY <1>3 DEF Pin!Drifted
  <2>2. Pin(u)!Absent \notin PinOf[u].content
    BY DEF Pin!PinAssumption
  <2>. QED
    BY <2>1, <2>2
<1>7. v6[s].calm /\ v3[s].why # "repin" => v6[s].always \subseteq left \cup listed
  BY <1>1, <1>6 DEF Pin!ServerOK, Pin!CalmScan
<1>. HIDE DEF r, left, listed
<1>8. Pin(u)!Shape' /\ v3'[s] = r /\ \A t \in PinOf[u].server \ {s} : v3'[t] = v3[t]
  BY <1>1, <1>2, <1>4, <1>5, MovesTyped
<1>9. v3[s].cur = Pin(u)!NoPins
  BY <1>1 DEF Pin!ServerOK
<1>10. Pin(u)!Drift(r) = {} /\ \A x \in PinOf[u].file : r.cur[x] = Pin(u)!NoPin
  BY <1>4, <1>9 DEF Pin!Drift, Pin!NoPins
<1>11. v6'[s].calm => Pin(u)!CalmScan(s)'
  <2>1. SUFFICES ASSUME v6[s].calm PROVE Pin(u)!CalmScan(s)'
    BY <1>3
  <2>2. Pin(u)!CalmScan(s)
    BY <2>1 DEF Pin!ServerOK
  <2>. QED
    BY <1>1, <1>3, <1>4, <1>7, <1>8, <1>10, <2>1, <2>2 DEF Pin!CalmScan
<1>12. Pin(u)!Seen(s)' /\ Pin(u)!Justified(s)' /\ Pin(u)!Settled(s)'
  BY <1>4, <1>8 DEF Pin!Seen, Pin!Justified, Pin!Settled, Pin!Answered
<1>13. Pin(u)!Hashed(s)'
  BY <1>8, <1>10 DEF Pin!Hashed
<1>. QED
  BY <1>3, <1>4, <1>8, <1>9, <1>11, <1>12, <1>13 DEF Pin!ServerOK

(* A file is hashed.                                                       *)
LEMMA HashSteps ==
  ASSUME NEW u \in Pins, Pin(u)!PinAssumption, Pin(u)!Shape, Pin(u)!Watch,
         NEW s \in PinOf[u].server, Pin(u)!ServerOK(s),
         NEW f \in PinOf[u].file, Pin(u)!HashFile(s, f)
  PROVE  Pin(u)!Shape' /\ Pin(u)!ServerOK(s)' /\ \A t \in PinOf[u].server \ {s} : v3'[t] = v3[t]
<1>1. /\ v3[s] \in Pin(u)!Work /\ v3[s].pc = "hash" /\ f \in v3[s].left
      /\ UNCHANGED <<v1, v2, v4, v5>>
  BY DEF Pin!HashFile, Pin!Shape
<1>2. v5' \in 0 .. PinOf[u].calls
  BY <1>1 DEF Pin!Shape
<1>3. /\ Pin(u)!Drifted' = Pin(u)!Drifted
      /\ v6'[s].always = v6[s].always /\ v6[s].always \subseteq Pin(u)!Drifted
      /\ v6'[s].ever = v6[s].ever /\ Pin(u)!Drifted \subseteq v6[s].ever
      /\ v6'[s].calm => v6[s].calm
      /\ v6'[s].touched = v6[s].touched
  BY <1>1, OwnStep
<1>. DEFINE x == Pin(u)!HashOf(v1[f])
            r == [v3[s] EXCEPT !.left = @ \ {f}, !.cur[f] = x]
<1>4. x \in Pin(u)!Hash
  BY PinValues DEF Pin!Shape
<1>5. /\ r \in Pin(u)!Work /\ r.pc = "hash" /\ r.left = v3[s].left \ {f}
      /\ r.cur = [v3[s].cur EXCEPT ![f] = x]
      /\ r.why = v3[s].why /\ r.pins = v3[s].pins /\ r.drift = v3[s].drift
      /\ r.call = v3[s].call
  <2>. HIDE DEF x
  <2>1. [v3[s].cur EXCEPT ![f] = x] \in Pin(u)!Pins
    BY <1>1, <1>4 DEF Pin!Work, Pin!Pins
  <2>. QED
    BY <1>1, <2>1 DEF Pin!Work, Pin!Places
<1>6. v3' = [v3 EXCEPT ![s] = r]
  BY DEF Pin!HashFile, Pin!Shape
<1>7. v6[s].calm /\ v3[s].why # "repin"
      => /\ f \in v6[s].always => f \in Pin(u)!Drift(r)
         /\ f \in Pin(u)!Drift(r) => f \in v6[s].ever
  <2>1. SUFFICES ASSUME v6[s].calm, v3[s].why # "repin"
                 PROVE  (f \in Pin(u)!Drifted <=> f \in Pin(u)!Drift(r))
    BY <1>3
  <2>2. v3[s].pins = v2.pins
    BY <1>1, <2>1 DEF Pin!ServerOK, Pin!CalmScan
  <2>3. r.cur[f] = x
    BY <1>1, <1>5 DEF Pin!Work, Pin!Pins
  <2>4. v1[f] \in PinOf[u].content \union {Pin(u)!Absent, Pin(u)!Unreadable}
    BY DEF Pin!Shape
  <2>. QED
    BY <1>5, <2>2, <2>3, <2>4, PinValues DEF Pin!Drifted, Pin!Drift
<1>8. \A g \in PinOf[u].file \ {f} : r.cur[g] = v3[s].cur[g]
  BY <1>1, <1>5 DEF Pin!Work, Pin!Pins
<1>9. r.cur[f] = x
  BY <1>1, <1>5 DEF Pin!Work, Pin!Pins
<1>. HIDE DEF r
<1>10. Pin(u)!Shape' /\ v3'[s] = r /\ \A t \in PinOf[u].server \ {s} : v3'[t] = v3[t]
  BY <1>1, <1>2, <1>5, <1>6, MovesTyped
<1>11. \A g \in PinOf[u].file \ {f} : g \in Pin(u)!Drift(r) <=> g \in Pin(u)!Drift(v3[s])
  BY <1>5, <1>8 DEF Pin!Drift
<1>12. v6'[s].calm => Pin(u)!CalmScan(s)'
  <2>1. SUFFICES ASSUME v6[s].calm PROVE Pin(u)!CalmScan(s)'
    BY <1>3
  <2>2. Pin(u)!CalmScan(s)
    BY <2>1 DEF Pin!ServerOK
  <2>3. Pin(u)!Drift(r) \subseteq PinOf[u].file /\ v6[s].always \subseteq PinOf[u].file
    BY <1>3 DEF Pin!Drift, Pin!Drifted
  <2>4. v3[s].why # "repin"
        => /\ v6[s].always \subseteq r.left \cup Pin(u)!Drift(r)
           /\ Pin(u)!Drift(r) \subseteq v6[s].ever
    BY <1>1, <1>5, <1>7, <1>11, <2>1, <2>2, <2>3 DEF Pin!CalmScan
  <2>. QED
    BY <1>1, <1>3, <1>5, <1>10, <2>2, <2>4 DEF Pin!CalmScan
<1>13. Pin(u)!Seen(s)' /\ Pin(u)!Justified(s)' /\ Pin(u)!Settled(s)'
  BY <1>5, <1>10 DEF Pin!Seen, Pin!Justified, Pin!Settled, Pin!Answered
<1>14. v3'[s].why = "repin" => Pin(u)!Hashed(s)'
  BY <1>1, <1>3, <1>5, <1>8, <1>9, <1>10 DEF Pin!Hashed, Pin!ServerOK
<1>. QED
  BY <1>3, <1>5, <1>10, <1>12, <1>13, <1>14 DEF Pin!ServerOK

(* The history of a server that is at work.                                *)
LEMMA BusyHistory ==
  ASSUME NEW u \in Pins, Pin(u)!PinAssumption, Pin(u)!Shape, Pin(u)!Watch,
         NEW s \in PinOf[u].server, v3[s].pc # "idle"
  PROVE  /\ v6'[s].always \subseteq v6[s].always
         /\ v6[s].ever \subseteq v6'[s].ever
         /\ v6'[s].calm => v6[s].calm /\ v2' = v2
<1>1. Pin(u)!Drifted' \subseteq PinOf[u].file
  BY PinFileTyped
<1>2. /\ v6'[s].always = v6[s].always \cap Pin(u)!Drifted'
      /\ v6'[s].ever = v6[s].ever \cup Pin(u)!Drifted'
      /\ v6'[s].calm => v6[s].calm /\ v2' = v2
  BY <1>1, WatchSteps
<1>. QED
  BY <1>2

(* A server answers without having changed anything.                       *)
LEMMA AnswerSteps ==
  ASSUME NEW u \in Pins, Pin(u)!PinAssumption, Pin(u)!Shape, Pin(u)!Watch,
         NEW s \in PinOf[u].server, Pin(u)!ServerOK(s),
         v3[s].pc # "idle", UNCHANGED <<v1, v4, v5>>, v2' \in {v2, Pin(u)!NoDoc},
         NEW kind \in Pin(u)!Answers, NEW drift \in SUBSET PinOf[u].file, Pin(u)!Answer(s,
         kind, drift),
         kind \in {"shown", "blocked"} /\ v6[s].calm /\ v2' = v2
           => v6[s].always \subseteq drift /\ drift \subseteq v6[s].ever,
         kind = "blocked" /\ v6[s].calm => v6[s].ever # {},
         kind = "nothing to accept" /\ v6[s].calm => v6[s].always \subseteq drift,
         kind = "ran" /\ PinOf[u].reject /\ v6[s].calm => v6[s].always \subseteq drift,
         kind # "pinned"
  PROVE  Pin(u)!Shape' /\ Pin(u)!ServerOK(s)' /\ \A t \in PinOf[u].server \ {s} : v3'[t] = v3[t]
<1>1. /\ v3' \in [PinOf[u].server -> Pin(u)!Work]
      /\ \A t \in PinOf[u].server \ {s} : v3'[t] = v3[t]
      /\ v3'[s].pc = "idle" /\ v3'[s].why = "none"
      /\ v3'[s].answer = kind /\ v3'[s].drift = drift
  BY AnswerTyped
<1>2. Pin(u)!Shape'
  BY <1>1, PinFileTyped, WatchSteps DEF Pin!Shape
<1>3. /\ v6'[s].always \subseteq v6[s].always
      /\ v6[s].ever \subseteq v6'[s].ever
      /\ v6'[s].calm => v6[s].calm /\ v2' = v2
  BY BusyHistory
<1>4. Pin(u)!Seen(s)'
  BY <1>1, <1>3 DEF Pin!Seen, Pin!Answered
<1>5. Pin(u)!Justified(s)'
  BY <1>1, <1>3 DEF Pin!Justified, Pin!Answered
<1>6. Pin(u)!CalmScan(s)' /\ Pin(u)!Settled(s)'
  BY <1>1 DEF Pin!CalmScan, Pin!Settled, Pin!Answered
<1>. QED
  BY <1>1, <1>2, <1>4, <1>5, <1>6 DEF Pin!ServerOK

(* What a finished scan has found, as long as the pin file is as it was.   *)
LEMMA ScannedFound ==
  ASSUME NEW u \in Pins, Pin(u)!PinAssumption, Pin(u)!Shape, NEW s \in PinOf[u].server,
         Pin(u)!ServerOK(s),
         NEW why, Pin(u)!Scanned(s, why), why # "repin"
  PROVE  /\ v3[s].pc = "hash" /\ v3[s].why = why /\ Pin(u)!Drift(v3[s]) \subseteq PinOf[u].file
         /\ v6[s].calm => /\ v6[s].always \subseteq Pin(u)!Drift(v3[s])
                          /\ Pin(u)!Drift(v3[s]) \subseteq v6[s].ever
                          /\ v3[s].pins = v2.pins
                          /\ why = "refusal" => v6[s].ever # {}
                          /\ why = "would" => /\ v6[s].always \subseteq v3[s].drift
                                             /\ v3[s].drift \subseteq v6[s].ever
<1>1. Pin(u)!Drift(v3[s]) \subseteq PinOf[u].file
  BY DEF Pin!Drift
<1>2. v3[s].pc = "hash" /\ v3[s].left = {} /\ v3[s].why = why
  BY DEF Pin!Scanned
<1>. QED
  BY <1>1, <1>2 DEF Pin!ServerOK, Pin!CalmScan

(* A server starts another scan, or goes on without one.                   *)
LEMMA GoesOnSteps ==
  ASSUME NEW u \in Pins, Pin(u)!PinAssumption, Pin(u)!Shape, Pin(u)!Watch,
         NEW s \in PinOf[u].server, Pin(u)!ServerOK(s),
         v3[s].pc # "idle", UNCHANGED <<v1, v2, v4, v5>>,
         NEW r \in Pin(u)!Work, v3' = [v3 EXCEPT ![s] = r],
         \/ r.pc = "load" /\ r.cur = Pin(u)!NoPins /\ r.left = PinOf[u].file /\ r.why # "repin"
         \/ r.pc = "list" /\ r.cur = Pin(u)!NoPins /\ r.why = "repin"
         \/ r.pc \in {"run", "clear"} /\ r.why \in {"gate", "report"},
         r.why = "report" => r.call \in PinOf[u].action,
         v6[s].calm
           => /\ r.why = "would" => /\ v6[s].always \subseteq r.drift
                                    /\ r.drift \subseteq v6[s].ever
              /\ r.why = "refusal" => v6[s].ever # {}
              /\ r.pc = "run" /\ PinOf[u].reject => v6[s].always = {}
  PROVE  Pin(u)!Shape' /\ Pin(u)!ServerOK(s)' /\ \A t \in PinOf[u].server \ {s} : v3'[t] = v3[t]
<1>1. v5' \in 0 .. PinOf[u].calls
  BY DEF Pin!Shape
<1>2. Pin(u)!Shape' /\ v3'[s] = r /\ \A t \in PinOf[u].server \ {s} : v3'[t] = v3[t]
  BY <1>1, MovesTyped
<1>3. /\ Pin(u)!Drifted' = Pin(u)!Drifted
      /\ v6'[s].always = v6[s].always /\ v6[s].always \subseteq Pin(u)!Drifted
      /\ v6'[s].ever = v6[s].ever /\ Pin(u)!Drifted \subseteq v6[s].ever
      /\ v6'[s].calm => v6[s].calm
  BY OwnStep
<1>4. v6'[s].calm => Pin(u)!CalmScan(s)'
  BY <1>2, <1>3 DEF Pin!CalmScan
<1>5. v3'[s].why = "repin" => Pin(u)!Hashed(s)'
  BY <1>2 DEF Pin!Hashed, Pin!NoPins
<1>6. Pin(u)!Seen(s)' /\ Pin(u)!Justified(s)' /\ Pin(u)!Settled(s)'
  BY <1>2 DEF Pin!Seen, Pin!Justified, Pin!Settled, Pin!Answered
<1>. QED
  BY <1>2, <1>3, <1>4, <1>5, <1>6 DEF Pin!ServerOK

(* The gate, and the refusal.                                              *)
LEMMA GateSteps ==
  ASSUME NEW u \in Pins, Pin(u)!PinAssumption, Pin(u)!Shape, Pin(u)!Watch,
         NEW s \in PinOf[u].server, Pin(u)!ServerOK(s),
         Pin(u)!Gate(s) \/ Pin(u)!Refuse(s) \/ Pin(u)!RunTool(s)
  PROVE  Pin(u)!Shape' /\ Pin(u)!ServerOK(s)' /\ \A t \in PinOf[u].server \ {s} : v3'[t] = v3[t]
<1>. DEFINE drift == Pin(u)!Drift(v3[s])
<1>1. v3[s] \in Pin(u)!Work /\ {"refusal", "gate"} \subseteq Pin(u)!Whys
      /\ {"ran", "blocked"} \subseteq Pin(u)!Answers
  BY DEF Pin!Shape, Pin!Whys, Pin!Answers
<1>2. CASE Pin(u)!Gate(s) /\ Pin(u)!HasPinFile /\ drift # {}
  <2>. DEFINE r == Pin(u)!Scanning(v3[s], "refusal")
  <2>1. Pin(u)!Scanned(s, "gate") /\ v3' = [v3 EXCEPT ![s] = r]
        /\ UNCHANGED <<v1, v2, v4, v5>>
    BY <1>2 DEF Pin!Gate, Pin!Shape
  <2>2. v3[s].pc = "hash" /\ (v6[s].calm => drift \subseteq v6[s].ever)
    BY <2>1, ScannedFound
  <2>3. r \in Pin(u)!Work /\ r.pc = "load" /\ r.cur = Pin(u)!NoPins
          /\ r.left = PinOf[u].file /\ r.why = "refusal"
    BY <1>1, ScanningTyped
  <2>. HIDE DEF r
  <2>. QED
    BY <1>2, <2>1, <2>2, <2>3, GoesOnSteps
<1>3. CASE Pin(u)!Gate(s) /\ ~(Pin(u)!HasPinFile /\ drift # {})
  <2>. DEFINE r == [v3[s] EXCEPT !.pc = "run"]
  <2>1. Pin(u)!Scanned(s, "gate") /\ v3' = [v3 EXCEPT ![s] = r]
        /\ UNCHANGED <<v1, v2, v4, v5>>
    BY <1>3 DEF Pin!Gate, Pin!Shape
  <2>2. v3[s].pc = "hash" /\ v3[s].why = "gate"
        /\ (v6[s].calm => v6[s].always \subseteq drift)
    BY <2>1, ScannedFound
  <2>3. r \in Pin(u)!Work /\ r.pc = "run" /\ r.why = "gate"
    BY <1>1, <2>2 DEF Pin!Work, Pin!Places
  <2>4. v6[s].always \subseteq Pin(u)!Drifted
    BY <2>2 DEF Pin!ServerOK
  <2>5. ~Pin(u)!HasPinFile => Pin(u)!Drifted = {}
    <3>1. v2 = Pin(u)!NoDoc => \A f \in PinOf[u].file : v2.pins[f] = Pin(u)!NoPin
      BY DEF Pin!NoDoc, Pin!NoPins
    <3>. QED
      BY <3>1 DEF Pin!HasPinFile, Pin!Drifted
  <2>6. v6[s].calm => v6[s].always = {}
    BY <1>3, <2>2, <2>4, <2>5
  <2>. HIDE DEF r
  <2>. QED
    BY <2>1, <2>2, <2>3, <2>6, GoesOnSteps
<1>4. CASE Pin(u)!Refuse(s)
  <2>1. Pin(u)!Scanned(s, "refusal") /\ Pin(u)!Answer(s, "blocked", drift)
        /\ UNCHANGED <<v1, v2, v4, v5>>
    BY <1>4 DEF Pin!Refuse
  <2>2. /\ v3[s].pc = "hash" /\ drift \in SUBSET PinOf[u].file
        /\ v6[s].calm => /\ v6[s].always \subseteq drift
                         /\ drift \subseteq v6[s].ever
                         /\ v6[s].ever # {}
    BY <2>1, ScannedFound
  <2>. HIDE DEF drift
  <2>. QED
    BY <1>1, <2>1, <2>2, AnswerSteps
<1>5. CASE Pin(u)!RunTool(s)
  <2>1. v3[s].pc = "run" /\ Pin(u)!Answer(s, "ran", {}) /\ UNCHANGED <<v1, v2, v4, v5>>
    BY <1>5 DEF Pin!RunTool
  <2>2. v6[s].calm /\ PinOf[u].reject => v6[s].always = {}
    BY <2>1 DEF Pin!ServerOK, Pin!CalmScan
  <2>3. {} \in SUBSET PinOf[u].file
    OBVIOUS
  <2>. QED
    BY <1>1, <2>1, <2>2, <2>3, AnswerSteps
<1>. QED
  BY <1>2, <1>3, <1>4, <1>5

(* config_pin has worked the drift out.                                    *)
LEMMA ReportSteps ==
  ASSUME NEW u \in Pins, Pin(u)!PinAssumption, Pin(u)!Shape, Pin(u)!Watch,
         NEW s \in PinOf[u].server, Pin(u)!ServerOK(s),
         Pin(u)!Report(s)
  PROVE  Pin(u)!Shape' /\ Pin(u)!ServerOK(s)' /\ \A t \in PinOf[u].server \ {s} : v3'[t] = v3[t]
<1>. DEFINE drift == Pin(u)!Drift(v3[s])
<1>1. Pin(u)!Scanned(s, "report") /\ UNCHANGED <<v1, v2, v4, v5>>
  BY DEF Pin!Report
<1>2. /\ v3[s].pc = "hash" /\ v3[s].why = "report" /\ drift \in SUBSET PinOf[u].file
      /\ v6[s].calm => /\ v6[s].always \subseteq drift
                       /\ drift \subseteq v6[s].ever
  BY <1>1, ScannedFound
<1>3. v6[s].always \subseteq Pin(u)!Drifted
  BY <1>2 DEF Pin!ServerOK
<1>4. v3[s] \in Pin(u)!Work /\ {"repin", "would"} \subseteq Pin(u)!Whys
  BY DEF Pin!Shape, Pin!Whys
<1>5. {"shown", "nothing to accept"} \subseteq Pin(u)!Answers
  BY DEF Pin!Answers
<1>6. \/ Pin(u)!Answer(s, "shown", drift)
      \/ v3' = [v3 EXCEPT ![s] = [Pin(u)!Scanning(v3[s], "would") EXCEPT !.drift = drift]]
      \/ v3' = [v3 EXCEPT ![s] = Pin(u)!Scanning(v3[s], "repin")]
      \/ v3' = [v3 EXCEPT ![s] = [Pin(u)!Scanning(v3[s], "repin") EXCEPT !.drift = drift]]
      \/ v3' = Pin(u)!Goto(s, "clear")
      \/ (~Pin(u)!HasPinFile \/ drift = {}) /\ Pin(u)!Answer(s, "nothing to accept", {})
  <2>1. v3[s].call \in {"show", "set", "accept_drift", "clear"}
    BY <1>2 DEF Pin!ServerOK, Pin!PinAssumption
  <2>2. CASE v3[s].call = "show"
    BY <2>2 DEF Pin!Report
  <2>3. CASE v3[s].call = "set"
    BY <2>3 DEF Pin!Report
  <2>4. CASE v3[s].call = "accept_drift"
    BY <2>4 DEF Pin!Report
  <2>5. CASE v3[s].call = "clear"
    BY <2>5 DEF Pin!Report
  <2>. QED
    BY <2>1, <2>2, <2>3, <2>4, <2>5
<1>7. CASE Pin(u)!Answer(s, "shown", drift)
  <2>. HIDE DEF drift
  <2>. QED
    BY <1>1, <1>2, <1>5, <1>7, AnswerSteps
<1>8. CASE (~Pin(u)!HasPinFile \/ drift = {}) /\ Pin(u)!Answer(s, "nothing to accept", {})
  <2>1. ~Pin(u)!HasPinFile => Pin(u)!Drifted = {}
    <3>1. v2 = Pin(u)!NoDoc => \A f \in PinOf[u].file : v2.pins[f] = Pin(u)!NoPin
      BY DEF Pin!NoDoc, Pin!NoPins
    <3>. QED
      BY <3>1 DEF Pin!HasPinFile, Pin!Drifted
  <2>2. v6[s].calm => v6[s].always = {}
    BY <1>2, <1>3, <1>8, <2>1
  <2>3. {} \in SUBSET PinOf[u].file
    OBVIOUS
  <2>. QED
    BY <1>1, <1>2, <1>5, <1>8, <2>2, <2>3, AnswerSteps
<1>9. CASE v3' = [v3 EXCEPT ![s] = [Pin(u)!Scanning(v3[s], "would") EXCEPT !.drift = drift]]
  <2>. DEFINE q == Pin(u)!Scanning(v3[s], "would")
              r == [q EXCEPT !.drift = drift]
  <2>1. /\ q \in Pin(u)!Work /\ q.pc = "load" /\ q.cur = Pin(u)!NoPins /\ q.left = PinOf[u].file
        /\ q.why = "would"
    BY <1>4, ScanningTyped
  <2>2. v3' = [v3 EXCEPT ![s] = r]
    BY <1>9
  <2>. HIDE DEF q, drift
  <2>3. /\ r \in Pin(u)!Work /\ r.pc = "load" /\ r.cur = Pin(u)!NoPins /\ r.left = PinOf[u].file
        /\ r.why = "would" /\ r.drift = drift
    BY <1>2, <2>1 DEF Pin!Work
  <2>. HIDE DEF r
  <2>. QED
    BY <1>1, <1>2, <2>2, <2>3, GoesOnSteps
<1>10. CASE v3' = [v3 EXCEPT ![s] = Pin(u)!Scanning(v3[s], "repin")]
  <2>. DEFINE r == Pin(u)!Scanning(v3[s], "repin")
  <2>1. r \in Pin(u)!Work /\ r.pc = "list" /\ r.cur = Pin(u)!NoPins /\ r.why = "repin"
    BY <1>4, ScanningTyped
  <2>2. v3' = [v3 EXCEPT ![s] = r]
    BY <1>10
  <2>. HIDE DEF r
  <2>. QED
    BY <1>1, <1>2, <2>1, <2>2, GoesOnSteps
<1>11. CASE v3' = [v3 EXCEPT ![s] = [Pin(u)!Scanning(v3[s], "repin") EXCEPT !.drift = drift]]
  <2>. DEFINE q == Pin(u)!Scanning(v3[s], "repin")
              r == [q EXCEPT !.drift = drift]
  <2>1. q \in Pin(u)!Work /\ q.pc = "list" /\ q.cur = Pin(u)!NoPins /\ q.why = "repin"
    BY <1>4, ScanningTyped
  <2>2. v3' = [v3 EXCEPT ![s] = r]
    BY <1>11
  <2>. HIDE DEF q, drift
  <2>3. r \in Pin(u)!Work /\ r.pc = "list" /\ r.cur = Pin(u)!NoPins /\ r.why = "repin"
    BY <1>2, <2>1 DEF Pin!Work
  <2>. HIDE DEF r
  <2>. QED
    BY <1>1, <1>2, <2>2, <2>3, GoesOnSteps
<1>12. CASE v3' = Pin(u)!Goto(s, "clear")
  <2>. DEFINE r == [v3[s] EXCEPT !.pc = "clear"]
  <2>1. /\ r \in Pin(u)!Work /\ r.pc = "clear" /\ r.why = "report"
        /\ r.call = v3[s].call /\ v3[s].call \in PinOf[u].action
    BY <1>2, <1>4 DEF Pin!Work, Pin!Places, Pin!ServerOK
  <2>2. v3' = [v3 EXCEPT ![s] = r]
    BY <1>12 DEF Pin!Goto
  <2>. HIDE DEF r
  <2>. QED
    BY <1>1, <1>2, <2>1, <2>2, GoesOnSteps
<1>. QED
  BY <1>6, <1>7, <1>8, <1>9, <1>10, <1>11, <1>12

(* show answers; clear removes the pin file, or fails.                     *)
LEMMA ShowSteps ==
  ASSUME NEW u \in Pins, Pin(u)!PinAssumption, Pin(u)!Shape, Pin(u)!Watch,
         NEW s \in PinOf[u].server, Pin(u)!ServerOK(s),
         Pin(u)!Show(s) \/ Pin(u)!Clear(s)
  PROVE  Pin(u)!Shape' /\ Pin(u)!ServerOK(s)' /\ \A t \in PinOf[u].server \ {s} : v3'[t] = v3[t]
<1>1. {"shown", "cleared", "error"} \subseteq Pin(u)!Answers /\ {} \in SUBSET PinOf[u].file
  BY DEF Pin!Answers
<1>2. CASE Pin(u)!Show(s)
  <2>1. /\ Pin(u)!Scanned(s, "would") /\ Pin(u)!Answer(s, "shown", v3[s].drift)
        /\ UNCHANGED <<v1, v2, v4, v5>>
    BY <1>2 DEF Pin!Show
  <2>2. /\ v3[s].pc = "hash"
        /\ v6[s].calm => /\ v6[s].always \subseteq v3[s].drift
                         /\ v3[s].drift \subseteq v6[s].ever
    BY <2>1, ScannedFound
  <2>3. v3[s].drift \in SUBSET PinOf[u].file
    BY DEF Pin!Shape, Pin!Work
  <2>. QED
    BY <1>1, <2>1, <2>2, <2>3, AnswerSteps
<1>3. CASE Pin(u)!Clear(s)
  <2>1. /\ v3[s].pc = "clear" /\ v2' \in {v2, Pin(u)!NoDoc}
        /\ Pin(u)!Answer(s, "cleared", {}) \/ Pin(u)!Answer(s, "error", {})
        /\ UNCHANGED <<v1, v4, v5>>
    BY <1>3 DEF Pin!Clear
  <2>. QED
    BY <1>1, <2>1, AnswerSteps
<1>. QED
  BY <1>2, <1>3

(* set and accept_drift replace the pin file.                              *)
LEMMA SaveSteps ==
  ASSUME NEW u \in Pins, Pin(u)!PinAssumption, Pin(u)!Shape, Pin(u)!Watch,
         NEW s \in PinOf[u].server, Pin(u)!ServerOK(s),
         Pin(u)!Save(s)
  PROVE  Pin(u)!Shape' /\ Pin(u)!ServerOK(s)' /\ \A t \in PinOf[u].server \ {s} : v3'[t] = v3[t]
<1>. DEFINE r == [Pin(u)!Idle EXCEPT !.answer = "pinned", !.drift = v3[s].drift,
                                                                       !.call = v3[s].call]
<1>1. /\ v3[s] \in Pin(u)!Work /\ v3[s].pc = "hash" /\ v3[s].why = "repin"
      /\ UNCHANGED <<v1, v4, v5>> /\ v2' = Pin(u)!Doc(v3[s].cur)
      /\ v3' = [v3 EXCEPT ![s] = r]
  BY DEF Pin!Save, Pin!Scanned, Pin!Shape
<1>2. r \in Pin(u)!Work /\ r.pc = "idle" /\ r.why = "none" /\ r.answer = "pinned"
  <2>1. Pin(u)!Idle \in Pin(u)!Work
    BY IdleTyped
  <2>. QED
    BY <1>1, <2>1 DEF Pin!Work, Pin!Idle, Pin!Answers
<1>3. v3[s].cur \in Pin(u)!Pins /\ v5' \in 0 .. PinOf[u].calls
  BY <1>1 DEF Pin!Work, Pin!Shape
<1>. HIDE DEF r
<1>4. v2' \in {Pin(u)!Doc(p) : p \in Pin(u)!Pins}
  BY <1>1, <1>3
<1>5. Pin(u)!Shape' /\ v3'[s] = r /\ \A t \in PinOf[u].server \ {s} : v3'[t] = v3[t]
  BY <1>1, <1>2, <1>3, <1>4, MovesTyped
<1>6. Pin(u)!CalmScan(s)' /\ Pin(u)!Seen(s)' /\ Pin(u)!Justified(s)'
  BY <1>2, <1>5 DEF Pin!CalmScan, Pin!Seen, Pin!Justified, Pin!Answered
<1>7. Pin(u)!Drifted' \subseteq v6'[s].touched /\ v6'[s].after = Pin(u)!Drifted'
  <2>1. /\ v6'[s].touched = v6[s].touched \cup {f \in PinOf[u].file : v1'[f] # v1[f]}
        /\ v6'[s].after = Pin(u)!Drifted'
    BY <1>1, PinFileTyped, WatchSteps
  <2>2. ASSUME NEW f \in PinOf[u].file, f \in Pin(u)!Drifted' PROVE f \in v6[s].touched
    <3>1. v1[f] \in PinOf[u].content /\ v3[s].cur[f] # Pin(u)!NoPin
            /\ PinOf[u].text[v1[f]] # v3[s].cur[f]
      BY <1>1, <2>2 DEF Pin!Drifted, Pin!Doc
    <3>2. Pin(u)!HashOf(v1[f]) = PinOf[u].text[v1[f]]
      BY <3>1, PinValues
    <3>. QED
      BY <1>1, <3>1, <3>2 DEF Pin!ServerOK, Pin!Hashed
  <2>. QED
    BY <2>1, <2>2, PinFileTyped
<1>8. Pin(u)!Settled(s)'
  BY <1>7 DEF Pin!Settled
<1>. QED
  BY <1>2, <1>5, <1>6, <1>8 DEF Pin!ServerOK

(* The world outside.                                                      *)
LEMMA WorldSteps ==
  ASSUME NEW u \in Pins, Pin(u)!PinAssumption, Pin(u)!Shape, Pin(u)!Watch,
         Pin(u)!WritePinFile \/ \E f \in PinOf[u].file : Pin(u)!Edit(f)
  PROVE  Pin(u)!Shape' /\ UNCHANGED v3
<1>1. v4' \in 0 .. PinOf[u].edits
  BY DEF Pin!WritePinFile, Pin!Edit, Pin!Shape, Pin!PinAssumption
<1>2. v6' \in [PinOf[u].server -> Pin(u)!Watched]
  BY PinFileTyped, WatchSteps
<1>. QED
  BY <1>1, <1>2 DEF Pin!WritePinFile, Pin!Edit, Pin!Shape

(* Every step keeps the invariant.                                         *)
LEMMA PinSteps ==
  ASSUME NEW u \in Pins, Pin(u)!PinAssumption, Pin(u)!PinInv, [Pin(u)!Next]_(Pin(u)!vars)
  PROVE  Pin(u)!PinInv'
<1>1. Pin(u)!Shape /\ \A s \in PinOf[u].server : Pin(u)!ServerOK(s)
  BY DEF Pin!PinInv
<1>2. ASSUME UNCHANGED Pin(u)!vars PROVE Pin(u)!PinInv'
  <2>1. UNCHANGED <<v1, v2, v3, v4, v5, v6>>
    BY <1>2 DEF Pin!vars
  <2>2. Pin(u)!Shape' /\ Pin(u)!Drifted' = Pin(u)!Drifted
    BY <1>1, <2>1 DEF Pin!Shape, Pin!Drifted
  <2>3. ASSUME NEW s \in PinOf[u].server PROVE Pin(u)!ServerOK(s)'
    <3>1. Pin(u)!CalmScan(s) => Pin(u)!CalmScan(s)'
      BY <2>1 DEF Pin!CalmScan
    <3>2. Pin(u)!Hashed(s) => Pin(u)!Hashed(s)'
      BY <2>1 DEF Pin!Hashed
    <3>3. Pin(u)!ServerOK(s)
      BY <1>1
    <3>4. (Pin(u)!Seen(s) /\ Pin(u)!Justified(s) /\ Pin(u)!Settled(s))'
      BY <2>1, <3>3 DEF Pin!ServerOK, Pin!Seen, Pin!Justified, Pin!Settled, Pin!Answered
    <3>. QED
      BY <2>1, <2>2, <3>1, <3>2, <3>3, <3>4 DEF Pin!ServerOK
  <2>. QED
    BY <2>2, <2>3 DEF Pin!PinInv
<1>3. ASSUME Pin(u)!Next, Pin(u)!WritePinFile \/ \E f \in PinOf[u].file : Pin(u)!Edit(f)
      PROVE Pin(u)!PinInv'
  <2>1. Pin(u)!Watch
    BY <1>3 DEF Pin!Next
  <2>2. Pin(u)!Shape' /\ UNCHANGED v3
    BY <1>1, <1>3, <2>1, WorldSteps
  <2>. QED
    BY <1>1, <2>1, <2>2, OthersKeepOK DEF Pin!PinInv
<1>4. ASSUME Pin(u)!Next, NEW s \in PinOf[u].server, Pin(u)!Step(s) PROVE Pin(u)!PinInv'
  <2>1. Pin(u)!Watch
    BY <1>4 DEF Pin!Next
  <2>2. Pin(u)!Shape' /\ Pin(u)!ServerOK(s)' /\ \A t \in PinOf[u].server \ {s} : v3'[t] = v3[t]
    BY <1>1, <1>4, <2>1, CallSteps, LoadSteps, ListSteps, HashSteps, GateSteps,
       ReportSteps, ShowSteps, SaveSteps DEF Pin!Step
  <2>. QED
    BY <1>1, <2>1, <2>2, OthersKeepOK DEF Pin!PinInv
<1>. QED
  BY <1>2, <1>3, <1>4 DEF Pin!Next

(* What the invariant says.                                                *)
LEMMA PinHolds ==
  ASSUME NEW u \in Pins, Pin(u)!PinAssumption, Pin(u)!PinInv
  PROVE  Pin(u)!TypeOK /\ Pin(u)!SteadyDriftIsSeen /\ Pin(u)!ReportIsJustified
           /\ Pin(u)!RepinSettles
<1>1. Pin(u)!Shape /\ \A s \in PinOf[u].server : Pin(u)!ServerOK(s)
  BY DEF Pin!PinInv
<1>2. Pin(u)!TypeOK
  BY <1>1 DEF Pin!Shape, Pin!Work, Pin!TypeOK
<1>. QED
  BY <1>1, <1>2 DEF Pin!ServerOK, Pin!SteadyDriftIsSeen, Pin!ReportIsJustified, Pin!RepinSettles


-----------------------------------------------------------------------------
(***************************************************************************)
(* The transcripts.                                                        *)
(***************************************************************************)
(* A file is never taken for no file.                                      *)
LEMMA AFileIsNotNone ==
  ASSUME NEW a, NEW b
  PROVE  Docs!File(a, b) # Docs!NoFile
<1>1. DOMAIN Docs!File(a, b) = {"doc", "whole", "mtime"}
  BY DEF Docs!File
<1>2. DOMAIN Docs!NoFile = {}
  BY DEF Docs!NoFile
<1>. QED
  BY <1>1, <1>2

(* What a transcript and a file are.                                       *)
LEMMA DocsTyped ==
  ASSUME Docs!Shape
  PROVE  /\ Len(v2) \in Nat /\ Docs!Doc = 1 .. Len(v2)
         /\ \A d \in Docs!Doc : v2[d] \in [kind : Docs!Kind, session : Session,
                                           name : Docs!Name]
         /\ \A n \in Docs!Files : n \in Docs!Name
              /\ v3[n] \in [doc : Docs!Doc, whole : BOOLEAN, mtime : 0 .. v1]
         /\ \A d \in Docs!Doc : Docs!Kept(d) => Docs!MtimeOf(d) \in 0 .. v1
         /\ v1 \in Nat
<1>1. /\ v2 \in Seq([kind : Docs!Kind, session : Session, name : Docs!Name])
      /\ v3 \in [Docs!Name -> {Docs!NoFile}
           \cup [doc : Docs!Doc, whole : BOOLEAN, mtime : 0 .. v1]]
      /\ v1 \in 0 .. MaxTime
  BY DEF Docs!Shape
<1>2. Len(v2) \in Nat /\ Docs!Doc = 1 .. Len(v2)
  BY <1>1 DEF Docs!Doc
<1>3. \A d \in Docs!Doc : v2[d] \in [kind : Docs!Kind, session : Session, name : Docs!Name]
  <2>. DEFINE T == [kind : Docs!Kind, session : Session, name : Docs!Name]
  <2>1. v2 \in Seq(T)
    BY <1>1
  <2>. HIDE DEF T
  <2>2. \A d \in Docs!Doc : v2[d] \in T
    BY <1>2, <2>1
  <2>. QED
    BY <2>2 DEF T
<1>4. \A n \in Docs!Files : n \in Docs!Name
        /\ v3[n] \in [doc : Docs!Doc, whole : BOOLEAN, mtime : 0 .. v1]
  BY <1>1 DEF Docs!Files
<1>5. \A d \in Docs!Doc : Docs!Kept(d) => Docs!MtimeOf(d) \in 0 .. v1
  BY <1>4 DEF Docs!Kept, Docs!MtimeOf
<1>. QED
  BY <1>1, <1>2, <1>3, <1>4, <1>5

(* Twins are two transcripts with one name.                                *)
LEMMA TwinsShareAName ==
  ASSUME Docs!Shape, NEW d \in Docs!Doc, NEW e \in Docs!Doc
  PROVE  Docs!Twins(d, e) <=> d # e /\ v2[d].name = v2[e].name
<1>1. /\ v2[d].name \in (0 .. MaxTime) \X Docs!Kind
           /\ v2[e].name \in (0 .. MaxTime) \X Docs!Kind
  BY DocsTyped DEF Docs!Name
<1>2. v2[d].name[2] = v2[d].kind /\ v2[e].name[2] = v2[e].kind
  BY DEF Docs!Shape
<1>3. v2[d].name = v2[e].name
      <=> v2[d].name[1] = v2[e].name[1] /\ v2[d].name[2] = v2[e].name[2]
  BY <1>1
<1>. QED
  BY <1>2, <1>3 DEF Docs!Twins

(* A server that is idle.                                                  *)
LEMMA IdleServer ==
  ASSUME NEW s, Len(v2) \in Nat
  PROVE  /\ Docs!Idle \in Docs!State
         /\ v5[s] = Docs!Idle => Docs!Writer(s) /\ Docs!Reader(s)
<1>1. Docs!Idle \in Docs!State
  BY DEF Docs!Idle, Docs!State
<1>2. /\ Docs!Idle.pc = "idle" /\ Docs!Idle.doc = 0 /\ Docs!Idle.audited = 0
      /\ Docs!Idle.todo = {} /\ Docs!Idle.before = {} /\ Docs!Idle.answer = "none"
  BY DEF Docs!Idle
<1>3. ASSUME v5[s] = Docs!Idle PROVE Docs!Writer(s) /\ Docs!Reader(s)
  <2>1. /\ v5[s].pc = "idle" /\ v5[s].doc = 0 /\ v5[s].audited = 0
        /\ v5[s].todo = {} /\ v5[s].before = {} /\ v5[s].answer = "none"
    BY <1>2, <1>3
  <2>2. Docs!Writer(s)
    BY <2>1 DEF Docs!Writer, Docs!Writing
  <2>3. Docs!Reader(s)
    BY <2>1 DEF Docs!Reader, Docs!Auditing
  <2>. QED
    BY <2>2, <2>3
<1>. QED
  BY <1>1, <1>3

(* At first there is nothing.                                              *)
LEMMA DocsStart ==
  ASSUME Docs!Init, Docs!TranscriptsAssumption
  PROVE  Docs!DocsInv
<1>. USE DEF Docs!Init
<1>1. Len(v2) = 0 /\ Docs!Doc = {} /\ Docs!Files = {}
  BY DEF Docs!Doc, Docs!Files
<1>2. Docs!Idle \in Docs!State
  BY <1>1, IdleServer
<1>3. Docs!Shape
  <2>1. v2 \in Seq([kind : Docs!Kind, session : Session, name : Docs!Name])
    OBVIOUS
  <2>2. v3 \in [Docs!Name -> {Docs!NoFile}
          \cup [doc : Docs!Doc, whole : BOOLEAN, mtime : 0 .. v1]]
    OBVIOUS
  <2>3. v1 \in 0 .. MaxTime /\ v6 \in 0 .. MaxDeaths
    BY DEF Docs!TranscriptsAssumption
  <2>. QED
    BY <1>1, <1>2, <2>1, <2>2, <2>3 DEF Docs!Shape
<1>4. Docs!Named
  BY <1>1 DEF Docs!Named
<1>5. ASSUME NEW s \in Server PROVE Docs!Writer(s) /\ Docs!Reader(s)
  <2>1. v5[s] = Docs!Idle
    OBVIOUS
  <2>. QED
    BY <1>1, <2>1, IdleServer
<1>. QED
  BY <1>3, <1>4, <1>5 DEF Docs!DocsInv

-----------------------------------------------------------------------------
(* What the steps leave of the transcripts.                                *)

(* Nothing is taken back: transcripts stay what they are, and what is kept *)
(* stays kept, unmodified, or has a twin.                                  *)
LEMMA TwinsStay ==
  ASSUME Docs!Shape, Docs!Shape', Len(v2) <= Len(v2'), \A d \in Docs!Doc : v2'[d] = v2[d]
  PROVE  /\ Docs!Doc \subseteq Docs!Doc'
         /\ \A d \in Docs!Doc : Docs!Twinned(d) => Docs!Twinned(d)'
         /\ Docs!Untwinned' => Docs!Untwinned
         /\ Len(v2) \in Nat /\ Len(v2') \in Nat
<1>1. Len(v2) \in Nat /\ Len(v2') \in Nat
  BY DEF Docs!Shape
<1>2. Docs!Doc \subseteq Docs!Doc'
  BY <1>1 DEF Docs!Doc
<1>3. ASSUME NEW d \in Docs!Doc, NEW e \in Docs!Doc, Docs!Twins(d, e) PROVE Docs!Twins(d, e)'
  BY <1>3 DEF Docs!Twins
<1>4. ASSUME NEW d \in Docs!Doc, Docs!Twinned(d) PROVE Docs!Twinned(d)'
  <2>1. PICK e \in Docs!Doc : Docs!Twins(d, e)
    BY <1>4 DEF Docs!Twinned
  <2>2. Docs!Twins(d, e)'
    BY <1>3, <2>1
  <2>3. e \in Docs!Doc'
    BY <1>2
  <2>. QED
    BY <2>2, <2>3 DEF Docs!Twinned
<1>5. ASSUME Docs!Untwinned' PROVE Docs!Untwinned
  BY <1>2, <1>4, <1>5 DEF Docs!Untwinned
<1>. QED
  BY <1>1, <1>2, <1>4, <1>5

LEMMA LongerRange == \A m, n \in Nat : m <= n => 0 .. m \subseteq 0 .. n
OBVIOUS

(* A reader keeps what it knows, while others write.                       *)
LEMMA ReaderKeeps ==
  ASSUME Docs!Shape, Docs!Shape', NEW s \in Server, Docs!Reader(s),
         Len(v2) <= Len(v2'), \A d \in Docs!Doc : v2'[d] = v2[d],
         Docs!Untwinned' => \A d \in Docs!Doc : Docs!Kept(d)
           => Docs!Kept(d)' /\ Docs!MtimeOf(d)' = Docs!MtimeOf(d),
         Docs!Files \subseteq Docs!Files',
         /\ v5'[s].doc \in 0 .. Len(v2')
         /\ v5'[s].todo = v5[s].todo /\ v5'[s].found = v5[s].found
         /\ v5'[s].audited = v5[s].audited /\ v5'[s].before = v5[s].before
         /\ v5'[s].session = v5[s].session /\ v5'[s].name = v5[s].name
         /\ v5'[s].answer # v5[s].answer => v5'[s].answer # "load failed"
         /\ v5'[s].pc \in Docs!Auditing => v5'[s].pc = v5[s].pc
  PROVE  Docs!Reader(s)'
<1>1. /\ Docs!Doc \subseteq Docs!Doc'
      /\ Docs!Untwinned' => Docs!Untwinned
  BY TwinsStay
<1>2. /\ v5'[s].doc \in 0 .. Len(v2') /\ v5'[s].audited \in 0 .. Len(v2')
      /\ v5'[s].todo \subseteq Docs!Files'
      /\ v5'[s].pc = "scan" => \A c \in v5'[s].found : c.name \in Docs!Files'
      /\ v5'[s].pc = "load" => v5'[s].name \in Docs!Files'
      /\ v5'[s].pc \in Docs!Auditing => v5'[s].session \in Session
  <2>1. Len(v2) \in Nat /\ Len(v2') \in Nat
    BY TwinsStay
  <2>2. /\ v5[s].audited \in 0 .. Len(v2) /\ v5[s].todo \subseteq Docs!Files
        /\ v5[s].pc = "scan" => \A c \in v5[s].found : c.name \in Docs!Files
        /\ v5[s].pc = "load" => v5[s].name \in Docs!Files
        /\ v5[s].pc \in Docs!Auditing => v5[s].session \in Session
    BY DEF Docs!Reader
  <2>3. v5'[s].audited \in 0 .. Len(v2')
    <3>1. v5'[s].audited = v5[s].audited /\ Len(v2) <= Len(v2')
      OBVIOUS
    <3>. QED
      BY <2>1, <2>2, <3>1, LongerRange, Zenon
  <2>4. v5'[s].todo \subseteq Docs!Files'
    BY <2>2
  <2>5. /\ v5'[s].pc = "scan" => \A c \in v5'[s].found : c.name \in Docs!Files'
        /\ v5'[s].pc = "load" => v5'[s].name \in Docs!Files'
        /\ v5'[s].pc \in Docs!Auditing => v5'[s].session \in Session
    BY <2>2 DEF Docs!Auditing
  <2>. QED
    BY <2>3, <2>4, <2>5
<1>3. ASSUME Docs!Untwinned'
      PROVE  /\ \A d \in v5'[s].before : d \in Docs!Doc' /\ Docs!Kept(d)'
             /\ v5'[s].pc = "scan"
                => /\ \A c \in v5'[s].found :
                        \E d \in Docs!Doc' : /\ Docs!Kept(d)' /\ v2'[d].session = v5'[s].session
                                             /\ c = Docs!Found(d)'
                   /\ \A d \in v5'[s].before :
                        \/ v2'[d].session # v5'[s].session
                        \/ v2'[d].name \in v5'[s].todo
                        \/ Docs!Found(d)' \in v5'[s].found
             /\ v5'[s].pc = "load"
                  => \E a \in Docs!Doc' : Docs!Newest(s, a)' /\ v5'[s].name = v2'[a].name
             /\ v5'[s].audited # 0 => Docs!Newest(s, v5[s].audited)'
             /\ v5'[s].answer = "load failed"
                => \A d \in v5'[s].before : v2'[d].session # v5'[s].session
  <2>1. Docs!Untwinned /\ \A d \in Docs!Doc : Docs!Kept(d)
          => Docs!Kept(d)' /\ Docs!MtimeOf(d)' = Docs!MtimeOf(d)
    BY <1>1, <1>3
  <2>2. \A d \in v5[s].before : d \in Docs!Doc /\ Docs!Kept(d)
    BY <2>1 DEF Docs!Reader
  <2>3. \A d \in Docs!Doc : Docs!Kept(d) => Docs!Found(d)' = Docs!Found(d)
    BY <2>1 DEF Docs!Found
  <2>4. ASSUME NEW a, Docs!Newest(s, a) PROVE Docs!Newest(s, a)'
    BY <1>1, <2>1, <2>2, <2>4 DEF Docs!Newest
  <2>5. ASSUME v5'[s].pc = "scan"
        PROVE  /\ \A c \in v5'[s].found :
                    \E d \in Docs!Doc' : /\ Docs!Kept(d)' /\ v2'[d].session = v5'[s].session
                                         /\ c = Docs!Found(d)'
               /\ \A d \in v5'[s].before :
                    \/ v2'[d].session # v5'[s].session
                    \/ v2'[d].name \in v5'[s].todo
                    \/ Docs!Found(d)' \in v5'[s].found
    <3>1. v5[s].pc = "scan"
      BY <2>5 DEF Docs!Auditing
    <3>2. /\ \A c \in v5[s].found :
               \E d \in Docs!Doc : /\ Docs!Kept(d) /\ v2[d].session = v5[s].session
                                   /\ c = Docs!Found(d)
          /\ \A d \in v5[s].before :
               \/ v2[d].session # v5[s].session
               \/ v2[d].name \in v5[s].todo
               \/ Docs!Found(d) \in v5[s].found
      BY <2>1, <3>1 DEF Docs!Reader
    <3>3. ASSUME NEW c \in v5'[s].found
          PROVE  \E d \in Docs!Doc' : /\ Docs!Kept(d)' /\ v2'[d].session = v5'[s].session
                                      /\ c = Docs!Found(d)'
      <4>1. PICK d \in Docs!Doc : Docs!Kept(d) /\ v2[d].session = v5[s].session
                   /\ c = Docs!Found(d)
        BY <3>2
      <4>2. d \in Docs!Doc' /\ Docs!Kept(d)' /\ v2'[d].session = v5'[s].session
        BY <1>1, <2>1, <4>1
      <4>3. c = Docs!Found(d)'
        BY <2>3, <4>1
      <4>. QED
        BY <4>2, <4>3
    <3>4. ASSUME NEW d \in v5'[s].before
          PROVE  \/ v2'[d].session # v5'[s].session
                 \/ v2'[d].name \in v5'[s].todo
                 \/ Docs!Found(d)' \in v5'[s].found
      <4>1. d \in Docs!Doc /\ Docs!Kept(d) /\ d \in v5[s].before
        BY <2>2
      <4>2. Docs!Found(d)' = Docs!Found(d) /\ v2'[d] = v2[d]
        BY <2>3, <4>1
      <4>. QED
        BY <3>2, <4>1, <4>2
    <3>. QED
      BY <3>3, <3>4
  <2>6. v5'[s].pc = "load"
          => \E a \in Docs!Doc' : Docs!Newest(s, a)' /\ v5'[s].name = v2'[a].name
    <3>1. SUFFICES ASSUME v5'[s].pc = "load"
                   PROVE  \E a \in Docs!Doc' : Docs!Newest(s, a)' /\ v5'[s].name = v2'[a].name
      OBVIOUS
    <3>2. v5[s].pc = "load"
      BY <3>1 DEF Docs!Auditing
    <3>3. PICK a \in Docs!Doc : Docs!Newest(s, a) /\ v5[s].name = v2[a].name
      BY <2>1, <3>2 DEF Docs!Reader
    <3>. QED
      BY <1>1, <2>4, <3>3
  <2>7. v5'[s].audited # 0 => Docs!Newest(s, v5[s].audited)'
    BY <2>1, <2>4 DEF Docs!Reader
  <2>8. v5'[s].answer = "load failed"
        => \A d \in v5'[s].before : v2'[d].session # v5'[s].session
    BY <2>1, <2>2 DEF Docs!Reader
  <2>. QED
    BY <1>1, <2>1, <2>2, <2>5, <2>6, <2>7, <2>8
<1>. QED
  BY <1>2, <1>3 DEF Docs!Reader

-----------------------------------------------------------------------------
(* What the directory and the index say is kept, and so are the writers.   *)

(* Another server than the one that moves.                                 *)
LEMMA OthersKeepDocs ==
  ASSUME Docs!Shape, Docs!Shape', NEW t \in Server, Docs!Writer(t), Docs!Reader(t),
         v5'[t] = v5[t],
         NEW s \in Server \ {t},
         v5'[s].pc \in Docs!Writing
           => \/ v5'[s].doc = v5[s].doc /\ v5[s].pc \in Docs!Writing
              \/ v5'[s].doc \notin Docs!Doc,
         \A x \in Server \ {s} : v5'[x] = v5[x],
         \A row \in v4' : \/ row \in v4
                          \/ v5[s].pc \in Docs!Writing /\ row.doc = v5[s].doc,
         Len(v2) <= Len(v2'), \A d \in Docs!Doc : v2'[d] = v2[d],
         Docs!Untwinned' => \A d \in Docs!Doc : Docs!Kept(d)
           => Docs!Kept(d)' /\ Docs!MtimeOf(d)' = Docs!MtimeOf(d),
         \A d \in Docs!Doc : Docs!Kept(d) => Docs!Kept(d)' \/ Docs!Twinned(d)',
         \A d \in Docs!Doc : Docs!Kept(d)' => \/ Docs!Kept(d)
                                              \/ v5[s].pc \in Docs!Writing /\ d = v5[s].doc,
         Docs!Files \subseteq Docs!Files'
  PROVE  Docs!Writer(t)' /\ Docs!Reader(t)'
<1>1. /\ Docs!Doc \subseteq Docs!Doc'
      /\ \A d \in Docs!Doc : Docs!Twinned(d) => Docs!Twinned(d)'
      /\ Len(v2) \in Nat /\ Len(v2') \in Nat
  BY TwinsStay
<1>2. Docs!Reader(t)'
  <2>1. v5'[t].doc \in 0 .. Len(v2')
    <3>1. v5'[t].doc \in 0 .. Len(v2) /\ Len(v2) <= Len(v2')
      BY DEF Docs!Reader
    <3>. QED
      BY <1>1, <3>1, LongerRange, Zenon
  <2>. QED
    BY <2>1, ReaderKeeps
<1>3. Docs!Writer(t)'
  <2>1. ASSUME v5[t].pc \in Docs!Writing
        PROVE  /\ v5[t].doc \in Docs!Doc /\ v5[t].doc \in Docs!Doc'
               /\ v5[s].pc \in Docs!Writing => v5[s].doc # v5[t].doc
               /\ v5'[s].pc \in Docs!Writing => v5'[s].doc # v5[t].doc
               /\ \A row \in v4' : row.doc # v5[t].doc
               /\ \A x \in Server \ {t} : v5'[x].pc \in Docs!Writing => v5'[x].doc # v5[t].doc
    <3>1. /\ v5[t].doc \in Docs!Doc
          /\ \A row \in v4 : row.doc # v5[t].doc
          /\ \A x \in Server \ {t} : v5[x].pc \in Docs!Writing => v5[x].doc # v5[t].doc
      BY <2>1 DEF Docs!Writer
    <3>2. v5[s].pc \in Docs!Writing => v5[s].doc # v5[t].doc
      BY <3>1
    <3>3. v5'[s].pc \in Docs!Writing => v5'[s].doc # v5[t].doc
      BY <3>1, <3>2
    <3>4. ASSUME NEW row \in v4' PROVE row.doc # v5[t].doc
      BY <3>1, <3>2
    <3>5. ASSUME NEW x \in Server \ {t}, v5'[x].pc \in Docs!Writing PROVE v5'[x].doc # v5[t].doc
      <4>1. CASE x = s
        BY <3>3, <3>5, <4>1
      <4>2. CASE x # s
        <5>1. v5'[x] = v5[x]
          BY <4>2
        <5>. QED
          BY <3>1, <3>5, <5>1
      <4>. QED
        BY <4>1, <4>2
    <3>. QED
      BY <1>1, <3>1, <3>2, <3>3, <3>4, <3>5
  <2>2. ASSUME NEW d, d = v5[t].doc, v5[t].pc \in {"open", "write"} PROVE ~Docs!Kept(d)'
    <3>1. v5[t].pc \in Docs!Writing /\ ~Docs!Kept(d)
      BY <2>2 DEF Docs!Writer, Docs!Writing
    <3>2. d \in Docs!Doc /\ (v5[s].pc \in Docs!Writing => v5[s].doc # d)
      BY <2>1, <2>2, <3>1
    <3>. QED
      BY <3>1, <3>2
  <2>3. ASSUME NEW d, d = v5[t].doc, v5[t].pc = "index" PROVE Docs!Kept(d)' \/ Docs!Twinned(d)'
    <3>1. v5[t].pc \in Docs!Writing /\ (Docs!Kept(d) \/ Docs!Twinned(d))
      BY <2>3 DEF Docs!Writer, Docs!Writing
    <3>2. d \in Docs!Doc
      BY <2>1, <2>3, <3>1
    <3>. QED
      BY <1>1, <3>1, <3>2
  <2>4. (v5'[t].pc \in Docs!Writing)
        => /\ v5'[t].doc \in Docs!Doc'
           /\ \A row \in v4' : row.doc # v5'[t].doc
           /\ \A x \in Server \ {t} : v5'[x].pc \in Docs!Writing => v5'[x].doc # v5'[t].doc
    BY <2>1
  <2>5. (v5[t].pc \in {"open", "write"} => ~Docs!Kept(v5[t].doc))'
    BY <2>2 DEF Docs!Kept
  <2>6. (v5[t].pc = "index" => Docs!Kept(v5[t].doc) \/ Docs!Twinned(v5[t].doc))'
    BY <2>3 DEF Docs!Kept, Docs!Twinned, Docs!Twins
  <2>. QED
    BY <2>4, <2>5, <2>6 DEF Docs!Writer, Docs!Writing
<1>. QED
  BY <1>2, <1>3

-----------------------------------------------------------------------------
(* The steps that write nothing.                                           *)

LEMMA Untouched ==
  ASSUME UNCHANGED <<v2, v3>>
  PROVE  /\ Docs!Doc' = Docs!Doc /\ Docs!Files' = Docs!Files
         /\ \A d : (Docs!Kept(d)' <=> Docs!Kept(d)) /\ Docs!MtimeOf(d)' = Docs!MtimeOf(d)
              /\ Docs!Found(d)' = Docs!Found(d)
         /\ \A d : Docs!Twinned(d)' <=> Docs!Twinned(d)
         /\ Docs!Untwinned' <=> Docs!Untwinned
<1>1. Docs!Doc' = Docs!Doc /\ Docs!Files' = Docs!Files
  BY DEF Docs!Doc, Docs!Files
<1>2. \A d : (Docs!Kept(d)' <=> Docs!Kept(d)) /\ Docs!MtimeOf(d)' = Docs!MtimeOf(d)
        /\ Docs!Found(d)' = Docs!Found(d)
  BY <1>1 DEF Docs!Kept, Docs!MtimeOf, Docs!Found
<1>3. \A d : Docs!Twinned(d)' <=> Docs!Twinned(d)
  BY <1>1 DEF Docs!Twinned, Docs!Twins
<1>4. Docs!Untwinned' <=> Docs!Untwinned
  BY <1>1, <1>3 DEF Docs!Untwinned
<1>. QED
  BY <1>1, <1>2, <1>3, <1>4

LEMMA NewestStays ==
  ASSUME UNCHANGED <<v2, v3>>, NEW s, NEW a, Docs!Newest(s, a),
         v5'[s].before = v5[s].before, v5'[s].session = v5[s].session
  PROVE  Docs!Newest(s, a)'
<1>1. /\ Docs!Doc' = Docs!Doc
      /\ \A d : (Docs!Kept(d)' <=> Docs!Kept(d)) /\ Docs!MtimeOf(d)' = Docs!MtimeOf(d)
  BY Untouched
<1>. QED
  BY <1>1 DEF Docs!Newest

LEMMA QuietSteps ==
  ASSUME Docs!DocsInv, UNCHANGED <<v1, v2, v3, v4>>, v6' \in 0 .. MaxDeaths,
         NEW s \in Server, NEW r \in Docs!State, v5' = [v5 EXCEPT ![s] = r],
         r.pc \notin Docs!Writing, Docs!Reader(s)'
  PROVE  Docs!DocsInv'
<1>1. Docs!Shape /\ Docs!Named /\ \A t \in Server : Docs!Writer(t) /\ Docs!Reader(t)
  BY DEF Docs!DocsInv
<1>2. /\ Docs!Doc' = Docs!Doc /\ Docs!Files' = Docs!Files
      /\ \A d : (Docs!Kept(d)' <=> Docs!Kept(d)) /\ Docs!MtimeOf(d)' = Docs!MtimeOf(d)
      /\ \A d : Docs!Twinned(d)' <=> Docs!Twinned(d)
      /\ Docs!Untwinned' <=> Docs!Untwinned
  BY Untouched
<1>3. v5'[s] = r /\ (\A t \in Server \ {s} : v5'[t] = v5[t]) /\ v5' \in [Server -> Docs!State]
  BY <1>1 DEF Docs!Shape
<1>4. Docs!Shape'
  BY <1>1, <1>2, <1>3 DEF Docs!Shape
<1>5. Docs!Named'
  BY <1>1, <1>2 DEF Docs!Named
<1>6. Docs!Writer(s)'
  BY <1>3 DEF Docs!Writer, Docs!Writing
<1>7. ASSUME NEW t \in Server \ {s} PROVE Docs!Writer(t)' /\ Docs!Reader(t)'
  <2>1. /\ v5'[s].pc \notin Docs!Writing /\ v5'[t] = v5[t]
        /\ \A x \in Server \ {s} : v5'[x] = v5[x]
    BY <1>3
  <2>2. /\ \A row \in v4' : row \in v4
        /\ Len(v2) <= Len(v2') /\ \A d \in Docs!Doc : v2'[d] = v2[d]
    BY <1>1, DocsTyped
  <2>3. /\ \A d \in Docs!Doc : Docs!Kept(d)
             => Docs!Kept(d)' /\ Docs!MtimeOf(d)' = Docs!MtimeOf(d)
        /\ \A d \in Docs!Doc : Docs!Kept(d)' => Docs!Kept(d)
        /\ Docs!Files \subseteq Docs!Files'
    BY <1>2
  <2>. QED
    BY <1>1, <1>4, <2>1, <2>2, <2>3, OthersKeepDocs
<1>. QED
  BY <1>4, <1>5, <1>6, <1>7 DEF Docs!DocsInv

(* The clock.                                                              *)
LEMMA TickSteps ==
  ASSUME Docs!DocsInv, Docs!TranscriptsAssumption, Docs!Tick
  PROVE  Docs!DocsInv'
<1>1. Docs!Shape /\ Docs!Named /\ \A t \in Server : Docs!Writer(t) /\ Docs!Reader(t)
  BY DEF Docs!DocsInv
<1>2. /\ Docs!Doc' = Docs!Doc /\ Docs!Files' = Docs!Files
      /\ \A d : (Docs!Kept(d)' <=> Docs!Kept(d)) /\ Docs!MtimeOf(d)' = Docs!MtimeOf(d)
           /\ Docs!Found(d)' = Docs!Found(d)
      /\ \A d : Docs!Twinned(d)' <=> Docs!Twinned(d)
      /\ Docs!Untwinned' <=> Docs!Untwinned
  BY Untouched DEF Docs!Tick
<1>3. UNCHANGED <<v2, v3, v4, v5, v6>> /\ v1' = v1 + 1 /\ v1' \in 0 .. MaxTime
  BY <1>1 DEF Docs!Tick, Docs!Shape, Docs!TranscriptsAssumption
<1>4. Docs!Shape'
  <2>1. v3' \in [Docs!Name -> {Docs!NoFile}
          \cup [doc : Docs!Doc', whole : BOOLEAN, mtime : 0 .. v1']]
    <3>1. 0 .. v1 \subseteq 0 .. v1'
      BY <1>1, <1>3 DEF Docs!Shape
    <3>2. v3 \in [Docs!Name -> {Docs!NoFile}
            \cup [doc : Docs!Doc, whole : BOOLEAN, mtime : 0 .. v1]]
      BY <1>1 DEF Docs!Shape
    <3>3. ASSUME NEW n \in Docs!Name
          PROVE  v3[n] \in {Docs!NoFile}
                   \cup [doc : Docs!Doc, whole : BOOLEAN, mtime : 0 .. v1']
      BY <3>1, <3>2
    <3>. QED
      BY <1>2, <1>3, <3>2, <3>3
  <2>. QED
    BY <1>1, <1>2, <1>3, <2>1 DEF Docs!Shape
<1>5. Docs!Named'
  BY <1>1, <1>2, <1>3 DEF Docs!Named
<1>6. ASSUME NEW s \in Server PROVE Docs!Writer(s)' /\ Docs!Reader(s)'
  <2>1. Docs!Writer(s) /\ Docs!Reader(s) /\ UNCHANGED v5[s]
    BY <1>1, <1>3
  <2>2. Docs!Writer(s)'
    BY <1>2, <1>3, <2>1 DEF Docs!Writer
  <2>3. Len(v2) <= Len(v2') /\ \A d \in Docs!Doc : v2'[d] = v2[d]
    BY <1>1, <1>3, DocsTyped
  <2>4. /\ \A d \in Docs!Doc : Docs!Kept(d)
             => Docs!Kept(d)' /\ Docs!MtimeOf(d)' = Docs!MtimeOf(d)
        /\ Docs!Files \subseteq Docs!Files'
    BY <1>2
  <2>5. v5'[s].doc \in 0 .. Len(v2')
    BY <1>3, <2>1 DEF Docs!Reader
  <2>6. Docs!Reader(s)'
    BY <1>1, <1>4, <2>1, <2>3, <2>4, <2>5, ReaderKeeps
  <2>. QED
    BY <2>2, <2>6
<1>. QED
  BY <1>4, <1>5, <1>6 DEF Docs!DocsInv

(* A server dies, and is started again.                                    *)
LEMMA DieSteps ==
  ASSUME Docs!DocsInv, Docs!TranscriptsAssumption, NEW s \in Server, Docs!Die(s)
  PROVE  Docs!DocsInv'
<1>1. Docs!Shape /\ UNCHANGED <<v1, v2, v3, v4>> /\ v5' = [v5 EXCEPT ![s] = Docs!Idle]
      /\ v6' \in 0 .. MaxDeaths
  BY DEF Docs!DocsInv, Docs!Die, Docs!Shape, Docs!TranscriptsAssumption
<1>2. Docs!Idle \in Docs!State /\ Docs!Idle.pc \notin Docs!Writing
  BY <1>1, DocsTyped, IdleServer DEF Docs!Idle, Docs!Writing
<1>3. (v5[s] = Docs!Idle)'
  BY <1>1 DEF Docs!Shape
<1>4. Docs!Reader(s)'
  <2>1. /\ Docs!Idle.pc = "idle" /\ Docs!Idle.doc = 0 /\ Docs!Idle.audited = 0
        /\ Docs!Idle.todo = {} /\ Docs!Idle.before = {} /\ Docs!Idle.answer = "none"
    BY DEF Docs!Idle
  <2>2. (/\ v5[s].pc = "idle" /\ v5[s].doc = 0 /\ v5[s].audited = 0
         /\ v5[s].todo = {} /\ v5[s].before = {} /\ v5[s].answer = "none")'
    BY <1>1, <2>1 DEF Docs!Shape
  <2>3. Len(v2)' \in Nat
    BY <1>1, DocsTyped
  <2>. QED
    BY <2>2, <2>3 DEF Docs!Reader, Docs!Auditing
<1>. QED
  BY <1>1, <1>2, <1>4, QuietSteps

(* What an audit sees first.                                               *)
LEMMA WholeIsKept ==
  ASSUME Docs!Shape, Docs!Named, NEW d \in Docs!Whole
  PROVE  d \in Docs!Doc /\ Docs!Kept(d)
<1>1. PICK n \in Docs!Files : v3[n].whole /\ d = v3[n].doc
  BY DEF Docs!Whole
<1>2. d \in Docs!Doc
  BY <1>1, DocsTyped
<1>3. v2[d].name = n
  BY <1>1 DEF Docs!Named
<1>. QED
  BY <1>1, <1>2, <1>3 DEF Docs!Kept

LEMMA AuditSteps ==
  ASSUME Docs!DocsInv, NEW s \in Server, NEW session \in Session, Docs!Audit(s, session)
  PROVE  Docs!DocsInv'
<1>. DEFINE r == [Docs!Idle EXCEPT !.pc = "scan", !.session = session,
                                   !.todo = Docs!Files, !.before = Docs!Whole]
<1>1. /\ Docs!Shape /\ Docs!Named /\ UNCHANGED <<v1, v2, v3, v4>>
      /\ v5' = [v5 EXCEPT ![s] = r] /\ v6' \in 0 .. MaxDeaths
  BY DEF Docs!DocsInv, Docs!Audit, Docs!Shape
<1>2. /\ r.pc = "scan" /\ r.doc = 0 /\ r.session = session /\ r.todo = Docs!Files
      /\ r.found = {} /\ r.audited = 0 /\ r.before = Docs!Whole /\ r.answer = "none"
  BY DEF Docs!Idle
<1>3. Docs!Files \subseteq Docs!Name /\ Docs!Whole \subseteq Docs!Doc
        /\ Docs!Doc \subseteq Nat /\ Len(v2) \in Nat
  BY <1>1, DocsTyped, WholeIsKept DEF Docs!Files
<1>4. r \in Docs!State
  <2>1. Docs!Whole \in SUBSET Nat /\ Docs!Files \in SUBSET Docs!Name
    BY <1>3
  <2>. HIDE DEF Docs!Whole, Docs!Files
  <2>. QED
    BY <2>1 DEF Docs!Idle, Docs!State, Docs!Auditing
<1>. HIDE DEF r
<1>5. v5'[s] = r
  BY <1>1 DEF Docs!Shape
<1>6. Docs!Reader(s)'
  <2>1. /\ Docs!Doc' = Docs!Doc /\ Docs!Files' = Docs!Files
        /\ \A d : Docs!Kept(d)' <=> Docs!Kept(d)
    BY <1>1, Untouched
  <2>2. \A d \in Docs!Whole : d \in Docs!Doc' /\ Docs!Kept(d)' /\ v2'[d].name \in Docs!Files'
    BY <1>1, <2>1, WholeIsKept DEF Docs!Kept
  <2>3. (/\ v5[s].pc = "scan" /\ v5[s].doc = 0 /\ v5[s].session = session
         /\ v5[s].found = {} /\ v5[s].audited = 0 /\ v5[s].answer = "none"
         /\ v5[s].todo = Docs!Files
         /\ \A d \in v5[s].before : d \in Docs!Doc /\ Docs!Kept(d)
              /\ v2[d].name \in Docs!Files)'
    BY <1>2, <1>5, <2>1, <2>2
  <2>4. Len(v2)' \in Nat
    BY <1>1, <1>3
  <2>. QED
    BY <2>3, <2>4 DEF Docs!Reader, Docs!Auditing
<1>. QED
  BY <1>1, <1>2, <1>4, <1>6, QuietSteps DEF Docs!Writing

(* An audit reads a file.                                                  *)
LEMMA ProbeSteps ==
  ASSUME Docs!DocsInv, NEW s \in Server, NEW n \in Docs!Name, Docs!Probe(s, n)
  PROVE  Docs!DocsInv'
<1>. DEFINE c == [mtime |-> v3[n].mtime, name |-> n]
            ok == v3[n].whole /\ v2[v3[n].doc].session = v5[s].session
            found == IF ok THEN v5[s].found \cup {c} ELSE v5[s].found
            r == [v5[s] EXCEPT !.todo = @ \ {n}, !.found = found]
<1>1. /\ Docs!Shape /\ Docs!Named /\ Docs!Reader(s) /\ UNCHANGED <<v1, v2, v3, v4>>
      /\ v5' = [v5 EXCEPT ![s] = r] /\ v6' \in 0 .. MaxDeaths
      /\ v5[s].pc = "scan" /\ n \in v5[s].todo /\ v5[s] \in Docs!State
  BY DEF Docs!DocsInv, Docs!Probe, Docs!Shape
<1>2. n \in Docs!Files /\ v3[n] \in [doc : Docs!Doc, whole : BOOLEAN, mtime : 0 .. v1]
        /\ v1 \in Nat
  BY <1>1, DocsTyped DEF Docs!Reader
<1>3. c \in [mtime : Nat, name : Docs!Name] /\ c.name = n
  BY <1>2
<1>4. /\ ok
           => \E d \in Docs!Doc : Docs!Kept(d) /\ v2[d].session = v5[s].session
             /\ c = Docs!Found(d)
      /\ \A d \in Docs!Doc : Docs!Kept(d) /\ v2[d].name = n /\ v2[d].session = v5[s].session
                             => ok /\ c = Docs!Found(d)
  <2>1. ASSUME ok PROVE Docs!Kept(v3[n].doc) /\ c = Docs!Found(v3[n].doc)
    <3>1. v2[v3[n].doc].name = n
      BY <1>1, <1>2 DEF Docs!Named
    <3>. QED
      BY <1>2, <2>1, <3>1 DEF Docs!Kept, Docs!Found, Docs!MtimeOf
  <2>2. ASSUME NEW d \in Docs!Doc, Docs!Kept(d), v2[d].name = n, v2[d].session = v5[s].session
        PROVE  ok /\ c = Docs!Found(d)
    BY <2>2 DEF Docs!Kept, Docs!Found, Docs!MtimeOf
  <2>. QED
    BY <1>2, <2>1, <2>2
<1>. HIDE DEF ok, c
<1>5. found \in SUBSET [mtime : Nat, name : Docs!Name]
  BY <1>1, <1>3 DEF Docs!State
<1>6. /\ \A x \in found : x \in v5[s].found \/ (ok /\ x = c)
      /\ ok => c \in found
      /\ \A x \in v5[s].found : x \in found
  OBVIOUS
<1>. HIDE DEF found
<1>7. /\ r \in Docs!State /\ r.pc = "scan" /\ r.doc = v5[s].doc /\ r.session = v5[s].session
      /\ r.todo = v5[s].todo \ {n} /\ r.found = found /\ r.audited = v5[s].audited
      /\ r.before = v5[s].before /\ r.answer = v5[s].answer
  BY <1>1, <1>5 DEF Docs!State
<1>. HIDE DEF r
<1>8. v5'[s] = r
  BY <1>1 DEF Docs!Shape
<1>9. Docs!Reader(s)'
  <2>1. /\ Docs!Doc' = Docs!Doc /\ Docs!Files' = Docs!Files
        /\ \A d : (Docs!Kept(d)' <=> Docs!Kept(d)) /\ Docs!MtimeOf(d)' = Docs!MtimeOf(d)
             /\ Docs!Found(d)' = Docs!Found(d)
        /\ Docs!Untwinned' <=> Docs!Untwinned
    BY <1>1, Untouched
  <2>2. /\ r.doc \in 0 .. Len(v2') /\ r.audited \in 0 .. Len(v2')
        /\ r.todo \subseteq Docs!Files' /\ (\A x \in r.found : x.name \in Docs!Files')
        /\ r.session \in Session
    BY <1>1, <1>2, <1>3, <1>6, <1>7, <2>1 DEF Docs!Reader, Docs!Auditing
  <2>3. ASSUME Docs!Untwinned'
        PROVE  /\ \A d \in r.before : d \in Docs!Doc' /\ Docs!Kept(d)'
               /\ \A x \in r.found :
                    \E d \in Docs!Doc' : /\ Docs!Kept(d)' /\ v2'[d].session = r.session
                                         /\ x = Docs!Found(d)'
               /\ \A d \in r.before :
                    \/ v2'[d].session # r.session
                    \/ v2'[d].name \in r.todo
                    \/ Docs!Found(d)' \in r.found
               /\ r.answer = "load failed" => \A d \in r.before : v2'[d].session # r.session
               /\ v5[s].audited # 0 => Docs!Newest(s, v5[s].audited)
    <3>1. /\ \A d \in v5[s].before : d \in Docs!Doc /\ Docs!Kept(d)
          /\ \A x \in v5[s].found :
               \E d \in Docs!Doc : /\ Docs!Kept(d) /\ v2[d].session = v5[s].session
                                   /\ x = Docs!Found(d)
          /\ \A d \in v5[s].before :
               \/ v2[d].session # v5[s].session
               \/ v2[d].name \in v5[s].todo
               \/ Docs!Found(d) \in v5[s].found
          /\ v5[s].answer = "load failed"
             => \A d \in v5[s].before : v2[d].session # v5[s].session
          /\ v5[s].audited # 0 => Docs!Newest(s, v5[s].audited)
      BY <1>1, <2>1, <2>3 DEF Docs!Reader
    <3>2. \A d \in r.before : d \in Docs!Doc' /\ Docs!Kept(d)'
      BY <1>7, <2>1, <3>1
    <3>3. ASSUME NEW x \in r.found
          PROVE  \E d \in Docs!Doc' : Docs!Kept(d)' /\ v2'[d].session = r.session
                   /\ x = Docs!Found(d)'
      <4>1. \E d \in Docs!Doc : Docs!Kept(d) /\ v2[d].session = v5[s].session
              /\ x = Docs!Found(d)
        BY <1>4, <1>6, <1>7, <3>1, <3>3
      <4>. QED
        BY <1>1, <1>7, <2>1, <4>1
    <3>4. ASSUME NEW d \in r.before
          PROVE  \/ v2'[d].session # r.session
                 \/ v2'[d].name \in r.todo
                 \/ Docs!Found(d)' \in r.found
      <4>1. \/ v2[d].session # v5[s].session
            \/ v2[d].name \in r.todo
            \/ Docs!Found(d) \in r.found
        BY <1>4, <1>6, <1>7, <3>1, <3>4
      <4>. QED
        BY <1>1, <1>7, <2>1, <4>1
    <3>. QED
      BY <1>1, <1>7, <2>1, <3>1, <3>2, <3>3, <3>4
  <2>4. (v5[s].audited # 0 /\ Docs!Untwinned => Docs!Newest(s, v5[s].audited))'
    <3>1. \A a : Docs!Newest(s, a) => Docs!Newest(s, a)'
      BY <1>1, <1>7, <1>8, NewestStays
    <3>. QED
      BY <1>7, <1>8, <2>3, <3>1
  <2>. QED
    BY <1>7, <1>8, <2>2, <2>3, <2>4 DEF Docs!Reader
<1>. QED
  BY <1>1, <1>7, <1>9, QuietSteps DEF Docs!Writing

(* An audit takes the latest it has found.                                 *)
LEMMA ChooseSteps ==
  ASSUME Docs!DocsInv, NEW s \in Server, Docs!Choose(s)
  PROVE  Docs!DocsInv'
<1>1. /\ Docs!Shape /\ Docs!Named /\ Docs!Reader(s) /\ UNCHANGED <<v1, v2, v3, v4>>
      /\ v6' \in 0 .. MaxDeaths
      /\ v5[s].pc = "scan" /\ v5[s].todo = {} /\ v5[s] \in Docs!State
  BY DEF Docs!DocsInv, Docs!Choose, Docs!Shape
<1>2. /\ Docs!Doc' = Docs!Doc /\ Docs!Files' = Docs!Files
      /\ \A d : (Docs!Kept(d)' <=> Docs!Kept(d)) /\ Docs!MtimeOf(d)' = Docs!MtimeOf(d)
      /\ Docs!Untwinned' <=> Docs!Untwinned
  BY <1>1, Untouched
<1>3. Docs!Untwinned
      => /\ \A d \in v5[s].before : d \in Docs!Doc /\ Docs!Kept(d)
         /\ \A x \in v5[s].found :
              \E d \in Docs!Doc : /\ Docs!Kept(d) /\ v2[d].session = v5[s].session
                                  /\ x = Docs!Found(d)
         /\ \A d \in v5[s].before :
              v2[d].session = v5[s].session => Docs!Found(d) \in v5[s].found
         /\ v5[s].answer = "load failed"
            => \A d \in v5[s].before : v2[d].session # v5[s].session
         /\ v5[s].audited # 0 => Docs!Newest(s, v5[s].audited)
  BY <1>1 DEF Docs!Reader
<1>4. /\ v5[s].doc \in 0 .. Len(v2) /\ v5[s].audited \in 0 .. Len(v2)
      /\ \A x \in v5[s].found : x.name \in Docs!Files
      /\ v5[s].session \in Session
  BY <1>1 DEF Docs!Reader, Docs!Auditing
<1>5. CASE v5[s].found = {} /\ v5' = [v5 EXCEPT ![s].pc = "idle", ![s].answer = "load failed"]
  <2>. DEFINE r == [v5[s] EXCEPT !.pc = "idle", !.answer = "load failed"]
  <2>1. /\ r \in Docs!State /\ r.pc = "idle" /\ r.doc = v5[s].doc /\ r.session = v5[s].session
        /\ r.todo = {} /\ r.audited = v5[s].audited /\ r.before = v5[s].before
    BY <1>1 DEF Docs!State
  <2>2. v5' = [v5 EXCEPT ![s] = r]
    BY <1>5
  <2>. HIDE DEF r
  <2>3. v5'[s] = r
    BY <1>1, <2>2 DEF Docs!Shape
  <2>4. Docs!Untwinned' => /\ \A d \in r.before : d \in Docs!Doc' /\ Docs!Kept(d)'
                           /\ \A d \in r.before : v2'[d].session # r.session
    BY <1>1, <1>2, <1>3, <1>5, <2>1
  <2>5. (v5[s].audited # 0 /\ Docs!Untwinned => Docs!Newest(s, v5[s].audited))'
    <3>1. \A a : Docs!Newest(s, a) => Docs!Newest(s, a)'
      BY <1>1, <2>1, <2>3, NewestStays
    <3>. QED
      BY <1>2, <1>3, <2>1, <2>3, <3>1
  <2>6. r.doc \in 0 .. Len(v2') /\ r.audited \in 0 .. Len(v2')
    BY <1>1, <1>4, <2>1
  <2>7. Docs!Reader(s)'
    BY <2>1, <2>3, <2>4, <2>5, <2>6 DEF Docs!Reader, Docs!Auditing
  <2>. QED
    BY <1>1, <2>1, <2>2, <2>7, QuietSteps DEF Docs!Writing
<1>6. ASSUME NEW c \in Docs!Latest(v5[s].found),
             v5' = [v5 EXCEPT ![s].pc = "load", ![s].name = c.name]
      PROVE  Docs!DocsInv'
  <2>. DEFINE r == [v5[s] EXCEPT !.pc = "load", !.name = c.name]
  <2>1. c \in v5[s].found /\ \A x \in v5[s].found : x.mtime <= c.mtime
    BY DEF Docs!Latest
  <2>2. c.name \in Docs!Files /\ c.name \in Docs!Name
    BY <1>4, <2>1 DEF Docs!Files
  <2>3. /\ r \in Docs!State /\ r.pc = "load" /\ r.doc = v5[s].doc /\ r.session = v5[s].session
        /\ r.todo = {} /\ r.audited = v5[s].audited /\ r.before = v5[s].before
        /\ r.name = c.name /\ r.answer = v5[s].answer
    BY <1>1, <2>2 DEF Docs!State, Docs!Auditing
  <2>4. v5' = [v5 EXCEPT ![s] = r]
    BY <1>6
  <2>. HIDE DEF r
  <2>5. v5'[s] = r
    BY <1>1, <2>4 DEF Docs!Shape
  <2>6. \A a : Docs!Newest(s, a) => Docs!Newest(s, a)'
    BY <1>1, <2>3, <2>5, NewestStays
  <2>7. Docs!Untwinned' => \E a \in Docs!Doc' : Docs!Newest(s, a)' /\ r.name = v2'[a].name
    <3>1. SUFFICES ASSUME Docs!Untwinned
                   PROVE \E a \in Docs!Doc : Docs!Newest(s, a) /\ c.name = v2[a].name
      BY <1>1, <1>2, <2>3, <2>6
    <3>2. PICK a \in Docs!Doc : Docs!Kept(a) /\ v2[a].session = v5[s].session
                 /\ c = Docs!Found(a)
      BY <1>3, <2>1, <3>1
    <3>3. c.name = v2[a].name /\ c.mtime = Docs!MtimeOf(a)
      BY <3>2 DEF Docs!Found
    <3>4. ASSUME NEW d \in v5[s].before, v2[d].session = v5[s].session
          PROVE  Docs!MtimeOf(d) <= Docs!MtimeOf(a)
      <4>1. Docs!Found(d) \in v5[s].found
        BY <1>3, <3>1, <3>4
      <4>2. Docs!Found(d).mtime = Docs!MtimeOf(d)
        BY DEF Docs!Found
      <4>. QED
        BY <2>1, <3>3, <4>1, <4>2
    <3>. QED
      BY <3>2, <3>3, <3>4 DEF Docs!Newest
  <2>8. Docs!Untwinned' => /\ \A d \in r.before : d \in Docs!Doc' /\ Docs!Kept(d)'
                           /\ r.answer = "load failed"
                              => \A d \in r.before : v2'[d].session # r.session
    BY <1>1, <1>2, <1>3, <2>3
  <2>9. (v5[s].audited # 0 /\ Docs!Untwinned => Docs!Newest(s, v5[s].audited))'
    BY <1>2, <1>3, <2>3, <2>5, <2>6
  <2>10. /\ r.doc \in 0 .. Len(v2') /\ r.audited \in 0 .. Len(v2')
         /\ r.name \in Docs!Files' /\ r.session \in Session
    BY <1>1, <1>2, <1>4, <2>2, <2>3
  <2>11. Docs!Reader(s)'
    BY <2>3, <2>5, <2>7, <2>8, <2>9, <2>10 DEF Docs!Reader
  <2>. QED
    BY <1>1, <2>3, <2>4, <2>11, QuietSteps DEF Docs!Writing
<1>. QED
  BY <1>5, <1>6 DEF Docs!Choose

(* An audit reads again the file it has taken.                             *)
LEMMA LoadTextSteps ==
  ASSUME Docs!DocsInv, NEW s \in Server, Docs!LoadText(s)
  PROVE  Docs!DocsInv'
<1>. DEFINE file == v3[v5[s].name]
<1>1. /\ Docs!Shape /\ Docs!Named /\ Docs!Reader(s) /\ UNCHANGED <<v1, v2, v3, v4>>
      /\ v6' \in 0 .. MaxDeaths
      /\ v5[s].pc = "load" /\ v5[s] \in Docs!State
  BY DEF Docs!DocsInv, Docs!LoadText, Docs!Shape
<1>2. /\ Docs!Doc' = Docs!Doc /\ Docs!Files' = Docs!Files
      /\ \A d : (Docs!Kept(d)' <=> Docs!Kept(d)) /\ Docs!MtimeOf(d)' = Docs!MtimeOf(d)
      /\ Docs!Untwinned' <=> Docs!Untwinned
  BY <1>1, Untouched
<1>3. /\ v5[s].doc \in 0 .. Len(v2) /\ v5[s].audited \in 0 .. Len(v2)
      /\ v5[s].todo \subseteq Docs!Files /\ v5[s].session \in Session
      /\ file \in [doc : Docs!Doc, whole : BOOLEAN, mtime : 0 .. v1]
  BY <1>1, DocsTyped DEF Docs!Reader, Docs!Auditing
<1>4. Docs!Untwinned
      => /\ \A d \in v5[s].before : d \in Docs!Doc /\ Docs!Kept(d)
         /\ v5[s].answer = "load failed"
            => \A d \in v5[s].before : v2[d].session # v5[s].session
         /\ file.whole /\ Docs!Newest(s, file.doc)
         /\ v5[s].audited # 0 => Docs!Newest(s, v5[s].audited)
  <2>1. SUFFICES ASSUME Docs!Untwinned
                 PROVE  /\ file.whole /\ Docs!Newest(s, file.doc)
    BY <1>1 DEF Docs!Reader
  <2>2. PICK a \in Docs!Doc : Docs!Newest(s, a) /\ v5[s].name = v2[a].name
    BY <1>1, <2>1 DEF Docs!Reader
  <2>3. file.whole /\ file.doc = a
    BY <2>2 DEF Docs!Newest, Docs!Kept
  <2>. QED
    BY <2>2, <2>3
<1>5. file.doc \in Nat /\ file.doc \in 0 .. Len(v2)
  BY <1>1, <1>3, DocsTyped
<1>6. CASE file.whole
  <2>. DEFINE r == [v5[s] EXCEPT !.pc = "judge", !.audited = file.doc]
  <2>1. v5' = [v5 EXCEPT ![s] = r]
    BY <1>6 DEF Docs!LoadText
  <2>. HIDE DEF file
  <2>2. /\ r \in Docs!State /\ r.pc = "judge" /\ r.doc = v5[s].doc /\ r.session = v5[s].session
        /\ r.todo = v5[s].todo /\ r.audited = file.doc /\ r.before = v5[s].before
        /\ r.answer = v5[s].answer
    BY <1>1, <1>5 DEF Docs!State, Docs!Auditing
  <2>. HIDE DEF r
  <2>3. v5'[s] = r
    BY <1>1, <2>1 DEF Docs!Shape
  <2>4. Docs!Untwinned' => /\ \A d \in r.before : d \in Docs!Doc' /\ Docs!Kept(d)'
                           /\ r.answer = "load failed"
                              => \A d \in r.before : v2'[d].session # r.session
    BY <1>1, <1>2, <1>4, <2>2
  <2>5. (v5[s].audited # 0 /\ Docs!Untwinned => Docs!Newest(s, v5[s].audited))'
    <3>1. \A a : Docs!Newest(s, a) => Docs!Newest(s, a)'
      BY <1>1, <2>2, <2>3, NewestStays
    <3>. QED
      BY <1>2, <1>4, <2>2, <2>3, <3>1
  <2>6. /\ r.doc \in 0 .. Len(v2') /\ r.audited \in 0 .. Len(v2')
        /\ r.todo \subseteq Docs!Files' /\ r.session \in Session
    BY <1>1, <1>2, <1>3, <1>5, <2>2
  <2>7. Docs!Reader(s)'
    BY <2>2, <2>3, <2>4, <2>5, <2>6 DEF Docs!Reader
  <2>. QED
    BY <1>1, <2>1, <2>2, <2>7, QuietSteps DEF Docs!Writing
<1>7. CASE ~file.whole
  <2>. DEFINE r == [v5[s] EXCEPT !.pc = "idle", !.answer = "load failed"]
  <2>1. v5' = [v5 EXCEPT ![s] = r]
    BY <1>7 DEF Docs!LoadText
  <2>2. ~Docs!Untwinned'
    BY <1>2, <1>4, <1>7
  <2>. HIDE DEF file
  <2>3. /\ r \in Docs!State /\ r.pc = "idle" /\ r.doc = v5[s].doc
        /\ r.todo = v5[s].todo /\ r.audited = v5[s].audited
    BY <1>1 DEF Docs!State
  <2>. HIDE DEF r
  <2>4. v5'[s] = r
    BY <1>1, <2>1 DEF Docs!Shape
  <2>5. r.doc \in 0 .. Len(v2') /\ r.audited \in 0 .. Len(v2') /\ r.todo \subseteq Docs!Files'
    BY <1>1, <1>2, <1>3, <2>3
  <2>6. Docs!Reader(s)'
    BY <2>2, <2>3, <2>4, <2>5 DEF Docs!Reader, Docs!Auditing
  <2>. QED
    BY <1>1, <2>1, <2>3, <2>6, QuietSteps DEF Docs!Writing
<1>. QED
  BY <1>6, <1>7

-----------------------------------------------------------------------------
(* The steps that write.                                                   *)

(* A transcript is begun.                                                  *)
LEMMA BeginSteps ==
  ASSUME Docs!DocsInv, NEW s \in Server, NEW kind \in Docs!Kind, NEW session \in Session,
         NEW state \in Docs!State, Docs!Begin(s, kind, session, state),
         \/ state = Docs!Idle
         \/ state = v5[s] /\ v5[s].pc = "judge",
         v5[s].pc \notin Docs!Writing,
         NEW e, e = Len(v2) + 1
  PROVE  Docs!DocsInv'
<1>. DEFINE new == [kind |-> kind, session |-> session, name |-> Docs!NameOf(v1, kind)]
            r == [state EXCEPT !.pc = "open", !.doc = e]
<1>1. /\ Docs!Shape /\ Docs!Named /\ \A t \in Server : Docs!Writer(t) /\ Docs!Reader(t)
      /\ UNCHANGED <<v1, v3, v4, v6>> /\ v2' = Append(v2, new)
      /\ v5' = [v5 EXCEPT ![s] = r]
  BY DEF Docs!DocsInv, Docs!Begin
<1>2. Len(v2) \in Nat /\ Docs!Doc = 1 .. Len(v2) /\ v1 \in 0 .. MaxTime
  BY <1>1, DocsTyped DEF Docs!Shape
<1>3. new \in [kind : Docs!Kind, session : Session, name : Docs!Name] /\ new.name[2] = new.kind
  BY <1>2 DEF Docs!Name, Docs!NameOf
<1>. HIDE DEF new
<1>4. /\ v2' \in Seq([kind : Docs!Kind, session : Session, name : Docs!Name])
      /\ Len(v2') = e /\ v2'[e] = new /\ \A d \in Docs!Doc : v2'[d] = v2[d]
  <2>. DEFINE T == [kind : Docs!Kind, session : Session, name : Docs!Name]
  <2>1. v2 \in Seq(T) /\ new \in T
    BY <1>1, <1>3 DEF Docs!Shape
  <2>. HIDE DEF T
  <2>2. /\ v2' \in Seq(T) /\ Len(v2') = e /\ v2'[e] = new
        /\ \A d \in Docs!Doc : v2'[d] = v2[d]
    BY <1>1, <1>2, <2>1
  <2>. QED
    BY <2>2 DEF T
<1>5. Docs!Doc' = Docs!Doc \cup {e} /\ e \notin Docs!Doc /\ e \in Nat
        /\ Docs!Doc \subseteq Docs!Doc'
  BY <1>2, <1>4 DEF Docs!Doc
<1>6. r \in Docs!State /\ r.pc = "open" /\ r.doc = e
  BY <1>5 DEF Docs!State, Docs!Writing
<1>7. v5'[s] = r /\ (\A t \in Server \ {s} : v5'[t] = v5[t]) /\ v5' \in [Server -> Docs!State]
  <2>. HIDE DEF r
  <2>. QED
    BY <1>1, <1>6 DEF Docs!Shape
<1>8. Docs!Shape'
  <2>1. \A d \in Docs!Doc' : v2'[d].name[2] = v2'[d].kind
    BY <1>1, <1>3, <1>4, <1>5 DEF Docs!Shape
  <2>2. v3' \in [Docs!Name -> {Docs!NoFile}
          \cup [doc : Docs!Doc', whole : BOOLEAN, mtime : 0 .. v1']]
    <3>1. v3 \in [Docs!Name -> {Docs!NoFile}
            \cup [doc : Docs!Doc, whole : BOOLEAN, mtime : 0 .. v1]]
      BY <1>1 DEF Docs!Shape
    <3>2. ASSUME NEW n \in Docs!Name
          PROVE  v3[n] \in {Docs!NoFile}
                   \cup [doc : Docs!Doc', whole : BOOLEAN, mtime : 0 .. v1]
      BY <1>5, <3>1
    <3>. QED
      BY <1>1, <3>1, <3>2
  <2>3. v4' \subseteq [name : Docs!Name, doc : Docs!Doc']
    BY <1>1, <1>5 DEF Docs!Shape
  <2>. QED
    BY <1>1, <1>4, <1>7, <2>1, <2>2, <2>3 DEF Docs!Shape
<1>9. Docs!Files' = Docs!Files /\ Len(v2) <= Len(v2')
  BY <1>1, <1>2, <1>4 DEF Docs!Files
<1>10. \A d \in Docs!Doc : (Docs!Kept(d)' <=> Docs!Kept(d))
         /\ Docs!MtimeOf(d)' = Docs!MtimeOf(d)
  BY <1>1, <1>4, <1>9 DEF Docs!Kept, Docs!MtimeOf
<1>11. ~Docs!Kept(e)'
  <2>1. ASSUME NEW n \in Docs!Files PROVE v3[n].doc # e
    BY <1>1, <1>5, DocsTyped
  <2>. QED
    BY <1>1, <1>9, <2>1 DEF Docs!Kept
<1>12. \A d \in Docs!Doc : Docs!Twinned(d) => Docs!Twinned(d)'
  BY <1>1, <1>4, <1>8, <1>9, TwinsStay
<1>13. Docs!Named'
  <2>1. \A n \in Docs!Files' : v2'[v3'[n].doc].name = n
    BY <1>1, <1>4, <1>9, DocsTyped DEF Docs!Named
  <2>2. ASSUME NEW row \in v4'
        PROVE  v2'[row.doc].name = row.name /\ (Docs!Kept(row.doc)' \/ Docs!Twinned(row.doc)')
    <3>1. row \in v4 /\ row.doc \in Docs!Doc
      BY <1>1 DEF Docs!Shape
    <3>. QED
      BY <1>1, <1>4, <1>10, <1>12, <3>1 DEF Docs!Named
  <2>. QED
    BY <2>1, <2>2 DEF Docs!Named
<1>14. Docs!Writer(s)'
  <2>1. \A row \in v4' : row.doc # e
    BY <1>1, <1>5 DEF Docs!Shape
  <2>2. ASSUME NEW t \in Server \ {s}, v5'[t].pc \in Docs!Writing PROVE v5'[t].doc # e
    BY <1>1, <1>5, <1>7, <2>2 DEF Docs!Writer
  <2>3. (v5[s].pc \in {"open", "write"} => ~Docs!Kept(v5[s].doc))'
    BY <1>6, <1>7, <1>11 DEF Docs!Kept
  <2>. QED
    BY <1>5, <1>6, <1>7, <2>1, <2>2, <2>3 DEF Docs!Writer
<1>15. ASSUME NEW t \in Server \ {s} PROVE Docs!Writer(t)' /\ Docs!Reader(t)'
  <2>1. /\ v5'[s].doc \notin Docs!Doc /\ v5'[t] = v5[t]
        /\ \A x \in Server \ {s} : v5'[x] = v5[x]
    BY <1>5, <1>6, <1>7
  <2>. HIDE DEF r
  <2>. QED
    BY <1>1, <1>4, <1>8, <1>9, <1>10, <2>1, OthersKeepDocs
<1>16. Docs!Reader(s)'
  <2>1. e \in 0 .. Len(v2') /\ Len(v2') \in Nat
    BY <1>2, <1>4
  <2>2. CASE state = Docs!Idle
    <3>1. /\ r.audited = 0 /\ r.todo = {} /\ r.before = {} /\ r.answer = "none"
      BY <2>2 DEF Docs!Idle
    <3>2. (/\ v5[s].pc = "open" /\ v5[s].doc \in 0 .. Len(v2) /\ v5[s].audited = 0
           /\ v5[s].todo = {} /\ v5[s].before = {} /\ v5[s].answer = "none")'
      BY <1>6, <1>7, <2>1, <3>1
    <3>. QED
      BY <2>1, <3>2 DEF Docs!Reader, Docs!Auditing
  <2>3. CASE state = v5[s]
    <3>1. /\ r.todo = v5[s].todo /\ r.found = v5[s].found
          /\ r.audited = v5[s].audited /\ r.before = v5[s].before
          /\ r.session = v5[s].session /\ r.name = v5[s].name
          /\ r.answer = v5[s].answer /\ r.pc \notin Docs!Auditing
      BY <2>3 DEF Docs!State, Docs!Auditing
    <3>. HIDE DEF r
    <3>2. Docs!Reader(s) /\ Docs!Files \subseteq Docs!Files'
      BY <1>1, <1>9
    <3>. QED
      BY <1>1, <1>4, <1>6, <1>7, <1>8, <1>9, <1>10, <2>1, <3>1, <3>2, ReaderKeeps
  <2>. QED
    BY <2>2, <2>3
<1>. QED
  BY <1>8, <1>13, <1>14, <1>15, <1>16 DEF Docs!DocsInv

(* A file is opened, which empties it, or written.                         *)
LEMMA PutSteps ==
  ASSUME Docs!DocsInv, NEW s \in Server, v5[s].pc \in {"open", "write"},
         NEW whole \in BOOLEAN, Docs!Put(s, whole), UNCHANGED <<v1, v2, v4, v6>>,
         NEW p, v5' = [v5 EXCEPT ![s].pc = p],
         \/ whole = FALSE /\ p = "write"
         \/ whole = TRUE /\ p = "index",
         NEW e, e = v5[s].doc
  PROVE  Docs!DocsInv'
<1>. DEFINE n0 == v2[e].name
            r == [v5[s] EXCEPT !.pc = p]
<1>1. /\ Docs!Shape /\ Docs!Named /\ \A t \in Server : Docs!Writer(t) /\ Docs!Reader(t)
      /\ v5[s] \in Docs!State
  BY DEF Docs!DocsInv, Docs!Shape
<1>2. e \in Docs!Doc /\ ~Docs!Kept(e) /\ n0 \in Docs!Name
  BY <1>1, DocsTyped DEF Docs!Writer, Docs!Writing
<1>3. v3' = [v3 EXCEPT ![n0] = Docs!File(e, whole)] /\ n0 \in DOMAIN v3
  BY <1>1, <1>2 DEF Docs!Put, Docs!Shape
<1>4. /\ Docs!File(e, whole) \in [doc : Docs!Doc, whole : BOOLEAN, mtime : 0 .. v1]
      /\ Docs!File(e, whole).doc = e /\ Docs!File(e, whole).whole = whole
      /\ Docs!File(e, whole) # Docs!NoFile
  BY <1>1, <1>2, DocsTyped, AFileIsNotNone DEF Docs!File
<1>5. /\ r \in Docs!State /\ r.pc = p /\ r.doc = e /\ r.todo = v5[s].todo
           /\ r.found = v5[s].found
      /\ r.audited = v5[s].audited /\ r.before = v5[s].before
      /\ r.session = v5[s].session /\ r.name = v5[s].name
      /\ r.answer = v5[s].answer /\ r.pc \notin Docs!Auditing /\ r.pc \in Docs!Writing
  BY <1>1 DEF Docs!State, Docs!Writing, Docs!Auditing
<1>6. v5'[s] = r /\ (\A t \in Server \ {s} : v5'[t] = v5[t]) /\ v5' \in [Server -> Docs!State]
  <2>1. v5' = [v5 EXCEPT ![s] = r]
    OBVIOUS
  <2>. HIDE DEF r
  <2>. QED
    BY <1>1, <1>5, <2>1 DEF Docs!Shape
<1>. HIDE DEF r
<1>7. Docs!Doc' = Docs!Doc
  BY DEF Docs!Doc
<1>8. /\ v3'[n0] = Docs!File(e, whole) /\ \A n \in Docs!Name \ {n0} : v3'[n] = v3[n]
      /\ v3' \in [Docs!Name -> {Docs!NoFile}
           \cup [doc : Docs!Doc, whole : BOOLEAN, mtime : 0 .. v1]]
  BY <1>1, <1>2, <1>3, <1>4 DEF Docs!Shape
<1>9. Docs!Shape'
  BY <1>1, <1>6, <1>7, <1>8 DEF Docs!Shape
<1>10. n0 \in Docs!Files' /\ \A n \in Docs!Name \ {n0} : n \in Docs!Files' <=> n \in Docs!Files
  BY <1>2, <1>4, <1>8 DEF Docs!Files
<1>11. Docs!Files \subseteq Docs!Files' /\ Docs!Files \subseteq Docs!Name
         /\ Docs!Files' \subseteq Docs!Name
  BY <1>10 DEF Docs!Files
<1>12. /\ Len(v2) <= Len(v2') /\ \A d \in Docs!Doc : v2'[d] = v2[d]
  BY <1>1, DocsTyped
<1>13. ASSUME NEW d \in Docs!Doc, v2[d].name # n0
       PROVE  (Docs!Kept(d)' <=> Docs!Kept(d)) /\ Docs!MtimeOf(d)' = Docs!MtimeOf(d)
  <2>1. v2[d].name \in Docs!Name
    BY <1>1, DocsTyped
  <2>2. v3'[v2[d].name] = v3[v2[d].name]
    BY <1>8, <1>13, <2>1
  <2>3. v2[d].name \in Docs!Files' <=> v2[d].name \in Docs!Files
    BY <1>10, <1>13, <2>1
  <2>. QED
    BY <2>2, <2>3 DEF Docs!Kept, Docs!MtimeOf
<1>14. ASSUME NEW d \in Docs!Doc, d # e, v2[d].name = n0
       PROVE  Docs!Twinned(d)' /\ ~Docs!Kept(d)'
  <2>1. Docs!Twins(d, e)'
    <3>1. Docs!Twins(d, e)
      BY <1>1, <1>2, <1>14, TwinsShareAName
    <3>. QED
      BY <3>1 DEF Docs!Twins
  <2>2. ~Docs!Kept(d)'
    BY <1>4, <1>8, <1>14 DEF Docs!Kept
  <2>. QED
    BY <1>2, <1>7, <2>1, <2>2 DEF Docs!Twinned
<1>15. Docs!Kept(e)' <=> whole
  BY <1>4, <1>8, <1>10 DEF Docs!Kept
<1>16. \A d \in Docs!Doc : Docs!Kept(d)
         => Docs!Twinned(d)' \/ (Docs!Kept(d)' /\ Docs!MtimeOf(d)' = Docs!MtimeOf(d))
  BY <1>2, <1>13, <1>14
<1>17. \A d \in Docs!Doc : Docs!Kept(d)' => Docs!Kept(d) \/ d = e
  BY <1>13, <1>14
<1>18. Docs!Untwinned' => \A d \in Docs!Doc : Docs!Kept(d)
         => Docs!Kept(d)' /\ Docs!MtimeOf(d)' = Docs!MtimeOf(d)
  BY <1>7, <1>16 DEF Docs!Untwinned
<1>19. \A d \in Docs!Doc : Docs!Twinned(d) => Docs!Twinned(d)'
  BY <1>1, <1>9, <1>12, TwinsStay
<1>20. Docs!Named'
  <2>1. ASSUME NEW n \in Docs!Files' PROVE v2'[v3'[n].doc].name = n
    <3>1. CASE n = n0
      BY <1>4, <1>8, <3>1
    <3>2. CASE n # n0
      BY <1>1, <1>8, <1>10, <1>11, <3>2 DEF Docs!Named
    <3>. QED
      BY <3>1, <3>2
  <2>2. ASSUME NEW row \in v4'
        PROVE  v2'[row.doc].name = row.name /\ (Docs!Kept(row.doc)' \/ Docs!Twinned(row.doc)')
    <3>1. row \in v4 /\ row.doc \in Docs!Doc
      BY <1>1 DEF Docs!Shape
    <3>2. v2[row.doc].name = row.name /\ (Docs!Kept(row.doc) \/ Docs!Twinned(row.doc))
      BY <1>1, <3>1 DEF Docs!Named
    <3>. QED
      BY <1>16, <1>19, <3>1, <3>2
  <2>. QED
    BY <2>1, <2>2 DEF Docs!Named
<1>21. Docs!Writer(s)'
  <2>1. /\ \A row \in v4 : row.doc # e
        /\ \A t \in Server \ {s} : v5[t].pc \in Docs!Writing => v5[t].doc # e
    BY <1>1 DEF Docs!Writer, Docs!Writing
  <2>2. (/\ v5[s].pc \in {"open", "write"} => ~Docs!Kept(v5[s].doc)
         /\ v5[s].pc = "index" => Docs!Kept(v5[s].doc))'
    BY <1>5, <1>6, <1>15 DEF Docs!Kept
  <2>. QED
    BY <1>2, <1>5, <1>6, <1>7, <2>1, <2>2 DEF Docs!Writer
<1>22. ASSUME NEW t \in Server \ {s} PROVE Docs!Writer(t)' /\ Docs!Reader(t)'
  <2>1. /\ v5'[t] = v5[t] /\ \A x \in Server \ {s} : v5'[x] = v5[x]
        /\ v5'[s].doc = v5[s].doc /\ v5[s].pc \in Docs!Writing
    BY <1>5, <1>6 DEF Docs!Writing
  <2>2. \A row \in v4' : row \in v4
    OBVIOUS
  <2>3. \A d \in Docs!Doc : Docs!Kept(d) => Docs!Kept(d)' \/ Docs!Twinned(d)'
    BY <1>16
  <2>4. \A d \in Docs!Doc : Docs!Kept(d)'
          => Docs!Kept(d) \/ (v5[s].pc \in Docs!Writing /\ d = v5[s].doc)
    BY <1>17, <2>1
  <2>. QED
    BY <1>1, <1>9, <1>11, <1>12, <1>18, <2>1, <2>2, <2>3, <2>4, OthersKeepDocs
<1>23. Docs!Reader(s)'
  <2>1. e \in 0 .. Len(v2')
    BY <1>1 DEF Docs!Reader
  <2>2. /\ v5'[s].doc \in 0 .. Len(v2')
        /\ v5'[s].todo = v5[s].todo /\ v5'[s].found = v5[s].found
        /\ v5'[s].audited = v5[s].audited /\ v5'[s].before = v5[s].before
        /\ v5'[s].session = v5[s].session /\ v5'[s].name = v5[s].name
        /\ v5'[s].answer = v5[s].answer /\ v5'[s].pc \notin Docs!Auditing
    BY <1>5, <1>6, <2>1
  <2>. QED
    BY <1>1, <1>9, <1>11, <1>12, <1>18, <2>2, ReaderKeeps
<1>. QED
  BY <1>9, <1>20, <1>21, <1>22, <1>23 DEF Docs!DocsInv

(* The index gets its row, or not.                                         *)
LEMMA IndexSteps ==
  ASSUME Docs!DocsInv, NEW s \in Server, Docs!IndexRow(s)
  PROVE  Docs!DocsInv'
<1>. DEFINE e == v5[s].doc
            row0 == [name |-> v2[e].name, doc |-> e]
            r == [v5[s] EXCEPT !.pc = "idle", !.answer = "done"]
<1>1. /\ Docs!Shape /\ Docs!Named /\ \A t \in Server : Docs!Writer(t) /\ Docs!Reader(t)
      /\ v5[s] \in Docs!State /\ v5[s].pc = "index" /\ UNCHANGED <<v1, v2, v3, v6>>
      /\ v5' = [v5 EXCEPT ![s] = r]
      /\ v4' = v4 \cup {row0} \/ v4' = v4
  BY DEF Docs!DocsInv, Docs!Shape, Docs!IndexRow
<1>2. /\ r \in Docs!State /\ r.pc = "idle" /\ r.doc = e /\ r.todo = v5[s].todo
      /\ r.found = v5[s].found /\ r.audited = v5[s].audited /\ r.before = v5[s].before
      /\ r.session = v5[s].session /\ r.name = v5[s].name
      /\ r.answer = "done" /\ r.pc \notin Docs!Auditing /\ r.pc \notin Docs!Writing
  BY <1>1 DEF Docs!State, Docs!Writing, Docs!Auditing
<1>. HIDE DEF r
<1>3. v5'[s] = r /\ (\A t \in Server \ {s} : v5'[t] = v5[t]) /\ v5' \in [Server -> Docs!State]
  BY <1>1, <1>2 DEF Docs!Shape
<1>4. /\ Docs!Doc' = Docs!Doc /\ Docs!Files' = Docs!Files
      /\ \A d : (Docs!Kept(d)' <=> Docs!Kept(d)) /\ Docs!MtimeOf(d)' = Docs!MtimeOf(d)
      /\ \A d : Docs!Twinned(d)' <=> Docs!Twinned(d)
      /\ Docs!Untwinned' <=> Docs!Untwinned
  BY <1>1, Untouched
<1>5. e \in Docs!Doc /\ (Docs!Kept(e) \/ Docs!Twinned(e)) /\ v2[e].name \in Docs!Name
  BY <1>1, DocsTyped DEF Docs!Writer, Docs!Writing
<1>6. /\ row0 \in [name : Docs!Name, doc : Docs!Doc] /\ row0.doc = e /\ row0.name = v2[e].name
  BY <1>5
<1>. HIDE DEF e, row0
<1>7. Docs!Shape'
  BY <1>1, <1>3, <1>4, <1>6 DEF Docs!Shape
<1>8. Docs!Named'
  BY <1>1, <1>4, <1>5, <1>6 DEF Docs!Named
<1>9. Docs!Writer(s)'
  BY <1>2, <1>3 DEF Docs!Writer, Docs!Writing
<1>10. Len(v2) <= Len(v2') /\ \A d \in Docs!Doc : v2'[d] = v2[d]
  BY <1>1, DocsTyped
<1>11. /\ \A d \in Docs!Doc : Docs!Kept(d)
            => Docs!Kept(d)' /\ Docs!MtimeOf(d)' = Docs!MtimeOf(d)
       /\ \A d \in Docs!Doc : Docs!Kept(d)' => Docs!Kept(d)
       /\ Docs!Files \subseteq Docs!Files'
  BY <1>4
<1>12. ASSUME NEW t \in Server \ {s} PROVE Docs!Writer(t)' /\ Docs!Reader(t)'
  <2>1. /\ v5'[t] = v5[t] /\ \A x \in Server \ {s} : v5'[x] = v5[x]
        /\ v5'[s].pc \notin Docs!Writing
    BY <1>2, <1>3
  <2>2. ASSUME NEW row \in v4'
        PROVE  row \in v4 \/ (v5[s].pc \in Docs!Writing /\ row.doc = v5[s].doc)
    BY <1>1, <1>6 DEF Docs!Writing, e
  <2>. QED
    BY <1>1, <1>7, <1>10, <1>11, <2>1, <2>2, OthersKeepDocs
<1>13. Docs!Reader(s)'
  <2>1. e \in 0 .. Len(v2')
    BY <1>1 DEF Docs!Reader, e
  <2>. QED
    BY <1>1, <1>2, <1>3, <1>7, <1>10, <1>11, <2>1, ReaderKeeps
<1>. QED
  BY <1>7, <1>8, <1>9, <1>12, <1>13 DEF Docs!DocsInv

(* Every step keeps the invariant.                                         *)
LEMMA DocsStep ==
  ASSUME Docs!DocsInv, Docs!TranscriptsAssumption, [Docs!Next]_(Docs!vars)
  PROVE  Docs!DocsInv'
<1>1. Docs!Shape /\ \A s \in Server : Docs!Writer(s) /\ Docs!Reader(s)
  BY DEF Docs!DocsInv
<1>2. ASSUME NEW s \in Server, NEW session \in Session, NEW kind \in Tool,
             Docs!ToolEnds(s, kind, session)
      PROVE  Docs!DocsInv'
  <2>1. /\ v5[s].pc = "idle" /\ Docs!Begin(s, kind, session, Docs!Idle) /\ kind \in Docs!Kind
    BY <1>2 DEF Docs!ToolEnds, Docs!Kind
  <2>2. Docs!Idle \in Docs!State
    BY <1>1, DocsTyped, IdleServer
  <2>3. v5[s].pc \notin Docs!Writing
    BY <2>1 DEF Docs!Writing
  <2>4. PICK e : e = Len(v2) + 1
    OBVIOUS
  <2>. QED
    BY <2>1, <2>2, <2>3, <2>4, BeginSteps
<1>3. ASSUME NEW s \in Server, Docs!Report(s) PROVE Docs!DocsInv'
  <2>1. v5[s].pc = "judge" /\ Docs!Begin(s, "audit", v5[s].session, v5[s])
          /\ "audit" \in Docs!Kind
    BY <1>3 DEF Docs!Report, Docs!Kind
  <2>2. v5[s] \in Docs!State /\ v5[s].session \in Session /\ v5[s].pc \notin Docs!Writing
    BY <1>1, <2>1 DEF Docs!Shape, Docs!Reader, Docs!Auditing, Docs!Writing
  <2>3. PICK e : e = Len(v2) + 1
    OBVIOUS
  <2>. QED
    BY <2>1, <2>2, <2>3, BeginSteps
<1>4. ASSUME NEW s \in Server, Docs!Open(s) \/ Docs!Write(s) PROVE Docs!DocsInv'
  <2>1. CASE Docs!Open(s)
    <3>1. /\ v5[s].pc = "open" /\ Docs!Put(s, FALSE) /\ UNCHANGED <<v1, v2, v4, v6>>
          /\ v5' = [v5 EXCEPT ![s].pc = "write"]
      BY <2>1 DEF Docs!Open
    <3>2. PICK e : e = v5[s].doc
      OBVIOUS
    <3>. QED
      BY <3>1, <3>2, PutSteps
  <2>2. CASE Docs!Write(s)
    <3>1. /\ v5[s].pc = "write" /\ Docs!Put(s, TRUE) /\ UNCHANGED <<v1, v2, v4, v6>>
          /\ v5' = [v5 EXCEPT ![s].pc = "index"]
      BY <2>2 DEF Docs!Write
    <3>2. PICK e : e = v5[s].doc
      OBVIOUS
    <3>. QED
      BY <3>1, <3>2, PutSteps
  <2>. QED
    BY <1>4, <2>1, <2>2
<1>5. ASSUME UNCHANGED Docs!vars PROVE Docs!DocsInv'
  <2>1. UNCHANGED <<v1, v2, v3, v4, v5, v6>>
    BY <1>5 DEF Docs!vars
  <2>2. /\ Docs!Doc' = Docs!Doc /\ Docs!Files' = Docs!Files
        /\ \A d : (Docs!Kept(d)' <=> Docs!Kept(d)) /\ Docs!MtimeOf(d)' = Docs!MtimeOf(d)
             /\ Docs!Found(d)' = Docs!Found(d)
        /\ \A d : Docs!Twinned(d)' <=> Docs!Twinned(d)
        /\ Docs!Untwinned' <=> Docs!Untwinned
    BY <2>1, Untouched
  <2>3. Docs!Shape' /\ Docs!Named /\ Docs!Named'
    BY <2>1, <2>2 DEF Docs!DocsInv, Docs!Shape, Docs!Named
  <2>4. ASSUME NEW s \in Server PROVE Docs!Writer(s)' /\ Docs!Reader(s)'
    <3>1. Docs!Writer(s)'
      BY <1>1, <2>1, <2>2 DEF Docs!Writer
    <3>2. Len(v2) <= Len(v2') /\ \A d \in Docs!Doc : v2'[d] = v2[d]
      BY <1>1, <2>1, DocsTyped
    <3>3. v5'[s] = v5[s] /\ v5'[s].doc \in 0 .. Len(v2')
      BY <1>1, <2>1 DEF Docs!Reader
    <3>. QED
      BY <1>1, <2>2, <2>3, <3>1, <3>2, <3>3, ReaderKeeps
  <2>. QED
    BY <2>3, <2>4 DEF Docs!DocsInv
<1>. QED
  BY <1>2, <1>3, <1>4, <1>5, AuditSteps, ProbeSteps, ChooseSteps, LoadTextSteps, DieSteps,
     TickSteps, IndexSteps DEF Docs!Next, Docs!Step

(* What the invariant says.                                                *)
LEMMA DocsHold ==
  ASSUME Docs!DocsInv
  PROVE  Docs!TypeOK /\ Docs!OnlyTwinsOverwrite /\ Docs!LatestIsAudited /\ Docs!LoadFindsText
<1>1. Docs!Shape /\ Docs!Named /\ \A s \in Server : Docs!Writer(s) /\ Docs!Reader(s)
  BY DEF Docs!DocsInv
<1>2. Docs!TypeOK
  BY <1>1, DocsTyped DEF Docs!Shape, Docs!Reader, Docs!TypeOK
<1>3. Docs!OnlyTwinsOverwrite
  BY <1>1 DEF Docs!Named, Docs!Kept, Docs!OnlyTwinsOverwrite
<1>4. Docs!Untwinned <=> \A d \in Docs!Doc : ~Docs!Twinned(d)
  BY DEF Docs!Untwinned
<1>5. Docs!LatestIsAudited
  BY <1>1, <1>4 DEF Docs!Reader, Docs!Newest, Docs!LatestIsAudited
<1>6. Docs!LoadFindsText
  BY <1>1, <1>4 DEF Docs!Reader, Docs!LoadFindsText
<1>. QED
  BY <1>2, <1>3, <1>5, <1>6


-----------------------------------------------------------------------------
(***************************************************************************)
(* The directory of answers.                                               *)
(***************************************************************************)
USE DEF Cache!File, Cache!CacheAssumption

(* The operators of the community modules are the same in the instance. *)
LEMMA CacheCounts == ASSUME NEW c PROVE \A S : Cache(c)!Cardinality(S) = Cardinality(S)
  BY DEF Cache!Cardinality, Cardinality

(* An empty directory holds no half-written entry. *)
LEMMA CacheStartsWhole ==
  ASSUME NEW c \in Caches, Cache(c)!CacheAssumption
  PROVE  Cache(c)!Init => Cache(c)!WholeFiles
  <1> SUFFICES ASSUME Cache(c)!Init PROVE Cache(c)!WholeFiles
    OBVIOUS
  <1>1. Cache(c)!Shape
    BY DEF Cache!Init, Cache!Shape, Cache!Contents, Cache!Labels, Cache!Alive
  <1>2. Cache(c)!TemporaryOK /\ Cache(c)!EntriesOK /\ Cache(c)!NoTornRead
    BY DEF Cache!Init, Cache!TemporaryOK, Cache!EntriesOK, Cache!NoTornRead
  <1> QED BY <1>1, <1>2 DEF Cache!WholeFiles

(* A lookup writes no file, and returns what an entry can hold. *)
LEMMA LookupsKeepWhole ==
  ASSUME NEW c \in Caches, Cache(c)!CacheAssumption,
         Cache(c)!WholeFiles, NEW t \in CacheOf[c].thread,
         Cache(c)!BeginGet(t) \/ Cache(c)!Exists(t) \/ Cache(c)!Stat(t) \/ Cache(c)!Read(t)
           \/ Cache(c)!Touch(t)
  PROVE  Cache(c)!WholeFiles'
  <1> USE DEF Cache!WholeFiles, Cache!Shape, Cache!Contents, Cache!Labels, Cache!Alive,
              Cache!TemporaryOK, Cache!EntriesOK,
              Cache!NoTornRead, Cache!Goto, Cache!Return, Cache!Raise
  <1>1. CASE Cache(c)!BeginGet(t)
    BY <1>1 DEF Cache!BeginGet, Cache!Begin
  <1>2. CASE Cache(c)!Exists(t)
    BY <1>2 DEF Cache!Exists
  <1>3. CASE Cache(c)!Stat(t)
    BY <1>3 DEF Cache!Stat
  <1>4. CASE Cache(c)!Read(t)
    BY <1>4 DEF Cache!Read
  <1>5. CASE Cache(c)!Touch(t)
    BY <1>5 DEF Cache!Touch
  <1> QED BY <1>1, <1>2, <1>3, <1>4, <1>5

(* A writer writes its own temporary file, and renames it when complete. *)
LEMMA WritersKeepWhole ==
  ASSUME NEW c \in Caches, Cache(c)!CacheAssumption,
         Cache(c)!WholeFiles, NEW t \in CacheOf[c].thread,
         \/ Cache(c)!BeginPut(t) \/ Cache(c)!Mkstemp(t) \/ Cache(c)!Write(t)
              \/ Cache(c)!WriteFails(t)
         \/ Cache(c)!Replace(t)
  PROVE  Cache(c)!WholeFiles'
  <1> USE DEF Cache!WholeFiles, Cache!Shape, Cache!Contents, Cache!Labels, Cache!Alive,
              Cache!TemporaryOK, Cache!EntriesOK,
              Cache!NoTornRead, Cache!Goto, Cache!Return, Cache!Raise, Cache!Present
  <1>1. CASE Cache(c)!BeginPut(t)
    BY <1>1 DEF Cache!BeginPut, Cache!Begin
  <1>2. CASE Cache(c)!Mkstemp(t)
    BY <1>2 DEF Cache!Mkstemp
  <1>3. CASE Cache(c)!Write(t)
    BY <1>3 DEF Cache!Write, Cache!Text, Cache!Texts
  <1>4. CASE Cache(c)!WriteFails(t)
    BY <1>4 DEF Cache!WriteFails
  <1>5. CASE Cache(c)!Replace(t)
    BY <1>5 DEF Cache!Replace
  <1> QED BY <1>1, <1>2, <1>3, <1>4, <1>5

(* An eviction, or a crash, at most takes files away. *)
LEMMA EvictionsKeepWhole ==
  ASSUME NEW c \in Caches, Cache(c)!CacheAssumption,
         Cache(c)!WholeFiles, NEW t \in CacheOf[c].thread,
         \/ Cache(c)!List(t) \/ Cache(c)!StatAll(t) \/ Cache(c)!Unlink(t)
              \/ Cache(c)!Evicted(t) \/ Cache(c)!Crash(t)
  PROVE  Cache(c)!WholeFiles'
  <1> USE DEF Cache!WholeFiles, Cache!Shape, Cache!Contents, Cache!Labels, Cache!Alive,
              Cache!TemporaryOK, Cache!EntriesOK,
              Cache!NoTornRead, Cache!Goto, Cache!Return, Cache!Raise
  <1>1. CASE Cache(c)!List(t)
    BY <1>1 DEF Cache!List
  <1>2. CASE Cache(c)!StatAll(t)
    <2>1. /\ UNCHANGED <<v1, v4, v7, v8>>
          /\ v3' \in {[v3 EXCEPT ![t] = "unlink"], [v3 EXCEPT ![t] = "idle"]}
          /\ v3[t] = "statall"
      BY <1>2 DEF Cache!StatAll
    <2> QED BY <2>1
  <1>3. CASE Cache(c)!Unlink(t)
    <2>1. PICK f : v1' = [v1 EXCEPT ![f] = Cache(c)!Absent]
      BY <1>3 DEF Cache!Unlink
    <2>2. UNCHANGED <<v3, v4, v7, v8>>
      BY <1>3 DEF Cache!Unlink
    <2>3. /\ v1' \in [Cache(c)!File -> Cache(c)!Contents]
          /\ \A g \in Cache(c)!File : v1'[g] = v1[g] \/ v1'[g] = Cache(c)!Absent
      BY <2>1
    <2>4. Cache(c)!TemporaryOK'
      BY <2>2, <2>3
    <2>5. Cache(c)!EntriesOK'
      <3>1. \A k \in CacheOf[c].key : v1'[k] = v1[k] \/ v1'[k] = Cache(c)!Absent
        BY <2>3
      <3> HIDE DEF Cache!Shape, Cache!Contents, Cache!TemporaryOK, Cache!NoTornRead
      <3> QED BY <3>1
    <2> QED BY <2>2, <2>3, <2>4, <2>5
  <1>4. CASE Cache(c)!Evicted(t)
    BY <1>4 DEF Cache!Evicted
  <1>5. CASE Cache(c)!Crash(t)
    BY <1>5 DEF Cache!Crash
  <1> QED BY <1>1, <1>2, <1>3, <1>4, <1>5

(* Every step keeps the first invariant. *)
LEMMA WholeSteps ==
  ASSUME NEW c \in Caches, Cache(c)!CacheAssumption
  PROVE  Cache(c)!WholeFiles /\ [Cache(c)!Next]_(Cache(c)!vars) => Cache(c)!WholeFiles'
  <1> SUFFICES ASSUME Cache(c)!WholeFiles, [Cache(c)!Next]_(Cache(c)!vars)
               PROVE Cache(c)!WholeFiles'
    OBVIOUS
  <1>1. CASE UNCHANGED Cache(c)!vars
    BY <1>1 DEF Cache!vars, Cache!WholeFiles, Cache!Shape, Cache!TemporaryOK, Cache!EntriesOK,
                Cache!NoTornRead
  <1>2. ASSUME NEW t \in CacheOf[c].thread, Cache(c)!Get(t) \/ Cache(c)!Put(t) \/ Cache(c)!Crash(t)
        PROVE Cache(c)!WholeFiles'
    <2>1. \/ Cache(c)!BeginGet(t) \/ Cache(c)!Exists(t) \/ Cache(c)!Stat(t)
               \/ Cache(c)!Read(t) \/ Cache(c)!Touch(t)
          \/ Cache(c)!BeginPut(t) \/ Cache(c)!Mkstemp(t) \/ Cache(c)!Write(t)
               \/ Cache(c)!WriteFails(t) \/ Cache(c)!Replace(t)
          \/ Cache(c)!List(t) \/ Cache(c)!StatAll(t) \/ Cache(c)!Unlink(t)
               \/ Cache(c)!Evicted(t) \/ Cache(c)!Crash(t)
      BY <1>2 DEF Cache!Get, Cache!Put
    <2>2. CASE Cache(c)!BeginGet(t) \/ Cache(c)!Exists(t) \/ Cache(c)!Stat(t)
                 \/ Cache(c)!Read(t) \/ Cache(c)!Touch(t)
      BY <2>2, LookupsKeepWhole
    <2>3. CASE Cache(c)!BeginPut(t) \/ Cache(c)!Mkstemp(t) \/ Cache(c)!Write(t)
                 \/ Cache(c)!WriteFails(t) \/ Cache(c)!Replace(t)
      BY <2>3, WritersKeepWhole
    <2>4. CASE Cache(c)!List(t) \/ Cache(c)!StatAll(t) \/ Cache(c)!Unlink(t)
                 \/ Cache(c)!Evicted(t) \/ Cache(c)!Crash(t)
      BY <2>4, EvictionsKeepWhole
    <2> QED BY <2>1, <2>2, <2>3, <2>4
  <1>3. UNCHANGED Cache(c)!vars \/ \E t \in CacheOf[c].thread : Cache(c)!Get(t)
          \/ Cache(c)!Put(t) \/ Cache(c)!Crash(t)
    BY DEF Cache!Next, Cache!Stopped, Cache!vars
  <1> QED BY <1>1, <1>2, <1>3

-----------------------------------------------------------------------------
(* The eviction's lists of files. *)

(* The prefixes of s cut down to S, shortest first: what Only recurses on. *)
Prefixes(g, s, S, n) ==
  g = [m \in 0 .. n |->
         IF m = 0 THEN <<>>
         ELSE IF s[m] \in S THEN Append(g[m - 1], s[m]) ELSE g[m - 1]]

(* There is a table of the prefixes of every sequence.                     *)
LEMMA PrefixesExist ==
  ASSUME NEW s, NEW S, NEW k \in Nat
  PROVE  \E g : Prefixes(g, s, S, k)
<1>. DEFINE Bad == {n \in Nat : ~ \E g : Prefixes(g, s, S, n)}
<1>. SUFFICES ASSUME k \in Bad PROVE FALSE
  OBVIOUS
<1>1. PICK n \in Bad : \A m \in Bad : n <= m
  <2>. Bad \in SUBSET Nat /\ Bad # {}
    OBVIOUS
  <2>. HIDE DEF Bad
  <2>. QED
    BY LeastNatural
<1>2. n \in Nat /\ ~ \E g : Prefixes(g, s, S, n)
  BY <1>1
<1>3. n # 0
  <2>1. Prefixes([m \in 0 .. 0 |-> <<>>], s, S, 0)
    BY DEF Prefixes
  <2>. QED
    BY <1>2, <2>1
<1>4. PICK g : Prefixes(g, s, S, n - 1)
  BY <1>1, <1>2, <1>3
<1>. DEFINE h == [m \in 0 .. n |->
                    IF m = n
                    THEN IF s[n] \in S THEN Append(g[n - 1], s[n]) ELSE g[n - 1]
                    ELSE g[m]]
<1>5. Prefixes(h, s, S, n)
  <2>1. ASSUME NEW m \in 0 .. n
        PROVE  h[m] = IF m = 0 THEN <<>>
                      ELSE IF s[m] \in S THEN Append(h[m - 1], s[m]) ELSE h[m - 1]
    <3>1. CASE m = n
      <4>1. h[n - 1] = g[n - 1]
        BY <1>2, <1>3
      <4>. QED
        BY <3>1, <4>1, <1>2, <1>3
    <3>2. CASE m # n
      <4>1. m \in 0 .. (n - 1)
        BY <3>2, <1>2
      <4>2. h[m] = g[m] /\ (m # 0 => h[m - 1] = g[m - 1])
        BY <3>2, <4>1, <1>2
      <4>. QED
        BY <1>4, <4>1, <4>2 DEF Prefixes
    <3>. QED
      BY <3>1, <3>2
  <2>2. h = [m \in 0 .. n |-> h[m]]
    OBVIOUS
  <2>. HIDE DEF h
  <2>. QED
    BY <2>1, <2>2 DEF Prefixes
<1>. QED
  BY <1>2, <1>5

(* A file is appended to a list.                                           *)
LEMMA AppendKeeps ==
  ASSUME NEW c, NEW X, NEW q \in Seq(X), NEW x \in X
  PROVE  /\ Append(q, x) \in Seq(X)
         /\ Cache(c)!Range(Append(q, x)) = Cache(c)!Range(q) \union {x}
         /\ Cache(c)!IsInjective(q) /\ x \notin Cache(c)!Range(q)
              => Cache(c)!IsInjective(Append(q, x))
<1>1. /\ DOMAIN q = 1 .. Len(q)
      /\ Len(q) \in Nat
      /\ DOMAIN Append(q, x) = 1 .. (Len(q) + 1)
      /\ Append(q, x)[Len(q) + 1] = x
      /\ \A i \in 1 .. Len(q) : Append(q, x)[i] = q[i]
  OBVIOUS
<1>2. \A i \in 1 .. (Len(q) + 1) : i = Len(q) + 1 \/ i \in 1 .. Len(q)
  BY <1>1
<1>3. \A i \in 1 .. Len(q) : i \in 1 .. (Len(q) + 1)
  BY <1>1
<1>4. Len(q) + 1 \in 1 .. (Len(q) + 1)
  BY <1>1
<1>5. Cache(c)!Range(Append(q, x)) = Cache(c)!Range(q) \union {x}
  BY <1>1, <1>2, <1>3, <1>4 DEF Cache!Range
<1>6. ASSUME Cache(c)!IsInjective(q), x \notin Cache(c)!Range(q)
      PROVE Cache(c)!IsInjective(Append(q, x))
  BY <1>1, <1>2, <1>6 DEF Cache!IsInjective, Cache!Range
<1>. QED
  BY <1>5, <1>6

(* Only gives a sequence of the files it was asked for, each of them once  *)
(* if it is given each of them once.                                       *)
LEMMA OnlyKeeps ==
  ASSUME NEW c, NEW X, NEW s \in Seq(X), NEW S
  PROVE  /\ Cache(c)!Only(s, S) \in Seq(X)
         /\ Cache(c)!Range(Cache(c)!Only(s, S)) = Cache(c)!Range(s) \cap S
         /\ Cache(c)!IsInjective(s) => Cache(c)!IsInjective(Cache(c)!Only(s, S))
<1>. DEFINE g == CHOOSE g : Prefixes(g, s, S, Len(s))
<1>1. Prefixes(g, s, S, Len(s))
  <2>1. Len(s) \in Nat
    OBVIOUS
  <2>2. \E h : Prefixes(h, s, S, Len(s))
    BY <2>1, PrefixesExist
  <2>. QED
    BY <2>2, Zenon
<1>2. Cache(c)!Only(s, S) = g[Len(s)]
  BY DEF Cache!Only, Prefixes
<1>. HIDE DEF g
<1>. DEFINE Good(n) == /\ g[n] \in Seq(X)
                       /\ \A i \in 1 .. n : s[i] \in S => s[i] \in Cache(c)!Range(g[n])
                       /\ Cache(c)!Range(g[n]) \subseteq {s[i] : i \in 1 .. n} \cap S
                       /\ Cache(c)!IsInjective(s) => Cache(c)!IsInjective(g[n])
            Bad == {n \in 0 .. Len(s) : ~ Good(n)}
<1>3. Good(Len(s))
  <2>. SUFFICES ASSUME Len(s) \in Bad PROVE FALSE
    OBVIOUS
  <2>1. PICK n \in Bad : \A m \in Bad : n <= m
    <3>. HIDE DEF Good
    <3>. Bad \in SUBSET Nat /\ Bad # {}
      OBVIOUS
    <3>. HIDE DEF Bad
    <3>. QED
      BY LeastNatural
  <2>2. n \in 0 .. Len(s) /\ ~ Good(n)
    BY <2>1
  <2>3. Good(0)
    <3>1. g[0] = <<>> /\ <<>> \in Seq(X) /\ DOMAIN <<>> = {}
      BY <1>1 DEF Prefixes
    <3>. QED
      BY <3>1 DEF Cache!Range, Cache!IsInjective
  <2>4. n # 0 /\ Good(n - 1)
    <3>. HIDE DEF Good
    <3>. QED
      BY <2>1, <2>2, <2>3
  <2>5. g[n] = IF s[n] \in S THEN Append(g[n - 1], s[n]) ELSE g[n - 1]
    BY <1>1, <2>2, <2>4 DEF Prefixes
  <2>6. s[n] \in X
    BY <2>2, <2>4
  <2>7. CASE s[n] \in S
    <3>1. g[n] = Append(g[n - 1], s[n])
      BY <2>5, <2>7
    <3>2. g[n] \in Seq(X) /\ Cache(c)!Range(g[n]) = Cache(c)!Range(g[n - 1]) \union {s[n]}
      BY <3>1, <2>4, <2>6, AppendKeeps
    <3>3. \A i \in 1 .. n : i = n \/ i \in 1 .. (n - 1)
      BY <2>2
    <3>4. Cache(c)!Range(g[n]) \subseteq {s[i] : i \in 1 .. n} \cap S
      <4>1. \A i \in 1 .. (n - 1) : i \in 1 .. n
        BY <2>2, <2>4
      <4>2. n \in 1 .. n
        BY <2>2, <2>4
      <4>. QED
        BY <3>2, <2>4, <2>7, <4>1, <4>2
    <3>5. ASSUME Cache(c)!IsInjective(s) PROVE Cache(c)!IsInjective(g[n])
      <4>1. s[n] \notin Cache(c)!Range(g[n - 1])
        <5>1. ASSUME NEW i \in 1 .. (n - 1) PROVE s[i] # s[n]
          <6>1. i \in DOMAIN s /\ n \in DOMAIN s /\ i # n
            BY <2>2, <2>4
          <6>. QED
            BY <3>5, <6>1 DEF Cache!IsInjective
        <5>. QED
          BY <2>4, <5>1
      <4>. QED
        BY <3>1, <3>5, <4>1, <2>4, <2>6, AppendKeeps
    <3>6. \A i \in 1 .. n : s[i] \in S => s[i] \in Cache(c)!Range(g[n])
      BY <3>2, <3>3, <2>4
    <3>. QED
      BY <3>2, <3>4, <3>5, <3>6
  <2>8. CASE s[n] \notin S
    <3>1. \A i \in 1 .. n : i = n \/ i \in 1 .. (n - 1)
      BY <2>2
    <3>2. \A i \in 1 .. (n - 1) : i \in 1 .. n
      BY <2>2
    <3>3. g[n] = g[n - 1]
      BY <2>5, <2>8
    <3>4. {s[i] : i \in 1 .. (n - 1)} \subseteq {s[i] : i \in 1 .. n}
      BY <3>2
    <3>5. \A i \in 1 .. n : s[i] \in S => s[i] \in Cache(c)!Range(g[n])
      BY <3>1, <3>3, <2>4, <2>8
    <3>. QED
      BY <3>3, <3>4, <3>5, <2>4
  <2>. QED
    BY <2>7, <2>8
<1>4. Cache(c)!Range(s) = {s[i] : i \in 1 .. Len(s)}
  BY DEF Cache!Range
<1>5. Cache(c)!Range(g[Len(s)]) = Cache(c)!Range(s) \cap S
  <2>1. \A f \in Cache(c)!Range(s) \cap S : f \in Cache(c)!Range(g[Len(s)])
    BY <1>3, <1>4
  <2>. QED
    BY <1>3, <1>4, <2>1
<1>. QED
  BY <1>2, <1>3, <1>5

(* A sequence holds no more different files than its length.               *)
LEMMA NoMoreThanLen ==
  ASSUME NEW c, NEW X, NEW s \in Seq(X)
  PROVE  IsFiniteSet(Cache(c)!Range(s)) /\ Cardinality(Cache(c)!Range(s)) <= Len(s)
<1>1. DOMAIN s = 1 .. Len(s) /\ Len(s) \in Nat
  OBVIOUS
<1>2. IsFiniteSet(DOMAIN s) /\ Cardinality(DOMAIN s) = Len(s)
  BY <1>1, FS_Interval
<1>3. s \in Surjection(DOMAIN s, Cache(c)!Range(s))
  BY DEF Cache!Range, Surjection
<1>. QED
  BY <1>2, <1>3, FS_Surjection

(* An interval of natural numbers.                                         *)
LEMMA IntervalCounts == ASSUME NEW n \in Nat PROVE Cardinality(1 .. n) = n
  BY FS_Interval

(* A list without repetitions of files that are on another is no longer.   *)
LEMMA NoLongerThan ==
  ASSUME NEW c, NEW X, NEW s \in Seq(X), NEW q \in Seq(X),
         Cache(c)!IsInjective(q), Cache(c)!Range(q) \subseteq Cache(c)!Range(s)
  PROVE  Len(q) <= Len(s)
<1>1. IsFiniteSet(Cache(c)!Range(s)) /\ Cardinality(Cache(c)!Range(s)) <= Len(s)
  BY NoMoreThanLen
<1>2. DOMAIN q = 1 .. Len(q) /\ Len(q) \in Nat /\ Len(s) \in Nat
  OBVIOUS
<1>3. Cardinality(DOMAIN q) = Len(q)
  BY <1>2, IntervalCounts
<1>4. q \in Injection(DOMAIN q, Cache(c)!Range(s))
  <2>1. q \in [DOMAIN q -> Cache(c)!Range(s)]
    <3>1. Cache(c)!Range(q) = {q[i] : i \in DOMAIN q}
      BY DEF Cache!Range
    <3>2. q = [i \in DOMAIN q |-> q[i]]
      BY <1>2
    <3>. QED
      BY <3>1, <3>2
  <2>. QED
    BY <2>1 DEF Injection, IsInjective, Cache!IsInjective
<1>5. Cardinality(DOMAIN q) <= Cardinality(Cache(c)!Range(s))
  BY <1>1, <1>4, FS_Injection
<1>6. Cardinality(Cache(c)!Range(s)) \in Nat
  BY <1>1, FS_CardinalityType
<1>. QED
  BY <1>1, <1>2, <1>3, <1>5, <1>6

-----------------------------------------------------------------------------
(* The caps. *)

(* An empty directory is within any caps. *)
LEMMA CacheStarts ==
  ASSUME NEW c \in Caches, Cache(c)!CacheAssumption
  PROVE  Cache(c)!Init => Cache(c)!CacheInv
<1>1. Cache(c)!Init => Cache(c)!Files = {}
  BY DEF Cache!Init, Cache!Files, Cache!Present
<1>2. Cardinality({}) = 0
  BY FS_EmptySet
<1>3. Cache(c)!Init => Cache(c)!Bounded
  BY <1>1, <1>2, CacheCounts DEF Cache!Bounded
<1>4. Cache(c)!Init => Cache(c)!Ordered /\ Cache(c)!Listed
  <2>1. <<>> \in Seq(Cache(c)!File) /\ 0 \in Nat /\ DOMAIN <<>> = {}
    OBVIOUS
  <2>2. ASSUME Cache(c)!Init PROVE Cache(c)!Ordered
    <3>1. v2 = <<>>
      BY <2>2 DEF Cache!Init
    <3>. QED
      BY <1>1, <2>1, <2>2, <3>1 DEF Cache!Ordered, Cache!IsInjective
  <2>3. ASSUME Cache(c)!Init PROVE Cache(c)!Listed
    <3>1. /\ v5 = [t \in CacheOf[c].thread |-> <<>>]
          /\ v6 = [t \in CacheOf[c].thread |-> 0]
          /\ \A t \in CacheOf[c].thread : v3[t] # "unlink"
      BY <2>3 DEF Cache!Init
    <3>. QED
      BY <2>1, <3>1 DEF Cache!Listed
  <2>. QED
    BY <2>2, <2>3
<1>5. Cache(c)!Init => v9 \in BOOLEAN
  BY DEF Cache!Init
<1>. QED
  BY <1>3, <1>4, <1>5, CacheStartsWhole DEF Cache!CacheInv, Cache!Attended

(* Without gives a list of files that loses one.                           *)
LEMMA WithoutKeeps ==
  ASSUME NEW c \in Caches, Cache(c)!CacheAssumption,
         NEW s \in Seq(Cache(c)!File), NEW f \in Cache(c)!File, Cache(c)!IsInjective(s)
  PROVE  /\ Cache(c)!Without(s, f) \in Seq(Cache(c)!File)
         /\ Cache(c)!Range(Cache(c)!Without(s, f)) = Cache(c)!Range(s) \ {f}
         /\ Cache(c)!IsInjective(Cache(c)!Without(s, f))
<1>. DEFINE w == Cache(c)!Only(s, Cache(c)!File \ {f})
<1>1. w \in Seq(Cache(c)!File)
        /\ Cache(c)!Range(w) = Cache(c)!Range(s) \cap (Cache(c)!File \ {f})
             /\ Cache(c)!IsInjective(w)
  <2>. HIDE DEF Cache!File
  <2>. QED
    BY OnlyKeeps
<1>2. Cache(c)!Range(s) \subseteq Cache(c)!File
  BY DEF Cache!Range
<1>3. Cache(c)!Without(s, f) = w
  BY DEF Cache!Without
<1>. HIDE DEF w
<1>. QED
  BY <1>1, <1>2, <1>3

(* Touched gives a list of files with one added.                           *)
LEMMA TouchedKeeps ==
  ASSUME NEW c \in Caches, Cache(c)!CacheAssumption,
         NEW s \in Seq(Cache(c)!File), NEW f \in Cache(c)!File, Cache(c)!IsInjective(s)
  PROVE  /\ Cache(c)!Touched(s, f) \in Seq(Cache(c)!File)
         /\ Cache(c)!Range(Cache(c)!Touched(s, f)) = Cache(c)!Range(s) \union {f}
         /\ Cache(c)!IsInjective(Cache(c)!Touched(s, f))
<1>1. /\ Cache(c)!Without(s, f) \in Seq(Cache(c)!File)
      /\ Cache(c)!Range(Cache(c)!Without(s, f)) = Cache(c)!Range(s) \ {f}
      /\ Cache(c)!IsInjective(Cache(c)!Without(s, f))
  BY WithoutKeeps
<1>2. Cache(c)!Touched(s, f) = Append(Cache(c)!Without(s, f), f)
  BY DEF Cache!Touched
<1>3. f \notin Cache(c)!Range(Cache(c)!Without(s, f))
  BY <1>1
<1>4. /\ Append(Cache(c)!Without(s, f), f) \in Seq(Cache(c)!File)
      /\ Cache(c)!Range(Append(Cache(c)!Without(s, f), f)) =
           Cache(c)!Range(Cache(c)!Without(s, f)) \union {f}
      /\ Cache(c)!IsInjective(Append(Cache(c)!Without(s, f), f))
  BY <1>1, <1>3, AppendKeeps
<1>. QED
  BY <1>1, <1>2, <1>4

(* Renaming g to f in a list that has no f keeps every other file.         *)
LEMMA RenamedKeeps ==
  ASSUME NEW c \in Caches, Cache(c)!CacheAssumption,
         NEW s \in Seq(Cache(c)!File), NEW f \in Cache(c)!File, NEW g \in Cache(c)!File,
         Cache(c)!IsInjective(s), f \notin Cache(c)!Range(s),
         NEW r, r = [i \in DOMAIN s |-> IF s[i] = g THEN f ELSE s[i]]
  PROVE  /\ r \in Seq(Cache(c)!File)
         /\ Cache(c)!Range(s) \ {g} \subseteq Cache(c)!Range(r)
         /\ g \in Cache(c)!Range(s) => f \in Cache(c)!Range(r)
         /\ Cache(c)!IsInjective(r)
<1>1. DOMAIN s = 1 .. Len(s) /\ Len(s) \in Nat
  OBVIOUS
<1>2. r \in [1 .. Len(s) -> Cache(c)!File]
  BY <1>1
<1>3. r \in Seq(Cache(c)!File)
  BY <1>1, <1>2
<1>4. Cache(c)!IsInjective(r)
  BY <1>1 DEF Cache!IsInjective, Cache!Range
<1>. QED
  BY <1>1, <1>3, <1>4 DEF Cache!Range

(* Every step keeps the order of the files complete.                       *)
LEMMA OrderedSteps ==
  ASSUME NEW c \in Caches, Cache(c)!CacheAssumption,
         Cache(c)!WholeFiles, Cache(c)!Ordered, Cache(c)!Listed, NEW t \in CacheOf[c].thread,
         Cache(c)!Get(t) \/ Cache(c)!Put(t) \/ Cache(c)!Crash(t)
  PROVE  Cache(c)!Ordered'
<1>. USE DEF Cache!Ordered, Cache!Goto, Cache!Return, Cache!Raise
<1>1. /\ v1 \in [Cache(c)!File -> Cache(c)!Contents]
           /\ v3 \in [CacheOf[c].thread -> Cache(c)!Labels]
      /\ v3[t] \in Cache(c)!Alive => v4[t] \in CacheOf[c].key
      /\ t \in Cache(c)!File
  BY DEF Cache!WholeFiles, Cache!Shape
<1>2. CASE UNCHANGED <<v1, v2>>
  <2>1. Cache(c)!Files' = Cache(c)!Files
    BY <1>2 DEF Cache!Files, Cache!Present
  <2>. QED
    BY <1>2, <2>1
<1>3. ASSUME NEW f \in Cache(c)!File, v2' = Cache(c)!Touched(v2, f),
             Cache(c)!Files' \subseteq Cache(c)!Files \union {f}
      PROVE  Cache(c)!Ordered'
  <2>1. /\ Cache(c)!Touched(v2, f) \in Seq(Cache(c)!File)
             /\ Cache(c)!IsInjective(Cache(c)!Touched(v2, f))
        /\ Cache(c)!Range(Cache(c)!Touched(v2, f)) = Cache(c)!Range(v2) \union {f}
    <3>. HIDE DEF Cache!File
    <3>1. v2 \in Seq(Cache(c)!File) /\ Cache(c)!IsInjective(v2)
      OBVIOUS
    <3>. HIDE DEF Cache!Ordered, Cache!CacheAssumption
    <3>. QED
      BY <3>1, TouchedKeeps
  <2>. QED
    BY <1>3, <2>1
<1>4. ASSUME NEW f \in Cache(c)!File, v2' = Cache(c)!Without(v2, f),
             Cache(c)!Files' \subseteq Cache(c)!Files \ {f}
      PROVE  Cache(c)!Ordered'
  <2>1. /\ v2' \in Seq(Cache(c)!File) /\ Cache(c)!IsInjective(v2')
        /\ Cache(c)!Range(v2') = Cache(c)!Range(v2) \ {f}
    BY <1>4, WithoutKeeps
  <2>. QED
    BY <1>4, <2>1
<1>5. CASE Cache(c)!BeginGet(t) \/ Cache(c)!BeginPut(t) \/ Cache(c)!Exists(t)
             \/ Cache(c)!Stat(t) \/ Cache(c)!Read(t) \/ Cache(c)!List(t)
            \/ Cache(c)!StatAll(t) \/ Cache(c)!Evicted(t) \/ Cache(c)!Crash(t)
  BY <1>2, <1>5
  DEF Cache!BeginGet, Cache!BeginPut, Cache!Begin, Cache!Exists, Cache!Stat, Cache!Read,
      Cache!List, Cache!StatAll, Cache!Evicted, Cache!Crash
<1>6. CASE Cache(c)!Touch(t)
  <2>1. v4[t] \in Cache(c)!File
    BY <1>1, <1>6 DEF Cache!Touch, Cache!Alive, Cache!Labels
  <2>2. UNCHANGED v1 /\ (v2' = Cache(c)!Touched(v2, v4[t]) \/ v2' = v2)
    BY <1>6 DEF Cache!Touch
  <2>3. Cache(c)!Files' = Cache(c)!Files
    BY <2>2 DEF Cache!Files, Cache!Present
  <2>. QED
    BY <1>2, <1>3, <2>1, <2>2, <2>3
<1>7. CASE Cache(c)!Mkstemp(t)
  <2>1. Cache(c)!Files' \subseteq Cache(c)!Files \union {t}
    BY <1>1, <1>7 DEF Cache!Mkstemp, Cache!Files, Cache!Present
  <2>. QED
    BY <1>1, <1>3, <1>7, <2>1 DEF Cache!Mkstemp
<1>8. CASE Cache(c)!Write(t)
  <2>1. Cache(c)!Files' \subseteq Cache(c)!Files \union {t}
    BY <1>1, <1>8 DEF Cache!Write, Cache!Files, Cache!Present
  <2>2. v2' = Cache(c)!Touched(v2, t) \/ UNCHANGED <<v1, v2>>
    BY <1>8 DEF Cache!Write
  <2>. QED
    BY <1>1, <1>2, <1>3, <2>1, <2>2
<1>9. CASE Cache(c)!WriteFails(t)
  <2>1. Cache(c)!Files' \subseteq Cache(c)!Files \ {t}
    BY <1>1, <1>9 DEF Cache!WriteFails, Cache!Files, Cache!Present
  <2>. QED
    BY <1>1, <1>4, <1>9, <2>1 DEF Cache!WriteFails
<1>10. CASE Cache(c)!Unlink(t)
  <2>. DEFINE f == Head(v5[t])
  <2>1. v5[t] \in Seq(Cache(c)!File) /\ v5[t] # <<>>
    BY <1>10 DEF Cache!Unlink, Cache!Listed
  <2>2. f \in Cache(c)!File
    BY <2>1
  <2>3. v1' = [v1 EXCEPT ![f] = Cache(c)!Absent] /\ v2' = Cache(c)!Without(v2, f)
    BY <1>10 DEF Cache!Unlink
  <2>. HIDE DEF f
  <2>4. Cache(c)!Files' \subseteq Cache(c)!Files \ {f}
    BY <1>1, <2>2, <2>3 DEF Cache!Files, Cache!Present
  <2>. QED
    BY <1>4, <2>2, <2>3, <2>4
<1>11. CASE Cache(c)!Replace(t)
  <2>1. v4[t] \in CacheOf[c].key /\ v4[t] \in Cache(c)!File /\ v4[t] # t
    BY <1>1, <1>11 DEF Cache!Replace, Cache!Alive, Cache!Labels
  <2>2. CASE Cache(c)!Present(t)
    <3>. DEFINE w == Cache(c)!Without(v2, v4[t])
    <3>1. w \in Seq(Cache(c)!File) /\ Cache(c)!IsInjective(w)
            /\ Cache(c)!Range(w) = Cache(c)!Range(v2) \ {v4[t]}
      <4>. HIDE DEF Cache!File
      <4>. QED
        BY <2>1, WithoutKeeps
    <3>2. v2' = [i \in DOMAIN w |-> IF w[i] = t THEN v4[t] ELSE w[i]]
      BY <1>11, <2>2 DEF Cache!Replace
    <3>3. t \in Cache(c)!Range(w) /\ v4[t] \notin Cache(c)!Range(w)
      BY <1>1, <2>1, <2>2, <3>1 DEF Cache!Files
    <3>. HIDE DEF w
    <3>4. /\ v2' \in Seq(Cache(c)!File) /\ Cache(c)!IsInjective(v2')
          /\ Cache(c)!Range(w) \ {t} \subseteq Cache(c)!Range(v2')
          /\ v4[t] \in Cache(c)!Range(v2')
      BY <1>1, <2>1, <3>1, <3>2, <3>3, RenamedKeeps
    <3>5. Cache(c)!Files' \subseteq (Cache(c)!Files \ {t}) \union {v4[t]}
      BY <1>1, <1>11, <2>1, <2>2 DEF Cache!Replace, Cache!Files, Cache!Present
    <3>. QED
      BY <3>1, <3>4, <3>5
  <2>3. CASE ~ Cache(c)!Present(t)
    BY <1>2, <1>11, <2>3 DEF Cache!Replace
  <2>. QED
    BY <2>2, <2>3
<1>. QED
  BY <1>5, <1>6, <1>7, <1>8, <1>9, <1>10, <1>11 DEF Cache!Get, Cache!Put

(* Every step counts the files on the list of an eviction.                 *)
LEMMA ListedSteps ==
  ASSUME NEW c \in Caches, Cache(c)!CacheAssumption,
         Cache(c)!WholeFiles, Cache(c)!Ordered, Cache(c)!Listed, NEW t \in CacheOf[c].thread,
         Cache(c)!Get(t) \/ Cache(c)!Put(t) \/ Cache(c)!Crash(t)
  PROVE  Cache(c)!Listed'
<1>. USE DEF Cache!Listed, Cache!Goto, Cache!Return, Cache!Raise
<1>1. v3 \in [CacheOf[c].thread -> Cache(c)!Labels]
  BY DEF Cache!WholeFiles, Cache!Shape
<1>2. <<>> \in Seq(Cache(c)!File) /\ Len(<<>>) = 0
  OBVIOUS
<1>3. ASSUME UNCHANGED <<v5, v6>>,
             \A v \in CacheOf[c].thread : v3'[v] = "unlink" => v3[v] = "unlink"
      PROVE  Cache(c)!Listed'
  BY <1>3
<1>4. CASE Cache(c)!BeginGet(t) \/ Cache(c)!BeginPut(t) \/ Cache(c)!Exists(t)
             \/ Cache(c)!Stat(t) \/ Cache(c)!Read(t) \/ Cache(c)!Touch(t)
  <2>1. UNCHANGED <<v5, v6>>
    BY <1>4 DEF Cache!BeginGet, Cache!BeginPut, Cache!Begin, Cache!Exists, Cache!Stat,
                Cache!Read, Cache!Touch
  <2>2. \A v \in CacheOf[c].thread : v3'[v] = "unlink" => v3[v] = "unlink"
    BY <1>1, <1>4 DEF Cache!BeginGet, Cache!BeginPut, Cache!Begin, Cache!Exists, Cache!Stat,
                      Cache!Read, Cache!Touch
  <2>. QED
    BY <1>3, <2>1, <2>2
<1>5. CASE Cache(c)!Mkstemp(t) \/ Cache(c)!Write(t) \/ Cache(c)!WriteFails(t)
             \/ Cache(c)!Replace(t)
  <2>1. UNCHANGED <<v5, v6>>
    BY <1>5 DEF Cache!Mkstemp, Cache!Write, Cache!WriteFails, Cache!Replace
  <2>2. \A v \in CacheOf[c].thread : v3'[v] = "unlink" => v3[v] = "unlink"
    BY <1>1, <1>5 DEF Cache!Mkstemp, Cache!Write, Cache!WriteFails, Cache!Replace
  <2>. QED
    BY <1>3, <2>1, <2>2
<1>6. CASE Cache(c)!List(t)
  <2>1. /\ UNCHANGED v6
        /\ v5' = v5 \/ v5' = [v5 EXCEPT ![t] = v2]
    BY <1>6 DEF Cache!List
  <2>2. v5' \in [CacheOf[c].thread -> Seq(Cache(c)!File)]
    BY <2>1 DEF Cache!Ordered
  <2>3. v3'[t] # "unlink" /\ \A v \in CacheOf[c].thread \ {t} : v3'[v] = v3[v] /\ v5'[v] = v5[v]
    BY <1>1, <1>6, <2>1 DEF Cache!List
  <2>. QED
    BY <2>1, <2>2, <2>3
<1>7. CASE Cache(c)!Evicted(t) \/ Cache(c)!Crash(t)
  <2>1. /\ v5' = [v5 EXCEPT ![t] = <<>>] /\ v6' = [v6 EXCEPT ![t] = 0]
        /\ v3'[t] # "unlink" /\ \A v \in CacheOf[c].thread \ {t} : v3'[v] = v3[v]
    BY <1>1, <1>7 DEF Cache!Evicted, Cache!Crash
  <2>2. v5' \in [CacheOf[c].thread -> Seq(Cache(c)!File)] /\ v6' \in [CacheOf[c].thread -> Nat]
    BY <1>2, <2>1
  <2>. QED
    BY <2>1, <2>2
<1>8. CASE Cache(c)!StatAll(t)
  <2>. DEFINE w == Cache(c)!Only(v2, Cache(c)!Range(v5[t]))
  <2>1. v5[t] \in Seq(Cache(c)!File) /\ Len(v5[t]) \in Nat
    OBVIOUS
  <2>2. /\ w \in Seq(Cache(c)!File) /\ Cache(c)!IsInjective(w)
        /\ Cache(c)!Range(w) \subseteq Cache(c)!Range(v5[t])
    BY OnlyKeeps DEF Cache!Ordered
  <2>3. \/ /\ v5' = [v5 EXCEPT ![t] = w]
           /\ v6' = [v6 EXCEPT ![t] = Len(v5[t])]
        \/ /\ v5' = [v5 EXCEPT ![t] = <<>>]
           /\ UNCHANGED v6
           /\ v3'[t] # "unlink"
    BY <1>1, <1>8 DEF Cache!StatAll
  <2>. HIDE DEF w
  <2>4. Len(w) \in Nat /\ Len(w) <= Len(v5[t])
    <3>1. Len(w) \in Nat
      BY <2>2
    <3>. HIDE DEF Cache!File
    <3>. QED
      BY <2>1, <2>2, <3>1, NoLongerThan
  <2>5. \A v \in CacheOf[c].thread \ {t} : v3'[v] = v3[v]
    BY <1>1, <1>8 DEF Cache!StatAll
  <2>6. v5' \in [CacheOf[c].thread -> Seq(Cache(c)!File)] /\ v6' \in [CacheOf[c].thread -> Nat]
    BY <1>2, <2>1, <2>2, <2>3
  <2>. QED
    BY <2>1, <2>3, <2>4, <2>5, <2>6
<1>9. CASE Cache(c)!Unlink(t)
  <2>1. /\ v5[t] \in Seq(Cache(c)!File) /\ v5[t] # <<>>
        /\ v3[t] = "unlink" /\ UNCHANGED v3
        /\ v5' = [v5 EXCEPT ![t] = Tail(@)]
        /\ v6' = [v6 EXCEPT ![t] = @ - 1] \/ v6' = v6
    BY <1>9 DEF Cache!Unlink
  <2>2. /\ Tail(v5[t]) \in Seq(Cache(c)!File) /\ Len(Tail(v5[t])) = Len(v5[t]) - 1
        /\ Len(v5[t]) \in Nat /\ Len(v5[t]) > 0
    BY <2>1
  <2>3. v6[t] \in Nat /\ Len(v5[t]) <= v6[t]
    BY <2>1
  <2>4. v5' \in [CacheOf[c].thread -> Seq(Cache(c)!File)] /\ v6' \in [CacheOf[c].thread -> Nat]
    BY <2>1, <2>2, <2>3
  <2>5. v5'[t] = Tail(v5[t]) /\ v6'[t] \in {v6[t], v6[t] - 1}
    BY <2>1
  <2>6. \A v \in CacheOf[c].thread \ {t} : v5'[v] = v5[v] /\ v6'[v] = v6[v]
    BY <2>1
  <2>. QED
    BY <2>1, <2>2, <2>3, <2>4, <2>5, <2>6
<1>. QED
  BY <1>4, <1>5, <1>6, <1>7, <1>8, <1>9 DEF Cache!Get, Cache!Put

(* With fewer files a cap that was kept is kept.                           *)
LEMMA FewerFiles ==
  ASSUME NEW c \in Caches, Cache(c)!CacheAssumption,
         Cache(c)!Ordered, Cache(c)!Files' \subseteq Cache(c)!Files
  PROVE  /\ IsFiniteSet(Cache(c)!Files) /\ IsFiniteSet(Cache(c)!Files')
         /\ Cardinality(Cache(c)!Files) \in Nat /\ Cardinality(Cache(c)!Files') \in Nat
         /\ Cardinality(Cache(c)!Files') <= Cardinality(Cache(c)!Files)
         /\ Cache(c)!Bounded => Cache(c)!Bounded'
<1>1. IsFiniteSet(Cache(c)!Range(v2))
  BY NoMoreThanLen DEF Cache!Ordered
<1>2. IsFiniteSet(Cache(c)!Files)
  BY <1>1, FS_Subset DEF Cache!Ordered
<1>3. IsFiniteSet(Cache(c)!Files')
        /\ Cardinality(Cache(c)!Files') <= Cardinality(Cache(c)!Files)
  BY <1>2, FS_Subset
<1>4. Cardinality(Cache(c)!Files) \in Nat /\ Cardinality(Cache(c)!Files') \in Nat
  BY <1>2, <1>3, FS_CardinalityType
<1>. QED
  BY <1>2, <1>3, <1>4, CacheCounts DEF Cache!Bounded, Cache!CacheAssumption

(* A step that adds no file, of a thread nobody was relying on.            *)
LEMMA OthersAttend ==
  ASSUME NEW c \in Caches, Cache(c)!CacheAssumption,
         Cache(c)!Ordered, Cache(c)!Listed, Cache(c)!Attended, NEW t \in CacheOf[c].thread,
         ~ Cache(c)!Writing(t), ~ Cache(c)!Evicting(t),
         Cache(c)!Files' \subseteq Cache(c)!Files,
         \A u \in CacheOf[c].thread \ {t} :
           v3'[u] = v3[u] /\ v5'[u] = v5[u] /\ v6'[u] = v6[u]
  PROVE  Cache(c)!Attended'
<1>1. CASE Cache(c)!Bounded
  BY <1>1, FewerFiles DEF Cache!Attended
<1>2. CASE \E u \in CacheOf[c].thread : Cache(c)!Writing(u) \/ Cache(c)!Evicting(u)
  <2>1. PICK u \in CacheOf[c].thread : Cache(c)!Writing(u) \/ Cache(c)!Evicting(u)
    BY <1>2
  <2>2. u # t
    BY <2>1
  <2>3. Cache(c)!Writing(u) => Cache(c)!Writing(u)'
    BY <2>2 DEF Cache!Writing
  <2>4. ASSUME Cache(c)!Evicting(u) PROVE Cache(c)!Evicting(u)'
    <3>1. v3[u] = "unlink" => Cardinality(Cache(c)!Files) <= v6[u]
      BY <2>4, CacheCounts DEF Cache!Evicting
    <3>2. /\ Cardinality(Cache(c)!Files) \in Nat /\ Cardinality(Cache(c)!Files') \in Nat
          /\ Cardinality(Cache(c)!Files') <= Cardinality(Cache(c)!Files)
      BY FewerFiles
    <3>3. v6[u] \in Nat
      BY DEF Cache!Listed
    <3>4. v3'[u] = "unlink" => Cardinality(Cache(c)!Files') <= v6'[u]
      BY <2>2, <3>1, <3>2, <3>3
    <3>. QED
      BY <2>2, <2>4, <3>4, CacheCounts DEF Cache!Evicting
  <2>. QED
    BY <2>1, <2>3, <2>4 DEF Cache!Attended
<1>. QED
  BY <1>1, <1>2 DEF Cache!Attended

(* An eviction that knows of every file takes the directory under its caps.*)
LEMMA EvictionAttends ==
  ASSUME NEW c \in Caches, Cache(c)!CacheAssumption,
         Cache(c)!WholeFiles, Cache(c)!Ordered, Cache(c)!Listed, Cache(c)!Attended,
         NEW t \in CacheOf[c].thread,
         Cache(c)!StatAll(t) \/ Cache(c)!Unlink(t) \/ Cache(c)!Evicted(t), ~ v9'
  PROVE  Cache(c)!Attended'
<1>1. \A u \in CacheOf[c].thread \ {t} :
        v3'[u] = v3[u] /\ v5'[u] = v5[u] /\ v6'[u] = v6[u]
  BY DEF Cache!WholeFiles, Cache!Shape, Cache!Listed, Cache!StatAll, Cache!Unlink,
         Cache!Evicted, Cache!Goto, Cache!Return, Cache!Raise
<1>2. Cache(c)!Files' \subseteq Cache(c)!Files
  <2>1. \A f : v1'[f] # Cache(c)!Absent => v1[f] # Cache(c)!Absent
    <3>1. CASE Cache(c)!Unlink(t)
      <4>1. PICK g : v1' = [v1 EXCEPT ![g] = Cache(c)!Absent]
        BY <3>1 DEF Cache!Unlink
      <4>. QED
        BY <4>1
    <3>2. CASE Cache(c)!StatAll(t) \/ Cache(c)!Evicted(t)
      BY <3>2 DEF Cache!StatAll, Cache!Evicted
    <3>. QED
      BY <3>1, <3>2
  <2>. QED
    BY <2>1 DEF Cache!Files, Cache!Present
<1>3. ~ Cache(c)!Writing(t)
  BY DEF Cache!Writing, Cache!StatAll, Cache!Unlink, Cache!Evicted
<1>4. CASE ~ Cache(c)!Evicting(t)
  BY <1>1, <1>2, <1>3, <1>4, OthersAttend
<1>5. CASE Cache(c)!Evicting(t)
  <2>1. /\ Cardinality(Cache(c)!Files) \in Nat /\ Cardinality(Cache(c)!Files') \in Nat
        /\ Cardinality(Cache(c)!Files') <= Cardinality(Cache(c)!Files)
        /\ IsFiniteSet(Cache(c)!Files)
    BY <1>2, FewerFiles
  <2>2. v5[t] \in Seq(Cache(c)!File) /\ v6[t] \in Int /\ Len(v5[t]) \in Nat
    BY DEF Cache!Listed
  <2>3. Cardinality(Cache(c)!Files) <= Len(v5[t])
    <3>1. /\ IsFiniteSet(Cache(c)!Range(v5[t]))
          /\ Cardinality(Cache(c)!Range(v5[t])) \in Nat
          /\ Cardinality(Cache(c)!Range(v5[t])) <= Len(v5[t])
      BY <2>2, NoMoreThanLen, FS_CardinalityType
    <3>2. Cardinality(Cache(c)!Files) <= Cardinality(Cache(c)!Range(v5[t]))
      BY <1>5, <3>1, FS_Subset DEF Cache!Evicting
    <3>. QED
      BY <2>1, <2>2, <3>1, <3>2
  <2>4. CASE Cache(c)!StatAll(t)
    <3>1. /\ v5' = [v5 EXCEPT ![t] = Cache(c)!Only(v2, Cache(c)!Range(v5[t]))]
          /\ v6' = [v6 EXCEPT ![t] = Len(v5[t])]
          /\ v3' = [v3 EXCEPT ![t] = "unlink"]
          /\ UNCHANGED v1
      BY <2>4, Zenon DEF Cache!StatAll, Cache!Raise, Cache!Goto
    <3>2. v5'[t] = Cache(c)!Only(v2, Cache(c)!Range(v5[t])) /\ v6'[t] = Len(v5[t])
          /\ v3'[t] = "unlink"
      BY <3>1 DEF Cache!Listed, Cache!WholeFiles, Cache!Shape
    <3>3. Cache(c)!Files' = Cache(c)!Files
      BY <3>1 DEF Cache!Files, Cache!Present
    <3>4. Cache(c)!Range(v2) \cap Cache(c)!Range(v5[t]) \subseteq Cache(c)!Range(v5'[t])
      BY <3>2, OnlyKeeps DEF Cache!Ordered
    <3>5. Cache(c)!Evicting(t)'
      BY <1>5, <2>3, <3>2, <3>3, <3>4, CacheCounts DEF Cache!Evicting, Cache!Ordered
    <3>. QED
      BY <3>5 DEF Cache!Attended
  <2>5. CASE Cache(c)!Unlink(t)
    <3>. DEFINE f == Head(v5[t])
    <3>1. /\ v3[t] = "unlink" /\ v3'[t] = "unlink"
          /\ v5[t] # <<>>
          /\ v5'[t] = Tail(v5[t])
          /\ v6'[t] = IF Cache(c)!Present(f) THEN v6[t] - 1 ELSE v6[t]
          /\ v1' = [v1 EXCEPT ![f] = Cache(c)!Absent]
      BY <2>5 DEF Cache!Unlink, Cache!Listed
    <3>2. f \in Cache(c)!File
      BY <2>2, <3>1
    <3>3. Cache(c)!Files' = Cache(c)!Files \ {f}
      BY <3>1, <3>2 DEF Cache!Files, Cache!Present, Cache!WholeFiles, Cache!Shape
    <3>4. Cache(c)!Range(v5[t]) \ {f} \subseteq Cache(c)!Range(Tail(v5[t]))
      <4>1. /\ DOMAIN v5[t] = 1 .. Len(v5[t])
            /\ DOMAIN Tail(v5[t]) = 1 .. (Len(v5[t]) - 1)
            /\ f = v5[t][1]
            /\ \A i \in 1 .. (Len(v5[t]) - 1) : Tail(v5[t])[i] = v5[t][i + 1]
        BY <2>2, <3>1
      <4>2. ASSUME NEW i \in DOMAIN v5[t], v5[t][i] # f
            PROVE  v5[t][i] \in Cache(c)!Range(Tail(v5[t]))
        <5>1. i # 1 /\ i - 1 \in DOMAIN Tail(v5[t]) /\ (i - 1) + 1 = i
          BY <2>2, <4>1, <4>2
        <5>2. Tail(v5[t])[i - 1] = v5[t][i]
          BY <2>2, <4>1, <5>1
        <5>. QED
          BY <5>1, <5>2 DEF Cache!Range
      <4>. QED
        BY <4>2 DEF Cache!Range
    <3>5. Cache(c)!Present(f) => Cardinality(Cache(c)!Files') = Cardinality(Cache(c)!Files) - 1
      <4>1. Cache(c)!Present(f) => f \in Cache(c)!Files
        BY <3>2 DEF Cache!Files
      <4>. QED
        BY <2>1, <3>3, <4>1, FS_RemoveElement
    <3>6. Cardinality(Cache(c)!Files) <= v6[t]
      BY <1>5, <3>1, CacheCounts DEF Cache!Evicting
    <3>. HIDE DEF f
    <3>7. Cardinality(Cache(c)!Files') <= v6'[t]
      BY <2>1, <2>2, <3>1, <3>5, <3>6
    <3>8. Cache(c)!Evicting(t)'
      BY <1>5, <3>1, <3>3, <3>4, <3>7, CacheCounts DEF Cache!Evicting
    <3>. QED
      BY <3>8 DEF Cache!Attended
  <2>6. CASE Cache(c)!Evicted(t)
    <3>1. Cardinality(Cache(c)!Files) <= v6[t]
      BY <1>5, <2>6, CacheCounts DEF Cache!Evicting, Cache!Evicted
    <3>2. Cache(c)!Bounded
      <4>1. CASE v5[t] = <<>>
        BY <2>1, <2>3, <4>1, CacheCounts DEF Cache!Bounded
      <4>2. CASE ~ Cache(c)!OverCap(Len(v5[t]), v6[t])
        BY <2>1, <2>2, <2>3, <3>1, <4>2, CacheCounts DEF Cache!OverCap, Cache!Bounded
      <4>. QED
        BY <2>6, <4>1, <4>2 DEF Cache!Evicted
    <3>. QED
      BY <1>2, <3>2, FewerFiles DEF Cache!Attended
  <2>. QED
    BY <2>4, <2>5, <2>6
<1>. QED
  BY <1>4, <1>5

(* A write takes its eviction on, and a lookup changes no file.            *)
LEMMA WriteAttends ==
  ASSUME NEW c \in Caches, Cache(c)!CacheAssumption,
         Cache(c)!WholeFiles, Cache(c)!Ordered, Cache(c)!Listed, Cache(c)!Attended,
         NEW t \in CacheOf[c].thread,
         \/ Cache(c)!BeginGet(t) \/ Cache(c)!Exists(t) \/ Cache(c)!Stat(t)
              \/ Cache(c)!Read(t) \/ Cache(c)!Touch(t)
         \/ Cache(c)!BeginPut(t) \/ Cache(c)!Mkstemp(t) \/ Cache(c)!Write(t)
              \/ Cache(c)!Replace(t) \/ Cache(c)!List(t),
         ~ v9'
  PROVE  Cache(c)!Attended'
<1>1. v3 \in [CacheOf[c].thread -> Cache(c)!Labels]
  BY DEF Cache!WholeFiles, Cache!Shape
<1>2. CASE Cache(c)!BeginGet(t) \/ Cache(c)!Exists(t) \/ Cache(c)!Stat(t)
             \/ Cache(c)!Read(t) \/ Cache(c)!Touch(t)
  <2>1. \A u \in CacheOf[c].thread \ {t} :
          v3'[u] = v3[u] /\ v5'[u] = v5[u] /\ v6'[u] = v6[u]
    BY <1>1, <1>2
    DEF Cache!BeginGet, Cache!Begin, Cache!Exists, Cache!Stat, Cache!Read, Cache!Touch,
        Cache!Goto, Cache!Return, Cache!Raise
  <2>2. ~ Cache(c)!Writing(t) /\ ~ Cache(c)!Evicting(t)
    BY <1>2 DEF Cache!BeginGet, Cache!Begin, Cache!Exists, Cache!Stat, Cache!Read,
                Cache!Touch, Cache!Writing, Cache!Evicting
  <2>3. UNCHANGED v1
    BY <1>2 DEF Cache!BeginGet, Cache!Begin, Cache!Exists, Cache!Stat, Cache!Read, Cache!Touch
  <2>4. Cache(c)!Files' = Cache(c)!Files
    BY <2>3 DEF Cache!Files, Cache!Present
  <2>. QED
    BY <2>1, <2>2, <2>4, OthersAttend
<1>3. CASE Cache(c)!BeginPut(t) \/ Cache(c)!Mkstemp(t) \/ Cache(c)!Write(t)
             \/ Cache(c)!Replace(t)
  <2>1. Cache(c)!Writing(t)'
    BY <1>1, <1>3
    DEF Cache!BeginPut, Cache!Begin, Cache!Mkstemp, Cache!Write, Cache!Replace, Cache!Goto,
        Cache!Raise, Cache!Writing
  <2>. QED
    BY <2>1 DEF Cache!Attended
<1>4. CASE Cache(c)!List(t)
  <2>1. UNCHANGED <<v1, v2>>
    BY <1>4 DEF Cache!List
  <2>2. Cache(c)!Files' = Cache(c)!Files
    BY <2>1 DEF Cache!Files, Cache!Present
  <2>3. CASE Cache(c)!Unbounded
    BY <2>3 DEF Cache!Unbounded, Cache!Attended, Cache!Bounded
  <2>4. CASE ~ Cache(c)!Unbounded
    <3>1. v3'[t] = "statall" /\ v5'[t] = v2
      BY <1>1, <1>4, <2>4 DEF Cache!List, Cache!Goto, Cache!Listed
    <3>2. Cache(c)!Evicting(t)'
      BY <2>2, <3>1 DEF Cache!Evicting, Cache!Ordered
    <3>. QED
      BY <3>2 DEF Cache!Attended
  <2>. QED
    BY <2>3, <2>4
<1>. QED
  BY <1>2, <1>3, <1>4

(* Every step leaves the directory within its caps or somebody to see to it.*)
LEMMA CacheSteps ==
  ASSUME NEW c \in Caches, Cache(c)!CacheAssumption
  PROVE  Cache(c)!CacheInv /\ [Cache(c)!Next]_(Cache(c)!vars) => Cache(c)!CacheInv'
<1>. SUFFICES ASSUME Cache(c)!CacheInv, [Cache(c)!Next]_(Cache(c)!vars) PROVE Cache(c)!CacheInv'
  OBVIOUS
<1>1. Cache(c)!WholeFiles'
  BY WholeSteps DEF Cache!CacheInv
<1>2. CASE UNCHANGED Cache(c)!vars
  <2>1. Cache(c)!Files' = Cache(c)!Files
    BY <1>2 DEF Cache!vars, Cache!Files, Cache!Present
  <2>2. Cache(c)!Ordered' /\ Cache(c)!Listed'
    BY <1>2, <2>1 DEF Cache!vars, Cache!Ordered, Cache!Listed, Cache!CacheInv
  <2>3. Cache(c)!Attended' = Cache(c)!Attended
    BY <1>2, <2>1 DEF Cache!vars, Cache!Attended, Cache!Bounded, Cache!Writing, Cache!Evicting
  <2>. QED
    BY <1>1, <1>2, <2>2, <2>3 DEF Cache!CacheInv, Cache!vars
<1>3. CASE \E t \in CacheOf[c].thread : Cache(c)!Get(t) \/ Cache(c)!Put(t) \/ Cache(c)!Crash(t)
  <2>1. PICK t \in CacheOf[c].thread : Cache(c)!Get(t) \/ Cache(c)!Put(t) \/ Cache(c)!Crash(t)
    BY <1>3
  <2>2. Cache(c)!Ordered' /\ Cache(c)!Listed'
    BY <2>1, OrderedSteps, ListedSteps DEF Cache!CacheInv
  <2>3. ASSUME ~ v9' PROVE Cache(c)!Attended'
    <3>1. ~ Cache(c)!WriteFails(t) /\ ~ Cache(c)!Crash(t)
      BY <2>3 DEF Cache!WriteFails, Cache!Crash, Cache!Raise
    <3>2. ~ v9
      BY <2>1, <2>3, <3>1
      DEF Cache!Get, Cache!Put, Cache!BeginGet, Cache!BeginPut, Cache!Begin, Cache!Exists,
          Cache!Stat, Cache!Read, Cache!Touch,
          Cache!Mkstemp, Cache!Write, Cache!Replace, Cache!List, Cache!StatAll, Cache!Unlink,
          Cache!Evicted, Cache!Return,
          Cache!Raise, Cache!CacheInv, Cache!WholeFiles, Cache!Shape
    <3>. QED
      BY <2>1, <2>3, <3>1, <3>2, EvictionAttends, WriteAttends
      DEF Cache!Get, Cache!Put, Cache!CacheInv
  <2>4. v9' \in BOOLEAN
    BY <2>1
    DEF Cache!Get, Cache!Put, Cache!BeginGet, Cache!BeginPut, Cache!Begin, Cache!Exists,
        Cache!Stat, Cache!Read, Cache!Touch,
        Cache!Mkstemp, Cache!Write, Cache!WriteFails, Cache!Replace, Cache!List,
        Cache!StatAll, Cache!Unlink, Cache!Evicted,
        Cache!Crash, Cache!Return, Cache!Raise, Cache!CacheInv
  <2>. QED
    BY <1>1, <2>2, <2>3, <2>4 DEF Cache!CacheInv
<1>4. UNCHANGED Cache(c)!vars \/ \E t \in CacheOf[c].thread : Cache(c)!Get(t)
        \/ Cache(c)!Put(t) \/ Cache(c)!Crash(t)
  BY DEF Cache!Next, Cache!Stopped, Cache!vars
<1>. QED
  BY <1>2, <1>3, <1>4

(* The invariant has the properties.                                       *)
LEMMA CacheHolds ==
  ASSUME NEW c \in Caches, Cache(c)!CacheAssumption, Cache(c)!CacheInv
  PROVE  Cache(c)!TypeOK /\ Cache(c)!NoTornRead /\ Cache(c)!BoundedAtRest /\ Cache(c)!NoLitter
<1>1. Cache(c)!TypeOK
  BY DEF Cache!CacheInv, Cache!WholeFiles, Cache!Shape, Cache!Ordered, Cache!Listed,
         Cache!TypeOK
<1>2. Cache(c)!NoLitter
  BY DEF Cache!CacheInv, Cache!WholeFiles, Cache!Shape, Cache!TemporaryOK, Cache!NoLitter,
         Cache!Present
<1>3. Cache(c)!BoundedAtRest
  BY DEF Cache!CacheInv, Cache!Attended, Cache!Writing, Cache!Evicting, Cache!BoundedAtRest,
         Cache!AtRest, Cache!Bounded
<1>. QED
  BY <1>1, <1>2, <1>3 DEF Cache!CacheInv, Cache!WholeFiles

HIDE DEF Cache!File, Cache!CacheAssumption


-----------------------------------------------------------------------------
(***************************************************************************)
(* All of them.                                                            *)
(***************************************************************************)

(* What is shared keeps the invariant of its component.                    *)
FilesInv ==
  /\ place = "environment" => Environment!RetargetInv
  /\ \A u \in Pins : Pinning(u) => Pin(u)!PinInv
  /\ place = "transcripts" => Docs!DocsInv
  /\ \A u \in Caches : Caching(u) => Cache(u)!CacheInv

(* It begins with it.                                                      *)
LEMMA FilesStart == Init => FilesInv
<1>. SUFFICES ASSUME Init PROVE FilesInv
  OBVIOUS
<1>1. place = "environment" => Environment!RetargetInv
  BY ConstantsFit, RetargetStarts DEF Init
<1>2. ASSUME NEW u \in Pins, Pinning(u) PROVE Pin(u)!PinInv
  <2>1. Pin(u)!Init /\ Pin(u)!PinAssumption
    BY <1>2, ConstantsFit DEF Init, Pinning
  <2>. QED
    BY <2>1, PinStarts
<1>3. place = "transcripts" => Docs!DocsInv
  BY ConstantsFit, DocsStart DEF Init
<1>4. ASSUME NEW u \in Caches, Caching(u) PROVE Cache(u)!CacheInv
  <2>1. Cache(u)!Init /\ Cache(u)!CacheAssumption
    BY <1>4, ConstantsFit DEF Init, Caching
  <2>. QED
    BY <2>1, CacheStarts
<1>. QED
  BY <1>1, <1>2, <1>3, <1>4 DEF FilesInv

(* A step of the whole is one of what is shared, or none.                  *)
LEMMA FilesSteps == FilesInv /\ [Next]_vars => FilesInv'
<1>. SUFFICES ASSUME FilesInv, [Next]_vars PROVE FilesInv'
  OBVIOUS
<1>1. place' = place /\ use' = use
  BY DEF Next, vars
<1>2. ASSUME place = "environment" PROVE Environment!RetargetInv'
  <2>1. [Environment!Next]_(Environment!vars)
    BY <1>2 DEF Next, vars, Environment!vars, Environment!locals
  <2>. QED
    BY <1>2, <2>1, ConstantsFit, RetargetSteps DEF FilesInv
<1>3. ASSUME NEW u \in Pins, Pinning(u) PROVE Pin(u)!PinInv'
  <2>1. [Pin(u)!Next]_(Pin(u)!vars)
    BY <1>3 DEF Next, vars, Pinning, Pin!vars
  <2>. QED
    BY <1>3, <2>1, ConstantsFit, PinSteps DEF FilesInv
<1>4. ASSUME place = "transcripts" PROVE Docs!DocsInv'
  <2>1. [Docs!Next]_(Docs!vars)
    BY <1>4 DEF Next, vars, Docs!vars
  <2>. QED
    BY <1>4, <2>1, ConstantsFit, DocsStep DEF FilesInv
<1>5. ASSUME NEW u \in Caches, Caching(u) PROVE Cache(u)!CacheInv'
  <2>1. [Cache(u)!Next]_(Cache(u)!vars)
    BY <1>5 DEF Next, vars, Caching, Cache!vars
  <2>. QED
    BY <1>5, <2>1, ConstantsFit, CacheSteps DEF FilesInv
<1>. QED
  BY <1>1, <1>2, <1>3, <1>4, <1>5 DEF FilesInv, Pinning, Caching

(* The inductive invariant of what is shared.                              *)
THEOREM Invariance == Spec => []FilesInv
<1>. QED
  BY FilesStart, FilesSteps, PTL DEF Spec

(* The variables always have their types.                                  *)
THEOREM TypeCorrect == Spec => []TypeOK
<1>1. FilesInv => TypeOK
  <2>. SUFFICES ASSUME FilesInv PROVE TypeOK
    OBVIOUS
  <2>1. place = "environment" => Environment!TypeOK
    BY DEF FilesInv, Environment!RetargetInv
  <2>2. ASSUME NEW u \in Pins, Pinning(u) PROVE Pin(u)!TypeOK
    BY <2>2, ConstantsFit, PinHolds DEF FilesInv
  <2>3. place = "transcripts" => Docs!TypeOK
    BY DocsHold DEF FilesInv
  <2>4. ASSUME NEW u \in Caches, Caching(u) PROVE Cache(u)!TypeOK
    BY <2>4, ConstantsFit, CacheHolds DEF FilesInv
  <2>. QED
    BY <2>1, <2>2, <2>3, <2>4 DEF TypeOK
<1>. QED
  BY <1>1, Invariance, PTL

(* A thread that nobody overlapped built its provider with the model it    *)
(* was asked for.                                                          *)
THEOREM RetargetIsExact == Spec => []ExactUnlessOverlapped
<1>1. FilesInv => ExactUnlessOverlapped
  BY RetargetHolds DEF FilesInv, ExactUnlessOverlapped
<1>. QED
  BY <1>1, Invariance, PTL

(* Drift that lasts as long as a call is seen by it, what is reported had  *)
(* drifted, and pinning settles what nobody changes meanwhile.             *)
THEOREM DriftSeen == Spec => []DriftIsSeen
<1>1. FilesInv => DriftIsSeen
  BY ConstantsFit, PinHolds DEF FilesInv, DriftIsSeen
<1>. QED
  BY <1>1, Invariance, PTL

(* An audit takes the latest transcript of its session, and a row of the   *)
(* index finds the transcript it was made from, but for twins.             *)
THEOREM LatestAudited == Spec => []LatestIsAudited
<1>1. FilesInv => LatestIsAudited
  BY DocsHold DEF FilesInv, LatestIsAudited
<1>. QED
  BY <1>1, Invariance, PTL

(* A lookup never returns half an answer.                                  *)
THEOREM ReadsAreWhole == Spec => []NoTornRead
<1>1. FilesInv => NoTornRead
  BY ConstantsFit, CacheHolds DEF FilesInv, NoTornRead
<1>. QED
  BY <1>1, Invariance, PTL

(* At rest the directory is within its caps.                               *)
THEOREM BoundsHold == Spec => []BoundedAtRest
<1>1. FilesInv => BoundedAtRest
  BY ConstantsFit, CacheHolds DEF FilesInv, BoundedAtRest
<1>. QED
  BY <1>1, Invariance, PTL

(* No temporary file outlives its put.                                     *)
THEOREM NothingLeftBehind == Spec => []NoLitter
<1>1. FilesInv => NoLitter
  BY ConstantsFit, CacheHolds DEF FilesInv, NoLitter
<1>. QED
  BY <1>1, Invariance, PTL
=============================================================================
