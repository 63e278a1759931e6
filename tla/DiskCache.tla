----------------------------- MODULE DiskCache -----------------------------
(***************************************************************************)
(* The on-disk response caches of src/servers/python/crosscheck_server.py: *)
(* the message cache (_cache_get, _cache_put, _cache_evict_if_needed) and  *)
(* the DAG-node cache (_node_cache_get, _node_cache_put), which have the   *)
(* same shape, and _atomic_write_json under both. Their users are the pool *)
(* threads of one server and the threads of every other server started in  *)
(* the same checkout: they share the directory and no lock.                *)
(*                                                                         *)
(* One step is one file-system call. A file is a key's entry or a thread's *)
(* temporary file, which `rglob("*.json")` finds too. Contents are a text, *)
(* here its key and its writer, or half of one. Every file has size 1. The *)
(* stat of every listed file is one step. A crash is for ever: the threads *)
(* of a restarted server have temporary files of their own.                *)
(***************************************************************************)
EXTENDS Naturals, Sequences, FiniteSets, Functions

CONSTANTS
  Thread,        (* the threads that use the cache, of any process *)
  Key,           (* the cache keys *)
  MaxEntries,    (* max_entries, 0 disables it *)
  MaxBytes,      (* max_cache_bytes, 0 disables it; the message cache has 0 *)
  MaxOps         (* bound: operations per thread *)

CacheAssumption ==
  /\ Thread \cap Key = {}
  /\ MaxEntries \in Nat
  /\ MaxBytes \in Nat
  /\ MaxOps \in Nat

VARIABLES
  data,          (* the contents of every file *)
  mtime,         (* the files there are, the oldest mtime first *)
  pc,            (* where each thread is in its operation *)
  key,           (* the key of that operation *)
  rest,          (* its eviction's sorted entries, not yet popped *)
  bytes,         (* its eviction's total_bytes *)
  got,           (* what the last lookup returned, Absent for None *)
  ops,           (* operations started, at most MaxOps *)
  mishap         (* history: some thread crashed or some operation raised *)

vars == <<data, mtime, pc, key, rest, bytes, got, ops, mishap>>

File == Key \cup Thread       \* a thread names its temporary file

(* What a file may hold. No file is the empty tuple. *)
Absent == <<>>
Half == <<"half">>
Text(k, t) == <<k, t>>
Texts == Key \X Thread

Present(f) == data[f] # Absent

(* The files of s that are in S, in order: SelectSeq for a set.            *)
Only(s, S) ==
  LET upTo[n \in 0 .. Len(s)] ==
        IF n = 0 THEN <<>>
        ELSE IF s[n] \in S THEN Append(upTo[n - 1], s[n]) ELSE upTo[n - 1]
  IN  upTo[Len(s)]

Without(s, f) == Only(s, File \ {f})

(* os.utime, and every write: f becomes the newest file. *)
Touched(s, f) == Append(Without(s, f), f)

Goto(t, label) == pc' = [pc EXCEPT ![t] = label]

(* The operation returns, or an exception leaves it. *)
Return(t) == Goto(t, "idle") /\ UNCHANGED mishap
Raise(t) == Goto(t, "idle") /\ mishap' = TRUE

-----------------------------------------------------------------------------

Init ==
  /\ data = [f \in File |-> Absent]
  /\ mtime = <<>>
  /\ pc = [t \in Thread |-> "idle"]
  /\ key = [t \in Thread |-> "none"]
  /\ rest = [t \in Thread |-> <<>>]
  /\ bytes = [t \in Thread |-> 0]
  /\ got = [t \in Thread |-> Absent]
  /\ ops = [t \in Thread |-> 0]
  /\ mishap = FALSE

Begin(t, label) ==
  /\ pc[t] = "idle"
  /\ ops[t] < MaxOps
  /\ ops' = [ops EXCEPT ![t] = @ + 1]
  /\ \E k \in Key : key' = [key EXCEPT ![t] = k]
  /\ got' = [got EXCEPT ![t] = Absent]
  /\ Goto(t, label)
  /\ UNCHANGED <<data, mtime, rest, bytes, mishap>>

BeginGet(t) == Begin(t, "exists")
BeginPut(t) == Begin(t, "mkstemp")

-----------------------------------------------------------------------------
(* Lookup: p.exists(), then p.stat() outside the try, then the read and    *)
(* the touch inside it.                                                    *)

Exists(t) ==
  /\ pc[t] = "exists"
  /\ IF Present(key[t]) THEN Goto(t, "stat") ELSE Goto(t, "idle")
  /\ UNCHANGED <<data, mtime, key, rest, bytes, got, ops, mishap>>

(* The entry may be past its ttl_seconds; if it is gone, stat raises. *)
Stat(t) ==
  /\ pc[t] = "stat"
  /\ IF Present(key[t])
     THEN (Goto(t, "read") \/ Goto(t, "idle")) /\ UNCHANGED mishap
     ELSE Raise(t)
  /\ UNCHANGED <<data, mtime, key, rest, bytes, got, ops>>

Read(t) ==
  /\ pc[t] = "read"
  /\ got' = [got EXCEPT ![t] = data[key[t]]]
  /\ IF Present(key[t]) THEN Goto(t, "touch") ELSE Goto(t, "idle")
  /\ UNCHANGED <<data, mtime, key, rest, bytes, ops, mishap>>

(* os.utime on an entry that is gone turns the hit into a miss. *)
Touch(t) ==
  /\ pc[t] = "touch"
  /\ IF Present(key[t])
     THEN mtime' = Touched(mtime, key[t]) /\ UNCHANGED got
     ELSE got' = [got EXCEPT ![t] = Absent] /\ UNCHANGED mtime
  /\ Return(t)
  /\ UNCHANGED <<data, key, rest, bytes, ops>>

-----------------------------------------------------------------------------
(* _atomic_write_json: a temporary file, then os.replace                   *)

(* Mutant: the entry is opened for writing in place. *)
MkstempInPlace(t) ==
  /\ pc[t] = "mkstemp"
  /\ data' = [data EXCEPT ![t] = Half, ![key[t]] = Half]
  /\ mtime' = Touched(Touched(mtime, t), key[t])
  /\ Goto(t, "write")
  /\ UNCHANGED <<key, rest, bytes, got, ops, mishap>>

Mkstemp(t) ==
  /\ pc[t] = "mkstemp"
  /\ data' = [data EXCEPT ![t] = Half]
  /\ mtime' = Touched(mtime, t)
  /\ Goto(t, "write")
  /\ UNCHANGED <<key, rest, bytes, got, ops, mishap>>

(* Writing goes to the open file, whether or not its name is still there. *)
Write(t) ==
  /\ pc[t] = "write"
  /\ IF Present(t)
     THEN /\ data' = [data EXCEPT ![t] = Text(key[t], t)]
          /\ mtime' = Touched(mtime, t)
     ELSE UNCHANGED <<data, mtime>>
  /\ Goto(t, "replace")
  /\ UNCHANGED <<key, rest, bytes, got, ops, mishap>>

(* Mutant: a failed write leaves its temporary file behind. *)
WriteFailsLittering(t) ==
  /\ pc[t] = "write"
  /\ Raise(t)
  /\ UNCHANGED <<data, mtime, key, rest, bytes, got, ops>>

(* The disk is full: the temporary file is unlinked and the error raised. *)
WriteFails(t) ==
  /\ pc[t] = "write"
  /\ data' = [data EXCEPT ![t] = Absent]
  /\ mtime' = Without(mtime, t)
  /\ Raise(t)
  /\ UNCHANGED <<key, rest, bytes, got, ops>>

(* os.replace raises if another thread's eviction took the temporary file. *)
Replace(t) ==
  /\ pc[t] = "replace"
  /\ IF Present(t)
     THEN /\ data' = [data EXCEPT ![key[t]] = data[t], ![t] = Absent]
          /\ mtime' = [i \in DOMAIN Without(mtime, key[t]) |->
                         IF Without(mtime, key[t])[i] = t THEN key[t]
                         ELSE Without(mtime, key[t])[i]]
          /\ Goto(t, "list")
          /\ UNCHANGED mishap
     ELSE Raise(t) /\ UNCHANGED <<data, mtime>>
  /\ UNCHANGED <<key, rest, bytes, got, ops>>

-----------------------------------------------------------------------------
(* Eviction after the write: rglob, a stat of each file it found, then one *)
(* unlink per excess entry, the oldest first.                              *)

Unbounded == MaxEntries = 0 /\ MaxBytes = 0

List(t) ==
  /\ pc[t] = "list"
  /\ IF Unbounded
     THEN Goto(t, "idle") /\ UNCHANGED rest
     ELSE Goto(t, "statall") /\ rest' = [rest EXCEPT ![t] = mtime]
  /\ UNCHANGED <<data, mtime, key, bytes, got, ops, mishap>>

(* A file that went since it was listed makes stat raise: no eviction. *)
StatAll(t) ==
  /\ pc[t] = "statall"
  /\ IF \A i \in DOMAIN rest[t] : Present(rest[t][i])
     THEN /\ rest' = [rest EXCEPT ![t] = Only(mtime, Range(rest[t]))]
          /\ bytes' = [bytes EXCEPT ![t] = Len(rest[t])]
          /\ Goto(t, "unlink")
          /\ UNCHANGED mishap
     ELSE Raise(t) /\ rest' = [rest EXCEPT ![t] = <<>>] /\ UNCHANGED bytes
  /\ UNCHANGED <<data, mtime, key, got, ops>>

(* Mutant: an off-by-one in both caps. *)
OverCapLate(n, size) ==
  \/ MaxEntries > 0 /\ n > MaxEntries + 1
  \/ MaxBytes > 0 /\ size > MaxBytes + 1

OverCap(n, size) ==
  \/ MaxEntries > 0 /\ n > MaxEntries
  \/ MaxBytes > 0 /\ size > MaxBytes

(* A file that is already gone is popped, and its size not subtracted. *)
Unlink(t) ==
  /\ pc[t] = "unlink"
  /\ rest[t] # <<>> /\ OverCap(Len(rest[t]), bytes[t])
  /\ LET f == Head(rest[t])
     IN /\ data' = [data EXCEPT ![f] = Absent]
        /\ mtime' = Without(mtime, f)
        /\ bytes' = [bytes EXCEPT ![t] = IF Present(f) THEN @ - 1 ELSE @]
        /\ rest' = [rest EXCEPT ![t] = Tail(@)]
  /\ UNCHANGED <<pc, key, got, ops, mishap>>

Evicted(t) ==
  /\ pc[t] = "unlink"
  /\ rest[t] = <<>> \/ ~OverCap(Len(rest[t]), bytes[t])
  /\ rest' = [rest EXCEPT ![t] = <<>>]
  /\ bytes' = [bytes EXCEPT ![t] = 0]
  /\ Return(t)
  /\ UNCHANGED <<data, mtime, key, got, ops>>

(* The process dies between two calls; what it wrote stays. *)
Crash(t) ==
  /\ pc[t] \notin {"idle", "dead"}
  /\ pc' = [pc EXCEPT ![t] = "dead"]
  /\ mishap' = TRUE
  /\ rest' = [rest EXCEPT ![t] = <<>>]
  /\ bytes' = [bytes EXCEPT ![t] = 0]
  /\ UNCHANGED <<data, mtime, key, got, ops>>

-----------------------------------------------------------------------------

Get(t) == BeginGet(t) \/ Exists(t) \/ Stat(t) \/ Read(t) \/ Touch(t)

Put(t) ==
  \/ BeginPut(t) \/ Mkstemp(t) \/ Write(t) \/ WriteFails(t) \/ Replace(t)
  \/ List(t) \/ StatAll(t) \/ Unlink(t) \/ Evicted(t)

(* Every thread has used up its operations or is dead. *)
Stopped ==
  /\ \A t \in Thread : pc[t] = "dead" \/ (pc[t] = "idle" /\ ops[t] = MaxOps)
  /\ UNCHANGED vars

Next == (\E t \in Thread : Get(t) \/ Put(t) \/ Crash(t)) \/ Stopped

Spec == Init /\ [][Next]_vars

-----------------------------------------------------------------------------

Labels == {"idle", "dead", "exists", "stat", "read", "touch", "mkstemp",
           "write", "replace", "list", "statall", "unlink"}

Contents == {Absent, Half} \cup Texts

(* The variables have their types. *)
TypeOK ==
  /\ data \in [File -> Contents]
  /\ mtime \in Seq(File)
  /\ pc \in [Thread -> Labels]
  /\ key \in [Thread -> Key \cup {"none"}]
  /\ rest \in [Thread -> Seq(File)]
  /\ bytes \in [Thread -> Nat]
  /\ got \in [Thread -> Contents]
  /\ ops \in [Thread -> 0 .. MaxOps]
  /\ mishap \in BOOLEAN

(* However writers, readers, evictions and crashes interleave, a lookup    *)
(* returns a complete text, and one that was written for its own key: the  *)
(* promise of the comment on _atomic_write_json.                           *)
NoTornRead ==
  \A t \in Thread :
    got[t] \in {Absent} \cup {Text(key[t], u) : u \in Thread}

AtRest == \A t \in Thread : pc[t] \in {"idle", "dead"}

Files == {f \in File : Present(f)}

(* Once every put has returned without a crash or an exception, the        *)
(* directory is within both caps, although each eviction worked from its   *)
(* own listing and others wrote, touched and unlinked meanwhile.           *)
BoundedAtRest ==
  AtRest /\ ~mishap =>
    /\ MaxEntries > 0 => Cardinality(Files) <= MaxEntries
    /\ MaxBytes > 0 => Cardinality(Files) <= MaxBytes

(* A put that returned, or raised, left no temporary file: whatever made   *)
(* it fail, and whoever evicted meanwhile (_atomic_write_json's except).   *)
NoLitter == \A t \in Thread : pc[t] = "idle" => ~Present(t)

-----------------------------------------------------------------------------
(* The inductive invariant. While nothing has gone wrong, the directory is *)
(* within its caps, or a thread is still to list it, or an eviction is     *)
(* under way whose list has every file there is: a file that is not on the *)
(* list belongs to a writer that will list it later.                       *)

Alive == Labels \ {"idle", "dead"}

(* What a thread's temporary file can hold, by where the thread is. *)
TemporaryOK ==
  \A t \in Thread :
    /\ pc[t] = "replace" => data[t] \in {Absent, Text(key[t], t)}
    /\ pc[t] \notin {"write", "replace", "dead"} => data[t] = Absent

(* What an entry can hold. *)
EntriesOK == \A k \in Key : data[k] \in {Absent} \cup {Text(k, u) : u \in Thread}

Shape ==
  /\ data \in [File -> Contents]
  /\ pc \in [Thread -> Labels]
  /\ key \in [Thread -> Key \cup {"none"}]
  /\ \A t \in Thread : pc[t] \in Alive => key[t] \in Key
  /\ got \in [Thread -> Contents]
  /\ ops \in [Thread -> 0 .. MaxOps]

WholeFiles == Shape /\ TemporaryOK /\ EntriesOK /\ NoTornRead

(* mtime has every file there is, once.                                    *)
Ordered ==
  /\ mtime \in Seq(File)
  /\ IsInjective(mtime)
  /\ Files \subseteq Range(mtime)

(* No eviction counts fewer files than are on its list.                    *)
Listed ==
  /\ rest \in [Thread -> Seq(File)]
  /\ bytes \in [Thread -> Nat]
  /\ \A t \in Thread : pc[t] = "unlink" => Len(rest[t]) <= bytes[t]

Bounded ==
  /\ MaxEntries > 0 => Cardinality(Files) <= MaxEntries
  /\ MaxBytes > 0 => Cardinality(Files) <= MaxBytes

(* The thread is writing, and has its eviction still to come. *)
Writing(t) == pc[t] \in {"mkstemp", "write", "replace", "list"}

(* The thread's eviction knows of every file, and counts no fewer. *)
Evicting(t) ==
  /\ pc[t] \in {"statall", "unlink"}
  /\ Files \subseteq Range(rest[t])
  /\ pc[t] = "unlink" => Cardinality(Files) <= bytes[t]

(* Whenever the directory is over a cap, some thread will see to it. *)
Attended == Bounded \/ \E t \in Thread : Writing(t) \/ Evicting(t)

CacheInv ==
  WholeFiles /\ Ordered /\ Listed /\ mishap \in BOOLEAN /\ (~mishap => Attended)
=============================================================================
