------------------------------- MODULE Files --------------------------------
(***************************************************************************)
(* What threads and servers share outside the database: the environment    *)
(* of the process, the pin file and the configuration files, the           *)
(* transcripts and their index, a directory of cached answers.  Nothing    *)
(* reads two of them together, so no two of them ever share a state: which *)
(* one it is is in `place`, and its variables are those of its own module, *)
(* in order.  The pins and the caches come in several uses, each with the  *)
(* parameters of its module.                                               *)
(***************************************************************************)
EXTENDS Naturals

CONSTANTS
  Thread,        (* the pool threads that retarget a provider *)
  Model,         (* its models *)
  Default,       (* the one it has when the variable is not set *)
  Unset,         (* the variable is not set *)
  PinOf,         (* the uses of config pinning *)
  Server,        (* the servers that write transcripts *)
  Session,       (* the sessions they write them for *)
  Tool,          (* tools that write one, beside audit *)
  CacheOf,       (* the uses of a directory of answers *)
  MaxCalls,      (* bound: calls of one thread *)
  MaxDocs,       (* bound: transcripts *)
  MaxTime,       (* bound: milliseconds *)
  MaxDeaths      (* bound: servers killed *)

VARIABLES
  place,          (* what is shared *)
  use,            (* in which use *)
  v1, v2, v3, v4, v5, v6, v7, v8, v9 (* the variables of its component *)

vars == <<place, use, v1, v2, v3, v4, v5, v6, v7, v8, v9>>

Environment == INSTANCE Retarget WITH
  Thread <- Thread, Model <- Model, Default <- Default, Unset <- Unset,
  MaxCalls <- MaxCalls,
  env <- v1, start <- v2, pc <- v3, want <- v4, original <- v5,
  built <- v6, calls <- v7, overlap <- v8

Pin(u) == INSTANCE ConfigPin WITH
  Server <- PinOf[u].server, File <- PinOf[u].file,
  Content <- PinOf[u].content, Text <- PinOf[u].text,
  Reject <- PinOf[u].reject, Action <- PinOf[u].action,
  MaxEdits <- PinOf[u].edits, MaxCalls <- PinOf[u].calls,
  files <- v1, pin <- v2, sv <- v3, edits <- v4, calls <- v5, watch <- v6

Docs == INSTANCE Transcripts WITH
  Server <- Server, Session <- Session, Tool <- Tool, MaxDocs <- MaxDocs,
  MaxTime <- MaxTime, MaxDeaths <- MaxDeaths,
  now <- v1, docs <- v2, dir <- v3, index <- v4, sv <- v5, deaths <- v6

Cache(u) == INSTANCE DiskCache WITH
  Thread <- CacheOf[u].thread, Key <- CacheOf[u].key,
  MaxEntries <- CacheOf[u].entries, MaxBytes <- CacheOf[u].bytes,
  MaxOps <- CacheOf[u].ops,
  data <- v1, mtime <- v2, pc <- v3, key <- v4, rest <- v5, bytes <- v6,
  got <- v7, ops <- v8, mishap <- v9

Pins == DOMAIN PinOf
Caches == DOMAIN CacheOf

ASSUME ConstantsFit ==
  /\ Environment!RetargetAssumption
  /\ \A u \in Pins : Pin(u)!PinAssumption
  /\ Docs!TranscriptsAssumption
  /\ \A u \in Caches : Cache(u)!CacheAssumption

-----------------------------------------------------------------------------

Unused == "unused"

Init ==
  \/ /\ place = "environment" /\ use = Unused /\ Environment!Init
     /\ v9 = Unused
  \/ /\ place = "pin" /\ \E u \in Pins : use = u /\ Pin(u)!Init
     /\ v7 = Unused /\ v8 = Unused /\ v9 = Unused
  \/ /\ place = "transcripts" /\ use = Unused /\ Docs!Init
     /\ v7 = Unused /\ v8 = Unused /\ v9 = Unused
  \/ /\ place = "cache" /\ \E u \in Caches : use = u /\ Cache(u)!Init

(* Where a bound stops everything, nothing is under way but audits whose   *)
(* report would be one transcript too many.                                *)
AtRest ==
  \/ place = "environment" /\ \A t \in DOMAIN v3 : v3[t] = "idle"
  \/ place = "pin" /\ \A s \in DOMAIN v3 : v3[s].pc \in {"idle", "dead"}
  \/ place = "transcripts" /\ \A s \in DOMAIN v5 : v5[s].pc \in {"idle", "judge"}

Next ==
  \/ /\ place = "environment" /\ Environment!Next
     /\ UNCHANGED <<place, use, v9>>
  \/ /\ place = "pin" /\ \E u \in Pins : use = u /\ Pin(u)!Next
     /\ UNCHANGED <<place, use, v7, v8, v9>>
  \/ /\ place = "transcripts" /\ Docs!Next
     /\ UNCHANGED <<place, use, v7, v8, v9>>
  \/ /\ place = "cache" /\ \E u \in Caches : use = u /\ Cache(u)!Next
     /\ UNCHANGED <<place, use>>
  \/ AtRest /\ UNCHANGED vars

Spec == Init /\ [][Next]_vars

Pinning(u) == place = "pin" /\ use = u
Caching(u) == place = "cache" /\ use = u

-----------------------------------------------------------------------------

(* The variables have their types. *)
TypeOK ==
  /\ place = "environment" => Environment!TypeOK
  /\ \A u \in Pins : Pinning(u) => Pin(u)!TypeOK
  /\ place = "transcripts" => Docs!TypeOK
  /\ \A u \in Caches : Caching(u) => Cache(u)!TypeOK

(* A provider is built with the model asked for, unless another thread     *)
(* was retargeting at the same time.                                       *)
ExactUnlessOverlapped == place = "environment" => Environment!ExactUnlessOverlapped

(* Drift that lasts as long as a call is seen by it; what is reported had  *)
(* drifted at some moment of the call; and pinning leaves no drift but of  *)
(* the files that were changed meanwhile; however many servers pin.        *)
DriftIsSeen ==
  \A u \in Pins : Pinning(u) => /\ Pin(u)!SteadyDriftIsSeen
                                /\ Pin(u)!ReportIsJustified
                                /\ Pin(u)!RepinSettles

(* What an audit takes for the latest transcript was the latest when it    *)
(* looked, and it finds one where there is one; a transcript is only       *)
(* overwritten by one of its tool and millisecond.                         *)
LatestIsAudited ==
  place = "transcripts" => /\ Docs!LatestIsAudited
                           /\ Docs!LoadFindsText
                           /\ Docs!OnlyTwinsOverwrite

(* A lookup in a directory of answers never returns half of one, or that   *)
(* of another key (_atomic_write_json).                                    *)
NoTornRead == \A u \in Caches : Caching(u) => Cache(u)!NoTornRead

(* When nobody is at work the directory is within its caps, although each  *)
(* eviction worked from a listing of its own (_cache_evict_if_needed).     *)
BoundedAtRest == \A u \in Caches : Caching(u) => Cache(u)!BoundedAtRest

(* A put that is over, in whatever way, has left no temporary file.        *)
NoLitter == \A u \in Caches : Caching(u) => Cache(u)!NoLitter
=============================================================================
