---------------------------- MODULE ProviderCall ----------------------------
(***************************************************************************)
(* The provider calls of one tool run of                                   *)
(* src/servers/python/crosscheck_server.py: _ask_one, the `send` of a      *)
(* provider, its token bucket (_Bucket.acquire) and the retrying POST      *)
(* (_http_post_resilient). The callers are the pool threads that ask the   *)
(* same provider.                                                          *)
(*                                                                         *)
(* Time is counted in ticks of a quarter second, the longest nap of the    *)
(* rate limiter. Computing takes none: the clock waits until every thread  *)
(* sleeps, waits for the network or is done. The timeout of urlopen is one *)
(* of each socket operation (connecting, the TLS handshake, a read), and   *)
(* an exchange takes several of them.                                      *)
(***************************************************************************)
EXTENDS Integers, Sequences, FiniteSets

CONSTANTS
  Caller,        (* the threads asking the provider *)
  Limit,         (* max_time_seconds, in ticks *)
  MaxAttempts,   (* retries.max_attempts *)
  Base,          (* retries.backoff_base_s, in ticks *)
  MaxRetryAfter, (* bound: the longest Retry-After of the provider, in ticks *)
  MaxOps,        (* bound: the socket operations that one exchange takes *)
  Capacity,      (* the bucket's capacity, in fractions of a token *)
  Refill,        (* what a tick adds to it *)
  Unit           (* the fractions that make one token *)

ASSUME CallAssumption ==
  /\ Limit \in Nat
  /\ MaxAttempts \in Nat \ {0}
  /\ Base \in Nat
  /\ MaxRetryAfter \in Nat
  /\ MaxOps \in Nat \ {0}
  /\ Capacity \in Nat
  /\ Refill \in Nat \ {0}
  /\ Unit \in Nat \ {0}

VARIABLES
  now,           (* the clock; the run's deadline is Limit *)
  tokens,        (* the bucket *)
  last,          (* when it was refilled *)
  pc,            (* where each caller is *)
  until,         (* when its sleep ends, or its socket operation times out *)
  exchange,      (* the operations of its request so far, and their timeout *)
  deadline,      (* the deadline of its `send` *)
  attempt,       (* its attempt at the POST *)
  resent,        (* `send` was called again, with the legacy signature *)
  posts,         (* history: POSTs it has made *)
  admitted,      (* history: when the bucket gave out a token *)
  answer         (* "response", or the error_kind it returned *)

vars == <<now, tokens, last, pc, until, exchange, deadline, attempt, resent,
          posts, admitted, answer>>

HalfSecond == 2

Least(a, b) == IF a < b THEN a ELSE b
Most(a, b) == IF a < b THEN b ELSE a

Goto(c, label) == pc' = [pc EXCEPT ![c] = label]
Sleep(c, ticks) == until' = [until EXCEPT ![c] = now + ticks]

NoExchange == [ops |-> 0, timeout |-> 0]

HangUp(c) == exchange' = [exchange EXCEPT ![c] = NoExchange]

(* _ask_one returns an answer dict, whatever went wrong. *)
Finish(c, kind) ==
  /\ Goto(c, "done")
  /\ answer' = [answer EXCEPT ![c] = kind]

-----------------------------------------------------------------------------

Init ==
  /\ now = 0
  /\ tokens = Capacity
  /\ last = 0
  /\ pc = [c \in Caller |-> "queued"]
  /\ until = [c \in Caller |-> 0]
  /\ exchange = [c \in Caller |-> NoExchange]
  /\ deadline = [c \in Caller |-> 0]
  /\ attempt = [c \in Caller |-> 1]
  /\ resent = [c \in Caller |-> FALSE]
  /\ posts = [c \in Caller |-> 0]
  /\ admitted = <<>>
  /\ answer = [c \in Caller |-> "none"]

(* `send` computes a deadline of its own. *)
BeginSend(c) ==
  /\ Goto(c, "acquire")
  /\ deadline' = [deadline EXCEPT ![c] = now + Limit]
  /\ attempt' = [attempt EXCEPT ![c] = 1]
  /\ Sleep(c, 0)

(* _ask_one: the run's deadline, then the cache, then `send`. A lookup     *)
(* that raises is not caught: it leaves _ask_one, and no answer is given.  *)
Ask(c) ==
  /\ pc[c] = "queued"
  /\ \/ /\ now >= Limit
        /\ Finish(c, "timeout")
        /\ UNCHANGED <<until, deadline, attempt>>
     \/ /\ now < Limit
        /\ \E kind \in {"response", "raised"} : Finish(c, kind)
        /\ UNCHANGED <<until, deadline, attempt>>
     \/ /\ now < Limit
        /\ BeginSend(c)
        /\ UNCHANGED answer
  /\ UNCHANGED <<now, tokens, last, exchange, resent, posts, admitted>>

Refilled == Least(Capacity, tokens + (now - last) * Refill)

(* The ticks until the bucket holds a token, rounded up. *)
Wait(level) == (Unit - level + Refill - 1) \div Refill

(* Mutant: the refill time is remembered only when a token is given out. *)
AcquireRefillingTwice(c) ==
  /\ pc[c] = "acquire" /\ until[c] <= now
  /\ \/ /\ Refilled >= Unit
        /\ tokens' = Refilled - Unit
        /\ last' = now
        /\ admitted' = Append(admitted, now)
        /\ Goto(c, "post")
        /\ UNCHANGED <<until, answer>>
     \/ /\ Refilled < Unit
        /\ deadline[c] - now > Wait(Refilled)
        /\ tokens' = Refilled
        /\ Sleep(c, 1)
        /\ UNCHANGED <<last, pc, admitted, answer>>
     \/ /\ Refilled < Unit
        /\ deadline[c] - now <= Wait(Refilled)
        /\ Finish(c, "rate_limit")
        /\ UNCHANGED <<tokens, last, until, admitted>>
  /\ UNCHANGED <<now, exchange, deadline, attempt, resent, posts>>

(* One turn of the loop of acquire. *)
Acquire(c) ==
  /\ pc[c] = "acquire" /\ until[c] <= now
  /\ last' = now
  /\ \/ /\ Refilled >= Unit
        /\ tokens' = Refilled - Unit
        /\ admitted' = Append(admitted, now)
        /\ Goto(c, "post")
        /\ UNCHANGED <<until, answer>>
     \/ /\ Refilled < Unit
        /\ deadline[c] - now <= Wait(Refilled)
        /\ tokens' = Refilled
        /\ Finish(c, "rate_limit")
        /\ UNCHANGED <<until, admitted>>
     \/ /\ Refilled < Unit
        /\ deadline[c] - now > Wait(Refilled)
        /\ tokens' = Refilled
        /\ Sleep(c, Least(Wait(Refilled), 1))
        /\ UNCHANGED <<pc, admitted, answer>>
  /\ UNCHANGED <<now, exchange, deadline, attempt, resent, posts>>

TimeLeft(c) == Most(0, deadline[c] - now)

(* A request may take at least a second. *)
CallTimeout(c) == Least(Limit, Most(2 * HalfSecond, TimeLeft(c)))

Send(c) ==
  /\ posts' = [posts EXCEPT ![c] = @ + 1]
  /\ exchange' = [exchange EXCEPT ![c] = [ops |-> 1, timeout |-> CallTimeout(c)]]
  /\ Sleep(c, CallTimeout(c))
  /\ Goto(c, "flight")
  /\ UNCHANGED answer

(* Mutant: too late to send, the loop goes round instead of raising. *)
PostSpinning(c) ==
  /\ pc[c] = "post" /\ until[c] <= now
  /\ \/ TimeLeft(c) < HalfSecond /\ UNCHANGED <<pc, until, exchange, posts, answer>>
     \/ TimeLeft(c) >= HalfSecond /\ Send(c)
  /\ UNCHANGED <<now, tokens, last, deadline, attempt, resent, admitted>>

(* In the last half second before the deadline nothing is sent. *)
Post(c) ==
  /\ pc[c] = "post" /\ until[c] <= now
  /\ \/ /\ TimeLeft(c) < HalfSecond
        /\ Finish(c, "timeout")
        /\ UNCHANGED <<until, exchange, posts>>
     \/ TimeLeft(c) >= HalfSecond /\ Send(c)
  /\ UNCHANGED <<now, tokens, last, deadline, attempt, resent, admitted>>

(* One operation is over and the next begins, with the whole timeout: the  *)
(* connection stands, a part of the answer has come.                       *)
Receive(c) ==
  /\ pc[c] = "flight" /\ until[c] > now
  /\ exchange[c].ops < MaxOps
  /\ exchange' = [exchange EXCEPT ![c] = [ops |-> @.ops + 1, timeout |-> @.timeout]]
  /\ Sleep(c, exchange[c].timeout)
  /\ UNCHANGED <<now, tokens, last, pc, deadline, attempt, resent, posts,
                 admitted, answer>>

(* Retry-After or the exponential backoff, and the jitter. *)
Backoffs(n) ==
  {b + jitter : b \in {Base * 2 ^ (n - 1)} \cup 0 .. MaxRetryAfter,
                jitter \in 0 .. Base}

(* Mutant: the backoff may outlast the deadline. *)
CappedNot(c, backoff) == backoff

Capped(c, backoff) ==
  Least(backoff, Most(0, deadline[c] - now - HalfSecond))

(* Mutant: the attempts are not counted. *)
RetryUncounted(c) ==
  \E backoff \in Backoffs(attempt[c]) :
    /\ Capped(c, backoff) > 0
    /\ Sleep(c, Capped(c, backoff))
    /\ Goto(c, "post")
    /\ UNCHANGED <<attempt, answer>>

(* A transient error: sleep and POST again, or give up. *)
Retry(c) ==
  \/ /\ attempt[c] >= MaxAttempts
     /\ Finish(c, "transient")
     /\ UNCHANGED <<until, attempt>>
  \/ /\ attempt[c] < MaxAttempts
     /\ \E backoff \in Backoffs(attempt[c]) :
          \/ /\ Capped(c, backoff) <= 0
             /\ Finish(c, "transient")
             /\ UNCHANGED <<until, attempt>>
          \/ /\ Capped(c, backoff) > 0
             /\ Sleep(c, Capped(c, backoff))
             /\ attempt' = [attempt EXCEPT ![c] = @ + 1]
             /\ Goto(c, "post")
             /\ UNCHANGED answer

(* 429, 5xx, a network error, or a connection that times out. *)
FailTransiently(c) ==
  /\ pc[c] = "flight"
  /\ Retry(c)
  /\ HangUp(c)
  /\ UNCHANGED <<now, tokens, last, deadline, resent, posts, admitted>>

(* Other HTTP errors, an unexpected body, and what is not a ProviderError: *)
(* a response that stalls or breaks off while it is read.                  *)
FailForGood(c) ==
  /\ pc[c] = "flight"
  /\ \E kind \in {"client", "parse", "other"} : Finish(c, kind)
  /\ HangUp(c)
  /\ UNCHANGED <<now, tokens, last, until, deadline, attempt, resent, posts, admitted>>

(* A body that makes `send` raise a TypeError: _ask_one takes the adapter  *)
(* for one of the old signature and sends once more.                       *)
Resend(c) ==
  /\ pc[c] = "flight" /\ until[c] > now
  /\ \/ /\ ~resent[c]
        /\ resent' = [resent EXCEPT ![c] = TRUE]
        /\ BeginSend(c)
        /\ UNCHANGED answer
     \/ /\ resent[c]
        /\ Finish(c, "other")
        /\ UNCHANGED <<resent, until, deadline, attempt>>
  /\ HangUp(c)
  /\ UNCHANGED <<now, tokens, last, posts, admitted>>

(* The answer arrives and is stored in the cache; if that raises, the      *)
(* answer is lost and an error is returned in its place.                   *)
Arrive(c) ==
  /\ pc[c] = "flight" /\ until[c] > now
  /\ \E kind \in {"response", "other"} : Finish(c, kind)
  /\ HangUp(c)
  /\ UNCHANGED <<now, tokens, last, until, deadline, attempt, resent, posts, admitted>>

Step(c) ==
  \/ Ask(c) \/ Acquire(c) \/ Post(c) \/ Receive(c)
  \/ FailTransiently(c) \/ FailForGood(c) \/ Resend(c) \/ Arrive(c)

(* A queued caller is asked for before the run's deadline has passed, or   *)
(* right after it.                                                         *)
Idle(c) ==
  \/ pc[c] = "queued" /\ now <= Limit
  \/ pc[c] = "done"
  \/ until[c] > now

AllDone == \A c \in Caller : pc[c] = "done"

Tick ==
  /\ ~AllDone
  /\ \A c \in Caller : Idle(c)
  /\ now' = now + 1
  /\ UNCHANGED <<tokens, last, pc, until, exchange, deadline, attempt, resent,
                 posts, admitted, answer>>

Next == (\E c \in Caller : Step(c)) \/ Tick \/ (AllDone /\ UNCHANGED vars)

Spec ==
  /\ Init /\ [][Next]_vars
  /\ WF_vars(Tick)
  /\ \A c \in Caller : WF_vars(Step(c))

-----------------------------------------------------------------------------

Answers == {"none", "response", "raised", "timeout", "rate_limit",
            "transient", "client", "parse", "other"}

(* The variables have their types; the bucket is never overdrawn. *)
TypeOK ==
  /\ now \in Nat
  /\ tokens \in 0 .. Capacity
  /\ last \in 0 .. now
  /\ pc \in [Caller -> {"queued", "acquire", "post", "flight", "done"}]
  /\ until \in [Caller -> Nat]
  /\ exchange \in [Caller -> [ops : 0 .. MaxOps, timeout : 0 .. Limit]]
  /\ deadline \in [Caller -> Nat]
  /\ attempt \in [Caller -> 1 .. MaxAttempts]
  /\ resent \in [Caller -> BOOLEAN]
  /\ posts \in [Caller -> Nat]
  /\ admitted \in Seq(Nat)
  /\ answer \in [Caller -> Answers]

(* The rate limiter: between any two sends it let through, however the     *)
(* threads raced for tokens, there were no more than the capacity and what *)
(* flowed in meanwhile allow.                                              *)
WithinRate ==
  \A i, j \in DOMAIN admitted :
    i <= j => (j - i + 1) * Unit <= Capacity + (admitted[j] - admitted[i]) * Refill

(* A call costs the provider at most max_attempts requests per `send`,     *)
(* whatever fails and however often.                                       *)
PostsBounded ==
  \A c \in Caller :
    posts[c] <= IF resent[c] THEN 2 * MaxAttempts ELSE MaxAttempts

(* A call begins nothing after the deadline of its `send`: no POST, no     *)
(* wait for the rate limiter and no backoff. What runs on is the one       *)
(* exchange that was in flight, by half a second, and by a time limit for  *)
(* each socket operation after its first, as the timeout bounds an         *)
(* operation only. That deadline is within two limits of the run's start;  *)
(* a call that is sent again has a new one.                                *)
OverrunBounded ==
  \A c \in Caller :
    /\ pc[c] \in {"acquire", "post"} => now <= deadline[c]
    /\ pc[c] = "flight" =>
         now <= deadline[c] + HalfSecond + (exchange[c].ops - 1) * Limit
    /\ pc[c] \in {"acquire", "post", "flight"} =>
         deadline[c] <= IF resent[c] THEN (MaxOps + 2) * Limit ELSE 2 * Limit - 1

(* Every call ends, whoever takes the tokens and whatever the network      *)
(* does.                                                                   *)
Answered == \A c \in Caller : <>(pc[c] = "done")

(* README.md: max_time_seconds is a wall-clock deadline enforced per run.  *)
(* It is not: a call that begins before it has a whole limit of its own,   *)
(* and an exchange that keeps arriving piecemeal has no limit at all.      *)
RunEndsByDeadline ==
  \A c \in Caller : pc[c] \in {"acquire", "post", "flight"} => now <= Limit
=============================================================================
