------------------------- MODULE ProviderCallProofs -------------------------
(***************************************************************************)
(* The rate limiter, the attempts and the time of ProviderCall, proved for *)
(* any number of threads and any configuration with a positive refill      *)
(* rate. Three invariants, each a bound that every step keeps: what the    *)
(* bucket gave out since any send is paid for by its capacity and the      *)
(* refill; a POST goes with an attempt; and a thread never sleeps past its *)
(* own deadline, by which the clock, which waits for sleepers only, is     *)
(* bounded too.                                                            *)
(***************************************************************************)
EXTENDS ProviderCall, TLAPS

Live == {"acquire", "post", "flight"}

-----------------------------------------------------------------------------
(* The bucket. *)

Given(i) == Len(admitted) - i + 1

BucketInv ==
  /\ now \in Nat
  /\ last \in Nat /\ last <= now
  /\ tokens \in Nat /\ tokens <= Capacity
  /\ admitted \in Seq(Nat)
  /\ \A i \in DOMAIN admitted :
       /\ admitted[i] <= last
       /\ Given(i) * Unit + tokens <= Capacity + (last - admitted[i]) * Refill
  /\ WithinRate

(* Multiplication distributes over addition. *)
LEMMA Distribute ==
  \A a, b, n \in Int : (a + b) * n = a * n + b * n
  OBVIOUS

(* Products of integers are integers. *)
LEMMA Product == \A a, b \in Int : a * b \in Int
  OBVIOUS

(* The two sums above are compared term by term. *)
LEMMA Compare ==
  ASSUME NEW cap \in Int, NEW g \in Int, NEW u \in Int, NEW tok \in Int,
         NEW ref \in Int, NEW a \in Int, NEW b \in Int,
         g + tok <= cap + a, ref <= tok + b
  PROVE  /\ g + ref <= cap + (a + b)
         /\ (g + u) + (ref - u) <= cap + (a + b)
  OBVIOUS

(* A refill never takes tokens away, and never exceeds the burst. *)
LEMMA RefilledBounds ==
  ASSUME BucketInv
  PROVE  /\ Refilled \in Nat
         /\ Refilled <= Capacity
         /\ Refilled <= tokens + (now - last) * Refill
  <1>1. now - last \in Nat /\ (now - last) * Refill \in Nat
    BY CallAssumption DEF BucketInv
  <1> QED BY <1>1, CallAssumption DEF BucketInv, Refilled, Least

(* The bucket starts full, with nothing sent. *)
LEMMA BucketInit == Init => BucketInv
  BY CallAssumption DEF Init, BucketInv, WithinRate, Given

(* Waiting for a token only lets the bucket fill. *)
LEMMA RefillKeepsBucket ==
  ASSUME BucketInv, last' = now, tokens' = Refilled, UNCHANGED <<now, admitted>>
  PROVE  BucketInv'
  <1>1. ASSUME NEW i \in DOMAIN admitted
        PROVE  /\ admitted[i] <= now
               /\ Given(i) * Unit + Refilled <= Capacity + (now - admitted[i]) * Refill
    <2> DEFINE A == last - admitted[i]
               B == now - last
    <2>1. A \in Int /\ B \in Int /\ now - admitted[i] = A + B /\ admitted[i] <= now
      BY DEF BucketInv
    <2>2. (A + B) * Refill = A * Refill + B * Refill
      BY <2>1, Distribute, CallAssumption
    <2>3. Given(i) * Unit + tokens <= Capacity + A * Refill
      BY DEF BucketInv
    <2>4. Refilled <= tokens + B * Refill /\ Refilled \in Nat
      BY RefilledBounds
    <2>5. Given(i) \in Int /\ tokens \in Nat
      BY DEF BucketInv, Given
    <2>6. A * Refill \in Int /\ B * Refill \in Int /\ Given(i) * Unit \in Int
      <3>1. A \in Int /\ B \in Int /\ Given(i) \in Int
        BY <2>1, <2>5
      <3>2. Refill \in Int /\ Unit \in Int
        BY CallAssumption
      <3> HIDE DEF A, B
      <3> QED BY <3>1, <3>2, Product
    <2>7. (now - admitted[i]) * Refill = A * Refill + B * Refill
      BY <2>1, <2>2
    <2> DEFINE AR == A * Refill
               BR == B * Refill
               GU == Given(i) * Unit
    <2>8. GU + Refilled <= Capacity + (AR + BR)
      <3>1. AR \in Int /\ BR \in Int /\ GU \in Int
        BY <2>6
      <3>2. GU + tokens <= Capacity + AR /\ Refilled <= tokens + BR
        BY <2>3, <2>4
      <3>3. Refilled \in Int /\ tokens \in Int /\ Capacity \in Int /\ Unit \in Int
        BY <2>4, <2>5, CallAssumption
      <3> HIDE DEF AR, BR, GU, A, B
      <3> QED BY <3>1, <3>2, <3>3, Compare
    <2> QED BY <2>1, <2>7, <2>8
  <1>2. Refilled \in Nat /\ Refilled <= Capacity
    BY RefilledBounds
  <1>3. WithinRate'
    BY DEF BucketInv, WithinRate
  <1> QED BY <1>1, <1>2, <1>3 DEF BucketInv, Given

(* What was given out keeps its bound when what is left is dropped from it.*)
LEMMA Discard ==
  ASSUME NEW x \in Int, NEW y \in Int, NEW c \in Nat, NEW t \in Nat,
         x + t <= c + y
  PROVE  x <= c + y
  OBVIOUS

(* A token given out is one the bucket held. *)
LEMMA AdmitKeepsBucket ==
  ASSUME BucketInv, Refilled >= Unit, last' = now, tokens' = Refilled - Unit,
         admitted' = Append(admitted, now), UNCHANGED now
  PROVE  BucketInv'
  <1> DEFINE n == Len(admitted)
  <1>0. Refilled \in Nat /\ Refilled <= Capacity /\ n \in Nat /\ Unit \in Nat
    BY RefilledBounds, CallAssumption DEF BucketInv
  <1>1. /\ admitted' \in Seq(Nat) /\ Len(admitted') = n + 1
        /\ DOMAIN admitted' = 1 .. n + 1 /\ DOMAIN admitted = 1 .. n
        /\ admitted'[n + 1] = now
        /\ \A i \in 1 .. n : admitted'[i] = admitted[i]
        /\ \A i \in 1 .. n : admitted[i] \in Nat /\ admitted[i] <= last
    BY DEF BucketInv
  <1>2. ASSUME NEW i \in 1 .. n
        PROVE  /\ admitted[i] <= now /\ admitted[i] \in Nat
               /\ (n + 1 - i + 1) * Unit + (Refilled - Unit)
                    <= Capacity + (now - admitted[i]) * Refill
    <2> DEFINE A == last - admitted[i]
               B == now - last
               G == n - i + 1
    <2>1. /\ A \in Int /\ B \in Int /\ G \in Int
          /\ now - admitted[i] = A + B /\ n + 1 - i + 1 = G + 1
          /\ admitted[i] <= now /\ admitted[i] \in Nat
      BY <1>1 DEF BucketInv
    <2>2. (A + B) * Refill = A * Refill + B * Refill
      BY <2>1, Distribute, CallAssumption
    <2>3. (G + 1) * Unit = G * Unit + Unit
      BY <2>1, Distribute, CallAssumption
    <2>4. G * Unit + tokens <= Capacity + A * Refill
      BY <1>1 DEF BucketInv, Given
    <2>5. Refilled <= tokens + B * Refill
      BY RefilledBounds
    <2>6. /\ A * Refill \in Int /\ B * Refill \in Int
          /\ G * Unit \in Int /\ tokens \in Nat
      <3>1. A \in Int /\ B \in Int /\ G \in Int
        BY <2>1
      <3>2. Refill \in Int /\ Unit \in Int
        BY CallAssumption
      <3>3. tokens \in Nat
        BY DEF BucketInv
      <3> HIDE DEF A, B, G
      <3> QED BY <3>1, <3>2, <3>3, Product
    <2>7. (now - admitted[i]) * Refill = A * Refill + B * Refill
      BY <2>1, <2>2
    <2>8. (n + 1 - i + 1) * Unit = G * Unit + Unit
      BY <2>1, <2>3
    <2> DEFINE AR == A * Refill
               BR == B * Refill
               GU == G * Unit
    <2>9. (GU + Unit) + (Refilled - Unit) <= Capacity + (AR + BR)
      <3>1. AR \in Int /\ BR \in Int /\ GU \in Int
        BY <2>6
      <3>2. GU + tokens <= Capacity + AR /\ Refilled <= tokens + BR
        BY <2>4, <2>5
      <3>3. Refilled \in Int /\ tokens \in Int /\ Capacity \in Int /\ Unit \in Int
        BY <1>0, <2>6, CallAssumption
      <3> HIDE DEF AR, BR, GU, A, B, G
      <3> QED BY <3>1, <3>2, <3>3, Compare
    <2> QED BY <2>1, <2>7, <2>8, <2>9
  <1>3. ASSUME NEW i \in DOMAIN admitted'
        PROVE  /\ admitted'[i] <= now
               /\ Given(i)' * Unit + tokens' <= Capacity + (now - admitted'[i]) * Refill
    <2>1. CASE i \in 1 .. n
      BY <1>1, <1>2, <2>1 DEF Given
    <2>2. CASE i = n + 1
      <3>1. Given(i)' = 1 /\ now - admitted'[i] = 0
        BY <1>0, <1>1, <2>2 DEF Given, BucketInv
      <3> QED BY <1>0, <1>1, <2>2, <3>1, CallAssumption DEF BucketInv
    <2> QED BY <1>0, <1>1, <1>3, <2>1, <2>2
  <1>4. WithinRate'
    <2> SUFFICES ASSUME NEW i \in DOMAIN admitted', NEW j \in DOMAIN admitted', i <= j
                 PROVE  (j - i + 1) * Unit
                          <= Capacity + (admitted'[j] - admitted'[i]) * Refill
      BY DEF WithinRate
    <2>1. CASE j \in 1 .. n
      <3>1. i \in 1 .. n
        BY <1>0, <1>1, <2>1
      <3> QED BY <1>1, <2>1, <3>1 DEF BucketInv, WithinRate
    <2>2. CASE j = n + 1
      <3>1. Given(i)' = j - i + 1 /\ admitted'[j] = now
        BY <1>1, <2>2 DEF Given
      <3>2. (j - i + 1) * Unit + tokens' <= Capacity + (now - admitted'[i]) * Refill
        BY <1>3, <3>1
      <3>3. tokens' \in Nat
        BY <1>0
      <3>4. /\ (j - i + 1) * Unit \in Int
            /\ (now - admitted'[i]) * Refill \in Int
        <4>1. j - i + 1 \in Int /\ now - admitted'[i] \in Int
          BY <1>0, <1>1, <2>2 DEF BucketInv
        <4>2. Refill \in Int /\ Unit \in Int
          BY CallAssumption
        <4> QED BY <4>1, <4>2, Product
      <3> DEFINE sent == (j - i + 1) * Unit
                 refilled == (now - admitted'[i]) * Refill
      <3>5. sent <= Capacity + refilled
        <4>1. sent + tokens' <= Capacity + refilled /\ sent \in Int /\ refilled \in Int
          BY <3>2, <3>4
        <4>2. Capacity \in Nat
          BY CallAssumption
        <4> HIDE DEF sent, refilled
        <4> QED BY <3>3, <4>1, <4>2, Discard
      <3> QED BY <3>1, <3>5
    <2> QED BY <1>0, <1>1, <2>1, <2>2
  <1>5. tokens' \in Nat /\ tokens' <= Capacity
    BY <1>0, CallAssumption
  <1> QED BY <1>1, <1>3, <1>4, <1>5 DEF BucketInv

(* Every step keeps the bucket's account. *)
LEMMA BucketStep == BucketInv /\ [Next]_vars => BucketInv'
  <1> SUFFICES ASSUME BucketInv, [Next]_vars PROVE BucketInv'
    OBVIOUS
  <1>1. CASE UNCHANGED <<now, tokens, last, admitted>>
    BY <1>1 DEF BucketInv, WithinRate, Given
  <1>2. ASSUME NEW c \in Caller, Acquire(c) PROVE BucketInv'
    <2>1. CASE tokens' = Refilled /\ UNCHANGED admitted
      BY <1>2, <2>1, RefillKeepsBucket DEF Acquire
    <2>2. CASE Refilled >= Unit /\ tokens' = Refilled - Unit
                 /\ admitted' = Append(admitted, now)
      BY <1>2, <2>2, AdmitKeepsBucket DEF Acquire
    <2> QED BY <1>2, <2>1, <2>2 DEF Acquire
  <1>3. CASE Tick
    BY <1>3 DEF Tick, BucketInv, WithinRate, Given
  <1>4. ASSUME NEW c \in Caller, Step(c), ~Acquire(c)
        PROVE  UNCHANGED <<now, tokens, last, admitted>>
    BY <1>4 DEF Step, Ask, Post, Send, Receive, FailTransiently, FailForGood, Resend, Arrive
  <1> QED BY <1>1, <1>2, <1>3, <1>4 DEF Next, vars, Step

(* The sends of all threads stay within the configured rate, over every    *)
(* window of time.                                                         *)
THEOREM RateIsLimited == Spec => []WithinRate
  <1>1. BucketInv => WithinRate
    BY DEF BucketInv
  <1> QED BY <1>1, BucketInit, BucketStep, PTL DEF Spec

-----------------------------------------------------------------------------
(* The attempts. *)

AttemptsInv ==
  /\ pc \in [Caller -> {"queued", "done"} \cup Live]
  /\ attempt \in [Caller -> Nat]
  /\ resent \in [Caller -> BOOLEAN]
  /\ posts \in [Caller -> Nat]
  /\ \A c \in Caller :
       /\ attempt[c] <= MaxAttempts
       /\ pc[c] \in {"acquire", "post"} /\ ~resent[c] => posts[c] < attempt[c]
       /\ pc[c] \in {"acquire", "post"} /\ resent[c] =>
            posts[c] < MaxAttempts + attempt[c]
       /\ pc[c] = "flight" /\ ~resent[c] => posts[c] <= attempt[c]
       /\ pc[c] = "flight" /\ resent[c] => posts[c] <= MaxAttempts + attempt[c]
       /\ pc[c] = "queued" => posts[c] = 0 /\ ~resent[c]
  /\ PostsBounded

(* Before the call no attempt has been made. *)
LEMMA AttemptsInit == Init => AttemptsInv
  BY CallAssumption DEF Init, AttemptsInv, PostsBounded, Live

(* Every step keeps the count of attempts. *)
LEMMA AttemptsStep == AttemptsInv /\ [Next]_vars => AttemptsInv'
  <1> SUFFICES ASSUME AttemptsInv, [Next]_vars PROVE AttemptsInv'
    OBVIOUS
  <1> USE CallAssumption DEF AttemptsInv, PostsBounded, Live, Goto, Finish, BeginSend
  <1>1. CASE UNCHANGED <<pc, attempt, resent, posts>>
    BY <1>1
  <1>2. ASSUME NEW c \in Caller, Step(c) PROVE AttemptsInv'
    <2>1. CASE Ask(c)
      BY <2>1 DEF Ask
    <2>2. CASE Acquire(c)
      BY <2>2 DEF Acquire
    <2>3. CASE Post(c)
      BY <2>3 DEF Post, Send
    <2>8. CASE Receive(c)
      BY <2>8 DEF Receive
    <2>4. CASE FailTransiently(c)
      BY <2>4 DEF FailTransiently, Retry
    <2>5. CASE FailForGood(c)
      BY <2>5 DEF FailForGood
    <2>6. CASE Resend(c)
      <3>1. posts' = posts /\ pc[c] = "flight"
        BY <2>6 DEF Resend
      <3>2. CASE resent[c]
        BY <2>6, <3>1, <3>2 DEF Resend
      <3>3. CASE ~resent[c]
        <4>1. posts[c] <= MaxAttempts
          BY <3>1, <3>3
        <4>2. /\ attempt' = [attempt EXCEPT ![c] = 1]
              /\ resent' = [resent EXCEPT ![c] = TRUE]
              /\ pc' = [pc EXCEPT ![c] = "acquire"]
          BY <2>6, <3>3 DEF Resend
        <4> QED BY <3>1, <4>1, <4>2
      <3> QED BY <3>2, <3>3
    <2>7. CASE Arrive(c)
      BY <2>7 DEF Arrive
    <2> QED BY <1>2, <2>1, <2>2, <2>3, <2>4, <2>5, <2>6, <2>7, <2>8 DEF Step
  <1> QED BY <1>1, <1>2 DEF Next, vars, Tick

(* Nothing makes a call POST more often than max_attempts per `send`.      *)
THEOREM AttemptsAreBounded == Spec => []PostsBounded
  <1>1. AttemptsInv => PostsBounded
    BY DEF AttemptsInv
  <1> QED BY <1>1, AttemptsInit, AttemptsStep, PTL DEF Spec

-----------------------------------------------------------------------------
(* The time. *)

DeadlineBound(c) == IF resent[c] THEN (MaxOps + 2) * Limit ELSE 2 * Limit - 1

(* A time limit for each operation of the exchange after its first.        *)
Trickle(c) == (exchange[c].ops - 1) * Limit

Exchanges == [ops : Nat, timeout : Nat]

TimeInv ==
  /\ now \in Nat /\ last \in Int /\ tokens \in Int
  /\ pc \in [Caller -> {"queued", "done"} \cup Live]
  /\ attempt \in [Caller -> Nat]
  /\ resent \in [Caller -> BOOLEAN]
  /\ until \in [Caller -> Int]
  /\ exchange \in [Caller -> Exchanges]
  /\ deadline \in [Caller -> Int]
  /\ \A c \in Caller :
       /\ pc[c] \in Live => deadline[c] <= DeadlineBound(c)
       /\ pc[c] \in {"acquire", "post"} =>
            now <= deadline[c] /\ until[c] <= deadline[c]
       /\ pc[c] = "flight" =>
            /\ now <= until[c]
            /\ until[c] <= deadline[c] + HalfSecond + Trickle(c)
            /\ exchange[c].ops \in 1 .. MaxOps
            /\ exchange[c].timeout <= Limit
       /\ pc[c] = "queued" => ~resent[c]

(* Before the call no time has been spent. *)
LEMMA TimeInit == Init => TimeInv
  BY CallAssumption DEF Init, TimeInv, Live, DeadlineBound, NoExchange, Exchanges

(* Multiplication by a natural number keeps an order. *)
LEMMA Monotone == \A a, b \in Int, n \in Nat : a <= b => a * n <= b * n
  <1> SUFFICES ASSUME NEW a \in Int, NEW b \in Int, NEW n \in Nat, a <= b
               PROVE  a * n <= b * n
    OBVIOUS
  <1>1. (b - a) * n \in Nat /\ b - a \in Int
    OBVIOUS
  <1>2. (a + (b - a)) * n = a * n + (b - a) * n
    BY <1>1, Distribute
  <1>3. a + (b - a) = b /\ a * n \in Int /\ b * n \in Int
    OBVIOUS
  <1> QED BY <1>1, <1>2, <1>3

(* The trickle of an exchange is a number, which its next operation raises *)
(* by a time limit; that of its first operation is none.                   *)
LEMMA TrickleGrows ==
  ASSUME TimeInv, NEW c \in Caller
  PROVE  /\ Trickle(c) \in Int
         /\ exchange[c].ops * Limit = Trickle(c) + Limit
         /\ exchange[c].ops <= MaxOps => Trickle(c) <= (MaxOps - 1) * Limit
         /\ (MaxOps + 2) * Limit = (MaxOps - 1) * Limit + 3 * Limit
         /\ (MaxOps - 1) * Limit \in Int
  <1>0. exchange[c].ops \in Nat /\ Limit \in Nat /\ MaxOps \in Nat
    BY CallAssumption DEF TimeInv, Exchanges
  <1> DEFINE k == exchange[c].ops
  <1>1. (k - 1) \in Int /\ ((k - 1) + 1) * Limit = (k - 1) * Limit + 1 * Limit
    BY <1>0, Distribute
  <1>2. ((MaxOps - 1) + 3) * Limit = (MaxOps - 1) * Limit + 3 * Limit
    BY <1>0, Distribute
  <1>3. k <= MaxOps => (k - 1) * Limit <= (MaxOps - 1) * Limit
    BY <1>0, Monotone
  <1>4. (k - 1) * Limit \in Int /\ (MaxOps - 1) * Limit \in Int
    BY <1>0, Product
  <1>5. k - 1 + 1 = k /\ MaxOps - 1 + 3 = MaxOps + 2 /\ 1 * Limit = Limit
    BY <1>0
  <1> QED BY <1>1, <1>2, <1>3, <1>4, <1>5 DEF Trickle

(* The only sleep whose length nobody knows is cut at the deadline.        *)
LEMMA RetrySleeps ==
  ASSUME TimeInv, NEW c \in Caller, pc[c] = "flight", Retry(c)
  PROVE  \/ pc' = [pc EXCEPT ![c] = "done"] /\ UNCHANGED <<until, attempt>>
         \/ /\ pc' = [pc EXCEPT ![c] = "post"]
            /\ attempt' = [attempt EXCEPT ![c] = @ + 1]
            /\ now < deadline[c]
            /\ \E wake \in Int : /\ until' = [until EXCEPT ![c] = wake]
                                 /\ wake <= deadline[c]
  <1>1. CASE pc' = [pc EXCEPT ![c] = "done"] /\ UNCHANGED <<until, attempt>>
    BY <1>1
  <1>2. ASSUME NEW backoff \in Backoffs(attempt[c]),
               Capped(c, backoff) > 0,
               Sleep(c, Capped(c, backoff)),
               attempt' = [attempt EXCEPT ![c] = @ + 1],
               Goto(c, "post")
        PROVE  /\ pc' = [pc EXCEPT ![c] = "post"]
               /\ now < deadline[c]
               /\ \E wake \in Int : /\ until' = [until EXCEPT ![c] = wake]
                                    /\ wake <= deadline[c]
    <2>1. backoff \in Int
      <3>1. attempt[c] - 1 \in Int
        BY DEF TimeInv
      <3>2. 2 ^ (attempt[c] - 1) \in Int
        BY <3>1
      <3>3. Base * 2 ^ (attempt[c] - 1) \in Int
        BY <3>2, CallAssumption
      <3> QED BY <1>2, <3>3, CallAssumption DEF Backoffs
    <2>2. /\ Capped(c, backoff) \in Int
          /\ Capped(c, backoff) <= deadline[c] - now - HalfSecond
          /\ now < deadline[c]
      BY <1>2, <2>1 DEF Capped, Least, Most, HalfSecond, TimeInv
    <2>3. /\ now + Capped(c, backoff) \in Int
          /\ now + Capped(c, backoff) <= deadline[c]
          /\ until' = [until EXCEPT ![c] = now + Capped(c, backoff)]
      BY <1>2, <2>2 DEF Sleep, HalfSecond, TimeInv
    <2> QED BY <1>2, <2>2, <2>3 DEF Goto
  <1> QED BY <1>1, <1>2 DEF Retry, Finish, Goto

(* Every step keeps the account of the time spent. *)
LEMMA TimeStep == TimeInv /\ [Next]_vars => TimeInv'
  <1> SUFFICES ASSUME TimeInv, [Next]_vars PROVE TimeInv'
    OBVIOUS
  <1> USE CallAssumption DEF TimeInv, DeadlineBound, Live, Goto, Finish, Trickle
  <1>1. CASE UNCHANGED vars
    BY <1>1 DEF vars
  <1>2. CASE Tick
    <2>1. \A c \in Caller : pc[c] \in Live => now + 1 <= until[c]
      BY <1>2 DEF Tick, Idle
    <2> QED BY <1>2, <2>1 DEF Tick
  <1>3. ASSUME NEW c \in Caller, Step(c) PROVE TimeInv'
    <2>0. HangUp(c) => exchange' \in [Caller -> Exchanges]
                       /\ \A d \in Caller \ {c} : exchange'[d] = exchange[d]
      BY DEF HangUp, NoExchange, Exchanges
    <2>1. CASE Ask(c)
      BY <2>1 DEF Ask, BeginSend, Sleep
    <2>2. CASE Acquire(c)
      <3>1. Refilled \in Int
        <4>1. (now - last) * Refill \in Int
          OBVIOUS
        <4> QED BY <4>1 DEF Refilled, Least
      <3>2. Wait(Refilled) \in Int
        BY <3>1 DEF Wait
      <3>3. last' \in Int /\ tokens' \in Int
        BY <2>2, <3>1 DEF Acquire
      <3>4. CASE UNCHANGED until
        BY <2>2, <3>3, <3>4 DEF Acquire
      <3>5. CASE Sleep(c, Least(Wait(Refilled), 1)) /\ UNCHANGED pc
                   /\ deadline[c] - now > Wait(Refilled) /\ pc[c] = "acquire"
        BY <2>2, <3>2, <3>3, <3>5 DEF Acquire, Sleep, Least
      <3> QED BY <2>2, <3>4, <3>5 DEF Acquire
    <2>3. CASE Post(c)
      <3>1. CASE TimeLeft(c) < HalfSecond
        BY <2>3, <3>1 DEF Post, Send, TimeLeft, Most, HalfSecond
      <3>2. CASE TimeLeft(c) >= HalfSecond
        <4>0. Send(c) /\ UNCHANGED <<now, tokens, last, deadline, attempt, resent>>
          BY <2>3, <3>2 DEF Post, TimeLeft, Most, HalfSecond
        <4> DEFINE t == CallTimeout(c)
        <4>1. /\ t \in Nat /\ t <= Limit /\ now + t <= deadline[c] + HalfSecond
          BY <3>2 DEF CallTimeout, TimeLeft, Least, Most, HalfSecond
        <4>2. /\ exchange' = [exchange EXCEPT ![c] = [ops |-> 1, timeout |-> t]]
              /\ until' = [until EXCEPT ![c] = now + t]
              /\ pc' = [pc EXCEPT ![c] = "flight"]
              /\ UNCHANGED <<now, tokens, last, deadline, attempt, resent>>
          BY <4>0 DEF Send, Sleep
        <4>3. [ops |-> 1, timeout |-> t] \in Exchanges
          BY <4>1 DEF Exchanges
        <4>4. (1 - 1) * Limit = 0
          OBVIOUS
        <4> HIDE DEF t
        <4>5. /\ exchange' \in [Caller -> Exchanges]
              /\ exchange'[c].ops = 1 /\ exchange'[c].timeout = t
              /\ \A d \in Caller \ {c} : exchange'[d] = exchange[d]
          BY <4>2, <4>3
        <4>6. /\ now + t \in Int /\ now <= now + t
              /\ now + t <= deadline[c] + HalfSecond + (exchange'[c].ops - 1) * Limit
              /\ exchange'[c].ops \in 1 .. MaxOps /\ exchange'[c].timeout <= Limit
          BY <4>1, <4>4, <4>5 DEF HalfSecond
        <4>7. pc[c] = "post"
          BY <2>3 DEF Post
        <4> QED BY <4>2, <4>5, <4>6, <4>7
      <3> QED BY <3>1, <3>2 DEF TimeLeft, Most, HalfSecond
    <2>8. CASE Receive(c)
      <3> DEFINE t == exchange[c].timeout
                 k == exchange[c].ops
      <3>1. /\ t \in Nat /\ t <= Limit /\ k \in 1 .. MaxOps
            /\ now < until[c] /\ k < MaxOps /\ pc[c] = "flight"
        BY <2>8 DEF Receive, Exchanges
      <3>2. /\ exchange' = [exchange EXCEPT ![c] = [ops |-> k + 1, timeout |-> t]]
            /\ until' = [until EXCEPT ![c] = now + t]
            /\ UNCHANGED <<now, tokens, last, pc, deadline, attempt, resent>>
        BY <2>8 DEF Receive, Sleep
      <3>3. /\ exchange' \in [Caller -> Exchanges]
            /\ exchange'[c].ops = k + 1 /\ exchange'[c].timeout = t
            /\ \A d \in Caller \ {c} : exchange'[d] = exchange[d]
        BY <3>1, <3>2 DEF Exchanges
      <3>4. /\ k * Limit = (k - 1) * Limit + Limit
            /\ (k - 1) * Limit \in Int
        BY TrickleGrows
      <3>5. (k + 1) - 1 = k
        BY <3>1
      <3> HIDE DEF t, k
      <3>6. /\ now + t <= deadline[c] + HalfSecond + (exchange'[c].ops - 1) * Limit
            /\ now + t \in Int /\ now <= now + t
        BY <3>1, <3>3, <3>4, <3>5 DEF HalfSecond, k
      <3>7. k + 1 \in 1 .. MaxOps
        BY <3>1
      <3> QED BY <3>1, <3>2, <3>3, <3>6, <3>7
    <2>4. CASE FailTransiently(c)
      <3>1. /\ pc[c] = "flight" /\ Retry(c) /\ HangUp(c)
            /\ UNCHANGED <<now, last, tokens, deadline, resent>>
        BY <2>4 DEF FailTransiently
      <3>2. CASE pc' = [pc EXCEPT ![c] = "done"] /\ UNCHANGED <<until, attempt>>
        BY <2>0, <3>1, <3>2
      <3>3. ASSUME NEW wake \in Int,
                   until' = [until EXCEPT ![c] = wake],
                   wake <= deadline[c], now < deadline[c],
                   attempt' = [attempt EXCEPT ![c] = @ + 1],
                   pc' = [pc EXCEPT ![c] = "post"]
            PROVE  TimeInv'
        BY <2>0, <3>1, <3>3
      <3> QED BY <3>1, <3>2, <3>3, RetrySleeps
    <2>5. CASE FailForGood(c)
      BY <2>0, <2>5 DEF FailForGood
    <2>6. CASE Resend(c)
      <3>1. /\ pc[c] = "flight" /\ now < until[c] /\ HangUp(c)
            /\ UNCHANGED <<now, last, tokens>>
        BY <2>6 DEF Resend
      <3>2. CASE resent[c]
        BY <2>0, <2>6, <3>1, <3>2 DEF Resend
      <3>3. CASE ~resent[c]
        <4>1. /\ pc' = [pc EXCEPT ![c] = "acquire"]
              /\ deadline' = [deadline EXCEPT ![c] = now + Limit]
              /\ attempt' = [attempt EXCEPT ![c] = 1]
              /\ until' = [until EXCEPT ![c] = now]
              /\ resent' = [resent EXCEPT ![c] = TRUE]
          BY <2>6, <3>3 DEF Resend, BeginSend, Sleep
        <4>2. now + Limit <= (MaxOps + 2) * Limit
          <5>1. until[c] <= 2 * Limit - 1 + HalfSecond + Trickle(c)
            <6> DEFINE e == Trickle(c)
            <6>1. until[c] <= deadline[c] + HalfSecond + e /\ deadline[c] <= 2 * Limit - 1
              BY <3>1, <3>3
            <6>2. e \in Int /\ until[c] \in Int /\ deadline[c] \in Int /\ Limit \in Int
              BY TrickleGrows
            <6> HIDE DEF e
            <6>3. until[c] <= 2 * Limit - 1 + HalfSecond + e
              BY <6>1, <6>2 DEF HalfSecond
            <6> QED BY <6>3 DEF e
          <5>2. Trickle(c) <= (MaxOps - 1) * Limit /\ Trickle(c) \in Int
            BY <3>1, TrickleGrows
          <5> QED BY <3>1, <5>1, <5>2, TrickleGrows DEF HalfSecond
        <4> QED BY <2>0, <3>1, <4>1, <4>2
      <3> QED BY <3>2, <3>3
    <2>7. CASE Arrive(c)
      BY <2>0, <2>7 DEF Arrive
    <2> QED BY <1>3, <2>1, <2>2, <2>3, <2>4, <2>5, <2>6, <2>7, <2>8 DEF Step
  <1> QED BY <1>1, <1>2, <1>3 DEF Next, vars

(* A call begins nothing after the deadline of its `send`, and runs past   *)
(* it in its one exchange only, by half a second and a time limit for each *)
(* socket operation after the first.                                       *)
THEOREM OverrunIsBounded == Spec => []OverrunBounded
  <1>1. ASSUME TimeInv PROVE OverrunBounded
    <2> SUFFICES ASSUME NEW c \in Caller
                 PROVE  /\ pc[c] \in {"acquire", "post"} => now <= deadline[c]
                        /\ pc[c] = "flight" =>
                             now <= deadline[c] + HalfSecond + Trickle(c)
                        /\ pc[c] \in Live => deadline[c] <= DeadlineBound(c)
      BY DEF OverrunBounded, Trickle, Live, DeadlineBound
    <2> QED BY <1>1, TrickleGrows DEF TimeInv, HalfSecond
  <1> QED BY <1>1, TimeInit, TimeStep, PTL DEF Spec

-----------------------------------------------------------------------------
(* The types, given the bounds of the bucket and of the attempts. *)

(* Every wait is a natural number. *)
LEMMA WaitsAreNatural ==
  ASSUME NEW level \in Nat, level < Unit
  PROVE  Wait(level) \in Nat
  <1>1. Unit - level + Refill - 1 \in Nat /\ Refill \in Nat \ {0}
    BY CallAssumption
  <1>2. \A a \in Nat, b \in Nat \ {0} : a \div b \in Nat
    OBVIOUS
  <1> QED BY <1>1, <1>2 DEF Wait

(* Beginning and sending keep the types. *)
LEMMA BeginSendTypes ==
  ASSUME TypeOK, NEW c \in Caller, BeginSend(c)
  PROVE  /\ until' \in [Caller -> Nat]
         /\ deadline' \in [Caller -> Nat]
         /\ attempt' \in [Caller -> 1 .. MaxAttempts]
  <1>1. now + 0 \in Nat /\ now + Limit \in Nat /\ 1 \in 1 .. MaxAttempts
    BY CallAssumption DEF TypeOK
  <1> QED BY <1>1 DEF TypeOK, BeginSend, Sleep

(* Sleeping keeps the types. *)
LEMMA SleepTypes ==
  ASSUME TypeOK, NEW c \in Caller, NEW ticks \in Nat, Sleep(c, ticks)
  PROVE  until' \in [Caller -> Nat]
  <1>1. now + ticks \in Nat
    BY DEF TypeOK
  <1> QED BY <1>1 DEF TypeOK, Sleep

(* Finishing keeps the types. *)
LEMMA FinishTypes ==
  ASSUME TypeOK, NEW c \in Caller, NEW kind \in Answers, Finish(c, kind)
  PROVE  answer' \in [Caller -> Answers]
  BY DEF TypeOK, Finish

(* Hanging up keeps the types. *)
LEMMA HangUpTypes ==
  ASSUME TypeOK, NEW c \in Caller, HangUp(c)
  PROVE  exchange' \in [Caller -> [ops : 0 .. MaxOps, timeout : 0 .. Limit]]
  BY CallAssumption DEF TypeOK, HangUp, NoExchange

(* Deciding on a retry keeps the types. *)
LEMMA RetryTypes ==
  ASSUME TypeOK, NEW c \in Caller, Retry(c)
  PROVE  /\ until' \in [Caller -> Nat]
         /\ attempt' \in [Caller -> 1 .. MaxAttempts]
         /\ answer' \in [Caller -> Answers]
  <1>1. CASE Finish(c, "transient") /\ UNCHANGED <<until, attempt>>
    BY <1>1, FinishTypes DEF TypeOK, Answers
  <1>2. ASSUME NEW backoff \in Backoffs(attempt[c]),
               attempt[c] < MaxAttempts, Capped(c, backoff) > 0,
               Sleep(c, Capped(c, backoff)),
               attempt' = [attempt EXCEPT ![c] = @ + 1], UNCHANGED answer
        PROVE  /\ until' \in [Caller -> Nat]
               /\ attempt' \in [Caller -> 1 .. MaxAttempts]
               /\ answer' \in [Caller -> Answers]
    <2>1. backoff \in Int
      <3>1. attempt[c] - 1 \in Int
        BY DEF TypeOK
      <3>2. 2 ^ (attempt[c] - 1) \in Int
        BY <3>1
      <3>3. Base * 2 ^ (attempt[c] - 1) \in Int
        BY <3>2, CallAssumption
      <3> QED BY <1>2, <3>3, CallAssumption DEF Backoffs
    <2>2. Capped(c, backoff) \in Nat
      BY <1>2, <2>1 DEF Capped, Least, Most, HalfSecond, TypeOK
    <2>3. until' \in [Caller -> Nat]
      BY <1>2, <2>2, SleepTypes
    <2>4. attempt' \in [Caller -> 1 .. MaxAttempts]
      BY <1>2, CallAssumption DEF TypeOK
    <2> QED BY <1>2, <2>3, <2>4 DEF TypeOK
  <1> QED BY <1>1, <1>2 DEF Retry

(* Every step keeps the types. *)
LEMMA TypeStep == TypeOK /\ BucketInv /\ AttemptsInv' /\ BucketInv' /\ [Next]_vars => TypeOK'
  <1> SUFFICES ASSUME TypeOK, BucketInv, AttemptsInv', BucketInv', [Next]_vars
               PROVE  TypeOK'
    OBVIOUS
  <1>1. /\ now' \in Nat /\ tokens' \in 0 .. Capacity /\ last' \in 0 .. now'
        /\ admitted' \in Seq(Nat)
    BY CallAssumption DEF BucketInv
  <1>2. /\ pc' \in [Caller -> {"queued", "acquire", "post", "flight", "done"}]
        /\ resent' \in [Caller -> BOOLEAN]
        /\ posts' \in [Caller -> Nat]
    BY DEF AttemptsInv, Live
  <1> DEFINE RestOK == /\ until \in [Caller -> Nat]
                       /\ exchange \in [Caller -> [ops : 0 .. MaxOps, timeout : 0 .. Limit]]
                       /\ deadline \in [Caller -> Nat]
                       /\ attempt \in [Caller -> 1 .. MaxAttempts]
                       /\ answer \in [Caller -> Answers]
  <1>3. RestOK'
    <2>0. RestOK
      BY DEF TypeOK
    <2>1. CASE UNCHANGED <<until, exchange, deadline, attempt, answer>>
      BY <2>0, <2>1
    <2>2. ASSUME NEW c \in Caller, Step(c) PROVE RestOK'
      <3>1. CASE Ask(c)
        BY <2>0, <3>1, BeginSendTypes, FinishTypes DEF Ask, Answers
      <3>2. CASE Acquire(c)
        <4>1. Refilled < Unit => Least(Wait(Refilled), 1) \in Nat
          BY RefilledBounds, WaitsAreNatural DEF Least
        <4> QED BY <2>0, <3>2, <4>1, SleepTypes, FinishTypes DEF Acquire, Answers
      <3>3. CASE Post(c)
        <4>1. CallTimeout(c) \in 0 .. Limit
          BY CallAssumption DEF TypeOK, CallTimeout, Least, Most, HalfSecond, TimeLeft
        <4>2. [ops |-> 1, timeout |-> CallTimeout(c)]
                \in [ops : 0 .. MaxOps, timeout : 0 .. Limit]
          BY <4>1, CallAssumption
        <4>3. CallTimeout(c) \in Nat
          BY <4>1, CallAssumption
        <4> HIDE DEF RestOK
        <4>4. CASE Send(c)
          <5>1. until' \in [Caller -> Nat]
            BY <4>3, <4>4, SleepTypes DEF Send
          <5>2. exchange' \in [Caller -> [ops : 0 .. MaxOps, timeout : 0 .. Limit]]
            BY <2>0, <4>2, <4>4 DEF Send, RestOK
          <5> QED BY <2>0, <3>3, <4>4, <5>1, <5>2 DEF Post, Send, RestOK
        <4>5. CASE Finish(c, "timeout") /\ UNCHANGED <<until, exchange>>
          BY <2>0, <3>3, <4>5, FinishTypes DEF Post, Answers, RestOK
        <4> QED BY <3>3, <4>4, <4>5 DEF Post
      <3>8. CASE Receive(c)
        <4>1. exchange[c].timeout \in Nat /\ exchange[c].ops + 1 \in 0 .. MaxOps
          BY <2>0, <3>8, CallAssumption DEF Receive
        <4> QED BY <2>0, <3>8, <4>1, SleepTypes DEF Receive
      <3>4. CASE FailTransiently(c)
        BY <2>0, <3>4, RetryTypes, HangUpTypes DEF FailTransiently
      <3>5. CASE FailForGood(c)
        BY <2>0, <3>5, FinishTypes, HangUpTypes DEF FailForGood, Answers
      <3>6. CASE Resend(c)
        BY <2>0, <3>6, BeginSendTypes, FinishTypes, HangUpTypes DEF Resend, Answers
      <3>7. CASE Arrive(c)
        BY <2>0, <3>7, FinishTypes, HangUpTypes DEF Arrive, Answers
      <3> QED BY <2>2, <3>1, <3>2, <3>3, <3>4, <3>5, <3>6, <3>7, <3>8 DEF Step
    <2> QED BY <2>1, <2>2 DEF Next, vars, Tick
  <1> QED BY <1>1, <1>2, <1>3 DEF TypeOK

(* The variables of ProviderCall keep their types, whatever the bounds.    *)
THEOREM TypeCorrect == Spec => []TypeOK
  <1>1. Init => TypeOK
    BY CallAssumption DEF Init, TypeOK, Answers, NoExchange
  <1> QED BY <1>1, BucketInit, BucketStep, AttemptsInit, AttemptsStep, TypeStep, PTL DEF Spec
=============================================================================
