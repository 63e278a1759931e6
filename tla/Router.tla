------------------------------- MODULE Router -------------------------------
(***************************************************************************)
(* The smart router of src/servers/python/crosscheck_server.py             *)
(* (_router_stats, _router_score, _router_recommend), which ranks judges   *)
(* and panels on the rows of usage_log and the errors of the event log:    *)
(* what each call leaves in the two, and the order made of it, for one     *)
(* purpose and within the window. Providers are numbers in the order of    *)
(* their names; numbers are fractions.                                     *)
(***************************************************************************)
EXTENDS Integers, FiniteSets, FiniteSetsExt, Functions, Rounding

CONSTANTS
  Provider,      (* the registered providers *)
  Price,         (* what a call of each costs when it succeeds *)
  Tokens,        (* its tokens, in tenths of the 1500 that count as engaged *)
  Weight,        (* the scoreboard's weight of each *)
  Threshold,     (* _ROUTER_COLD_START_THRESHOLD *)
  Grain,         (* a rounded number is a multiple of 1 / Grain: 10000 in the code *)
  MaxCalls       (* bound: calls in all *)

RouterAssumption ==
  /\ IsFiniteSet(Provider) /\ Provider \subseteq Nat
  /\ Price \in [Provider -> Nat]
  /\ Tokens \in [Provider -> Nat]
  /\ Weight \in [Provider -> Nat]
  /\ Threshold \in Nat
  /\ Grain \in Nat \ {0}
  /\ MaxCalls \in Nat

VARIABLES
  logged,        (* the calls made within sessions, by outcome *)
  outside,       (* those made without a session *)
  other          (* the failed calls of other purposes *)

vars == <<logged, outside, other>>

Outcomes == [ok : 0 .. MaxCalls, failed : 0 .. MaxCalls]

-----------------------------------------------------------------------------
(* A fraction of natural numbers is a pair <<numerator, denominator>>.     *)

gcd[n \in Nat] == [m \in Nat |-> IF n = 0 THEN m ELSE gcd[m % n][n]]

Reduced(x) == LET d == gcd[x[2]][x[1]] IN <<x[1] \div d, x[2] \div d>>

x \preceq y == x[1] * y[2] <= y[1] * x[2]
x \prec y == x[1] * y[2] < y[1] * x[2]
Plus(x, y) == Reduced(<<x[1] * y[2] + y[1] * x[2], x[2] * y[2]>>)
Minus(x, y) == Reduced(<<x[1] * y[2] - y[1] * x[2], x[2] * y[2]>>)
Scale(k, x) == <<k * x[1], x[2]>>

Rounded(x) == <<Nearest(x[1] * Grain, x[2]), Grain>>

-----------------------------------------------------------------------------
(* The statistics.                                                         *)

(* log_usage writes a row for a call of a session, a failed one too. *)
Calls(p) == logged[p].ok + logged[p].failed

(* Mutant: events of every purpose are counted.                            *)
ErrorsOfAll(p) == logged[p].failed + outside[p].failed + other[p]

(* The event log has the failures of all calls. *)
Errors(p) == logged[p].failed + outside[p].failed

ErrorRate(p) ==
  IF Calls(p) = 0 THEN <<0, 1>> ELSE Rounded(<<Errors(p), Calls(p) + Errors(p)>>)

(* A failed call's row costs nothing and has no tokens. *)
AvgCost(p) == IF Calls(p) = 0 THEN <<0, 1>> ELSE <<Price[p] * logged[p].ok, Calls(p)>>

Engagement(p) ==
  IF Calls(p) = 0 THEN <<0, 1>>
  ELSE LET t == <<Tokens[p] * logged[p].ok, 10 * Calls(p)>>
       IN  IF <<1, 1>> \preceq t THEN <<1, 1>> ELSE t

Observed(S) == {p \in S : Calls(p) > 0}

Cheapest(S) == CHOOSE p \in Observed(S) : \A q \in Observed(S) : AvgCost(p) \preceq AvgCost(q)
Dearest(S) == CHOOSE p \in Observed(S) : \A q \in Observed(S) : AvgCost(q) \preceq AvgCost(p)

(* Mutant: the dear ones are the good ones.                                *)
CostFactorTurned(S, p) ==
  LET range == Minus(AvgCost(Dearest(S)), AvgCost(Cheapest(S)))
      above == AvgCost(p)
  IN  IF Observed(S) = {} \/ range[1] = 0 THEN <<1, 1>>
      ELSE Reduced(<<above[1] * range[2], above[2] * range[1]>>)

(* Relative to the observed: more than 1 for one who costs less than they. *)
CostFactor(S, p) ==
  LET range == Minus(AvgCost(Dearest(S)), AvgCost(Cheapest(S)))
      below == Minus(AvgCost(Dearest(S)), AvgCost(p))
  IN  IF Observed(S) = {} \/ range[1] = 0 THEN <<1, 1>>
      ELSE Reduced(<<below[1] * range[2], below[2] * range[1]>>)

(* Ten times the score, before it is rounded.                              *)
Tenfold(S, p) ==
  Plus(Scale(6, Minus(<<1, 1>>, ErrorRate(p))),
       Plus(Scale(3, CostFactor(S, p)), Engagement(p)))

Score(S, p) == LET x == Tenfold(S, p) IN Rounded(<<x[1], 10 * x[2]>>)

(* T are those with rows, who may be registered no more: all but the       *)
(* excluded.                                                               *)
ColdStart(T) == SumFunctionOnSet([p \in T |-> Calls(p)], T) < Threshold

(* Mutant: equals are not told apart.                                      *)
BeforeTies(S, cold, p, q) ==
  IF cold THEN Weight[p] >= Weight[q] ELSE Score(S, q) \preceq Score(S, p)

(* p comes before q in a recommendation for the panel S. *)
Before(S, cold, p, q) ==
  IF cold
  THEN Weight[p] > Weight[q] \/ (Weight[p] = Weight[q] /\ p < q)
  ELSE \/ Score(S, q) \prec Score(S, p)
       \/ ~(Score(S, p) \prec Score(S, q)) /\ p < q

Recommended(S, cold, n) ==
  {p \in S : Cardinality({q \in S \ {p} : Before(S, cold, q, p)}) < n}

-----------------------------------------------------------------------------

Init ==
  /\ logged = [p \in Provider |-> [ok |-> 0, failed |-> 0]]
  /\ outside = [p \in Provider |-> [ok |-> 0, failed |-> 0]]
  /\ other = [p \in Provider |-> 0]

Made(p) == logged[p].ok + logged[p].failed + outside[p].ok + outside[p].failed

AllCalls == SumFunctionOnSet([p \in Provider |-> Made(p) + other[p]], Provider)

Bounded == AllCalls < MaxCalls

(* A call of a session leaves a row, and an event. *)
CallLogged(p) ==
  /\ Bounded
  /\ \E o \in {"ok", "failed"} : logged' = [logged EXCEPT ![p][o] = @ + 1]
  /\ UNCHANGED <<outside, other>>

(* log_usage returns without a session id; the event is written. *)
CallOutside(p) ==
  /\ Bounded
  /\ \E o \in {"ok", "failed"} : outside' = [outside EXCEPT ![p][o] = @ + 1]
  /\ UNCHANGED <<logged, other>>

(* A call of another purpose fails. *)
FailElsewhere(p) ==
  /\ Bounded
  /\ other' = [other EXCEPT ![p] = @ + 1]
  /\ UNCHANGED <<logged, outside>>

Next == \E p \in Provider : CallLogged(p) \/ CallOutside(p) \/ FailElsewhere(p)

Spec == Init /\ [][Next]_vars

-----------------------------------------------------------------------------

(* The values the variables range over.                                    *)
TypeOK ==
  /\ logged \in [Provider -> Outcomes]
  /\ outside \in [Provider -> Outcomes]
  /\ other \in [Provider -> 0 .. MaxCalls]
  /\ AllCalls <= MaxCalls

(* The share of failures among all the calls of the purpose. *)
FailureShare(p) == <<logged[p].failed + outside[p].failed, Made(p)>>

AllInSessions == \A p \in Provider : outside[p] = [ok |-> 0, failed |-> 0]

(* As long as all calls are of sessions, the error rates order the         *)
(* providers the way their failures do, as far as the rounding tells them  *)
(* apart, though they are not those shares.                                *)
RatesFollowFailures ==
  AllInSessions =>
    \A p, q \in Observed(Provider) :
      FailureShare(p) \preceq FailureShare(q) => ErrorRate(p) \preceq ErrorRate(q)

(* Whoever fails no more, costs no more and engages no less than another   *)
(* of the panel comes first, but for one with a name before his and a      *)
(* score that the rounding makes the same. The panel S are those of the    *)
(* providers with rows who are registered and were not excluded.           *)
BetterComesFirst ==
  AllInSessions /\ ~ColdStart(Provider) =>
    \A S \in SUBSET Provider : \A p, q \in Observed(S) :
      /\ p # q
      /\ FailureShare(p) \preceq FailureShare(q)
      /\ AvgCost(p) \preceq AvgCost(q)
      /\ Engagement(q) \preceq Engagement(p)
      => Before(S, FALSE, p, q) \/ (q < p /\ Score(S, p) = Score(S, q))

(* The order is one: a recommendation of n providers has n, if the panel   *)
(* has as many.                                                            *)
RecommendsEnough ==
  \A S \in SUBSET Provider, cold \in BOOLEAN, n \in 1 .. Cardinality(Provider) :
    Cardinality(Recommended(S, cold, n)) = Min({n, Cardinality(S)})

(* README.md:304, "reliability (1 - error rate)": false, a failed call is  *)
(* counted twice, as a row and as an error.                                *)
RateIsFailureShare ==
  \A p \in Observed(Provider) : AllInSessions => ErrorRate(p) = Rounded(FailureShare(p))

(* README.md:309, "the most-trusted judges run first": false of a judge    *)
(* whose calls have all failed, but outside sessions.                      *)
TrustedFirst ==
  ~ColdStart(Provider) =>
    \A p, q \in Provider :
      (logged[p].failed + outside[p].failed = 0 /\ Made(p) > 0
        /\ logged[q].ok + outside[q].ok = 0 /\ Made(q) > 0)
      => Before(Provider, FALSE, p, q)
=============================================================================
