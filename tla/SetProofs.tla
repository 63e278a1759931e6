------------------------------ MODULE SetProofs -------------------------------
(***************************************************************************)
(* What the proofs about audits, ledgers and caches need to know of the    *)
(* operators of the community modules: Min and Max are the extremes of a   *)
(* bounded set of numbers, and a sum over a finite set, whichever way its  *)
(* recursion chooses, can be taken apart and put together at any element.  *)
(* Both definitions recurse or choose, so the facts are proved by least    *)
(* counterexample, from the strict inclusion of finite sets being well     *)
(* founded.                                                                *)
(***************************************************************************)
EXTENDS Integers, FiniteSetsExt, Functions, FiniteSetTheorems,
        WellFoundedInduction, TLAPS

(* Among finite sets there is one with no other of them inside it: the     *)
(* least counterexample of whatever fails for a finite set. This is        *)
(* induction over finite sets without an operator for a parameter.         *)
LEMMA Smallest ==
  ASSUME NEW F, F # {}, \A S \in F : IsFiniteSet(S)
  PROVE  \E S \in F : \A T \in F : T \subseteq S => T = S
<1>1. F \subseteq FiniteSubsetsOf(UNION F)
  BY DEF FiniteSubsetsOf
<1>2. PICK S \in F : \A T \in F : ~ (<<T, S>> \in StrictSubsetOrdering(UNION F))
  BY <1>1, FS_StrictSubsetOrderingWellFounded, WFMin
<1>3. \A T \in F : T \subseteq S => T = S
  BY <1>2 DEF StrictSubsetOrdering
<1>. QED
  BY <1>3

(* A set of natural numbers has a least one. *)
LEMMA LeastNatural ==
  ASSUME NEW S \in SUBSET Nat, S # {}
  PROVE  \E x \in S : \A y \in S : x <= y
<1>. DEFINE F == {0 .. n : n \in S}
<1>1. F # {} /\ \A T \in F : IsFiniteSet(T)
  <2>1. \A n \in S : IsFiniteSet(0 .. n)
    BY FS_Interval
  <2>. QED
    BY <2>1
<1>2. PICK x \in S : \A y \in S : (0 .. y) \subseteq (0 .. x) => 0 .. y = 0 .. x
  <2>. HIDE DEF F
  <2>1. PICK T \in F : \A U \in F : U \subseteq T => U = T
    BY <1>1, Smallest
  <2>2. PICK x \in S : T = 0 .. x
    BY <2>1 DEF F
  <2>3. \A y \in S : 0 .. y \in F
    BY DEF F
  <2>. QED
    BY <2>1, <2>2, <2>3
<1>3. ASSUME NEW y \in S PROVE x <= y
  <2>1. SUFFICES ASSUME y < x PROVE FALSE
    BY <1>2
  <2>2. (0 .. y) \subseteq (0 .. x) /\ x \in 0 .. x /\ x \notin 0 .. y
    BY <2>1, <1>2
  <2>. QED
    BY <1>2, <2>2
<1>. QED
  BY <1>3

(* A set of natural numbers with a bound has a greatest one. *)
LEMMA GreatestNatural ==
  ASSUME NEW n \in Nat, NEW S \in SUBSET (0 .. n), S # {}
  PROVE  \E x \in S : \A y \in S : y <= x
<1>. DEFINE R == {n - x : x \in S}
<1>1. R \in SUBSET Nat /\ R # {}
  <2>1. \A x \in S : n - x \in Nat
    OBVIOUS
  <2>. QED
    BY <2>1
<1>2. PICK r \in R : \A y \in R : r <= y
  <2>. HIDE DEF R
  <2>. QED
    BY <1>1, LeastNatural
<1>3. PICK x \in S : r = n - x
  BY <1>2
<1>4. \A y \in S : n - x <= n - y
  BY <1>2, <1>3
<1>. QED
  BY <1>3, <1>4

(* Min is the least of a set of natural numbers. *)
LEMMA LeastIsMin ==
  ASSUME NEW S \in SUBSET Nat, S # {}
  PROVE  Min(S) \in S /\ \A y \in S : Min(S) <= y
BY LeastNatural DEF Min

(* The least of two numbers is no more than either. *)
LEMMA LeastOfTwo ==
  ASSUME NEW a \in Nat, NEW b \in Nat
  PROVE  Min({a, b}) \in Nat /\ Min({a, b}) <= a /\ Min({a, b}) <= b
<1>1. {a, b} \in SUBSET Nat /\ {a, b} # {}
  OBVIOUS
<1>. QED
  BY <1>1, LeastIsMin

(* A sum over s, given those over what is left of s without an element.    *)
Adds(f, g, s) ==
  IF s = {} THEN 0 ELSE LET x == CHOOSE x \in s : TRUE IN f[x] + g[s \ {x}]

Sums(f, g, S) == g = [s \in SUBSET S |-> Adds(f, g, s)]

(* Two tables of sums agree where both are defined.                        *)
LEMMA SumsAgree ==
  ASSUME NEW f, NEW g, NEW h, NEW S, NEW T, Sums(f, g, S), Sums(f, h, T),
         NEW s, IsFiniteSet(s), s \subseteq S, s \subseteq T
  PROVE  g[s] = h[s]
<1>. DEFINE F == {r \in SUBSET s : g[r] # h[r]}
<1>. SUFFICES ASSUME g[s] # h[s] PROVE FALSE
  OBVIOUS
<1>1. F # {} /\ \A r \in F : IsFiniteSet(r)
  BY FS_Subset
<1>2. PICK r \in F : \A q \in F : q \subseteq r => q = r
  <2>. HIDE DEF F
  <2>. QED
    BY <1>1, Smallest
<1>3. g[r] = Adds(f, g, r) /\ h[r] = Adds(f, h, r)
  BY DEF Sums
<1>4. r # {}
  BY <1>2, <1>3 DEF Adds
<1>. DEFINE x == CHOOSE x \in r : TRUE
<1>5. x \in r
  BY <1>4
<1>6. g[r \ {x}] = h[r \ {x}]
  BY <1>2, <1>5
<1>. QED
  BY <1>2, <1>3, <1>4, <1>6 DEF Adds

(* There is a table of sums for every finite set.                          *)
LEMMA SumsExist ==
  ASSUME NEW f, NEW S, IsFiniteSet(S)
  PROVE  \E g : Sums(f, g, S)
<1>. DEFINE F == {T \in SUBSET S : ~ \E g : Sums(f, g, T)}
<1>. SUFFICES ASSUME ~ \E g : Sums(f, g, S) PROVE FALSE
  OBVIOUS
<1>1. F # {} /\ \A T \in F : IsFiniteSet(T)
  BY FS_Subset
<1>2. PICK T \in F : \A U \in F : U \subseteq T => U = T
  <2>. HIDE DEF F
  <2>. QED
    BY <1>1, Smallest
<1>. DEFINE G(U) == CHOOSE g : Sums(f, g, U)
            x == CHOOSE x \in T : TRUE
            h == [s \in SUBSET T |-> IF s = {} THEN 0
                                     ELSE IF s = T THEN f[x] + G(T \ {x})[T \ {x}]
                                     ELSE G(s)[s]]
<1>3. \A U \in SUBSET T : U # T => Sums(f, G(U), U)
  BY <1>2
<1>4. ASSUME NEW s \in SUBSET T PROVE h[s] = Adds(f, h, s)
  <2>1. CASE s = {}
    BY <2>1 DEF Adds
  <2>2. CASE s # {} /\ s = T
    <3>1. x \in T
      BY <2>2
    <3>2. h[T \ {x}] = G(T \ {x})[T \ {x}]
      <4>1. T \ {x} \in SUBSET T /\ T \ {x} # T
        BY <3>1
      <4>2. CASE T \ {x} # {}
        BY <4>1, <4>2
      <4>3. CASE T \ {x} = {}
        <5>1. Sums(f, G({}), {})
          BY <1>3, <4>1, <4>3
        <5>2. G({})[{}] = 0
          BY <5>1 DEF Sums, Adds
        <5>. QED
          BY <4>3, <5>2
      <4>. QED
        BY <4>2, <4>3
    <3>. QED
      BY <2>2, <3>2 DEF Adds
  <2>3. CASE s # {} /\ s # T
    <3>. DEFINE y == CHOOSE y \in s : TRUE
                r == s \ {y}
    <3>1. y \in s /\ r \subseteq s /\ r # T /\ r \in SUBSET T
      BY <2>3
    <3>2. Sums(f, G(s), s) /\ Sums(f, G(r), r)
      BY <1>3, <2>3, <3>1
    <3>3. IsFiniteSet(r)
      <4>1. r \subseteq S
        BY <1>2, <3>1
      <4>. HIDE DEF r
      <4>. QED
        BY <4>1, FS_Subset
    <3>4. G(s)[r] = G(r)[r]
      <4>. HIDE DEF r, y, G
      <4>. QED
        BY <3>1, <3>2, <3>3, SumsAgree
    <3>5. h[s] = G(s)[s]
      BY <2>3
    <3>6. G(s)[s] = Adds(f, G(s), s)
      BY <3>2 DEF Sums
    <3>7. h[r] = G(r)[r]
      <4>1. CASE r # {}
        BY <3>1, <4>1
      <4>2. CASE r = {}
        <5>1. G(r)[r] = Adds(f, G(r), r)
          BY <3>2 DEF Sums
        <5>. QED
          BY <4>2, <5>1 DEF Adds
      <4>. QED
        BY <4>1, <4>2
    <3>8. /\ Adds(f, G(s), s) = f[y] + G(s)[r]
          /\ Adds(f, h, s) = f[y] + h[r]
      BY <2>3 DEF Adds
    <3>. HIDE DEF h, G, r, y
    <3>. QED
      BY <3>4, <3>5, <3>6, <3>7, <3>8
  <2>. QED
    BY <2>1, <2>2, <2>3
<1>5. Sums(f, h, T)
  <2>1. h = [s \in SUBSET T |-> h[s]]
    OBVIOUS
  <2>. HIDE DEF h
  <2>. QED
    BY <1>4, <2>1 DEF Sums
<1>. QED
  BY <1>2, <1>5

(* Max is the greatest of a bounded set of natural numbers. *)
LEMMA GreatestIsMax ==
  ASSUME NEW n \in Nat, NEW S \in SUBSET (0 .. n), S # {}
  PROVE  Max(S) \in S /\ \A y \in S : y <= Max(S)
<1>1. PICK x \in S : \A y \in S : y <= x
  BY GreatestNatural
<1>2. \A y \in S : x >= y
  BY <1>1
<1>. QED
  BY <1>2 DEF Max

(* A sum is the entry of any table of sums.                                *)
LEMMA SumIsEntry ==
  ASSUME NEW f, NEW g, NEW S, IsFiniteSet(S), Sums(f, g, S), NEW T \in SUBSET S
  PROVE  SumFunctionOnSet(f, T) = g[T]
<1>. DEFINE h == CHOOSE h : Sums(f, h, T)
<1>1. SumFunctionOnSet(f, T) = h[T]
  BY DEF SumFunctionOnSet, FoldFunctionOnSet, MapThenFoldSet, Sums, Adds
<1>2. IsFiniteSet(T)
  BY FS_Subset
<1>3. Sums(f, h, T)
  BY <1>2, SumsExist
<1>. HIDE DEF h
<1>4. g[T] = h[T]
  BY <1>2, <1>3, SumsAgree
<1>. QED
  BY <1>1, <1>4

(* A sum over nothing is 0.                                                *)
LEMMA SumOfNone == ASSUME NEW f PROVE SumFunctionOnSet(f, {}) = 0
<1>1. PICK g : Sums(f, g, {})
  BY SumsExist, FS_EmptySet
<1>2. SumFunctionOnSet(f, {}) = g[{}]
  BY <1>1, SumIsEntry, FS_EmptySet
<1>. QED
  BY <1>1, <1>2 DEF Sums, Adds

(* The sum over a set is that of some element and of the rest. *)
LEMMA SumTakesOne ==
  ASSUME NEW f, NEW S, IsFiniteSet(S), S # {}
  PROVE  \E x \in S : SumFunctionOnSet(f, S) = f[x] + SumFunctionOnSet(f, S \ {x})
<1>1. PICK g : Sums(f, g, S)
  BY SumsExist
<1>. DEFINE x == CHOOSE x \in S : TRUE
<1>2. x \in S
  OBVIOUS
<1>3. g[S] = f[x] + g[S \ {x}]
  BY <1>1 DEF Sums, Adds
<1>4. SumFunctionOnSet(f, S) = g[S] /\ SumFunctionOnSet(f, S \ {x}) = g[S \ {x}]
  <2>. HIDE DEF x
  <2>. QED
    BY <1>1, SumIsEntry
<1>. QED
  BY <1>2, <1>3, <1>4

(* A sum of integers can be taken apart at any of them. *)
LEMMA SumWithOut ==
  ASSUME NEW f, NEW S, IsFiniteSet(S), \A x \in S : f[x] \in Int
  PROVE  /\ SumFunctionOnSet(f, S) \in Int
         /\ \A x \in S : SumFunctionOnSet(f, S) = f[x] + SumFunctionOnSet(f, S \ {x})
<1>. DEFINE Good(T) == /\ SumFunctionOnSet(f, T) \in Int
                       /\ \A x \in T : SumFunctionOnSet(f, T) = f[x] + SumFunctionOnSet(f, T \ {x})
            F == {T \in SUBSET S : ~ Good(T)}
<1>1. SUFFICES ASSUME F # {} PROVE FALSE
  OBVIOUS
<1>2. \A T \in F : IsFiniteSet(T)
  BY FS_Subset
<1>3. PICK T \in F : \A U \in F : U \subseteq T => U = T
  <2>. HIDE DEF F
  <2>. QED
    BY <1>1, <1>2, Smallest
<1>4. T \in SUBSET S /\ \A U \in SUBSET T : U # T => Good(U)
  BY <1>3
<1>5. T # {}
  <2>1. SUFFICES ASSUME T = {} PROVE FALSE
    OBVIOUS
  <2>2. SumFunctionOnSet(f, T) = 0
    BY <2>1, SumOfNone, Zenon
  <2>. QED
    BY <1>3, <2>1, <2>2
<1>6. PICK y \in T : SumFunctionOnSet(f, T) = f[y] + SumFunctionOnSet(f, T \ {y})
  BY <1>2, <1>5, SumTakesOne
<1>7. Good(T \ {y}) /\ f[y] \in Int
  BY <1>4
<1>8. SumFunctionOnSet(f, T) \in Int
  BY <1>6, <1>7
<1>9. ASSUME NEW x \in T PROVE SumFunctionOnSet(f, T) = f[x] + SumFunctionOnSet(f, T \ {x})
  <2>1. CASE x = y
    BY <1>6, <2>1
  <2>2. CASE x # y
    <3>1. SumFunctionOnSet(f, T \ {y}) = f[x] + SumFunctionOnSet(f, (T \ {y}) \ {x})
      BY <1>7, <2>2
    <3>2. SumFunctionOnSet(f, T \ {x}) = f[y] + SumFunctionOnSet(f, (T \ {x}) \ {y})
      BY <1>4, <2>2
    <3>3. (T \ {y}) \ {x} = (T \ {x}) \ {y}
      OBVIOUS
    <3>4. SumFunctionOnSet(f, (T \ {x}) \ {y}) \in Int
      <4>1. (T \ {x}) \ {y} \in SUBSET T /\ (T \ {x}) \ {y} # T
        BY <2>2
      <4>. QED
        BY <1>4, <4>1
    <3>5. f[x] \in Int /\ f[y] \in Int
      BY <1>4
    <3>6. SumFunctionOnSet(f, T) = f[y] + (f[x] + SumFunctionOnSet(f, (T \ {x}) \ {y}))
      BY <1>6, <3>1, <3>3
    <3>. QED
      BY <3>2, <3>4, <3>5, <3>6
  <2>. QED
    BY <2>1, <2>2
<1>. QED
  BY <1>3, <1>8, <1>9

(* One more number adds itself to a sum of integers. *)
LEMMA SumWith ==
  ASSUME NEW f, NEW S, IsFiniteSet(S), NEW x, x \notin S, \A y \in S \union {x} : f[y] \in Int
  PROVE  SumFunctionOnSet(f, S \union {x}) = f[x] + SumFunctionOnSet(f, S)
<1>1. IsFiniteSet(S \union {x})
  BY FS_AddElement
<1>2. SumFunctionOnSet(f, S \union {x}) = f[x] + SumFunctionOnSet(f, (S \union {x}) \ {x})
  BY <1>1, SumWithOut
<1>3. (S \union {x}) \ {x} = S
  OBVIOUS
<1>. QED
  BY <1>2, <1>3

(* What is not summed does not matter.                                     *)
LEMMA SumDepends ==
  ASSUME NEW f, NEW g, NEW S, IsFiniteSet(S), \A x \in S : f[x] = g[x]
  PROVE  SumFunctionOnSet(f, S) = SumFunctionOnSet(g, S)
<1>1. PICK h : Sums(f, h, S)
  BY SumsExist
<1>2. \A s \in SUBSET S : Adds(f, h, s) = Adds(g, h, s)
  BY DEF Adds
<1>3. Sums(g, h, S)
  BY <1>1, <1>2 DEF Sums
<1>. QED
  BY <1>1, <1>3, SumIsEntry

(* A sum of natural numbers is one. *)
LEMMA SumOfNats ==
  ASSUME NEW f, NEW S, IsFiniteSet(S), \A x \in S : f[x] \in Nat
  PROVE  SumFunctionOnSet(f, S) \in Nat
<1>. DEFINE F == {T \in SUBSET S : SumFunctionOnSet(f, T) \notin Nat}
<1>1. SUFFICES ASSUME F # {} PROVE FALSE
  OBVIOUS
<1>2. \A T \in F : IsFiniteSet(T)
  BY FS_Subset
<1>3. PICK T \in F : \A U \in F : U \subseteq T => U = T
  <2>. HIDE DEF F
  <2>. QED
    BY <1>1, <1>2, Smallest
<1>4. T # {}
  <2>1. SUFFICES ASSUME T = {} PROVE FALSE
    OBVIOUS
  <2>2. SumFunctionOnSet(f, T) = 0
    BY <2>1, SumOfNone, Zenon
  <2>. QED
    BY <1>3, <2>1, <2>2
<1>5. PICK x \in T : SumFunctionOnSet(f, T) = f[x] + SumFunctionOnSet(f, T \ {x})
  BY <1>2, <1>4, SumTakesOne
<1>6. SumFunctionOnSet(f, T \ {x}) \in Nat /\ f[x] \in Nat
  BY <1>3
<1>. QED
  BY <1>3, <1>5, <1>6

(* A sum moves by as much as the one number that changes.                  *)
LEMMA SumMoves ==
  ASSUME NEW f, NEW g, NEW S, IsFiniteSet(S), NEW p \in S,
         \A x \in S : f[x] \in Int, \A x \in S : g[x] \in Int,
         \A x \in S : x # p => f[x] = g[x]
  PROVE  /\ SumFunctionOnSet(f, S) \in Int
         /\ SumFunctionOnSet(g, S) = SumFunctionOnSet(f, S) + (g[p] - f[p])
<1>. DEFINE R == S \ {p}
<1>1. IsFiniteSet(R)
  BY FS_Subset
<1>2. SumFunctionOnSet(f, R) = SumFunctionOnSet(g, R)
  BY <1>1, SumDepends
<1>3. /\ SumFunctionOnSet(f, S) \in Int /\ SumFunctionOnSet(f, R) \in Int
      /\ SumFunctionOnSet(f, S) = f[p] + SumFunctionOnSet(f, R)
  BY <1>1, SumWithOut
<1>4. SumFunctionOnSet(g, S) = g[p] + SumFunctionOnSet(g, R)
  BY SumWithOut
<1>5. f[p] \in Int /\ g[p] \in Int
  OBVIOUS
<1>. HIDE DEF R
<1>. QED
  BY <1>2, <1>3, <1>4, <1>5

(* Zeros add up to 0.                                                      *)
LEMMA SumOfZeros ==
  ASSUME NEW f, NEW S, IsFiniteSet(S), \A x \in S : f[x] = 0
  PROVE  SumFunctionOnSet(f, S) = 0
<1>. DEFINE F == {T \in SUBSET S : SumFunctionOnSet(f, T) # 0}
<1>1. SUFFICES ASSUME F # {} PROVE FALSE
  OBVIOUS
<1>2. \A T \in F : IsFiniteSet(T)
  BY FS_Subset
<1>3. PICK T \in F : \A U \in F : U \subseteq T => U = T
  <2>. HIDE DEF F
  <2>. QED
    BY <1>1, <1>2, Smallest
<1>4. T # {}
  <2>1. SUFFICES ASSUME T = {} PROVE FALSE
    OBVIOUS
  <2>2. SumFunctionOnSet(f, T) = 0
    BY <2>1, SumOfNone, Zenon
  <2>. QED
    BY <1>3, <2>2
<1>5. PICK x \in T : SumFunctionOnSet(f, T) = f[x] + SumFunctionOnSet(f, T \ {x})
  BY <1>2, <1>4, SumTakesOne
<1>6. SumFunctionOnSet(f, T \ {x}) = 0 /\ f[x] = 0
  BY <1>3
<1>. QED
  BY <1>3, <1>5, <1>6

(* Zeros can be left out of a sum. *)
LEMMA SumIgnoresZeros ==
  ASSUME NEW f, NEW S, IsFiniteSet(S), NEW T \in SUBSET S,
         \A x \in S : f[x] \in Int, \A x \in S \ T : f[x] = 0
  PROVE  SumFunctionOnSet(f, S) = SumFunctionOnSet(f, T)
<1>. DEFINE F == {U \in SUBSET S : T \subseteq U /\ SumFunctionOnSet(f, U) # SumFunctionOnSet(f, T)}
<1>1. SUFFICES ASSUME F # {} PROVE FALSE
  OBVIOUS
<1>2. \A U \in F : IsFiniteSet(U)
  BY FS_Subset
<1>3. PICK U \in F : \A V \in F : V \subseteq U => V = U
  <2>. HIDE DEF F
  <2>. QED
    BY <1>1, <1>2, Smallest
<1>4. PICK x \in U : x \notin T
  BY <1>3
<1>5. SumFunctionOnSet(f, U) = f[x] + SumFunctionOnSet(f, U \ {x})
      /\ SumFunctionOnSet(f, U \ {x}) \in Int
  <2>1. IsFiniteSet(U) /\ IsFiniteSet(U \ {x})
    BY <1>2, FS_Subset
  <2>2. \A y \in U : f[y] \in Int
    OBVIOUS
  <2>. QED
    BY <2>1, <2>2, SumWithOut
<1>6. SumFunctionOnSet(f, U \ {x}) = SumFunctionOnSet(f, T)
  <2>1. U \ {x} \in SUBSET S /\ T \subseteq U \ {x} /\ U \ {x} # U
    BY <1>4
  <2>. QED
    BY <1>3, <2>1
<1>7. f[x] = 0
  BY <1>4
<1>. QED
  BY <1>3, <1>5, <1>6, <1>7
(* A finite set of things that are numbered has one with the highest number. *)
LEMMA GreatestValue ==
  ASSUME NEW S, IsFiniteSet(S), S # {}, NEW f, \A x \in S : f[x] \in Nat
  PROVE  \E x \in S : \A y \in S : f[y] <= f[x]
<1>. DEFINE F == {T \in SUBSET S : T # {} /\ ~ \E x \in T : \A y \in T : f[y] <= f[x]}
<1>1. SUFFICES ASSUME F # {} PROVE FALSE
  OBVIOUS
<1>2. \A T \in F : IsFiniteSet(T)
  BY FS_Subset
<1>3. PICK T \in F : \A U \in F : U \subseteq T => U = T
  <2>. HIDE DEF F
  <2>. QED
    BY <1>1, <1>2, Smallest
<1>4. PICK x \in T : TRUE
  OBVIOUS
<1>5. T \ {x} # {}
  <2>1. SUFFICES ASSUME T = {x} PROVE FALSE
    BY <1>4
  <2>2. f[x] <= f[x]
    OBVIOUS
  <2>. QED
    BY <2>1, <2>2, <1>4
<1>6. PICK z \in T \ {x} : \A y \in T \ {x} : f[y] <= f[z]
  <2>1. T \ {x} \in SUBSET S /\ T \ {x} \subseteq T /\ T \ {x} # T
    BY <1>4
  <2>. QED
    BY <1>3, <1>5, <2>1
<1>7. f[x] \in Nat /\ f[z] \in Nat /\ x \in T /\ z \in T
  BY <1>4, <1>6
<1>8. CASE f[x] <= f[z]
  BY <1>3, <1>6, <1>7, <1>8
<1>9. CASE f[z] <= f[x]
  <2>1. \A y \in T \ {x} : f[y] \in Nat /\ f[y] <= f[x]
    BY <1>6, <1>7, <1>9
  <2>2. \A y \in T : f[y] <= f[x]
    BY <1>7, <2>1
  <2>. QED
    BY <1>3, <1>7, <2>2
<1>. QED
  BY <1>7, <1>8, <1>9

(* A sum grows with what is summed, by as much as any part of it does. *)
LEMMA SumGrows ==
  ASSUME NEW f, NEW g, NEW S, IsFiniteSet(S), \A x \in S : f[x] \in Int, \A x \in S : g[x] \in Int,
         \A x \in S : f[x] <= g[x]
  PROVE  /\ SumFunctionOnSet(f, S) <= SumFunctionOnSet(g, S)
         /\ \A x \in S : SumFunctionOnSet(f, S) + (g[x] - f[x]) <= SumFunctionOnSet(g, S)
<1>. DEFINE F == {T \in SUBSET S : ~ SumFunctionOnSet(f, T) <= SumFunctionOnSet(g, T)}
<1>1. \A T \in SUBSET S : SumFunctionOnSet(f, T) <= SumFunctionOnSet(g, T)
  <2>1. SUFFICES ASSUME F # {} PROVE FALSE
    OBVIOUS
  <2>2. \A T \in F : IsFiniteSet(T)
    BY FS_Subset
  <2>3. PICK T \in F : \A U \in F : U \subseteq T => U = T
    <3>. HIDE DEF F
    <3>. QED
      BY <2>1, <2>2, Smallest
  <2>4. T # {}
    <3>1. SUFFICES ASSUME T = {} PROVE FALSE
      OBVIOUS
    <3>2. SumFunctionOnSet(f, T) = 0 /\ SumFunctionOnSet(g, T) = 0
      BY <3>1, SumOfNone, Zenon
    <3>. QED
      BY <2>3, <3>2
  <2>5. PICK x \in T : TRUE
    BY <2>4
  <2>6. /\ SumFunctionOnSet(f, T) = f[x] + SumFunctionOnSet(f, T \ {x})
        /\ SumFunctionOnSet(g, T) = g[x] + SumFunctionOnSet(g, T \ {x})
    <3>1. IsFiniteSet(T) /\ (\A y \in T : f[y] \in Int) /\ \A y \in T : g[y] \in Int
      BY <2>2
    <3>. QED
      BY <2>5, <3>1, SumWithOut
  <2>7. SumFunctionOnSet(f, T \ {x}) \in Int /\ SumFunctionOnSet(g, T \ {x}) \in Int
    <3>1. IsFiniteSet(T \ {x}) /\ (\A y \in T \ {x} : f[y] \in Int) /\ \A y \in T \ {x} : g[y] \in Int
      BY <2>2, FS_Subset
    <3>. QED
      BY <3>1, SumWithOut
  <2>8. SumFunctionOnSet(f, T \ {x}) <= SumFunctionOnSet(g, T \ {x})
    <3>1. T \ {x} \in SUBSET S /\ T \ {x} \subseteq T /\ T \ {x} # T
      BY <2>5
    <3>. QED
      BY <2>3, <3>1
  <2>9. f[x] \in Int /\ g[x] \in Int /\ f[x] <= g[x]
    BY <2>5
  <2>10. SumFunctionOnSet(f, T) <= SumFunctionOnSet(g, T)
    BY <2>6, <2>7, <2>8, <2>9
  <2>. QED
    BY <2>3, <2>10
<1>2. ASSUME NEW x \in S
      PROVE  SumFunctionOnSet(f, S) + (g[x] - f[x]) <= SumFunctionOnSet(g, S)
  <2>1. /\ SumFunctionOnSet(f, S) = f[x] + SumFunctionOnSet(f, S \ {x})
        /\ SumFunctionOnSet(g, S) = g[x] + SumFunctionOnSet(g, S \ {x})
    BY SumWithOut
  <2>2. SumFunctionOnSet(f, S \ {x}) \in Int /\ SumFunctionOnSet(g, S \ {x}) \in Int
    <3>1. IsFiniteSet(S \ {x}) /\ (\A y \in S \ {x} : f[y] \in Int) /\ \A y \in S \ {x} : g[y] \in Int
      BY FS_Subset
    <3>. QED
      BY <3>1, SumWithOut
  <2>3. SumFunctionOnSet(f, S \ {x}) <= SumFunctionOnSet(g, S \ {x})
    BY <1>1
  <2>4. f[x] \in Int /\ g[x] \in Int
    OBVIOUS
  <2>. QED
    BY <2>1, <2>2, <2>3, <2>4
<1>. QED
  BY <1>1, <1>2

(* No part of a sum of natural numbers is more than the sum. *)
LEMMA PartOfSum ==
  ASSUME NEW f, NEW S, IsFiniteSet(S), \A x \in S : f[x] \in Nat
  PROVE  \A x \in S : f[x] <= SumFunctionOnSet(f, S)
<1>. TAKE x \in S
<1>1. SumFunctionOnSet(f, S) = f[x] + SumFunctionOnSet(f, S \ {x})
  BY SumWithOut
<1>2. SumFunctionOnSet(f, S \ {x}) \in Nat
  <2>1. IsFiniteSet(S \ {x}) /\ \A y \in S \ {x} : f[y] \in Nat
    BY FS_Subset
  <2>. QED
    BY <2>1, SumOfNats
<1>3. f[x] \in Nat
  OBVIOUS
<1>. QED
  BY <1>1, <1>2, <1>3

(* What is spent, with the most that those inside may still add, does not  *)
(* pass what the cap and all actors allow: nobody gets in at the cap, and  *)
(* who leaves adds no more than was counted for it.                        *)
LEMMA OvershootKept ==
  ASSUME NEW A, IsFiniteSet(A), NEW S \in SUBSET A, NEW T,
         NEW cap \in Nat, NEW m \in Nat, NEW x \in Nat, NEW y \in Nat,
         x + m * Cardinality(S) <= cap - 1 + m * Cardinality(A),
         \/ y = x /\ T = S
         \/ x < cap /\ y = x /\ \E a \in A : T = S \union {a}
         \/ \E a \in S : T = S \ {a} /\ \E k \in 0 .. m : y = x + k
  PROVE  T \in SUBSET A /\ y + m * Cardinality(T) <= cap - 1 + m * Cardinality(A)
<1>1. T \in SUBSET A
  OBVIOUS
<1>2. \A i, j \in Nat : i <= j => m * i <= m * j
  OBVIOUS
<1>3. /\ Cardinality(S) \in Nat /\ Cardinality(T) \in Nat /\ Cardinality(A) \in Nat
      /\ Cardinality(T) <= Cardinality(A)
  BY <1>1, FS_Subset, FS_CardinalityType
<1>4. /\ m * Cardinality(S) \in Nat /\ m * Cardinality(T) \in Nat
      /\ m * Cardinality(A) \in Nat /\ m * Cardinality(T) <= m * Cardinality(A)
  BY <1>2, <1>3
<1>5. CASE x < cap /\ y = x
  BY <1>1, <1>4, <1>5
<1>6. ASSUME NEW a \in S, T = S \ {a}, NEW k \in 0 .. m, y = x + k
      PROVE  y + m * Cardinality(T) <= cap - 1 + m * Cardinality(A)
  <2>1. Cardinality(T) = Cardinality(S) - 1
    BY <1>6, FS_Subset, FS_RemoveElement
  <2>2. m * Cardinality(T) = m * Cardinality(S) - m
    BY <1>3, <2>1
  <2>. QED
    BY <1>4, <1>6, <2>2
<1>. QED
  BY <1>1, <1>5, <1>6
===============================================================================
