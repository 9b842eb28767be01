----------------------------- MODULE DataLemmas -----------------------------
(***************************************************************************)
(* What proofs about several components need to know of data: induction    *)
(* over numbers and finite sets, the largest of some numbers, sums of a    *)
(* function over a finite set (SumFunction of the community modules).      *)
(*                                                                         *)
(* Induction is over sets here, not over predicates: a set that holds      *)
(* whatever its predecessors make it hold holds everything.                *)
(***************************************************************************)
EXTENDS Integers, FiniteSets, Functions, FiniteSetTheorems, WellFoundedInduction, TLAPS

----------------------------------------------------------------------------
(* Induction.                                                              *)

LEMMA LeastNumber ==
  ASSUME NEW T, T \subseteq Nat, T # {}
  PROVE  \E n \in T : \A m \in T : ~(m < n)
<1>1. \E n \in T : \A m \in T : ~(<<m, n>> \in OpToRel(<, Nat))
  BY NatLessThanWellFounded, WFMin
<1> QED BY <1>1 DEF OpToRel

LEMMA NumbersInduct ==
  ASSUME NEW Good, 0 \in Good, \A n \in Nat : n \in Good => n + 1 \in Good
  PROVE  Nat \subseteq Good
<1> SUFFICES ASSUME Nat \ Good # {} PROVE FALSE
  OBVIOUS
<1>1. PICK n \in Nat \ Good : \A m \in Nat \ Good : ~(m < n)
  BY LeastNumber
<1>2. n - 1 \in Nat /\ n - 1 \in Good
  BY <1>1
<1> QED BY <1>1, <1>2

\* g starts with x0 and goes on with what R makes of the value before.
Iterates(g, x0, N, R) == g[0] = x0 /\ \A i \in 1 .. N : g[i] = R[<<g[i - 1], i>>]

\* A recursive function that counts up from 0 is there, if what it is made of
\* stays in a set.
LEMMA IteratesExist ==
  ASSUME NEW X, NEW x0 \in X, NEW N \in Nat, NEW R \in [X \X (1 .. N) -> X]
  PROVE  \E g \in [0 .. N -> X] : Iterates(g, x0, N, R)
<1>0. \A x \in X, i \in 1 .. N : R[<<x, i>>] \in X
  OBVIOUS
<1> DEFINE Upto(g, n) == g[0] = x0 /\ \A i \in 1 .. n : g[i] = R[<<g[i - 1], i>>]
           Good == {n \in Nat : n <= N => \E g \in [0 .. n -> X] : Upto(g, n)}
<1>1. 0 \in Good
  <2>1. [i \in 0 .. 0 |-> x0] \in [0 .. 0 -> X] /\ Upto([i \in 0 .. 0 |-> x0], 0)
    OBVIOUS
  <2> QED BY <2>1
<1>2. ASSUME NEW n \in Nat, n \in Good PROVE n + 1 \in Good
  <2> SUFFICES ASSUME n + 1 <= N PROVE \E g \in [0 .. n + 1 -> X] : Upto(g, n + 1)
    OBVIOUS
  <2>1. PICK g \in [0 .. n -> X] : Upto(g, n)
    BY <1>2
  <2> DEFINE last == R[<<g[n], n + 1>>]
             h    == [i \in 0 .. n + 1 |-> IF i = n + 1 THEN last ELSE g[i]]
  <2>2. last \in X
    BY <1>0, <2>1
  <2>3. h \in [0 .. n + 1 -> X]
    BY <2>2
  <2>4. h[0] = x0 /\ h[n + 1] = last /\ h[n] = g[n]
    BY <2>1
  <2>5. ASSUME NEW i \in 1 .. n PROVE h[i] = R[<<h[i - 1], i>>]
    <3>1. h[i] = g[i] /\ h[i - 1] = g[i - 1]
      OBVIOUS
    <3> QED BY <2>1, <3>1
  <2> HIDE DEF h
  <2>6. ASSUME NEW i \in 1 .. n + 1 PROVE h[i] = R[<<h[i - 1], i>>]
    <3>1. CASE i = n + 1
      BY <2>4, <3>1
    <3>2. CASE i \in 1 .. n
      BY <2>5, <3>2
    <3> QED BY <3>1, <3>2
  <2> QED BY <2>3, <2>4, <2>6
<1> HIDE DEF Good
<1>3. Nat \subseteq Good
  BY <1>1, <1>2, NumbersInduct
<1>4. \E g \in [0 .. N -> X] : Upto(g, N)
  <2>1. N \in Good
    BY <1>3
  <2> QED BY <2>1 DEF Good
<1> QED BY <1>4 DEF Iterates

LEMMA SubsetsInduct ==
  ASSUME NEW S, IsFiniteSet(S), NEW Good,
         \A U \in SUBSET S : (\A V \in SUBSET U : V # U => V \in Good) => U \in Good
  PROVE  SUBSET S \subseteq Good
<1> SUFFICES ASSUME (SUBSET S) \ Good # {} PROVE FALSE
  OBVIOUS
<1>1. IsWellFoundedOn(StrictSubsetOrdering(S), SUBSET S)
  <2>1. FiniteSubsetsOf(S) = SUBSET S
    BY FS_FiniteSubsetsOfFinite
  <2>2. IsWellFoundedOn(StrictSubsetOrdering(S), FiniteSubsetsOf(S))
    BY FS_StrictSubsetOrderingWellFounded
  <2> QED BY <2>1, <2>2, Zenon
<1> DEFINE Bad == (SUBSET S) \ Good
<1>2. PICK U \in Bad : \A V \in Bad : <<V, U>> \notin StrictSubsetOrdering(S)
  <2>1. Bad \subseteq SUBSET S /\ Bad # {}
    OBVIOUS
  <2> HIDE DEF Bad
  <2> QED BY <1>1, <2>1, WFMin
<1> QED BY <1>2 DEF StrictSubsetOrdering

\* The largest of some numbers.
LEMMA LargestExists ==
  ASSUME NEW S, IsFiniteSet(S), S \subseteq Int, NEW T \in SUBSET S, T # {}
  PROVE  \E m \in T : \A j \in T : j <= m
<1> DEFINE HasMax(U) == \E m \in U : \A j \in U : j <= m
           Good == {U \in SUBSET S : U # {} => HasMax(U)}
<1>1. ASSUME NEW U \in SUBSET S, \A V \in SUBSET U : V # U => V \in Good
      PROVE  U \in Good
  <2> SUFFICES ASSUME U # {} PROVE HasMax(U)
    OBVIOUS
  <2>1. PICK x \in U : TRUE
    OBVIOUS
  <2>2. U \ {x} = {} \/ HasMax(U \ {x})
    <3> DEFINE V == U \ {x}
    <3>1. V \in SUBSET U /\ V # U
      BY <2>1
    <3> HIDE DEF V
    <3>2. V \in Good
      BY <1>1, <3>1
    <3>3. V = {} \/ HasMax(V)
      BY <3>2
    <3> QED BY <3>3 DEF V
  <2>3. CASE U \ {x} = {}
    <3>1. \A j \in U : j = x
      BY <2>3
    <3> QED BY <2>1, <3>1
  <2>4. CASE HasMax(U \ {x})
    <3>1. PICK m \in U \ {x} : \A j \in U \ {x} : j <= m
      BY <2>4
    <3>2. CASE x <= m
      BY <3>1, <3>2
    <3>3. CASE m <= x
      <4>1. \A j \in U : j <= x
        BY <3>1, <3>3
      <4> QED BY <4>1
    <3> QED BY <3>2, <3>3
  <2> QED BY <2>2, <2>3, <2>4
<1> HIDE DEF Good
<1>2. SUBSET S \subseteq Good
  BY <1>1, SubsetsInduct
<1> QED BY <1>2 DEF Good

----------------------------------------------------------------------------
(* Sums.                                                                   *)

\* The element of s that is added next.
Pick(s) == CHOOSE x \in s : TRUE

\* g has the sums of f over the subsets of S.
SumsOf(g, f, S) ==
  g = [s \in SUBSET S |-> IF s = {} THEN 0 ELSE f[Pick(s)] + g[s \ {Pick(s)}]]

LEMMA Picked == \A s : s # {} => Pick(s) \in s
BY DEF Pick

\* There are such sums: there are up to any number of elements.
LEMMA SumsExist ==
  ASSUME NEW S, IsFiniteSet(S), NEW f
  PROVE  \E g : SumsOf(g, f, S)
<1> DEFINE Right(g, s) == g[s] = IF s = {} THEN 0 ELSE f[Pick(s)] + g[s \ {Pick(s)}]
           Good == {n \in Nat : \E g : \A s \in SUBSET S : Cardinality(s) <= n => Right(g, s)}
<1>1. \A s \in SUBSET S : IsFiniteSet(s) /\ Cardinality(s) \in Nat /\ (Cardinality(s) = 0 <=> s = {})
  BY FS_Subset, FS_CardinalityType, FS_EmptySet
<1>2. \A s \in SUBSET S : s # {} =>
        s \ {Pick(s)} \in SUBSET S /\ Cardinality(s \ {Pick(s)}) = Cardinality(s) - 1
  BY <1>1, Picked, FS_RemoveElement
<1>3. 0 \in Good
  <2> DEFINE g == [s \in SUBSET S |-> 0]
  <2>1. \A s \in SUBSET S : Cardinality(s) <= 0 => Right(g, s)
    BY <1>1
  <2> HIDE DEF g, Right
  <2> QED BY <2>1
<1>4. ASSUME NEW n \in Nat, n \in Good PROVE n + 1 \in Good
  <2>1. PICK g : \A s \in SUBSET S : Cardinality(s) <= n => Right(g, s)
    BY <1>4
  <2> DEFINE h == [s \in SUBSET S |-> IF s = {} THEN 0 ELSE f[Pick(s)] + g[s \ {Pick(s)}]]
  <2>2. ASSUME NEW s \in SUBSET S, Cardinality(s) <= n + 1 PROVE Right(h, s)
    <3>1. CASE s = {}
      BY <3>1
    <3>2. CASE s # {}
      <4> DEFINE t == s \ {Pick(s)}
      <4>1. t \in SUBSET S /\ Cardinality(t) <= n
        BY <1>1, <1>2, <2>2, <3>2
      <4>2. Right(g, t)
        BY <2>1, <4>1
      <4>3. h[t] = g[t]
        BY <4>1, <4>2
      <4> QED BY <3>2, <4>3
    <3> QED BY <3>1, <3>2
  <2> HIDE DEF h, Right
  <2> QED BY <2>2
<1>5. Cardinality(S) \in Good
  <2> HIDE DEF Good
  <2> QED BY <1>1, <1>3, <1>4, NumbersInduct
<1>6. PICK g : \A s \in SUBSET S : Cardinality(s) <= Cardinality(S) => Right(g, s)
  BY <1>5
<1>7. \A s \in SUBSET S : Right(g, s)
  BY <1>6, FS_Subset
<1> DEFINE h == [s \in SUBSET S |-> g[s]]
<1>8. h = [s \in SUBSET S |-> IF s = {} THEN 0 ELSE f[Pick(s)] + h[s \ {Pick(s)}]]
  <2>1. \A s \in SUBSET S : s \ {Pick(s)} \in SUBSET S
    OBVIOUS
  <2>2. \A s \in SUBSET S : h[s] = IF s = {} THEN 0 ELSE f[Pick(s)] + h[s \ {Pick(s)}]
    BY <1>7, <2>1
  <2> QED BY <2>2
<1> HIDE DEF h
<1> QED BY <1>8 DEF SumsOf

LEMMA SumFunctionSums ==
  ASSUME NEW f, IsFiniteSet(DOMAIN f)
  PROVE  \E g : SumsOf(g, f, DOMAIN f) /\ SumFunction(f) = g[DOMAIN f]
<1> DEFINE S == DOMAIN f
<1>1. \E g : SumsOf(g, f, S)
  BY SumsExist
<1> DEFINE iter == CHOOSE g : SumsOf(g, f, S)
<1>2. SumsOf(iter, f, S)
  BY <1>1
<1>3. SumFunction(f) = iter[S]
  BY DEF SumFunction, SumFunctionOnSet, FoldFunctionOnSet, MapThenFoldSet, SumsOf, Pick
<1> HIDE DEF iter
<1> QED BY <1>2, <1>3

LEMMA SumsStep ==
  ASSUME NEW S, NEW f, NEW g, SumsOf(g, f, S), NEW s \in SUBSET S
  PROVE  /\ s = {} => g[s] = 0
         /\ s # {} => Pick(s) \in s /\ g[s] = f[Pick(s)] + g[s \ {Pick(s)}]
BY Picked DEF SumsOf

LEMMA SumsInt ==
  ASSUME NEW S, IsFiniteSet(S), NEW f, \A x \in S : f[x] \in Int, NEW g, SumsOf(g, f, S)
  PROVE  \A s \in SUBSET S : g[s] \in Int
<1> DEFINE Good == {s \in SUBSET S : g[s] \in Int}
<1>1. ASSUME NEW s \in SUBSET S, \A t \in SUBSET s : t # s => t \in Good
      PROVE  s \in Good
  <2>1. CASE s = {}
    <3>1. g[s] = 0
      BY <2>1, SumsStep
    <3> QED BY <3>1
  <2>2. CASE s # {}
    <3>1. Pick(s) \in s /\ g[s] = f[Pick(s)] + g[s \ {Pick(s)}]
      BY <2>2, SumsStep
    <3>2. f[Pick(s)] \in Int /\ g[s \ {Pick(s)}] \in Int
      BY <1>1, <3>1
    <3> QED BY <3>1, <3>2
  <2> QED BY <2>1, <2>2
<1> HIDE DEF Good
<1>2. SUBSET S \subseteq Good
  BY <1>1, SubsetsInduct
<1> QED BY <1>2 DEF Good

LEMMA SumsNat ==
  ASSUME NEW S, IsFiniteSet(S), NEW f, \A x \in S : f[x] \in Nat, NEW g, SumsOf(g, f, S)
  PROVE  \A s \in SUBSET S : g[s] \in Nat
<1> DEFINE Good == {s \in SUBSET S : g[s] \in Nat}
<1>1. ASSUME NEW s \in SUBSET S, \A t \in SUBSET s : t # s => t \in Good
      PROVE  s \in Good
  <2>1. CASE s = {}
    <3>1. g[s] = 0
      BY <2>1, SumsStep
    <3> QED BY <3>1
  <2>2. CASE s # {}
    <3>1. Pick(s) \in s /\ g[s] = f[Pick(s)] + g[s \ {Pick(s)}]
      BY <2>2, SumsStep
    <3>2. f[Pick(s)] \in Nat /\ g[s \ {Pick(s)}] \in Nat
      BY <1>1, <3>1
    <3> QED BY <3>1, <3>2
  <2> QED BY <2>1, <2>2
<1> HIDE DEF Good
<1>2. SUBSET S \subseteq Good
  BY <1>1, SubsetsInduct
<1> QED BY <1>2 DEF Good

\* It does not matter which element is added first.
LEMMA SumsTakeOut ==
  ASSUME NEW S, IsFiniteSet(S), NEW f, \A x \in S : f[x] \in Int, NEW g, SumsOf(g, f, S)
  PROVE  \A s \in SUBSET S : \A a \in s : g[s] = f[a] + g[s \ {a}]
<1> DEFINE Good == {s \in SUBSET S : \A a \in s : g[s] = f[a] + g[s \ {a}]}
<1>1. ASSUME NEW s \in SUBSET S, \A t \in SUBSET s : t # s => t \in Good
      PROVE  s \in Good
  <2> SUFFICES ASSUME NEW a \in s PROVE g[s] = f[a] + g[s \ {a}]
    OBVIOUS
  <2> DEFINE x == Pick(s)
  <2>1. x \in s /\ g[s] = f[x] + g[s \ {x}]
    BY SumsStep
  <2>2. CASE x = a
    BY <2>1, <2>2
  <2>3. CASE x # a
    <3>1. s \ {x} \in Good /\ a \in s \ {x} /\ s \ {a} \in Good /\ x \in s \ {a}
      BY <1>1, <2>1, <2>3
    <3>2. /\ g[s \ {x}] = f[a] + g[(s \ {x}) \ {a}]
          /\ g[s \ {a}] = f[x] + g[(s \ {a}) \ {x}]
      BY <3>1
    <3> DEFINE rest == s \ {x, a}
    <3>3. (s \ {x}) \ {a} = rest /\ (s \ {a}) \ {x} = rest /\ rest \in SUBSET S
      OBVIOUS
    <3>4. f[a] \in Int /\ f[x] \in Int /\ g[rest] \in Int
      BY <2>1, <3>3, SumsInt
    <3>5. g[s \ {x}] = f[a] + g[rest] /\ g[s \ {a}] = f[x] + g[rest]
      BY <3>2, <3>3
    <3> HIDE DEF x, rest
    <3> QED BY <2>1, <3>4, <3>5
  <2> QED BY <2>2, <2>3
<1> HIDE DEF Good
<1>2. SUBSET S \subseteq Good
  BY <1>1, SubsetsInduct
<1> QED BY <1>2 DEF Good

\* A sum depends on what is summed only.
LEMMA SumsAgree ==
  ASSUME NEW S, NEW T, IsFiniteSet(S), NEW f, NEW h, NEW g, NEW k, SumsOf(g, f, S), SumsOf(k, h, T),
         NEW r \in SUBSET S, r \subseteq T, \A x \in r : f[x] = h[x]
  PROVE  g[r] = k[r]
<1> DEFINE Good == {s \in SUBSET S : s \subseteq T /\ (\A x \in s : f[x] = h[x]) => g[s] = k[s]}
<1>1. ASSUME NEW s \in SUBSET S, \A t \in SUBSET s : t # s => t \in Good
      PROVE  s \in Good
  <2> SUFFICES ASSUME s \subseteq T, \A x \in s : f[x] = h[x] PROVE g[s] = k[s]
    OBVIOUS
  <2>1. CASE s = {}
    BY <2>1, SumsStep
  <2>2. CASE s # {}
    <3>1. Pick(s) \in s
      BY <2>2, Picked
    <3>2. f[Pick(s)] = h[Pick(s)] /\ g[s \ {Pick(s)}] = k[s \ {Pick(s)}]
      BY <1>1, <3>1
    <3>3. g[s] = f[Pick(s)] + g[s \ {Pick(s)}] /\ k[s] = h[Pick(s)] + k[s \ {Pick(s)}]
      BY <2>2, SumsStep
    <3> QED BY <3>2, <3>3
  <2> QED BY <2>1, <2>2
<1> HIDE DEF Good
<1>2. SUBSET S \subseteq Good
  BY <1>1, SubsetsInduct
<1>3. r \in Good
  BY <1>2
<1> QED BY <1>3 DEF Good

----------------------------------------------------------------------------
(* What proofs cite.                                                       *)

LEMMA SumType ==
  ASSUME NEW S, IsFiniteSet(S), NEW f \in [S -> Nat]
  PROVE  SumFunction(f) \in Nat
<1>1. DOMAIN f = S /\ \A x \in S : f[x] \in Nat
  OBVIOUS
<1>2. PICK g : SumsOf(g, f, S) /\ SumFunction(f) = g[S]
  BY <1>1, SumFunctionSums
<1> QED BY <1>1, <1>2, SumsNat

\* A function and its value somewhere: the sum is made of it and of the rest.
LEMMA SumSplit ==
  ASSUME NEW S, IsFiniteSet(S), NEW f \in [S -> Int], NEW h \in [S -> Int], NEW a \in S,
         \A x \in S \ {a} : h[x] = f[x]
  PROVE  /\ SumFunction(f) \in Int
         /\ SumFunction(h) = SumFunction(f) + h[a] - f[a]
<1>1. DOMAIN f = S /\ DOMAIN h = S /\ \A x \in S : f[x] \in Int /\ h[x] \in Int
  OBVIOUS
<1>2. PICK g : SumsOf(g, f, S) /\ SumFunction(f) = g[S]
  BY <1>1, SumFunctionSums
<1>3. PICK k : SumsOf(k, h, S) /\ SumFunction(h) = k[S]
  BY <1>1, SumFunctionSums
<1> DEFINE r == S \ {a}
<1>4. /\ r \in SUBSET S /\ r \subseteq S /\ S \in SUBSET S /\ S \ {a} = r
      /\ \A x \in r : f[x] = h[x]
  OBVIOUS
<1> HIDE DEF r
<1>5. g[S] = f[a] + g[r] /\ k[S] = h[a] + k[r]
  <2>1. g[S] = f[a] + g[r]
    BY <1>1, <1>2, <1>4, SumsTakeOut
  <2>2. k[S] = h[a] + k[r]
    BY <1>1, <1>3, <1>4, SumsTakeOut
  <2> QED BY <2>1, <2>2
<1>6. k[r] = g[r]
  BY <1>2, <1>3, <1>4, SumsAgree
<1>7. g[r] \in Int /\ f[a] \in Int /\ h[a] \in Int
  BY <1>1, <1>2, <1>4, SumsInt
<1> QED BY <1>2, <1>3, <1>5, <1>6, <1>7

\* What goes from one place to another, or back to the same, leaves the sum.
LEMMA SumMoves ==
  ASSUME NEW S, IsFiniteSet(S), NEW f \in [S -> Int], NEW h \in [S -> Int],
         NEW a \in S, NEW b \in S,
         a = b => h[a] = f[a], a # b => h[a] + h[b] = f[a] + f[b],
         \A x \in S \ {a, b} : h[x] = f[x]
  PROVE  SumFunction(f) \in Int /\ SumFunction(h) = SumFunction(f)
<1>1. CASE a = b
  <2>1. \A x \in S \ {a} : h[x] = f[x]
    BY <1>1
  <2>2. SumFunction(f) \in Int /\ SumFunction(h) = SumFunction(f) + h[a] - f[a]
    BY <2>1, SumSplit
  <2>3. h[a] = f[a] /\ f[a] \in Int
    BY <1>1
  <2> QED BY <2>2, <2>3
<1>2. CASE a # b
  <2> DEFINE less == [x \in S |-> IF x = a THEN h[a] ELSE f[x]]
  <2>1. less \in [S -> Int] /\ \A x \in S \ {a} : less[x] = f[x]
    OBVIOUS
  <2>2. \A x \in S \ {b} : h[x] = less[x]
    BY <1>2
  <2>3. less[a] = h[a] /\ less[b] = f[b]
    BY <1>2
  <2>4. f[a] \in Int /\ f[b] \in Int /\ h[a] \in Int /\ h[b] \in Int /\ h[a] + h[b] = f[a] + f[b]
    BY <1>2
  <2> HIDE DEF less
  <2>5. SumFunction(f) \in Int /\ SumFunction(less) = SumFunction(f) + less[a] - f[a]
    BY <2>1, SumSplit
  <2>6. SumFunction(h) = SumFunction(less) + h[b] - less[b]
    BY <2>1, <2>2, SumSplit
  <2> QED BY <2>3, <2>4, <2>5, <2>6
<1> QED BY <1>1, <1>2

LEMMA SumOfZeros ==
  ASSUME NEW S, IsFiniteSet(S)
  PROVE  SumFunction([x \in S |-> 0]) = 0
<1> DEFINE f == [x \in S |-> 0]
<1>1. DOMAIN f = S /\ \A x \in S : f[x] = 0
  OBVIOUS
<1> HIDE DEF f
<1>2. PICK g : SumsOf(g, f, S) /\ SumFunction(f) = g[S]
  BY <1>1, SumFunctionSums
<1> DEFINE Good == {s \in SUBSET S : g[s] = 0}
<1>3. ASSUME NEW s \in SUBSET S, \A t \in SUBSET s : t # s => t \in Good
      PROVE  s \in Good
  <2>1. CASE s = {}
    BY <1>2, <2>1, SumsStep
  <2>2. CASE s # {}
    <3>1. Pick(s) \in s
      BY <2>2, Picked
    <3>2. f[Pick(s)] = 0 /\ g[s \ {Pick(s)}] = 0
      BY <1>1, <1>3, <3>1
    <3> QED BY <1>2, <2>2, <3>2, SumsStep
  <2> QED BY <2>1, <2>2
<1> HIDE DEF Good
<1>4. SUBSET S \subseteq Good
  BY <1>3, SubsetsInduct
<1>5. S \in SUBSET S
  OBVIOUS
<1> QED BY <1>2, <1>4, <1>5 DEF Good, f

\* No part is more than the sum.
LEMMA SumBounds ==
  ASSUME NEW S, IsFiniteSet(S), NEW f \in [S -> Nat], NEW a \in S
  PROVE  f[a] <= SumFunction(f)
<1>1. DOMAIN f = S /\ \A x \in S : f[x] \in Nat
  OBVIOUS
<1>2. PICK g : SumsOf(g, f, S) /\ SumFunction(f) = g[S]
  BY <1>1, SumFunctionSums
<1> DEFINE r == S \ {a}
<1>3. r \in SUBSET S /\ S \in SUBSET S
  OBVIOUS
<1>4. g[S] = f[a] + g[r]
  BY <1>1, <1>2, <1>3, SumsTakeOut
<1>5. g[r] \in Nat /\ f[a] \in Nat
  BY <1>1, <1>2, <1>3, SumsNat
<1> HIDE DEF r
<1> QED BY <1>2, <1>4, <1>5

\* h is f with a value for a besides.
Grown(S, a, f, h) ==
  /\ IsFiniteSet(S) /\ a \notin S /\ DOMAIN f = S /\ DOMAIN h = S \cup {a}
  /\ h[a] \in Int /\ \A x \in S : f[x] \in Int /\ h[x] = f[x]

\* One more is added to what is summed.
LEMMA SumExtends ==
  ASSUME NEW S, NEW a, NEW f, NEW h, Grown(S, a, f, h)
  PROVE  SumFunction(h) = SumFunction(f) + h[a]
<1> DEFINE U == S \cup {a}
<1>1. /\ DOMAIN f = S /\ \A x \in S : f[x] \in Int
      /\ DOMAIN h = U /\ \A x \in U : h[x] \in Int /\ IsFiniteSet(U)
      /\ IsFiniteSet(S) /\ a \notin S
  BY FS_AddElement DEF Grown
<1>2. PICK g : SumsOf(g, f, S) /\ SumFunction(f) = g[S]
  BY <1>1, SumFunctionSums
<1>3. PICK k : SumsOf(k, h, U) /\ SumFunction(h) = k[U]
  BY <1>1, SumFunctionSums
<1>4. U \in SUBSET U /\ a \in U /\ U \ {a} = S /\ S \in SUBSET U /\ S \subseteq U
      /\ S \in SUBSET S
  BY <1>1
<1> HIDE DEF U
<1>5. k[U] = h[a] + k[S]
  BY <1>1, <1>3, <1>4, SumsTakeOut
<1>6. g[S] = k[S]
  <2>1. IsFiniteSet(S) /\ SumsOf(g, f, S) /\ SumsOf(k, h, U) /\ \A x \in S : f[x] = h[x]
    BY <1>2, <1>3 DEF Grown
  <2> QED BY <1>4, <2>1, SumsAgree
<1>7. g[S] \in Int /\ h[a] \in Int
  BY <1>1, <1>2, <1>4, SumsInt
<1> QED BY <1>2, <1>3, <1>5, <1>6, <1>7
=============================================================================
