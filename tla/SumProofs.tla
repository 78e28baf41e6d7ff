----------------------------- MODULE SumProofs -----------------------------
(***************************************************************************)
(* What the models need to know of sums over any finite set.               *)
(*                                                                         *)
(* The induction theorems of the library take an operator as parameter,    *)
(* which the provers cannot instantiate.  The fact they rest on can be     *)
(* cited: among the subsets of a finite set, strict inclusion is well      *)
(* founded.  Each induction below takes the set of counterexamples and     *)
(* looks at a minimal one.                                                 *)
(***************************************************************************)
EXTENDS Integers, FiniteSets, Functions, FiniteSetTheorems, WellFoundedInduction, TLAPS

\* A set of subsets that has the empty set, and has each subset that has an element
\* without which it is in the set, is the set of all subsets: induction over a finite set.
LEMMA SubsetInduction ==
  ASSUME NEW S, IsFiniteSet(S), NEW P \in SUBSET SUBSET S,
         \A T \in SUBSET S : (\A U \in SUBSET T : U # T => U \in P) => T \in P
  PROVE  P = SUBSET S
<1> DEFINE Bad == (SUBSET S) \ P
<1> SUFFICES ASSUME Bad # {}
             PROVE  FALSE
  OBVIOUS
<1>1. \A T \in SUBSET S : IsFiniteSet(T)
  BY FS_Subset
<1>2. Bad \subseteq FiniteSubsetsOf(S)
  BY <1>1 DEF FiniteSubsetsOf
<1>3. PICK T \in Bad : \A U \in Bad : ~ (<<U, T>> \in StrictSubsetOrdering(S))
  <2> HIDE DEF Bad
  <2> QED
    BY <1>2, FS_StrictSubsetOrderingWellFounded, WFMin
<1>4. \A U \in SUBSET T : U # T => U \in P
  BY <1>1, <1>3 DEF StrictSubsetOrdering
<1> QED
  BY <1>3, <1>4

\* A set of numbers that is not empty has a least element.
LEMMA LeastNumber ==
  ASSUME NEW T \in SUBSET Nat, T # {}
  PROVE  \E n \in T : \A m \in T : n <= m
<1> DEFINE Upto == {0 .. n : n \in T}
<1>1. Upto \subseteq FiniteSubsetsOf(Nat) /\ Upto # {}
  <2>1. \A n \in T : IsFiniteSet(0 .. n) /\ 0 .. n \subseteq Nat
    BY FS_Interval
  <2> QED
    BY <2>1 DEF FiniteSubsetsOf
<1>2. PICK U \in Upto : \A V \in Upto : ~ (<<V, U>> \in StrictSubsetOrdering(Nat))
  <2> HIDE DEF Upto
  <2> QED
    BY <1>1, FS_StrictSubsetOrderingWellFounded, WFMin
<1>3. PICK n \in T : U = 0 .. n
  BY <1>2
<1>4. \A m \in T : ~ (m < n)
  <2> SUFFICES ASSUME NEW m \in T, m < n
               PROVE  FALSE
    OBVIOUS
  <2>1. 0 .. m \subseteq 0 .. n /\ n \in 0 .. n /\ n \notin 0 .. m
    OBVIOUS
  <2>2. 0 .. m \in SUBSET Nat /\ 0 .. n \in SUBSET Nat
    OBVIOUS
  <2>3. <<0 .. m, 0 .. n>> \in StrictSubsetOrdering(Nat)
    BY <2>1, <2>2 DEF StrictSubsetOrdering
  <2> QED
    BY <1>2, <1>3, <2>3
<1> QED
  BY <1>4

\* What holds of 0, and of n + 1 whenever it holds of n, holds of every number.
LEMMA NumberInduction ==
  ASSUME NEW P \in SUBSET Nat, 0 \in P, \A n \in P : n + 1 \in P
  PROVE  P = Nat
<1> SUFFICES ASSUME Nat \ P # {}
             PROVE  FALSE
  OBVIOUS
<1>1. PICK n \in Nat \ P : \A m \in Nat \ P : n <= m
  BY LeastNumber
<1>2. n # 0 /\ n - 1 \in Nat /\ n - 1 \in P
  BY <1>1
<1> QED
  BY <1>1, <1>2

\* A finite set has at most one element when its elements are all the same.
LEMMA AtMostOneElement ==
  ASSUME NEW S, IsFiniteSet(S)
  PROVE  Cardinality(S) <= 1 <=> \A c, d \in S : c = d
<1>1. ASSUME Cardinality(S) <= 1
      PROVE  \A c, d \in S : c = d
  <2>1. Cardinality(S) = 0 \/ Cardinality(S) = 1
    BY <1>1, FS_CardinalityType
  <2> QED
    BY <2>1, FS_EmptySet, FS_Singleton
<1>2. ASSUME \A c, d \in S : c = d
      PROVE  Cardinality(S) <= 1
  <2>1. CASE S = {}
    BY <2>1, FS_EmptySet
  <2>2. ASSUME NEW c \in S
        PROVE  Cardinality(S) <= 1
    <3>1. S = {c}
      BY <1>2
    <3> QED
      BY <3>1, FS_Singleton
  <2> QED
    BY <2>1, <2>2
<1> QED
  BY <1>1, <1>2

-----------------------------------------------------------------------------
\* The element the fold takes next, and what makes g the fold of f over the sets D.
First(s) == CHOOSE x \in s : TRUE
Sums(g, f, D) == g = [s \in D |-> IF s = {} THEN 0 ELSE f[First(s)] + g[s \ {First(s)}]]

\* The element the fold takes next is one of the set.
LEMMA FirstIn ==
  ASSUME NEW s, s # {}
  PROVE  First(s) \in s
  BY DEF First

UpTo(S, n) == {s \in SUBSET S : Cardinality(s) <= n}

\* The recursion of the fold defines a function: one for the subsets of at most n
\* elements extends to those of n + 1.
LEMMA FoldExists ==
  ASSUME NEW S, IsFiniteSet(S), NEW f
  PROVE  \E g : Sums(g, f, SUBSET S)
<1>0. \A s \in SUBSET S : IsFiniteSet(s) /\ Cardinality(s) \in Nat
  BY FS_Subset, FS_CardinalityType
<1> DEFINE P == {n \in Nat : \E g : Sums(g, f, UpTo(S, n))}
<1>1. 0 \in P
  <2> DEFINE g == [s \in UpTo(S, 0) |-> 0]
  <2>1. \A s \in UpTo(S, 0) : s = {}
    BY <1>0, FS_EmptySet DEF UpTo
  <2>2. g = [s \in UpTo(S, 0) |-> IF s = {} THEN 0 ELSE f[First(s)] + g[s \ {First(s)}]]
    BY <2>1
  <2>3. Sums(g, f, UpTo(S, 0))
    BY <2>2 DEF Sums
  <2> QED
    BY <2>3
<1>2. \A n \in P : n + 1 \in P
  <2> SUFFICES ASSUME NEW n \in Nat, NEW g, Sums(g, f, UpTo(S, n))
               PROVE  \E h : Sums(h, f, UpTo(S, n + 1))
    OBVIOUS
  <2> DEFINE h == [s \in UpTo(S, n + 1) |-> IF s = {} THEN 0 ELSE f[First(s)] + g[s \ {First(s)}]]
  <2>1. ASSUME NEW s \in UpTo(S, n + 1), s # {}
        PROVE  s \ {First(s)} \in UpTo(S, n)
    BY <1>0, <2>1, FirstIn, FS_RemoveElement DEF UpTo
  <2>2. ASSUME NEW s \in UpTo(S, n)
        PROVE  s \in UpTo(S, n + 1) /\ h[s] = g[s]
    <3>1. s \in UpTo(S, n + 1)
      BY <1>0 DEF UpTo
    <3>2. g[s] = IF s = {} THEN 0 ELSE f[First(s)] + g[s \ {First(s)}]
      BY DEF Sums
    <3> QED
      BY <3>1, <3>2
  <2>3. h = [s \in UpTo(S, n + 1) |-> IF s = {} THEN 0 ELSE f[First(s)] + h[s \ {First(s)}]]
    BY <2>1, <2>2
  <2>4. Sums(h, f, UpTo(S, n + 1))
    BY <2>3 DEF Sums
  <2> QED
    BY <2>4
<1>3. P = Nat
  <2> HIDE DEF P
  <2>1. P \in SUBSET Nat
    BY DEF P
  <2> QED
    BY <1>1, <1>2, <2>1, NumberInduction
<1>4. Cardinality(S) \in Nat /\ UpTo(S, Cardinality(S)) = SUBSET S
  BY <1>0, FS_Subset, FS_CardinalityType DEF UpTo
<1>5. Cardinality(S) \in P
  BY <1>3, <1>4
<1> QED
  BY <1>4, <1>5

\* So the fold of the library is one.
LEMMA SumIsFold ==
  ASSUME NEW f, IsFiniteSet(DOMAIN f)
  PROVE  \E g : Sums(g, f, SUBSET DOMAIN f) /\ SumFunction(f) = g[DOMAIN f]
<1> DEFINE g == CHOOSE h : Sums(h, f, SUBSET DOMAIN f)
<1>1. Sums(g, f, SUBSET DOMAIN f)
  BY FoldExists
<1>2. SumFunction(f) = g[DOMAIN f]
  BY DEF SumFunction, SumFunctionOnSet, FoldFunctionOnSet, MapThenFoldSet, Sums, First
<1> QED
  BY <1>1, <1>2

-----------------------------------------------------------------------------
\* A sum of integers is an integer, and changes by as much as one of its terms.
LEMMA SumStep ==
  ASSUME NEW S, IsFiniteSet(S), NEW f \in [S -> Int], NEW e \in [S -> Int], NEW a \in S,
         \A x \in S : x # a => e[x] = f[x]
  PROVE  /\ SumFunction(f) \in Int
         /\ SumFunction(e) = SumFunction(f) - f[a] + e[a]
<1>1. PICK g : Sums(g, f, SUBSET S) /\ SumFunction(f) = g[S]
  BY SumIsFold
<1>2. PICK h : Sums(h, e, SUBSET S) /\ SumFunction(e) = h[S]
  BY SumIsFold
<1> DEFINE P == {s \in SUBSET S : /\ g[s] \in Int
                                  /\ h[s] = IF a \in s THEN g[s] - f[a] + e[a] ELSE g[s]}
<1>3. ASSUME NEW T \in SUBSET S, \A U \in SUBSET T : U # T => U \in P
      PROVE  T \in P
  <2>1. CASE T = {}
    BY <1>1, <1>2, <2>1 DEF Sums
  <2>2. CASE T # {}
    <3> DEFINE c == First(T)  U == T \ {c}
    <3>1. c \in T /\ c \in S /\ U \in SUBSET T /\ U # T
      BY <2>2, FirstIn
    <3>2. g[T] = f[c] + g[U] /\ h[T] = e[c] + h[U]
      BY <1>1, <1>2, <2>2 DEF Sums
    <3>3. g[U] \in Int /\ h[U] = IF a \in U THEN g[U] - f[a] + e[a] ELSE g[U]
      BY <1>3, <3>1
    <3>4. /\ f[c] \in Int /\ f[a] \in Int /\ e[c] \in Int /\ e[a] \in Int
          /\ c # a => e[c] = f[c]
      BY <3>1
    <3>5. a \in T <=> (c = a \/ a \in U)
      BY <3>1
    <3>6. ~ (c = a /\ a \in U)
      OBVIOUS
    <3> HIDE DEF c, U
    <3>7. /\ g[T] \in Int
          /\ h[T] = IF a \in T THEN g[T] - f[a] + e[a] ELSE g[T]
      BY <3>2, <3>3, <3>4, <3>5, <3>6
    <3> QED
      BY <3>7
  <2> QED
    BY <2>1, <2>2
<1>4. S \in P
  <2> HIDE DEF P
  <2>1. P \in SUBSET SUBSET S
    BY DEF P
  <2>2. P = SUBSET S
    BY <1>3, <2>1, SubsetInduction
  <2> QED
    BY <2>2
<1> QED
  BY <1>1, <1>2, <1>4

\* A sum is at most another one if its terms are.
LEMMA SumMonotone ==
  ASSUME NEW S, IsFiniteSet(S), NEW f \in [S -> Int], NEW e \in [S -> Int],
         \A x \in S : f[x] <= e[x]
  PROVE  SumFunction(f) <= SumFunction(e)
<1>1. PICK g : Sums(g, f, SUBSET S) /\ SumFunction(f) = g[S]
  BY SumIsFold
<1>2. PICK h : Sums(h, e, SUBSET S) /\ SumFunction(e) = h[S]
  BY SumIsFold
<1> DEFINE P == {s \in SUBSET S : g[s] \in Int /\ h[s] \in Int /\ g[s] <= h[s]}
<1>3. ASSUME NEW T \in SUBSET S, \A U \in SUBSET T : U # T => U \in P
      PROVE  T \in P
  <2>1. CASE T = {}
    BY <1>1, <1>2, <2>1 DEF Sums
  <2>2. CASE T # {}
    <3> DEFINE c == First(T)  U == T \ {c}
    <3>1. c \in T /\ c \in S /\ U \in SUBSET T /\ U # T
      BY <2>2, FirstIn
    <3>2. g[T] = f[c] + g[U] /\ h[T] = e[c] + h[U]
      BY <1>1, <1>2, <2>2 DEF Sums
    <3>3. g[U] \in Int /\ h[U] \in Int /\ g[U] <= h[U]
      BY <1>3, <3>1
    <3>4. f[c] \in Int /\ e[c] \in Int /\ f[c] <= e[c]
      BY <3>1
    <3> HIDE DEF c, U
    <3> QED
      BY <3>2, <3>3, <3>4
  <2> QED
    BY <2>1, <2>2
<1>4. S \in P
  <2> HIDE DEF P
  <2>1. P \in SUBSET SUBSET S
    BY DEF P
  <2>2. P = SUBSET S
    BY <1>3, <2>1, SubsetInduction
  <2> QED
    BY <2>2
<1> QED
  BY <1>1, <1>2, <1>4

\* The sum of nothing but zeros is zero.
LEMMA SumOfZeros ==
  ASSUME NEW S, IsFiniteSet(S), NEW f \in [S -> Int], \A x \in S : f[x] = 0
  PROVE  SumFunction(f) = 0
<1>1. PICK g : Sums(g, f, SUBSET S) /\ SumFunction(f) = g[S]
  BY SumIsFold
<1> DEFINE P == {s \in SUBSET S : g[s] = 0}
<1>2. ASSUME NEW T \in SUBSET S, \A U \in SUBSET T : U # T => U \in P
      PROVE  T \in P
  <2>1. CASE T = {}
    BY <1>1, <2>1 DEF Sums
  <2>2. CASE T # {}
    <3>1. First(T) \in T /\ T \ {First(T)} \in SUBSET T /\ T \ {First(T)} # T
      BY <2>2, FirstIn
    <3>2. g[T] = f[First(T)] + g[T \ {First(T)}] /\ f[First(T)] = 0
      BY <1>1, <2>2, <3>1 DEF Sums
    <3> QED
      BY <1>2, <3>1, <3>2
  <2> QED
    BY <2>1, <2>2
<1>3. S \in P
  <2> HIDE DEF P
  <2>1. P \in SUBSET SUBSET S
    BY DEF P
  <2>2. P = SUBSET S
    BY <1>2, <2>1, SubsetInduction
  <2> QED
    BY <2>2
<1> QED
  BY <1>1, <1>3

\* A term is at most the sum, when no term is negative.
LEMMA TermAtMostSum ==
  ASSUME NEW S, IsFiniteSet(S), NEW f \in [S -> Nat], NEW a \in S
  PROVE  SumFunction(f) \in Nat /\ f[a] <= SumFunction(f)
<1> DEFINE z == [x \in S |-> 0]
           e == [x \in S |-> IF x = a THEN f[a] ELSE 0]
<1>1. /\ f \in [S -> Int] /\ z \in [S -> Int] /\ e \in [S -> Int]
      /\ f[a] \in Nat /\ z[a] = 0 /\ e[a] = f[a]
  OBVIOUS
<1>2. \A x \in S : /\ e[x] <= f[x] /\ z[x] = 0
                   /\ x # a => e[x] = z[x]
  OBVIOUS
<1> HIDE DEF z, e
<1>3. SumFunction(z) = 0
  BY <1>1, <1>2, SumOfZeros
<1>4. SumFunction(e) = f[a]
  BY <1>1, <1>2, <1>3, SumStep
<1>5. SumFunction(e) <= SumFunction(f)
  BY <1>1, <1>2, SumMonotone
<1>6. SumFunction(f) \in Int
  BY <1>1, SumStep
<1> QED
  BY <1>1, <1>4, <1>5, <1>6

\* No more terms are positive than the sum, when no term is negative.
LEMMA PositiveAtMostSum ==
  ASSUME NEW S, IsFiniteSet(S), NEW f \in [S -> Nat]
  PROVE  Cardinality({x \in S : f[x] > 0}) <= SumFunction(f)
<1> DEFINE One(T) == [x \in S |-> IF x \in T THEN 1 ELSE 0]
           P == {T \in SUBSET S : SumFunction(One(T)) = Cardinality(T)}
<1>1. \A T : One(T) \in [S -> Int]
  OBVIOUS
<1>2. ASSUME NEW T \in SUBSET S, \A U \in SUBSET T : U # T => U \in P
      PROVE  T \in P
  <2>1. CASE T = {}
    <3>1. \A x \in S : One(T)[x] = 0
      BY <2>1
    <3>2. SumFunction(One(T)) = 0
      <4> HIDE DEF One
      <4> QED
        BY <1>1, <3>1, SumOfZeros
    <3> QED
      BY <2>1, <3>2, FS_EmptySet
  <2>2. CASE T # {}
    <3>1. PICK c \in T : TRUE
      BY <2>2
    <3> DEFINE U == T \ {c}
    <3>2. c \in S /\ U \in SUBSET T /\ U # T /\ SumFunction(One(U)) = Cardinality(U)
      BY <1>2, <3>1
    <3>3. IsFiniteSet(T) /\ Cardinality(T) \in Nat /\ Cardinality(U) = Cardinality(T) - 1
      BY <3>1, FS_Subset, FS_CardinalityType, FS_RemoveElement
    <3>4. /\ One(T)[c] = 1 /\ One(U)[c] = 0
          /\ \A x \in S : x # c => One(T)[x] = One(U)[x]
      BY <3>2
    <3> HIDE DEF One, U
    <3>5. SumFunction(One(T)) = SumFunction(One(U)) - 0 + 1
      BY <1>1, <3>2, <3>4, SumStep
    <3>6. SumFunction(One(T)) = Cardinality(T)
      BY <3>2, <3>3, <3>5
    <3> QED
      BY <3>6
  <2> QED
    BY <2>1, <2>2
<1>3. SUBSET S = P
  <2> HIDE DEF P
  <2>1. P \in SUBSET SUBSET S
    BY DEF P
  <2> QED
    BY <1>2, <2>1, SubsetInduction
<1> DEFINE T == {x \in S : f[x] > 0}
<1>4. SumFunction(One(T)) = Cardinality(T)
  BY <1>3
<1>5. f \in [S -> Int] /\ \A x \in S : One(T)[x] <= f[x]
  OBVIOUS
<1> HIDE DEF One, P
<1>6. SumFunction(One(T)) <= SumFunction(f)
  BY <1>1, <1>5, SumMonotone
<1> QED
  BY <1>4, <1>6
=============================================================================
