---------------------------- MODULE Foundations ----------------------------
(***************************************************************************)
(* What the proofs share: least elements, induction, recursion and sums.   *)
(*                                                                         *)
(* Induction is stated of a set of naturals and recursion of a function    *)
(* that makes the step, so that a use gives a set or a function and not an *)
(* operator.                                                               *)
(***************************************************************************)
EXTENDS Powers, Integers, FiniteSetsExt, FiniteSetTheorems, WellFoundedInduction, TLAPS

\* The least element of a set of naturals that is not empty is an element of
\* it, below all the others.
LEMMA MinIsMember ==
    ASSUME NEW S \in SUBSET Nat, S # {}
    PROVE  Min(S) \in S /\ \A i \in S : Min(S) <= i
<1>1. PICK x \in S : \A y \in S : ~ (<<y, x>> \in OpToRel(<, Nat))
  BY NatLessThanWellFounded, WFMin
<1>2. \A y \in S : x <= y
  <2>1. SUFFICES ASSUME NEW y \in S PROVE x <= y
    OBVIOUS
  <2>2. x \in Nat /\ y \in Nat  OBVIOUS
  <2>3. ~ (y < x)
    <3>1. SUFFICES ASSUME y < x PROVE FALSE
      OBVIOUS
    <3>2. <<y, x>> \in OpToRel(<, Nat)  BY <2>2, <3>1, Zenon DEF OpToRel
    <3> QED  BY <1>1, <3>2
  <2> QED  BY <2>2, <2>3
<1> QED  BY <1>2 DEF Min

\* The greatest element of a set of naturals below a bound is an element of
\* it, above all the others.
LEMMA MaxIsMember ==
    ASSUME NEW n \in Nat, NEW S \in SUBSET (0 .. n), S # {}
    PROVE  Max(S) \in S /\ \A i \in S : i <= Max(S)
<1> DEFINE T == {n - i : i \in S}
<1>1. T \in SUBSET Nat /\ T # {}
  <2>1. \A i \in S : n - i \in Nat  OBVIOUS
  <2>2. \A j \in T : j \in Nat  BY <2>1
  <2>3. PICK x : x \in S  OBVIOUS
  <2>4. n - x \in T  BY <2>3
  <2> QED  BY <2>2, <2>4
<1>2. Min(T) \in T /\ \A i \in T : Min(T) <= i
  <2> HIDE DEF T
  <2> QED  BY <1>1, MinIsMember
<1>3. PICK x \in S : Min(T) = n - x
  BY <1>2
<1>4. \A y \in S : x >= y
  <2>1. SUFFICES ASSUME NEW y \in S PROVE x >= y
    OBVIOUS
  <2>2. n - y \in T  OBVIOUS
  <2>3. n - x <= n - y
    <3> HIDE DEF T
    <3> QED  BY <1>2, <1>3, <2>2
  <2> QED  BY <2>3
<1>5. Max(S) = CHOOSE m \in S : \A y \in S : m >= y
  BY DEF Max
<1>6. Max(S) \in S /\ \A y \in S : Max(S) >= y
  <2> HIDE DEF T
  <2> QED  BY <1>4, <1>5, Zenon
<1> QED  BY <1>6

---------------------------------------------------------------------------
\* Induction: a set of naturals with 0 and every successor is all of them.
LEMMA NatInd ==
    ASSUME NEW S \in SUBSET Nat, 0 \in S, \A n \in S : n + 1 \in S
    PROVE  S = Nat
<1> DEFINE Rest == Nat \ S
<1>1. SUFFICES ASSUME Rest # {} PROVE FALSE
  OBVIOUS
<1>2. Min(Rest) \in Rest /\ \A i \in Rest : Min(Rest) <= i
  <2>1. Rest \in SUBSET Nat  OBVIOUS
  <2> HIDE DEF Rest
  <2> QED  BY <1>1, <2>1, MinIsMember
<1>3. PICK m \in Rest : \A i \in Rest : m <= i
  BY <1>2
<1>4. m - 1 \in Nat /\ m - 1 \notin Rest
  BY <1>3
<1>5. m - 1 \in S
  BY <1>4
<1> QED  BY <1>3, <1>5

\* The same up to a bound.
LEMMA BoundedInd ==
    ASSUME NEW n \in Nat, NEW S \in SUBSET (0 .. n), 0 \in S,
           \A i \in 0 .. n - 1 : i \in S => i + 1 \in S
    PROVE  S = 0 .. n
<1> DEFINE T == {i \in Nat : i <= n => i \in S}
<1>1. T \in SUBSET Nat /\ 0 \in T  OBVIOUS
<1>2. \A i \in T : i + 1 \in T  OBVIOUS
<1>3. T = Nat
  <2> HIDE DEF T
  <2> QED  BY <1>1, <1>2, NatInd
<1>4. ASSUME NEW i \in 0 .. n PROVE i \in S
  <2>1. i \in T  BY <1>3
  <2> QED  BY <2>1
<1> QED  BY <1>4

\* A recursion of n steps over values in V, and a function that follows it
\* from a first value.
Steps(V, n) == [(1 .. n) \X V -> V]
Follows(f, V, base, n, step) == /\ f \in [0 .. n -> V]
                                /\ f[0] = base
                                /\ \A i \in 1 .. n : f[i] = step[<<i, f[i - 1]>>]

\* A function that begins with a value and continues by a step exists.
LEMMA RecursionExists ==
    ASSUME NEW V, NEW base \in V, NEW n \in Nat, NEW step \in Steps(V, n)
    PROVE  \E f : Follows(f, V, base, n, step)
<1> DEFINE Upto(k, f) == /\ f[0] = base
                         /\ \A i \in 1 .. k : f[i] = step[<<i, f[i - 1]>>]
           Buildable(k) == \E f \in [0 .. n -> V] : Upto(k, f)
           Built == {k \in 0 .. n : Buildable(k)}
<1>1. 0 \in Built
  <2>1. [i \in 0 .. n |-> base] \in [0 .. n -> V] /\ Upto(0, [i \in 0 .. n |-> base])  OBVIOUS
  <2>2. Buildable(0)  BY <2>1, Zenon
  <2> HIDE DEF Buildable
  <2> QED  BY <2>2
<1>2. ASSUME NEW k \in 0 .. n - 1, k \in Built PROVE k + 1 \in Built
  <2>0. Buildable(k)
    <3> HIDE DEF Buildable
    <3> QED  BY <1>2
  <2>1. PICK f \in [0 .. n -> V] : Upto(k, f)
    BY <2>0, Zenon
  <2> DEFINE g == [f EXCEPT ![k + 1] = step[<<k + 1, f[k]>>]]
  <2>2. step[<<k + 1, f[k]>>] \in V
    <3>1. <<k + 1, f[k]>> \in (1 .. n) \X V  OBVIOUS
    <3> QED  BY <3>1 DEF Steps
  <2>3. g \in [0 .. n -> V]
    BY <2>2
  <2>4. g[k + 1] = step[<<k + 1, f[k]>>] /\ \A i \in 0 .. k : g[i] = f[i]
    OBVIOUS
  <2>5. Upto(k + 1, g)
    <3>1. ASSUME NEW i \in 1 .. k + 1 PROVE g[i] = step[<<i, g[i - 1]>>]
      <4>1. CASE i = k + 1
        <5>1. g[i - 1] = f[k]  BY <4>1, <2>4
        <5> HIDE DEF g
        <5> QED  BY <4>1, <5>1, <2>4
      <4>2. CASE i \in 1 .. k
        <5>1. g[i] = f[i] /\ g[i - 1] = f[i - 1]  BY <4>2, <2>4
        <5> HIDE DEF g
        <5> QED  BY <4>2, <5>1, <2>1
      <4> QED  BY <4>1, <4>2
    <3>2. g[0] = base
      BY <2>1, <2>4
    <3> HIDE DEF g
    <3> QED  BY <3>1, <3>2
  <2>6. Buildable(k + 1)  BY <2>3, <2>5, Zenon
  <2> HIDE DEF Buildable
  <2> QED  BY <2>6
<1>3. Built = 0 .. n
  <2>1. Built \in SUBSET (0 .. n)  OBVIOUS
  <2>2. \A i \in 0 .. n - 1 : i \in Built => i + 1 \in Built  BY <1>2
  <2> HIDE DEF Built
  <2> QED  BY <1>1, <2>1, <2>2, BoundedInd
<1>4. Buildable(n)
  <2> HIDE DEF Buildable
  <2> QED  BY <1>3
<1>5. PICK f \in [0 .. n -> V] : Upto(n, f)
  BY <1>4, Zenon
<1>6. Follows(f, V, base, n, step)
  BY <1>5, Zenon DEF Follows
<1> QED  BY <1>6

---------------------------------------------------------------------------
(* Powers of two *)

\* g doubles from 1 up to g[n].
Doubles(g, n) == g \in [0 .. n -> Nat] /\ g[0] = 1 /\ \A i \in 1 .. n : g[i] = 2 * g[i - 1]

\* There is such a function for every n, and two of them agree.
LEMMA DoublesAgree ==
    ASSUME NEW n \in Nat
    PROVE  /\ \E g : Doubles(g, n)
           /\ \A m \in 0 .. n : \A g, h : Doubles(g, n) /\ Doubles(h, m) => g[m] = h[m]
<1>1. \E g : Doubles(g, n)
  <2> DEFINE step == [p \in (1 .. n) \X Nat |-> 2 * p[2]]
  <2>1. step \in Steps(Nat, n)  BY DEF Steps
  <2>2. \A i \in 1 .. n, x \in Nat : step[<<i, x>>] = 2 * x  OBVIOUS
  <2> HIDE DEF step
  <2>3. PICK g : Follows(g, Nat, 1, n, step)  BY <2>1, RecursionExists
  <2>4. \A i \in 1 .. n : g[i] = 2 * g[i - 1]
    <3>1. \A i \in 1 .. n : g[i - 1] \in Nat  BY <2>3 DEF Follows
    <3> QED  BY <2>2, <2>3, <3>1 DEF Follows
  <2>5. Doubles(g, n)  BY <2>3, <2>4 DEF Follows, Doubles
  <2> QED  BY <2>5
<1>2. ASSUME NEW m \in 0 .. n, NEW g, NEW h, Doubles(g, n), Doubles(h, m) PROVE g[m] = h[m]
  <2> DEFINE S == {i \in 0 .. m : g[i] = h[i]}
  <2>1. S \in SUBSET (0 .. m) /\ 0 \in S  BY <1>2 DEF Doubles
  <2>2. ASSUME NEW i \in 0 .. m - 1, i \in S PROVE i + 1 \in S
    <3>1. i + 1 \in 1 .. m /\ i + 1 \in 1 .. n /\ (i + 1) - 1 = i  OBVIOUS
    <3>2. g[i + 1] = 2 * g[i] /\ h[i + 1] = 2 * h[i]  BY <1>2, <3>1 DEF Doubles
    <3> QED  BY <2>2, <3>1, <3>2
  <2> HIDE DEF S
  <2>3. S = 0 .. m  BY <2>1, <2>2, BoundedInd
  <2> QED  BY <2>3 DEF S
<1> QED  BY <1>1, <1>2

\* Pow2 is what its definition says.
LEMMA PowStep ==
    /\ Pow2 \in [Nat -> Nat] /\ Pow2[0] = 1
    /\ \A n \in Nat : Pow2[n + 1] = 2 * Pow2[n]
<1> DEFINE Body(f) == [n \in Nat |-> IF n = 0 THEN 1 ELSE 2 * f[n - 1]]
           g(n) == CHOOSE h : Doubles(h, n)
           f == [n \in Nat |-> g(n)[n]]
<1>1. \A n \in Nat : Doubles(g(n), n)
  <2>1. SUFFICES ASSUME NEW n \in Nat PROVE Doubles(g(n), n)
    OBVIOUS
  <2>2. \E h : Doubles(h, n)  BY DoublesAgree
  <2> QED  BY <2>2, Zenon
<1>2. \A n \in Nat : f[n] \in Nat  BY <1>1 DEF Doubles
<1>3. f[0] = 1  BY <1>1 DEF Doubles
<1>4. ASSUME NEW n \in Nat PROVE f[n + 1] = 2 * f[n]
  <2>1. n + 1 \in Nat /\ n \in 0 .. n + 1 /\ n + 1 \in 1 .. n + 1 /\ (n + 1) - 1 = n  OBVIOUS
  <2>2. Doubles(g(n), n) /\ Doubles(g(n + 1), n + 1)  BY <1>1, <2>1
  <2> HIDE DEF g
  <2>3. g(n + 1)[n + 1] = 2 * g(n + 1)[n]  BY <2>1, <2>2 DEF Doubles
  <2>4. g(n + 1)[n] = g(n)[n]  BY <2>1, <2>2, DoublesAgree
  <2> QED  BY <2>1, <2>3, <2>4
<1>5. f = Body(f)
  <2>1. ASSUME NEW n \in Nat PROVE f[n] = Body(f)[n]
    <3>1. CASE n = 0  BY <1>3, <3>1
    <3>2. CASE n # 0
      <4>1. n - 1 \in Nat /\ (n - 1) + 1 = n  BY <3>2
      <4>2. f[n] = 2 * f[n - 1]  BY <1>4, <4>1
      <4> HIDE DEF f
      <4> QED  BY <3>2, <4>2
    <3> QED  BY <3>1, <3>2
  <2>2. f = [n \in Nat |-> f[n]] /\ Body(f) = [n \in Nat |-> Body(f)[n]]  OBVIOUS
  <2> HIDE DEF f, Body
  <2> QED  BY <2>1, <2>2
<1>6. Pow2 = Body(Pow2)
  <2>1. Pow2 = CHOOSE h : h = Body(h)  BY DEF Pow2
  <2> HIDE DEF Body, f
  <2> QED  BY <1>5, <2>1
<1>7. Pow2[0] = 1
  <2>1. Body(Pow2)[0] = 1  OBVIOUS
  <2> HIDE DEF Body
  <2> QED  BY <1>6, <2>1
<1>8. ASSUME NEW n \in Nat PROVE Pow2[n + 1] = 2 * Pow2[n]
  <2>1. n + 1 \in Nat /\ n + 1 # 0 /\ (n + 1) - 1 = n  OBVIOUS
  <2>2. Body(Pow2)[n + 1] = 2 * Pow2[n]  BY <2>1
  <2> HIDE DEF Body
  <2> QED  BY <1>6, <2>2
<1>9. Pow2 \in [Nat -> Nat]
  <2> DEFINE S == {n \in Nat : Pow2[n] \in Nat}
  <2>1. S \in SUBSET Nat /\ 0 \in S  BY <1>7
  <2>2. \A n \in S : n + 1 \in S  BY <1>8
  <2> HIDE DEF S
  <2>3. S = Nat  BY <2>1, <2>2, NatInd
  <2>4. Pow2 = [n \in Nat |-> Pow2[n]]
    <3>1. Body(Pow2) = [n \in Nat |-> Body(Pow2)[n]]  OBVIOUS
    <3> HIDE DEF Body
    <3> QED  BY <1>6, <3>1
  <2>5. \A n \in Nat : Pow2[n] \in Nat  BY <2>3 DEF S
  <2> QED  BY <2>4, <2>5
<1> QED  BY <1>7, <1>8, <1>9

\* Powers are positive and add their exponents.
LEMMA PowSum ==
    ASSUME NEW m \in Nat
    PROVE  /\ Pow2[m] \in Nat \ {0}
           /\ \A n \in Nat : Pow2[m + n] = Pow2[m] * Pow2[n]
<1>1. \A n \in Nat : Pow2[n] \in Nat \ {0}
  <2> DEFINE S == {n \in Nat : Pow2[n] \in Nat \ {0}}
  <2>1. S \in SUBSET Nat /\ 0 \in S  BY PowStep
  <2>2. ASSUME NEW n \in S PROVE n + 1 \in S
    <3>1. n \in Nat /\ Pow2[n] \in Nat \ {0} /\ Pow2[n + 1] = 2 * Pow2[n]  BY PowStep
    <3> QED  BY <3>1
  <2> HIDE DEF S
  <2>3. S = Nat  BY <2>1, <2>2, NatInd
  <2> QED  BY <2>3 DEF S
<1> DEFINE T == {n \in Nat : Pow2[m + n] = Pow2[m] * Pow2[n]}
<1>2. T \in SUBSET Nat /\ 0 \in T
  <2>1. m + 0 = m /\ Pow2[m] * 1 = Pow2[m]  BY <1>1
  <2> QED  BY <2>1, PowStep
<1>3. ASSUME NEW n \in T PROVE n + 1 \in T
  <2>1. n \in Nat /\ m + n \in Nat /\ m + (n + 1) = (m + n) + 1 /\ Pow2[m + n] = Pow2[m] * Pow2[n]
    OBVIOUS
  <2>2. Pow2[m + (n + 1)] = 2 * Pow2[m + n] /\ Pow2[n + 1] = 2 * Pow2[n]  BY <2>1, PowStep
  <2>3. \A a, b \in Nat : 2 * (a * b) = a * (2 * b)  OBVIOUS
  <2>4. Pow2[m] \in Nat /\ Pow2[n] \in Nat  BY <1>1, <2>1
  <2>5. Pow2[m + (n + 1)] = Pow2[m] * Pow2[n + 1]  BY <2>1, <2>2, <2>3, <2>4
  <2> QED  BY <2>1, <2>5
<1> HIDE DEF T
<1>4. T = Nat  BY <1>2, <1>3, NatInd
<1> QED  BY <1>1, <1>4 DEF T

---------------------------------------------------------------------------
\* The element a fold over a set takes first.
First(T) == CHOOSE x \in T : TRUE

\* f is the sum of w over the subsets of S, taken in the order of the folds of
\* the community modules.
Sums(f, w, S) ==
    /\ f \in [SUBSET S -> Nat] /\ f[{}] = 0
    /\ \A T \in SUBSET S : T # {} => f[T] = w[First(T)] + f[T \ {First(T)}]

\* g is the fold itself, over the subsets of R.
IsFold(g, v, R) == g = [T \in SUBSET R |-> IF T = {} THEN 0 ELSE v[First(T)] + g[T \ {First(T)}]]

SameOn(v, w, R) == \A x \in R : v[x] = w[x]

\* The first element of a set that is not empty is one of it.
LEMMA FirstIsMember == \A T : T # {} => First(T) \in T
BY DEF First

\* Sums over the subsets of a finite set exist.
LEMMA SumsExist ==
    ASSUME NEW S, IsFiniteSet(S), NEW w \in [S -> Nat]
    PROVE  \E f : Sums(f, w, S)
<1> DEFINE n == Cardinality(S)
           V == [SUBSET S -> Nat]
           base == [T \in SUBSET S |-> 0]
           more(g) == [T \in SUBSET S |-> IF T = {} THEN 0 ELSE w[First(T)] + g[T \ {First(T)}]]
           step == [p \in (1 .. n) \X V |-> more(p[2])]
<1>1. n \in Nat /\ \A T \in SUBSET S : IsFiniteSet(T) /\ Cardinality(T) \in Nat /\ Cardinality(T) <= n
  BY FS_CardinalityType, FS_Subset
<1>2. base \in V  OBVIOUS
<1>3. \A g \in V : more(g) \in V
  BY FirstIsMember
<1> HIDE DEF V, more, n
<1>4. step \in Steps(V, n)
  BY <1>3 DEF Steps
<1>5. PICK g : Follows(g, V, base, n, step)
  BY <1>1, <1>2, <1>4, RecursionExists
<1>6. g \in [0 .. n -> V] /\ \A k \in 1 .. n : g[k] = more(g[k - 1])
  <2>1. g \in [0 .. n -> V] /\ \A k \in 1 .. n : g[k] = step[<<k, g[k - 1]>>]
    BY <1>5 DEF Follows
  <2>2. \A k \in 1 .. n : k - 1 \in 0 .. n  BY <1>1
  <2>3. \A k \in 1 .. n : <<k, g[k - 1]>> \in (1 .. n) \X V  BY <2>1, <2>2
  <2> QED  BY <2>1, <2>3
<1> DEFINE f == [T \in SUBSET S |-> IF T = {} THEN 0 ELSE g[Cardinality(T)][T]]
<1>7. f \in [SUBSET S -> Nat]
  <2> SUFFICES ASSUME NEW T \in SUBSET S, T # {} PROVE g[Cardinality(T)][T] \in Nat
    OBVIOUS
  <2>1. Cardinality(T) \in 0 .. n  BY <1>1
  <2>2. g[Cardinality(T)] \in V  BY <1>6, <2>1
  <2> QED  BY <2>2 DEF V
<1>8. ASSUME NEW T \in SUBSET S, T # {} PROVE f[T] = w[First(T)] + f[T \ {First(T)}]
  <2> DEFINE x == First(T)
             k == Cardinality(T)
  <2>1. x \in T  BY <1>8, FirstIsMember
  <2>2. k \in 1 .. n /\ Cardinality(T \ {x}) = k - 1
    BY <1>1, <1>8, <2>1, FS_EmptySet, FS_RemoveElement
  <2>3. T \ {x} \in SUBSET S  OBVIOUS
  <2> HIDE DEF x, k
  <2>4. g[k] = more(g[k - 1])  BY <1>6, <2>2
  <2>5. more(g[k - 1])[T] = w[x] + g[k - 1][T \ {x}]  BY <1>8 DEF more, x
  <2>6. f[T] = w[x] + g[k - 1][T \ {x}]  BY <1>8, <2>4, <2>5 DEF k
  <2>7. f[T \ {x}] = g[k - 1][T \ {x}]
    <3>1. CASE T \ {x} # {}  BY <2>2, <2>3, <3>1
    <3>2. CASE T \ {x} = {}
      <4>1. k = 1  BY <1>1, <2>2, <3>2, FS_EmptySet
      <4>2. g[0] = base  BY <1>5 DEF Follows
      <4> QED  BY <3>2, <4>1, <4>2
    <3> QED  BY <3>1, <3>2
  <2> QED  BY <2>6, <2>7 DEF x
<1>9. f[{}] = 0  OBVIOUS
<1> HIDE DEF f
<1>10. Sums(f, w, S)  BY <1>7, <1>8, <1>9 DEF Sums
<1> QED  BY <1>10

\* Whichever element is taken first, a sum is its weight and the sum of the
\* others.
LEMMA SumTakes ==
    ASSUME NEW S, IsFiniteSet(S), NEW w \in [S -> Nat], NEW f, Sums(f, w, S)
    PROVE  \A T \in SUBSET S : \A y \in T : f[T] = w[y] + f[T \ {y}]
<1> DEFINE n == Cardinality(S)
           Good(T) == \A y \in T : f[T] = w[y] + f[T \ {y}]
           All == {k \in 0 .. n : \A T \in SUBSET S : Cardinality(T) = k => Good(T)}
<1>1. n \in Nat /\ \A T \in SUBSET S : IsFiniteSet(T) /\ Cardinality(T) \in Nat /\ Cardinality(T) <= n
  BY FS_CardinalityType, FS_Subset
<1>2. 0 \in All
  <2>1. \A T \in SUBSET S : Cardinality(T) = 0 => T = {}  BY <1>1, FS_EmptySet
  <2> HIDE DEF n
  <2> QED  BY <1>1, <2>1
<1>3. ASSUME NEW k \in 0 .. n - 1, k \in All PROVE k + 1 \in All
  <2> SUFFICES ASSUME NEW T \in SUBSET S, Cardinality(T) = k + 1, NEW y \in T
               PROVE  f[T] = w[y] + f[T \ {y}]
    BY <1>1
  <2> DEFINE x == First(T)
  <2>1. x \in T  BY FirstIsMember
  <2>2. f[T] = w[x] + f[T \ {x}]  BY DEF Sums
  <2> HIDE DEF x
  <2>3. CASE y = x  BY <2>2, <2>3
  <2>4. CASE y # x
    <3> DEFINE U == (T \ {y}) \ {x}
    <3>1. Cardinality(T \ {x}) = k /\ Cardinality(T \ {y}) = k
      <4>1. IsFiniteSet(T)  BY <1>1
      <4>2. Cardinality(T \ {x}) = Cardinality(T) - 1  BY <2>1, <4>1, FS_RemoveElement
      <4>3. Cardinality(T \ {y}) = Cardinality(T) - 1  BY <4>1, FS_RemoveElement
      <4> QED  BY <4>2, <4>3
    <3>2. Good(T \ {x}) /\ Good(T \ {y})  BY <1>3, <3>1
    <3>3. f[T \ {x}] = w[y] + f[U]
      <4>1. (T \ {x}) \ {y} = U  OBVIOUS
      <4>2. f[T \ {x}] = w[y] + f[(T \ {x}) \ {y}]  BY <2>4, <3>2
      <4> QED  BY <4>1, <4>2
    <3>4. f[T \ {y}] = w[x] + f[U]  BY <2>1, <2>4, <3>2
    <3>6. w[x] \in Nat /\ w[y] \in Nat /\ f[U] \in Nat
      <4>1. U \in SUBSET S  OBVIOUS
      <4>2. f \in [SUBSET S -> Nat]  BY DEF Sums
      <4>3. x \in S /\ y \in S  BY <2>1
      <4> HIDE DEF U
      <4> QED  BY <4>1, <4>2, <4>3
    <3> HIDE DEF U
    <3> QED  BY ONLY <2>2, <3>3, <3>4, <3>6
  <2> QED  BY <2>3, <2>4
<1>4. All = 0 .. n
  <2>1. All \in SUBSET (0 .. n)  OBVIOUS
  <2>2. \A k \in 0 .. n - 1 : k \in All => k + 1 \in All  BY <1>3
  <2> HIDE DEF All, n
  <2> QED  BY <1>1, <1>2, <2>1, <2>2, BoundedInd
<1>5. ASSUME NEW T \in SUBSET S PROVE Good(T)
  <2>1. Cardinality(T) \in All  BY <1>1, <1>4
  <2> HIDE DEF Good
  <2> QED  BY <2>1
<1> QED  BY <1>5

\* Two sums of the same weights are equal where both are defined.
LEMMA SumsAgree ==
    ASSUME NEW S, IsFiniteSet(S), NEW w, NEW f, Sums(f, w, S),
           NEW R \in SUBSET S, NEW v, NEW g, IsFold(g, v, R), SameOn(v, w, R)
    PROVE  \A T \in SUBSET R : g[T] = f[T]
<1> DEFINE n == Cardinality(R)
           All == {k \in 0 .. n : \A T \in SUBSET R : Cardinality(T) = k => g[T] = f[T]}
<1>0. IsFiniteSet(R)  BY FS_Subset
<1>1. n \in Nat /\ \A T \in SUBSET R : IsFiniteSet(T) /\ Cardinality(T) \in Nat /\ Cardinality(T) <= n
  BY <1>0, FS_CardinalityType, FS_Subset
<1>2. g[{}] = 0 /\ \A T \in SUBSET R : T # {} => g[T] = v[First(T)] + g[T \ {First(T)}]
  BY Zenon DEF IsFold
<1>3. 0 \in All
  <2>1. \A T \in SUBSET R : Cardinality(T) = 0 => T = {}  BY <1>1, FS_EmptySet
  <2>2. g[{}] = f[{}]  BY <1>2 DEF Sums
  <2> HIDE DEF n
  <2> QED  BY <1>1, <2>1, <2>2
<1>4. ASSUME NEW k \in 0 .. n - 1, k \in All PROVE k + 1 \in All
  <2> SUFFICES ASSUME NEW T \in SUBSET R, Cardinality(T) = k + 1
               PROVE  g[T] = f[T]
    BY <1>1
  <2>1. T # {}  BY <1>1, FS_EmptySet
  <2> DEFINE x == First(T)
  <2>2. x \in T /\ T \in SUBSET S  BY <2>1, FirstIsMember
  <2>3. f[T] = w[x] + f[T \ {x}]  BY <2>1, <2>2 DEF Sums
  <2>4. g[T] = v[x] + g[T \ {x}]  BY <1>2, <2>1
  <2> HIDE DEF x
  <2>5. Cardinality(T \ {x}) = k
    <3>1. IsFiniteSet(T)  BY <1>1
    <3>2. Cardinality(T \ {x}) = Cardinality(T) - 1  BY <2>2, <3>1, FS_RemoveElement
    <3> QED  BY <3>2
  <2>6. g[T \ {x}] = f[T \ {x}]  BY <1>4, <2>5
  <2>7. v[x] = w[x]  BY <2>2 DEF SameOn
  <2> QED  BY <2>3, <2>4, <2>6, <2>7
<1>5. All = 0 .. n
  <2>1. All \in SUBSET (0 .. n)  OBVIOUS
  <2>2. \A k \in 0 .. n - 1 : k \in All => k + 1 \in All  BY <1>4
  <2> HIDE DEF All, n
  <2> QED  BY <1>1, <1>3, <2>1, <2>2, BoundedInd
<1>6. ASSUME NEW T \in SUBSET R PROVE g[T] = f[T]
  <2>1. Cardinality(T) \in All  BY <1>1, <1>5
  <2> QED  BY <2>1
<1> QED  BY <1>6

=============================================================================
