----------------------------- MODULE Inductions -----------------------------
(***************************************************************************)
(* Induction over the natural numbers, stated of sets: the theorems of     *)
(* NaturalsInduction take an operator as a parameter.  To show P(n) for    *)
(* every n, show that {n \in Nat : P(n)} has 0 and what follows each of    *)
(* its members.  With it, what a recursive function computes can be        *)
(* proved: that it is a function at all (RecursionExists) and, by a second *)
(* induction, what its values are.                                         *)
(***************************************************************************)
EXTENDS Integers, Sequences, FiniteSets, FiniteSetTheorems, SequenceTheorems,
        WellFoundedInduction, TLAPS

\* Of finitely many numbers one is the greatest: where the numbers from x on are as
\* few as they can be, it is x.
LEMMA Greatest ==
    ASSUME NEW m \in Nat, NEW S \in SUBSET (0 .. m), S # {}
    PROVE  \E x \in S : \A y \in S : y <= x
<1> DEFINE From(x) == {y \in S : x <= y}
           T == {From(x) : x \in S}
<1>1. IsFiniteSet(S)
  <2>1. \A s \in S : s <= m
    OBVIOUS
  <2>2. S \in SUBSET Nat
    OBVIOUS
  <2> QED
    BY <2>1, <2>2, FS_BoundedSetOfNaturals
<1>2. T \subseteq FiniteSubsetsOf(S) /\ T # {}
  <2>1. FiniteSubsetsOf(S) = SUBSET S
    BY <1>1, FS_FiniteSubsetsOfFinite
  <2>2. T \subseteq SUBSET S
    OBVIOUS
  <2>3. PICK x \in S : TRUE
    OBVIOUS
  <2>4. From(x) \in T
    OBVIOUS
  <2> QED
    BY <2>1, <2>2, <2>4
<1>3. PICK U \in T : \A V \in T : ~(<<V, U>> \in StrictSubsetOrdering(S))
  <2>1. IsWellFoundedOn(StrictSubsetOrdering(S), FiniteSubsetsOf(S))
    BY FS_StrictSubsetOrderingWellFounded
  <2> HIDE DEF T
  <2> DEFINE R == StrictSubsetOrdering(S)
             F == FiniteSubsetsOf(S)
  <2>2. IsWellFoundedOn(R, F) /\ T \subseteq F /\ T # {}
    BY <2>1, <1>2
  <2> HIDE DEF R, F
  <2>3. \E U \in T : \A V \in T : ~(<<V, U>> \in R)
    BY <2>2, WFMin
  <2> QED
    BY <2>3 DEF R
<1>4. PICK x \in S : U = From(x)
  BY <1>3
<1>5. ASSUME NEW y \in S PROVE y <= x
  <2>1. SUFFICES ASSUME ~(y <= x) PROVE FALSE
    OBVIOUS
  <2>2. x <= y /\ ~(y <= x) /\ \A z \in S : y <= z => x <= z
    BY <2>1
  <2>3. From(y) \subseteq From(x) /\ x \in From(x) /\ x \notin From(y)
    <3>1. From(y) \subseteq From(x)
      BY <2>2
    <3>2. x <= x
      OBVIOUS
    <3>3. x \in From(x)
      BY <3>2
    <3>4. x \notin From(y)
      BY <2>2
    <3> QED
      BY <3>1, <3>3, <3>4
  <2>4. From(y) \in T /\ From(x) \in SUBSET S /\ From(y) \in SUBSET S
    OBVIOUS
  <2>5. <<From(y), From(x)>> \in StrictSubsetOrdering(S)
    <3> HIDE DEF From
    <3> QED
      BY <2>3, <2>4 DEF StrictSubsetOrdering
  <2> HIDE DEF T, From
  <2> QED
    BY <1>3, <1>4, <2>4, <2>5
<1> QED
  BY <1>5

\* And a smallest one.
LEMMA Least ==
    ASSUME NEW m \in Nat, NEW S \in SUBSET (0 .. m), S # {}
    PROVE  \E x \in S : \A y \in S : x <= y
<1> DEFINE T == {m - x : x \in S}
<1>1. T \in SUBSET (0 .. m) /\ T # {}
  <2>1. \A x \in S : m - x \in 0 .. m
    OBVIOUS
  <2>2. \E x \in S : m - x \in T
    OBVIOUS
  <2> QED
    BY <2>1, <2>2
<1>2. PICK x \in T : \A y \in T : y <= x
  BY <1>1, Greatest
<1>3. m - x \in S /\ \A y \in S : m - y <= x
  BY <1>2
<1> QED
  BY <1>3

\* Induction: of the numbers up to one that were missing, a greatest would be in S,
\* and so would the next.
LEMMA SetInduction ==
    ASSUME NEW S \in SUBSET Nat, 0 \in S, \A n \in S : n + 1 \in S
    PROVE  S = Nat
<1>1. SUFFICES ASSUME NEW m \in Nat, m \notin S PROVE FALSE
  OBVIOUS
<1> DEFINE T == {k \in 0 .. m : \A j \in 0 .. k : j \in S}
<1>2. T \in SUBSET (0 .. m) /\ T # {}
  <2>1. 0 \in T
    OBVIOUS
  <2> QED
    BY <2>1
<1>3. PICK x \in T : \A y \in T : y <= x
  <2> HIDE DEF T
  <2> QED
    BY <1>2, Greatest
<1>4. x \in S /\ x + 1 \in S /\ x # m
  BY <1>1, <1>3
<1>5. x + 1 \in T
  BY <1>3, <1>4
<1> QED
  BY <1>3, <1>5

\* Induction up to a bound
LEMMA BoundedInduction ==
    ASSUME NEW N \in Nat, NEW S, 0 \in S, \A n \in 1 .. N : n - 1 \in S => n \in S
    PROVE  0 .. N \subseteq S
<1> DEFINE T == {n \in Nat : n <= N => n \in S}
<1>1. T \in SUBSET Nat /\ 0 \in T
  OBVIOUS
<1>2. ASSUME NEW n \in T PROVE n + 1 \in T
  <2>1. CASE n + 1 <= N
    <3>1. n + 1 \in 1 .. N /\ (n + 1) - 1 = n
      BY <2>1
    <3> QED
      BY <3>1
  <2> QED
    BY <2>1
<1>3. T = Nat
  <2> HIDE DEF T
  <2> QED
    BY <1>1, <1>2, SetInduction
<1> QED
  BY <1>3

\* A function defined by recursion over 0 .. N: from v at 0, each value from the one
\* before it by G.  There is one, and its values are in V.
IsRecursive(f, N, v, G) == f = [n \in 0 .. N |-> IF n = 0 THEN v ELSE G[<<n, f[n - 1]>>]]

LEMMA RecursionExists ==
    ASSUME NEW N \in Nat, NEW V, NEW v \in V, NEW G \in [(1 .. N) \X V -> V]
    PROVE  \E f \in [0 .. N -> V] : IsRecursive(f, N, v, G)
<1> DEFINE Makes(f, m) == /\ f \in [0 .. m -> V]
                          /\ f[0] = v
                          /\ \A n \in 1 .. m : f[n] = G[<<n, f[n - 1]>>]
           T == {m \in 0 .. N : \E f : Makes(f, m)}
<1>1. 0 \in T
  <2> DEFINE f == [n \in 0 .. 0 |-> v]
  <2>1. Makes(f, 0)
    OBVIOUS
  <2> HIDE DEF f, Makes
  <2> QED
    BY <2>1
<1>2. ASSUME NEW m \in 1 .. N, m - 1 \in T PROVE m \in T
  <2>1. PICK f : Makes(f, m - 1)
    BY <1>2
  <2> DEFINE g == [n \in 0 .. m |-> IF n = m THEN G[<<m, f[m - 1]>>] ELSE f[n]]
  <2>2. f[m - 1] \in V
    BY <2>1
  <2>3. G[<<m, f[m - 1]>>] \in V
    BY <2>2
  <2>4. g \in [0 .. m -> V]
    BY <2>1, <2>3
  <2>5. g[0] = v
    BY <2>1
  <2>6. ASSUME NEW n \in 1 .. m PROVE g[n] = G[<<n, g[n - 1]>>]
    <3>1. g[n - 1] = f[n - 1]
      OBVIOUS
    <3>2. CASE n = m
      BY <3>1, <3>2
    <3>3. CASE n # m
      <4>1. n \in 1 .. m - 1 /\ g[n] = f[n]
        BY <3>3
      <4>2. f[n] = G[<<n, f[n - 1]>>]
        BY <2>1, <4>1
      <4> QED
        BY <3>1, <4>1, <4>2
    <3> QED
      BY <3>2, <3>3
  <2>7. Makes(g, m)
    BY <2>4, <2>5, <2>6
  <2> HIDE DEF g, Makes
  <2> QED
    BY <2>7
<1>3. N \in T
  <2> HIDE DEF T
  <2> QED
    BY <1>1, <1>2, BoundedInduction
<1>4. PICK f : Makes(f, N)
  BY <1>3
<1>5. IsRecursive(f, N, v, G)
  BY <1>4 DEF IsRecursive
<1> QED
  BY <1>4, <1>5

-----------------------------------------------------------------------------
(* Sums                                                                      *)

\* f is the sums of the first n numbers t[1], t[2], ... up to N.
AreSums(f, N, t) == f = [n \in 0 .. N |-> IF n = 0 THEN 0 ELSE f[n - 1] + t[n]]
Sums(N, t) == CHOOSE f : AreSums(f, N, t)

LEMMA SumsAre ==
    ASSUME NEW N \in Nat, NEW t \in [1 .. N -> Nat]
    PROVE  /\ Sums(N, t) \in [0 .. N -> Nat]
           /\ Sums(N, t)[0] = 0
           /\ \A n \in 1 .. N : Sums(N, t)[n] = Sums(N, t)[n - 1] + t[n]
           /\ AreSums(Sums(N, t), N, t)
<1> DEFINE f == Sums(N, t)
<1>1. PICK g \in [0 .. N -> Nat] : AreSums(g, N, t)
  <2>1. PICK V : V = Nat
    OBVIOUS
  <2>2. PICK v : v = 0
    OBVIOUS
  <2> DEFINE G == [p \in (1 .. N) \X Nat |-> p[2] + t[p[1]]]
  <2>3. \A n \in 1 .. N, x \in Nat : G[<<n, x>>] = x + t[n]
    OBVIOUS
  <2>4. G \in [(1 .. N) \X V -> V] /\ v \in V
    BY <2>1, <2>2
  <2> HIDE DEF G
  <2>5. PICK g \in [0 .. N -> V] : IsRecursive(g, N, v, G)
    BY <2>4, RecursionExists
  <2>6. g \in [0 .. N -> Nat]
    BY <2>1, <2>5
  <2>7. ASSUME NEW n \in 0 .. N
        PROVE  (IF n = 0 THEN v ELSE G[<<n, g[n - 1]>>]) = (IF n = 0 THEN 0 ELSE g[n - 1] + t[n])
    <3>1. n # 0 => n \in 1 .. N /\ g[n - 1] \in Nat
      BY <2>6
    <3> QED
      BY <2>2, <2>3, <3>1
  <2>8. g = [n \in 0 .. N |-> IF n = 0 THEN 0 ELSE g[n - 1] + t[n]]
    BY <2>5, <2>7, Zenon DEF IsRecursive
  <2> QED
    BY <2>6, <2>8 DEF AreSums
<1>2. AreSums(f, N, t)
  BY <1>1 DEF Sums
<1> HIDE DEF f
<1>3. f[0] = 0 /\ \A n \in 1 .. N : f[n] = f[n - 1] + t[n]
  BY <1>2 DEF AreSums
<1>4. f \in [0 .. N -> Nat]
  <2> DEFINE S == {n \in 0 .. N : f[n] \in Nat}
  <2>1. 0 \in S
    BY <1>3
  <2>2. \A n \in 1 .. N : n - 1 \in S => n \in S
    BY <1>3
  <2>3. 0 .. N \subseteq S
    <3> HIDE DEF S
    <3> QED
      BY <2>1, <2>2, BoundedInduction
  <2> QED
    BY <1>2, <2>3 DEF AreSums
<1> QED
  BY <1>2, <1>3, <1>4 DEF f

\* A function that is made like the sums of t is the sums of t.
LEMMA SumsUnique ==
    ASSUME NEW N \in Nat, NEW t \in [1 .. N -> Nat], NEW f, AreSums(f, N, t)
    PROVE  f[N] = Sums(N, t)[N]
<1> DEFINE g == Sums(N, t)
           S == {n \in 0 .. N : f[n] = g[n]}
<1>1. g[0] = 0 /\ \A n \in 1 .. N : g[n] = g[n - 1] + t[n]
  BY SumsAre
<1> HIDE DEF g
<1>2. f[0] = 0 /\ \A n \in 1 .. N : f[n] = f[n - 1] + t[n]
  BY DEF AreSums
<1>3. 0 \in S /\ \A n \in 1 .. N : n - 1 \in S => n \in S
  BY <1>1, <1>2
<1>4. 0 .. N \subseteq S
  <2> HIDE DEF S
  <2> QED
    BY <1>3, BoundedInduction
<1> QED
  BY <1>4 DEF g

\* The sums of two sequences in a row
LEMMA SumsSplit ==
    ASSUME NEW N \in Nat, NEW M \in Nat, NEW t \in [1 .. N -> Nat], NEW u \in [1 .. M -> Nat],
           NEW w \in [1 .. N + M -> Nat],
           \A n \in 1 .. N : w[n] = t[n], \A n \in 1 .. M : w[N + n] = u[n]
    PROVE  Sums(N + M, w)[N + M] = Sums(N, t)[N] + Sums(M, u)[M]
<1> DEFINE f == Sums(N, t)
           g == Sums(M, u)
           h == Sums(N + M, w)
<1>1. f \in [0 .. N -> Nat] /\ f[0] = 0 /\ \A n \in 1 .. N : f[n] = f[n - 1] + t[n]
  BY SumsAre
<1>2. g \in [0 .. M -> Nat] /\ g[0] = 0 /\ \A n \in 1 .. M : g[n] = g[n - 1] + u[n]
  BY SumsAre
<1>3. N + M \in Nat
  OBVIOUS
<1>4. h \in [0 .. N + M -> Nat] /\ h[0] = 0 /\ \A n \in 1 .. N + M : h[n] = h[n - 1] + w[n]
  BY <1>3, SumsAre
<1> HIDE DEF f, g, h
<1>5. \A n \in 0 .. N : h[n] = f[n]
  <2> DEFINE S == {n \in 0 .. N : h[n] = f[n]}
  <2>1. 0 \in S /\ \A n \in 1 .. N : n - 1 \in S => n \in S
    BY <1>1, <1>4
  <2>2. 0 .. N \subseteq S
    <3> HIDE DEF S
    <3> QED
      BY <2>1, BoundedInduction
  <2> QED
    BY <2>2
<1>6. \A n \in 0 .. M : h[N + n] = f[N] + g[n]
  <2> DEFINE S == {n \in 0 .. M : h[N + n] = f[N] + g[n]}
  <2>1. 0 \in S
    BY <1>1, <1>2, <1>5
  <2>2. ASSUME NEW n \in 1 .. M, n - 1 \in S PROVE n \in S
    <3>1. h[N + n] = h[N + n - 1] + u[n]
      BY <1>4
    <3>2. h[N + n - 1] = f[N] + g[n - 1]
      BY <2>2
    <3>3. g[n] = g[n - 1] + u[n] /\ g[n - 1] \in Nat /\ u[n] \in Nat /\ f[N] \in Nat
      BY <1>1, <1>2
    <3> QED
      BY <3>1, <3>2, <3>3
  <2>3. 0 .. M \subseteq S
    <3> HIDE DEF S
    <3> QED
      BY <2>1, <2>2, BoundedInduction
  <2> QED
    BY <2>3
<1> QED
  BY <1>6 DEF f, g, h

\* Numbers in pairs
LEMMA SumsPairs ==
    ASSUME NEW N \in Nat, NEW t \in [1 .. 2 * N -> Nat], NEW u \in [1 .. N -> Nat],
           \A n \in 1 .. N : u[n] = t[2 * n - 1] + t[2 * n]
    PROVE  Sums(2 * N, t)[2 * N] = Sums(N, u)[N]
<1> DEFINE f == Sums(2 * N, t)
           g == Sums(N, u)
           S == {n \in 0 .. N : f[2 * n] = g[n]}
<1>1. g \in [0 .. N -> Nat] /\ g[0] = 0 /\ \A n \in 1 .. N : g[n] = g[n - 1] + u[n]
  BY SumsAre
<1>2. 2 * N \in Nat
  OBVIOUS
<1>3. f \in [0 .. 2 * N -> Nat] /\ f[0] = 0 /\ \A n \in 1 .. 2 * N : f[n] = f[n - 1] + t[n]
  BY <1>2, SumsAre
<1> HIDE DEF f, g
<1>4. 0 \in S
  BY <1>1, <1>3
<1>5. ASSUME NEW n \in 1 .. N, n - 1 \in S PROVE n \in S
  <2>1. 2 * n \in 1 .. 2 * N /\ 2 * n - 1 \in 1 .. 2 * N /\ 2 * (n - 1) = 2 * n - 2
    OBVIOUS
  <2>2. f[2 * n] = f[2 * n - 1] + t[2 * n] /\ f[2 * n - 1] = f[(2 * n - 1) - 1] + t[2 * n - 1]
    BY <1>3, <2>1
  <2>3. (2 * n - 1) - 1 = 2 * (n - 1) /\ n - 1 \in 0 .. N
    OBVIOUS
  <2>4. f[2 * n] = (g[n - 1] + t[2 * n - 1]) + t[2 * n]
    BY <1>5, <2>2, <2>3
  <2>5. t[2 * n - 1] \in Nat /\ t[2 * n] \in Nat /\ g[n - 1] \in Nat
    BY <1>1, <2>1
  <2>6. g[n] = g[n - 1] + u[n]
    BY <1>1
  <2>7. f[2 * n] = g[n]
    <3>1. u[n] = t[2 * n - 1] + t[2 * n] /\ u[n] \in Nat
      OBVIOUS
    <3>2. ASSUME NEW a \in Nat, NEW b \in Nat, NEW c \in Nat PROVE (a + b) + c = a + (b + c)
      OBVIOUS
    <3>3. (g[n - 1] + t[2 * n - 1]) + t[2 * n] = g[n - 1] + (t[2 * n - 1] + t[2 * n])
      BY <2>5, <3>2
    <3> QED
      BY <2>4, <2>6, <3>1, <3>3, Zenon
  <2> QED
    BY <2>7
<1>6. 0 .. N \subseteq S
  <2> HIDE DEF S
  <2> QED
    BY <1>4, <1>5, BoundedInduction
<1> QED
  BY <1>6 DEF f, g

\* A sum of N numbers up to B is at most B * N.
LEMMA SumsBound ==
    ASSUME NEW N \in Nat, NEW t \in [1 .. N -> Nat], NEW B \in Nat, \A n \in 1 .. N : t[n] <= B
    PROVE  Sums(N, t)[N] \in Nat /\ Sums(N, t)[N] <= B * N
<1> DEFINE f == Sums(N, t)
           S == {n \in 0 .. N : f[n] <= B * n}
<1>1. f \in [0 .. N -> Nat] /\ f[0] = 0 /\ \A n \in 1 .. N : f[n] = f[n - 1] + t[n]
  BY SumsAre
<1> HIDE DEF f
<1>2. 0 \in S
  BY <1>1
<1>3. ASSUME NEW n \in 1 .. N, n - 1 \in S PROVE n \in S
  <2>1. f[n] = f[n - 1] + t[n] /\ f[n - 1] <= B * (n - 1) /\ t[n] <= B
    BY <1>1, <1>3
  <2>2. B * (n - 1) + B = B * n /\ B * n \in Nat /\ B * (n - 1) \in Nat
    OBVIOUS
  <2>3. f[n - 1] \in Nat /\ t[n] \in Nat
    BY <1>1
  <2> QED
    BY <2>1, <2>2, <2>3
<1>4. 0 .. N \subseteq S
  <2> HIDE DEF S
  <2> QED
    BY <1>2, <1>3, BoundedInduction
<1> QED
  BY <1>1, <1>4 DEF f
=============================================================================
