------------------------------ MODULE Foundations ------------------------------
(***************************************************************************)
(* Lemmas that proofs about several modules need: induction over the       *)
(* naturals, stated with sets where the library has operators as           *)
(* parameters, the recursive functions it defines, ranks in an order of a  *)
(* finite set, and sums over finite sets.                                  *)
(***************************************************************************)
EXTENDS Integers, FiniteSetTheorems, TLAPS

-----------------------------------------------------------------------------
(* A set of naturals that is not empty has a least element.                *)
LEMMA LeastNatural ==
  ASSUME NEW T \in SUBSET Nat, T # {}
  PROVE  \E x \in T : \A y \in T : x <= y
<1> DEFINE R == OpToRel(<, Nat)
<1>1. IsWellFoundedOn(R, Nat)
  BY NatLessThanWellFounded
<1> HIDE DEF R
<1>2. PICK x \in T : \A y \in T : <<y, x>> \notin R
  BY <1>1, WFMin
<1>3. \A y \in T : <<y, x>> \in R <=> y < x
  BY DEF R, OpToRel
<1>4. \A y \in T : ~(y < x)
  BY <1>2, <1>3, Zenon
<1> HIDE <1>2, <1>3
<1> QED
  BY <1>4

(* A set that has 0, and with a number the next one, has every natural.    *)
LEMMA EveryNatural ==
  ASSUME NEW T, 0 \in T, \A n \in Nat : n \in T => n + 1 \in T
  PROVE  \A n \in Nat : n \in T
<1> DEFINE Rest == Nat \ T
<1> SUFFICES ASSUME Rest # {} PROVE FALSE
  OBVIOUS
<1>1. Rest \in SUBSET Nat
  OBVIOUS
<1> HIDE DEF Rest
<1>2. PICK x \in Rest : \A y \in Rest : x <= y
  BY <1>1, LeastNatural
<1>3. x \in Nat /\ x \notin T /\ x # 0
  BY <1>2 DEF Rest
<1>4. x - 1 \in Nat /\ x - 1 \notin Rest
  BY <1>2, <1>3
<1>5. x - 1 \in T
  BY <1>4 DEF Rest
<1> QED
  BY <1>3, <1>4, <1>5

(* A set that has a number as soon as it has all the smaller ones.         *)
LEMMA EveryNaturalAfterAll ==
  ASSUME NEW T, \A n \in Nat : (\A k \in Nat : k < n => k \in T) => n \in T
  PROVE  \A n \in Nat : n \in T
<1> DEFINE Rest == Nat \ T
<1> SUFFICES ASSUME Rest # {} PROVE FALSE
  OBVIOUS
<1>1. Rest \in SUBSET Nat
  OBVIOUS
<1> HIDE DEF Rest
<1>2. PICK x \in Rest : \A y \in Rest : x <= y
  BY <1>1, LeastNatural
<1>3. x \in Nat /\ x \notin T
  BY <1>2 DEF Rest
<1>4. \A k \in Nat : k < x => k \in T
  BY <1>2, <1>3 DEF Rest
<1> QED
  BY <1>3, <1>4

-----------------------------------------------------------------------------
(* The values up to n of the function that starts with x and goes on by G. *)
Begins(X, x, G, n, g) ==
  /\ g \in [0 .. n -> X]
  /\ g[0] = x
  /\ \A k \in 0 .. n - 1 : g[k + 1] = G[<<k, g[k]>>]

LEMMA BeginningExists ==
  ASSUME NEW X, NEW x \in X, NEW G \in [Nat \X X -> X]
  PROVE  \A n \in Nat : \E g : Begins(X, x, G, n, g)
<1> DEFINE T == {n \in Nat : \E g : Begins(X, x, G, n, g)}
<1>1. 0 \in T
  <2>1. Begins(X, x, G, 0, [k \in 0 .. 0 |-> x])
    BY DEF Begins
  <2> QED
    BY <2>1
<1>2. ASSUME NEW n \in Nat, n \in T
      PROVE  n + 1 \in T
  <2>1. PICK g : Begins(X, x, G, n, g)
    BY <1>2
  <2> DEFINE h == [k \in 0 .. n + 1 |-> IF k <= n THEN g[k] ELSE G[<<n, g[n]>>]]
  <2>2. g \in [0 .. n -> X] /\ g[0] = x /\ \A k \in 0 .. n - 1 : g[k + 1] = G[<<k, g[k]>>]
    BY <2>1 DEF Begins
  <2>3. G[<<n, g[n]>>] \in X
    BY <2>2
  <2>4. h \in [0 .. n + 1 -> X] /\ h[0] = x
    BY <2>2, <2>3
  <2>5. ASSUME NEW k \in 0 .. n
        PROVE  h[k + 1] = G[<<k, h[k]>>]
    <3>1. h[k] = g[k]
      OBVIOUS
    <3>2. CASE k = n
      BY <3>1, <3>2
    <3>3. CASE k # n
      <4>1. k \in 0 .. n - 1 /\ k + 1 \in 0 .. n
        BY <3>3
      <4> QED
        BY <2>2, <3>1, <4>1
    <3> QED
      BY <3>2, <3>3
  <2> HIDE DEF h
  <2>6. Begins(X, x, G, n + 1, h)
    BY <2>4, <2>5 DEF Begins
  <2> QED
    BY <2>6
<1> HIDE DEF T
<1>3. \A n \in Nat : n \in T
  BY <1>1, <1>2, EveryNatural
<1> QED
  BY <1>3 DEF T

LEMMA BeginningsAgree ==
  ASSUME NEW X, NEW x \in X, NEW G \in [Nat \X X -> X], NEW m \in Nat, NEW n \in Nat, m <= n,
         NEW g, NEW h, Begins(X, x, G, m, g), Begins(X, x, G, n, h)
  PROVE  g[m] = h[m]
<1> DEFINE T == {k \in Nat : k <= m => g[k] = h[k]}
<1>1. 0 \in T
  BY DEF Begins
<1>2. ASSUME NEW k \in Nat, k \in T
      PROVE  k + 1 \in T
  <2> SUFFICES ASSUME k + 1 <= m PROVE g[k + 1] = h[k + 1]
    OBVIOUS
  <2>1. k \in 0 .. m - 1 /\ k \in 0 .. n - 1 /\ g[k] = h[k]
    BY <1>2
  <2> QED
    BY <2>1 DEF Begins
<1> HIDE DEF T
<1>3. m \in T
  BY <1>1, <1>2, EveryNatural
<1> QED
  BY <1>3 DEF T

(* Primitive recursion: there is a function on the naturals that starts    *)
(* with x and goes on by G, which has the number and the value at hand.    *)
GoesOn(X, x, G, f) ==
  /\ f \in [Nat -> X]
  /\ f[0] = x
  /\ \A n \in Nat : f[n + 1] = G[<<n, f[n]>>]

LEMMA RecursiveFunctionExists ==
  ASSUME NEW X, NEW x \in X, NEW G \in [Nat \X X -> X]
  PROVE  \E f : GoesOn(X, x, G, f)
<1> DEFINE part(n) == CHOOSE g : Begins(X, x, G, n, g)
           f == [n \in Nat |-> part(n)[n]]
<1>1. \A n \in Nat : Begins(X, x, G, n, part(n))
  BY BeginningExists
<1> HIDE DEF part
<1>2. f \in [Nat -> X] /\ f[0] = x
  BY <1>1 DEF Begins
<1>3. ASSUME NEW n \in Nat
      PROVE  f[n + 1] = G[<<n, f[n]>>]
  <2>1. part(n)[n] = part(n + 1)[n]
    <3>1. n + 1 \in Nat /\ n <= n + 1
      OBVIOUS
    <3>2. Begins(X, x, G, n, part(n)) /\ Begins(X, x, G, n + 1, part(n + 1))
      BY <1>1, <3>1
    <3> QED
      BY <3>1, <3>2, BeginningsAgree
  <2>2. part(n + 1)[n + 1] = G[<<n, part(n + 1)[n]>>]
    <3>1. Begins(X, x, G, n + 1, part(n + 1)) /\ n \in 0 .. (n + 1) - 1
      BY <1>1
    <3> QED
      BY <3>1 DEF Begins
  <2> QED
    BY <2>1, <2>2
<1> HIDE DEF f
<1> QED
  BY <1>2, <1>3 DEF GoesOn

-----------------------------------------------------------------------------
(* Ranks.                                                                  *)

(* Elements of a finite set by a strict total order, counted by those that *)
(* precede them.                                                           *)
StrictTotal(S, R) ==
  /\ \A a \in S : <<a, a>> \notin R
  /\ \A a, b \in S : a # b => <<a, b>> \in R \/ <<b, a>> \in R
  /\ \A a, b, c \in S : <<a, b>> \in R /\ <<b, c>> \in R => <<a, c>> \in R
Rank(S, R) == [a \in S |-> Cardinality({b \in S : <<b, a>> \in R})]

LEMMA RankIncreases ==
  ASSUME NEW S, NEW R, IsFiniteSet(S), StrictTotal(S, R),
         NEW a \in S, NEW b \in S, <<a, b>> \in R
  PROVE  Rank(S, R)[a] < Rank(S, R)[b]
<1> DEFINE A == {c \in S : <<c, a>> \in R}
           B == {c \in S : <<c, b>> \in R}
<1>1. IsFiniteSet(A) /\ IsFiniteSet(B)
  <2>1. A \in SUBSET S /\ B \in SUBSET S
    OBVIOUS
  <2> HIDE DEF A, B
  <2> QED BY <2>1, FS_Subset
<1>2. a \notin A /\ A \cup {a} \in SUBSET B
  BY DEF StrictTotal
<1>3. Rank(S, R)[a] = Cardinality(A) /\ Rank(S, R)[b] = Cardinality(B)
  BY DEF Rank
<1> HIDE DEF A, B
<1>4. Cardinality(A \cup {a}) = Cardinality(A) + 1
  BY <1>1, <1>2, FS_AddElement
<1>5. Cardinality(A \cup {a}) <= Cardinality(B)
  BY <1>1, <1>2, FS_Subset
<1>6. Cardinality(A) \in Nat /\ Cardinality(B) \in Nat
  BY <1>1, FS_CardinalityType
<1> QED
  BY <1>3, <1>4, <1>5, <1>6

(* The ranks are 0, 1, ... without a gap.                                  *)
LEMMA RanksOnto ==
  ASSUME NEW S, NEW R, IsFiniteSet(S), StrictTotal(S, R)
  PROVE  Rank(S, R) \in Bijection(S, 0 .. Cardinality(S) - 1)
<1> DEFINE n == Cardinality(S)
           rank == Rank(S, R)
<1>1. n \in Nat
  BY FS_CardinalityType
<1>2. ASSUME NEW a \in S
      PROVE  rank[a] \in 0 .. n - 1
  <2> DEFINE A == {b \in S : <<b, a>> \in R}
  <2>1. A \in SUBSET S /\ A # S /\ rank[a] = Cardinality(A)
    BY DEF StrictTotal, Rank
  <2> HIDE DEF A
  <2>2. IsFiniteSet(A) /\ Cardinality(A) <= n /\ Cardinality(A) # n
    BY <2>1, FS_Subset
  <2>3. Cardinality(A) \in Nat
    BY <2>2, FS_CardinalityType
  <2> QED
    BY <1>1, <2>1, <2>2, <2>3
<1>3. ASSUME NEW a \in S, NEW b \in S, rank[a] = rank[b]
      PROVE  a = b
  <2>1. rank[a] \in Int /\ rank[b] \in Int
    BY <1>1, <1>2
  <2>2. CASE <<a, b>> \in R
    BY <1>3, <2>1, <2>2, RankIncreases
  <2>3. CASE <<b, a>> \in R
    BY <1>3, <2>1, <2>3, RankIncreases
  <2> QED
    BY <2>2, <2>3 DEF StrictTotal
<1>4. rank \in [S -> 0 .. n - 1] /\ DOMAIN rank = S
  BY <1>2 DEF Rank
<1>5. rank \in Injection(S, 0 .. n - 1)
  <2> HIDE DEF rank
  <2> QED BY <1>3, <1>4 DEF Injection, IsInjective
<1>6. IsFiniteSet(0 .. n - 1) /\ Cardinality(0 .. n - 1) = n
  BY <1>1, FS_Interval
<1>7. rank \in Surjection(S, 0 .. n - 1)
  BY <1>5, <1>6, FS_Injection
<1> QED
  BY <1>5, <1>7 DEF Bijection

-----------------------------------------------------------------------------
(* Recursion over the subsets of a finite set, one element at a time.      *)
Reduces(S, X, x, pick, G, f) ==
  /\ f \in [SUBSET S -> X]
  /\ f[{}] = x
  /\ \A s \in SUBSET S : s # {} => f[s] = G[<<pick[s], f[s \ {pick[s]}]>>]

LEMMA WithoutOne ==
  ASSUME NEW S, IsFiniteSet(S), NEW s \in SUBSET S, NEW a \in s
  PROVE  /\ IsFiniteSet(s) /\ s \ {a} \in SUBSET S
         /\ Cardinality(s) \in Nat /\ Cardinality(s \ {a}) \in Nat
         /\ Cardinality(s \ {a}) = Cardinality(s) - 1
<1>1. IsFiniteSet(s) /\ IsFiniteSet(s \ {a})
  BY FS_Subset
<1> QED
  BY <1>1, FS_RemoveElement, FS_CardinalityType

LEMMA ReductionExists ==
  ASSUME NEW S, IsFiniteSet(S), NEW X, NEW x \in X, NEW G \in [S \X X -> X], NEW pick,
         \A s \in SUBSET S : s # {} => pick[s] \in s
  PROVE  \E f : Reduces(S, X, x, pick, G, f)
<1> DEFINE F == [SUBSET S -> X]
           next(h) == [s \in SUBSET S |-> IF s = {} THEN x ELSE G[<<pick[s], h[s \ {pick[s]}]>>]]
           H == [pair \in Nat \X F |-> next(pair[2])]
           h0 == [s \in SUBSET S |-> x]
<1>1. \A h \in F : next(h) \in F
  <2> SUFFICES ASSUME NEW h \in F, NEW s \in SUBSET S, s # {}
               PROVE  G[<<pick[s], h[s \ {pick[s]}]>>] \in X
    OBVIOUS
  <2>1. pick[s] \in S /\ s \ {pick[s]} \in SUBSET S
    OBVIOUS
  <2> QED
    BY <2>1
<1>2. /\ h0 \in F
      /\ \A n \in Nat, h \in F : H[<<n, h>>] = next(h)
      /\ \A h \in F, s \in SUBSET S :
           next(h)[s] = IF s = {} THEN x ELSE G[<<pick[s], h[s \ {pick[s]}]>>]
  OBVIOUS
<1>3. h0[{}] = x
  OBVIOUS
<1> HIDE DEF next
<1>4. H \in [Nat \X F -> F]
  BY <1>1
<1> HIDE DEF F, H, h0
<1>5. PICK g : GoesOn(F, h0, H, g)
  BY <1>2, <1>4, RecursiveFunctionExists
<1>6. /\ \A n \in Nat : g[n] \in F /\ g[n + 1] = next(g[n])
      /\ g[0] = h0
  BY <1>2, <1>5 DEF GoesOn
<1> DEFINE T == {n \in Nat : \A s \in SUBSET S : Cardinality(s) <= n => g[n + 1][s] = g[n][s]}
<1>7. 0 \in T
  <2> SUFFICES ASSUME NEW s \in SUBSET S, Cardinality(s) <= 0
               PROVE  g[0 + 1][s] = g[0][s]
    OBVIOUS
  <2>1. s = {}
    BY FS_Subset, FS_EmptySet, FS_CardinalityType
  <2> QED
    BY <1>2, <1>3, <1>6, <2>1
<1>8. ASSUME NEW n \in Nat, n \in T
      PROVE  n + 1 \in T
  <2> SUFFICES ASSUME NEW s \in SUBSET S, Cardinality(s) <= n + 1
               PROVE  g[(n + 1) + 1][s] = g[n + 1][s]
    OBVIOUS
  <2>3. /\ g[(n + 1) + 1] = next(g[n + 1]) /\ g[n + 1] = next(g[n])
        /\ g[n + 1] \in F /\ g[n] \in F
    BY <1>6
  <2>1. CASE s = {}
    BY <1>2, <2>1, <2>3
  <2>2. CASE s # {}
    <3> DEFINE r == s \ {pick[s]}
    <3>1. r \in SUBSET S /\ Cardinality(r) <= n
      BY <2>2, WithoutOne
    <3>2. g[n + 1][r] = g[n][r]
      BY <1>8, <3>1
    <3>3. /\ g[(n + 1) + 1][s] = G[<<pick[s], g[n + 1][r]>>]
          /\ g[n + 1][s] = G[<<pick[s], g[n][r]>>]
      <4>1. /\ next(g[n + 1])[s] = G[<<pick[s], g[n + 1][r]>>]
            /\ next(g[n])[s] = G[<<pick[s], g[n][r]>>]
        BY <1>2, <2>2, <2>3
      <4> QED
        BY <2>3, <4>1
    <3> QED
      BY <3>2, <3>3
  <2> QED
    BY <2>1, <2>2
<1> HIDE DEF T
<1> DEFINE N == Cardinality(S)
<1>9. N \in T /\ N \in Nat
  BY <1>7, <1>8, EveryNatural, FS_CardinalityType
<1>10. \A s \in SUBSET S : g[N][s] = next(g[N])[s]
  <2> TAKE s \in SUBSET S
  <2>1. Cardinality(s) <= N
    BY FS_Subset
  <2> QED
    BY <1>6, <1>9, <2>1 DEF T
<1>11. g[N] \in F
  BY <1>6, <1>9
<1> HIDE DEF N
<1>12. Reduces(S, X, x, pick, G, g[N])
  BY <1>2, <1>10, <1>11 DEF Reduces, F
<1> QED
  BY <1>12

-----------------------------------------------------------------------------
(* Sums.  SumFunctionOnSet takes some element out at each step.            *)
Some(s) == CHOOSE y \in s : TRUE
Sums(f, S, g) ==
  /\ g \in [SUBSET S -> Nat]
  /\ g[{}] = 0
  /\ \A s \in SUBSET S : s # {} => g[s] = f[Some(s)] + g[s \ {Some(s)}]

LEMMA PartialSums ==
  ASSUME NEW S, IsFiniteSet(S), NEW f, \A a \in S : f[a] \in Nat
  PROVE  \E g : Sums(f, S, g) /\ SumFunctionOnSet(f, S) = g[S]
<1> DEFINE step(g, s) == IF s = {} THEN 0 ELSE f[Some(s)] + g[s \ {Some(s)}]
           G == [pair \in S \X Nat |-> f[pair[1]] + pair[2]]
           pick == [s \in SUBSET S |-> Some(s)]
<1>1. \A s \in SUBSET S : s # {} => pick[s] \in s /\ pick[s] = Some(s) /\ Some(s) \in S
  BY DEF Some
<1>2. G \in [S \X Nat -> Nat] /\ \A a \in S, n \in Nat : G[<<a, n>>] = f[a] + n
  OBVIOUS
<1> HIDE DEF G, pick
<1>3. PICK h : Reduces(S, Nat, 0, pick, G, h)
  BY <1>1, <1>2, ReductionExists, 0 \in Nat
<1>4. ASSUME NEW s \in SUBSET S
      PROVE  h[s] = step(h, s)
  <2>1. CASE s = {}
    BY <1>3, <2>1 DEF Reduces
  <2>2. CASE s # {}
    <3>1. s \ {Some(s)} \in SUBSET S /\ Some(s) \in S
      BY <1>1, <2>2
    <3>2. h[s] = G[<<Some(s), h[s \ {Some(s)}]>>] /\ h[s \ {Some(s)}] \in Nat
      BY <1>1, <1>3, <2>2, <3>1 DEF Reduces
    <3> QED
      BY <1>2, <2>2, <3>1, <3>2
  <2> QED
    BY <2>1, <2>2
<1>5. h = [s \in SUBSET S |-> step(h, s)]
  BY <1>3, <1>4 DEF Reduces
<1> DEFINE iter[s \in SUBSET S] == step(iter, s)
<1>6. iter = [s \in SUBSET S |-> step(iter, s)]
  BY <1>5, Zenon
<1>7. SumFunctionOnSet(f, S) = iter[S]
  BY DEF SumFunctionOnSet, FoldFunctionOnSet, MapThenFoldSet, Some
<1> HIDE DEF iter
<1>8. \A s \in SUBSET S : iter[s] = step(iter, s)
  BY <1>6
<1> DEFINE T == {n \in Nat : \A s \in SUBSET S : Cardinality(s) = n => iter[s] = h[s]}
<1>9. 0 \in T
  <2> SUFFICES ASSUME NEW s \in SUBSET S, Cardinality(s) = 0
               PROVE  iter[s] = h[s]
    OBVIOUS
  <2>1. s = {}
    BY FS_Subset, FS_EmptySet
  <2> QED
    BY <1>4, <1>8, <2>1
<1>10. ASSUME NEW n \in Nat, n \in T
       PROVE  n + 1 \in T
  <2> SUFFICES ASSUME NEW s \in SUBSET S, Cardinality(s) = n + 1
               PROVE  iter[s] = h[s]
    OBVIOUS
  <2>1. s # {}
    BY FS_EmptySet
  <2>4. Some(s) \in s
    BY <2>1 DEF Some
  <2>2. Some(s) \in s /\ s \ {Some(s)} \in SUBSET S /\ Cardinality(s \ {Some(s)}) = n
    BY <2>4, WithoutOne
  <2>3. iter[s \ {Some(s)}] = h[s \ {Some(s)}]
    BY <1>10, <2>2
  <2> QED
    BY <1>4, <1>8, <2>1, <2>3
<1> HIDE DEF T
<1>11. \A n \in Nat : n \in T
  BY <1>9, <1>10, EveryNatural
<1>12. iter[S] = h[S]
  BY <1>11, FS_CardinalityType DEF T
<1>13. Sums(f, S, h)
  BY <1>3, <1>4 DEF Reduces, Sums
<1> QED
  BY <1>7, <1>12, <1>13

(* Sums over the same set agree, on every subset of it.                    *)
LEMMA SumsAgree ==
  ASSUME NEW S, IsFiniteSet(S), NEW R \in SUBSET S, NEW f, NEW g, NEW h,
         Sums(f, S, g), Sums(f, R, h)
  PROVE  g[R] = h[R]
<1> DEFINE T == {n \in Nat : \A s \in SUBSET R : Cardinality(s) = n => g[s] = h[s]}
<1>1. 0 \in T
  <2> SUFFICES ASSUME NEW s \in SUBSET R, Cardinality(s) = 0
               PROVE  g[s] = h[s]
    OBVIOUS
  <2>1. s = {}
    BY FS_Subset, FS_EmptySet
  <2> QED
    BY <2>1 DEF Sums
<1>2. ASSUME NEW n \in Nat, n \in T
      PROVE  n + 1 \in T
  <2> SUFFICES ASSUME NEW s \in SUBSET R, Cardinality(s) = n + 1
               PROVE  g[s] = h[s]
    OBVIOUS
  <2>1. s # {} /\ s \in SUBSET S
    BY FS_EmptySet
  <2>4. Some(s) \in s
    BY <2>1 DEF Some
  <2>2. Some(s) \in s /\ s \ {Some(s)} \in SUBSET R /\ Cardinality(s \ {Some(s)}) = n
    <3>1. IsFiniteSet(R)
      BY FS_Subset
    <3>2. Cardinality(s \ {Some(s)}) = Cardinality(s) - 1
      BY <2>4, <3>1, WithoutOne
    <3> QED
      BY <2>4, <3>2
  <2>3. g[s \ {Some(s)}] = h[s \ {Some(s)}]
    BY <1>2, <2>2
  <2> QED
    BY <2>1, <2>3 DEF Sums
<1> HIDE DEF T
<1>3. Cardinality(R) \in T
  BY <1>1, <1>2, EveryNatural, FS_Subset, FS_CardinalityType
<1> QED
  BY <1>3 DEF T

(* A sum is a natural, that over the empty set is 0, and any other is that *)
(* of some element and the rest.                                           *)
LEMMA SumEquation ==
  ASSUME NEW S, IsFiniteSet(S), NEW f, \A a \in S : f[a] \in Nat
  PROVE  /\ SumFunctionOnSet(f, S) \in Nat
         /\ S = {} => SumFunctionOnSet(f, S) = 0
         /\ S # {} => /\ Some(S) \in S
                      /\ SumFunctionOnSet(f, S)
                           = f[Some(S)] + SumFunctionOnSet(f, S \ {Some(S)})
<1>1. PICK g : Sums(f, S, g) /\ SumFunctionOnSet(f, S) = g[S]
  BY PartialSums
<1>2. ASSUME S # {}
      PROVE  /\ Some(S) \in S
             /\ SumFunctionOnSet(f, S) = f[Some(S)] + SumFunctionOnSet(f, S \ {Some(S)})
  <2> DEFINE R == S \ {Some(S)}
  <2>1. Some(S) \in S
    BY <1>2 DEF Some
  <2>2. IsFiniteSet(R) /\ R \in SUBSET S
    BY FS_Subset
  <2> HIDE DEF R
  <2>3. PICK h : Sums(f, R, h) /\ SumFunctionOnSet(f, R) = h[R]
    BY <2>2, PartialSums
  <2>4. g[R] = h[R]
    BY <1>1, <2>2, <2>3, SumsAgree
  <2>5. g[S] = f[Some(S)] + g[R]
    BY <1>1, <1>2 DEF Sums, R
  <2> QED
    BY <1>1, <2>1, <2>3, <2>4, <2>5 DEF R
<1> QED
  BY <1>1, <1>2 DEF Sums

(* Whichever element is taken out first.                                   *)
LEMMA SumWithout ==
  ASSUME NEW S, IsFiniteSet(S), NEW f, \A a \in S : f[a] \in Nat, NEW a \in S
  PROVE  SumFunctionOnSet(f, S) = f[a] + SumFunctionOnSet(f, S \ {a})
<1> DEFINE T == {n \in Nat : \A s \in SUBSET S : \A b \in s :
                   Cardinality(s) = n =>
                     SumFunctionOnSet(f, s) = f[b] + SumFunctionOnSet(f, s \ {b})}
<1>1. ASSUME NEW n \in Nat, \A k \in Nat : k < n => k \in T
      PROVE  n \in T
  <2> SUFFICES ASSUME NEW s \in SUBSET S, NEW b \in s, Cardinality(s) = n
               PROVE  SumFunctionOnSet(f, s) = f[b] + SumFunctionOnSet(f, s \ {b})
    OBVIOUS
  <2> DEFINE c == Some(s)
  <2>1. IsFiniteSet(s) /\ s # {}
    BY FS_Subset
  <2>2. c \in s /\ SumFunctionOnSet(f, s) = f[c] + SumFunctionOnSet(f, s \ {c})
    BY <2>1, SumEquation
  <2> HIDE DEF c
  <2>3. CASE b = c
    BY <2>2, <2>3
  <2>4. CASE b # c
    <3> DEFINE both == (s \ {b}) \ {c}
    <3>1. /\ s \ {b} \in SUBSET S /\ Cardinality(s \ {b}) = n - 1 /\ c \in s \ {b}
          /\ s \ {c} \in SUBSET S /\ Cardinality(s \ {c}) = n - 1 /\ b \in s \ {c}
          /\ n - 1 \in Nat /\ both \in SUBSET S /\ (s \ {c}) \ {b} = both
      <4>1. /\ Cardinality(s \ {b}) = n - 1 /\ Cardinality(s \ {c}) = n - 1
            /\ Cardinality(s \ {b}) \in Nat
        BY <2>2, WithoutOne
      <4> QED
        BY <2>2, <2>4, <4>1
    <3>2. n - 1 \in T
      BY <1>1, <3>1
    <3>3. SumFunctionOnSet(f, s \ {b}) = f[c] + SumFunctionOnSet(f, both)
      BY <3>1, <3>2
    <3>4. SumFunctionOnSet(f, s \ {c}) = f[b] + SumFunctionOnSet(f, both)
      BY <3>1, <3>2
    <3>5. SumFunctionOnSet(f, both) \in Nat /\ f[b] \in Nat /\ f[c] \in Nat
      <4>1. IsFiniteSet(both)
        BY <3>1, FS_Subset
      <4> QED
        BY <2>2, <3>1, <4>1, SumEquation
    <3> HIDE DEF both
    <3> QED
      BY <2>2, <3>3, <3>4, <3>5
  <2> QED
    BY <2>3, <2>4
<1> HIDE DEF T
<1>2. Cardinality(S) \in T
  BY <1>1, EveryNaturalAfterAll, FS_CardinalityType
<1> QED
  BY <1>2 DEF T

(* A sum does not depend on the names of what is summed.                   *)
LEMMA SumRenamed ==
  ASSUME NEW S, IsFiniteSet(S), NEW f, \A a \in S : f[a] \in Nat,
         NEW R, NEW g, NEW to \in [S -> R],
         \A a, b \in S : to[a] = to[b] => a = b,
         \A c \in R : \E a \in S : to[a] = c,
         \A a \in S : g[to[a]] = f[a]
  PROVE  SumFunctionOnSet(g, R) = SumFunctionOnSet(f, S)
<1> DEFINE image(s) == {to[a] : a \in s}
           T == {n \in Nat : \A s \in SUBSET S :
                   Cardinality(s) = n =>
                     SumFunctionOnSet(g, image(s)) = SumFunctionOnSet(f, s)}
<1>1. ASSUME NEW s \in SUBSET S
      PROVE  /\ IsFiniteSet(s) /\ IsFiniteSet(image(s))
             /\ \A a \in s : f[a] \in Nat
             /\ \A c \in image(s) : g[c] \in Nat
  <2>1. IsFiniteSet(s)
    BY FS_Subset
  <2>2. IsFiniteSet(image(s))
    <3> DEFINE on == [a \in s |-> to[a]]
    <3>1. on \in Surjection(s, image(s))
      BY DEF Surjection
    <3> HIDE DEF on, image
    <3> QED
      BY <2>1, <3>1, FS_Surjection
  <2> QED
    BY <2>1, <2>2
<1>2. 0 \in T
  <2> SUFFICES ASSUME NEW s \in SUBSET S, Cardinality(s) = 0
               PROVE  SumFunctionOnSet(g, image(s)) = SumFunctionOnSet(f, s)
    OBVIOUS
  <2>1. s = {} /\ image(s) = {}
    BY <1>1, FS_EmptySet
  <2> QED
    BY <1>1, <2>1, SumEquation
<1>3. ASSUME NEW n \in Nat, n \in T
      PROVE  n + 1 \in T
  <2> SUFFICES ASSUME NEW s \in SUBSET S, Cardinality(s) = n + 1
               PROVE  SumFunctionOnSet(g, image(s)) = SumFunctionOnSet(f, s)
    OBVIOUS
  <2>1. PICK a \in s : TRUE
    BY FS_EmptySet
  <2>2. s \ {a} \in SUBSET S /\ Cardinality(s \ {a}) = n
    <3>1. Cardinality(s \ {a}) = Cardinality(s) - 1
      BY <2>1, WithoutOne
    <3> QED
      BY <3>1
  <2>3. image(s) \ {to[a]} = image(s \ {a}) /\ to[a] \in image(s)
    OBVIOUS
  <2>4. SumFunctionOnSet(f, s) = f[a] + SumFunctionOnSet(f, s \ {a})
    <3>1. IsFiniteSet(s) /\ \A b \in s : f[b] \in Nat
      BY <1>1
    <3> QED
      BY <2>1, <3>1, SumWithout
  <2>5. SumFunctionOnSet(g, image(s)) = g[to[a]] + SumFunctionOnSet(g, image(s) \ {to[a]})
    <3> DEFINE I == image(s)
               c == to[a]
    <3>1. IsFiniteSet(I) /\ (\A d \in I : g[d] \in Nat) /\ c \in I
      BY <1>1, <2>3
    <3> HIDE DEF I, c
    <3>2. SumFunctionOnSet(g, I) = g[c] + SumFunctionOnSet(g, I \ {c})
      BY <3>1, SumWithout
    <3> QED
      BY <3>2 DEF I, c
  <2>6. SumFunctionOnSet(g, image(s \ {a})) = SumFunctionOnSet(f, s \ {a})
    BY <1>3, <2>2
  <2> HIDE DEF image
  <2> QED
    BY <2>3, <2>4, <2>5, <2>6
<1>4. R = image(S)
  OBVIOUS
<1> HIDE DEF T, image
<1>5. Cardinality(S) \in T
  BY <1>2, <1>3, EveryNatural, FS_CardinalityType
<1> QED
  BY <1>4, <1>5 DEF T
=============================================================================
