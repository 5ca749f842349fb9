--------------------------- MODULE SmartBrevityProofs ---------------------------
(***************************************************************************)
(* Theorems about SmartBrevity, for every article, language and profile.   *)
(***************************************************************************)
EXTENDS SmartBrevity, Foundations

-----------------------------------------------------------------------------
(* Greatest elements.                                                      *)
LEMMA MaxOfFinite ==
  ASSUME NEW S \in SUBSET Int, IsFiniteSet(S), S # {}
  PROVE  Max(S) \in S /\ \A y \in S : Max(S) >= y
<1> DEFINE T == {n \in Nat : \A s \in SUBSET S :
                   Cardinality(s) = n /\ s # {} => \E x \in s : \A y \in s : x >= y}
<1>1. ASSUME NEW n \in Nat, \A k \in Nat : k < n => k \in T
      PROVE  n \in T
  <2> SUFFICES ASSUME NEW s \in SUBSET S, Cardinality(s) = n, s # {}
               PROVE  \E x \in s : \A y \in s : x >= y
    OBVIOUS
  <2>1. PICK a \in s : a \in Int
    OBVIOUS
  <2>2. s \ {a} \in SUBSET S /\ Cardinality(s \ {a}) \in Nat /\ Cardinality(s \ {a}) = n - 1
    BY <2>1, WithoutOne
  <2>3. CASE s \ {a} = {}
    BY <2>1, <2>3
  <2>4. CASE s \ {a} # {}
    <3>1. PICK x \in s \ {a} : \A y \in s \ {a} : x >= y
      BY <1>1, <2>2, <2>4
    <3>2. CASE x >= a
      BY <3>1, <3>2
    <3>3. CASE ~(x >= a)
      <4>1. a > x /\ \A y \in s : y \in Int
        BY <2>1, <3>3
      <4> QED
        BY <2>1, <3>1, <4>1
    <3> QED
      BY <3>2, <3>3
  <2> QED
    BY <2>3, <2>4
<1> HIDE DEF T
<1>2. Cardinality(S) \in T
  BY <1>1, EveryNaturalAfterAll, FS_CardinalityType
<1>3. \E x \in S : \A y \in S : x >= y
  BY <1>2 DEF T
<1> QED
  BY <1>3 DEF Max

LEMMA MaxOfPlaces ==
  ASSUME NEW n \in Nat, NEW s \in SUBSET (1 .. n), s # {}
  PROVE  Max(s) \in s /\ \A y \in s : Max(s) >= y
<1>1. IsFiniteSet(1 .. n)
  BY FS_Interval
<1>2. s \in SUBSET Int
  OBVIOUS
<1>3. IsFiniteSet(s)
  BY <1>1, FS_Subset
<1> QED
  BY <1>2, <1>3, MaxOfFinite

LEMMA MaxOfFirst ==
  ASSUME NEW k \in Nat, k # 0
  PROVE  Max(1 .. k) = k /\ (1 .. k) \ {k} = 1 .. k - 1
<1> DEFINE s == 1 .. k
<1>1. s \in SUBSET (1 .. k) /\ s # {} /\ k \in s
  OBVIOUS
<1> HIDE DEF s
<1>2. Max(s) \in s /\ \A y \in s : Max(s) >= y
  BY <1>1, MaxOfPlaces
<1>3. Max(s) \in 1 .. k /\ Max(s) >= k
  BY <1>1, <1>2
<1>4. Max(s) = k
  BY <1>3
<1> QED
  BY <1>4 DEF s

LEMMA FirstPlaces ==
  ASSUME NEW n \in Nat, NEW k \in 0 .. n - 1
  PROVE  /\ 1 .. k + 1 \in SUBSET (1 .. n) /\ 1 .. k + 1 # {}
         /\ Max(1 .. k + 1) = k + 1 /\ (1 .. k + 1) \ {k + 1} = 1 .. k
         /\ k \in 0 .. n /\ k + 1 \in 0 .. n
<1>1. k \in Nat /\ k + 1 <= n /\ k + 1 \in 1 .. k + 1
  OBVIOUS
<1>2. \A j \in 1 .. k + 1 : j \in 1 .. n
  BY <1>1
<1>3. 1 .. k + 1 \in SUBSET (1 .. n) /\ 1 .. k + 1 # {}
  BY <1>1, <1>2, Zenon
<1>4. k + 1 \in Nat /\ k + 1 # 0 /\ (k + 1) - 1 = k
  BY <1>1
<1>5. Max(1 .. k + 1) = k + 1 /\ (1 .. k + 1) \ {k + 1} = 1 .. k
  BY <1>4, MaxOfFirst
<1> QED
  BY <1>1, <1>3, <1>5

-----------------------------------------------------------------------------
(* The sentences that count.  What _dedupe_sentences has after each one.   *)
Keeps(unique, s) ==
  IF Length[s] < 20 \/ Contains(unique, s) THEN unique ELSE Append(unique, s)

LEMMA KeepsType ==
  ASSUME NEW unique \in Seq(Sentence), NEW s \in Sentence
  PROVE  Keeps(unique, s) \in Seq(Sentence)
BY DEF Keeps

LEMMA MeaningfulByPrefix ==
  ASSUME NEW q \in Seq(Sentence)
  PROVE  \E f \in [0 .. Len(q) -> Seq(Sentence)] :
           /\ f[0] = <<>>
           /\ \A k \in 0 .. Len(q) - 1 : f[k + 1] = Keeps(f[k], q[k + 1])
           /\ Meaningful(q) = f[Len(q)]
<1> DEFINE N == Len(q)
           S == 1 .. N
           step(h, s) == IF s = {} THEN <<>> ELSE Keeps(h[s \ {Max(s)}], q[Max(s)])
           pick == [s \in SUBSET S |-> Max(s)]
           G == [pair \in S \X Seq(Sentence) |-> Keeps(pair[2], q[pair[1]])]
<1>1. N \in Nat /\ DOMAIN q = S /\ \A k \in S : q[k] \in Sentence
  OBVIOUS
<1>2. G \in [S \X Seq(Sentence) -> Seq(Sentence)]
      /\ \A k \in S, u \in Seq(Sentence) : G[<<k, u>>] = Keeps(u, q[k])
  BY <1>1, KeepsType
<1>3. \A s \in SUBSET S : s # {} => pick[s] \in s /\ pick[s] = Max(s)
  BY <1>1, MaxOfPlaces
<1>4. IsFiniteSet(S) /\ <<>> \in Seq(Sentence)
  BY <1>1, FS_Interval
<1> HIDE DEF G, pick
<1>5. PICK h : Reduces(S, Seq(Sentence), <<>>, pick, G, h)
  BY <1>2, <1>3, <1>4, ReductionExists
<1>6. ASSUME NEW s \in SUBSET S
      PROVE  h[s] = step(h, s)
  <2>1. CASE s = {}
    BY <1>5, <2>1 DEF Reduces
  <2>2. CASE s # {}
    <3>1. Max(s) \in S /\ s \ {Max(s)} \in SUBSET S /\ pick[s] = Max(s)
      BY <1>3, <2>2
    <3>2. h[s] = G[<<Max(s), h[s \ {Max(s)}]>>] /\ h[s \ {Max(s)}] \in Seq(Sentence)
      BY <1>5, <2>2, <3>1 DEF Reduces
    <3> QED
      BY <1>2, <2>2, <3>1, <3>2
  <2> QED
    BY <2>1, <2>2
<1>7. h = [s \in SUBSET S |-> step(h, s)]
  BY <1>5, <1>6 DEF Reduces
<1> DEFINE iter[s \in SUBSET S] == step(iter, s)
<1>8. iter = [s \in SUBSET S |-> step(iter, s)]
  BY <1>7, Zenon
<1>9. Meaningful(q) = iter[S]
  BY <1>1 DEF Meaningful, FoldLeft, MapThenFoldSet, Keeps
<1> HIDE DEF iter
<1> DEFINE f == [k \in 0 .. N |-> iter[1 .. k]]
<1>10. \A s \in SUBSET S : iter[s] = step(iter, s)
  BY <1>8
<1>11. f[0] = <<>>
  <2>1. 1 .. 0 = {} /\ f[0] = iter[1 .. 0]
    BY <1>1
  <2>2. iter[{}] = <<>>
    BY <1>10
  <2> QED
    BY <2>1, <2>2
<1>12. ASSUME NEW k \in 0 .. N - 1
       PROVE  f[k + 1] = Keeps(f[k], q[k + 1])
  <2>1. /\ 1 .. k + 1 \in SUBSET S /\ 1 .. k + 1 # {}
        /\ Max(1 .. k + 1) = k + 1 /\ (1 .. k + 1) \ {k + 1} = 1 .. k
        /\ k \in 0 .. N /\ k + 1 \in 0 .. N
    BY <1>1, FirstPlaces
  <2>2. iter[1 .. k + 1] = Keeps(iter[1 .. k], q[k + 1])
    BY <1>10, <2>1
  <2> QED
    BY <2>1, <2>2
<1> DEFINE T == {k \in Nat : k <= N => f[k] \in Seq(Sentence)}
<1>13. 0 \in T
  BY <1>11, <1>4
<1>14. ASSUME NEW k \in Nat, k \in T
       PROVE  k + 1 \in T
  <2> SUFFICES ASSUME k + 1 <= N
               PROVE  f[k + 1] \in Seq(Sentence)
    OBVIOUS
  <2>1. k \in 0 .. N - 1 /\ k + 1 \in S /\ f[k] \in Seq(Sentence)
    BY <1>1, <1>14
  <2> QED
    BY <1>1, <1>12, <2>1, KeepsType
<1>15. f[N] = iter[S]
  BY <1>1
<1>16. DOMAIN f = 0 .. N /\ f = [k \in 0 .. N |-> f[k]]
  OBVIOUS
<1> HIDE DEF T, f
<1>17. \A k \in Nat : k \in T
  BY <1>13, <1>14, EveryNatural
<1>18. f \in [0 .. N -> Seq(Sentence)]
  BY <1>16, <1>17 DEF T
<1> QED
  BY <1>9, <1>11, <1>12, <1>15, <1>18

(* A sentence that is too short or not new adds nothing.                   *)
LEMMA Padding ==
  ASSUME NEW q \in Seq(Sentence), NEW s \in Sentence,
         Length[s] < 20 \/ Contains(Meaningful(q), s)
  PROVE  Meaningful(Append(q, s)) = Meaningful(q)
<1> DEFINE N == Len(q)
           r == Append(q, s)
<1>1. /\ r \in Seq(Sentence) /\ Len(r) = N + 1 /\ N \in Nat
      /\ r[N + 1] = s /\ \A k \in 1 .. N : r[k] = q[k]
  OBVIOUS
<1>2. PICK f \in [0 .. N -> Seq(Sentence)] :
        /\ f[0] = <<>>
        /\ \A k \in 0 .. N - 1 : f[k + 1] = Keeps(f[k], q[k + 1])
        /\ Meaningful(q) = f[N]
  BY MeaningfulByPrefix
<1> HIDE DEF r
<1>3. PICK g \in [0 .. N + 1 -> Seq(Sentence)] :
        /\ g[0] = <<>>
        /\ \A k \in 0 .. N : g[k + 1] = Keeps(g[k], r[k + 1])
        /\ Meaningful(r) = g[N + 1]
  <2>1. PICK g \in [0 .. Len(r) -> Seq(Sentence)] :
          /\ g[0] = <<>>
          /\ \A k \in 0 .. Len(r) - 1 : g[k + 1] = Keeps(g[k], r[k + 1])
          /\ Meaningful(r) = g[Len(r)]
    BY <1>1, MeaningfulByPrefix
  <2> QED
    BY <1>1, <2>1
<1> DEFINE T == {k \in Nat : k <= N => g[k] = f[k]}
<1>4. 0 \in T
  BY <1>2, <1>3
<1>5. ASSUME NEW k \in Nat, k \in T
      PROVE  k + 1 \in T
  <2> SUFFICES ASSUME k + 1 <= N
               PROVE  g[k + 1] = f[k + 1]
    OBVIOUS
  <2>1. k \in 0 .. N - 1 /\ k \in 0 .. N /\ k + 1 \in 1 .. N /\ g[k] = f[k]
    BY <1>1, <1>5
  <2> QED
    BY <1>1, <1>2, <1>3, <2>1
<1> HIDE DEF T
<1>6. N \in T
  BY <1>1, <1>4, <1>5, EveryNatural
<1>7. g[N] = Meaningful(q)
  BY <1>1, <1>2, <1>6 DEF T
<1>8. g[N + 1] = Keeps(g[N], s)
  BY <1>1, <1>3
<1> QED
  BY <1>3, <1>7, <1>8 DEF Keeps, r

-----------------------------------------------------------------------------
(* Where a sentence is first found.                                        *)
LEMMA FirstAtFacts ==
  ASSUME content \in Seq(Sentence), NEW k \in DOMAIN content
  PROVE  /\ FirstAt(content[k]) \in DOMAIN content
         /\ content[FirstAt(content[k])] = content[k]
         /\ FirstAt(content[k]) <= k
         /\ FirstAt(content[k]) \in Nat
<1> DEFINE s == content[k]
           T == {l \in Nat : l \in DOMAIN content /\ content[l] = s}
<1>1. DOMAIN content = 1 .. Len(content) /\ Len(content) \in Nat
  OBVIOUS
<1>2. T \in SUBSET Nat /\ k \in T
  BY <1>1
<1> HIDE DEF T
<1>3. PICK l \in T : \A j \in T : l <= j
  BY <1>2, LeastNatural
<1>4. l \in DOMAIN content /\ content[l] = s /\ \A j \in 1 .. l - 1 : content[j] # s
  <2>1. l \in DOMAIN content /\ content[l] = s
    BY <1>3 DEF T
  <2>2. ASSUME NEW j \in 1 .. l - 1
        PROVE  content[j] # s
    <3>1. j \in DOMAIN content /\ j \in Nat /\ ~(l <= j)
      BY <1>1, <2>1
    <3> QED
      BY <1>3, <3>1 DEF T
  <2> QED
    BY <2>1, <2>2
<1>5. /\ FirstAt(s) \in DOMAIN content /\ content[FirstAt(s)] = s
      /\ \A j \in 1 .. FirstAt(s) - 1 : content[j] # s
  BY <1>4 DEF FirstAt
<1> HIDE DEF s
<1>6. ~(k \in 1 .. FirstAt(s) - 1)
  BY <1>5 DEF s
<1>7. FirstAt(s) <= k
  BY <1>1, <1>5, <1>6
<1> QED
  BY <1>1, <1>5, <1>7 DEF s

(* What the article has after k sentences is without repetition, has those *)
(* that are long enough, and in the order in which they are first found.   *)
Counts(k) == {s \in {content[j] : j \in 1 .. k} : Length[s] >= 20}
Ordered(m) == \A i, j \in DOMAIN m : i < j => FirstAt(m[i]) < FirstAt(m[j])

LEMMA ContainsIsRange ==
  ASSUME NEW m \in Seq(Sentence), NEW s
  PROVE  Contains(m, s) <=> s \in Range(m)
<1>1. DOMAIN m = 1 .. Len(m)
  OBVIOUS
<1>2. Contains(m, s) <=> \E k \in DOMAIN m : m[k] = s
  BY <1>1 DEF Contains
<1> QED
  BY <1>2, Zenon DEF Range

LEMMA RangeOfAppend ==
  ASSUME NEW m \in Seq(Sentence), NEW s \in Sentence
  PROVE  Range(Append(m, s)) = Range(m) \cup {s}
<1> DEFINE r == Append(m, s)
<1>1. /\ DOMAIN r = 1 .. Len(m) + 1 /\ DOMAIN m = 1 .. Len(m) /\ Len(m) \in Nat
      /\ r[Len(m) + 1] = s /\ \A k \in 1 .. Len(m) : r[k] = m[k]
  OBVIOUS
<1> HIDE DEF r
<1>2. \A k \in DOMAIN r : r[k] \in Range(m) \cup {s}
  BY <1>1 DEF Range
<1>3. \A t \in Range(m) \cup {s} : \E k \in DOMAIN r : r[k] = t
  BY <1>1 DEF Range
<1>4. Range(r) = Range(m) \cup {s}
  BY <1>2, <1>3 DEF Range
<1> QED
  BY <1>4 DEF r

LEMMA MeaningfulFacts ==
  ASSUME content \in Seq(Sentence)
  PROVE  /\ Meaningful(content) \in Seq(Sentence)
         /\ Range(Meaningful(content)) = Known
         /\ Ordered(Meaningful(content))
<1> DEFINE N == Len(content)
<1>1. N \in Nat /\ DOMAIN content = 1 .. N /\ \A k \in 1 .. N : content[k] \in Sentence
  OBVIOUS
<1>2. PICK f \in [0 .. N -> Seq(Sentence)] :
        /\ f[0] = <<>>
        /\ \A k \in 0 .. N - 1 : f[k + 1] = Keeps(f[k], content[k + 1])
        /\ Meaningful(content) = f[N]
  BY MeaningfulByPrefix
<1> DEFINE T == {k \in Nat : k <= N => Range(f[k]) = Counts(k) /\ Ordered(f[k])}
<1>3. 0 \in T
  BY <1>2 DEF Range, Counts, Ordered
<1>4. ASSUME NEW k \in Nat, k \in T
      PROVE  k + 1 \in T
  <2> SUFFICES ASSUME k + 1 <= N
               PROVE  Range(f[k + 1]) = Counts(k + 1) /\ Ordered(f[k + 1])
    OBVIOUS
  <2> DEFINE s == content[k + 1]
  <2>1. /\ k \in 0 .. N - 1 /\ k \in 0 .. N /\ k + 1 \in 1 .. N /\ k + 1 \in DOMAIN content
        /\ s \in Sentence /\ f[k] \in Seq(Sentence)
        /\ f[k + 1] = Keeps(f[k], s) /\ Range(f[k]) = Counts(k) /\ Ordered(f[k])
    BY <1>1, <1>2, <1>4
  <2>2. {content[j] : j \in 1 .. k + 1} = {content[j] : j \in 1 .. k} \cup {s}
    <3>1. 1 .. k + 1 = (1 .. k) \cup {k + 1}
      OBVIOUS
    <3> QED
      BY <3>1
  <2>3. Contains(f[k], s) <=> s \in Range(f[k])
    BY <2>1, ContainsIsRange
  <2> HIDE DEF s
  <2>4. CASE Length[s] < 20 \/ s \in Range(f[k])
    <3>1. f[k + 1] = f[k]
      BY <2>1, <2>3, <2>4 DEF Keeps
    <3>2. Length[s] >= 20 => s \in Counts(k)
      BY <2>1, <2>4, LengthAssumption
    <3>3. Counts(k + 1) = Counts(k)
      BY <2>2, <3>2, Zenon DEF Counts
    <3> QED
      BY <2>1, <3>1, <3>3
  <2>5. CASE ~(Length[s] < 20 \/ s \in Range(f[k]))
    <3>1. f[k + 1] = Append(f[k], s)
      BY <2>1, <2>3, <2>5 DEF Keeps
    <3>2. Length[s] \in Nat /\ Length[s] >= 20
      BY <2>1, <2>5, LengthAssumption
    <3>3. Counts(k + 1) = Counts(k) \cup {s}
      BY <2>2, <3>2 DEF Counts
    <3>4. Range(f[k + 1]) = Counts(k + 1)
      BY <2>1, <3>1, <3>3, RangeOfAppend
    <3>5. FirstAt(s) = k + 1
      <4>1. \A j \in 1 .. k : content[j] # s
        BY <2>1, <2>5, <3>2 DEF Counts
      <4>2. /\ FirstAt(s) \in 1 .. N /\ content[FirstAt(s)] = s /\ FirstAt(s) <= k + 1
            /\ FirstAt(s) \in Nat
        BY <1>1, <2>1, FirstAtFacts DEF s
      <4> QED
        BY <4>1, <4>2
    <3>6. \A t \in Counts(k) : FirstAt(t) \in Nat /\ FirstAt(t) <= k
      <4> SUFFICES ASSUME NEW j \in 1 .. k
                   PROVE  FirstAt(content[j]) \in Nat /\ FirstAt(content[j]) <= k
        BY DEF Counts
      <4>1. j \in DOMAIN content
        BY <1>1, <2>1
      <4>2. FirstAt(content[j]) \in Nat /\ FirstAt(content[j]) <= j
        BY <4>1, FirstAtFacts
      <4> QED
        BY <4>2
    <3>7. /\ DOMAIN f[k + 1] = 1 .. Len(f[k]) + 1 /\ DOMAIN f[k] = 1 .. Len(f[k])
          /\ Len(f[k]) \in Nat /\ f[k + 1][Len(f[k]) + 1] = s
          /\ \A i \in 1 .. Len(f[k]) : f[k + 1][i] = f[k][i] /\ f[k][i] \in Counts(k)
      BY <2>1, <3>1 DEF Range
    <3>8. ASSUME NEW i \in DOMAIN f[k + 1], NEW j \in DOMAIN f[k + 1], i < j
          PROVE  FirstAt(f[k + 1][i]) < FirstAt(f[k + 1][j])
      <4>1. i \in 1 .. Len(f[k])
        BY <3>7, <3>8
      <4>2. CASE j \in 1 .. Len(f[k])
        <5>1. FirstAt(f[k][i]) < FirstAt(f[k][j])
          BY <2>1, <3>7, <3>8, <4>1, <4>2 DEF Ordered
        <5> QED
          BY <3>7, <4>1, <4>2, <5>1
      <4>3. CASE j = Len(f[k]) + 1
        <5>1. FirstAt(f[k + 1][i]) \in Nat /\ FirstAt(f[k + 1][i]) <= k
          BY <3>6, <3>7, <4>1
        <5> QED
          BY <3>5, <3>7, <4>3, <5>1
      <4> QED
        BY <3>7, <4>2, <4>3
    <3> QED
      BY <3>4, <3>8 DEF Ordered
  <2> QED
    BY <2>4, <2>5
<1> HIDE DEF T
<1>5. N \in T
  BY <1>1, <1>3, <1>4, EveryNatural
<1>6. Range(content) = {content[j] : j \in 1 .. N}
  BY <1>1 DEF Range
<1>7. Counts(N) = Known
  BY <1>6 DEF Counts, Known
<1> QED
  BY <1>1, <1>2, <1>5, <1>7 DEF T

-----------------------------------------------------------------------------
(* Scores.  The sentences that count, as the code has them and as a set.   *)
M == Meaningful(content)
P == Profile(lang)
Position == 1 .. Len(M)

LEMMA MeaningfulIsKnown ==
  ASSUME content \in Seq(Sentence)
  PROVE  /\ Len(M) \in Nat /\ DOMAIN M = Position /\ IsFiniteSet(Position)
         /\ Known \in SUBSET Sentence
         /\ M \in [Position -> Known]
         /\ \A i, j \in Position : i < j => FirstAt(M[i]) < FirstAt(M[j])
         /\ \A i \in Position : FirstAt(M[i]) \in Nat
         /\ \A i, j \in Position : M[i] = M[j] => i = j
         /\ \A s \in Known : \E i \in Position : M[i] = s
         /\ IsFiniteSet(Known) /\ Cardinality(Known) = Len(M)
<1>1. M \in Seq(Sentence) /\ Range(M) = Known /\ Ordered(M)
  BY MeaningfulFacts DEF M
<1> HIDE DEF M
<1>2. Len(M) \in Nat /\ DOMAIN M = Position /\ \A i \in Position : M[i] \in Sentence
  BY <1>1 DEF Position
<1>3. IsFiniteSet(Position) /\ Cardinality(Position) = Len(M)
  <2> DEFINE n == Len(M)
  <2>1. n \in Nat
    BY <1>2
  <2> HIDE DEF n
  <2>2. IsFiniteSet(1 .. n) /\ Cardinality(1 .. n) = IF 1 > n THEN 0 ELSE n - 1 + 1
    BY <2>1, FS_Interval
  <2>3. Cardinality(1 .. n) = n
    BY <2>1, <2>2
  <2> QED
    BY <2>2, <2>3 DEF Position, n
<1>4. Known \in SUBSET Sentence
  <2>1. \A k \in DOMAIN content : content[k] \in Sentence
    OBVIOUS
  <2> QED
    BY <2>1 DEF Known, Range
<1>5. /\ \A i \in Position : M[i] \in Known
      /\ \A s \in Known : \E i \in Position : M[i] = s
  BY <1>1, <1>2 DEF Range
<1>6. M \in [Position -> Known]
  <2>1. M = [i \in Position |-> M[i]]
    BY <1>1, <1>2
  <2> QED
    BY <1>5, <2>1
<1>7. \A i, j \in Position : i < j => FirstAt(M[i]) < FirstAt(M[j])
  BY <1>1, <1>2 DEF Ordered
<1>8. \A i \in Position : FirstAt(M[i]) \in Nat
  <2> TAKE i \in Position
  <2>1. PICK k \in DOMAIN content : content[k] = M[i]
    BY <1>5 DEF Known, Range
  <2> QED
    BY <2>1, FirstAtFacts
<1>9. \A i, j \in Position : M[i] = M[j] => i = j
  <2> SUFFICES ASSUME NEW i \in Position, NEW j \in Position, M[i] = M[j]
               PROVE  i = j
    OBVIOUS
  <2>1. i \in Nat /\ j \in Nat /\ ~(i < j) /\ ~(j < i)
    BY <1>2, <1>7, <1>8 DEF Position
  <2> QED
    BY <2>1
<1>10. M \in Bijection(Position, Known)
  BY <1>5, <1>6, <1>9 DEF Bijection, Injection, Surjection, IsInjective
<1>11. IsFiniteSet(Known) /\ Cardinality(Known) = Len(M)
  <2>1. ExistsBijection(Position, Known)
    BY <1>10 DEF ExistsBijection
  <2> QED
    BY <1>3, <2>1, FS_Bijection
<1> QED
  BY <1>2, <1>3, <1>4, <1>6, <1>7, <1>8, <1>9, <1>5, <1>11

LEMMA WordsType ==
  ASSUME NEW s \in Sentence, NEW w \in Word
  PROVE  P.words[s][w] \in Nat
<1>1. Resolved(lang) \in Language
  BY ProfileAssumption DEF Resolved
<1>2. P.words = Words[Resolved(lang)]
  BY DEF P, Profile
<1> QED
  BY <1>1, <1>2, ProfileAssumption

(* How often a word is in the sentences that count.                        *)
KnownCount(w) == SumFunction([t \in Known |-> P.words[t][w]])

LEMMA CountIsKnownCount ==
  ASSUME content \in Seq(Sentence), NEW w \in Word
  PROVE  Count(w, M, P) = KnownCount(w) /\ KnownCount(w) \in Nat
<1> DEFINE f == [k \in Position |-> P.words[M[k]][w]]
           g == [t \in Known |-> P.words[t][w]]
<1>1. /\ DOMAIN M = Position /\ IsFiniteSet(Position) /\ IsFiniteSet(Known)
      /\ M \in [Position -> Known] /\ Known \in SUBSET Sentence
      /\ \A i, j \in Position : M[i] = M[j] => i = j
      /\ \A s \in Known : \E i \in Position : M[i] = s
  BY MeaningfulIsKnown
<1>2. /\ \A k \in Position : f[k] \in Nat
      /\ \A t \in Known : g[t] \in Nat
      /\ \A k \in Position : g[M[k]] = f[k]
      /\ DOMAIN f = Position /\ DOMAIN g = Known
  BY <1>1, WordsType
<1>3. Count(w, M, P) = SumFunctionOnSet(f, Position)
  BY <1>1 DEF Count, SumFunction
<1>4. KnownCount(w) = SumFunctionOnSet(g, Known)
  BY DEF KnownCount, SumFunction
<1> HIDE DEF f, g
<1>5. SumFunctionOnSet(g, Known) = SumFunctionOnSet(f, Position)
  BY <1>1, <1>2, SumRenamed
<1>6. SumFunctionOnSet(g, Known) \in Nat
  BY <1>1, <1>2, SumEquation
<1> QED
  BY <1>3, <1>4, <1>5, <1>6

(* The count of the most frequent word, and 1 for none.                    *)
Most == Max({1} \cup {KnownCount(w) : w \in Word})

LEMMA ScaleIsMost ==
  ASSUME content \in Seq(Sentence)
  PROVE  Max({1, MaxFrequency(M, P)}) = Most /\ Most \in Nat
<1> DEFINE C == {KnownCount(w) : w \in Word}
<1>1. {Count(w, M, P) : w \in Word} = C
  BY CountIsKnownCount
<1>2. C \in SUBSET Nat
  BY CountIsKnownCount
<1>3. IsFiniteSet(C)
  <2> DEFINE on == [w \in Word |-> KnownCount(w)]
  <2>1. on \in Surjection(Word, C)
    BY DEF Surjection
  <2> HIDE DEF on, C
  <2> QED
    BY <2>1, WordAssumption, FS_Surjection
<1>4. MaxFrequency(M, P) = Max({0} \cup C) /\ Most = Max({1} \cup C)
  BY <1>1 DEF MaxFrequency, Most
<1> HIDE DEF C
<1>5. /\ IsFiniteSet({0} \cup C) /\ {0} \cup C \in SUBSET Int /\ {0} \cup C # {}
      /\ IsFiniteSet({1} \cup C) /\ {1} \cup C \in SUBSET Int /\ {1} \cup C # {}
  <2>1. IsFiniteSet({0}) /\ IsFiniteSet({1})
    BY FS_Singleton
  <2>2. IsFiniteSet({0} \cup C) /\ IsFiniteSet({1} \cup C)
    BY <1>3, <2>1, FS_Union
  <2> QED
    BY <1>2, <2>2
<1> DEFINE a == Max({0} \cup C)
           b == Max({1} \cup C)
           c == Max({1, a})
<1>6. a \in {0} \cup C /\ \A y \in {0} \cup C : a >= y
  BY <1>5, MaxOfFinite
<1>7. b \in {1} \cup C /\ \A y \in {1} \cup C : b >= y
  BY <1>5, MaxOfFinite
<1> HIDE DEF a, b
<1>8. a \in Nat /\ b \in Nat
  <2>1. (a = 0 \/ a \in C) /\ (b = 1 \/ b \in C)
    BY <1>6, <1>7
  <2>2. 0 \in Nat /\ 1 \in Nat
    OBVIOUS
  <2> QED
    BY <1>2, <2>1, <2>2, Zenon
<1>9. c \in {1, a} /\ \A y \in {1, a} : c >= y
  <2>1. IsFiniteSet({1}) /\ IsFiniteSet({a})
    BY FS_Singleton
  <2>2. IsFiniteSet({1} \cup {a})
    BY <2>1, FS_Union
  <2>3. {1} \cup {a} = {1, a} /\ {1, a} \in SUBSET Int /\ {1, a} # {}
    BY <1>8
  <2> QED
    BY <2>2, <2>3, MaxOfFinite
<1> HIDE DEF c
<1>10. c = b
  BY <1>2, <1>6, <1>7, <1>8, <1>9
<1> QED
  BY <1>4, <1>8, <1>10 DEF a, b, c

(* The bonuses of a sentence, by the position it has among those known.    *)
IsExtreme(s) == \/ \A t \in Known : FirstAt(s) <= FirstAt(t)
                \/ \A t \in Known : FirstAt(t) <= FirstAt(s)
Bonus(s, atAnEnd) == (IF s \in HasDigit THEN 2 ELSE 0) + (IF s \in P.keywords THEN 2 ELSE 0)
                     + (IF atAnEnd THEN 1 ELSE 0)

LEMMA EndsAreExtreme ==
  ASSUME content \in Seq(Sentence), NEW k \in Position
  PROVE  k \in {1, Len(M)} <=> IsExtreme(M[k])
<1>1. /\ Len(M) \in Nat
      /\ \A i \in Position : M[i] \in Known
      /\ \A i, j \in Position : i < j => FirstAt(M[i]) < FirstAt(M[j])
      /\ \A i \in Position : FirstAt(M[i]) \in Nat
      /\ \A s \in Known : \E i \in Position : M[i] = s
  BY MeaningfulIsKnown
<1> DEFINE n == Len(M)
<1>2. /\ n \in Nat /\ 1 \in Position /\ n \in Position
      /\ \A i \in Position : i \in Nat /\ 1 <= i /\ i <= n
  <2>1. n \in Nat /\ k \in 1 .. n
    BY <1>1 DEF Position
  <2> HIDE DEF n
  <2>2. 1 \in 1 .. n /\ n \in 1 .. n /\ \A i \in 1 .. n : i \in Nat /\ 1 <= i /\ i <= n
    BY <2>1
  <2>3. Position = 1 .. n
    BY DEF Position, n
  <2> QED
    BY <2>1, <2>2, <2>3
<1> HIDE DEF n
<1>3. \A i, j \in Position : FirstAt(M[i]) <= FirstAt(M[j]) <=> i <= j
  <2> TAKE i \in Position, j \in Position
  <2>1. CASE i < j
    BY <1>1, <1>2, <2>1
  <2>2. CASE j < i
    BY <1>1, <1>2, <2>2
  <2>3. CASE i = j
    BY <1>1, <1>2, <2>3
  <2> QED
    BY <1>2, <2>1, <2>2, <2>3
<1>4. /\ (\A t \in Known : FirstAt(M[k]) <= FirstAt(t)) <=> \A i \in Position : k <= i
      /\ (\A t \in Known : FirstAt(t) <= FirstAt(M[k])) <=> \A i \in Position : i <= k
  BY <1>1, <1>3
<1>5. (\A i \in Position : k <= i) <=> k = 1
  BY <1>2
<1>6. (\A i \in Position : i <= k) <=> k = n
  BY <1>2
<1> QED
  BY <1>4, <1>5, <1>6 DEF IsExtreme, n

LEMMA ScoreIsWorth ==
  ASSUME content \in Seq(Sentence), NEW k \in Position
  PROVE  Score(k, M, P) = Worth(M[k]) /\ Worth(M[k]) \in Int
<1> DEFINE s == M[k]
           f == [w \in Word |-> P.words[s][w] * Count(w, M, P)]
           g == [w \in Word |-> P.words[s][w] * KnownCount(w)]
<1>1. s \in Sentence
  BY MeaningfulIsKnown
<1>2. f = g /\ \A w \in Word : g[w] \in Nat
  BY <1>1, CountIsKnownCount, WordsType
<1>3. Score(k, M, P)
        = SumFunction(f) + Max({1, MaxFrequency(M, P)}) * Bonus(s, k \in {1, Len(M)})
  BY DEF Score, Bonus
<1>4. Worth(s) = SumFunction(g) + Most * Bonus(s, IsExtreme(s))
  BY DEF Worth, Bonus, IsExtreme, Most, KnownCount, P
<1>5. DOMAIN g = Word /\ SumFunction(g) = SumFunctionOnSet(g, DOMAIN g)
  BY DEF SumFunction
<1> HIDE DEF s, f, g
<1>6. SumFunction(g) \in Nat
  BY <1>2, <1>5, WordAssumption, SumEquation
<1>7. Bonus(s, k \in {1, Len(M)}) = Bonus(s, IsExtreme(s)) /\ Bonus(s, IsExtreme(s)) \in Nat
  <2>1. k \in {1, Len(M)} <=> IsExtreme(s)
    BY EndsAreExtreme DEF s
  <2> QED
    BY <2>1 DEF Bonus
<1>8. Score(k, M, P) = Worth(s)
  BY <1>2, <1>3, <1>4, <1>7, ScaleIsMost
<1>9. Worth(s) \in Int
  BY <1>4, <1>6, <1>7, ScaleIsMost
<1> QED
  BY <1>8, <1>9 DEF s

-----------------------------------------------------------------------------
(* The sort of the scores: positions, each once, as they rank.             *)
LEMMA NthFacts ==
  ASSUME NEW n \in Nat, NEW score \in [1 .. n -> Int]
  PROVE  /\ \A m \in 1 .. n : Nth(m, score) \in 1 .. n
         /\ \A l, m \in 1 .. n : l < m => Ranks(Nth(l, score), Nth(m, score), score)
         /\ \A k \in 1 .. n : \E m \in 1 .. n : Nth(m, score) = k
<1> DEFINE S == 1 .. n
           R == {pair \in S \X S : Ranks(pair[1], pair[2], score)}
           rank == Rank(S, R)
<1>1. IsFiniteSet(S) /\ Cardinality(S) = n
  <2>1. IsFiniteSet(1 .. n) /\ Cardinality(1 .. n) = IF 1 > n THEN 0 ELSE n - 1 + 1
    BY FS_Interval
  <2>2. (IF 1 > n THEN 0 ELSE n - 1 + 1) = n
    OBVIOUS
  <2> QED
    BY <2>1, <2>2
<1>2. DOMAIN score = S /\ \A k \in S : score[k] \in Int /\ k \in Int
  OBVIOUS
<1>3. \A j, k \in S : <<j, k>> \in R <=> Ranks(j, k, score)
  OBVIOUS
<1> HIDE DEF S, R
<1>4. StrictTotal(S, R)
  <2>1. \A j \in S : ~Ranks(j, j, score)
    BY <1>2 DEF Ranks
  <2>2. \A j, k \in S : j # k => Ranks(j, k, score) \/ Ranks(k, j, score)
    BY <1>2 DEF Ranks
  <2>3. \A i, j, k \in S : Ranks(i, j, score) /\ Ranks(j, k, score) => Ranks(i, k, score)
    BY <1>2 DEF Ranks
  <2> QED
    BY <1>3, <2>1, <2>2, <2>3, Zenon DEF StrictTotal
<1>5. rank \in Bijection(S, 0 .. n - 1)
  BY <1>1, <1>4, RanksOnto
<1>6. /\ \A k \in S : rank[k] \in 0 .. n - 1
      /\ \A r \in 0 .. n - 1 : \E k \in S : rank[k] = r
      /\ \A j, k \in S : rank[j] = rank[k] => j = k
  BY <1>5 DEF Bijection, Injection, Surjection, IsInjective
<1>7. \A k \in S : rank[k] = Cardinality({j \in DOMAIN score : Ranks(j, k, score)})
  <2> TAKE k \in S
  <2>1. {j \in S : <<j, k>> \in R} = {j \in DOMAIN score : Ranks(j, k, score)}
    BY <1>2, <1>3
  <2> QED
    BY <2>1 DEF Rank
<1> HIDE DEF rank
<1>8. \A m \in S : Nth(m, score) \in S /\ rank[Nth(m, score)] = m - 1
  <2> TAKE m \in S
  <2>1. m - 1 \in 0 .. n - 1
    BY DEF S
  <2>2. PICK k \in S : rank[k] = m - 1
    BY <1>6, <2>1
  <2>3. k \in DOMAIN score /\ Cardinality({j \in DOMAIN score : Ranks(j, k, score)}) = m - 1
    BY <1>2, <1>7, <2>2
  <2>4. /\ Nth(m, score) \in DOMAIN score
        /\ Cardinality({j \in DOMAIN score : Ranks(j, Nth(m, score), score)}) = m - 1
    BY <2>3 DEF Nth
  <2> QED
    BY <1>2, <1>7, <2>4
<1>9. \A l, m \in S : l < m => Ranks(Nth(l, score), Nth(m, score), score)
  <2> SUFFICES ASSUME NEW l \in S, NEW m \in S, l < m
               PROVE  Ranks(Nth(l, score), Nth(m, score), score)
    OBVIOUS
  <2> DEFINE a == Nth(l, score)
             b == Nth(m, score)
  <2>1. a \in S /\ b \in S /\ rank[a] = l - 1 /\ rank[b] = m - 1
    BY <1>8
  <2>2. l \in Int /\ m \in Int
    BY <1>2
  <2> HIDE DEF a, b
  <2>3. <<b, a>> \in R => rank[b] < rank[a]
    BY <1>1, <1>4, <2>1, RankIncreases DEF rank
  <2>4. ~(<<b, a>> \in R) /\ a # b
    BY <2>1, <2>2, <2>3
  <2>5. <<a, b>> \in R
    BY <1>4, <2>1, <2>4 DEF StrictTotal
  <2> QED
    BY <1>3, <2>1, <2>5 DEF a, b
<1>10. \A k \in S : \E m \in S : Nth(m, score) = k
  <2> TAKE k \in S
  <2> DEFINE m == rank[k] + 1
  <2>1. m \in S /\ m - 1 = rank[k]
    <3>1. rank[k] \in 0 .. n - 1
      BY <1>6
    <3> QED
      BY <3>1 DEF S
  <2>2. Nth(m, score) = k
    BY <1>6, <1>8, <2>1
  <2> QED
    BY <2>1, <2>2
<1> QED
  BY <1>8, <1>9, <1>10 DEF S

(* The sorted sentences are those that count, each once, the better ones   *)
(* first.                                                                  *)
Best == Scored(M, P)

LEMMA ScoredFacts ==
  ASSUME content \in Seq(Sentence)
  PROVE  /\ Best \in [Position -> Known] /\ DOMAIN Best = Position
         /\ Best \in Seq(Sentence) /\ Len(Best) = Len(M)
         /\ \A a, b \in Position : a < b => Better(Best[a], Best[b])
         /\ \A s \in Known : \E a \in Position : Best[a] = s
         /\ \A a, b \in Position : Best[a] = Best[b] => a = b
<1> DEFINE n == Len(M)
           score == [k \in Position |-> Score(k, M, P)]
<1>1. /\ n \in Nat /\ DOMAIN M = Position /\ Position = 1 .. n
      /\ M \in [Position -> Known] /\ Known \in SUBSET Sentence
      /\ \A i, j \in Position : i < j => FirstAt(M[i]) < FirstAt(M[j])
      /\ \A i \in Position : FirstAt(M[i]) \in Nat
      /\ \A s \in Known : \E i \in Position : M[i] = s
  BY MeaningfulIsKnown DEF Position
<1>2. score \in [1 .. n -> Int] /\ \A k \in Position : score[k] = Worth(M[k])
  <2>1. \A k \in Position : score[k] = Worth(M[k]) /\ Worth(M[k]) \in Int
    BY ScoreIsWorth
  <2>2. score = [k \in Position |-> score[k]]
    OBVIOUS
  <2> HIDE DEF score, n
  <2> QED
    BY <1>1, <2>1, <2>2
<1>3. Best = [a \in Position |-> M[Nth(a, score)]]
  BY <1>1 DEF Best, Scored
<1>4. \A k \in Position : Worth(M[k]) \in Int
  BY ScoreIsWorth
<1> HIDE DEF n, score
<1>5. /\ \A m \in Position : Nth(m, score) \in Position
      /\ \A l, m \in Position : l < m => Ranks(Nth(l, score), Nth(m, score), score)
      /\ \A k \in Position : \E m \in Position : Nth(m, score) = k
  <2>1. n \in Nat /\ Position = 1 .. n /\ score \in [1 .. n -> Int]
    BY <1>1, <1>2
  <2>2. /\ \A m \in 1 .. n : Nth(m, score) \in 1 .. n
        /\ \A l, m \in 1 .. n : l < m => Ranks(Nth(l, score), Nth(m, score), score)
        /\ \A k \in 1 .. n : \E m \in 1 .. n : Nth(m, score) = k
    BY <2>1, NthFacts
  <2> QED
    BY <2>1, <2>2, Zenon
<1>6. \A j, k \in Position : Ranks(j, k, score) => Better(M[j], M[k])
  BY <1>1, <1>2, <1>4, Zenon DEF Ranks, Better
<1>7. Best \in [Position -> Known] /\ DOMAIN Best = Position
  BY <1>1, <1>3, <1>5
<1>8. \A a, b \in Position : a < b => Better(Best[a], Best[b])
  BY <1>3, <1>5, <1>6
<1>9. \A s \in Known : \E a \in Position : Best[a] = s
  BY <1>1, <1>3, <1>5
<1>10. \A a \in Position : Worth(Best[a]) \in Int /\ FirstAt(Best[a]) \in Nat /\ a \in Int
  <2> TAKE a \in Position
  <2>1. a \in Int
    BY <1>1
  <2>2. Nth(a, score) \in Position /\ Best[a] = M[Nth(a, score)]
    BY <1>3, <1>5
  <2> QED
    BY <1>1, <1>4, <2>1, <2>2
<1>11. ASSUME NEW a \in Position, NEW b \in Position, Best[a] = Best[b]
       PROVE  a = b
  <2>1. ~Better(Best[a], Best[a])
    BY <1>10 DEF Better
  <2>2. ~(a < b) /\ ~(b < a)
    BY <1>8, <1>11, <2>1
  <2> QED
    BY <1>10, <2>2
<1>12. Best \in Seq(Sentence) /\ Len(Best) = n
  <2>1. Best \in [1 .. n -> Sentence]
    BY <1>1, <1>7
  <2> QED
    BY <1>1, <2>1
<1> QED
  BY <1>7, <1>8, <1>9, <1>11, <1>12 DEF n

-----------------------------------------------------------------------------
(* The bullets.  What is chosen after each of the sorted sentences.        *)
Picks(bullets, s, why) ==
  IF Text(s) = why \/ Len(bullets) = 3 THEN bullets ELSE Append(bullets, s)

LEMMA BulletsByPrefix ==
  ASSUME NEW q \in Seq(Sentence), NEW why
  PROVE  \E f : /\ f[0] = <<>>
                /\ \A k \in 0 .. Len(q) - 1 : f[k + 1] = Picks(f[k], q[k + 1], why)
                /\ Bullets(q, why)
                     = IF f[Len(q)] = <<>> THEN <<Fallback("fallback_bullet")>>
                       ELSE [n \in DOMAIN f[Len(q)] |-> Truncate(Text(f[Len(q)][n]), 200)]
<1> DEFINE N == Len(q)
           S == 1 .. N
           step(h, s) == IF s = {} THEN <<>> ELSE Picks(h[s \ {Max(s)}], q[Max(s)], why)
           pick == [s \in SUBSET S |-> Max(s)]
           G == [pair \in S \X Seq(Sentence) |-> Picks(pair[2], q[pair[1]], why)]
<1>1. N \in Nat /\ DOMAIN q = S /\ \A k \in S : q[k] \in Sentence
  OBVIOUS
<1>2. G \in [S \X Seq(Sentence) -> Seq(Sentence)]
      /\ \A k \in S, u \in Seq(Sentence) : G[<<k, u>>] = Picks(u, q[k], why)
  <2>1. \A k \in S, u \in Seq(Sentence) : Picks(u, q[k], why) \in Seq(Sentence)
    BY <1>1 DEF Picks
  <2> QED
    BY <2>1
<1>3. \A s \in SUBSET S : s # {} => pick[s] \in s /\ pick[s] = Max(s)
  BY <1>1, MaxOfPlaces
<1>4. IsFiniteSet(S) /\ <<>> \in Seq(Sentence)
  BY <1>1, FS_Interval
<1> HIDE DEF G, pick
<1>5. PICK h : Reduces(S, Seq(Sentence), <<>>, pick, G, h)
  BY <1>2, <1>3, <1>4, ReductionExists
<1>6. ASSUME NEW s \in SUBSET S
      PROVE  h[s] = step(h, s)
  <2>1. CASE s = {}
    BY <1>5, <2>1 DEF Reduces
  <2>2. CASE s # {}
    <3>1. Max(s) \in S /\ s \ {Max(s)} \in SUBSET S /\ pick[s] = Max(s)
      BY <1>3, <2>2
    <3>2. h[s] = G[<<Max(s), h[s \ {Max(s)}]>>] /\ h[s \ {Max(s)}] \in Seq(Sentence)
      BY <1>5, <2>2, <3>1 DEF Reduces
    <3> QED
      BY <1>2, <2>2, <3>1, <3>2
  <2> QED
    BY <2>1, <2>2
<1>7. h = [s \in SUBSET S |-> step(h, s)]
  BY <1>5, <1>6 DEF Reduces
<1> DEFINE iter[s \in SUBSET S] == step(iter, s)
           chosen == iter[S]
<1>8. iter = [s \in SUBSET S |-> step(iter, s)]
  BY <1>7, Zenon
<1>9. Bullets(q, why)
        = IF chosen = <<>> THEN <<Fallback("fallback_bullet")>>
          ELSE [n \in DOMAIN chosen |-> Truncate(Text(chosen[n]), 200)]
  BY <1>1 DEF Bullets, FoldLeft, MapThenFoldSet, Picks
<1> HIDE DEF iter
<1> DEFINE f == [k \in 0 .. N |-> iter[1 .. k]]
<1>10. \A s \in SUBSET S : iter[s] = step(iter, s)
  BY <1>8
<1>11. f[0] = <<>>
  <2>1. 1 .. 0 = {} /\ f[0] = iter[1 .. 0]
    BY <1>1
  <2>2. iter[{}] = <<>>
    BY <1>10
  <2> QED
    BY <2>1, <2>2
<1>12. ASSUME NEW k \in 0 .. N - 1
       PROVE  f[k + 1] = Picks(f[k], q[k + 1], why)
  <2>1. /\ 1 .. k + 1 \in SUBSET S /\ 1 .. k + 1 # {}
        /\ Max(1 .. k + 1) = k + 1 /\ (1 .. k + 1) \ {k + 1} = 1 .. k
        /\ k \in 0 .. N /\ k + 1 \in 0 .. N
    BY <1>1, FirstPlaces
  <2>2. iter[1 .. k + 1] = Picks(iter[1 .. k], q[k + 1], why)
    BY <1>10, <2>1
  <2> QED
    BY <2>1, <2>2
<1>13. f[N] = chosen
  BY <1>1
<1> HIDE DEF f
<1> QED
  BY <1>9, <1>11, <1>12, <1>13

(* The best sentence is looked for among the bullets in vain when it is    *)
(* too long for the why line; otherwise the bullets start after it.        *)
Skipped == IF Length[Best[1]] > 160 THEN 0 ELSE 1
UpTo(k) == IF k <= Skipped THEN 0 ELSE IF k - Skipped < 3 THEN k - Skipped ELSE 3

LEMMA WhyIsBest ==
  ASSUME content \in Seq(Sentence), 1 \in Position
  PROVE  /\ Why(Best) = Truncate(Text(Best[1]), 160) /\ Why(Best).of = Best[1]
         /\ Skipped \in {0, 1}
         /\ \A k \in Position : Text(Best[k]) = Why(Best) <=> k = 1 /\ Skipped = 1
<1>1. /\ Best \in Seq(Sentence) /\ Len(Best) = Len(M) /\ DOMAIN Best = Position
      /\ \A a, b \in Position : Best[a] = Best[b] => a = b
  BY ScoredFacts
<1>2. Best # <<>> /\ Head(Best) = Best[1]
  BY <1>1
<1>3. Why(Best) = Truncate(Text(Best[1]), 160)
  BY <1>2 DEF Why
<1>4. Why(Best).of = Best[1] /\ Skipped \in {0, 1}
  BY <1>3 DEF Truncate, Text, Skipped
<1>5. \A k \in Position : Best[k] \in Sentence /\ Length[Best[k]] \in Nat
  BY <1>1, LengthAssumption
<1>6. ASSUME NEW k \in Position
      PROVE  Text(Best[k]) = Why(Best) <=> k = 1 /\ Skipped = 1
  <2>1. Text(Best[k]) = Why(Best) => k = 1
    BY <1>1, <1>4 DEF Text
  <2>2. Text(Best[1]) = Why(Best) <=> Skipped = 1
    BY <1>3, <1>5 DEF Truncate, Text, Skipped
  <2> QED
    BY <2>1, <2>2
<1> QED
  BY <1>3, <1>4, <1>6

LEMMA BulletsAreNext ==
  ASSUME content \in Seq(Sentence), 1 \in Position
  PROVE  Bullets(Best, Why(Best))
           = IF UpTo(Len(M)) = 0 THEN <<Fallback("fallback_bullet")>>
             ELSE [i \in 1 .. UpTo(Len(M)) |-> Truncate(Text(Best[i + Skipped]), 200)]
<1> DEFINE N == Len(M)
           why == Why(Best)
           first(k) == [i \in 1 .. UpTo(k) |-> Best[i + Skipped]]
<1>1. /\ Best \in Seq(Sentence) /\ Len(Best) = N /\ Position = 1 .. N /\ N \in Nat
      /\ \A a \in Position : Best[a] \in Sentence
  BY ScoredFacts, MeaningfulIsKnown DEF Position
<1>2. /\ Skipped \in {0, 1}
      /\ \A k \in Position : Text(Best[k]) = why <=> k = 1 /\ Skipped = 1
  BY WhyIsBest
<1> HIDE DEF N, why
<1>3. PICK f : /\ f[0] = <<>>
               /\ \A k \in 0 .. N - 1 : f[k + 1] = Picks(f[k], Best[k + 1], why)
               /\ Bullets(Best, why)
                    = IF f[N] = <<>> THEN <<Fallback("fallback_bullet")>>
                      ELSE [n \in DOMAIN f[N] |-> Truncate(Text(f[N][n]), 200)]
  BY <1>1, BulletsByPrefix
<1> DEFINE T == {k \in Nat : k <= N => f[k] = first(k)}
<1>4. 0 \in T
  <2>1. UpTo(0) = 0
    BY <1>2 DEF UpTo
  <2>2. first(0) = <<>>
    BY <2>1
  <2> QED
    BY <1>3, <2>2
<1>5. ASSUME NEW k \in Nat, k \in T
      PROVE  k + 1 \in T
  <2> SUFFICES ASSUME k + 1 <= N
               PROVE  f[k + 1] = first(k + 1)
    OBVIOUS
  <2> DEFINE s == Best[k + 1]
             u == UpTo(k)
  <2>1. k \in 0 .. N - 1 /\ k + 1 \in Position /\ f[k] = first(k)
    BY <1>1, <1>5
  <2>2. f[k + 1] = Picks(first(k), s, why) /\ s \in Sentence
    BY <1>1, <1>3, <2>1
  <2>3. u \in 0 .. 3
    BY <1>2 DEF UpTo
  <2>4. \A i \in 1 .. u : i + Skipped \in Position
    BY <1>1, <1>2, <2>1 DEF UpTo
  <2>5. first(k) \in Seq(Sentence) /\ Len(first(k)) = u
    BY <1>1, <2>3, <2>4
  <2>6. CASE Text(s) = why \/ u = 3
    <3>1. UpTo(k + 1) = u
      BY <1>2, <2>1, <2>6 DEF UpTo
    <3>2. f[k + 1] = first(k)
      BY <2>2, <2>5, <2>6 DEF Picks
    <3> QED
      BY <3>1, <3>2
  <2>7. CASE ~(Text(s) = why \/ u = 3)
    <3>1. UpTo(k + 1) = u + 1 /\ k + 1 = u + 1 + Skipped
      BY <1>2, <2>1, <2>7 DEF UpTo
    <3>2. f[k + 1] = Append(first(k), s)
      BY <2>2, <2>5, <2>7 DEF Picks
    <3>3. Append(first(k), s) = [i \in 1 .. u + 1 |-> Best[i + Skipped]]
      BY <2>2, <2>3, <2>5, <3>1
    <3> QED
      BY <3>1, <3>2, <3>3
  <2> QED
    BY <2>6, <2>7
<1> HIDE DEF T
<1>6. f[N] = first(N)
  <2>1. N \in T
    BY <1>1, <1>4, <1>5, EveryNatural
  <2> QED
    BY <1>1, <2>1 DEF T
<1>7. UpTo(N) \in Nat /\ (first(N) = <<>> <=> UpTo(N) = 0) /\ DOMAIN first(N) = 1 .. UpTo(N)
  <2>1. UpTo(N) \in Nat
    BY <1>1, <1>2 DEF UpTo
  <2> QED
    BY <2>1
<1>8. Bullets(Best, why)
        = IF UpTo(N) = 0 THEN <<Fallback("fallback_bullet")>>
          ELSE [i \in 1 .. UpTo(N) |-> Truncate(Text(Best[i + Skipped]), 200)]
  BY <1>3, <1>6, <1>7
<1> QED
  BY <1>8 DEF N, why

-----------------------------------------------------------------------------
(* What a summary shows: the best sentences, up to a position.             *)
Upper == UpTo(Len(M)) + Skipped

LEMMA UpperIsBound ==
  ASSUME content \in Seq(Sentence), 1 \in Position
  PROVE  /\ Upper \in Position
         /\ Upper = IF Len(M) <= 3 + Skipped THEN Len(M) ELSE 3 + Skipped
<1> DEFINE n == Len(M)
<1>1. n \in Nat /\ Position = 1 .. n /\ Skipped \in {0, 1} /\ 1 \in 1 .. n
  BY MeaningfulIsKnown, WhyIsBest DEF Position
<1>2. Upper = UpTo(n) + Skipped
  BY DEF Upper
<1> HIDE DEF n
<1>3. Upper = IF n <= 3 + Skipped THEN n ELSE 3 + Skipped
  BY <1>1, <1>2 DEF UpTo
<1>4. Upper \in 1 .. n
  BY <1>1, <1>3
<1> QED
  BY <1>1, <1>3, <1>4 DEF n

LEMMA SummaryOfBest ==
  ASSUME summary = Summary(content, lang)
  PROVE  summary.why = Why(Best) /\ summary.bullets = Bullets(Best, Why(Best))
BY DEF Summary, Best, M, P

LEMMA ShownIsBest ==
  ASSUME content \in Seq(Sentence), 1 \in Position, summary = Summary(content, lang)
  PROVE  /\ summary.why.of = Best[1]
         /\ Shown = {Best[i] : i \in 1 .. Upper}
         /\ \/ UpTo(Len(M)) = 0 /\ summary.bullets = <<Fallback("fallback_bullet")>>
            \/ /\ UpTo(Len(M)) # 0 /\ DOMAIN summary.bullets = 1 .. UpTo(Len(M))
               /\ \A i \in 1 .. UpTo(Len(M)) : /\ i + Skipped \in Position
                                               /\ summary.bullets[i].of = Best[i + Skipped]
<1> DEFINE u == UpTo(Len(M))
           n == Len(M)
           bullets == summary.bullets
<1>1. /\ summary.why = Why(Best) /\ summary.why.of = Best[1] /\ Skipped \in {0, 1}
      /\ bullets = IF u = 0 THEN <<Fallback("fallback_bullet")>>
                   ELSE [i \in 1 .. u |-> Truncate(Text(Best[i + Skipped]), 200)]
  BY SummaryOfBest, WhyIsBest, BulletsAreNext
<1>2. /\ Position = 1 .. n /\ \A a \in Position : Best[a] \in Sentence
      /\ Upper = u + Skipped /\ Upper \in Position /\ n \in Nat /\ 1 \in Position
      /\ u \in Nat /\ (Skipped = 0 => u # 0)
  <2>1. Position = 1 .. n /\ \A a \in Position : Best[a] \in Sentence
    BY ScoredFacts, MeaningfulIsKnown DEF Position
  <2>2. Upper = u + Skipped /\ Upper \in Position /\ n \in Nat
    BY UpperIsBound, MeaningfulIsKnown DEF Upper
  <2>3. u \in Nat
    BY <1>1, <2>2 DEF UpTo
  <2> HIDE DEF u, n
  <2> QED
    BY <1>1, <2>1, <2>2, <2>3
<1> HIDE DEF u, n
<1>3. \A i \in 1 .. u : i + Skipped \in Position /\ i + Skipped \in 1 .. Upper
  BY <1>1, <1>2
<1>4. \A i \in 1 .. Upper : i \in Position
  BY <1>2
<1>5. CASE u = 0
  <2>1. bullets = <<Fallback("fallback_bullet")>> /\ Range(bullets) = {Fallback("fallback_bullet")}
    BY <1>1, <1>5 DEF Range
  <2>2. {text.of : text \in {summary.why} \cup Range(bullets)} = {Best[1], "fallback_bullet"}
    <3> DEFINE why == summary.why
               only == Fallback("fallback_bullet")
    <3>1. why.of = Best[1] /\ only.of = "fallback_bullet" /\ Range(bullets) = {only}
      BY <1>1, <2>1 DEF Fallback
    <3> HIDE DEF why, only, bullets
    <3>2. {text.of : text \in {why} \cup {only}} = {why.of, only.of}
      OBVIOUS
    <3> QED
      BY <3>1, <3>2 DEF why
  <2>3. Shown = {Best[1]}
    BY <1>2, <2>2, FallbackAssumption DEF Shown
  <2>4. Upper = 1
    BY <1>1, <1>2, <1>5
  <2>5. {Best[i] : i \in 1 .. Upper} = {Best[1]}
    BY <2>4
  <2> QED
    BY <1>1, <1>5, <2>1, <2>3, <2>5 DEF u
<1>6. CASE u # 0
  <2>1. bullets = [i \in 1 .. u |-> Truncate(Text(Best[i + Skipped]), 200)]
    BY <1>1, <1>6
  <2>2. DOMAIN bullets = 1 .. u /\ \A i \in 1 .. u : bullets[i].of = Best[i + Skipped]
    BY <2>1 DEF Truncate, Text
  <2> HIDE DEF bullets
  <2>3. \A text \in {summary.why} \cup Range(bullets) : \E i \in 1 .. Upper : text.of = Best[i]
    <3>1. 1 \in 1 .. Upper
      BY <1>2
    <3>2. \A i \in DOMAIN bullets : \E j \in 1 .. Upper : bullets[i].of = Best[j]
      BY <1>3, <2>2
    <3>3. summary.why.of = Best[1]
      BY <1>1
    <3> QED
      BY <3>1, <3>2, <3>3, Zenon DEF Range
  <2>4. \A i \in 1 .. Upper : \E text \in {summary.why} \cup Range(bullets) : text.of = Best[i]
    <3> TAKE i \in 1 .. Upper
    <3>1. CASE i = 1
      BY <1>1, <3>1
    <3>2. CASE i # 1
      <4>1. i - Skipped \in 1 .. u /\ (i - Skipped) + Skipped = i
        BY <1>1, <1>2, <3>2
      <4>2. bullets[i - Skipped] \in Range(bullets) /\ bullets[i - Skipped].of = Best[i]
        BY <2>2, <4>1 DEF Range
      <4> QED
        BY <4>2
    <3> QED
      BY <3>1, <3>2
  <2>5. {text.of : text \in {summary.why} \cup Range(bullets)} = {Best[i] : i \in 1 .. Upper}
    BY <2>3, <2>4
  <2>6. {Best[i] : i \in 1 .. Upper} \in SUBSET Sentence
    BY <1>2, <1>4
  <2>7. Shown = {Best[i] : i \in 1 .. Upper}
    BY <2>5, <2>6 DEF Shown, bullets
  <2> QED
    BY <1>1, <1>3, <1>6, <2>2, <2>7 DEF u, bullets
<1> QED
  BY <1>5, <1>6

(* An article without a sentence that counts.                              *)
LEMMA NothingKnown ==
  ASSUME content \in Seq(Sentence), 1 \notin Position, summary = Summary(content, lang)
  PROVE  /\ Known = {} /\ Shown = {}
         /\ summary.why.of = "fallback_why"
         /\ summary.bullets = <<Fallback("fallback_bullet")>>
<1>1. Len(M) \in Nat /\ \A s \in Known : \E i \in Position : M[i] = s
  BY MeaningfulIsKnown
<1>2. Len(M) = 0 /\ Position = {}
  <2> DEFINE n == Len(M)
  <2>1. n \in Nat /\ 1 \notin 1 .. n
    BY <1>1 DEF Position
  <2> HIDE DEF n
  <2>2. n = 0 /\ 1 .. n = {}
    BY <2>1
  <2> QED
    BY <2>2 DEF Position, n
<1>3. Known = {}
  BY <1>1, <1>2
<1>4. Best \in Seq(Sentence) /\ Len(Best) = 0
  BY <1>2, ScoredFacts
<1>5. Best = <<>>
  BY <1>4
<1>6. Why(Best) = Fallback("fallback_why")
  BY <1>5 DEF Why, Truncate, Fallback
<1>7. Bullets(Best, Why(Best)) = <<Fallback("fallback_bullet")>>
  <2>1. PICK f : /\ f[0] = <<>>
                 /\ Bullets(Best, Why(Best))
                      = IF f[Len(Best)] = <<>> THEN <<Fallback("fallback_bullet")>>
                        ELSE [n \in DOMAIN f[Len(Best)] |-> Truncate(Text(f[Len(Best)][n]), 200)]
    BY <1>4, BulletsByPrefix
  <2> QED
    BY <1>4, <2>1
<1>8. summary.why = Fallback("fallback_why") /\ summary.bullets = <<Fallback("fallback_bullet")>>
  BY <1>6, <1>7, SummaryOfBest
<1>9. Range(summary.bullets) = {Fallback("fallback_bullet")}
  BY <1>8 DEF Range
<1>10. {text.of : text \in {summary.why} \cup Range(summary.bullets)}
         = {"fallback_why", "fallback_bullet"}
  BY <1>8, <1>9 DEF Fallback
<1>11. Shown = {}
  BY <1>10, FallbackAssumption DEF Shown
<1> QED
  BY <1>3, <1>8, <1>11 DEF Fallback

-----------------------------------------------------------------------------
(* Every delivery records the summary of the article.                      *)
IInv ==
  /\ content \in Seq(Sentence)
  /\ summary \in {Pending, Summary(content, lang)}

LEMMA Inductive == Spec => []IInv
<1>1. Init => IInv
  <2> SUFFICES ASSUME Init
               PROVE  IInv
    OBVIOUS
  <2>1. PICK n \in 0 .. MaxSentences : content \in [1 .. n -> Sentence]
    BY DEF Init, SeqOf
  <2>2. n \in Nat
    BY BoundAssumption
  <2>3. content \in Seq(Sentence)
    BY <2>1, <2>2
  <2> QED
    BY <2>3 DEF Init, IInv
<1>2. IInv /\ [Next]_vars => IInv'
  <2> SUFFICES ASSUME IInv, [Next]_vars
               PROVE  IInv'
    OBVIOUS
  <2>1. CASE Summarize
    BY <2>1 DEF IInv, Summarize
  <2>2. CASE UNCHANGED vars
    BY <2>2 DEF IInv, vars
  <2> QED
    BY <2>1, <2>2 DEF Next
<1> QED
  BY <1>1, <1>2, PTL DEF Spec

(* For every article, language and profile: a sentence that repeats an     *)
(* earlier one or is too short changes nothing of the summary of the       *)
(* article, its word frequencies and its bottom line included              *)
(* (_split_sentences, _dedupe_sentences).                                  *)
THEOREM PaddingChangesNothingHolds == Spec => []PaddingChangesNothing
<1>1. IInv => PaddingChangesNothing
  <2> SUFFICES ASSUME IInv, summary # Pending, NEW s \in Sentence,
                      Length[s] < 20 \/ s \in Range(content)
               PROVE  Summary(Append(content, s), lang) = summary
    BY DEF PaddingChangesNothing
  <2>1. content \in Seq(Sentence) /\ summary = Summary(content, lang)
    BY DEF IInv
  <2>2. Meaningful(content) \in Seq(Sentence) /\ Range(Meaningful(content)) = Known
    BY <2>1, MeaningfulFacts
  <2>3. Length[s] < 20 \/ s \in Known
    BY LengthAssumption DEF Known
  <2>4. Length[s] < 20 \/ Contains(Meaningful(content), s)
    BY <2>2, <2>3, ContainsIsRange
  <2>5. Meaningful(Append(content, s)) = Meaningful(content)
    BY <2>1, <2>4, Padding
  <2> QED
    BY <2>1, <2>5 DEF Summary
<1> QED
  BY <1>1, Inductive, PTL

(* For every article, language and profile: the why line is the best       *)
(* sentence, no sentence is left out for one that is worth less, and the   *)
(* bullets are in order (_score_sentences, _build_bullets).                *)
THEOREM BestAreShownHolds == Spec => []BestAreShown
<1>1. IInv => BestAreShown
  <2> SUFFICES ASSUME IInv, summary # Pending
               PROVE  /\ Known # {} => \A s \in Known \ {summary.why.of} : Better(summary.why.of, s)
                      /\ \A s \in Shown, t \in Known \ Shown : Better(s, t)
                      /\ \A m, n \in DOMAIN summary.bullets :
                           m < n => Better(summary.bullets[m].of, summary.bullets[n].of)
    BY DEF BestAreShown
  <2>1. content \in Seq(Sentence) /\ summary = Summary(content, lang)
    BY DEF IInv
  <2>2. CASE 1 \notin Position
    <3>1. /\ Known = {} /\ Shown = {}
          /\ DOMAIN summary.bullets = {1}
      BY <2>1, <2>2, NothingKnown
    <3> QED
      BY <3>1
  <2>3. CASE 1 \in Position
    <3> DEFINE N == Len(M)
               u == UpTo(Len(M))
    <3>1. /\ N \in Nat /\ Position = 1 .. N /\ Skipped \in {0, 1} /\ Upper \in Position
          /\ \A a, b \in Position : a < b => Better(Best[a], Best[b])
          /\ \A s \in Known : \E a \in Position : Best[a] = s
      BY <2>1, <2>3, MeaningfulIsKnown, ScoredFacts, WhyIsBest, UpperIsBound DEF Position
    <3>2. /\ summary.why.of = Best[1]
          /\ Shown = {Best[i] : i \in 1 .. Upper}
          /\ \/ u = 0 /\ DOMAIN summary.bullets = {1}
             \/ /\ DOMAIN summary.bullets = 1 .. u
                /\ \A i \in 1 .. u : /\ i + Skipped \in Position
                                     /\ summary.bullets[i].of = Best[i + Skipped]
      BY <2>1, <2>3, ShownIsBest
    <3> HIDE DEF N, u
    <3>3. ASSUME NEW s \in Known \ {summary.why.of}
          PROVE  Better(summary.why.of, s)
      <4>1. PICK a \in Position : Best[a] = s
        BY <3>1
      <4>2. a # 1 /\ 1 < a
        BY <3>1, <3>2, <4>1
      <4> QED
        BY <2>3, <3>1, <3>2, <4>1, <4>2
    <3>4. ASSUME NEW s \in Shown, NEW t \in Known \ Shown
          PROVE  Better(s, t)
      <4>1. PICK i \in 1 .. Upper : Best[i] = s
        BY <3>2
      <4>2. PICK j \in Position : Best[j] = t
        BY <3>1
      <4>3. j \notin 1 .. Upper
        BY <3>2, <4>2
      <4>4. i \in Position /\ i < j
        BY <3>1, <4>3
      <4> QED
        BY <3>1, <4>1, <4>2, <4>4
    <3>5. ASSUME NEW m \in DOMAIN summary.bullets, NEW n \in DOMAIN summary.bullets, m < n
          PROVE  Better(summary.bullets[m].of, summary.bullets[n].of)
      <4>1. /\ DOMAIN summary.bullets = 1 .. u
            /\ \A i \in 1 .. u : /\ i + Skipped \in Position
                                 /\ summary.bullets[i].of = Best[i + Skipped]
        BY <3>2, <3>5
      <4>2. m + Skipped < n + Skipped
        BY <3>1, <3>5, <4>1
      <4> QED
        BY <3>1, <4>1, <4>2
    <3> QED
      BY <3>3, <3>4, <3>5
  <2> QED
    BY <2>2, <2>3
<1> QED
  BY <1>1, Inductive, PTL

(* For every article, language and profile: the sentence of the why line   *)
(* is repeated as a bullet just when it is too long for that line, and a   *)
(* summary shows as many sentences as there is room for (_build_bullets,   *)
(* _truncate).                                                             *)
THEOREM RepeatedWhyIsLongHolds == Spec => []RepeatedWhyIsLong
<1>1. IInv => RepeatedWhyIsLong
  <2> DEFINE long == Known # {} /\ Length[summary.why.of] > 160
             repeated == \E n \in DOMAIN summary.bullets : summary.bullets[n].of = summary.why.of
  <2> SUFFICES ASSUME IInv, summary # Pending
               PROVE  /\ repeated <=> long
                      /\ Cardinality(Shown) = Min({Cardinality(Known), IF long THEN 3 ELSE 4})
    BY DEF RepeatedWhyIsLong
  <2>1. content \in Seq(Sentence) /\ summary = Summary(content, lang)
    BY DEF IInv
  <2>2. \A a, b \in Nat : Min({a, b}) = IF a <= b THEN a ELSE b
    <3> TAKE a \in Nat, b \in Nat
    <3> DEFINE c == Min({a, b})
    <3>1. \E x \in {a, b} : \A y \in {a, b} : x <= y
      OBVIOUS
    <3>2. c \in {a, b} /\ \A y \in {a, b} : c <= y
      BY <3>1 DEF Min
    <3> HIDE DEF c
    <3>3. c = IF a <= b THEN a ELSE b
      BY <3>2
    <3> QED
      BY <3>3 DEF c
  <2>3. CASE 1 \notin Position
    <3>1. /\ Known = {} /\ Shown = {} /\ summary.why.of = "fallback_why"
          /\ DOMAIN summary.bullets = {1} /\ summary.bullets[1].of = "fallback_bullet"
      BY <2>1, <2>3, NothingKnown DEF Fallback
    <3>2. ~long /\ ~repeated
      BY <3>1
    <3>3. Cardinality(Known) = 0 /\ Cardinality(Shown) = 0
      BY <3>1, FS_EmptySet
    <3> QED
      BY <2>2, <3>2, <3>3
  <2>4. CASE 1 \in Position
    <3> DEFINE N == Len(M)
               u == UpTo(Len(M))
    <3>1. /\ N \in Nat /\ Position = 1 .. N /\ Skipped \in {0, 1} /\ Upper \in Position
          /\ Upper = IF N <= 3 + Skipped THEN N ELSE 3 + Skipped
          /\ Upper = u + Skipped
          /\ Cardinality(Known) = N
      BY <2>1, <2>4, MeaningfulIsKnown, WhyIsBest, UpperIsBound DEF Position, Upper
    <3>2. /\ Best \in [Position -> Known] /\ Known \in SUBSET Sentence
          /\ \A a, b \in Position : Best[a] = Best[b] => a = b
      BY <2>1, MeaningfulIsKnown, ScoredFacts
    <3>3. /\ summary.why.of = Best[1]
          /\ Shown = {Best[i] : i \in 1 .. Upper}
          /\ \/ u = 0 /\ summary.bullets = <<Fallback("fallback_bullet")>>
             \/ /\ u # 0 /\ DOMAIN summary.bullets = 1 .. u
                /\ \A i \in 1 .. u : /\ i + Skipped \in Position
                                     /\ summary.bullets[i].of = Best[i + Skipped]
      BY <2>1, <2>4, ShownIsBest
    <3> HIDE DEF N
    <3>4. u \in Nat
      BY <3>1 DEF UpTo, N
    <3> HIDE DEF u
    <3>5. long <=> Skipped = 0
      <4>1. Best[1] \in Known /\ summary.why.of = Best[1]
        BY <2>4, <3>2, <3>3
      <4>2. long <=> Length[Best[1]] > 160
        BY <4>1
      <4>3. Skipped = 0 <=> Length[Best[1]] > 160
        BY DEF Skipped
      <4> QED
        BY <4>2, <4>3
    <3>6. repeated <=> Skipped = 0
      <4>1. CASE u = 0
        <5>1. DOMAIN summary.bullets = {1} /\ summary.bullets[1].of = "fallback_bullet"
          BY <3>3, <4>1 DEF Fallback
        <5>2. Best[1] # "fallback_bullet"
          BY <2>4, <3>2, FallbackAssumption
        <5>3. Skipped = 1
          BY <3>1, <4>1
        <5> QED
          BY <3>3, <5>1, <5>2, <5>3
      <4>2. CASE u # 0
        <5>1. /\ DOMAIN summary.bullets = 1 .. u /\ 1 \in 1 .. u
              /\ \A i \in 1 .. u : /\ i + Skipped \in Position
                                   /\ summary.bullets[i].of = Best[i + Skipped]
          BY <3>3, <3>4, <4>2
        <5>2. \A i \in 1 .. u : i + Skipped = 1 <=> i = 1 /\ Skipped = 0
          BY <3>1
        <5>3. \A i \in 1 .. u : Best[i + Skipped] = Best[1] <=> i + Skipped = 1
          BY <2>4, <3>2, <5>1
        <5> QED
          BY <3>3, <5>1, <5>2, <5>3
      <4> QED
        BY <4>1, <4>2
    <3>7. Cardinality(Shown) = Upper
      <4> DEFINE part == [i \in 1 .. Upper |-> Best[i]]
      <4>1. Upper \in Nat /\ \A i \in 1 .. Upper : i \in Position
        BY <3>1
      <4>2. \A a, b \in 1 .. Upper : part[a] = part[b] => a = b
        BY <3>2, <4>1
      <4>3. part \in [1 .. Upper -> Shown] /\ \A s \in Shown : \E a \in 1 .. Upper : part[a] = s
        BY <3>3
      <4> HIDE DEF part
      <4>4. part \in Bijection(1 .. Upper, Shown)
        BY <4>2, <4>3 DEF Bijection, Injection, Surjection, IsInjective
      <4>5. ExistsBijection(1 .. Upper, Shown)
        BY <4>4 DEF ExistsBijection
      <4>6. IsFiniteSet(1 .. Upper) /\ Cardinality(1 .. Upper) = Upper
        <5>1. /\ IsFiniteSet(1 .. Upper)
              /\ Cardinality(1 .. Upper) = IF 1 > Upper THEN 0 ELSE Upper - 1 + 1
          BY <4>1, FS_Interval
        <5>2. (IF 1 > Upper THEN 0 ELSE Upper - 1 + 1) = Upper
          BY <4>1
        <5> QED
          BY <5>1, <5>2
      <4> QED
        BY <4>5, <4>6, FS_Bijection
    <3>8. Min({N, IF long THEN 3 ELSE 4}) = Upper
      <4> HIDE DEF long
      <4>1. (IF long THEN 3 ELSE 4) = 3 + Skipped
        BY <3>1, <3>5
      <4>2. 3 + Skipped \in Nat
        BY <3>1
      <4>3. Min({N, 3 + Skipped}) = IF N <= 3 + Skipped THEN N ELSE 3 + Skipped
        BY <2>2, <3>1, <4>2
      <4> QED
        BY <3>1, <4>1, <4>3
    <3> QED
      BY <3>1, <3>5, <3>6, <3>7, <3>8
  <2> QED
    BY <2>3, <2>4
<1> QED
  BY <1>1, Inductive, PTL
=============================================================================
