---------------------------- MODULE SleepFeedProofs ----------------------------
(***************************************************************************)
(* Theorems about SleepFeed, for every profile, table, clock and limit.    *)
(***************************************************************************)
EXTENDS SleepFeed, Foundations

-----------------------------------------------------------------------------
(* Days and ticks.                                                         *)

(* A day has all its ticks.                                                *)
LEMMA DayOf ==
  ASSUME NEW t \in Int
  PROVE  /\ t \div DayLength \in Int
         /\ (t \div DayLength) * DayLength \in Int
         /\ (t \div DayLength) * DayLength <= t
         /\ t < (t \div DayLength) * DayLength + DayLength
BY ProfileAssumption

(* Later times are on later days.                                          *)
LEMMA DayMonotone ==
  ASSUME NEW s \in Int, NEW t \in Int, s <= t
  PROVE  s \div DayLength <= t \div DayLength
BY ProfileAssumption

LEMMA DayBefore ==
  ASSUME NEW k \in Int
  PROVE  k * DayLength \in Int /\ (k - 1) * DayLength = k * DayLength - DayLength
BY ProfileAssumption

-----------------------------------------------------------------------------
(* The order of the rows.                                                  *)
Order == {pair \in Article \X Article : Before(pair[1], pair[2])}

LEMMA OrderIsTotal ==
  ASSUME NEW S \in SUBSET Article
  PROVE  /\ StrictTotal(S, Order)
         /\ \A a, b \in S : <<a, b>> \in Order <=> Before(a, b)
<1>1. \A a, b \in Article : <<a, b>> \in Order <=> Before(a, b)
  BY DEF Order
<1>2. \A a \in Article : a \in Int /\ Published[a] \in Int
  BY ArticleAssumption
<1>3. \A a \in Article : ~Before(a, a)
  BY <1>2 DEF Before
<1>4. \A a, b \in Article : a # b => Before(a, b) \/ Before(b, a)
  BY <1>2 DEF Before
<1>5. \A a, b, c \in Article : Before(a, b) /\ Before(b, c) => Before(a, c)
  BY <1>2 DEF Before
<1> QED
  BY <1>1, <1>3, <1>4, <1>5 DEF StrictTotal

LEMMA BeforeIsTotal ==
  \A a, b \in Article :
    /\ ~Before(a, a)
    /\ a # b => Before(a, b) \/ Before(b, a)
    /\ ~(Before(a, b) /\ Before(b, a))
<1> USE ArticleAssumption DEF Before
<1>1. \A a \in Article : a \in Int /\ Published[a] \in Int
  OBVIOUS
<1> QED
  BY <1>1

(* How many of a set come before an article.                               *)
Preceding(S, a) == {b \in S : Before(b, a)}

LEMMA CountPreceding ==
  ASSUME NEW S \in SUBSET Article, NEW a \in Article
  PROVE  /\ IsFiniteSet(S) /\ IsFiniteSet(Preceding(S, a))
         /\ Cardinality(S) \in Nat /\ Cardinality(Preceding(S, a)) \in Nat
<1>1. IsFiniteSet(S)
  BY FiniteAssumption, FS_Subset
<1>2. Preceding(S, a) \in SUBSET S
  BY DEF Preceding
<1>3. IsFiniteSet(Preceding(S, a))
  BY <1>1, <1>2, FS_Subset
<1> QED
  BY <1>1, <1>3, FS_CardinalityType

LEMMA PrecedingMore ==
  ASSUME NEW S \in SUBSET Article, NEW T \in SUBSET S, NEW a \in Article
  PROVE  Cardinality(Preceding(T, a)) <= Cardinality(Preceding(S, a))
<1>1. IsFiniteSet(Preceding(S, a))
  BY CountPreceding
<1>2. Preceding(T, a) \in SUBSET Preceding(S, a)
  BY DEF Preceding
<1> QED
  BY <1>1, <1>2, FS_Subset

LEMMA EarliestByRank ==
  ASSUME NEW S \in SUBSET Article, NEW n \in Nat
  PROVE  /\ Earliest(n, S) = {a \in S : Rank(S, Order)[a] < n}
         /\ \A a \in S : Rank(S, Order)[a] = Cardinality(Preceding(S, a))
<1>1. ASSUME NEW a \in S
      PROVE  Rank(S, Order)[a] = Cardinality(Preceding(S, a))
  <2>1. {b \in S : <<b, a>> \in Order} = Preceding(S, a)
    BY OrderIsTotal DEF Preceding
  <2> QED
    BY <2>1 DEF Rank
<1>2. Earliest(n, S) = {a \in S : Cardinality(Preceding(S, a)) < n}
  BY DEF Earliest, Preceding
<1> QED
  BY <1>1, <1>2

(* Of a set with at least n articles the n earliest are n, of a smaller    *)
(* one they are all.                                                       *)
LEMMA EarliestCount ==
  ASSUME NEW S \in SUBSET Article, NEW n \in Nat
  PROVE  /\ Earliest(n, S) \in SUBSET S
         /\ Cardinality(Earliest(n, S)) <= n
         /\ n <= Cardinality(S) => Cardinality(Earliest(n, S)) = n
         /\ Cardinality(S) <= n => Earliest(n, S) = S
<1> DEFINE E == Earliest(n, S)
           N == Cardinality(S)
           rank == Rank(S, Order)
           part == [a \in E |-> rank[a]]
<1>1. IsFiniteSet(S) /\ N \in Nat
  BY FiniteAssumption, FS_Subset, FS_CardinalityType
<1>2. rank \in Bijection(S, 0 .. N - 1)
  BY <1>1, OrderIsTotal, RanksOnto
<1>3. E = {a \in S : rank[a] < n} /\ E \in SUBSET S
  BY EarliestByRank
<1> HIDE DEF E, N, rank
<1>4. /\ \A a \in S : rank[a] \in 0 .. N - 1
      /\ \A a, b \in S : rank[a] = rank[b] => a = b
      /\ \A k \in 0 .. N - 1 : \E a \in S : rank[a] = k
  BY <1>2 DEF Bijection, Injection, Surjection, IsInjective
<1>5. part \in Injection(E, 0 .. n - 1)
  <2>1. part \in [E -> 0 .. n - 1]
    BY <1>1, <1>3, <1>4
  <2>2. \A a, b \in E : part[a] = part[b] => a = b
    BY <1>3, <1>4
  <2> QED
    BY <2>1, <2>2 DEF Injection, IsInjective
<1>6. IsFiniteSet(0 .. n - 1) /\ Cardinality(0 .. n - 1) = n
  BY FS_Interval
<1>7. Cardinality(E) <= n
  BY <1>5, <1>6, FS_Injection
<1>8. ASSUME n <= N
      PROVE  Cardinality(E) = n
  <2>1. \A k \in 0 .. n - 1 : \E a \in E : part[a] = k
    <3> TAKE k \in 0 .. n - 1
    <3>1. k \in 0 .. N - 1
      BY <1>1, <1>8
    <3>2. PICK a \in S : rank[a] = k
      BY <1>4, <3>1
    <3>3. a \in E
      BY <1>3, <3>2
    <3> QED
      BY <3>2, <3>3
  <2>2. part \in Surjection(E, 0 .. n - 1)
    <3>1. part \in [E -> 0 .. n - 1]
      BY <1>5 DEF Injection
    <3> HIDE DEF part
    <3> QED BY <2>1, <3>1 DEF Surjection
  <2> HIDE DEF part
  <2> QED
    BY <1>5, <1>6, <2>2, FS_Injection
<1>9. ASSUME N <= n
      PROVE  E = S
  BY <1>1, <1>3, <1>4, <1>9
<1> QED
  BY <1>3, <1>7, <1>8, <1>9 DEF E, N

-----------------------------------------------------------------------------
(* The window of a request.                                                *)
IsHours(p) == p.sleep \in 0 .. DayLength - 1 /\ p.wake \in 0 .. DayLength - 1

LEMMA WindowFacts ==
  ASSUME NEW now \in Int, NEW p, IsHours(p)
  PROVE  LET w == LastWindow(now, p) IN
         /\ w.start \in Int /\ w.end \in Int
         /\ w.start < w.end /\ w.end <= now /\ now < w.end + DayLength
         /\ p.sleep >= p.wake => w.end - w.start <= DayLength
<1> DEFINE local == now + Offset
           today == local \div DayLength
           day == EndDay(local, p.wake)
<1>1. DayLength \in Int /\ Offset \in Int /\ local \in Int /\ DayLength >= 1
  BY ProfileAssumption
<1>2. p.sleep \in Int /\ p.wake \in Int /\ 0 <= p.sleep /\ p.sleep < DayLength
      /\ 0 <= p.wake /\ p.wake < DayLength
  BY <1>1 DEF IsHours
<1>3. /\ today \in Int /\ today * DayLength \in Int
      /\ today * DayLength <= local /\ local < today * DayLength + DayLength
  BY <1>1, DayOf
<1>4. day = IF local >= today * DayLength + p.wake THEN today ELSE today - 1
  BY DEF EndDay
<1> HIDE DEF day, today
<1>5. (today - 1) * DayLength = today * DayLength - DayLength
  BY <1>3, DayBefore
<1>6. /\ day \in Int /\ day * DayLength \in Int
      /\ day * DayLength + p.wake <= local
      /\ local < day * DayLength + p.wake + DayLength
  BY <1>1, <1>2, <1>3, <1>4, <1>5
<1>7. (day - 1) * DayLength = day * DayLength - DayLength
  BY <1>6, DayBefore
<1>8. /\ LastWindow(now, p).start = day * DayLength - DayLength + p.sleep - Offset
      /\ LastWindow(now, p).end = day * DayLength + p.wake - Offset
  BY <1>7 DEF LastWindow, day
<1> DEFINE D == day * DayLength
<1>9. D \in Int /\ D + p.wake <= now + Offset /\ now + Offset < D + p.wake + DayLength
  BY <1>6
<1>10. /\ LastWindow(now, p).start = D - DayLength + p.sleep - Offset
       /\ LastWindow(now, p).end = D + p.wake - Offset
  BY <1>8
<1> HIDE DEF D, local
<1> QED
  BY <1>1, <1>2, <1>9, <1>10

(* From the hour of waking on, the window ends today.                      *)
LEMMA SameNight ==
  ASSUME NEW now \in Int, NEW p, IsHours(p), p.sleep >= p.wake,
         (now + Offset) % DayLength >= p.wake
  PROVE  BriefingWindow(now, p) = LastWindow(now, p)
<1> DEFINE local == now + Offset
           today == local \div DayLength
<1>1. DayLength \in Int /\ DayLength >= 1 /\ local \in Int
  BY ProfileAssumption
<1>2. p.wake \in Int
  BY <1>1 DEF IsHours
<1>3. today \in Int /\ local = today * DayLength + (local % DayLength)
  BY <1>1
<1>4. today * DayLength \in Int /\ local % DayLength \in Int
  BY <1>1, <1>3
<1>5. local >= today * DayLength + p.wake
  <2> DEFINE P == today * DayLength
             M == local % DayLength
  <2>1. P \in Int /\ M \in Int /\ local = P + M /\ M >= p.wake
    BY <1>3, <1>4
  <2> HIDE DEF P, M, local
  <2>2. local >= P + p.wake
    BY <1>2, <2>1
  <2> QED
    BY <2>2 DEF P
<1>6. EndDay(local, p.wake) = today
  BY <1>5 DEF EndDay
<1> QED
  BY <1>6 DEF BriefingWindow, LastWindow

(* The limit of a request is positive and within its tier.                 *)
LEMMA LimitFacts ==
  ASSUME NEW requested \in Requested, NEW premium \in BOOLEAN
  PROVE  /\ EffectiveLimit(requested, premium) \in Nat \ {0}
         /\ EffectiveLimit(requested, premium) <= Cap(premium)
         /\ Cap(premium) \in Nat
BY RequestAssumption DEF EffectiveLimit, Cap

-----------------------------------------------------------------------------
(* What a limited query or the cut leaves out comes after all it keeps.    *)
LEMMA PassedOver ==
  ASSUME NEW S \in SUBSET Article, NEW a \in Article, NEW n \in Nat,
         n <= Cardinality(Preceding(S, a))
  PROVE  /\ Cardinality(Earliest(n, S)) = n
         /\ \A b \in Earliest(n, S) : Before(b, a)
         /\ Cardinality(Preceding(Earliest(n, S), a)) = n
<1>1. Preceding(S, a) \in SUBSET S /\ IsFiniteSet(S)
  BY CountPreceding DEF Preceding
<1>2. Cardinality(Preceding(S, a)) <= Cardinality(S)
  BY <1>1, FS_Subset
<1>3. /\ Cardinality(S) \in Nat
      /\ \A b \in Article : Cardinality(Preceding(S, b)) \in Nat
  BY CountPreceding
<1>4. Cardinality(Earliest(n, S)) = n /\ Earliest(n, S) \in SUBSET S
  BY <1>2, <1>3, EarliestCount
<1>5. ASSUME NEW b \in Earliest(n, S)
      PROVE  Before(b, a)
  <2>1. b \in S /\ b \in Article /\ Cardinality(Preceding(S, b)) < n
    BY <1>4 DEF Earliest, Preceding
  <2>2. ~Before(a, b)
    <3> SUFFICES ASSUME Before(a, b) PROVE FALSE
      OBVIOUS
    <3>1. \A c \in S : Before(c, a) => Before(c, b)
      BY <2>1, ArticleAssumption DEF Before
    <3>2. Preceding(S, a) \in SUBSET Preceding(S, b) /\ IsFiniteSet(Preceding(S, b))
      BY <2>1, <3>1, CountPreceding DEF Preceding
    <3>3. Cardinality(Preceding(S, a)) <= Cardinality(Preceding(S, b))
      BY <3>2, FS_Subset
    <3> QED
      BY <1>3, <2>1, <3>3
  <2>3. a # b
    BY <1>3, <2>1
  <2> QED
    BY <2>1, <2>2, <2>3, BeforeIsTotal
<1>6. Preceding(Earliest(n, S), a) = Earliest(n, S)
  BY <1>5 DEF Preceding
<1> QED
  BY <1>4, <1>5, <1>6

-----------------------------------------------------------------------------
(* The stories and who stands for each.                                    *)

LEMMA RepresentativeExists ==
  ASSUME rows \in SUBSET Article, \A a \in rows : found[a] \in Nat, NEW c, Members(c) # {}
  PROVE  /\ Representative(c) \in Members(c)
         /\ \A b \in Members(c) : found[b] <= found[Representative(c)]
<1> DEFINE M == Members(c)
           beats(a, b) == found[b] < found[a] \/ (found[b] = found[a] /\ Before(a, b))
           R == {pair \in M \X M : beats(pair[1], pair[2])}
<1>1. M \in SUBSET Article /\ M # {} /\ \A a \in M : found[a] \in Nat
  BY DEF Members
<1> HIDE DEF M
<1>2. IsFiniteSet(M) /\ Cardinality(M) \in Nat /\ Cardinality(M) # 0
  BY <1>1, FiniteAssumption, FS_Subset, FS_CardinalityType, FS_EmptySet
<1>3. \A a, b \in M : <<a, b>> \in R <=> beats(a, b)
  OBVIOUS
<1>4. StrictTotal(M, R)
  <2>1. \A a, b, d \in M : Before(a, b) /\ Before(b, d) => Before(a, d)
    BY <1>1, ArticleAssumption DEF Before
  <2>2. \A a, b \in M : ~Before(a, a) /\ (a # b => Before(a, b) \/ Before(b, a))
    BY <1>1, BeforeIsTotal
  <2>3. \A a \in M : ~beats(a, a)
    BY <1>1, <2>2
  <2>4. \A a, b \in M : a # b => beats(a, b) \/ beats(b, a)
    BY <1>1, <2>2
  <2>5. \A a, b, d \in M : beats(a, b) /\ beats(b, d) => beats(a, d)
    BY <1>1, <2>1
  <2> HIDE DEF R, beats
  <2> QED
    BY <1>3, <2>3, <2>4, <2>5 DEF StrictTotal
<1> HIDE DEF R
<1>5. Rank(M, R) \in Surjection(M, 0 .. Cardinality(M) - 1)
  BY <1>2, <1>4, RanksOnto DEF Bijection
<1>6. PICK a \in M : Rank(M, R)[a] = 0
  BY <1>2, <1>5 DEF Surjection
<1>7. {b \in M : <<b, a>> \in R} = {}
  <2> DEFINE B == {b \in M : <<b, a>> \in R}
  <2>1. Cardinality(B) = 0 /\ B \in SUBSET M
    BY <1>6 DEF Rank
  <2> HIDE DEF B
  <2>2. B = {}
    BY <1>2, <2>1, FS_Subset, FS_EmptySet
  <2> QED
    BY <2>2 DEF B
<1>8. \A b \in M \ {a} : beats(a, b)
  BY <1>3, <1>4, <1>7 DEF StrictTotal
<1>9. Representative(c) \in M /\ \A b \in M \ {Representative(c)} : beats(Representative(c), b)
  BY <1>8 DEF Representative, M
<1>10. \A b \in M : found[b] <= found[Representative(c)]
  BY <1>1, <1>9
<1> QED
  BY <1>9, <1>10 DEF M

LEMMA EveryPlaceIsTaken ==
  ASSUME rows \in SUBSET Article, NEW i \in 1 .. Cardinality(rows)
  PROVE  \E a \in rows : Place(a) = i
<1>1. IsFiniteSet(rows) /\ Cardinality(rows) \in Nat
  BY FiniteAssumption, FS_Subset, FS_CardinalityType
<1>2. Rank(rows, Order) \in Surjection(rows, 0 .. Cardinality(rows) - 1)
  BY <1>1, OrderIsTotal, RanksOnto DEF Bijection
<1>3. i - 1 \in 0 .. Cardinality(rows) - 1
  BY <1>1
<1>4. PICK a \in rows : Rank(rows, Order)[a] = i - 1
  BY <1>2, <1>3 DEF Surjection
<1>5. Rank(rows, Order)[a] = Cardinality(Preceding(rows, a))
  BY EarliestByRank, 0 \in Nat
<1> QED
  BY <1>4, <1>5 DEF Place, Preceding

(* A response has a row of its own for each story.                         *)
Stories == {Cluster[i] : i \in 1 .. Cardinality(rows)}

LEMMA AnswerFacts ==
  ASSUME rows \in SUBSET Article, \A a \in rows : found[a] \in Nat
  PROVE  /\ \A c \in Stories : Representative(c) \in rows
         /\ \A c, d \in Stories : Representative(c) = Representative(d) => c = d
         /\ IsFiniteSet(Stories) /\ Cardinality(Stories) <= Cardinality(rows)
<1>1. ASSUME NEW c \in Stories
      PROVE  Representative(c) \in Members(c)
  <2>1. PICK i \in 1 .. Cardinality(rows) : c = Cluster[i]
    BY DEF Stories
  <2>2. PICK a \in rows : Place(a) = i
    BY EveryPlaceIsTaken
  <2>3. a \in Members(c)
    BY <2>1, <2>2 DEF Members
  <2> QED
    BY <2>3, RepresentativeExists
<1>2. \A c \in Stories : Representative(c) \in rows /\ Cluster[Place(Representative(c))] = c
  BY <1>1 DEF Members
<1>3. \A c, d \in Stories : Representative(c) = Representative(d) => c = d
  BY <1>2
<1>4. [c \in Stories |-> Representative(c)] \in Injection(Stories, rows)
  BY <1>2, <1>3 DEF Injection, IsInjective
<1>5. IsFiniteSet(rows)
  BY FiniteAssumption, FS_Subset
<1>6. IsFiniteSet(Stories) /\ Cardinality(Stories) <= Cardinality(rows)
  BY <1>4, <1>5, FS_Injection
<1> QED
  BY <1>2, <1>3, <1>6

(* The place of a row is its own, and RowAt finds the row of a place.      *)
LEMMA RowOfPlace ==
  ASSUME rows \in SUBSET Article, NEW a \in rows
  PROVE  Place(a) \in 1 .. Cardinality(rows) /\ RowAt(Place(a)) = a
<1> DEFINE N == Cardinality(rows)
           rank == Rank(rows, Order)
<1>1. IsFiniteSet(rows) /\ N \in Nat
  BY FiniteAssumption, FS_Subset, FS_CardinalityType
<1>2. rank \in Bijection(rows, 0 .. N - 1)
  BY <1>1, OrderIsTotal, RanksOnto
<1>3. \A b \in rows : rank[b] = Cardinality(Preceding(rows, b))
  BY EarliestByRank, 0 \in Nat
<1>4. \A b \in rows : Place(b) = 1 + rank[b]
  BY <1>3 DEF Place, Preceding
<1> HIDE DEF N, rank
<1>5. \A b \in rows : rank[b] \in 0 .. N - 1 /\ (rank[b] = rank[a] => b = a)
  BY <1>2 DEF Bijection, Injection, IsInjective
<1>6. \A b \in rows : Place(b) = Place(a) => b = a
  BY <1>1, <1>4, <1>5
<1>7. RowAt(Place(a)) = a
  BY <1>6 DEF RowAt
<1> QED
  BY <1>1, <1>4, <1>5, <1>7 DEF N

LEMMA SimilarIsSymmetric ==
  ASSUME NEW a, NEW b, Similar(a, b)
  PROVE  Similar(b, a)
<1>1. Title[a] \cap Title[b] = Title[b] \cap Title[a] /\ Title[a] \cup Title[b] = Title[b] \cup Title[a]
  OBVIOUS
<1> QED
  BY <1>1 DEF Similar

-----------------------------------------------------------------------------
(* The story of a row is closed: what is similar to one of its rows is in  *)
(* it.  Among some rows R, the rows joined so far and those similar to     *)
(* them are the next ones.                                                 *)
Joined(R, S) == {b \in R : \E c \in S : b = c \/ Similar(b, c)}
StoryIn(R, a) ==
  LET chain[n \in Nat] == IF n = 0 THEN {a} ELSE Joined(R, chain[n - 1])
  IN chain[Cardinality(R)]

LEMMA StoryByRows == \A a : Story(a) = StoryIn(rows, a)
BY DEF Story, StoryIn, Joined

(* The chain of rows that Story climbs is well defined.                    *)
LEMMA ChainExists ==
  ASSUME NEW R, NEW a \in R
  PROVE  \E f \in [Nat -> SUBSET R] :
           /\ f[0] = {a}
           /\ \A n \in Nat : f[n + 1] = Joined(R, f[n])
           /\ StoryIn(R, a) = f[Cardinality(R)]
<1> DEFINE G == [pair \in Nat \X SUBSET R |-> Joined(R, pair[2])]
<1>1. G \in [Nat \X SUBSET R -> SUBSET R] /\ {a} \in SUBSET R
  BY DEF Joined
<1>2. \A n \in Nat, S \in SUBSET R : G[<<n, S>>] = Joined(R, S)
  OBVIOUS
<1> HIDE DEF G
<1>3. PICK f \in [Nat -> SUBSET R] : f[0] = {a} /\ \A n \in Nat : f[n + 1] = G[<<n, f[n]>>]
  <2> DEFINE X == SUBSET R
             x == {a}
  <2>1. x \in X
    BY <1>1
  <2>2. G \in [Nat \X X -> X]
    BY <1>1
  <2> HIDE DEF X, x
  <2>3. \E f : GoesOn(X, x, G, f)
    BY <2>1, <2>2, RecursiveFunctionExists
  <2> QED
    BY <2>3 DEF X, x, GoesOn
<1>4. \A n \in Nat : f[n + 1] = Joined(R, f[n])
  BY <1>2, <1>3
<1>5. \A n \in Nat : f[n] = IF n = 0 THEN {a} ELSE Joined(R, f[n - 1])
  <2> TAKE n \in Nat
  <2>1. CASE n = 0
    BY <1>3, <2>1
  <2>2. CASE n # 0
    <3>1. n - 1 \in Nat /\ (n - 1) + 1 = n
      BY <2>2
    <3> QED
      BY <1>4, <2>2, <3>1
  <2> QED
    BY <2>1, <2>2
<1>6. f = [n \in Nat |-> IF n = 0 THEN {a} ELSE Joined(R, f[n - 1])]
  BY <1>5
<1> DEFINE chain[n \in Nat] == IF n = 0 THEN {a} ELSE Joined(R, chain[n - 1])
<1>7. chain = [n \in Nat |-> IF n = 0 THEN {a} ELSE Joined(R, chain[n - 1])]
  BY <1>6, Zenon
<1>8. StoryIn(R, a) = chain[Cardinality(R)]
  BY DEF StoryIn
<1> HIDE DEF chain
<1>9. chain[0] = {a} /\ \A n \in Nat : chain[n + 1] = Joined(R, chain[n])
  <2>1. \A n \in Nat : chain[n] = IF n = 0 THEN {a} ELSE Joined(R, chain[n - 1])
    BY <1>7
  <2> QED
    BY <2>1
<1>10. chain \in [Nat -> SUBSET R]
  <2>1. \A n \in Nat :
          (IF n = 0 THEN {a} ELSE Joined(R, chain[n - 1])) \in SUBSET R
    BY <1>1 DEF Joined
  <2> QED
    BY <1>7, <2>1
<1> QED
  BY <1>8, <1>9, <1>10

(* After as many steps as there are rows the chain has stopped growing.    *)
LEMMA StoryIsClosed ==
  ASSUME NEW R, IsFiniteSet(R), NEW a \in R
  PROVE  /\ a \in StoryIn(R, a)
         /\ StoryIn(R, a) \in SUBSET R
         /\ \A b \in R, c \in StoryIn(R, a) : Similar(b, c) => b \in StoryIn(R, a)
<1>1. PICK f \in [Nat -> SUBSET R] :
        /\ f[0] = {a}
        /\ \A n \in Nat : f[n + 1] = Joined(R, f[n])
        /\ StoryIn(R, a) = f[Cardinality(R)]
  BY ChainExists
<1>2. \A n \in Nat : f[n] \in SUBSET f[n + 1]
  <2> SUFFICES ASSUME NEW n \in Nat, NEW b \in f[n]
               PROVE  b \in Joined(R, f[n])
    BY <1>1
  <2> QED
    BY DEF Joined
<1>3. \A n \in Nat : IsFiniteSet(f[n]) /\ Cardinality(f[n]) \in Nat
                     /\ Cardinality(f[n]) <= Cardinality(R)
  BY FS_Subset, FS_CardinalityType
<1> DEFINE T == {n \in Nat : f[n + 1] = f[n] \/ Cardinality(f[n]) >= n + 1}
           A == {n \in Nat : a \in f[n]}
<1>4. 0 \in T /\ 0 \in A
  <2>1. Cardinality(f[0]) = 1
    BY <1>1, FS_Singleton
  <2> QED
    BY <1>1, <2>1
<1>5. ASSUME NEW n \in Nat, n \in T
      PROVE  n + 1 \in T
  <2>1. CASE f[n + 1] = f[n]
    <3>1. f[(n + 1) + 1] = Joined(R, f[n + 1]) /\ f[n + 1] = Joined(R, f[n])
      BY <1>1
    <3> QED
      BY <2>1, <3>1
  <2>2. CASE f[n + 1] # f[n]
    <3>1. Cardinality(f[n]) >= n + 1
      BY <1>5, <2>2
    <3>2. n + 1 \in Nat /\ f[n] \in SUBSET f[n + 1]
      BY <1>2
    <3>3. Cardinality(f[n]) < Cardinality(f[n + 1])
      BY <1>3, <2>2, <3>2, FS_Subset
    <3> QED
      BY <1>3, <3>1, <3>2, <3>3
  <2> QED
    BY <2>1, <2>2
<1>6. ASSUME NEW n \in Nat, n \in A
      PROVE  n + 1 \in A
  BY <1>2, <1>6
<1> DEFINE N == Cardinality(R)
<1>7. N \in Nat
  BY FS_CardinalityType
<1> HIDE DEF T, A
<1>8. N \in T /\ N \in A
  BY <1>4, <1>5, <1>6, <1>7, EveryNatural
<1>9. f[N + 1] = f[N]
  BY <1>3, <1>7, <1>8 DEF T
<1>10. Joined(R, f[N]) = f[N]
  BY <1>1, <1>7, <1>9
<1>11. \A b \in R, c \in f[N] : Similar(b, c) => b \in f[N]
  <2> SUFFICES ASSUME NEW b \in R, NEW c \in f[N], Similar(b, c)
               PROVE  b \in Joined(R, f[N])
    BY <1>10
  <2> QED
    BY DEF Joined
<1> QED
  BY <1>1, <1>7, <1>8, <1>11 DEF A

-----------------------------------------------------------------------------
(* The clusters.  What cluster_articles decides for the row at place i     *)
(* when g has the clusters of the rows before.                             *)
Joins(g, i) == {g[j] : j \in {k \in 1 .. i - 1 : Similar(RowAt(i), RowAt(k))}}
Decided(g, i) ==
  IF Joins(g, i) = {} THEN i ELSE CHOOSE c \in Joins(g, i) : \A d \in Joins(g, i) : c <= d

LEMMA ClusterEquation ==
  ASSUME Cardinality(rows) \in Nat
  PROVE  Cluster = [i \in 1 .. Cardinality(rows) |-> Decided(Cluster, i)]
<1> DEFINE T == {n \in Nat : \E g : g = [i \in 1 .. n |-> Decided(g, i)]}
<1>1. 0 \in T
  <2> DEFINE g == [i \in 1 .. 0 |-> 0]
  <2>1. g = [i \in 1 .. 0 |-> Decided(g, i)]
    OBVIOUS
  <2> QED
    BY <2>1
<1>2. ASSUME NEW n \in Nat, n \in T
      PROVE  n + 1 \in T
  <2>1. PICK g : g = [i \in 1 .. n |-> Decided(g, i)]
    BY <1>2
  <2> DEFINE h == [i \in 1 .. n + 1 |-> Decided(g, i)]
  <2>2. \A i \in 1 .. n : h[i] = g[i]
    <3>1. \A i \in 1 .. n : g[i] = Decided(g, i)
      BY <2>1
    <3> QED
      BY <3>1
  <2>3. ASSUME NEW i \in 1 .. n + 1
        PROVE  Decided(g, i) = Decided(h, i)
    <3> HIDE DEF h
    <3>1. \A k \in 1 .. i - 1 : h[k] = g[k]
      BY <2>2
    <3>2. Joins(g, i) = Joins(h, i)
      BY <3>1 DEF Joins
    <3> QED
      BY <3>2 DEF Decided
  <2>4. h = [i \in 1 .. n + 1 |-> Decided(h, i)]
    <3>1. h = [i \in 1 .. n + 1 |-> Decided(g, i)]
      OBVIOUS
    <3> HIDE DEF h
    <3> QED
      BY <2>3, <3>1
  <2> HIDE DEF h
  <2> QED
    BY <2>4
<1> HIDE DEF T
<1>3. Cardinality(rows) \in T
  BY <1>1, <1>2, EveryNatural
<1>4. \E g : g = [i \in 1 .. Cardinality(rows) |-> Decided(g, i)]
  BY <1>3 DEF T
<1> DEFINE cluster[i \in 1 .. Cardinality(rows)] == Decided(cluster, i)
<1>5. cluster = [i \in 1 .. Cardinality(rows) |-> Decided(cluster, i)]
  BY <1>4, Zenon
<1>6. Cluster = cluster
  BY DEF Cluster, Decided, Joins
<1> HIDE DEF cluster
<1> QED
  BY <1>5, <1>6

(* A row that opens no cluster joins that of an earlier similar row.       *)
LEMMA ClusterJoins ==
  ASSUME Cardinality(rows) \in Nat
  PROVE  \A i \in 1 .. Cardinality(rows) :
           \/ Cluster[i] = i
           \/ \E k \in 1 .. i - 1 : Cluster[k] = Cluster[i] /\ Similar(RowAt(i), RowAt(k))
<1> DEFINE N == Cardinality(rows)
           Fits(i) == \/ Cluster[i] = i
                      \/ \E k \in 1 .. i - 1 : /\ Cluster[k] = Cluster[i]
                                               /\ Similar(RowAt(i), RowAt(k))
           T == {i \in Nat : i \in 1 .. N => Cluster[i] \in Nat /\ Fits(i)}
<1>1. ASSUME NEW i \in Nat, \A k \in Nat : k < i => k \in T
      PROVE  i \in T
  <2> SUFFICES ASSUME i \in 1 .. N
               PROVE  Cluster[i] \in Nat /\ Fits(i)
    OBVIOUS
  <2>1. Cluster[i] = Decided(Cluster, i)
    BY ClusterEquation
  <2>2. CASE Joins(Cluster, i) = {}
    BY <2>1, <2>2 DEF Decided
  <2>3. CASE Joins(Cluster, i) # {}
    <3>1. Joins(Cluster, i) \in SUBSET Nat
      BY <1>1 DEF Joins
    <3>2. Cluster[i] \in Joins(Cluster, i)
      BY <2>1, <2>3, <3>1, LeastNatural DEF Decided
    <3> QED
      BY <3>1, <3>2 DEF Joins
  <2> QED
    BY <2>2, <2>3
<1> HIDE DEF T
<1>2. \A i \in Nat : i \in T
  BY <1>1, EveryNaturalAfterAll
<1> QED
  BY <1>2 DEF T

(* A set of rows that is closed under similarity has all the members of a  *)
(* cluster or none of them.                                                *)
LEMMA ClusterIsWithin ==
  ASSUME rows \in SUBSET Article, NEW S \in SUBSET rows,
         \A b \in rows, c \in S : Similar(b, c) => b \in S,
         NEW a \in rows, NEW b \in rows, Cluster[Place(a)] = Cluster[Place(b)], a \in S
  PROVE  b \in S
<1> DEFINE N == Cardinality(rows)
           T == {i \in Nat : i \in 1 .. N => (RowAt(i) \in S <=> RowAt(Cluster[i]) \in S)}
<1>1. IsFiniteSet(rows) /\ N \in Nat
  BY FiniteAssumption, FS_Subset, FS_CardinalityType
<1>2. \A i \in 1 .. N : RowAt(i) \in rows
  BY EveryPlaceIsTaken, RowOfPlace
<1>3. ASSUME NEW i \in Nat, \A k \in Nat : k < i => k \in T
      PROVE  i \in T
  <2> SUFFICES ASSUME i \in 1 .. N
               PROVE  RowAt(i) \in S <=> RowAt(Cluster[i]) \in S
    OBVIOUS
  <2>1. CASE Cluster[i] = i
    BY <2>1
  <2>2. CASE \E k \in 1 .. i - 1 : Cluster[k] = Cluster[i] /\ Similar(RowAt(i), RowAt(k))
    <3>1. PICK k \in 1 .. i - 1 : Cluster[k] = Cluster[i] /\ Similar(RowAt(i), RowAt(k))
      BY <2>2
    <3>2. k \in 1 .. N /\ k \in Nat /\ k < i
      BY <1>1
    <3>3. RowAt(k) \in S <=> RowAt(Cluster[k]) \in S
      BY <1>3, <3>2
    <3>4. Similar(RowAt(k), RowAt(i))
      BY <3>1, SimilarIsSymmetric
    <3>5. RowAt(i) \in S <=> RowAt(k) \in S
      BY <1>2, <3>1, <3>2, <3>4
    <3> QED
      BY <3>1, <3>3, <3>5
  <2> QED
    BY <1>1, <2>1, <2>2, ClusterJoins
<1> HIDE DEF T
<1>4. \A i \in Nat : i \in T
  BY <1>3, EveryNaturalAfterAll
<1>5. \A i \in 1 .. N : RowAt(i) \in S <=> RowAt(Cluster[i]) \in S
  BY <1>4 DEF T
<1>6. /\ Place(a) \in 1 .. N /\ RowAt(Place(a)) = a
      /\ Place(b) \in 1 .. N /\ RowAt(Place(b)) = b
  BY RowOfPlace
<1> QED
  BY <1>5, <1>6

(* The response of the next step has, for every row, an article of its     *)
(* story with a summary that is not shorter.                               *)
LEMMA StoryIsShown ==
  ASSUME rows \in SUBSET Article, \A a \in rows : found[a] \in Nat, NEW a \in rows
  PROVE  \E c \in Stories : /\ Representative(c) \in StoryIn(rows, a)
                            /\ found[Representative(c)] >= found[a]
<1> DEFINE c == Cluster[Place(a)]
<1>1. c \in Stories /\ a \in Members(c)
  BY RowOfPlace DEF Stories, Members
<1>2. /\ Representative(c) \in Members(c)
      /\ \A b \in Members(c) : found[b] <= found[Representative(c)]
  BY <1>1, RepresentativeExists
<1>3. Representative(c) \in rows /\ Cluster[Place(Representative(c))] = c
  BY <1>2 DEF Members
<1>4. IsFiniteSet(rows)
  BY FiniteAssumption, FS_Subset
<1>5. /\ a \in StoryIn(rows, a) /\ StoryIn(rows, a) \in SUBSET rows
      /\ \A b \in rows, d \in StoryIn(rows, a) : Similar(b, d) => b \in StoryIn(rows, a)
  BY <1>4, StoryIsClosed
<1>6. Representative(c) \in StoryIn(rows, a)
  BY <1>3, <1>5, ClusterIsWithin
<1>7. found[Representative(c)] >= found[a]
  BY <1>1, <1>2, <1>3
<1> QED
  BY <1>1, <1>6, <1>7

-----------------------------------------------------------------------------
(* The inductive invariant.                                                *)

UnderWay == request.pc \in {"query", "sort", "summaries", "done"}

Requests ==
  [pc : {"idle", "query", "sort", "summaries", "done", "refused"}, now : Int,
   hours : [sleep : 0 .. DayLength - 1, wake : 0 .. DayLength - 1], start : Int, end : Int,
   limit : Nat \ {0}, premium : BOOLEAN, next : Int]

(* What the copies of the table may show.                                  *)
Copies ==
  /\ everywhere \in SUBSET Listed
  /\ texts \in [Article -> SUBSET Nat]
  /\ \A a \in Article : Text(a) \in texts[a] /\ texts[a] \subseteq {0, Length[a]}

Types ==
  /\ stage \in [Article -> Pipeline!Stage]
  /\ Copies
  /\ request \in Requests
  /\ rows \in SUBSET Article
  /\ DOMAIN found \subseteq rows
  /\ \A a \in DOMAIN found : found[a] \in {0, Length[a]}
  /\ known \in [listed : SUBSET Article, done : SUBSET Article]

WindowInv ==
  UnderWay =>
    /\ request.start = LastWindow(request.now, request.hours).start
    /\ request.end = LastWindow(request.now, request.hours).end
    /\ request.limit <= Cap(request.premium)

PageInv == request.pc = "query" => request.next \in FirstDay .. LastDay + 1

RowsInv ==
  /\ ~UnderWay => rows = {}
  /\ \A a \in rows : InWindow(a)
  /\ ~Selected => DOMAIN found = {}

(* An article whose partition has been queried is among the rows, or as    *)
(* many as the limit come before it.                                       *)
Held(a) == a \in rows \/ request.limit <= Cardinality(Preceding(rows, a))
Passed(a) ==
  request.pc = "sort" \/ (a \notin Legacy /\ Published[a] \div DayLength < request.next)

KeptInv ==
  /\ UnderWay => known.listed \subseteq everywhere
  /\ request.pc \in {"query", "sort"} =>
       \A a \in known.listed : InWindow(a) /\ Passed(a) => Held(a)
  /\ Selected => Cardinality(rows) <= request.limit
  /\ EarliestAreKept

AnswerInv ==
  /\ request.pc # "done" => answer = NoFunction
  /\ request.pc = "done" =>
       /\ \A c \in DOMAIN answer : answer[c] \in rows
       /\ \A c, d \in DOMAIN answer : answer[c] = answer[d] => c = d
       /\ IsFiniteSet(DOMAIN answer) /\ Cardinality(DOMAIN answer) <= Cardinality(rows)

(* A summary published all along is found at its length, and the response  *)
(* has for each row one of the same story that is not shorter.             *)
StoryInv ==
  /\ UnderWay => known.done \subseteq PublishedEverywhere
  /\ \A a \in DOMAIN found \cap known.done : found[a] = Length[a]
  /\ request.pc = "done" =>
       /\ DOMAIN found = rows
       /\ \A a \in rows : \E c \in DOMAIN answer :
            answer[c] \in StoryIn(rows, a) /\ found[answer[c]] >= found[a]

IInv == Types /\ WindowInv /\ PageInv /\ RowsInv /\ KeptInv /\ AnswerInv /\ StoryInv

LEMMA InitInvariant == Init => IInv
<1> SUFFICES ASSUME Init PROVE IInv
  OBVIOUS
<1> USE DEF Init
<1>1. Idle \in Requests
  BY ProfileAssumption DEF Idle, Requests
<1>2. Types
  <2>1. stage \in [Article -> Pipeline!Stage]
    BY DEF Pipeline!Stage
  <2>2. \A a \in Article : Length[a] \in Nat /\ Text(a) \in Nat /\ Text(a) \in {0, Length[a]}
    BY ArticleAssumption DEF Text
  <2>3. Copies
    BY <2>2, ArticleAssumption DEF Copies, Listed
  <2> QED
    BY <1>1, <2>1, <2>3 DEF Types, NoFunction
<1>3. request.pc = "idle"
  BY DEF Idle
<1> QED
  BY <1>2, <1>3 DEF IInv, WindowInv, PageInv, RowsInv, KeptInv, AnswerInv, StoryInv, UnderWay,
                    Selected, EarliestAreKept, NoFunction

(* The steps.                                                              *)
Starts == \E now \in Time, p \in Profile, requested \in Requested : Start(now, p, requested)
Reads == \E a \in Article : ReadSummary(a)

LEMMA StepCases ==
  ASSUME [Next]_vars
  PROVE  Starts \/ Refuse \/ Query \/ SortAndCut \/ Reads \/ Respond \/ PipelineStep
         \/ Replicate \/ UNCHANGED vars
BY DEF Next, RequestStep, Starts, Reads

(* The pipeline never takes an article back from the feed, and the copies  *)
(* of a summary differ from its item only until they have it.              *)
LEMMA PipelineFacts ==
  ASSUME PipelineStep, Types
  PROVE  /\ stage' \in [Article -> Pipeline!Stage]
         /\ Copies'
         /\ everywhere' = everywhere
         /\ known'.listed = known.listed
         /\ known' \in [listed : SUBSET Article, done : SUBSET Article]
         /\ known'.done \subseteq known.done
         /\ known.done \subseteq PublishedEverywhere => known'.done \subseteq PublishedEverywhere'
         /\ UNCHANGED <<request, rows, found, answer>>
<1>1. PICK a \in Article :
        /\ \/ Pipeline!Store(a) \/ Pipeline!List(a) \/ Pipeline!Owe(a)
           \/ Pipeline!Publish(a) \/ Pipeline!Fail(a)
        /\ texts' = [texts EXCEPT ![a] = @ \cup {Text(a)'}]
        /\ known' = [known EXCEPT !.done = IF Text(a)' = 0 THEN @ \ {a} ELSE @]
        /\ UNCHANGED <<everywhere, request, rows, found, answer>>
  BY DEF PipelineStep
<1>2. \E to \in Pipeline!Stage :
        /\ stage' = [stage EXCEPT ![a] = to]
        /\ to \in {"unknown", "stored"} => stage[a] \in {"unknown", "stored"}
  BY <1>1 DEF Pipeline!Store, Pipeline!List, Pipeline!Owe, Pipeline!Publish, Pipeline!Fail,
              Pipeline!Advance, Pipeline!Stage
<1>3. stage' \in [Article -> Pipeline!Stage] /\ Listed \subseteq Listed'
  BY <1>2 DEF Types, Listed
<1>4. \A b \in Article : /\ Length[b] \in Nat
                         /\ Text(b)' \in {0, Length[b]}
                         /\ b # a => Text(b)' = Text(b)
  BY <1>2, ArticleAssumption DEF Types, Text
<1>5. \A b \in Article : texts'[b] = IF b = a THEN texts[b] \cup {Text(b)'} ELSE texts[b]
  BY <1>1 DEF Types, Copies
<1>6. Copies'
  <2>1. texts' \in [Article -> SUBSET Nat]
    BY <1>1, <1>4 DEF Types, Copies
  <2>2. everywhere' \in SUBSET Listed'
    BY <1>1, <1>3 DEF Types, Copies
  <2>3. \A b \in Article : Text(b)' \in texts'[b] /\ texts'[b] \subseteq {0, Length[b]}
    BY <1>4, <1>5 DEF Types, Copies
  <2> QED
    BY <2>1, <2>2, <2>3 DEF Copies
<1>7. /\ known'.listed = known.listed
      /\ known'.done = IF Text(a)' = 0 THEN known.done \ {a} ELSE known.done
      /\ known' \in [listed : SUBSET Article, done : SUBSET Article]
  BY <1>1 DEF Types
<1>8. ASSUME known.done \subseteq PublishedEverywhere, NEW b \in known'.done
      PROVE  b \in PublishedEverywhere'
  <2>1. b \in Article /\ texts[b] = {Length[b]} /\ (b = a => Text(b)' = Length[b])
    BY <1>4, <1>7, <1>8 DEF Types, PublishedEverywhere
  <2>2. texts'[b] = {Length[b]}
    BY <1>5, <2>1
  <2> QED
    BY <2>1, <2>2 DEF PublishedEverywhere
<1> QED
  BY <1>1, <1>3, <1>6, <1>7, <1>8

(* Nor does a copy of the table that catches up.                           *)
LEMMA ReplicateFacts ==
  ASSUME Replicate, Types
  PROVE  /\ Copies'
         /\ everywhere \subseteq everywhere'
         /\ PublishedEverywhere \subseteq PublishedEverywhere'
         /\ UNCHANGED <<stage, request, rows, found, answer, known>>
<1>1. UNCHANGED <<stage, request, rows, found, answer, known>>
  BY DEF Replicate
<1>2. Listed' = Listed /\ \A a \in Article : Text(a)' = Text(a)
  BY <1>1 DEF Listed, Text
<1>3. \A a \in Article : Length[a] \in Nat /\ Text(a) \in {0, Length[a]}
  BY ArticleAssumption DEF Text
<1>4. PICK a \in Article :
        \/ everywhere' = everywhere \cup ({a} \cap Listed) /\ UNCHANGED texts
        \/ texts' = [texts EXCEPT ![a] = {Text(a)}] /\ UNCHANGED everywhere
  BY DEF Replicate
<1>5. \A b \in Article : texts'[b] \in {texts[b], {Text(b)}}
  BY <1>4 DEF Types, Copies
<1>6. texts' \in [Article -> SUBSET Nat]
  BY <1>3, <1>4 DEF Types, Copies
<1>7. everywhere' \in SUBSET Listed' /\ everywhere \subseteq everywhere'
  BY <1>2, <1>4 DEF Types, Copies
<1>8. \A b \in Article : Text(b)' \in texts'[b] /\ texts'[b] \subseteq {0, Length[b]}
  BY <1>2, <1>3, <1>5 DEF Types, Copies
<1>9. \A b \in Article : texts[b] = {Length[b]} => texts'[b] = {Length[b]}
  BY <1>5 DEF Types, Copies
<1> QED
  BY <1>1, <1>6, <1>7, <1>8, <1>9 DEF Copies, PublishedEverywhere

LEMMA StartFacts ==
  ASSUME Starts, Types
  PROVE  /\ request.pc = "idle"
         /\ request' \in Requests /\ request'.pc = "query"
         /\ request'.start = LastWindow(request'.now, request'.hours).start
         /\ request'.end = LastWindow(request'.now, request'.hours).end
         /\ request'.limit <= Cap(request'.premium)
         /\ request'.next = request'.start \div DayLength
         /\ request'.start <= request'.end
         /\ known' = [listed |-> everywhere, done |-> PublishedEverywhere]
         /\ UNCHANGED <<stage, everywhere, texts, rows, found, answer>>
<1>1. PICK now \in Time, p \in Profile, requested \in Requested : Start(now, p, requested)
  BY DEF Starts
<1> DEFINE hours == [sleep |-> p.sleep, wake |-> p.wake]
           w == LastWindow(now, hours)
           limit == EffectiveLimit(requested, p.premium)
<1>2. now \in Int /\ p.premium \in BOOLEAN
      /\ hours \in [sleep : 0 .. DayLength - 1, wake : 0 .. DayLength - 1]
  BY ProfileAssumption, RequestAssumption
<1>3. IsHours(hours)
  BY <1>2 DEF IsHours
<1>4. w.start \in Int /\ w.end \in Int /\ w.start < w.end
  BY <1>2, <1>3, WindowFacts
<1>5. limit \in Nat \ {0} /\ limit <= Cap(p.premium)
  BY <1>2, LimitFacts
<1>6. w.start \div DayLength \in Int
  BY <1>4, DayOf
<1>7. LastWindow(now, p) = w
  BY DEF LastWindow
<1> HIDE DEF hours, w, limit
<1>8. /\ request.pc = "idle"
      /\ request' = [pc |-> "query", now |-> now, hours |-> hours,
                     start |-> w.start, end |-> w.end, limit |-> limit,
                     premium |-> p.premium, next |-> w.start \div DayLength]
      /\ known' = [listed |-> everywhere, done |-> PublishedEverywhere]
      /\ UNCHANGED <<stage, everywhere, texts, rows, found, answer>>
  BY <1>1, <1>7 DEF Start, hours, limit
<1>9. request' \in Requests
  BY <1>2, <1>4, <1>5, <1>6, <1>8 DEF Requests
<1>10. LastWindow(request'.now, request'.hours) = w
  BY <1>8 DEF w
<1> QED
  BY <1>4, <1>5, <1>8, <1>9, <1>10

(* The rows of the partition that the copy asked has.                      *)
Asked(view) == {a \in Partition(view) : InWindow(a)}

LEMMA QueryFacts ==
  ASSUME Query, Types
  PROVE  \E view \in Views :
           /\ everywhere \subseteq view
           /\ Asked(view) \in SUBSET Article
           /\ Earliest(request.limit, Asked(view)) \in SUBSET Asked(view)
           /\ rows' = rows \cup Earliest(request.limit, Asked(view))
<1>1. PICK view \in Views : rows' = rows \cup Page(view)
  BY DEF Query
<1>2. Asked(view) \in SUBSET Article /\ everywhere \subseteq view
  BY ArticleAssumption DEF Asked, Partition, Listed, Views
<1>3. request.limit \in Nat
  BY DEF Types, Requests
<1>4. Earliest(request.limit, Asked(view)) \in SUBSET Asked(view)
  BY <1>2, <1>3, EarliestCount
<1> QED
  BY <1>1, <1>2, <1>4 DEF Page, Asked

LEMMA ReadFacts ==
  ASSUME Reads, Types
  PROVE  \E a \in rows :
           /\ DOMAIN found' = DOMAIN found \cup {a}
           /\ \A b \in DOMAIN found \ {a} : found'[b] = found[b]
           /\ found'[a] \in texts[a] /\ texts[a] \subseteq {0, Length[a]}
           /\ UNCHANGED <<stage, everywhere, texts, request, rows, answer, known>>
<1>1. PICK a \in Article : ReadSummary(a)
  BY DEF Reads
<1>2. a \in rows /\ UNCHANGED <<stage, everywhere, texts, request, rows, answer, known>>
  BY <1>1 DEF ReadSummary
<1>3. PICK text \in texts[a] :
        found' = [b \in DOMAIN found \cup {a} |-> IF b = a THEN text ELSE found[b]]
  BY <1>1 DEF ReadSummary
<1> QED
  BY <1>2, <1>3 DEF Types, Copies

LEMMA CutFacts ==
  ASSUME SortAndCut, Types
  PROVE  /\ rows' \in SUBSET rows
         /\ Cardinality(rows') <= request.limit
<1>1. request.limit \in Nat
  BY DEF Types, Requests
<1> QED
  BY <1>1, EarliestCount DEF SortAndCut, Types

LEMMA FoundIsNat ==
  ASSUME Types, NEW a \in DOMAIN found
  PROVE  found[a] \in Nat
<1>1. a \in Article /\ found[a] \in {0, Length[a]}
  BY DEF Types
<1>2. Length[a] \in Nat
  BY <1>1, ArticleAssumption
<1> QED
  BY <1>1, <1>2

LEMMA TypesStep ==
  ASSUME IInv, [Next]_vars
  PROVE  Types'
<1> USE DEF IInv
<1>1. CASE Starts
  <2>1. everywhere \in SUBSET Article /\ PublishedEverywhere \in SUBSET Article
    BY DEF Types, Copies, Listed, PublishedEverywhere
  <2>2. Copies'
    BY <1>1, StartFacts DEF Types, Copies, Listed, Text
  <2> QED
    BY <1>1, <2>1, <2>2, StartFacts DEF Types
<1>2. CASE Refuse
  BY <1>2 DEF Refuse, Types, Requests, Copies, Listed, Text
<1>3. CASE Query
  <2>1. rows' \in SUBSET Article /\ rows \subseteq rows'
    BY <1>3, QueryFacts DEF Types
  <2>2. request \in Requests /\ request.next + 1 \in Int
    BY DEF Types, Requests
  <2>3. PICK pc \in {"query", "sort"} :
          request' = [request EXCEPT !.next = request.next + 1, !.pc = pc]
    BY <1>3 DEF Query
  <2>4. request' \in Requests
    BY <2>2, <2>3 DEF Requests
  <2> QED
    BY <1>3, <2>1, <2>4 DEF Query, Types, Copies, Listed, Text
<1>4. CASE SortAndCut
  <2>1. rows' \in SUBSET Article
    BY <1>4, CutFacts DEF Types
  <2>3. request' \in Requests
    BY <1>4 DEF SortAndCut, Types, Requests
  <2>2. DOMAIN found = {}
    BY <1>4 DEF SortAndCut, RowsInv, Selected
  <2> QED
    BY <1>4, <2>1, <2>2, <2>3 DEF SortAndCut, Types, Copies, Listed, Text
<1>5. CASE Reads
  <2>1. PICK a \in rows :
          /\ DOMAIN found' = DOMAIN found \cup {a}
          /\ \A b \in DOMAIN found \ {a} : found'[b] = found[b]
          /\ found'[a] \in texts[a] /\ texts[a] \subseteq {0, Length[a]}
          /\ UNCHANGED <<stage, everywhere, texts, request, rows, answer, known>>
    BY <1>5, ReadFacts
  <2>2. \A b \in DOMAIN found' : found'[b] \in {0, Length[b]}
    BY <2>1 DEF Types
  <2> QED
    BY <2>1, <2>2 DEF Types, Copies, Listed, Text
<1>6. CASE Respond
  BY <1>6 DEF Respond, Types, Requests, Copies, Listed, Text
<1>7. CASE PipelineStep
  BY <1>7, PipelineFacts DEF Types
<1>9. CASE Replicate
  BY <1>9, ReplicateFacts DEF Types
<1>8. CASE UNCHANGED vars
  BY <1>8 DEF vars, Types, Copies, Listed, Text
<1> QED
  BY <1>1, <1>2, <1>3, <1>4, <1>5, <1>6, <1>7, <1>8, <1>9, StepCases

LEMMA WindowStep ==
  ASSUME IInv, [Next]_vars
  PROVE  WindowInv' /\ PageInv'
<1> USE DEF IInv
<1>1. CASE Starts
  <2>1. WindowInv'
    BY <1>1, StartFacts DEF WindowInv
  <2>2. request'.start \in Int /\ request'.end \in Int /\ request'.start <= request'.end
    BY <1>1, StartFacts DEF Requests
  <2>3. /\ request'.start \div DayLength <= request'.end \div DayLength
        /\ request'.start \div DayLength \in Int /\ request'.end \div DayLength \in Int
    BY <2>2, DayMonotone, DayOf
  <2>4. request'.next \in request'.start \div DayLength .. (request'.end \div DayLength) + 1
    BY <1>1, <2>3, StartFacts
  <2> QED
    BY <2>1, <2>4 DEF PageInv, FirstDay, LastDay
<1>2. CASE Refuse
  BY <1>2 DEF Refuse, WindowInv, PageInv, UnderWay, Types, Requests
<1>3. CASE Query
  <2>1. /\ request.next \in FirstDay .. LastDay + 1
        /\ FirstDay \in Int /\ LastDay \in Int
        /\ request \in Requests
    BY <1>3, DayOf DEF Query, PageInv, FirstDay, LastDay, Types, Requests
  <2>2. /\ request'.pc = IF request.next > LastDay THEN "sort" ELSE "query"
        /\ request'.next = request.next + 1
        /\ request'.start = request.start /\ request'.end = request.end
        /\ request'.now = request.now /\ request'.hours = request.hours
        /\ request'.limit = request.limit /\ request'.premium = request.premium
    BY <1>3, <2>1 DEF Query, Requests
  <2>3. FirstDay' = FirstDay /\ LastDay' = LastDay
    BY <2>2 DEF FirstDay, LastDay
  <2>4. PageInv'
    BY <2>1, <2>2, <2>3 DEF PageInv
  <2>5. UnderWay
    BY <1>3 DEF Query, UnderWay
  <2>6. LastWindow(request'.now, request'.hours) = LastWindow(request.now, request.hours)
    BY <2>2
  <2> QED
    BY <2>2, <2>4, <2>5, <2>6 DEF WindowInv
<1>4. CASE SortAndCut \/ Respond
  <2>1. /\ request \in Requests
        /\ UnderWay /\ request'.pc \in {"summaries", "done"}
        /\ request'.start = request.start /\ request'.end = request.end
        /\ request'.now = request.now /\ request'.hours = request.hours
        /\ request'.limit = request.limit /\ request'.premium = request.premium
    BY <1>4 DEF SortAndCut, Respond, Types, Requests, UnderWay
  <2>2. LastWindow(request'.now, request'.hours) = LastWindow(request.now, request.hours)
    BY <2>1
  <2> QED
    BY <2>1, <2>2 DEF WindowInv, PageInv
<1>5. CASE Reads \/ PipelineStep \/ Replicate \/ UNCHANGED vars
  <2>1. request' = request
    BY <1>5, PipelineFacts, ReplicateFacts DEF Reads, ReadSummary, vars
  <2> QED
    BY <2>1 DEF WindowInv, PageInv, UnderWay, FirstDay, LastDay
<1> QED
  BY <1>1, <1>2, <1>3, <1>4, <1>5, StepCases

LEMMA RowsStep ==
  ASSUME IInv, [Next]_vars
  PROVE  RowsInv'
<1> USE DEF IInv
<1>1. CASE Starts
  BY <1>1, StartFacts DEF RowsInv, UnderWay, Selected
<1>2. CASE Refuse
  BY <1>2 DEF Refuse, RowsInv, UnderWay, Selected, Types, Requests
<1>3. CASE Query
  <2>1. \A a \in rows' : InWindow(a)
    BY <1>3, QueryFacts DEF RowsInv, Asked
  <2>2. request'.start = request.start /\ request'.end = request.end
        /\ request'.pc \in {"query", "sort"} /\ found' = found /\ ~Selected
    BY <1>3 DEF Query, Types, Requests, Selected
  <2> QED
    BY <2>1, <2>2 DEF RowsInv, InWindow, UnderWay, Selected
<1>4. CASE SortAndCut
  <2>1. rows' \in SUBSET rows
    BY <1>4, CutFacts
  <2>2. request'.start = request.start /\ request'.end = request.end
        /\ request'.pc = "summaries"
    BY <1>4 DEF SortAndCut, Types, Requests
  <2> QED
    BY <2>1, <2>2 DEF RowsInv, InWindow, UnderWay, Selected
<1>5. CASE Reads
  <2>1. UNCHANGED <<request, rows>> /\ Selected
    BY <1>5 DEF Reads, ReadSummary, Selected
  <2> QED
    BY <2>1 DEF RowsInv, InWindow, UnderWay, Selected
<1>6. CASE Respond
  <2>1. /\ request'.start = request.start /\ request'.end = request.end
        /\ request'.pc = "done" /\ rows' = rows
    BY <1>6 DEF Respond, Types, Requests
  <2> QED
    BY <2>1 DEF RowsInv, InWindow, UnderWay, Selected
<1>7. CASE PipelineStep \/ Replicate \/ UNCHANGED vars
  <2>1. UNCHANGED <<request, rows, found>>
    BY <1>7, PipelineFacts, ReplicateFacts DEF vars
  <2> QED
    BY <2>1 DEF RowsInv, InWindow, UnderWay, Selected
<1> QED
  BY <1>1, <1>2, <1>3, <1>4, <1>5, <1>6, <1>7, StepCases

(* The next partition: each of its articles that was listed when the       *)
(* request came is taken, or the limit goes to earlier ones.               *)
LEMMA QueryKeeps ==
  ASSUME IInv, Query, NEW a \in known.listed, InWindow(a), Passed(a)'
  PROVE  a \in rows' \/ request.limit <= Cardinality(Preceding(rows', a))
<1> DEFINE n == request.limit
<1>1. n \in Nat /\ a \in Article /\ rows \in SUBSET Article /\ request \in Requests
  BY DEF IInv, Types, Requests
<1>v. PICK view \in Views :
        /\ everywhere \subseteq view
        /\ Asked(view) \in SUBSET Article
        /\ Earliest(n, Asked(view)) \in SUBSET Asked(view)
        /\ rows' = rows \cup Earliest(n, Asked(view))
  BY QueryFacts DEF IInv
<1> DEFINE P == Asked(view)
           taken == Earliest(n, P)
<1>2. P \in SUBSET Article /\ taken \in SUBSET P /\ rows' = rows \cup taken
  BY <1>v
<1>3. rows' \in SUBSET Article
  BY <1>1, <1>2
<1>4. CASE Passed(a)
  <2>1. a \in rows \/ n <= Cardinality(Preceding(rows, a))
    BY <1>4 DEF IInv, KeptInv, Query, Held
  <2>2. Cardinality(Preceding(rows, a)) <= Cardinality(Preceding(rows', a))
    BY <1>1, <1>2, <1>3, PrecedingMore
  <2>3. /\ Cardinality(Preceding(rows, a)) \in Nat
        /\ Cardinality(Preceding(rows', a)) \in Nat
    BY <1>1, <1>3, CountPreceding
  <2> QED
    BY <1>1, <1>2, <2>1, <2>2, <2>3
<1>5. CASE ~Passed(a)
  <2>1. a \in view
    BY <1>v DEF IInv, KeptInv, UnderWay, Query
  <2>2. /\ request'.pc = IF request.next > LastDay THEN "sort" ELSE "query"
        /\ request'.next = request.next + 1
        /\ request.next \in Int /\ request.start \in Int /\ request.end \in Int
        /\ LastDay \in Int
    BY <1>1, DayOf DEF Query, Requests, LastDay
  <2>3. Published[a] \in Int /\ Published[a] \div DayLength \in Int
    BY <1>1, ArticleAssumption, DayOf
  <2>4. Published[a] \div DayLength <= LastDay
    BY <2>2, <2>3, DayMonotone DEF LastDay, InWindow
  <2>5. a \in Partition(view)
    <3>1. CASE request.next > LastDay
      <4>1. a \in Legacy
        BY <1>5, <2>2, <2>3, <2>4, <3>1 DEF Passed
      <4> QED
        BY <2>1, <3>1, <4>1 DEF Partition
    <3>2. CASE ~(request.next > LastDay)
      <4>1. a \notin Legacy /\ Published[a] \div DayLength < request.next + 1
        BY <2>2, <3>2 DEF Passed
      <4>2. Published[a] \div DayLength = request.next
        BY <1>5, <2>2, <2>3, <4>1 DEF Passed
      <4> QED
        BY <2>1, <3>2, <4>1, <4>2 DEF Partition
    <3> QED
      BY <3>1, <3>2
  <2>6. a \in P
    BY <2>5 DEF Asked
  <2>7. CASE a \notin taken
    <3>1. ~(Cardinality(Preceding(P, a)) < n)
      BY <2>6, <2>7 DEF Earliest, Preceding
    <3>2. taken = Earliest(n, P)
      OBVIOUS
    <3> HIDE DEF P, n, taken
    <3>3. P \in SUBSET Article /\ a \in Article /\ n \in Nat
      BY <1>1, <1>2
    <3>4. Cardinality(Preceding(P, a)) \in Nat
      BY <3>3, CountPreceding
    <3>5. n <= Cardinality(Preceding(P, a))
      BY <3>1, <3>3, <3>4
    <3>6. Cardinality(Preceding(taken, a)) = n
      BY <1>1, <1>2, <3>2, <3>5, PassedOver
    <3>7. Cardinality(Preceding(taken, a)) <= Cardinality(Preceding(rows', a))
      BY <1>1, <1>2, <1>3, PrecedingMore
    <3> QED
      BY <3>6, <3>7 DEF n
  <2> QED
    BY <1>2, <2>7
<1> QED
  BY <1>4, <1>5

LEMMA CutKeeps ==
  ASSUME IInv, SortAndCut, NEW a \in known.listed, InWindow(a)
  PROVE  \/ a \in rows'
         \/ /\ Cardinality(rows') = request.limit
            /\ \A b \in rows' : Before(b, a)
<1> DEFINE n == request.limit
<1>1. n \in Nat /\ a \in Article /\ rows \in SUBSET Article
  BY DEF IInv, Types, Requests
<1>2. rows' = Earliest(n, rows)
  BY DEF SortAndCut
<1>3. a \in rows \/ n <= Cardinality(Preceding(rows, a))
  BY DEF IInv, KeptInv, SortAndCut, Passed, Held
<1>4. a \in rows' \/ n <= Cardinality(Preceding(rows, a))
  <2>1. a \in rows => a \in rows' \/ ~(Cardinality(Preceding(rows, a)) < n)
    BY <1>2 DEF Earliest, Preceding
  <2> HIDE DEF n
  <2> QED
    BY <1>1, <1>3, <2>1, CountPreceding
<1> HIDE DEF n
<1>5. CASE n <= Cardinality(Preceding(rows, a))
  BY <1>1, <1>2, <1>5, PassedOver DEF n
<1> QED
  BY <1>4, <1>5

LEMMA KeptStep ==
  ASSUME IInv, [Next]_vars
  PROVE  KeptInv'
<1>1. CASE Starts
  <2>1. /\ request'.pc = "query" /\ request'.next = request'.start \div DayLength
        /\ request'.start \in Int /\ known'.listed = everywhere /\ everywhere' = everywhere
    BY <1>1, StartFacts DEF IInv, Requests
  <2>2. ASSUME NEW a \in Article, InWindow(a)'
        PROVE  ~Passed(a)'
    <3>1. Published[a] \in Int /\ request'.start <= Published[a]
      BY <2>2, ArticleAssumption DEF InWindow
    <3>2. request'.start \div DayLength <= Published[a] \div DayLength
      BY <2>1, <3>1, DayMonotone
    <3>3. request'.start \div DayLength \in Int /\ Published[a] \div DayLength \in Int
      BY <2>1, <3>1, DayOf
    <3> QED
      BY <2>1, <3>2, <3>3 DEF Passed
  <2>3. everywhere \in SUBSET Article
    BY DEF IInv, Types, Copies, Listed
  <2> QED
    BY <2>1, <2>2, <2>3 DEF KeptInv, Selected, EarliestAreKept
<1>2. CASE Refuse
  BY <1>2 DEF Refuse, KeptInv, UnderWay, Selected, EarliestAreKept, IInv, Types, Requests
<1>3. CASE Query
  <2>1. /\ request'.limit = request.limit /\ request'.start = request.start
        /\ request'.end = request.end /\ request'.pc \in {"query", "sort"}
        /\ UNCHANGED <<everywhere, known>>
    BY <1>3 DEF Query, IInv, Types, Requests
  <2>2. UnderWay
    BY <1>3 DEF Query, UnderWay
  <2>4. \A a \in known.listed : InWindow(a)' => InWindow(a)
    BY <2>1 DEF InWindow
  <2>5. \A a \in known.listed : InWindow(a)' /\ Passed(a)' => Held(a)'
    BY <1>3, <2>1, <2>4, QueryKeeps DEF Held, Preceding
  <2> QED
    BY <2>1, <2>2, <2>5 DEF KeptInv, Selected, EarliestAreKept, IInv
<1>4. CASE SortAndCut
  <2>1. /\ request'.limit = request.limit /\ request'.start = request.start
        /\ request'.end = request.end /\ request'.pc = "summaries"
        /\ UNCHANGED <<everywhere, known>>
    BY <1>4 DEF SortAndCut, IInv, Types, Requests
  <2>2. UnderWay
    BY <1>4 DEF SortAndCut, UnderWay
  <2>4. \A a \in known.listed : InWindow(a)' => InWindow(a)
    BY <2>1 DEF InWindow
  <2>5. EarliestAreKept'
    BY <1>4, <2>1, <2>4, CutKeeps DEF EarliestAreKept
  <2>6. Cardinality(rows') <= request.limit
    BY <1>4, CutFacts DEF IInv
  <2> QED
    BY <2>1, <2>2, <2>5, <2>6 DEF KeptInv, Selected, IInv
<1>5. CASE Reads \/ Respond
  <2>1. /\ request'.limit = request.limit /\ request'.start = request.start
        /\ request'.end = request.end
        /\ request.pc = "summaries" /\ request'.pc \in {"summaries", "done"}
        /\ UNCHANGED <<everywhere, known, rows>>
    BY <1>5 DEF Reads, ReadSummary, Respond, IInv, Types, Requests
  <2> QED
    BY <2>1 DEF KeptInv, UnderWay, Selected, Listed, EarliestAreKept, InWindow, IInv
<1>6. CASE PipelineStep \/ Replicate
  <2>1. UNCHANGED <<request, rows>> /\ known'.listed = known.listed /\ everywhere \subseteq everywhere'
    BY <1>6, PipelineFacts, ReplicateFacts DEF IInv
  <2> QED
    BY <2>1 DEF KeptInv, UnderWay, Selected, EarliestAreKept, InWindow, Passed, Held, Preceding, IInv
<1>7. CASE UNCHANGED vars
  BY <1>7 DEF vars, KeptInv, UnderWay, Selected, Listed, EarliestAreKept, InWindow, Passed, Held,
              Preceding, LastDay, IInv
<1> QED
  BY <1>1, <1>2, <1>3, <1>4, <1>5, <1>6, <1>7, StepCases

LEMMA AnswerStep ==
  ASSUME IInv, [Next]_vars
  PROVE  AnswerInv'
<1>1. CASE Starts
  BY <1>1, StartFacts DEF IInv, AnswerInv
<1>2. CASE Refuse \/ Query \/ SortAndCut \/ Reads
  <2>1. request.pc # "done" /\ request'.pc # "done" /\ answer' = answer
    BY <1>2 DEF Refuse, Query, SortAndCut, Reads, ReadSummary, IInv, Types, Requests
  <2> QED
    BY <2>1 DEF IInv, AnswerInv
<1>3. CASE Respond
  <2>1. /\ request'.pc = "done" /\ rows' = rows /\ DOMAIN found = rows
        /\ answer' = [c \in Stories |-> Representative(c)]
    BY <1>3 DEF Respond, IInv, Types, Requests, Stories
  <2>2. rows \in SUBSET Article /\ \A a \in rows : found[a] \in Nat
    BY <2>1, FoundIsNat DEF IInv, Types
  <2>3. /\ \A c \in Stories : Representative(c) \in rows
        /\ \A c, d \in Stories : Representative(c) = Representative(d) => c = d
        /\ IsFiniteSet(Stories) /\ Cardinality(Stories) <= Cardinality(rows)
    BY <2>2, AnswerFacts
  <2>4. DOMAIN answer' = Stories /\ \A c \in Stories : answer'[c] = Representative(c)
    BY <2>1
  <2> QED
    BY <2>1, <2>3, <2>4 DEF AnswerInv
<1>4. CASE PipelineStep \/ Replicate \/ UNCHANGED vars
  <2>1. UNCHANGED <<request, rows, answer>>
    BY <1>4, PipelineFacts, ReplicateFacts DEF vars, IInv
  <2> QED
    BY <2>1 DEF IInv, AnswerInv
<1> QED
  BY <1>1, <1>2, <1>3, <1>4, StepCases

LEMMA StoryStep ==
  ASSUME IInv, [Next]_vars
  PROVE  StoryInv'
<1> USE DEF IInv
<1>1. CASE Starts
  <2>1. /\ request'.pc = "query" /\ found' = found /\ DOMAIN found = {}
        /\ known'.done = PublishedEverywhere /\ texts' = texts
    BY <1>1, StartFacts DEF RowsInv, Selected
  <2> QED
    BY <2>1 DEF StoryInv, PublishedEverywhere
<1>2. CASE Refuse
  <2>1. request'.pc = "refused" /\ UNCHANGED <<found, known>>
    BY <1>2 DEF Refuse, Types, Requests
  <2> QED
    BY <2>1 DEF StoryInv, UnderWay
<1>3. CASE Query \/ SortAndCut
  <2>1. UnderWay /\ request'.pc # "done" /\ UNCHANGED <<texts, found, known>>
    BY <1>3 DEF Query, SortAndCut, Types, Requests, UnderWay
  <2> QED
    BY <2>1 DEF StoryInv, PublishedEverywhere
<1>4. CASE Reads
  <2>1. PICK a \in rows :
          /\ DOMAIN found' = DOMAIN found \cup {a}
          /\ \A b \in DOMAIN found \ {a} : found'[b] = found[b]
          /\ found'[a] \in texts[a] /\ texts[a] \subseteq {0, Length[a]}
          /\ UNCHANGED <<stage, everywhere, texts, request, rows, answer, known>>
    BY <1>4, ReadFacts
  <2>2. request.pc = "summaries" /\ UnderWay
    BY <1>4 DEF Reads, ReadSummary, UnderWay
  <2>3. a \in known.done => found'[a] = Length[a]
    BY <2>1, <2>2 DEF StoryInv, PublishedEverywhere
  <2>4. \A b \in DOMAIN found' \cap known.done : found'[b] = Length[b]
    BY <2>1, <2>3 DEF StoryInv
  <2> QED
    BY <2>1, <2>2, <2>4 DEF StoryInv, PublishedEverywhere
<1>5. CASE Respond
  <2>1. /\ UnderWay /\ request'.pc = "done" /\ DOMAIN found = rows
        /\ answer' = [c \in Stories |-> Representative(c)]
        /\ UNCHANGED <<texts, rows, found, known>>
    BY <1>5 DEF Respond, Types, Requests, Stories, UnderWay
  <2>2. rows \in SUBSET Article /\ \A a \in rows : found[a] \in Nat
    BY <2>1, FoundIsNat DEF Types
  <2>3. \A a \in rows : \E c \in Stories : /\ Representative(c) \in StoryIn(rows, a)
                                          /\ found[Representative(c)] >= found[a]
    BY <2>2, StoryIsShown
  <2>4. DOMAIN answer' = Stories /\ \A c \in Stories : answer'[c] = Representative(c)
    BY <2>1
  <2> QED
    BY <2>1, <2>3, <2>4 DEF StoryInv, PublishedEverywhere
<1>6. CASE PipelineStep \/ Replicate
  <2>1. UNCHANGED <<request, rows, found, answer>> /\ known'.done \subseteq known.done
    BY <1>6, PipelineFacts, ReplicateFacts
  <2>2. known.done \subseteq PublishedEverywhere => known'.done \subseteq PublishedEverywhere'
    BY <1>6, PipelineFacts, ReplicateFacts
  <2> QED
    BY <2>1, <2>2 DEF StoryInv, UnderWay
<1>7. CASE UNCHANGED vars
  BY <1>7 DEF vars, StoryInv, UnderWay, PublishedEverywhere
<1> QED
  BY <1>1, <1>2, <1>3, <1>4, <1>5, <1>6, <1>7, StepCases

(* Invariance of IInv.                                                     *)
THEOREM Invariant == Spec => []IInv
<1>1. IInv /\ [Next]_vars => IInv'
  BY TypesStep, WindowStep, RowsStep, KeptStep, AnswerStep, StoryStep DEF IInv
<1> QED
  BY InitInvariant, <1>1, PTL DEF Spec

-----------------------------------------------------------------------------
(* What follows from it.                                                   *)

(* Every variable keeps its type: the queries stay within the partitions   *)
(* of the window, and the response consists of rows.                       *)
THEOREM TypeCorrect == Spec => []TypeOK
<1>1. IInv => TypeOK
  <2> SUFFICES ASSUME IInv PROVE TypeOK
    OBVIOUS
  <2>1. \A c \in DOMAIN answer : answer[c] \in rows
    BY DEF IInv, AnswerInv, NoFunction
  <2> QED
    BY <2>1 DEF IInv, Types, Copies, PageInv, Requests, TypeOK
<1> QED
  BY <1>1, Invariant, PTL

(* The window of every request is over and no later one is, and it is no   *)
(* longer than a day for hours of sleep that cross midnight or make a full *)
(* day: for any length of the day, any offset, any profile and any moment. *)
THEOREM WindowIsLatestHolds == Spec => []WindowIsLatest
<1>1. IInv => WindowIsLatest
  <2> SUFFICES ASSUME IInv, request.pc \notin {"idle", "refused"}
               PROVE  WindowIsLatest
    BY DEF WindowIsLatest
  <2>1. UnderWay /\ request.now \in Int /\ IsHours(request.hours)
    BY DEF IInv, Types, Requests, UnderWay, IsHours
  <2> QED
    BY <2>1, WindowFacts DEF IInv, WindowInv, WindowIsLatest
<1> QED
  BY <1>1, Invariant, PTL

(* The feed and an empty briefing for today name the same night.           *)
THEOREM TodayIsTheFeedNightHolds == Spec => []TodayIsTheFeedNight
<1>1. IInv => TodayIsTheFeedNight
  <2> SUFFICES ASSUME IInv, request.pc \notin {"idle", "refused"},
                      request.hours.sleep >= request.hours.wake,
                      (request.now + Offset) % DayLength >= request.hours.wake
               PROVE  BriefingWindow(request.now, request.hours)
                        = [start |-> request.start, end |-> request.end]
    BY DEF TodayIsTheFeedNight
  <2>1. UnderWay /\ request.now \in Int /\ IsHours(request.hours)
    BY DEF IInv, Types, Requests, UnderWay, IsHours
  <2>2. BriefingWindow(request.now, request.hours) = LastWindow(request.now, request.hours)
    BY <2>1, SameNight
  <2>3. /\ request.start = LastWindow(request.now, request.hours).start
        /\ request.end = LastWindow(request.now, request.hours).end
    BY <2>1 DEF IInv, WindowInv
  <2>4. LastWindow(request.now, request.hours)
          = [start |-> LastWindow(request.now, request.hours).start,
             end |-> LastWindow(request.now, request.hours).end]
    BY DEF LastWindow
  <2> QED
    BY <2>2, <2>3, <2>4
<1> QED
  BY <1>1, Invariant, PTL

(* No article that every copy listed when the request came is skipped for  *)
(* one that comes after it, for any table, window and limit, whatever the  *)
(* pipeline lists between two queries and whichever copy answers each.     *)
THEOREM EarliestAreKeptHolds == Spec => []EarliestAreKept
<1>1. IInv => EarliestAreKept
  BY DEF IInv, KeptInv
<1> QED
  BY <1>1, Invariant, PTL

(* A response has at most as many articles as the tier allows, all of the  *)
(* window and each once, whatever the titles and the summaries are.        *)
THEOREM AnswerIsWithinTierHolds == Spec => []AnswerIsWithinTier
<1>1. IInv => AnswerIsWithinTier
  <2> SUFFICES ASSUME IInv, request.pc = "done"
               PROVE  AnswerIsWithinTier
    BY DEF AnswerIsWithinTier
  <2>1. /\ Cardinality(DOMAIN answer) <= Cardinality(rows) /\ IsFiniteSet(DOMAIN answer)
        /\ Cardinality(rows) <= request.limit /\ request.limit <= Cap(request.premium)
        /\ rows \in SUBSET Article /\ request.limit \in Nat /\ request.premium \in BOOLEAN
    BY DEF IInv, AnswerInv, KeptInv, WindowInv, Selected, UnderWay, Types, Requests
  <2>2. Cardinality(DOMAIN answer) \in Nat /\ Cardinality(rows) \in Nat
    BY <2>1, CountPreceding, FS_CardinalityType, FiniteAssumption, FS_Subset
  <2>3. Cap(request.premium) \in Nat
    BY <2>1, RequestAssumption DEF Cap
  <2>4. Cardinality(DOMAIN answer) <= Cap(request.premium)
    BY <2>1, <2>2, <2>3
  <2> QED
    BY <2>4 DEF AnswerIsWithinTier, Cap, IInv, AnswerInv, RowsInv
<1> QED
  BY <1>1, Invariant, PTL

(* No story loses its summary: for any table, titles and lengths, and      *)
(* whatever the pipeline publishes or withdraws between two reads and      *)
(* whichever copy answers each, a summary that every copy had from the     *)
(* start is answered, or one of the same story that is not shorter.        *)
THEOREM PublishedStoryIsShownHolds == Spec => []PublishedStoryIsShown
<1>1. IInv => PublishedStoryIsShown
  <2> SUFFICES ASSUME IInv, request.pc = "done", NEW a \in rows \cap known.done
               PROVE  \E c \in DOMAIN answer : /\ answer[c] \in Story(a)
                                             /\ found[answer[c]] >= Length[a]
    BY DEF PublishedStoryIsShown
  <2>1. found[a] = Length[a]
    BY DEF IInv, StoryInv
  <2> QED
    BY <2>1, StoryByRows DEF IInv, StoryInv
<1> QED
  BY <1>1, Invariant, PTL
=============================================================================
