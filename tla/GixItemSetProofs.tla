--------------------------- MODULE GixItemSetProofs ---------------------------
(***************************************************************************)
(* Proofs about item sets, for any ids, frequencies and lengths of the     *)
(* children, and both handlers.                                            *)
(*                                                                         *)
(* IInv is what the calls keep of the buffer, the children and the stored  *)
(* blobs; every operator of GixItemSet has a lemma that says what it does  *)
(* to them.  WInv adds that no item is kept that should not be shown.      *)
(* Then every step is one of PostingList, of the frequency of each id.     *)
(*                                                                         *)
(* SplitLenMin # 0: without a least length Def() joins no child that was   *)
(* emptied with another one, and an empty child has no bounds (see         *)
(* NoEmptiedChild of GixItemSet).                                          *)
(***************************************************************************)
EXTENDS GixItemSet, FiniteSetTheorems, SequenceTheorems, WellFoundedInduction, TLAPS

LEMMA LeastIs ==
  ASSUME NEW S \in SUBSET Nat, S # {}
  PROVE  \E n \in S : \A m \in S : n <= m
  <1> DEFINE Less == OpToRel(<, Nat)
  <1>1. IsWellFoundedOn(Less, Nat)
    BY NatLessThanWellFounded
  <1>2. \A m, n \in Nat : <<m, n>> \in Less <=> m < n
    BY DEF OpToRel
  <1> HIDE DEF Less
  <1>3. \E n \in S : \A m \in S : ~(<<m, n>> \in Less)
    BY <1>1, WFMin
  <1>4. PICK n \in S : \A m \in S : ~(<<m, n>> \in Less)
    BY <1>3
  <1>5. n \in Nat /\ \A m \in S : m \in Nat /\ ~(m < n)
    BY <1>2, <1>4
  <1> QED BY <1>5

LEMMA ByInduction ==
  ASSUME NEW S, 0 \in S, \A n \in Nat : n \in S => n + 1 \in S
  PROVE  \A n \in Nat : n \in S
  <1> SUFFICES ASSUME Nat \ S # {} PROVE FALSE
    OBVIOUS
  <1>1. PICK n \in Nat \ S : \A m \in Nat \ S : n <= m
    BY LeastIs
  <1>2. n \in Nat /\ n # 0 /\ n \notin S
    BY <1>1
  <1>3. n - 1 \in Nat /\ n - 1 \in S
    BY <1>1, <1>2
  <1> QED BY <1>2, <1>3

LEMMA MaxIs ==
  ASSUME NEW b \in Nat, NEW S \in SUBSET 0..b, S # {}
  PROVE  Max(S) \in S /\ \A x \in S : x <= Max(S)
  <1> DEFINE T == {b - x : x \in S}
  <1>1. T \in SUBSET Nat /\ T # {}
    <2>1. \A x \in S : x \in 0..b /\ b - x \in Nat
      OBVIOUS
    <2> QED BY <2>1
  <1>2. PICK t \in T : \A u \in T : t <= u
    BY <1>1, LeastIs
  <1>3. PICK x \in S : t = b - x
    BY <1>2
  <1>4. ASSUME NEW y \in S PROVE x >= y
    <2>1. b - y \in T
      OBVIOUS
    <2>2. t <= b - y /\ x \in 0..b /\ y \in 0..b
      BY <1>2, <2>1
    <2> QED BY <1>3, <2>2
  <1>5. Max(S) \in S /\ \A y \in S : Max(S) >= y
    <2> HIDE DEF T
    <2> QED BY <1>4 DEF Max
  <1>6. \A y \in S : y \in 0..b
    OBVIOUS
  <1> QED BY <1>5, <1>6

\* A finite set of numbers has a bound.
LEMMA BoundIs ==
  ASSUME NEW S \in SUBSET Nat, IsFiniteSet(S)
  PROVE  \E b \in Nat : S \subseteq 0..b
  <1> DEFINE n == Cardinality(S)
  <1>0. n \in Nat
    BY FS_CardinalityType
  <1>1. PICK f : f \in Bijection(1..n, S)
    BY FS_CardinalityType DEF ExistsBijection
  <1> HIDE DEF n
  <1>2. f \in [1..n -> S] /\ \A x \in S : \E m \in 1..n : f[m] = x
    BY <1>1 DEF Bijection, Surjection, Injection
  <1> DEFINE T == {k \in Nat : k <= n => \E b \in Nat : \A m \in 1..k : f[m] <= b}
  <1>3. 0 \in T
    OBVIOUS
  <1>4. ASSUME NEW k \in Nat, k \in T PROVE k + 1 \in T
    <2> SUFFICES ASSUME k + 1 <= n PROVE \E b \in Nat : \A m \in 1..k + 1 : f[m] <= b
      OBVIOUS
    <2>1. PICK b \in Nat : \A m \in 1..k : f[m] <= b
      BY <1>0, <1>4
    <2>2. f[k + 1] \in Nat /\ \A m \in 1..k : f[m] \in Nat
      <3>1. k + 1 \in 1..n /\ \A m \in 1..k : m \in 1..n
        BY <1>0
      <3>2. \A m \in 1..n : f[m] \in S
        BY <1>2
      <3> QED BY <3>1, <3>2
    <2>3. b + f[k + 1] \in Nat /\ \A m \in 1..k + 1 : f[m] <= b + f[k + 1]
      <3>1. ASSUME NEW m \in 1..k + 1 PROVE f[m] <= b + f[k + 1]
        <4>1. m \in 1..k \/ m = k + 1
          OBVIOUS
        <4> QED BY <2>1, <2>2, <4>1
      <3> QED BY <2>2, <3>1
    <2> QED BY <2>3
  <1>5. n \in T
    <2> HIDE DEF T
    <2> QED BY <1>0, <1>3, <1>4, ByInduction
  <1>6. PICK b \in Nat : \A m \in 1..n : f[m] <= b
    BY <1>5
  <1>7. S \subseteq 0..b
    BY <1>2, <1>6
  <1> QED BY <1>7

\* Three vectors one after the other.
LEMMA JoinThree ==
  ASSUME NEW f \in Seq(Item), NEW g \in Seq(Item), NEW h \in Seq(Item)
  PROVE  (f \o g) \o h = f \o (g \o h)
  BY ConcatAssociative

LEMMA ConcatAppend ==
  ASSUME NEW S, NEW f \in Seq(S), NEW k \in Seq(S), NEW x \in S
  PROVE  f \o Append(k, x) = Append(f \o k, x)
  <1> DEFINE g == f \o Append(k, x)
             h == Append(f \o k, x)
  <1>1. g \in Seq(S) /\ h \in Seq(S) /\ Len(g) = Len(h) /\ Len(g) = Len(f) + Len(k) + 1
    OBVIOUS
  <1>2. ASSUME NEW n \in 1..Len(g) PROVE g[n] = h[n]
    <2>1. CASE n <= Len(f)
      BY <1>1, <2>1
    <2>2. CASE Len(f) < n /\ n <= Len(f) + Len(k)
      BY <1>1, <2>2
    <2>3. CASE n = Len(f) + Len(k) + 1
      BY <1>1, <2>3
    <2> QED BY <1>1, <2>1, <2>2, <2>3
  <1> HIDE DEF g, h
  <1>3. g = h
    BY <1>1, <1>2, SeqEqual
  <1> QED BY <1>3 DEF g, h

----
\* The recursive functions exist.
Recurs(g, R, b, N, T) == g \in [0..N -> R] /\ \A n \in 0..N : g[n] = IF n = 0 THEN b ELSE T[n][g[n - 1]]

LEMMA Recursion ==
  ASSUME NEW R, NEW b \in R, NEW N \in Nat, NEW T \in [1..N -> [R -> R]]
  PROVE  \E g : Recurs(g, R, b, N, T)
  <1> DEFINE Is(g, m) == g \in [0..m -> R] /\ \A n \in 0..m : g[n] = IF n = 0 THEN b ELSE T[n][g[n - 1]]
             S == {m \in Nat : m <= N => \E g : Is(g, m)}
  <1>1. 0 \in S
    <2>1. Is([n \in 0..0 |-> b], 0)
      OBVIOUS
    <2> QED BY <2>1
  <1>2. ASSUME NEW m \in Nat, m \in S PROVE m + 1 \in S
    <2> SUFFICES ASSUME m + 1 <= N PROVE \E g : Is(g, m + 1)
      OBVIOUS
    <2>1. PICK g : Is(g, m)
      BY <1>2
    <2> DEFINE h == [n \in 0..m + 1 |-> IF n = m + 1 THEN T[m + 1][g[m]] ELSE g[n]]
    <2>2. g[m] \in R /\ m + 1 \in 1..N
      BY <2>1
    <2>3. T[m + 1][g[m]] \in R
      BY <2>2
    <2>4. h \in [0..m + 1 -> R]
      BY <2>1, <2>3
    <2>5. ASSUME NEW n \in 0..m + 1 PROVE h[n] = IF n = 0 THEN b ELSE T[n][h[n - 1]]
      <3>1. CASE n = m + 1
        <4>1. m + 1 # 0 /\ n - 1 = m /\ m \in 0..m + 1 /\ m # m + 1
          BY <3>1
        <4> QED BY <3>1, <4>1
      <3>2. CASE n # m + 1
        <4>1. n \in 0..m /\ (n # 0 => n - 1 \in 0..m + 1 /\ n - 1 # m + 1)
          BY <3>2
        <4> QED BY <2>1, <3>2, <4>1
      <3> QED BY <3>1, <3>2
    <2>6. Is(h, m + 1)
      BY <2>4, <2>5
    <2> HIDE DEF h, Is
    <2> QED BY <2>6
  <1>3. N \in S
    <2> HIDE DEF S
    <2> QED BY <1>1, <1>2, ByInduction
  <1>4. PICK g : Is(g, N)
    BY <1>3
  <1> QED BY <1>4 DEF Recurs

\* The sums of the first n.
SumTo(f) == CHOOSE sum : sum = [n \in 0..Len(f) |-> IF n = 0 THEN 0 ELSE sum[n-1] + f[n]]

LEMMA SumSteps ==
  ASSUME NEW f \in Seq(Int)
  PROVE  /\ SumUp(f) = SumTo(f)[Len(f)] /\ SumTo(f)[0] = 0
         /\ \A n \in 1..Len(f) : SumTo(f)[n] = SumTo(f)[n - 1] + f[n]
         /\ \A n \in 0..Len(f) : SumTo(f)[n] \in Int
  <1> DEFINE N == Len(f)
             T == [n \in 1..N |-> [t \in Int |-> t + f[n]]]
             Is(g) == g = [n \in 0..N |-> IF n = 0 THEN 0 ELSE g[n - 1] + f[n]]
             sum == CHOOSE g : Is(g)
  <1>1. N \in Nat /\ 0 \in Int /\ \A n \in 1..N : f[n] \in Int
    OBVIOUS
  <1>2. T \in [1..N -> [Int -> Int]]
    <2> HIDE DEF N
    <2> QED BY <1>1
  <1>3. PICK g \in [0..N -> Int] : \A n \in 0..N : g[n] = IF n = 0 THEN 0 ELSE T[n][g[n - 1]]
    <2> HIDE DEF N, T
    <2>1. \E g : Recurs(g, Int, 0, N, T)
      BY <1>1, <1>2, Recursion
    <2> QED BY <2>1 DEF Recurs
  <1>4. Is(g)
    <2>1. ASSUME NEW n \in 0..N, n # 0
          PROVE T[n][g[n - 1]] = g[n - 1] + f[n]
      <3>1. n \in 1..N /\ n - 1 \in 0..N
        BY <1>1, <2>1
      <3> HIDE DEF N
      <3>2. g[n - 1] \in Int
        BY <3>1
      <3> QED BY <3>1, <3>2
    <2> HIDE DEF T, N
    <2> QED BY <1>3, <2>1
  <1>5. Is(sum)
    <2> HIDE DEF Is
    <2> QED BY <1>4
  <1>6. SumUp(f) = sum[N] /\ sum = SumTo(f)
    BY DEF SumUp, SumTo
  <1>7. \A n \in 0..N : sum[n] = IF n = 0 THEN 0 ELSE sum[n - 1] + f[n]
    BY <1>5
  <1> HIDE DEF sum
  <1> DEFINE P == {n \in Nat : n <= N => sum[n] \in Int}
  <1>8. 0 \in P
    BY <1>1, <1>7
  <1>9. ASSUME NEW n \in Nat, n \in P PROVE n + 1 \in P
    <2> SUFFICES ASSUME n + 1 <= N PROVE sum[n + 1] \in Int
      OBVIOUS
    <2> HIDE DEF N
    <2>1. n + 1 \in 0..N /\ n + 1 # 0 /\ n + 1 - 1 = n /\ n + 1 \in 1..N /\ n <= N
      BY <1>1
    <2>2. sum[n + 1] = sum[n] + f[n + 1]
      BY <1>7, <2>1
    <2> QED BY <1>1, <1>9, <2>1, <2>2
  <1>10. \A n \in Nat : n \in P
    <2> HIDE DEF P
    <2> QED BY <1>8, <1>9, ByInduction
  <1>11. \A n \in 0..N : sum[n] \in Int
    BY <1>1, <1>10
  <1>12. \A n \in 1..N : n \in 0..N /\ n # 0
    BY <1>1
  <1> QED BY <1>1, <1>6, <1>7, <1>11, <1>12

LEMMA SumType == ASSUME NEW f \in Seq(Int) PROVE SumUp(f) \in Int
  BY SumSteps

LEMMA SumEmpty == SumUp(<<>>) = 0
  <1>1. <<>> \in Seq(Int) /\ Len(<<>>) = 0
    OBVIOUS
  <1> QED BY <1>1, SumSteps

\* Sums of the same numbers, as far as they are the same.
LEMMA SumSame ==
  ASSUME NEW f \in Seq(Int), NEW g \in Seq(Int), NEW m \in Nat, m <= Len(f), m <= Len(g),
         \A n \in 1..m : f[n] = g[n]
  PROVE  SumTo(f)[m] = SumTo(g)[m]
  <1> DEFINE P == {n \in Nat : n <= m => SumTo(f)[n] = SumTo(g)[n]}
  <1>1. 0 \in P
    BY SumSteps
  <1>2. ASSUME NEW n \in Nat, n \in P PROVE n + 1 \in P
    <2> SUFFICES ASSUME n + 1 <= m PROVE SumTo(f)[n + 1] = SumTo(g)[n + 1]
      OBVIOUS
    <2>1. n + 1 \in 1..Len(f) /\ n + 1 \in 1..Len(g) /\ n + 1 \in 1..m /\ n + 1 - 1 = n /\ n <= m
      OBVIOUS
    <2>2. SumTo(f)[n + 1] = SumTo(f)[n] + f[n + 1] /\ SumTo(g)[n + 1] = SumTo(g)[n] + g[n + 1]
      BY <2>1, SumSteps
    <2> QED BY <1>2, <2>1, <2>2
  <1>3. m \in P
    <2> HIDE DEF P
    <2> QED BY <1>1, <1>2, ByInduction
  <1> QED BY <1>3

LEMMA SumAppend ==
  ASSUME NEW f \in Seq(Int), NEW x \in Int
  PROVE  SumUp(Append(f, x)) = SumUp(f) + x
  <1> DEFINE g == Append(f, x)
  <1>1. /\ g \in Seq(Int) /\ Len(g) = Len(f) + 1 /\ g[Len(f) + 1] = x
        /\ \A n \in 1..Len(f) : f[n] = g[n]
        /\ Len(f) \in Nat /\ Len(f) <= Len(g) /\ Len(f) + 1 \in 1..Len(g) /\ Len(f) + 1 - 1 = Len(f)
    OBVIOUS
  <1> HIDE DEF g
  <1>2. SumTo(f)[Len(f)] = SumTo(g)[Len(f)]
    <2> DEFINE m == Len(f)
    <2>1. m \in Nat /\ m <= Len(f) /\ m <= Len(g) /\ g \in Seq(Int) /\ \A n \in 1..m : f[n] = g[n]
      BY <1>1
    <2> HIDE DEF m
    <2>2. SumTo(f)[m] = SumTo(g)[m]
      BY <2>1, SumSame
    <2> QED BY <2>2 DEF m
  <1>3. SumTo(g)[Len(f) + 1] = SumTo(g)[Len(f)] + x
    BY <1>1, SumSteps
  <1>4. SumUp(f) = SumTo(f)[Len(f)] /\ SumUp(g) = SumTo(g)[Len(f) + 1]
    BY <1>1, SumSteps
  <1> QED BY <1>2, <1>3, <1>4 DEF g

LEMMA SumConcat ==
  ASSUME NEW f \in Seq(Int), NEW g \in Seq(Int)
  PROVE  SumUp(f \o g) = SumUp(f) + SumUp(g)
  <1> DEFINE P == {n \in Nat : \A h \in Seq(Int) : Len(h) = n => SumUp(f \o h) = SumUp(f) + SumUp(h)}
  <1>1. 0 \in P
    <2>1. ASSUME NEW h \in Seq(Int), Len(h) = 0 PROVE SumUp(f \o h) = SumUp(f) + SumUp(h)
      <3>1. h = <<>> /\ f \o h = f
        BY <2>1
      <3> QED BY <3>1, SumEmpty, SumType
    <2> QED BY <2>1
  <1>2. ASSUME NEW n \in Nat, n \in P PROVE n + 1 \in P
    <2>1. ASSUME NEW h \in Seq(Int), Len(h) = n + 1 PROVE SumUp(f \o h) = SumUp(f) + SumUp(h)
      <3> DEFINE k == SubSeq(h, 1, n)
                 x == h[n + 1]
      <3>1. k \in Seq(Int) /\ Len(k) = n /\ x \in Int /\ h = Append(k, x)
        BY <2>1
      <3>2. f \o h = Append(f \o k, x) /\ f \o k \in Seq(Int)
        <4> HIDE DEF k, x
        <4>1. k \in Seq(Int) /\ x \in Int
          BY <3>1
        <4>2. f \o Append(k, x) = Append(f \o k, x)
          BY <4>1, ConcatAppend
        <4> QED BY <3>1, <4>2
      <3>3. SumUp(f \o k) = SumUp(f) + SumUp(k)
        BY <1>2, <3>1
      <3> HIDE DEF k, x
      <3>4. SumUp(h) = SumUp(k) + x /\ SumUp(f \o h) = SumUp(f \o k) + x
        BY <3>1, <3>2, SumAppend
      <3>5. SumUp(f) \in Int /\ SumUp(k) \in Int
        BY <3>1, SumType
      <3> QED BY <3>1, <3>3, <3>4, <3>5
    <2> QED BY <2>1
  <1>3. Len(g) \in P
    <2>1. Len(g) \in Nat
      OBVIOUS
    <2> HIDE DEF P
    <2> QED BY <1>1, <1>2, <2>1, ByInduction
  <1> QED BY <1>3

\* A sum of naturals is no less than any of them.
LEMMA SumNat ==
  ASSUME NEW f \in Seq(Nat)
  PROVE  SumUp(f) \in Nat /\ \A n \in 1..Len(f) : f[n] <= SumUp(f)
  <1>0. f \in Seq(Int) /\ \A n \in 1..Len(f) : f[n] \in Nat
    BY SeqMonotonic
  <1> DEFINE P == {n \in Nat : n <= Len(f) =>
                     SumTo(f)[n] \in Nat /\ \A m \in 1..n : f[m] <= SumTo(f)[n]}
  <1>1. 0 \in P
    BY <1>0, SumSteps
  <1>2. ASSUME NEW n \in Nat, n \in P PROVE n + 1 \in P
    <2> SUFFICES ASSUME n + 1 <= Len(f)
                 PROVE  SumTo(f)[n + 1] \in Nat /\ \A m \in 1..n + 1 : f[m] <= SumTo(f)[n + 1]
      OBVIOUS
    <2>1. n + 1 \in 1..Len(f) /\ n + 1 - 1 = n /\ n <= Len(f)
      OBVIOUS
    <2>2. SumTo(f)[n + 1] = SumTo(f)[n] + f[n + 1] /\ f[n + 1] \in Nat
      BY <1>0, <2>1, SumSteps
    <2>3. SumTo(f)[n] \in Nat /\ \A m \in 1..n : f[m] <= SumTo(f)[n] /\ f[m] \in Nat
      BY <1>0, <1>2, <2>1
    <2>4. \A m \in 1..n + 1 : m \in 1..n \/ m = n + 1
      OBVIOUS
    <2> QED BY <2>2, <2>3, <2>4
  <1>3. Len(f) \in Nat
    OBVIOUS
  <1>4. Len(f) \in P
    <2> HIDE DEF P
    <2> QED BY <1>1, <1>2, <1>3, ByInduction
  <1> QED BY <1>0, <1>3, <1>4, SumSteps

ChainTo(f) == CHOOSE upTo : upTo = [n \in 0..Len(f) |-> IF n = 0 THEN <<>> ELSE upTo[n-1] \o f[n]]

LEMMA ChainSteps ==
  ASSUME NEW S, NEW f \in Seq(Seq(S))
  PROVE  /\ Chained(f) = ChainTo(f)[Len(f)] /\ ChainTo(f)[0] = <<>>
         /\ \A n \in 1..Len(f) : ChainTo(f)[n] = ChainTo(f)[n - 1] \o f[n]
         /\ \A n \in 0..Len(f) : ChainTo(f)[n] \in Seq(S)
  <1> DEFINE N == Len(f)
             R == Seq(S)
             T == [n \in 1..N |-> [t \in R |-> t \o f[n]]]
             Is(g) == g = [n \in 0..N |-> IF n = 0 THEN <<>> ELSE g[n - 1] \o f[n]]
             upTo == CHOOSE g : Is(g)
  <1>1. N \in Nat /\ <<>> \in R /\ \A n \in 1..N : f[n] \in R
    OBVIOUS
  <1>2. T \in [1..N -> [R -> R]]
    <2>1. \A t, u \in R : t \o u \in R
      OBVIOUS
    <2> HIDE DEF N, R
    <2> QED BY <1>1, <2>1
  <1>3. PICK g \in [0..N -> R] : \A n \in 0..N : g[n] = IF n = 0 THEN <<>> ELSE T[n][g[n - 1]]
    <2> HIDE DEF N, T, R
    <2>1. \E g : Recurs(g, R, <<>>, N, T)
      BY <1>1, <1>2, Recursion
    <2> QED BY <2>1 DEF Recurs
  <1>4. Is(g)
    <2>1. ASSUME NEW n \in 0..N, n # 0
          PROVE T[n][g[n - 1]] = g[n - 1] \o f[n]
      <3>1. n \in 1..N /\ n - 1 \in 0..N
        BY <1>1, <2>1
      <3> HIDE DEF N, R
      <3>2. g[n - 1] \in R
        BY <3>1
      <3> QED BY <3>1, <3>2
    <2> HIDE DEF T, N, R
    <2> QED BY <1>3, <2>1
  <1>5. Is(upTo)
    <2> HIDE DEF Is
    <2> QED BY <1>4
  <1>6. Chained(f) = upTo[N] /\ upTo = ChainTo(f)
    BY DEF Chained, ChainTo
  <1>7. \A n \in 0..N : upTo[n] = IF n = 0 THEN <<>> ELSE upTo[n - 1] \o f[n]
    BY <1>5
  <1> HIDE DEF upTo
  <1> DEFINE P == {n \in Nat : n <= N => upTo[n] \in R}
  <1>8. 0 \in P
    <2>1. 0 \in 0..N
      BY <1>1
    <2>2. upTo[0] = <<>>
      BY <1>7, <2>1
    <2> QED BY <1>1, <2>2
  <1>9. ASSUME NEW n \in Nat, n \in P PROVE n + 1 \in P
    <2> SUFFICES ASSUME n + 1 <= N PROVE upTo[n + 1] \in R
      OBVIOUS
    <2>0. \A t, u \in R : t \o u \in R
      OBVIOUS
    <2> HIDE DEF N, R
    <2>1. n + 1 \in 0..N /\ n + 1 # 0 /\ n + 1 - 1 = n /\ n + 1 \in 1..N /\ n <= N
      BY <1>1
    <2>2. upTo[n + 1] = upTo[n] \o f[n + 1]
      <3> DEFINE m == n + 1
      <3>1. m \in 0..N /\ m # 0 /\ m - 1 = n
        BY <2>1
      <3> HIDE DEF m
      <3>2. upTo[m] = upTo[m - 1] \o f[m]
        BY <1>7, <3>1
      <3> QED BY <3>1, <3>2 DEF m
    <2> QED BY <1>1, <1>9, <2>0, <2>1, <2>2
  <1>10. \A n \in Nat : n \in P
    <2> HIDE DEF P
    <2> QED BY <1>8, <1>9, ByInduction
  <1>11. \A n \in 0..N : upTo[n] \in R
    BY <1>1, <1>10
  <1>12. \A n \in 1..N : n \in 0..N /\ n # 0
    BY <1>1
  <1>13. upTo[0] = <<>> /\ \A n \in 1..N : upTo[n] = upTo[n - 1] \o f[n]
    <2>1. 0 \in 0..N
      BY <1>1
    <2> HIDE DEF N
    <2> QED BY <1>7, <1>12, <2>1
  <1> QED BY <1>6, <1>11, <1>13

----
\* The numbers of a set in order.
Enumerates(q, P) ==
  /\ q \in Seq(P)
  /\ \A m, n \in 1..Len(q) : m < n => q[m] < q[n]
  /\ \A x \in P : \E n \in 1..Len(q) : q[n] = x

LEMMA AscendingIs ==
  ASSUME NEW b \in Nat, NEW P \in SUBSET (1..b)
  PROVE  Enumerates(Ascending(P), P)
  <1>0. \A x \in P : x \in Nat /\ x >= 1 /\ x \in 0..b
    OBVIOUS
  <1>1. CASE P = {}
    BY <1>1 DEF Ascending, Enumerates
  <1>2. CASE P # {}
    <2> DEFINE M == Max(P)
               f == [n \in 1..M |-> IF n \in P THEN <<n>> ELSE <<>>]
    <2>1. M \in P /\ M \in Nat /\ \A x \in P : x \in 1..M
      <3>1. P \in SUBSET (0..b)
        OBVIOUS
      <3>2. M \in P /\ \A x \in P : x <= M
        BY <1>2, <3>1, MaxIs
      <3> HIDE DEF M
      <3> QED BY <1>0, <3>2
    <2> HIDE DEF M
    <2>2. f \in Seq(Seq(P)) /\ Len(f) = M /\ \A n \in 1..M : f[n] = IF n \in P THEN <<n>> ELSE <<>>
      <3>1. \A n \in 1..M : (IF n \in P THEN <<n>> ELSE <<>>) \in Seq(P)
        OBVIOUS
      <3> QED BY <2>1, <3>1
    <2>3. Ascending(P) = Chained(f)
      BY <1>2 DEF Ascending, M
    <2> DEFINE c == ChainTo(f)
    <2>4. /\ Chained(f) = c[M] /\ c[0] = <<>>
          /\ \A n \in 1..M : c[n] = c[n - 1] \o f[n]
          /\ \A n \in 0..M : c[n] \in Seq(P)
      <3> HIDE DEF f
      <3> QED BY <2>2, ChainSteps
    <2> HIDE DEF c, f
    <2> DEFINE E(n) == Enumerates(c[n], {x \in P : x <= n})
               T == {n \in Nat : n <= M => E(n)}
    <2>5. 0 \in T
      <3>1. {x \in P : x <= 0} = {}
        <4>1. ASSUME NEW x \in P PROVE ~(x <= 0)
          BY <1>0
        <4> QED BY <4>1
      <3> QED BY <2>4, <3>1 DEF Enumerates
    <2>6. ASSUME NEW n \in Nat, n \in T PROVE n + 1 \in T
      <3> SUFFICES ASSUME n + 1 <= M PROVE E(n + 1)
        OBVIOUS
      <3>1. n + 1 \in 1..M /\ n + 1 - 1 = n /\ n <= M
        BY <2>1
      <3>2. E(n)
        BY <2>6, <3>1
      <3> DEFINE p == c[n]
                 q == c[n + 1]
      <3>3. q = p \o f[n + 1]
        <4> DEFINE m == n + 1
        <4>1. m \in 1..M /\ m - 1 = n
          BY <3>1
        <4> HIDE DEF m
        <4>2. c[m] = c[m - 1] \o f[m]
          BY <2>4, <4>1
        <4> QED BY <4>1, <4>2 DEF m
      <3>4. CASE n + 1 \in P
        <4>1. q = p \o <<n + 1>>
          BY <2>2, <3>1, <3>3, <3>4
        <4> HIDE DEF p, q
        <4>2. {x \in P : x <= n + 1} = {x \in P : x <= n} \cup {n + 1}
          <5>1. ASSUME NEW x \in P PROVE x <= n + 1 <=> x <= n \/ x = n + 1
            BY <1>0
          <5> QED BY <3>4, <5>1
        <4>3. p \in Seq({x \in P : x <= n})
          BY <3>2 DEF Enumerates, p
        <4>4. /\ q \in Seq({x \in P : x <= n} \cup {n + 1}) /\ Len(q) = Len(p) + 1 /\ Len(p) \in Nat
              /\ \A m \in 1..Len(p) : q[m] = p[m] /\ p[m] \in P /\ p[m] <= n
              /\ q[Len(p) + 1] = n + 1
          <5>1. p \in Seq({x \in P : x <= n} \cup {n + 1})
            BY <4>3, SeqMonotonic
          <5>2. \A m \in 1..Len(p) : p[m] \in {x \in P : x <= n}
            BY <4>3
          <5> QED BY <4>1, <5>1, <5>2
        <4>5. \A k, m \in 1..Len(q) : k < m => q[k] < q[m]
          <5> SUFFICES ASSUME NEW k \in 1..Len(q), NEW m \in 1..Len(q), k < m PROVE q[k] < q[m]
            OBVIOUS
          <5>1. CASE m = Len(p) + 1
            <6>1. k \in 1..Len(p)
              BY <4>4, <5>1
            <6>2. q[k] = p[k] /\ p[k] \in P /\ p[k] <= n
              BY <4>4, <6>1
            <6>3. q[m] = n + 1
              BY <4>4, <5>1
            <6>4. p[k] \in Nat
              BY <1>0, <6>2
            <6> QED BY <6>2, <6>3, <6>4
          <5>2. CASE m # Len(p) + 1
            <6>1. k \in 1..Len(p) /\ m \in 1..Len(p)
              BY <4>4, <5>2
            <6> QED BY <3>2, <4>4, <6>1 DEF Enumerates, p
          <5> QED BY <5>1, <5>2
        <4>6. \A x \in {x \in P : x <= n + 1} : \E m \in 1..Len(q) : q[m] = x
          <5> SUFFICES ASSUME NEW x \in P, x <= n + 1 PROVE \E m \in 1..Len(q) : q[m] = x
            OBVIOUS
          <5>1. CASE x = n + 1
            BY <4>4, <5>1
          <5>2. CASE x # n + 1
            <6>1. x <= n
              BY <2>1, <5>2
            <6>2. PICK m \in 1..Len(p) : p[m] = x
              BY <3>2, <6>1 DEF Enumerates, p
            <6> QED BY <4>4, <6>2
          <5> QED BY <5>1, <5>2
        <4>7. Enumerates(q, {x \in P : x <= n + 1})
          BY <4>2, <4>4, <4>5, <4>6 DEF Enumerates
        <4> QED BY <4>7 DEF q
      <3>5. CASE n + 1 \notin P
        <4>1. {x \in P : x <= n + 1} = {x \in P : x <= n}
          <5>1. ASSUME NEW x \in P PROVE x <= n + 1 <=> x <= n
            BY <1>0, <3>5
          <5> QED BY <5>1
        <4>2. q = p
          <5>1. f[n + 1] = <<>>
            BY <2>2, <3>1, <3>5
          <5>2. p \in Seq(P)
            <6>1. n \in 0..M
              BY <3>1
            <6> QED BY <2>4, <6>1
          <5> HIDE DEF p, q
          <5> QED BY <3>3, <5>1, <5>2
        <4> QED BY <3>2, <4>1, <4>2
      <3> QED BY <3>4, <3>5
    <2>7. M \in T
      <3> HIDE DEF T
      <3> QED BY <2>1, <2>5, <2>6, ByInduction
    <2>8. {x \in P : x <= M} = P
      <3>1. ASSUME NEW x \in P PROVE x <= M
        <4>1. x \in 1..M
          BY <2>1
        <4> QED BY <2>1, <4>1
      <3> QED BY <3>1
    <2> QED BY <2>1, <2>3, <2>4, <2>7, <2>8
  <1> QED BY <1>1, <1>2

\* There is one order only.
LEMMA OneOrder ==
  ASSUME NEW P \in SUBSET Nat, NEW p, NEW q, Enumerates(p, P), Enumerates(q, P)
  PROVE  p = q
  <1> DEFINE a == Len(p)
             b == Len(q)
  <1>1. /\ a \in Nat /\ b \in Nat /\ p \in Seq(P) /\ q \in Seq(P)
        /\ \A n \in 1..a : p[n] \in P /\ p[n] \in Nat
        /\ \A n \in 1..b : q[n] \in P /\ q[n] \in Nat
        /\ \A m, n \in 1..a : m < n => p[m] < p[n]
        /\ \A m, n \in 1..b : m < n => q[m] < q[n]
        /\ \A x \in P : \E n \in 1..a : p[n] = x
        /\ \A x \in P : \E n \in 1..b : q[n] = x
    <2>1. p \in Seq(P) /\ q \in Seq(P)
      BY DEF Enumerates
    <2>2. /\ a \in Nat /\ b \in Nat /\ \A n \in 1..a : p[n] \in P
          /\ \A n \in 1..b : q[n] \in P
      BY <2>1
    <2> QED BY <2>1, <2>2 DEF Enumerates
  <1> HIDE DEF a, b
  <1> DEFINE D == {n \in Nat : n \in 1..a \cup 1..b /\ ~(n \in 1..a /\ n \in 1..b /\ p[n] = q[n])}
  <1>2. D = {}
    <2> SUFFICES ASSUME D # {} PROVE FALSE
      OBVIOUS
    <2>1. PICK n \in D : \A m \in D : n <= m
      <3>1. D \in SUBSET Nat
        OBVIOUS
      <3> HIDE DEF D
      <3> QED BY <3>1, LeastIs
    <2>2. n \in Nat /\ n >= 1 /\ ~(n \in 1..a /\ n \in 1..b /\ p[n] = q[n])
      BY <1>1
    <2>3. \A m \in 1..n - 1 : m \in 1..a /\ m \in 1..b /\ p[m] = q[m]
      <3> SUFFICES ASSUME NEW m \in 1..n - 1 PROVE m \in 1..a /\ m \in 1..b /\ p[m] = q[m]
        OBVIOUS
      <3>1. m \notin D
        BY <2>1, <2>2
      <3>2. m \in 1..a \cup 1..b
        BY <1>1, <2>2
      <3> QED BY <3>1, <3>2
    <2>4. ASSUME n \in 1..a, n \in 1..b => p[n] < q[n] PROVE FALSE
      <3>1. PICK m \in 1..b : q[m] = p[n]
        BY <1>1, <2>4
      <3>2. CASE m < n
        <4>1. p[m] = q[m] /\ m \in 1..a
          BY <1>1, <2>2, <2>3, <3>2
        <4>2. p[m] < p[n] /\ p[m] \in Nat /\ p[n] \in Nat
          BY <1>1, <2>4, <3>2, <4>1
        <4> QED BY <3>1, <4>1, <4>2
      <3>3. CASE m >= n
        <4>1. n \in 1..b
          BY <1>1, <2>2, <3>3
        <4>2. p[n] < q[n]
          BY <2>4, <4>1
        <4>3. q[n] \in Nat /\ q[m] \in Nat /\ p[n] \in Nat
          BY <1>1, <2>4, <3>1, <4>1
        <4>4. n < m => q[n] < q[m]
          BY <1>1, <3>1, <4>1
        <4>5. n < m \/ n = m
          BY <1>1, <2>2, <3>3
        <4> QED BY <3>1, <4>2, <4>3, <4>4, <4>5
      <3> QED BY <1>1, <2>2, <3>2, <3>3
    <2>5. ASSUME n \in 1..b, n \in 1..a => q[n] < p[n] PROVE FALSE
      <3>1. PICK m \in 1..a : p[m] = q[n]
        BY <1>1, <2>5
      <3>2. CASE m < n
        <4>0. m \in 1..n - 1
          BY <1>1, <2>2, <3>2
        <4>1. p[m] = q[m] /\ m \in 1..b
          BY <2>3, <4>0
        <4>2. q[m] < q[n] /\ q[m] \in Nat /\ q[n] \in Nat
          BY <1>1, <2>5, <3>2, <4>1
        <4> QED BY <3>1, <4>1, <4>2
      <3>3. CASE m >= n
        <4>1. n \in 1..a
          BY <1>1, <2>2, <3>3
        <4>2. q[n] < p[n]
          BY <2>5, <4>1
        <4>3. p[n] \in Nat /\ p[m] \in Nat /\ q[n] \in Nat
          BY <1>1, <2>5, <3>1, <4>1
        <4>4. n < m => p[n] < p[m]
          BY <1>1, <3>1, <4>1
        <4>5. n < m \/ n = m
          BY <1>1, <2>2, <3>3
        <4> QED BY <3>1, <4>2, <4>3, <4>4, <4>5
      <3> QED BY <1>1, <2>2, <3>2, <3>3
    <2>6. n \in 1..a \/ n \in 1..b
      BY <2>1
    <2>7. n \in 1..a /\ n \in 1..b => p[n] < q[n] \/ q[n] < p[n]
      BY <1>1, <2>2
    <2> QED BY <2>4, <2>5, <2>6, <2>7
  <1>3. \A n \in Nat : n \in 1..a \cup 1..b => n \in 1..a /\ n \in 1..b /\ p[n] = q[n]
    BY <1>2
  <1>4. a = b
    <2>0. a \in Nat /\ b \in Nat
      BY <1>1
    <2>1. a > 0 => a \in 1..b
      <3>1. a > 0 => a \in 1..a \cup 1..b
        BY <2>0
      <3> QED BY <1>3, <2>0, <3>1
    <2>2. b > 0 => b \in 1..a
      <3>1. b > 0 => b \in 1..a \cup 1..b
        BY <2>0
      <3> QED BY <1>3, <2>0, <3>1
    <2> QED BY <2>0, <2>1, <2>2
  <1>5. \A n \in 1..a : p[n] = q[n]
    BY <1>1, <1>3
  <1> QED BY <1>1, <1>4, <1>5, SeqEqual DEF a, b

LEMMA OrderIs ==
  ASSUME NEW b \in Nat, NEW P \in SUBSET (1..b), NEW q, Enumerates(q, P)
  PROVE  Ascending(P) = q
  <1>1. P \in SUBSET Nat
    OBVIOUS
  <1> QED BY <1>1, AscendingIs, OneOrder

\* The n-th of a set of positive numbers is n at least.
LEMMA OrderGrows ==
  ASSUME NEW P \in SUBSET (Nat \ {0}), NEW q, Enumerates(q, P)
  PROVE  \A n \in 1..Len(q) : q[n] >= n
  <1>1. Len(q) \in Nat /\ \A n \in 1..Len(q) : q[n] \in Nat \ {0}
    <2>1. q \in Seq(P)
      BY DEF Enumerates
    <2>2. Len(q) \in Nat /\ \A n \in 1..Len(q) : q[n] \in P
      BY <2>1
    <2> QED BY <2>2
  <1>2. \A m, n \in 1..Len(q) : m < n => q[m] < q[n]
    BY DEF Enumerates
  <1> DEFINE L == Len(q)
  <1> HIDE DEF L
  <1> DEFINE T == {n \in Nat : n \in 1..L => q[n] >= n}
  <1>3. 0 \in T
    OBVIOUS
  <1>4. ASSUME NEW n \in Nat, n \in T PROVE n + 1 \in T
    <2> SUFFICES ASSUME n + 1 \in 1..L PROVE q[n + 1] >= n + 1
      OBVIOUS
    <2>1. CASE n = 0
      <3>1. q[n + 1] \in Nat \ {0}
        BY <1>1 DEF L
      <3> QED BY <2>1, <3>1
    <2>2. CASE n # 0
      <3>1. n \in 1..L
        BY <1>1, <2>2 DEF L
      <3>2. q[n] >= n /\ q[n] < q[n + 1] /\ q[n] \in Nat /\ q[n + 1] \in Nat
        BY <1>1, <1>2, <1>4, <3>1 DEF L
      <3> QED BY <3>2
    <2> QED BY <2>1, <2>2
  <1>5. \A n \in Nat : n \in T
    <2> HIDE DEF T
    <2> QED BY <1>3, <1>4, ByInduction
  <1> QED BY <1>5 DEF L

\* The elements of a sequence; a vector of items in the order of their ids.
Vals(v) == {v[n] : n \in 1..Len(v)}
Ordered(v) == \A m, n \in 1..Len(v) : m < n => v[m].id < v[n].id

----
\* Some elements of a vector.
LEMMA PickedIs ==
  ASSUME NEW S, NEW v \in Seq(S), NEW P \in SUBSET (1..Len(v))
  PROVE  /\ Enumerates(Ascending(P), P) /\ PickedFrom(v, P) \in Seq(S)
         /\ Len(PickedFrom(v, P)) = Len(Ascending(P))
         /\ \A n \in 1..Len(Ascending(P)) :
              /\ Ascending(P)[n] \in P /\ Ascending(P)[n] \in 1..Len(v)
              /\ PickedFrom(v, P)[n] = v[Ascending(P)[n]]
  <1> DEFINE q == Ascending(P)
             L == Len(q)
  <1>1. Enumerates(q, P)
    <2>1. Len(v) \in Nat
      OBVIOUS
    <2> QED BY <2>1, AscendingIs
  <1>2. q \in Seq(P)
    BY <1>1 DEF Enumerates
  <1> HIDE DEF q
  <1>3. L \in Nat /\ DOMAIN q = 1..L /\ \A n \in 1..L : q[n] \in P
    BY <1>2
  <1> HIDE DEF L
  <1>4. \A n \in 1..L : q[n] \in 1..Len(v) /\ v[q[n]] \in S
    <2> SUFFICES ASSUME NEW n \in 1..L PROVE q[n] \in 1..Len(v) /\ v[q[n]] \in S
      OBVIOUS
    <2>1. q[n] \in 1..Len(v)
      BY <1>3
    <2> QED BY <2>1
  <1>5. PickedFrom(v, P) = [n \in 1..L |-> v[q[n]]]
    BY <1>3 DEF PickedFrom, q
  <1>6. [n \in 1..L |-> v[q[n]]] \in Seq(S) /\ Len([n \in 1..L |-> v[q[n]]]) = L
    BY <1>3, <1>4
  <1> QED BY <1>1, <1>3, <1>4, <1>5, <1>6 DEF L, q

LEMMA PickedVals ==
  ASSUME NEW S, NEW v \in Seq(S), NEW P \in SUBSET (1..Len(v))
  PROVE  /\ PickedFrom(v, P) \in Seq(S)
         /\ \A n \in 1..Len(PickedFrom(v, P)) : \E m \in P : PickedFrom(v, P)[n] = v[m]
         /\ \A m \in P : \E n \in 1..Len(PickedFrom(v, P)) : PickedFrom(v, P)[n] = v[m]
         /\ Vals(PickedFrom(v, P)) = {v[m] : m \in P}
  <1> DEFINE q == Ascending(P)
             w == PickedFrom(v, P)
  <1>1. /\ Enumerates(q, P) /\ w \in Seq(S) /\ Len(w) = Len(q)
        /\ \A n \in 1..Len(q) : q[n] \in P /\ w[n] = v[q[n]]
    BY PickedIs
  <1> HIDE DEF q, w
  <1>2. \A n \in 1..Len(w) : \E m \in P : w[n] = v[m]
    BY <1>1
  <1>3. \A m \in P : \E n \in 1..Len(w) : w[n] = v[m]
    <2> SUFFICES ASSUME NEW m \in P PROVE \E n \in 1..Len(w) : w[n] = v[m]
      OBVIOUS
    <2>1. PICK n \in 1..Len(q) : q[n] = m
      BY <1>1 DEF Enumerates
    <2> QED BY <1>1, <2>1
  <1>4. Vals(w) = {v[m] : m \in P}
    <2> DEFINE K == 1..Len(w)
    <2>1. \A n \in K : \E m \in P : w[n] = v[m]
      BY <1>2
    <2>2. \A m \in P : \E n \in K : w[n] = v[m]
      BY <1>3
    <2>3. Vals(w) = {w[n] : n \in K}
      BY DEF Vals
    <2> HIDE DEF K
    <2>4. {w[n] : n \in K} = {v[m] : m \in P}
      <3>1. ASSUME NEW n \in K PROVE w[n] \in {v[m] : m \in P}
        <4>1. PICK m \in P : w[n] = v[m]
          BY <2>1
        <4> QED BY <4>1
      <3>2. ASSUME NEW m \in P PROVE v[m] \in {w[n] : n \in K}
        <4>1. PICK n \in K : w[n] = v[m]
          BY <2>2
        <4>2. v[m] = w[n]
          BY <4>1
        <4> HIDE <4>1
        <4> QED BY <4>2
      <3> QED BY <3>1, <3>2
    <2> QED BY <2>3, <2>4
  <1> QED BY <1>1, <1>2, <1>3, <1>4 DEF w

LEMMA PickedOrdered ==
  ASSUME NEW v \in Seq(Item), NEW P \in SUBSET (1..Len(v)), Ordered(v)
  PROVE  Ordered(PickedFrom(v, P))
  <1> DEFINE q == Ascending(P)
             w == PickedFrom(v, P)
  <1>1. /\ Enumerates(q, P) /\ w \in Seq(Item) /\ Len(w) = Len(q)
        /\ \A n \in 1..Len(q) : q[n] \in P /\ q[n] \in 1..Len(v) /\ w[n] = v[q[n]]
    BY PickedIs
  <1> HIDE DEF q, w
  <1>2. ASSUME NEW m \in 1..Len(w), NEW n \in 1..Len(w), m < n PROVE w[m].id < w[n].id
    <2>1. q[m] < q[n]
      BY <1>1, <1>2 DEF Enumerates
    <2>2. q[m] \in 1..Len(v) /\ q[n] \in 1..Len(v) /\ w[m] = v[q[m]] /\ w[n] = v[q[n]]
      BY <1>1
    <2> QED BY <2>1, <2>2 DEF Ordered
  <1> QED BY <1>2 DEF Ordered, w

\* No more is picked than there is, and only if some is missing it is less.
LEMMA PickedShort ==
  ASSUME NEW S, NEW v \in Seq(S), NEW P \in SUBSET (1..Len(v))
  PROVE  /\ Len(PickedFrom(v, P)) \in 0..Len(v)
         /\ Len(PickedFrom(v, P)) = Len(v) => PickedFrom(v, P) = v
         /\ PickedFrom(v, P) = <<>> <=> P = {}
         /\ P = 1..Len(v) => PickedFrom(v, P) = v
  <1> DEFINE q == Ascending(P)
             w == PickedFrom(v, P)
             L == Len(q)
             N == Len(v)
  <1>1. /\ Enumerates(q, P) /\ w \in Seq(S) /\ Len(w) = L
        /\ \A n \in 1..L : q[n] \in P /\ q[n] \in 1..N /\ w[n] = v[q[n]]
    BY PickedIs
  <1> HIDE DEF q, w
  <1>0. L \in Nat /\ N \in Nat
    <2>1. L \in Nat
      BY <1>1
    <2> QED BY <2>1
  <1>2. \A n \in 1..L : q[n] >= n
    <2>1. P \in SUBSET (Nat \ {0})
      OBVIOUS
    <2> QED BY <1>1, <2>1, OrderGrows
  <1>3. \A m, n \in 1..L : m < n => q[m] < q[n]
    BY <1>1 DEF Enumerates
  <1> HIDE DEF L, N
  <1>4. L <= N
    <2>1. CASE L = 0
      BY <1>0, <2>1
    <2>2. CASE L # 0
      <3>1. L \in 1..L
        BY <1>0, <2>2
      <3>2. q[L] >= L /\ q[L] \in 1..N
        BY <1>1, <1>2, <3>1
      <3> QED BY <1>0, <3>2
    <2> QED BY <2>1, <2>2
  \* From behind: the n-th last is at most the n-th last place.
  <1>5. ASSUME L = N PROVE \A n \in 1..L : q[n] = n
    <2> DEFINE T == {d \in Nat : d < L => q[L - d] = L - d}
    <2>1. 0 \in T
      <3>1. ASSUME 0 < L PROVE q[L] = L
        <4>1. L \in 1..L
          BY <1>0, <3>1
        <4>2. q[L] >= L /\ q[L] \in 1..L
          BY <1>1, <1>2, <1>5, <4>1
        <4> QED BY <1>0, <4>2
      <3> QED BY <1>0, <3>1
    <2>2. ASSUME NEW d \in Nat, d \in T PROVE d + 1 \in T
      <3> SUFFICES ASSUME d + 1 < L PROVE q[L - (d + 1)] = L - (d + 1)
        OBVIOUS
      <3> DEFINE n == L - (d + 1)
      <3>1. n \in 1..L /\ n + 1 \in 1..L /\ n + 1 = L - d /\ n < n + 1
        BY <1>0
      <3>2. q[n + 1] = n + 1
        <4>1. q[L - d] = L - d
          BY <1>0, <2>2
        <4> QED BY <3>1, <4>1
      <3> HIDE DEF n
      <3>3. q[n] < q[n + 1] /\ q[n] >= n
        BY <1>2, <1>3, <3>1
      <3>4. q[n] \in 1..N
        BY <1>1, <3>1
      <3>5. q[n] = n
        BY <3>1, <3>2, <3>3, <3>4
      <3> QED BY <3>5 DEF n
    <2>3. \A d \in Nat : d \in T
      <3> HIDE DEF T
      <3> QED BY <2>1, <2>2, ByInduction
    <2>4. ASSUME NEW n \in 1..L PROVE q[n] = n
      <3>1. L - n \in Nat /\ L - n < L /\ L - (L - n) = n
        BY <1>0
      <3>2. L - n \in T
        BY <2>3, <3>1
      <3>3. q[L - (L - n)] = L - (L - n)
        BY <3>1, <3>2
      <3> QED BY <3>1, <3>3
    <2> QED BY <2>4
  <1>6. ASSUME L = N PROVE w = v
    <2>1. Len(w) = Len(v) /\ w \in Seq(S) /\ v \in Seq(S)
      BY <1>1, <1>6 DEF N
    <2>2. \A n \in 1..Len(w) : w[n] = v[n]
      BY <1>1, <1>5, <1>6
    <2> QED BY <2>1, <2>2, SeqEqual
  <1>7. w = <<>> <=> P = {}
    <2>1. ASSUME w = <<>> PROVE P = {}
      <3>1. Len(q) = 0
        BY <1>1, <2>1 DEF L
      <3>2. \A x \in P : \E n \in 1..Len(q) : q[n] = x
        BY <1>1 DEF Enumerates
      <3> QED BY <3>1, <3>2
    <2>2. ASSUME P = {} PROVE w = <<>>
      <3>1. L = 0
        <4>1. 1..L = {}
          BY <1>1, <2>2
        <4> QED BY <1>0, <4>1
      <3> QED BY <1>1, <3>1
    <2> QED BY <2>1, <2>2
  <1>8. ASSUME P = 1..N PROVE L = N
    <2>1. CASE N = 0
      BY <1>0, <1>4, <2>1
    <2>2. CASE N # 0
      <3>1. N \in P
        BY <1>0, <1>8, <2>2
      <3>2. PICK n \in 1..Len(q) : q[n] = N
        BY <1>1, <3>1 DEF Enumerates
      <3> DEFINE T == {m \in Nat : m \in 1..L => q[m] <= m}
      <3>3. 0 \in T
        OBVIOUS
      \* No number is left out.
      <3>4. ASSUME NEW m \in Nat, m \in T PROVE m + 1 \in T
        <4> SUFFICES ASSUME m + 1 \in 1..L PROVE q[m + 1] <= m + 1
          OBVIOUS
        <4>0. q[m + 1] \in 1..N /\ q[m + 1] >= m + 1
          BY <1>1, <1>2
        <4>1. m + 1 \in P
          BY <1>0, <1>8, <4>0
        <4>2. PICK k \in 1..Len(q) : q[k] = m + 1
          BY <1>1, <4>1 DEF Enumerates
        <4>3. k \in 1..L /\ (k < m + 1 => q[k] <= m)
          <5>1. k \in 1..L
            BY <4>2 DEF L
          <5>2. ASSUME k < m + 1 PROVE q[k] <= m
            <6>1. CASE k = m
              BY <3>4, <5>1, <6>1
            <6>2. CASE k < m
              <7>1. m \in 1..L /\ q[m] <= m
                BY <1>0, <3>4, <5>1, <6>2
              <7>2. q[k] < q[m] /\ q[k] \in 1..N /\ q[m] \in 1..N
                BY <1>1, <1>3, <5>1, <6>2, <7>1
              <7> QED BY <7>1, <7>2
            <6> QED BY <1>0, <5>1, <5>2, <6>1, <6>2
          <5> QED BY <5>1, <5>2
        <4>4. k >= m + 1
          BY <1>0, <4>2, <4>3
        <4>5. m + 1 < k => q[m + 1] < q[k]
          BY <1>3, <4>3
        <4> QED BY <1>0, <4>0, <4>2, <4>3, <4>4, <4>5
      <3>5. n \in T /\ n \in 1..L
        <4>1. \A m \in Nat : m \in T
          <5> HIDE DEF T
          <5> QED BY <3>3, <3>4, ByInduction
        <4>2. n \in 1..L /\ n \in Nat
          BY <3>2 DEF L
        <4> QED BY <4>1, <4>2
      <3>6. q[n] <= n
        BY <3>5
      <3> QED BY <1>0, <1>4, <3>2, <3>5, <3>6
    <2> QED BY <2>1, <2>2
  <1>9. Len(w) = L /\ Len(v) = N
    BY <1>1 DEF N
  <1> QED BY <1>0, <1>4, <1>6, <1>7, <1>8, <1>9 DEF w, N

----
\* Merging a vector.
LEMMA IdsAre ==
  ASSUME NEW v \in Seq(Item)
  PROVE  /\ \A n \in 1..Len(v) : /\ v[n] \in Item /\ v[n].id \in Id /\ v[n].fq \in Int
                                 /\ v[n].id \in Nat /\ v[n].id \in IdsIn(v)
         /\ \A i \in IdsIn(v) : i \in Id /\ \E n \in 1..Len(v) : v[n].id = i
         /\ Len(v) \in Nat /\ DOMAIN v = 1..Len(v)
  <1>1. Len(v) \in Nat /\ DOMAIN v = 1..Len(v) /\ \A n \in 1..Len(v) : v[n] \in Item
    OBVIOUS
  <1>2. \A x \in Item : x.id \in Id /\ x.fq \in Int /\ x.id \in Nat
    BY IdAssumption DEF Item
  <1>3. \A n \in 1..Len(v) : v[n].id \in IdsIn(v)
    BY <1>1 DEF IdsIn
  <1>4. \A i \in IdsIn(v) : \E n \in 1..Len(v) : v[n].id = i
    BY <1>1 DEF IdsIn
  <1> QED BY <1>1, <1>2, <1>3, <1>4

LEMMA TotalType ==
  ASSUME NEW v \in Seq(Item), NEW i
  PROVE  Total(v, i) \in Int
  <1>1. Len(v) \in Nat /\ DOMAIN v = 1..Len(v) /\ \A n \in 1..Len(v) : v[n].fq \in Int
    BY IdsAre
  <1>2. [n \in 1..Len(v) |-> IF v[n].id = i THEN v[n].fq ELSE 0] \in Seq(Int)
    BY <1>1
  <1>3. SumUp([n \in DOMAIN v |-> IF v[n].id = i THEN v[n].fq ELSE 0]) \in Int
    BY <1>1, <1>2, SumType
  <1> QED BY <1>3 DEF Total

\* Ids are bounded.
LEMMA IdsBounded ==
  \E b \in Nat : \A K \in SUBSET Id : K \in SUBSET (1..b)
  <1>1. Id \in SUBSET Nat /\ IsFiniteSet(Id)
    BY IdAssumption
  <1>2. PICK b \in Nat : Id \subseteq 0..b
    BY <1>1, BoundIs
  <1>3. \A i \in Id : i \in 1..b
    <2> SUFFICES ASSUME NEW i \in Id PROVE i \in 1..b
      OBVIOUS
    <2>1. i \in 0..b /\ i # 0
      BY <1>2, IdAssumption
    <2> QED BY <2>1
  <1>4. \A K \in SUBSET Id : K \in SUBSET (1..b)
    BY <1>3
  <1> QED BY <1>4

LEMMA IdOrder ==
  ASSUME NEW K \in SUBSET Id
  PROVE  /\ Enumerates(Ascending(K), K) /\ Ascending(K) \in Seq(Id)
         /\ Len(Ascending(K)) \in Nat
         /\ \A n \in 1..Len(Ascending(K)) : Ascending(K)[n] \in K
         /\ \A q : Enumerates(q, K) => Ascending(K) = q
  <1>1. PICK b \in Nat : K \in SUBSET (1..b)
    BY IdsBounded
  <1>2. Enumerates(Ascending(K), K)
    BY <1>1, AscendingIs
  <1>3. \A q : Enumerates(q, K) => Ascending(K) = q
    BY <1>1, OrderIs
  <1>4. Ascending(K) \in Seq(K)
    BY <1>2 DEF Enumerates
  <1>5. Ascending(K) \in Seq(Id)
    BY <1>4, SeqMonotonic
  <1>6. Len(Ascending(K)) \in Nat /\ \A n \in 1..Len(Ascending(K)) : Ascending(K)[n] \in K
    BY <1>4
  <1> QED BY <1>2, <1>3, <1>5, <1>6

Kept(v, l) == {i \in IdsIn(v) : IsKept(Total(v, i), l)}
Sums(v, l) == {[id |-> i, fq |-> Total(v, i)] : i \in Kept(v, l)}

LEMMA MergeIs ==
  ASSUME NEW v \in Seq(Item), NEW l
  PROVE  /\ Merge(v, l) \in Seq(Item) /\ Ordered(Merge(v, l))
         /\ \A n \in 1..Len(Merge(v, l)) :
              /\ Merge(v, l)[n].id \in Kept(v, l)
              /\ Merge(v, l)[n].fq = Total(v, Merge(v, l)[n].id)
         /\ \A i \in Kept(v, l) : \E n \in 1..Len(Merge(v, l)) : Merge(v, l)[n].id = i
         /\ Len(Merge(v, l)) <= Len(v)
  <1> DEFINE K == Kept(v, l)
             q == Ascending(K)
             w == Merge(v, l)
             L == Len(q)
  <1>1. K \in SUBSET Id /\ K \subseteq IdsIn(v)
    BY IdsAre DEF Kept
  <1> HIDE DEF K
  <1>2. /\ Enumerates(q, K) /\ L \in Nat /\ q \in Seq(Id)
        /\ \A n \in 1..L : q[n] \in K
    BY <1>1, IdOrder
  <1>3. w = [n \in DOMAIN q |-> [id |-> q[n], fq |-> Total(v, q[n])]]
    BY DEF Merge, Listed, Kept, K
  <1> HIDE DEF q
  <1>4. DOMAIN q = 1..L
    BY <1>2
  <1>5. w = [n \in 1..L |-> [id |-> q[n], fq |-> Total(v, q[n])]]
    BY <1>3, <1>4
  <1> HIDE DEF L, w
  <1>6. \A n \in 1..L : /\ [id |-> q[n], fq |-> Total(v, q[n])] \in Item
                        /\ q[n] \in K
    <2> SUFFICES ASSUME NEW n \in 1..L
                 PROVE  [id |-> q[n], fq |-> Total(v, q[n])] \in Item /\ q[n] \in K
      OBVIOUS
    <2>1. q[n] \in K /\ q[n] \in Id
      BY <1>1, <1>2
    <2>2. Total(v, q[n]) \in Int
      BY TotalType
    <2> QED BY <2>1, <2>2 DEF Item
  <1>7. w \in Seq(Item) /\ Len(w) = L
    <2>1. [n \in 1..L |-> [id |-> q[n], fq |-> Total(v, q[n])]] \in Seq(Item)
      BY <1>2, <1>6
    <2>2. Len([n \in 1..L |-> [id |-> q[n], fq |-> Total(v, q[n])]]) = L
      BY <1>2
    <2> QED BY <1>5, <2>1, <2>2
  <1>8. \A n \in 1..L : w[n].id = q[n] /\ w[n].fq = Total(v, w[n].id) /\ w[n].id \in K
    BY <1>5, <1>6
  <1>9. Ordered(w)
    <2> SUFFICES ASSUME NEW m \in 1..L, NEW n \in 1..L, m < n PROVE w[m].id < w[n].id
      BY <1>7 DEF Ordered
    <2>1. q[m] < q[n]
      BY <1>2 DEF Enumerates, L
    <2>2. w[m].id = q[m] /\ w[n].id = q[n]
      BY <1>8
    <2> QED BY <2>1, <2>2
  <1>10. \A i \in K : \E n \in 1..L : w[n].id = i
    <2> SUFFICES ASSUME NEW i \in K PROVE \E n \in 1..L : w[n].id = i
      OBVIOUS
    <2>1. PICK n \in 1..L : q[n] = i
      BY <1>2 DEF Enumerates, L
    <2> QED BY <1>8, <2>1
  \* Different items have their ids from different places.
  <1>11. L <= Len(v)
    <2> DEFINE N == Len(v)
               f == [n \in 1..L |-> CHOOSE m \in 1..N : v[m].id = q[n]]
    <2>1. \A n \in 1..L : f[n] \in 1..N /\ v[f[n]].id = q[n]
      <3> SUFFICES ASSUME NEW n \in 1..L PROVE f[n] \in 1..N /\ v[f[n]].id = q[n]
        OBVIOUS
      <3>1. q[n] \in IdsIn(v)
        BY <1>1, <1>6
      <3>2. \E m \in 1..N : v[m].id = q[n]
        BY <3>1, IdsAre
      <3> QED BY <3>2
    <2>2. N \in Nat
      OBVIOUS
    <2>3. f \in [1..L -> 1..N]
      BY <2>1
    <2> HIDE DEF f, N
    <2>4. \A m, n \in 1..L : f[m] = f[n] => m = n
      <3> SUFFICES ASSUME NEW m \in 1..L, NEW n \in 1..L, f[m] = f[n] PROVE m = n
        OBVIOUS
      <3>1. q[m] = q[n]
        BY <2>1
      <3>2. q[m] \in Nat
        <4>1. q[m] \in Id
          BY <1>1, <1>2
        <4> QED BY <4>1, IdAssumption
      <3>3. (m < n => q[m] < q[n]) /\ (n < m => q[n] < q[m])
        BY <1>2 DEF Enumerates, L
      <3> QED BY <1>2, <3>1, <3>2, <3>3
    <2>5. f \in Injection(1..L, 1..N)
      BY <2>3, <2>4 DEF Injection, IsInjective
    <2>6. IsFiniteSet(1..N) /\ Cardinality(1..N) = N /\ Cardinality(1..L) = L
      <3>1. 1 \in Int /\ N \in Int /\ L \in Int
        BY <1>2, <2>2
      <3>2. /\ IsFiniteSet(1..N) /\ Cardinality(1..N) = IF 1 > N THEN 0 ELSE N - 1 + 1
            /\ Cardinality(1..L) = IF 1 > L THEN 0 ELSE L - 1 + 1
        BY <3>1, FS_Interval
      <3> QED BY <1>2, <2>2, <3>2
    <2>7. Cardinality(1..L) <= Cardinality(1..N)
      BY <2>5, <2>6, FS_Injection
    <2> QED BY <2>6, <2>7 DEF N
  <1> QED BY <1>7, <1>8, <1>9, <1>10, <1>11 DEF K, w

LEMMA MergeVals ==
  ASSUME NEW v \in Seq(Item), NEW l
  PROVE  Vals(Merge(v, l)) = Sums(v, l)
  <1> DEFINE w == Merge(v, l)
             K == Kept(v, l)
  <1>1. /\ w \in Seq(Item)
        /\ \A n \in 1..Len(w) : w[n].id \in K /\ w[n].fq = Total(v, w[n].id)
        /\ \A i \in K : \E n \in 1..Len(w) : w[n].id = i
    BY MergeIs
  <1> HIDE DEF w, K
  <1>2. \A n \in 1..Len(w) : w[n] = [id |-> w[n].id, fq |-> Total(v, w[n].id)]
    <2> SUFFICES ASSUME NEW n \in 1..Len(w) PROVE w[n] = [id |-> w[n].id, fq |-> Total(v, w[n].id)]
      OBVIOUS
    <2>1. w[n] \in Item
      BY <1>1
    <2>2. w[n].fq = Total(v, w[n].id)
      BY <1>1
    <2> QED BY <2>1, <2>2 DEF Item
  <1>3. ASSUME NEW x \in Vals(w) PROVE x \in Sums(v, l)
    <2>1. PICK n \in 1..Len(w) : x = w[n]
      BY DEF Vals
    <2>2. x = [id |-> x.id, fq |-> Total(v, x.id)] /\ x.id \in K
      BY <1>1, <1>2, <2>1
    <2> HIDE <2>1
    <2> QED BY <2>2 DEF Sums, K
  <1>4. ASSUME NEW i \in K PROVE [id |-> i, fq |-> Total(v, i)] \in Vals(w)
    <2>1. PICK n \in 1..Len(w) : w[n].id = i
      BY <1>1
    <2>2. w[n] = [id |-> i, fq |-> Total(v, i)] /\ w[n] \in Vals(w)
      BY <1>2, <2>1 DEF Vals
    <2> QED BY <2>2
  <1>5. \A x \in Sums(v, l) : x \in Vals(w)
    BY <1>4 DEF Sums, K
  <1> QED BY <1>3, <1>5 DEF w

----
\* Child vectors.
Bounded(k, v) == \A n \in 1..Len(v) : k.MinItem <= v[n].id /\ v[n].id <= k.MaxItem
KidOK(k) ==
  /\ k \in Child /\ Vec(k) \in Seq(Item) /\ k.Len = Len(Vec(k))
  /\ Ordered(Vec(k)) /\ Bounded(k, Vec(k)) /\ k.MinItem <= k.MaxItem
  /\ IF k.DirtyP THEN LoadedP(k) ELSE k.Disk = Vec(k)
Behind(kids) == \A c, d \in 1..Len(kids) : c < d => kids[c].MaxItem < kids[d].MinItem
Kids(kids) == kids \in Seq(Child) /\ Behind(kids) /\ \A c \in 1..Len(kids) : KidOK(kids[c])

LEMMA ChildIs ==
  ASSUME NEW k \in Child
  PROVE  /\ k.MinItem \in Id /\ k.MaxItem \in Id /\ k.MinItem \in Nat /\ k.MaxItem \in Nat
         /\ k.Len \in Nat /\ k.DirtyP \in BOOLEAN
         /\ k.Vec \in Seq(Item) \cup {NoVec} /\ k.Disk \in Seq(Item) \cup {NoVec}
  BY IdAssumption DEF Child

LEMMA ChangedIs ==
  ASSUME NEW k \in Child, NEW v \in Seq(Item)
  PROVE  /\ Changed(k, v) \in Child /\ LoadedP(Changed(k, v)) /\ Vec(Changed(k, v)) = v
         /\ Changed(k, v).Len = Len(v) /\ Changed(k, v).DirtyP = TRUE
         /\ Changed(k, v).MinItem = k.MinItem /\ Changed(k, v).MaxItem = k.MaxItem
  <1>1. Len(v) \in Nat
    OBVIOUS
  <1>2. /\ Changed(k, v) \in Child /\ Changed(k, v).Vec = v
        /\ Changed(k, v).Len = Len(v) /\ Changed(k, v).DirtyP = TRUE
        /\ Changed(k, v).MinItem = k.MinItem /\ Changed(k, v).MaxItem = k.MaxItem
    BY <1>1 DEF Changed, Child
  <1>3. v # NoVec
    BY NoVecAssumption
  <1>4. LoadedP(Changed(k, v)) /\ Vec(Changed(k, v)) = v
    BY <1>2, <1>3 DEF LoadedP, Vec
  <1> QED BY <1>2, <1>4

LEMMA Ends ==
  ASSUME NEW v \in Seq(Item), v # <<>>
  PROVE  /\ Len(v) \in Nat /\ 1 \in 1..Len(v) /\ Len(v) \in 1..Len(v)
         /\ v[1].id \in Id /\ Last(v).id \in Id /\ Last(v) = v[Len(v)]
         /\ v[1].id \in Nat /\ Last(v).id \in Nat
  <1>1. Len(v) \in Nat /\ Len(v) # 0
    OBVIOUS
  <1>2. 1 \in 1..Len(v) /\ Len(v) \in 1..Len(v)
    BY <1>1
  <1> QED BY <1>1, <1>2, IdsAre DEF Last

LEMMA OrderedEnds ==
  ASSUME NEW v \in Seq(Item), v # <<>>, Ordered(v)
  PROVE  /\ \A n \in 1..Len(v) : v[1].id <= v[n].id /\ v[n].id <= Last(v).id
         /\ v[1].id <= Last(v).id
  <1>1. \A n \in 1..Len(v) : v[1].id <= v[n].id /\ v[n].id <= Last(v).id
    <2> SUFFICES ASSUME NEW n \in 1..Len(v) PROVE v[1].id <= v[n].id /\ v[n].id <= v[Len(v)].id
      BY Ends
    <2>1. v[1].id \in Nat /\ v[n].id \in Nat /\ v[Len(v)].id \in Nat
      BY Ends, IdsAre
    <2>2. (1 < n => v[1].id < v[n].id) /\ (n < Len(v) => v[n].id < v[Len(v)].id)
      BY Ends DEF Ordered
    <2>3. (n = 1 \/ 1 < n) /\ (n = Len(v) \/ n < Len(v))
      BY Ends
    <2> QED BY <2>1, <2>2, <2>3
  <1>2. 1 \in 1..Len(v)
    BY Ends
  <1> QED BY <1>1, <1>2

LEMMA ReboundIs ==
  ASSUME NEW k \in Child, NEW v \in Seq(Item), v # <<>>, Ordered(v)
  PROVE  /\ KidOK(Rebound(k, v)) /\ Vec(Rebound(k, v)) = v
         /\ Rebound(k, v).Len = Len(v) /\ Rebound(k, v).DirtyP = TRUE
         /\ Rebound(k, v).MinItem = v[1].id /\ Rebound(k, v).MaxItem = Last(v).id
  <1> DEFINE r == Rebound(k, v)
             h == Changed(k, v)
  <1>1. h \in Child /\ h.Len = Len(v) /\ h.DirtyP = TRUE /\ LoadedP(h) /\ Vec(h) = v
    BY ChangedIs
  <1>2. r = [h EXCEPT !.MinItem = v[1].id, !.MaxItem = Last(v).id]
    BY DEF Rebound
  <1> HIDE DEF h, r
  <1>3. /\ r \in Child /\ r.Len = h.Len /\ r.DirtyP = h.DirtyP /\ r.Vec = h.Vec /\ r.Disk = h.Disk
        /\ r.MinItem = v[1].id /\ r.MaxItem = Last(v).id
    BY <1>1, <1>2, Ends DEF Child
  <1>4. LoadedP(r) /\ Vec(r) = v
    BY <1>1, <1>3 DEF LoadedP, Vec
  <1>5. Bounded(r, v) /\ r.MinItem <= r.MaxItem
    BY <1>3, OrderedEnds DEF Bounded
  <1> QED BY <1>1, <1>3, <1>4, <1>5 DEF KidOK, r

LEMMA EnlistedIs ==
  ASSUME NEW v \in Seq(Item), v # <<>>, Ordered(v)
  PROVE  /\ KidOK(Enlisted(v)) /\ Vec(Enlisted(v)) = v
         /\ Enlisted(v).Len = Len(v) /\ Enlisted(v).DirtyP = FALSE
         /\ Enlisted(v).MinItem = v[1].id /\ Enlisted(v).MaxItem = Last(v).id
  <1> DEFINE r == Enlisted(v)
  <1>1. /\ r \in Child /\ r.Len = Len(v) /\ r.DirtyP = FALSE /\ r.Vec = NoVec /\ r.Disk = v
        /\ r.MinItem = v[1].id /\ r.MaxItem = Last(v).id
    BY Ends DEF Enlisted, Child
  <1> HIDE DEF r
  <1>2. Vec(r) = v
    BY <1>1 DEF Vec, LoadedP
  <1>3. Bounded(r, v) /\ r.MinItem <= r.MaxItem
    BY <1>1, OrderedEnds DEF Bounded
  <1> QED BY <1>1, <1>2, <1>3 DEF KidOK, r

LEMMA LoadChildIs ==
  ASSUME NEW k, KidOK(k)
  PROVE  /\ KidOK(LoadChild(k)) /\ Vec(LoadChild(k)) = Vec(k)
         /\ LoadChild(k).Len = k.Len /\ LoadChild(k).DirtyP = k.DirtyP
         /\ LoadChild(k).MinItem = k.MinItem /\ LoadChild(k).MaxItem = k.MaxItem
         /\ LoadChild(k).Disk = k.Disk
  <1> DEFINE r == LoadChild(k)
             v == Vec(k)
  <1>1. k \in Child /\ v \in Seq(Item) /\ v # NoVec
    BY NoVecAssumption DEF KidOK
  <1>2. k.DirtyP \in BOOLEAN /\ (k.DirtyP => LoadedP(k))
    BY <1>1, ChildIs DEF KidOK
  <1>3. r = [k EXCEPT !.Vec = v, !.DirtyP = LoadedP(k) /\ k.DirtyP]
    BY <1>1 DEF LoadChild, Child
  <1>4. (LoadedP(k) /\ k.DirtyP) = k.DirtyP
    BY <1>2
  <1>5. r = [k EXCEPT !.Vec = v, !.DirtyP = k.DirtyP]
    BY <1>3, <1>4
  <1> HIDE DEF r, v
  <1>6. /\ r \in Child /\ r.Len = k.Len /\ r.DirtyP = k.DirtyP /\ r.Vec = v /\ r.Disk = k.Disk
        /\ r.MinItem = k.MinItem /\ r.MaxItem = k.MaxItem
    BY <1>1, <1>2, <1>5 DEF Child
  <1>7. LoadedP(r) /\ Vec(r) = v
    BY <1>1, <1>6 DEF LoadedP, Vec
  <1> QED BY <1>6, <1>7 DEF KidOK, Bounded, r, v

LEMMA SaveChildIs ==
  ASSUME NEW k, KidOK(k)
  PROVE  /\ KidOK(SaveChild(k)) /\ Vec(SaveChild(k)) = Vec(k)
         /\ SaveChild(k).Len = k.Len /\ SaveChild(k).DirtyP = FALSE
         /\ SaveChild(k).MinItem = k.MinItem /\ SaveChild(k).MaxItem = k.MaxItem
  <1> DEFINE r == SaveChild(k)
             v == Vec(k)
  <1>1. k \in Child /\ v \in Seq(Item) /\ v # NoVec
    BY NoVecAssumption DEF KidOK
  <1>2. k.DirtyP \in BOOLEAN /\ (k.DirtyP => LoadedP(k))
    BY <1>1, ChildIs DEF KidOK
  <1>3. CASE k.DirtyP
    <2>1. LoadedP(k) /\ v = k.Vec
      BY <1>2, <1>3 DEF Vec
    <2>2. r = [k EXCEPT !.DirtyP = FALSE, !.Disk = v]
      BY <1>3, <2>1 DEF SaveChild
    <2> HIDE DEF r, v
    <2>3. /\ r \in Child /\ r.Len = k.Len /\ r.DirtyP = FALSE /\ r.Vec = k.Vec /\ r.Disk = v
          /\ r.MinItem = k.MinItem /\ r.MaxItem = k.MaxItem
      BY <1>1, <2>2 DEF Child
    <2>4. Vec(r) = v
      BY <1>1, <2>1, <2>3 DEF LoadedP, Vec
    <2> QED BY <2>3, <2>4 DEF KidOK, Bounded, r, v
  <1>4. CASE ~k.DirtyP
    <2>1. r = k
      BY <1>4 DEF SaveChild
    <2>2. k.DirtyP = FALSE
      BY <1>2, <1>4
    <2> QED BY <2>1, <2>2
  <1> QED BY <1>3, <1>4

----
\* How much the children hold.
LEMMA SumLenIs ==
  ASSUME NEW kids \in Seq(Child)
  PROVE  /\ [c \in 1..Len(kids) |-> kids[c].Len] \in Seq(Nat)
         /\ [c \in 1..Len(kids) |-> kids[c].Len] \in Seq(Int)
         /\ Len([c \in 1..Len(kids) |-> kids[c].Len]) = Len(kids)
         /\ SumLen(kids) = SumUp([c \in 1..Len(kids) |-> kids[c].Len])
         /\ SumLen(kids) \in Nat
         /\ \A c \in 1..Len(kids) : kids[c].Len <= SumLen(kids)
  <1> DEFINE f == [c \in 1..Len(kids) |-> kids[c].Len]
  <1>1. Len(kids) \in Nat /\ DOMAIN kids = 1..Len(kids) /\ \A c \in 1..Len(kids) : kids[c].Len \in Nat
    BY ChildIs
  <1>2. f \in Seq(Nat) /\ Len(f) = Len(kids)
    BY <1>1
  <1>3. SumLen(kids) = SumUp(f)
    BY <1>1 DEF SumLen
  <1>4. \A c \in 1..Len(kids) : f[c] = kids[c].Len
    OBVIOUS
  <1> HIDE DEF f
  <1>5. f \in Seq(Int)
    BY <1>2, SeqMonotonic
  <1>6. SumUp(f) \in Nat /\ \A c \in 1..Len(f) : f[c] <= SumUp(f)
    BY <1>2, SumNat
  <1> QED BY <1>2, <1>3, <1>4, <1>5, <1>6 DEF f

LEMMA SumLenSame ==
  ASSUME NEW kids \in Seq(Child), NEW other \in Seq(Child), Len(other) = Len(kids),
         \A c \in 1..Len(kids) : other[c].Len = kids[c].Len
  PROVE  SumLen(other) = SumLen(kids)
  <1>1. [c \in 1..Len(kids) |-> kids[c].Len] = [c \in 1..Len(other) |-> other[c].Len]
    OBVIOUS
  <1> QED BY <1>1, SumLenIs

LEMMA SumLenConcat ==
  ASSUME NEW kids \in Seq(Child), NEW more \in Seq(Child)
  PROVE  SumLen(kids \o more) = SumLen(kids) + SumLen(more)
  <1> DEFINE f == [c \in 1..Len(kids) |-> kids[c].Len]
             g == [c \in 1..Len(more) |-> more[c].Len]
             a == kids \o more
             h == [c \in 1..Len(a) |-> a[c].Len]
  <1>1. /\ f \in Seq(Int) /\ g \in Seq(Int) /\ h \in Seq(Int)
        /\ Len(f) = Len(kids) /\ Len(g) = Len(more) /\ Len(h) = Len(a)
        /\ SumLen(kids) = SumUp(f) /\ SumLen(more) = SumUp(g) /\ SumLen(a) = SumUp(h)
    <2>1. f \in Seq(Int) /\ Len(f) = Len(kids) /\ SumLen(kids) = SumUp(f)
      BY SumLenIs
    <2>2. g \in Seq(Int) /\ Len(g) = Len(more) /\ SumLen(more) = SumUp(g)
      BY SumLenIs
    <2>3. a \in Seq(Child)
      OBVIOUS
    <2> HIDE DEF a, f, g
    <2>4. h \in Seq(Int) /\ Len(h) = Len(a) /\ SumLen(a) = SumUp(h)
      BY <2>3, SumLenIs
    <2> QED BY <2>1, <2>2, <2>4
  <1>2. a \in Seq(Child) /\ Len(a) = Len(kids) + Len(more) /\ Len(kids) \in Nat /\ Len(more) \in Nat
    OBVIOUS
  <1>3. h = f \o g
    <2>1. /\ \A c \in 1..Len(kids) : f[c] = kids[c].Len
          /\ \A c \in 1..Len(more) : g[c] = more[c].Len
          /\ \A c \in 1..Len(a) : h[c] = a[c].Len
      OBVIOUS
    <2>2. \A c \in 1..Len(a) : a[c] = IF c <= Len(kids) THEN kids[c] ELSE more[c - Len(kids)]
      OBVIOUS
    <2> HIDE DEF f, g, h, a
    <2>3. /\ f \o g \in Seq(Int) /\ Len(f \o g) = Len(h)
          /\ \A c \in 1..Len(h) : (f \o g)[c] = IF c <= Len(kids) THEN f[c] ELSE g[c - Len(kids)]
      <3>1. f \in Seq(Int) /\ g \in Seq(Int)
        BY <1>1
      <3>2. /\ f \o g \in Seq(Int) /\ Len(f \o g) = Len(f) + Len(g)
            /\ \A c \in 1..Len(f) + Len(g) : (f \o g)[c] = IF c <= Len(f) THEN f[c] ELSE g[c - Len(f)]
        BY <3>1, ConcatProperties
      <3>3. Len(h) = Len(f) + Len(g)
        BY <1>1, <1>2
      <3>4. Len(f \o g) = Len(h)
        BY <3>2, <3>3
      <3>5. \A c \in 1..Len(h) : (f \o g)[c] = IF c <= Len(f) THEN f[c] ELSE g[c - Len(f)]
        BY <3>2, <3>3
      <3>6. Len(f) = Len(kids)
        BY <1>1
      <3> QED BY <3>2, <3>4, <3>5, <3>6
    <2>4. \A c \in 1..Len(h) : h[c] = (f \o g)[c]
      <3> SUFFICES ASSUME NEW c \in 1..Len(h) PROVE h[c] = (f \o g)[c]
        OBVIOUS
      <3>1. h[c] = a[c].Len /\ c \in 1..Len(a)
        BY <1>1, <2>1
      <3>2. CASE c <= Len(kids)
        <4>1. c \in 1..Len(kids)
          BY <1>2, <3>1, <3>2
        <4> QED BY <2>1, <2>2, <2>3, <3>1, <3>2, <4>1
      <3>3. CASE ~(c <= Len(kids))
        <4>1. c - Len(kids) \in 1..Len(more)
          BY <1>2, <3>1, <3>3
        <4> QED BY <2>1, <2>2, <2>3, <3>1, <3>3, <4>1
      <3> QED BY <3>2, <3>3
    <2> DEFINE j == f \o g
    <2>5. j \in Seq(Int) /\ Len(h) = Len(j) /\ \A c \in 1..Len(h) : h[c] = j[c]
      BY <2>3, <2>4
    <2> HIDE DEF j
    <2>6. h = j
      BY <1>1, <2>5, SeqEqual
    <2> QED BY <2>6 DEF j
  <1> HIDE DEF f, g, h
  <1> QED BY <1>1, <1>3, SumConcat

LEMMA SumLenOne == ASSUME NEW k \in Child PROVE SumLen(<<k>>) = k.Len
  <1>1. <<k>> \in Seq(Child) /\ Len(<<k>>) = 1 /\ k.Len \in Nat
    BY ChildIs
  <1>2. [c \in 1..Len(<<k>>) |-> <<k>>[c].Len] = Append(<<>>, k.Len)
    <2>1. [c \in 1..1 |-> <<k>>[c].Len] = <<k.Len>>
      OBVIOUS
    <2> QED BY <1>1, <2>1
  <1>3. <<>> \in Seq(Int) /\ k.Len \in Int
    BY <1>1
  <1>4. SumUp(Append(<<>>, k.Len)) = SumUp(<<>>) + k.Len
    BY <1>3, SumAppend
  <1> DEFINE kids == <<k>>
             f == [c \in 1..Len(kids) |-> kids[c].Len]
             g == Append(<<>>, k.Len)
  <1>5. f = g
    BY <1>2
  <1>6. SumUp(g) = k.Len
    BY <1>1, <1>4, SumEmpty
  <1>7. kids \in Seq(Child)
    BY <1>1
  <1> HIDE DEF kids
  <1>8. SumLen(kids) = SumUp(f)
    BY <1>7, SumLenIs
  <1> HIDE DEF f, g
  <1> QED BY <1>5, <1>6, <1>8 DEF kids

LEMMA SumLenEmpty == SumLen(<<>>) = 0
  <1>1. [c \in DOMAIN <<>> |-> <<>>[c].Len] = <<>>
    OBVIOUS
  <1> QED BY <1>1, SumEmpty DEF SumLen

Rec == [ItemV : Seq(Item), ItemVDel : SUBSET Nat, ChildInfoV : Seq(Child), TotalCnt : Int,
        MergedP : BOOLEAN, DirtyP : BOOLEAN, DeleteMarkerP : BOOLEAN, Blobs : Int]
Markers(s) == s.ItemVDel \in SUBSET (1..Len(s.ItemV))
InKids(kids, x) == \E c \in 1..Len(kids) : x \in Vals(Vec(kids[c]))

LEMMA KidsAre ==
  ASSUME NEW kids, Kids(kids)
  PROVE  /\ Len(kids) \in Nat /\ DOMAIN kids = 1..Len(kids)
         /\ \A c \in 1..Len(kids) : /\ kids[c] \in Child /\ KidOK(kids[c])
                                    /\ kids[c].MinItem \in Nat /\ kids[c].MaxItem \in Nat
                                    /\ kids[c].MinItem <= kids[c].MaxItem
         /\ \A c, d \in 1..Len(kids) : c < d => /\ kids[c].MaxItem < kids[d].MinItem
                                                /\ kids[c].MaxItem < kids[d].MaxItem
  <1>1. Len(kids) \in Nat /\ DOMAIN kids = 1..Len(kids)
    BY DEF Kids
  <1>2. ASSUME NEW c \in 1..Len(kids)
        PROVE  /\ kids[c] \in Child /\ KidOK(kids[c])
               /\ kids[c].MinItem \in Nat /\ kids[c].MaxItem \in Nat
               /\ kids[c].MinItem <= kids[c].MaxItem
    <2>1. KidOK(kids[c])
      BY DEF Kids
    <2>2. kids[c] \in Child /\ kids[c].MinItem <= kids[c].MaxItem
      BY <2>1 DEF KidOK
    <2> QED BY <2>1, <2>2, ChildIs
  <1>3. ASSUME NEW c \in 1..Len(kids), NEW d \in 1..Len(kids), c < d
        PROVE  kids[c].MaxItem < kids[d].MinItem /\ kids[c].MaxItem < kids[d].MaxItem
    <2>1. kids[c].MaxItem < kids[d].MinItem
      BY <1>3 DEF Kids, Behind
    <2>2. kids[d].MinItem <= kids[d].MaxItem /\ kids[c].MaxItem \in Nat
          /\ kids[d].MinItem \in Nat /\ kids[d].MaxItem \in Nat
      BY <1>2
    <2> QED BY <2>1, <2>2
  <1> QED BY <1>1, <1>2, <1>3

LEMMA KidIs ==
  ASSUME NEW k, KidOK(k)
  PROVE  /\ k \in Child /\ Vec(k) \in Seq(Item) /\ k.Len = Len(Vec(k)) /\ Ordered(Vec(k))
         /\ \A n \in 1..Len(Vec(k)) : /\ Vec(k)[n].id \in Nat
                                      /\ k.MinItem <= Vec(k)[n].id /\ Vec(k)[n].id <= k.MaxItem
         /\ \A x \in Vals(Vec(k)) : /\ x \in Item /\ x.id \in Nat
                                    /\ k.MinItem <= x.id /\ x.id <= k.MaxItem
  <1>1. k \in Child /\ Vec(k) \in Seq(Item) /\ k.Len = Len(Vec(k)) /\ Ordered(Vec(k))
    BY DEF KidOK
  <1>2. \A n \in 1..Len(Vec(k)) : Vec(k)[n].id \in Nat /\ Vec(k)[n] \in Item
    BY <1>1, IdsAre
  <1>3. \A n \in 1..Len(Vec(k)) : k.MinItem <= Vec(k)[n].id /\ Vec(k)[n].id <= k.MaxItem
    BY DEF KidOK, Bounded
  <1>4. \A x \in Vals(Vec(k)) : \E n \in 1..Len(Vec(k)) : x = Vec(k)[n]
    BY DEF Vals
  <1> QED BY <1>1, <1>2, <1>3, <1>4

LEMMA WithoutIs ==
  ASSUME NEW k, KidOK(k), NEW D
  PROVE  /\ KidOK(WithoutItems(k, D))
         /\ WithoutItems(k, D).MinItem = k.MinItem /\ WithoutItems(k, D).MaxItem = k.MaxItem
         /\ WithoutItems(k, D).DirtyP \/ WithoutItems(k, D) = k
         /\ \A x : x \in Vals(Vec(WithoutItems(k, D))) <=> x \in Vals(Vec(k)) /\ x.id \notin D
  <1>1. CASE D = {}
    BY <1>1 DEF WithoutItems
  <1>2. CASE D # {}
    <2> DEFINE v == Vec(k)
               P == {n \in 1..Len(v) : v[n].id \notin D}
               w == PickedFrom(v, P)
               r == Changed(k, w)
    <2>1. k \in Child /\ v \in Seq(Item) /\ Ordered(v)
      BY KidIs
    <2>2. WithoutItems(k, D) = r
      <3>1. DOMAIN v = 1..Len(v)
        BY <2>1
      <3>2. PickedFrom(v, {n \in DOMAIN v : v[n].id \notin D}) = w
        BY <3>1
      <3> QED BY <1>2, <3>2 DEF WithoutItems, Without
    <2>3. P \in SUBSET (1..Len(v))
      OBVIOUS
    <2>4. \A n \in P : v[n].id \notin D /\ k.MinItem <= v[n].id /\ v[n].id <= k.MaxItem
      BY KidIs
    <2>5. \A n \in 1..Len(v) : v[n].id \notin D => n \in P
      OBVIOUS
    <2> HIDE DEF P, v
    <2>6. /\ w \in Seq(Item)
          /\ \A n \in 1..Len(w) : \E m \in P : w[n] = v[m]
          /\ \A m \in P : \E n \in 1..Len(w) : w[n] = v[m]
      BY <2>1, <2>3, PickedVals
    <2>7. Ordered(w)
      BY <2>1, <2>3, PickedOrdered
    <2> HIDE DEF w
    <2>8. /\ r \in Child /\ LoadedP(r) /\ Vec(r) = w /\ r.Len = Len(w) /\ r.DirtyP = TRUE
          /\ r.MinItem = k.MinItem /\ r.MaxItem = k.MaxItem
      BY <2>1, <2>6, ChangedIs
    <2>9. \A n \in 1..Len(w) : k.MinItem <= w[n].id /\ w[n].id <= k.MaxItem
      BY <2>4, <2>6
    <2>10. k.MinItem <= k.MaxItem
      BY DEF KidOK
    <2> HIDE DEF r
    <2>11. KidOK(r)
      BY <2>6, <2>7, <2>8, <2>9, <2>10 DEF KidOK, Bounded
    <2>12. ASSUME NEW x, x \in Vals(w) PROVE x \in Vals(v) /\ x.id \notin D
      <3>1. PICK n \in 1..Len(w) : x = w[n]
        BY <2>12 DEF Vals
      <3>2. PICK m \in P : w[n] = v[m]
        BY <2>6
      <3>3. m \in 1..Len(v) /\ v[m].id \notin D
        BY <2>3, <2>4
      <3> QED BY <3>1, <3>2, <3>3 DEF Vals
    <2>13. ASSUME NEW x, x \in Vals(v), x.id \notin D PROVE x \in Vals(w)
      <3>1. PICK m \in 1..Len(v) : x = v[m]
        BY <2>13 DEF Vals
      <3>2. m \in P
        BY <2>5, <2>13, <3>1
      <3>3. PICK n \in 1..Len(w) : w[n] = v[m]
        BY <2>6, <3>2
      <3> QED BY <3>1, <3>3 DEF Vals
    <2> QED BY <2>2, <2>8, <2>11, <2>12, <2>13 DEF v
  <1> QED BY <1>1, <1>2

----
\* Executing the deletes.
Survivors(s) == {n \in 1..Len(s.ItemV) : Outlives(s, n)}

LEMMA DeletesAre ==
  ASSUME NEW s \in Rec, Kids(s.ChildInfoV), Markers(s)
  PROVE  LET r == ProcessDeletes(s)
             kids == s.ChildInfoV
         IN  /\ r \in Rec /\ Kids(r.ChildInfoV) /\ Len(r.ChildInfoV) = Len(kids)
             /\ r.Blobs = s.Blobs /\ r.ItemVDel = {} /\ r.MergedP = s.MergedP
             /\ r.DeleteMarkerP = s.DeleteMarkerP
             /\ r.ItemV = PickedFrom(s.ItemV, Survivors(s))
             /\ \A c \in 1..Len(kids) : r.ChildInfoV[c].DirtyP \/ r.ChildInfoV[c] = kids[c]
             /\ \A c \in 1..Len(kids) :
                  \A x : x \in Vals(Vec(r.ChildInfoV[c])) <=>
                           x \in Vals(Vec(kids[c])) /\ ~IsMarked(s, x.id)
  <1> DEFINE r == ProcessDeletes(s)
             kids == s.ChildInfoV
             v == s.ItemV
  <1>0. /\ v \in Seq(Item) /\ Survivors(s) \in SUBSET (1..Len(v)) /\ DOMAIN v = 1..Len(v)
        /\ s.ItemVDel \in SUBSET Nat
    BY DEF Rec, Survivors
  <1>1. CASE s.ItemVDel = {}
    <2>1. r = s
      BY <1>1 DEF ProcessDeletes
    <2>2. Survivors(s) = 1..Len(v)
      BY <1>1 DEF Survivors, Outlives
    <2>3. PickedFrom(v, Survivors(s)) = v
      BY <1>0, <2>2, PickedShort
    <2>4. \A i : ~IsMarked(s, i)
      BY <1>1 DEF IsMarked
    <2>5. r.ItemV = PickedFrom(s.ItemV, Survivors(s)) /\ s.ItemVDel = {}
      BY <1>1, <2>1, <2>3
    <2> QED BY <2>1, <2>4, <2>5
  <1>2. CASE s.ItemVDel # {}
    <2> DEFINE D(c) == {i \in {v[d].id : d \in s.ItemVDel} : HoldsDeleted(s, c, i)}
               kk == [c \in 1..Len(kids) |-> WithoutItems(kids[c], D(c))]
               w == PickedFrom(v, Survivors(s))
    <2>0. DOMAIN kids = 1..Len(kids) /\ Len(kids) \in Nat
      BY KidsAre
    <2>1. r = [s EXCEPT !.ItemV = w, !.ItemVDel = {}, !.DirtyP = TRUE, !.ChildInfoV = kk]
      <3>1. {n \in DOMAIN v : Outlives(s, n)} = Survivors(s)
        BY <1>0 DEF Survivors
      <3>2. r = [s EXCEPT !.ItemV = PickedFrom(@, {n \in DOMAIN @ : Outlives(s, n)}),
                          !.ItemVDel = {}, !.DirtyP = TRUE,
                          !.ChildInfoV = [c \in DOMAIN @ |-> WithoutItems(@[c], D(c))]]
        BY <1>2 DEF ProcessDeletes
      <3>3. r = [s EXCEPT !.ItemV = PickedFrom(v, {n \in DOMAIN v : Outlives(s, n)}),
                          !.ItemVDel = {}, !.DirtyP = TRUE,
                          !.ChildInfoV = [c \in DOMAIN kids |-> WithoutItems(kids[c], D(c))]]
        BY <3>2 DEF Rec
      <3> QED BY <2>0, <3>1, <3>3
    <2>2. \A c \in 1..Len(kids) :
            /\ KidOK(kk[c]) /\ kk[c] \in Child
            /\ kk[c].MinItem = kids[c].MinItem /\ kk[c].MaxItem = kids[c].MaxItem
            /\ kk[c].DirtyP \/ kk[c] = kids[c]
            /\ \A x : x \in Vals(Vec(kk[c])) <=> x \in Vals(Vec(kids[c])) /\ x.id \notin D(c)
      <3> SUFFICES ASSUME NEW c \in 1..Len(kids)
                   PROVE  /\ KidOK(kk[c]) /\ kk[c] \in Child
                          /\ kk[c].MinItem = kids[c].MinItem /\ kk[c].MaxItem = kids[c].MaxItem
                          /\ kk[c].DirtyP \/ kk[c] = kids[c]
                          /\ \A x : x \in Vals(Vec(kk[c])) <=>
                                      x \in Vals(Vec(kids[c])) /\ x.id \notin D(c)
        OBVIOUS
      <3>1. kk[c] = WithoutItems(kids[c], D(c)) /\ KidOK(kids[c])
        BY KidsAre
      <3> HIDE DEF kk, D
      <3>2. KidOK(kk[c]) => kk[c] \in Child
        BY DEF KidOK
      <3> QED BY <3>1, <3>2, WithoutIs
    <2>3. ASSUME NEW c \in 1..Len(kids), NEW x \in Vals(Vec(kids[c]))
          PROVE  x.id \in D(c) <=> IsMarked(s, x.id)
      <3>1. KidOK(kids[c])
        BY KidsAre
      <3>2. /\ kids[c].MinItem <= x.id /\ x.id <= kids[c].MaxItem
            /\ x.id \in Nat
        BY <3>1, KidIs
      <3>3. ASSUME NEW d \in 1..c - 1 PROVE x.id > kids[d].MaxItem
        <4>1. d \in 1..Len(kids) /\ d < c
          BY <2>0
        <4>2. kids[d].MaxItem < kids[c].MinItem /\ kids[d].MaxItem \in Nat /\ kids[c].MinItem \in Nat
          BY <4>1, KidsAre
        <4> QED BY <3>2, <4>2
      <3>4. HoldsDeleted(s, c, x.id)
        BY <3>2, <3>3 DEF HoldsDeleted
      <3>5. x.id \in {v[d].id : d \in s.ItemVDel} <=> IsMarked(s, x.id)
        BY DEF IsMarked
      <3> QED BY <3>4, <3>5
    <2>4. Len(kk) = Len(kids)
      BY <2>0
    <2> HIDE DEF D, kk
    <2>5. kk \in Seq(Child)
      <3>1. kk = [c \in 1..Len(kids) |-> WithoutItems(kids[c], D(c))]
        BY DEF kk
      <3>2. \A c \in 1..Len(kids) : WithoutItems(kids[c], D(c)) \in Child
        BY <2>2, <3>1
      <3> QED BY <2>0, <3>1, <3>2
    <2>6. Kids(kk)
      <3>1. Behind(kk)
        <4> SUFFICES ASSUME NEW c \in 1..Len(kids), NEW d \in 1..Len(kids), c < d
                     PROVE  kk[c].MaxItem < kk[d].MinItem
          BY <2>4 DEF Behind
        <4>1. kids[c].MaxItem < kids[d].MinItem
          BY KidsAre
        <4> QED BY <2>2, <4>1
      <3> QED BY <2>2, <2>4, <2>5, <3>1 DEF Kids
    <2>7. w \in Seq(Item)
      BY <1>0, PickedVals
    <2> HIDE DEF w, r
    <2>8. /\ r \in Rec /\ r.ChildInfoV = kk /\ r.ItemV = w /\ r.ItemVDel = {}
          /\ r.Blobs = s.Blobs /\ r.MergedP = s.MergedP /\ r.DeleteMarkerP = s.DeleteMarkerP
      BY <2>1, <2>5, <2>7 DEF Rec
    <2>9. \A c \in 1..Len(kids) :
            \A x : x \in Vals(Vec(kk[c])) <=> x \in Vals(Vec(kids[c])) /\ ~IsMarked(s, x.id)
      BY <2>2, <2>3
    <2>10. \A c \in 1..Len(kids) : kk[c].DirtyP \/ kk[c] = kids[c]
      BY <2>2
    <2>11. /\ r \in Rec /\ Kids(r.ChildInfoV) /\ Len(r.ChildInfoV) = Len(kids)
           /\ r.Blobs = s.Blobs /\ r.ItemVDel = {} /\ r.MergedP = s.MergedP
           /\ r.DeleteMarkerP = s.DeleteMarkerP
           /\ r.ItemV = PickedFrom(s.ItemV, Survivors(s))
      BY <2>4, <2>6, <2>8 DEF w
    <2>12. \A c \in 1..Len(kids) : r.ChildInfoV[c].DirtyP \/ r.ChildInfoV[c] = kids[c]
      BY <2>8, <2>10
    <2>13. \A c \in 1..Len(kids) :
             \A x : x \in Vals(Vec(r.ChildInfoV[c])) <=>
                      x \in Vals(Vec(kids[c])) /\ ~IsMarked(s, x.id)
      BY <2>8, <2>9
    <2> QED BY <2>11, <2>12, <2>13 DEF r
  <1> QED BY <1>1, <1>2

----
\* Moving the buffer into the children.
Belongs(kids, c, i) ==
  i <= kids[c].MaxItem /\ \A d \in 1..Len(kids) : d < c => kids[d].MaxItem < i
Beyond(kids, v) == \A c \in 1..Len(kids) : \A n \in 1..Len(v) : kids[c].MaxItem < v[n].id

LEMMA BelongsIs ==
  ASSUME NEW kids, Kids(kids), NEW i \in Nat
  PROVE  /\ \A c, d \in 1..Len(kids) : Belongs(kids, c, i) /\ Belongs(kids, d, i) => c = d
         /\ (\A c \in 1..Len(kids) : ~Belongs(kids, c, i)) =>
              \A c \in 1..Len(kids) : kids[c].MaxItem < i
  <1>1. /\ Len(kids) \in Nat
        /\ \A c \in 1..Len(kids) : kids[c].MaxItem \in Nat
    BY KidsAre
  <1>2. ASSUME NEW c \in 1..Len(kids), NEW d \in 1..Len(kids),
               Belongs(kids, c, i), Belongs(kids, d, i)
        PROVE  c = d
    <2>1. c < d => kids[c].MaxItem < i
      BY <1>2 DEF Belongs
    <2>2. d < c => kids[d].MaxItem < i
      BY <1>2 DEF Belongs
    <2>3. i <= kids[c].MaxItem /\ i <= kids[d].MaxItem /\ kids[c].MaxItem \in Nat
          /\ kids[d].MaxItem \in Nat
      BY <1>1, <1>2 DEF Belongs
    <2> QED BY <2>1, <2>2, <2>3
  <1>3. ASSUME NEW e \in 1..Len(kids), ~(kids[e].MaxItem < i)
        PROVE  \E c \in 1..Len(kids) : Belongs(kids, c, i)
    <2> DEFINE E == {c \in 1..Len(kids) : ~(kids[c].MaxItem < i)}
    <2>1. E \in SUBSET Nat /\ e \in E
      BY <1>3
    <2> HIDE DEF E
    <2>2. PICK c \in E : \A d \in E : c <= d
      BY <2>1, LeastIs
    <2>3. c \in 1..Len(kids) /\ ~(kids[c].MaxItem < i) /\ kids[c].MaxItem \in Nat
      BY <1>1 DEF E
    <2>4. ASSUME NEW d \in 1..Len(kids), d < c PROVE kids[d].MaxItem < i
      <3>1. d \notin E
        BY <2>2, <2>3, <2>4
      <3> QED BY <3>1 DEF E
    <2>5. i <= kids[c].MaxItem
      BY <2>3
    <2> QED BY <2>3, <2>4, <2>5 DEF Belongs
  <1> QED BY <1>2, <1>3

LEMMA TakesIs ==
  ASSUME NEW s \in Rec, Kids(s.ChildInfoV), s.ChildInfoV # <<>>, s.ItemV # <<>>,
         Ordered(s.ItemV)
  PROVE  \A n \in 1..Len(s.ItemV), c \in 1..Len(s.ChildInfoV) :
           Takes(s, c, s.ItemV[n]) <=> Belongs(s.ChildInfoV, c, s.ItemV[n].id)
  <1> DEFINE kids == s.ChildInfoV
             v == s.ItemV
             N == Len(kids)
             A == {c \in DOMAIN kids : c = 1 \/ v[1].id >= kids[c].MinItem}
             f == FirstChild(s)
  <1>1. N \in Nat /\ N # 0 /\ DOMAIN kids = 1..N /\ v \in Seq(Item) /\ kids \in Seq(Child)
    BY KidsAre DEF Rec
  <1>2. A \in SUBSET (0..N) /\ 1 \in A
    BY <1>1
  <1>3. f \in A
    <2>1. f = Max(A)
      BY DEF FirstChild
    <2> HIDE DEF A, f
    <2> QED BY <1>1, <1>2, <2>1, MaxIs
  <1>4. f \in 1..N /\ (f = 1 \/ v[1].id >= kids[f].MinItem)
    BY <1>1, <1>3
  <1> HIDE DEF f, A
  <1> TAKE n \in 1..Len(v), c \in 1..N
  <1>5. v[1].id <= v[n].id /\ v[1].id \in Nat /\ v[n].id \in Nat
    BY <1>1, OrderedEnds, Ends, IdsAre
  <1>6. \A d \in 1..N : /\ kids[d].MaxItem \in Nat /\ kids[d].MinItem \in Nat
                        /\ (d < f => kids[d].MaxItem < kids[f].MinItem)
    BY <1>4, KidsAre
  <1>7. \A d \in 1..N : d < f => kids[d].MaxItem < v[n].id
    <2> SUFFICES ASSUME NEW d \in 1..N, d < f PROVE kids[d].MaxItem < v[n].id
      OBVIOUS
    <2>1. f # 1
      BY <1>4
    <2>2. v[1].id >= kids[f].MinItem /\ kids[f].MinItem \in Nat
      BY <1>4, <1>6, <2>1
    <2>3. kids[d].MaxItem < kids[f].MinItem /\ kids[d].MaxItem \in Nat
      BY <1>6
    <2> QED BY <1>5, <2>2, <2>3, SMTT(30)
  <1>8. Takes(s, c, v[n]) <=> /\ v[n].id <= kids[c].MaxItem /\ c >= f
                              /\ \A d \in f..c - 1 : v[n].id > kids[d].MaxItem
    BY DEF Takes, f
  <1>9. ASSUME Takes(s, c, v[n]) PROVE Belongs(kids, c, v[n].id)
    <2>1. v[n].id <= kids[c].MaxItem /\ \A d \in f..c - 1 : v[n].id > kids[d].MaxItem
      BY <1>8, <1>9
    <2>2. ASSUME NEW d \in 1..N, d < c PROVE kids[d].MaxItem < v[n].id
      <3>1. CASE d < f
        BY <1>7, <3>1
      <3>2. CASE ~(d < f)
        <4>1. d \in f..c - 1
          BY <1>1, <1>4, <2>2, <3>2
        <4>2. v[n].id > kids[d].MaxItem /\ kids[d].MaxItem \in Nat
          BY <1>6, <2>1, <4>1
        <4> QED BY <1>5, <4>2
      <3> QED BY <3>1, <3>2
    <2> QED BY <2>1, <2>2 DEF Belongs
  <1>10. ASSUME Belongs(kids, c, v[n].id) PROVE Takes(s, c, v[n])
    <2>1. v[n].id <= kids[c].MaxItem /\ \A d \in 1..N : d < c => kids[d].MaxItem < v[n].id
      BY <1>10 DEF Belongs
    <2>2. c >= f
      <3>1. ~(c < f)
        <4>1. c < f => kids[c].MaxItem < v[n].id
          BY <1>7
        <4>2. kids[c].MaxItem \in Nat
          BY <1>6
        <4> QED BY <1>5, <2>1, <4>1, <4>2
      <3> QED BY <1>1, <1>4, <3>1
    <2>3. ASSUME NEW d \in f..c - 1 PROVE v[n].id > kids[d].MaxItem
      <3>1. d \in 1..N /\ d < c
        BY <1>1, <1>4
      <3>2. kids[d].MaxItem < v[n].id /\ kids[d].MaxItem \in Nat
        BY <1>6, <2>1, <3>1
      <3> QED BY <1>5, <3>2
    <2> QED BY <1>8, <2>1, <2>2, <2>3
  <1> QED BY <1>9, <1>10

LEMMA ConcatIds ==
  ASSUME NEW v \in Seq(Item), NEW w \in Seq(Item)
  PROVE  /\ v \o w \in Seq(Item)
         /\ \A i \in IdsIn(v \o w) : i \in IdsIn(v) \/ i \in IdsIn(w)
         /\ \A i : i \in IdsIn(v) \/ i \in IdsIn(w) => i \in IdsIn(v \o w)
  <1> DEFINE u == v \o w
  <1>1. /\ u \in Seq(Item) /\ Len(u) = Len(v) + Len(w) /\ Len(v) \in Nat /\ Len(w) \in Nat
        /\ \A n \in 1..Len(v) + Len(w) : u[n] = IF n <= Len(v) THEN v[n] ELSE w[n - Len(v)]
    BY ConcatProperties
  <1> HIDE DEF u
  <1>2. ASSUME NEW i \in IdsIn(u) PROVE i \in IdsIn(v) \/ i \in IdsIn(w)
    <2>1. PICK n \in 1..Len(u) : u[n].id = i
      BY <1>1, IdsAre
    <2>2. CASE n <= Len(v)
      <3>1. n \in 1..Len(v) /\ u[n] = v[n]
        BY <1>1, <2>2
      <3>2. v[n].id \in IdsIn(v)
        BY <3>1, IdsAre
      <3> QED BY <2>1, <3>1, <3>2
    <2>3. CASE ~(n <= Len(v))
      <3>1. n - Len(v) \in 1..Len(w) /\ u[n] = w[n - Len(v)]
        BY <1>1, <2>3
      <3>2. w[n - Len(v)].id \in IdsIn(w)
        BY <3>1, IdsAre
      <3> QED BY <2>1, <3>1, <3>2
    <2> QED BY <2>2, <2>3
  <1>3. ASSUME NEW i \in IdsIn(v) PROVE i \in IdsIn(u)
    <2>1. PICK n \in 1..Len(v) : v[n].id = i
      BY IdsAre
    <2>2. n \in 1..Len(u) /\ u[n] = v[n]
      BY <1>1
    <2>3. u[n].id \in IdsIn(u)
      BY <1>1, <2>2, IdsAre
    <2> QED BY <2>1, <2>2, <2>3
  <1>4. ASSUME NEW i \in IdsIn(w) PROVE i \in IdsIn(u)
    <2>1. PICK n \in 1..Len(w) : w[n].id = i
      BY IdsAre
    <2>2. n + Len(v) \in 1..Len(u) /\ u[n + Len(v)] = w[n]
      <3> DEFINE m == n + Len(v)
      <3>1. m \in 1..Len(v) + Len(w) /\ ~(m <= Len(v)) /\ m - Len(v) = n
        BY <1>1
      <3> HIDE DEF m
      <3>2. u[m] = w[m - Len(v)]
        BY <1>1, <3>1
      <3> QED BY <1>1, <3>1, <3>2 DEF m
    <2>3. u[n + Len(v)].id \in IdsIn(u)
      BY <1>1, <2>2, IdsAre
    <2> QED BY <2>1, <2>2, <2>3
  <1> QED BY <1>1, <1>2, <1>3, <1>4 DEF u

LEMMA InjectedIs ==
  ASSUME NEW k, KidOK(k), NEW w \in Seq(Item),
         \A n \in 1..Len(w) : w[n].id <= k.MaxItem
  PROVE  /\ KidOK(Injected(k, w)) /\ Injected(k, w).DirtyP = TRUE
         /\ Vec(Injected(k, w)) = Merge(Vec(k) \o w, FALSE)
         /\ Injected(k, w).MaxItem <= k.MaxItem
         /\ \/ Injected(k, w).MinItem >= k.MinItem
            \/ \E n \in 1..Len(w) : Injected(k, w).MinItem = w[n].id
  <1> DEFINE v == Vec(k)
             u == Merge(v \o w, FALSE)
             r == Injected(k, w)
  <1>1. /\ k \in Child /\ v \in Seq(Item) /\ k.MinItem <= k.MaxItem
        /\ k.MinItem \in Nat /\ k.MaxItem \in Nat
        /\ \A n \in 1..Len(v) : v[n].id \in Nat /\ k.MinItem <= v[n].id /\ v[n].id <= k.MaxItem
    <2>1. k \in Child /\ k.MinItem <= k.MaxItem
      BY DEF KidOK
    <2> QED BY <2>1, KidIs, ChildIs
  <1> HIDE DEF v
  <1>2. v \o w \in Seq(Item) /\ \A i \in IdsIn(v \o w) : i \in IdsIn(v) \/ i \in IdsIn(w)
    BY <1>1, ConcatIds
  <1>3. /\ u \in Seq(Item) /\ Ordered(u)
        /\ \A n \in 1..Len(u) : u[n].id \in Kept(v \o w, FALSE)
    <2> DEFINE y == v \o w
    <2>1. y \in Seq(Item)
      BY <1>2
    <2> HIDE DEF y
    <2>2. /\ Merge(y, FALSE) \in Seq(Item) /\ Ordered(Merge(y, FALSE))
          /\ \A n \in 1..Len(Merge(y, FALSE)) : Merge(y, FALSE)[n].id \in Kept(y, FALSE)
      BY <2>1, MergeIs
    <2> QED BY <2>2 DEF y
  <1>4. \A n \in 1..Len(u) : u[n].id \in IdsIn(v) \/ u[n].id \in IdsIn(w)
    BY <1>2, <1>3 DEF Kept
  <1>5. r = TakenIn(k, u)
    BY DEF Injected, v
  <1> HIDE DEF u, r
  <1>6. \A n \in 1..Len(u) : /\ u[n].id <= k.MaxItem /\ u[n].id \in Nat
                             /\ \/ u[n].id >= k.MinItem
                                \/ \E m \in 1..Len(w) : u[n].id = w[m].id
    <2> SUFFICES ASSUME NEW n \in 1..Len(u)
                 PROVE  /\ u[n].id <= k.MaxItem /\ u[n].id \in Nat
                        /\ \/ u[n].id >= k.MinItem
                           \/ \E m \in 1..Len(w) : u[n].id = w[m].id
      OBVIOUS
    <2>0. u[n].id \in Nat
      BY <1>3, IdsAre
    <2>1. CASE u[n].id \in IdsIn(v)
      <3>1. PICK m \in 1..Len(v) : v[m].id = u[n].id
        BY <1>1, <2>1, IdsAre
      <3>2. k.MinItem <= v[m].id /\ v[m].id <= k.MaxItem
        BY <1>1
      <3> QED BY <1>1, <2>0, <3>1, <3>2
    <2>2. CASE u[n].id \in IdsIn(w)
      <3>1. PICK m \in 1..Len(w) : w[m].id = u[n].id
        BY <2>2, IdsAre
      <3>2. w[m].id <= k.MaxItem
        OBVIOUS
      <3> QED BY <2>0, <3>1, <3>2
    <2> QED BY <1>4, <2>1, <2>2
  <1>7. CASE u = <<>>
    <2>1. r = Changed(k, u)
      BY <1>5, <1>7 DEF TakenIn
    <2>2. /\ r \in Child /\ LoadedP(r) /\ Vec(r) = u /\ r.Len = Len(u) /\ r.DirtyP = TRUE
          /\ r.MinItem = k.MinItem /\ r.MaxItem = k.MaxItem
      BY <1>1, <1>3, <2>1, ChangedIs
    <2>3. Len(u) = 0
      BY <1>7
    <2>4. KidOK(r)
      BY <1>1, <1>3, <2>2, <2>3 DEF KidOK, Bounded
    <2> QED BY <1>1, <2>2, <2>4 DEF v, u, r
  <1>8. CASE u # <<>>
    <2>1. r = Rebound(k, u)
      BY <1>5, <1>8 DEF TakenIn
    <2>2. /\ KidOK(r) /\ Vec(r) = u /\ r.DirtyP = TRUE
          /\ r.MinItem = u[1].id /\ r.MaxItem = Last(u).id
      BY <1>1, <1>3, <1>8, <2>1, ReboundIs
    <2>3. 1 \in 1..Len(u) /\ Len(u) \in 1..Len(u) /\ Last(u) = u[Len(u)]
      BY <1>3, <1>8, Ends
    <2> QED BY <1>6, <2>2, <2>3 DEF v, u, r
  <1> QED BY <1>7, <1>8

Given(s, c) == PickedFrom(s.ItemV, {n \in 1..Len(s.ItemV) : Belongs(s.ChildInfoV, c, s.ItemV[n].id)})
LeftOver(s) == {n \in 1..Len(s.ItemV) :
                  \A c \in 1..Len(s.ChildInfoV) : ~Belongs(s.ChildInfoV, c, s.ItemV[n].id)}

\* What moving the buffer does, also where nothing is there to be moved.
LEMMA InjectFields ==
  ASSUME NEW s \in Rec, Kids(s.ChildInfoV), Ordered(s.ItemV)
  PROVE  LET r == InjectWorkBufferToChildren(s)
         IN  /\ r.ChildInfoV = [c \in 1..Len(s.ChildInfoV) |-> WithInjected(s.ChildInfoV[c], Given(s, c))]
             /\ r.ItemV = PickedFrom(s.ItemV, LeftOver(s))
             /\ r = [s EXCEPT !.ChildInfoV = r.ChildInfoV, !.ItemV = r.ItemV, !.DirtyP = r.DirtyP]
             /\ r.DirtyP \in BOOLEAN /\ (s.DirtyP => r.DirtyP)
  <1> DEFINE r == InjectWorkBufferToChildren(s)
             kids == s.ChildInfoV
             v == s.ItemV
             N == Len(kids)
  <1>1. /\ v \in Seq(Item) /\ Len(v) \in Nat /\ DOMAIN v = 1..Len(v)
        /\ N \in Nat /\ DOMAIN kids = 1..N /\ kids \in Seq(Child) /\ s.DirtyP \in BOOLEAN
    BY KidsAre DEF Rec
  <1>2. CASE kids = <<>> \/ v = <<>>
    <2>1. r = s
      BY <1>2 DEF InjectWorkBufferToChildren
    <2>2. LeftOver(s) = 1..Len(v)
      BY <1>1, <1>2 DEF LeftOver
    <2>3. PickedFrom(v, LeftOver(s)) = v
      BY <1>1, <2>2, PickedShort
    <2>4. \A c \in 1..N : WithInjected(kids[c], Given(s, c)) = kids[c]
      <3> SUFFICES ASSUME NEW c \in 1..N PROVE WithInjected(kids[c], Given(s, c)) = kids[c]
        OBVIOUS
      <3>1. v = <<>>
        BY <1>2
      <3>2. {n \in 1..Len(v) : Belongs(kids, c, v[n].id)} = {}
        BY <3>1
      <3>3. PickedFrom(v, {}) = <<>>
        <4>1. {} \in SUBSET (1..Len(v))
          OBVIOUS
        <4> QED BY <1>1, <4>1, PickedShort
      <3>4. Given(s, c) = <<>>
        BY <3>2, <3>3 DEF Given
      <3> QED BY <3>4 DEF WithInjected
    <2>5. kids = [c \in 1..N |-> WithInjected(kids[c], Given(s, c))]
      BY <1>1, <2>4
    <2>6. r.ItemV = PickedFrom(s.ItemV, LeftOver(s))
      BY <2>1, <2>3
    <2>7. r = [s EXCEPT !.ChildInfoV = r.ChildInfoV, !.ItemV = r.ItemV, !.DirtyP = r.DirtyP]
      <3>1. s = [s EXCEPT !.ChildInfoV = s.ChildInfoV, !.ItemV = s.ItemV, !.DirtyP = s.DirtyP]
        BY DEF Rec
      <3> HIDE DEF r
      <3> QED BY <2>1, <3>1
    <2>8. r.ChildInfoV = [c \in 1..N |-> WithInjected(kids[c], Given(s, c))]
      BY <2>1, <2>5
    <2>9. r.DirtyP \in BOOLEAN /\ (s.DirtyP => r.DirtyP)
      BY <1>1, <2>1
    <2> QED BY <2>6, <2>7, <2>8, <2>9
  <1>3. CASE kids # <<>> /\ v # <<>>
    <2> DEFINE W(c) == PickedFrom(v, {n \in DOMAIN v : Takes(s, c, v[n])})
               kk == [c \in DOMAIN kids |-> WithInjected(kids[c], W(c))]
               u == PickedFrom(v, {n \in DOMAIN v : ~\E c \in DOMAIN kids : Takes(s, c, v[n])})
               b == s.DirtyP \/ \E c \in DOMAIN kids, n \in DOMAIN v : Takes(s, c, v[n])
    <2>1. r = [s EXCEPT !.ChildInfoV = kk, !.ItemV = u, !.DirtyP = b]
      BY <1>3 DEF InjectWorkBufferToChildren, Rec
    <2>2. \A n \in 1..Len(v), c \in 1..N : Takes(s, c, v[n]) <=> Belongs(kids, c, v[n].id)
      BY <1>3, TakesIs
    <2>3. ASSUME NEW c \in 1..N PROVE W(c) = Given(s, c)
      <3>1. {n \in DOMAIN v : Takes(s, c, v[n])} = {n \in 1..Len(v) : Belongs(kids, c, v[n].id)}
        BY <1>1, <2>2
      <3> QED BY <3>1 DEF Given
    <2>4. u = PickedFrom(v, LeftOver(s))
      <3>1. {n \in DOMAIN v : ~\E c \in DOMAIN kids : Takes(s, c, v[n])} = LeftOver(s)
        <4>1. \A n \in 1..Len(v) : (~\E c \in DOMAIN kids : Takes(s, c, v[n])) <=>
                                    \A c \in 1..N : ~Belongs(kids, c, v[n].id)
          BY <1>1, <2>2
        <4> QED BY <1>1, <4>1 DEF LeftOver
      <3> QED BY <3>1
    <2>5. kk = [c \in 1..N |-> WithInjected(kids[c], Given(s, c))]
      BY <1>1, <2>3
    <2>6. b \in BOOLEAN /\ (s.DirtyP => b)
      BY <1>1
    <2> HIDE DEF kk, u, b, r
    <2>7. r.ChildInfoV = kk /\ r.ItemV = u /\ r.DirtyP = b
      BY <2>1 DEF Rec
    <2>8. r = [s EXCEPT !.ChildInfoV = r.ChildInfoV, !.ItemV = r.ItemV, !.DirtyP = r.DirtyP]
      BY <2>1, <2>7
    <2> QED BY <2>4, <2>5, <2>6, <2>7, <2>8 DEF r
  <1> QED BY <1>2, <1>3

LEMMA GivenIs ==
  ASSUME NEW s \in Rec, NEW c, Ordered(s.ItemV)
  PROVE  /\ Given(s, c) \in Seq(Item) /\ Ordered(Given(s, c))
         /\ \A n \in 1..Len(Given(s, c)) : \E m \in 1..Len(s.ItemV) :
              Given(s, c)[n] = s.ItemV[m] /\ Belongs(s.ChildInfoV, c, s.ItemV[m].id)
         /\ \A m \in 1..Len(s.ItemV) : Belongs(s.ChildInfoV, c, s.ItemV[m].id) =>
              \E n \in 1..Len(Given(s, c)) : Given(s, c)[n] = s.ItemV[m]
  <1> DEFINE v == s.ItemV
             P == {n \in 1..Len(v) : Belongs(s.ChildInfoV, c, v[n].id)}
             w == PickedFrom(v, P)
  <1>1. v \in Seq(Item) /\ Ordered(v)
    BY DEF Rec
  <1>2. P \in SUBSET (1..Len(v)) /\ w = Given(s, c)
    BY DEF Given
  <1>3. \A m \in P : m \in 1..Len(v) /\ Belongs(s.ChildInfoV, c, v[m].id)
    OBVIOUS
  <1>4. \A m \in 1..Len(v) : Belongs(s.ChildInfoV, c, v[m].id) => m \in P
    OBVIOUS
  <1> HIDE DEF P, v
  <1>5. /\ w \in Seq(Item) /\ Ordered(w)
        /\ \A n \in 1..Len(w) : \E m \in P : w[n] = v[m]
        /\ \A m \in P : \E n \in 1..Len(w) : w[n] = v[m]
    BY <1>1, <1>2, PickedVals, PickedOrdered
  <1> HIDE DEF w
  <1>6. \A n \in 1..Len(w) : \E m \in 1..Len(v) : w[n] = v[m] /\ Belongs(s.ChildInfoV, c, v[m].id)
    BY <1>3, <1>5
  <1>7. \A m \in 1..Len(v) : Belongs(s.ChildInfoV, c, v[m].id) => \E n \in 1..Len(w) : w[n] = v[m]
    BY <1>4, <1>5
  <1> QED BY <1>2, <1>5, <1>6, <1>7 DEF v

LEMMA LeftOverIs ==
  ASSUME NEW s \in Rec, Ordered(s.ItemV)
  PROVE  LET w == PickedFrom(s.ItemV, LeftOver(s))
         IN  /\ w \in Seq(Item) /\ Ordered(w)
             /\ \A n \in 1..Len(w) : \E m \in 1..Len(s.ItemV) :
                  /\ w[n] = s.ItemV[m]
                  /\ \A c \in 1..Len(s.ChildInfoV) : ~Belongs(s.ChildInfoV, c, s.ItemV[m].id)
             /\ \A m \in 1..Len(s.ItemV) :
                  (\A c \in 1..Len(s.ChildInfoV) : ~Belongs(s.ChildInfoV, c, s.ItemV[m].id)) =>
                  \E n \in 1..Len(w) : w[n] = s.ItemV[m]
  <1> DEFINE v == s.ItemV
             P == LeftOver(s)
             Q(m) == \A c \in 1..Len(s.ChildInfoV) : ~Belongs(s.ChildInfoV, c, v[m].id)
             w == PickedFrom(v, P)
  <1>1. v \in Seq(Item) /\ Ordered(v)
    BY DEF Rec
  <1>2. P \in SUBSET (1..Len(v))
    BY DEF LeftOver
  <1>3. \A m \in P : m \in 1..Len(v) /\ Q(m)
    BY DEF LeftOver
  <1>4. \A m \in 1..Len(v) : Q(m) => m \in P
    BY DEF LeftOver
  <1> HIDE DEF P, v
  <1>5. /\ w \in Seq(Item) /\ Ordered(w)
        /\ \A n \in 1..Len(w) : \E m \in P : w[n] = v[m]
        /\ \A m \in P : \E n \in 1..Len(w) : w[n] = v[m]
    BY <1>1, <1>2, PickedVals, PickedOrdered
  <1> HIDE DEF w, Q
  <1>6. \A n \in 1..Len(w) : \E m \in 1..Len(v) : w[n] = v[m] /\ Q(m)
    BY <1>3, <1>5
  <1>7. \A m \in 1..Len(v) : Q(m) => \E n \in 1..Len(w) : w[n] = v[m]
    BY <1>4, <1>5
  <1> QED BY <1>5, <1>6, <1>7 DEF v, w, P, Q

\* The bounds of a child shrink, if they move at all.
LEMMA WithInjectedIs ==
  ASSUME NEW s \in Rec, Kids(s.ChildInfoV), Ordered(s.ItemV), NEW c \in 1..Len(s.ChildInfoV)
  PROVE  LET kids == s.ChildInfoV
             r == WithInjected(kids[c], Given(s, c))
         IN  /\ KidOK(r) /\ r \in Child /\ r.MinItem \in Nat /\ r.MaxItem \in Nat
             /\ r.MaxItem <= kids[c].MaxItem
             /\ \A d \in 1..Len(kids) : d < c => kids[d].MaxItem < r.MinItem
             /\ IF Given(s, c) = <<>> THEN r = kids[c]
                ELSE r.DirtyP /\ Vec(r) = Merge(Vec(kids[c]) \o Given(s, c), FALSE)
  <1> DEFINE kids == s.ChildInfoV
             k == kids[c]
             w == Given(s, c)
             r == WithInjected(k, w)
  <1>1. /\ KidOK(k) /\ k \in Child /\ k.MinItem \in Nat /\ k.MaxItem \in Nat
        /\ \A d \in 1..Len(kids) : /\ kids[d].MaxItem \in Nat
                                   /\ (d < c => kids[d].MaxItem < k.MinItem)
    BY KidsAre
  <1>2. CASE w = <<>>
    <2>1. r = k
      BY <1>2 DEF WithInjected
    <2> HIDE DEF r
    <2>2. r.MaxItem <= k.MaxItem
      BY <1>1, <2>1
    <2> QED BY <1>1, <1>2, <2>1, <2>2 DEF r
  <1>3. CASE w # <<>>
    <2>1. r = Injected(k, w)
      BY <1>3 DEF WithInjected
    <2>2. w \in Seq(Item) /\ \A n \in 1..Len(w) : \E m \in 1..Len(s.ItemV) :
                               w[n] = s.ItemV[m] /\ Belongs(kids, c, s.ItemV[m].id)
      BY GivenIs
    <2> HIDE DEF w, k, r
    <2>3. \A n \in 1..Len(w) : /\ w[n].id <= k.MaxItem /\ w[n].id \in Nat
                               /\ \A d \in 1..Len(kids) : d < c => kids[d].MaxItem < w[n].id
      <3> SUFFICES ASSUME NEW n \in 1..Len(w)
                   PROVE  /\ w[n].id <= k.MaxItem /\ w[n].id \in Nat
                          /\ \A d \in 1..Len(kids) : d < c => kids[d].MaxItem < w[n].id
        OBVIOUS
      <3>1. Belongs(kids, c, w[n].id)
        BY <2>2
      <3>2. w[n].id \in Nat
        BY <2>2, IdsAre
      <3> QED BY <3>1, <3>2 DEF Belongs, k
    <2>4. /\ KidOK(r) /\ r.DirtyP = TRUE /\ Vec(r) = Merge(Vec(k) \o w, FALSE)
          /\ r.MaxItem <= k.MaxItem
          /\ r.MinItem >= k.MinItem \/ \E n \in 1..Len(w) : r.MinItem = w[n].id
      BY <1>1, <2>1, <2>2, <2>3, InjectedIs
    <2>5. r \in Child /\ r.MinItem \in Nat /\ r.MaxItem \in Nat
      <3>1. r \in Child
        BY <2>4 DEF KidOK
      <3> QED BY <3>1, ChildIs
    <2>6. ASSUME NEW d \in 1..Len(kids), d < c PROVE kids[d].MaxItem < r.MinItem
      <3>1. kids[d].MaxItem < k.MinItem /\ kids[d].MaxItem \in Nat
        BY <1>1, <2>6
      <3>2. CASE r.MinItem >= k.MinItem
        BY <1>1, <2>5, <3>1, <3>2
      <3>3. CASE \E n \in 1..Len(w) : r.MinItem = w[n].id
        BY <2>3, <2>6, <3>3
      <3> QED BY <2>4, <3>2, <3>3
    <2> QED BY <1>3, <2>4, <2>5, <2>6 DEF w, k, r
  <1> QED BY <1>2, <1>3

LEMMA InjectAre ==
  ASSUME NEW s \in Rec, Kids(s.ChildInfoV), Ordered(s.ItemV)
  PROVE  LET r == InjectWorkBufferToChildren(s)
             kids == s.ChildInfoV
         IN  /\ r \in Rec /\ Kids(r.ChildInfoV) /\ Len(r.ChildInfoV) = Len(kids)
             /\ r.Blobs = s.Blobs /\ r.ItemVDel = s.ItemVDel /\ r.MergedP = s.MergedP
             /\ r.DeleteMarkerP = s.DeleteMarkerP /\ (s.DirtyP => r.DirtyP)
             /\ r.ItemV = PickedFrom(s.ItemV, LeftOver(s)) /\ Ordered(r.ItemV)
             /\ Beyond(r.ChildInfoV, r.ItemV)
             /\ \A c \in 1..Len(kids) : r.ChildInfoV[c].DirtyP \/ r.ChildInfoV[c] = kids[c]
             /\ \A c \in 1..Len(kids) :
                  IF Given(s, c) = <<>> THEN r.ChildInfoV[c] = kids[c]
                  ELSE Vec(r.ChildInfoV[c]) = Merge(Vec(kids[c]) \o Given(s, c), FALSE)
  <1> DEFINE r == InjectWorkBufferToChildren(s)
             kids == s.ChildInfoV
             N == Len(kids)
             kk == r.ChildInfoV
             u == r.ItemV
  <1>1. /\ kk = [c \in 1..N |-> WithInjected(kids[c], Given(s, c))]
        /\ u = PickedFrom(s.ItemV, LeftOver(s))
        /\ r = [s EXCEPT !.ChildInfoV = kk, !.ItemV = u, !.DirtyP = r.DirtyP]
        /\ r.DirtyP \in BOOLEAN /\ (s.DirtyP => r.DirtyP)
    BY InjectFields
  <1> HIDE DEF r
  <1>2. N \in Nat /\ \A c \in 1..N : kids[c].MaxItem \in Nat
    BY KidsAre
  <1>3. \A c \in 1..N :
          /\ KidOK(kk[c]) /\ kk[c] \in Child /\ kk[c].MinItem \in Nat /\ kk[c].MaxItem \in Nat
          /\ kk[c].MaxItem <= kids[c].MaxItem
          /\ \A d \in 1..N : d < c => kids[d].MaxItem < kk[c].MinItem
          /\ IF Given(s, c) = <<>> THEN kk[c] = kids[c]
             ELSE kk[c].DirtyP /\ Vec(kk[c]) = Merge(Vec(kids[c]) \o Given(s, c), FALSE)
    <2> SUFFICES ASSUME NEW c \in 1..N
                 PROVE  /\ KidOK(kk[c]) /\ kk[c] \in Child /\ kk[c].MinItem \in Nat /\ kk[c].MaxItem \in Nat
                        /\ kk[c].MaxItem <= kids[c].MaxItem
                        /\ \A d \in 1..N : d < c => kids[d].MaxItem < kk[c].MinItem
                        /\ IF Given(s, c) = <<>> THEN kk[c] = kids[c]
                           ELSE kk[c].DirtyP /\ Vec(kk[c]) = Merge(Vec(kids[c]) \o Given(s, c), FALSE)
      OBVIOUS
    <2>1. kk[c] = WithInjected(kids[c], Given(s, c))
      BY <1>1
    <2> HIDE DEF kk
    <2> QED BY <2>1, WithInjectedIs
  <1>4. kk \in Seq(Child) /\ Len(kk) = N
    <2>1. \A c \in 1..N : WithInjected(kids[c], Given(s, c)) \in Child
      BY <1>1, <1>3
    <2>2. [c \in 1..N |-> WithInjected(kids[c], Given(s, c))] \in Seq(Child)
          /\ Len([c \in 1..N |-> WithInjected(kids[c], Given(s, c))]) = N
      BY <1>2, <2>1
    <2> QED BY <1>1, <2>2
  <1> HIDE DEF kk
  <1>5. Kids(kk)
    <2>1. Behind(kk)
      <3> SUFFICES ASSUME NEW c \in 1..N, NEW d \in 1..N, c < d PROVE kk[c].MaxItem < kk[d].MinItem
        BY <1>4 DEF Behind
      <3>1. kk[c].MaxItem <= kids[c].MaxItem /\ kids[c].MaxItem < kk[d].MinItem
        BY <1>3
      <3>2. kk[c].MaxItem \in Nat /\ kids[c].MaxItem \in Nat /\ kk[d].MinItem \in Nat
        BY <1>2, <1>3
      <3> QED BY <3>1, <3>2
    <2> QED BY <1>3, <1>4, <2>1 DEF Kids
  <1>6. /\ u \in Seq(Item) /\ Ordered(u)
        /\ \A n \in 1..Len(u) : \E m \in 1..Len(s.ItemV) :
             u[n] = s.ItemV[m] /\ \A c \in 1..N : ~Belongs(kids, c, s.ItemV[m].id)
    BY <1>1, LeftOverIs
  <1> HIDE DEF u
  <1>7. Beyond(kk, u)
    <2> SUFFICES ASSUME NEW c \in 1..N, NEW n \in 1..Len(u) PROVE kk[c].MaxItem < u[n].id
      BY <1>4 DEF Beyond
    <2>1. u[n].id \in Nat /\ \A d \in 1..N : ~Belongs(kids, d, u[n].id)
      BY <1>6, IdsAre
    <2>2. kids[c].MaxItem < u[n].id
      BY <2>1, BelongsIs
    <2>3. kk[c].MaxItem <= kids[c].MaxItem /\ kk[c].MaxItem \in Nat /\ kids[c].MaxItem \in Nat
      BY <1>2, <1>3
    <2> QED BY <2>1, <2>2, <2>3
  <1>8. /\ r \in Rec /\ r.Blobs = s.Blobs /\ r.ItemVDel = s.ItemVDel /\ r.MergedP = s.MergedP
        /\ r.DeleteMarkerP = s.DeleteMarkerP
    BY <1>1, <1>4, <1>6 DEF Rec
  <1>9. \A c \in 1..N : kk[c].DirtyP \/ kk[c] = kids[c]
    BY <1>3
  <1>10. \A c \in 1..N : IF Given(s, c) = <<>> THEN kk[c] = kids[c]
                         ELSE Vec(kk[c]) = Merge(Vec(kids[c]) \o Given(s, c), FALSE)
    BY <1>3
  <1> QED BY <1>1, <1>4, <1>5, <1>6, <1>7, <1>8, <1>9, <1>10 DEF r, kk, u

----
\* What sequences one after the other hold, and in which order.
LEMMA ChainIs ==
  ASSUME NEW S, NEW f \in Seq(Seq(S)), NEW R,
         \A c \in 1..Len(f) : \A m, n \in 1..Len(f[c]) : m < n => <<f[c][m], f[c][n]>> \in R,
         \A c, d \in 1..Len(f) : c < d =>
           \A m \in 1..Len(f[c]), n \in 1..Len(f[d]) : <<f[c][m], f[d][n]>> \in R
  PROVE  /\ Chained(f) \in Seq(S)
         /\ \A j \in 1..Len(Chained(f)) : \E c \in 1..Len(f) : \E m \in 1..Len(f[c]) :
              Chained(f)[j] = f[c][m]
         /\ \A c \in 1..Len(f) : \A m \in 1..Len(f[c]) : \E j \in 1..Len(Chained(f)) :
              Chained(f)[j] = f[c][m]
         /\ \A i, j \in 1..Len(Chained(f)) : i < j => <<Chained(f)[i], Chained(f)[j]>> \in R
  <1> DEFINE N == Len(f)
             t == ChainTo(f)
             From1(n) == \A j \in 1..Len(t[n]) : \E c \in 1..n : \E m \in 1..Len(f[c]) : t[n][j] = f[c][m]
             All1(n) == \A c \in 1..n : \A m \in 1..Len(f[c]) : \E j \in 1..Len(t[n]) : t[n][j] = f[c][m]
             Ord1(n) == \A i, j \in 1..Len(t[n]) : i < j => <<t[n][i], t[n][j]>> \in R
  <1>1. /\ N \in Nat /\ Chained(f) = t[N] /\ t[0] = <<>>
        /\ \A n \in 1..N : t[n] = t[n - 1] \o f[n]
        /\ \A n \in 0..N : t[n] \in Seq(S)
        /\ \A n \in 1..N : f[n] \in Seq(S)
    <2>1. N \in Nat /\ \A n \in 1..N : f[n] \in Seq(S)
      OBVIOUS
    <2>2. /\ Chained(f) = t[N] /\ t[0] = <<>>
          /\ \A n \in 1..N : t[n] = t[n - 1] \o f[n]
          /\ \A n \in 0..N : t[n] \in Seq(S)
      BY ChainSteps
    <2> QED BY <2>1, <2>2
  <1> HIDE DEF t
  <1> DEFINE P == {n \in Nat : n <= N => From1(n) /\ All1(n) /\ Ord1(n)}
  <1>2. 0 \in P
    <2>1. Len(t[0]) = 0
      BY <1>1
    <2> QED BY <2>1
  <1>3. ASSUME NEW n \in Nat, n \in P PROVE n + 1 \in P
    <2>a. SUFFICES ASSUME n + 1 <= N PROVE From1(n + 1) /\ All1(n + 1) /\ Ord1(n + 1)
      <3> HIDE DEF From1, All1, Ord1
      <3> QED OBVIOUS
    <2> DEFINE p == t[n]
               q == f[n + 1]
               r == t[n + 1]
    <2>0. n + 1 \in 1..N /\ n \in 0..N /\ n <= N /\ N \in Nat
      BY <1>1, <2>a
    <2>1. r = p \o q /\ p \in Seq(S) /\ q \in Seq(S)
      <3> DEFINE m == n + 1
      <3>1. m \in 1..N /\ m - 1 = n
        BY <2>0
      <3> HIDE DEF m
      <3>2. t[m] = t[m - 1] \o f[m] /\ f[m] \in Seq(S)
        BY <1>1, <3>1
      <3>3. t[n] \in Seq(S)
        BY <1>1, <2>0
      <3> QED BY <3>1, <3>2, <3>3 DEF m
    <2>2. From1(n) /\ All1(n) /\ Ord1(n)
      BY <1>3, <2>0
    <2>3. /\ \A j \in 1..Len(p) : \E c \in 1..n : \E m \in 1..Len(f[c]) : p[j] = f[c][m]
          /\ \A c \in 1..n : \A m \in 1..Len(f[c]) : \E j \in 1..Len(p) : p[j] = f[c][m]
          /\ \A i, j \in 1..Len(p) : i < j => <<p[i], p[j]>> \in R
      BY <2>2
    <2> HIDE DEF p, q, r, From1, All1, Ord1
    <2>4. /\ Len(p) \in Nat /\ Len(q) \in Nat /\ Len(r) = Len(p) + Len(q)
          /\ \A j \in 1..Len(p) : r[j] = p[j] /\ j \in 1..Len(r)
          /\ \A j \in 1..Len(q) : r[Len(p) + j] = q[j] /\ Len(p) + j \in 1..Len(r)
      <3>1. /\ Len(p) \in Nat /\ Len(q) \in Nat /\ Len(r) = Len(p) + Len(q)
            /\ \A j \in 1..Len(p) + Len(q) : r[j] = IF j <= Len(p) THEN p[j] ELSE q[j - Len(p)]
        <4>1. Len(p) \in Nat /\ Len(q) \in Nat
          BY <2>1
        <4>2. /\ Len(p \o q) = Len(p) + Len(q)
              /\ \A j \in 1..Len(p) + Len(q) : (p \o q)[j] = IF j <= Len(p) THEN p[j] ELSE q[j - Len(p)]
          BY <2>1, ConcatProperties
        <4> QED BY <2>1, <4>1, <4>2
      <3>2. ASSUME NEW j \in 1..Len(q) PROVE r[Len(p) + j] = q[j]
        <4>1. /\ Len(p) + j \in 1..Len(p) + Len(q) /\ ~(Len(p) + j <= Len(p))
              /\ Len(p) + j - Len(p) = j
          BY <3>1
        <4> QED BY <3>1, <4>1
      <3>3. ASSUME NEW j \in 1..Len(p) PROVE r[j] = p[j] /\ j \in 1..Len(r)
        <4>1. j \in 1..Len(p) + Len(q) /\ j <= Len(p)
          BY <3>1
        <4> QED BY <3>1, <4>1
      <3>4. ASSUME NEW j \in 1..Len(q) PROVE Len(p) + j \in 1..Len(r)
        BY <3>1
      <3> QED BY <3>1, <3>2, <3>3, <3>4
    <2>5. \A j \in 1..Len(r) : j \in 1..Len(p) \/ \E k \in 1..Len(q) : j = Len(p) + k
      <3> SUFFICES ASSUME NEW j \in 1..Len(r), j \notin 1..Len(p)
                   PROVE  \E k \in 1..Len(q) : j = Len(p) + k
        OBVIOUS
      <3>1. j - Len(p) \in 1..Len(q) /\ j = Len(p) + (j - Len(p))
        BY <2>4
      <3> QED BY <3>1
    <2>6. /\ \A c \in 1..n : c \in 1..n + 1 /\ c \in 1..N /\ c < n + 1
          /\ \A c \in 1..n + 1 : c \in 1..n \/ c = n + 1
      BY <2>0
    <2>7. \A j \in 1..Len(r) : \E c \in 1..n + 1 : \E m \in 1..Len(f[c]) : r[j] = f[c][m]
      <3> SUFFICES ASSUME NEW j \in 1..Len(r)
                   PROVE  \E c \in 1..n + 1 : \E m \in 1..Len(f[c]) : r[j] = f[c][m]
        OBVIOUS
      <3>1. CASE j \in 1..Len(p)
        <4>1. PICK c \in 1..n : \E m \in 1..Len(f[c]) : p[j] = f[c][m]
          BY <2>3, <3>1
        <4>2. r[j] = p[j] /\ c \in 1..n + 1
          BY <2>4, <2>6, <3>1
        <4> QED BY <4>1, <4>2
      <3>2. CASE \E k \in 1..Len(q) : j = Len(p) + k
        <4>1. PICK k \in 1..Len(q) : j = Len(p) + k
          BY <3>2
        <4>2. r[j] = q[k]
          BY <2>4, <4>1
        <4>3. n + 1 \in 1..n + 1
          BY <2>0
        <4>4. \E m \in 1..Len(f[n + 1]) : r[j] = f[n + 1][m]
          BY <4>2 DEF q
        <4> QED BY <4>3, <4>4
      <3> QED BY <2>5, <3>1, <3>2
    <2>8. \A c \in 1..n + 1 : \A m \in 1..Len(f[c]) : \E j \in 1..Len(r) : r[j] = f[c][m]
      <3> SUFFICES ASSUME NEW c \in 1..n + 1, NEW m \in 1..Len(f[c])
                   PROVE  \E j \in 1..Len(r) : r[j] = f[c][m]
        OBVIOUS
      <3>1. CASE c \in 1..n
        <4>1. PICK j \in 1..Len(p) : p[j] = f[c][m]
          BY <2>3, <3>1
        <4> QED BY <2>4, <4>1
      <3>2. CASE c = n + 1
        <4>1. f[c] = q
          BY <3>2 DEF q
        <4>2. m \in 1..Len(q) /\ f[c][m] = q[m]
          BY <4>1
        <4> QED BY <2>4, <4>2
      <3> QED BY <2>6, <3>1, <3>2
    <2>9. \A i, j \in 1..Len(r) : i < j => <<r[i], r[j]>> \in R
      <3> SUFFICES ASSUME NEW i \in 1..Len(r), NEW j \in 1..Len(r), i < j
                   PROVE  <<r[i], r[j]>> \in R
        OBVIOUS
      <3>1. CASE j \in 1..Len(p)
        <4>1. i \in 1..Len(p)
          BY <2>4, <3>1
        <4> QED BY <2>3, <2>4, <3>1, <4>1
      <3>2. CASE j \notin 1..Len(p)
        <4>1. PICK k \in 1..Len(q) : j = Len(p) + k
          BY <2>5, <3>2
        <4>2. r[j] = q[k] /\ q = f[n + 1]
          BY <2>4, <4>1 DEF q
        <4>3. CASE i \in 1..Len(p)
          <5>1. PICK c \in 1..n : \E m \in 1..Len(f[c]) : p[i] = f[c][m]
            BY <2>3, <4>3
          <5>2. PICK m \in 1..Len(f[c]) : p[i] = f[c][m]
            BY <5>1
          <5>3. c \in 1..N /\ c < n + 1 /\ r[i] = f[c][m]
            BY <2>4, <2>6, <4>3, <5>2
          <5>4. k \in 1..Len(f[n + 1]) /\ r[j] = f[n + 1][k]
            BY <4>2
          <5>5. <<f[c][m], f[n + 1][k]>> \in R
            BY <2>0, <5>3, <5>4
          <5> QED BY <5>3, <5>4, <5>5
        <4>4. CASE i \notin 1..Len(p)
          <5>1. PICK h \in 1..Len(q) : i = Len(p) + h
            BY <2>5, <4>4
          <5>2. r[i] = q[h] /\ h < k
            BY <2>4, <4>1, <5>1
          <5>3. h \in 1..Len(f[n + 1]) /\ k \in 1..Len(f[n + 1])
            BY <4>2
          <5>4. <<f[n + 1][h], f[n + 1][k]>> \in R
            BY <2>0, <5>2, <5>3
          <5> QED BY <4>2, <5>2, <5>4
        <4> QED BY <4>3, <4>4
      <3> QED BY <3>1, <3>2
    <2> QED BY <2>7, <2>8, <2>9 DEF r, From1, All1, Ord1
  <1>4. N \in P
    <2> HIDE DEF P
    <2> QED BY <1>1, <1>2, <1>3, ByInduction
  <1> HIDE DEF From1, All1, Ord1
  <1>5. N \in Nat /\ N <= N /\ N \in 0..N
    BY <1>1
  <1>6. From1(N) /\ All1(N) /\ Ord1(N) /\ t[N] \in Seq(S)
    <2> HIDE DEF N
    <2>1. From1(N) /\ All1(N) /\ Ord1(N)
      BY <1>4, <1>5
    <2>2. t[N] \in Seq(S)
      BY <1>1, <1>5
    <2> QED BY <2>1, <2>2
  <1>7. \A j \in 1..Len(t[N]) : \E c \in 1..N : \E m \in 1..Len(f[c]) : t[N][j] = f[c][m]
    BY <1>6 DEF From1
  <1>8. \A c \in 1..N : \A m \in 1..Len(f[c]) : \E j \in 1..Len(t[N]) : t[N][j] = f[c][m]
    BY <1>6 DEF All1
  <1>9. \A i, j \in 1..Len(t[N]) : i < j => <<t[N][i], t[N][j]>> \in R
    BY <1>6 DEF Ord1
  <1>10. Chained(f) = t[N] /\ N = Len(f)
    BY <1>1
  <1> DEFINE w == t[N]
  <1>11. w \in Seq(S) /\ Chained(f) = w
    BY <1>6, <1>10 DEF w
  <1>12. \A j \in 1..Len(w) : \E c \in 1..N : \E m \in 1..Len(f[c]) : w[j] = f[c][m]
    BY <1>7 DEF w
  <1>13. \A c \in 1..N : \A m \in 1..Len(f[c]) : \E j \in 1..Len(w) : w[j] = f[c][m]
    BY <1>8 DEF w
  <1>14. \A i, j \in 1..Len(w) : i < j => <<w[i], w[j]>> \in R
    BY <1>9 DEF w
  <1> HIDE DEF w
  <1>15. \A j \in 1..Len(Chained(f)) : \E c \in 1..N : \E m \in 1..Len(f[c]) :
           Chained(f)[j] = f[c][m]
    BY <1>11, <1>12
  <1>16. \A c \in 1..N : \A m \in 1..Len(f[c]) : \E j \in 1..Len(Chained(f)) :
           Chained(f)[j] = f[c][m]
    BY <1>11, <1>13
  <1>17. \A i, j \in 1..Len(Chained(f)) : i < j => <<Chained(f)[i], Chained(f)[j]>> \in R
    BY <1>11, <1>14
  <1> QED BY <1>11, <1>15, <1>16, <1>17

----
\* Children one after the other.
LEMMA ConcatKids ==
  ASSUME NEW a, NEW b, Kids(a), Kids(b),
         \A c \in 1..Len(a), d \in 1..Len(b) : a[c].MaxItem < b[d].MinItem
  PROVE  /\ Kids(a \o b) /\ Len(a \o b) = Len(a) + Len(b)
         /\ \A c \in 1..Len(a) : (a \o b)[c] = a[c]
         /\ \A c \in 1..Len(b) : (a \o b)[Len(a) + c] = b[c]
         /\ \A c \in 1..Len(a \o b) : (c \in 1..Len(a) /\ (a \o b)[c] = a[c]) \/
                                      \E d \in 1..Len(b) : c = Len(a) + d /\ (a \o b)[c] = b[d]
         /\ \A x : InKids(a \o b, x) <=> InKids(a, x) \/ InKids(b, x)
  <1> DEFINE r == a \o b
  <1>0. a \in Seq(Child) /\ b \in Seq(Child)
    BY DEF Kids
  <1>1. /\ r \in Seq(Child) /\ Len(a) \in Nat /\ Len(b) \in Nat /\ Len(r) = Len(a) + Len(b)
        /\ \A j \in 1..Len(a) + Len(b) : r[j] = IF j <= Len(a) THEN a[j] ELSE b[j - Len(a)]
    BY <1>0, ConcatProperties
  <1> HIDE DEF r
  <1>2. \A c \in 1..Len(a) : r[c] = a[c] /\ c \in 1..Len(r)
    BY <1>1
  <1>3. ASSUME NEW c \in 1..Len(b) PROVE r[Len(a) + c] = b[c] /\ Len(a) + c \in 1..Len(r)
    <2>1. /\ Len(a) + c \in 1..Len(a) + Len(b) /\ ~(Len(a) + c <= Len(a))
          /\ Len(a) + c - Len(a) = c
      BY <1>1
    <2> QED BY <1>1, <2>1
  <1>4. ASSUME NEW c \in 1..Len(r), c \notin 1..Len(a)
        PROVE  \E d \in 1..Len(b) : c = Len(a) + d /\ r[c] = b[d]
    <2>1. c - Len(a) \in 1..Len(b) /\ c = Len(a) + (c - Len(a))
      BY <1>1, <1>4
    <2>2. r[c] = b[c - Len(a)]
      BY <1>1, <1>4
    <2> QED BY <2>1, <2>2
  <1>5. ASSUME NEW c \in 1..Len(r) PROVE KidOK(r[c])
    <2>1. CASE c \in 1..Len(a)
      <3>1. r[c] = a[c] /\ KidOK(a[c])
        BY <1>2, <2>1 DEF Kids
      <3> QED BY <3>1
    <2>2. CASE c \notin 1..Len(a)
      <3>1. PICK d \in 1..Len(b) : r[c] = b[d]
        BY <1>4, <2>2
      <3>2. KidOK(b[d])
        BY DEF Kids
      <3> QED BY <3>1, <3>2
    <2> QED BY <2>1, <2>2
  <1>6. ASSUME NEW c \in 1..Len(r), NEW d \in 1..Len(r), c < d PROVE r[c].MaxItem < r[d].MinItem
    <2>1. CASE d \in 1..Len(a)
      <3>1. c \in 1..Len(a)
        BY <1>1, <1>6, <2>1
      <3>2. a[c].MaxItem < a[d].MinItem
        BY <1>6, <2>1, <3>1 DEF Kids, Behind
      <3>3. r[c] = a[c] /\ r[d] = a[d]
        BY <1>2, <2>1, <3>1
      <3> QED BY <3>2, <3>3
    <2>2. CASE d \notin 1..Len(a)
      <3>1. PICK e \in 1..Len(b) : d = Len(a) + e /\ r[d] = b[e]
        BY <1>4, <2>2
      <3>2. CASE c \in 1..Len(a)
        <4>1. r[c] = a[c]
          BY <1>2, <3>2
        <4>2. a[c].MaxItem < b[e].MinItem
          BY <3>2
        <4> QED BY <3>1, <4>1, <4>2
      <3>3. CASE c \notin 1..Len(a)
        <4>1. PICK h \in 1..Len(b) : c = Len(a) + h /\ r[c] = b[h]
          BY <1>4, <3>3
        <4>2. h < e
          BY <1>1, <1>6, <3>1, <4>1
        <4>3. b[h].MaxItem < b[e].MinItem
          BY <4>2 DEF Kids, Behind
        <4> QED BY <3>1, <4>1, <4>3
      <3> QED BY <3>2, <3>3
    <2> QED BY <2>1, <2>2
  <1>7. Kids(r)
    BY <1>1, <1>5, <1>6 DEF Kids, Behind
  <1>8. ASSUME NEW x PROVE InKids(r, x) <=> InKids(a, x) \/ InKids(b, x)
    <2>1. ASSUME InKids(r, x) PROVE InKids(a, x) \/ InKids(b, x)
      <3>1. PICK c \in 1..Len(r) : x \in Vals(Vec(r[c]))
        BY <2>1 DEF InKids
      <3>2. CASE c \in 1..Len(a)
        <4>1. r[c] = a[c]
          BY <1>2, <3>2
        <4>2. x \in Vals(Vec(a[c]))
          BY <3>1, <4>1
        <4> QED BY <3>2, <4>2 DEF InKids
      <3>3. CASE c \notin 1..Len(a)
        <4>1. PICK d \in 1..Len(b) : r[c] = b[d]
          BY <1>4, <3>3
        <4>2. x \in Vals(Vec(b[d]))
          BY <3>1, <4>1
        <4> QED BY <4>2 DEF InKids
      <3> QED BY <3>2, <3>3
    <2>2. ASSUME InKids(a, x) PROVE InKids(r, x)
      <3>1. PICK c \in 1..Len(a) : x \in Vals(Vec(a[c]))
        BY <2>2 DEF InKids
      <3>2. r[c] = a[c] /\ c \in 1..Len(r)
        BY <1>2
      <3>3. x \in Vals(Vec(r[c]))
        BY <3>1, <3>2
      <3> QED BY <3>2, <3>3 DEF InKids
    <2>3. ASSUME InKids(b, x) PROVE InKids(r, x)
      <3>1. PICK c \in 1..Len(b) : x \in Vals(Vec(b[c]))
        BY <2>3 DEF InKids
      <3> DEFINE d == Len(a) + c
      <3>2. r[d] = b[c] /\ d \in 1..Len(r)
        BY <1>3
      <3> HIDE DEF d
      <3>3. x \in Vals(Vec(r[d]))
        BY <3>1, <3>2
      <3> QED BY <3>2, <3>3 DEF InKids
    <2> QED BY <2>1, <2>2, <2>3
  <1>9. \A c \in 1..Len(r) : (c \in 1..Len(a) /\ r[c] = a[c]) \/
                             \E d \in 1..Len(b) : c = Len(a) + d /\ r[c] = b[d]
    BY <1>2, <1>4
  <1> QED BY <1>1, <1>2, <1>3, <1>7, <1>8, <1>9 DEF r

\* The children from one on.
LEMMA SubKids ==
  ASSUME NEW kids, Kids(kids), NEW n \in 0..Len(kids)
  PROVE  LET r == SubSeq(kids, n + 1, Len(kids))
         IN  /\ Kids(r) /\ Len(r) = Len(kids) - n
             /\ \A c \in 1..Len(r) : c + n \in 1..Len(kids) /\ r[c] = kids[c + n]
             /\ \A c \in 1..Len(kids) : c > n => c - n \in 1..Len(r) /\ r[c - n] = kids[c]
  <1> DEFINE r == SubSeq(kids, n + 1, Len(kids))
  <1>0. Len(kids) \in Nat /\ kids \in Seq(Child)
    BY DEF Kids
  <1>1. r \in Seq(Child) /\ Len(r) = Len(kids) - n /\ \A c \in 1..Len(kids) - n : r[c] = kids[c + n]
    <2>1. n + 1 \in Int /\ Len(kids) \in Int /\ \A c \in n + 1..Len(kids) : kids[c] \in Child
      BY <1>0
    <2>2. /\ r \in Seq(Child) /\ Len(r) = IF n + 1 <= Len(kids) THEN Len(kids) - (n + 1) + 1 ELSE 0
          /\ \A c \in 1..Len(kids) - (n + 1) + 1 : r[c] = kids[(n + 1) + c - 1]
      BY <2>1, SubSeqProperties
    <2>3. Len(r) = Len(kids) - n
      BY <1>0, <2>2
    <2>4. ASSUME NEW c \in 1..Len(kids) - n PROVE r[c] = kids[c + n]
      <3>1. c \in 1..Len(kids) - (n + 1) + 1 /\ (n + 1) + c - 1 = c + n
        BY <1>0
      <3> QED BY <2>2, <3>1
    <2> QED BY <2>2, <2>3, <2>4
  <1> HIDE DEF r
  <1>2. \A c \in 1..Len(r) : c + n \in 1..Len(kids) /\ r[c] = kids[c + n]
    BY <1>0, <1>1
  <1>3. ASSUME NEW c \in 1..Len(kids), c > n PROVE c - n \in 1..Len(r) /\ r[c - n] = kids[c]
    <2>1. c - n \in 1..Len(r) /\ (c - n) + n = c
      BY <1>0, <1>1, <1>3
    <2> QED BY <1>2, <2>1
  <1>4. Kids(r)
    <2>1. ASSUME NEW c \in 1..Len(r) PROVE KidOK(r[c])
      <3>1. c + n \in 1..Len(kids) /\ r[c] = kids[c + n]
        BY <1>2
      <3>2. KidOK(kids[c + n])
        BY <3>1 DEF Kids
      <3> QED BY <3>1, <3>2
    <2>2. ASSUME NEW c \in 1..Len(r), NEW d \in 1..Len(r), c < d PROVE r[c].MaxItem < r[d].MinItem
      <3>1. /\ c + n \in 1..Len(kids) /\ r[c] = kids[c + n]
            /\ d + n \in 1..Len(kids) /\ r[d] = kids[d + n] /\ c + n < d + n
        BY <1>1, <1>2, <2>2
      <3>2. kids[c + n].MaxItem < kids[d + n].MinItem
        BY <3>1 DEF Kids, Behind
      <3> QED BY <3>1, <3>2
    <2> QED BY <1>1, <2>1, <2>2 DEF Kids, Behind
  <1> QED BY <1>1, <1>2, <1>3, <1>4 DEF r

----
\* Cutting a child into pieces.
LEMMA DivIs ==
  ASSUME NEW a \in Nat, NEW b \in Nat \ {0}
  PROVE  /\ a \div b \in Nat /\ b * (a \div b) <= a /\ a < b * (a \div b) + b
         /\ \A q \in Nat : b * q <= a /\ a < b * q + b => a \div b = q
         /\ \A q \in Nat : b * q <= a => q <= a \div b
         /\ \A q \in Nat : a < b * q + b => a \div b <= q
  <1> DEFINE d == a \div b
  <1>1. d \in Nat /\ b * d <= a /\ a < b * d + b
    OBVIOUS
  <1> HIDE DEF d
  <1>2. ASSUME NEW q \in Nat, b * q <= a PROVE q <= d
    <2> SUFFICES ASSUME q >= d + 1 PROVE FALSE
      BY <1>1
    <2>1. b * q >= b * (d + 1)
      BY <1>1
    <2>2. b * (d + 1) = b * d + b
      BY <1>1
    <2> QED BY <1>1, <1>2, <2>1, <2>2
  <1>3. ASSUME NEW q \in Nat, a < b * q + b PROVE d <= q
    <2> SUFFICES ASSUME d >= q + 1 PROVE FALSE
      BY <1>1
    <2>1. b * d >= b * (q + 1)
      BY <1>1
    <2>2. b * (q + 1) = b * q + b
      OBVIOUS
    <2> QED BY <1>1, <1>3, <2>1, <2>2
  <1>4. \A q \in Nat : b * q <= a /\ a < b * q + b => d = q
    BY <1>1, <1>2, <1>3
  <1> QED BY <1>1, <1>2, <1>3, <1>4 DEF d

\* As many pieces as it takes for none to be longer than SplitLen.
LEMMA PartsAre ==
  ASSUME NEW L \in Nat, L > SplitLen
  PROVE  LET p == (L + SplitLen - 1) \div SplitLen
         IN  p \in Nat \ {0} /\ p <= L /\ L <= p * SplitLen
  <1> DEFINE S == SplitLen
             a == L + S - 1
             p == a \div S
  <1>1. S \in Nat \ {0} /\ a \in Nat /\ L > S
    BY SplitAssumption
  <1> HIDE DEF S
  <1>2. /\ p \in Nat /\ S * p <= a /\ a < S * p + S
        /\ \A q \in Nat : S * q <= a => q <= p
        /\ \A q \in Nat : a < S * q + S => p <= q
    <2> HIDE DEF a
    <2> QED BY <1>1, DivIs
  <1>3. 1 <= p
    <2>1. S * 1 <= a
      BY <1>1
    <2> QED BY <1>2, <2>1
  <1>4. p <= L
    <2>1. S * L >= L
      BY <1>1
    <2>2. a < S * L + S
      BY <1>1, <2>1
    <2> HIDE DEF p, a
    <2> QED BY <1>2, <2>2
  <1>5. L <= p * S
    <2>1. S * p = p * S
      BY <1>1, <1>2
    <2> QED BY <1>1, <1>2, <2>1
  <1>6. p \in Nat \ {0}
    <2> HIDE DEF p
    <2> QED BY <1>2, <1>3
  <1> QED BY <1>4, <1>5, <1>6 DEF S

LEMMA PartEndIs ==
  ASSUME NEW L \in Nat, NEW p \in Nat \ {0}, p <= L, L <= p * SplitLen
  PROVE  /\ PartEnd(L, p, 0) = 0 /\ PartEnd(L, p, p) = L
         /\ \A n \in 0..p : PartEnd(L, p, n) \in Nat
         /\ \A n \in 1..p : /\ PartEnd(L, p, n - 1) + 1 <= PartEnd(L, p, n)
                            /\ PartEnd(L, p, n) <= PartEnd(L, p, n - 1) + SplitLen
  <1> DEFINE S == SplitLen
             E(n) == PartEnd(L, p, n)
  <1>0. S \in Nat
    BY SplitAssumption
  <1>1. ASSUME NEW n \in Nat
        PROVE  /\ L * n \in Nat /\ E(n) \in Nat /\ p * E(n) <= L * n /\ L * n < p * E(n) + p
               /\ \A q \in Nat : p * q <= L * n => q <= E(n)
               /\ \A q \in Nat : L * n < p * q + p => E(n) <= q
               /\ \A q \in Nat : p * q <= L * n /\ L * n < p * q + p => E(n) = q
    <2> DEFINE a == L * n
    <2>1. a \in Nat
      OBVIOUS
    <2>2. E(n) = a \div p
      BY DEF PartEnd
    <2> HIDE DEF a, E
    <2>3. /\ a \div p \in Nat /\ p * (a \div p) <= a /\ a < p * (a \div p) + p
          /\ \A q \in Nat : p * q <= a => q <= a \div p
          /\ \A q \in Nat : a < p * q + p => a \div p <= q
          /\ \A q \in Nat : p * q <= a /\ a < p * q + p => a \div p = q
      BY <2>1, DivIs
    <2> QED BY <2>1, <2>2, <2>3 DEF a
  <1> HIDE DEF E, S
  <1>2. E(0) = 0
    <2>1. L * 0 = 0 /\ p * 0 = 0
      OBVIOUS
    <2> QED BY <1>1, <2>1
  <1>3. E(p) = L
    <2>1. L * p = p * L /\ p * L <= L * p /\ L * p < p * L + p
      OBVIOUS
    <2> QED BY <1>1, <2>1
  <1>4. ASSUME NEW n \in 1..p PROVE E(n - 1) + 1 <= E(n) /\ E(n) <= E(n - 1) + S
    <2> DEFINE e == E(n - 1)
               m == n - 1
    <2>1. m \in Nat /\ n \in Nat /\ n = m + 1 /\ L * n = L * m + L
      OBVIOUS
    <2>2. e \in Nat /\ p * e <= L * m /\ L * m < p * e + p
      BY <1>1, <2>1
    <2> HIDE DEF e, m
    <2>3. e + 1 <= E(n)
      <3>1. p * (e + 1) = p * e + p
        BY <2>2
      <3>2. p * (e + 1) <= L * n
        BY <2>1, <2>2, <3>1
      <3>3. e + 1 \in Nat
        BY <2>2
      <3> QED BY <1>1, <2>1, <3>2, <3>3
    <2>4. E(n) <= e + S
      <3>1. p * (e + S) = p * e + p * S
        BY <1>0, <2>2
      <3>2. L <= p * S /\ p * S \in Nat /\ p * e \in Nat /\ L * m \in Nat
        BY <1>0, <2>1, <2>2 DEF S
      <3>3. L * n < p * (e + S) + p
        BY <2>1, <2>2, <3>1, <3>2
      <3>4. e + S \in Nat
        BY <1>0, <2>2
      <3> QED BY <1>1, <2>1, <3>3, <3>4
    <2> QED BY <2>3, <2>4 DEF e, m
  <1>5. \A n \in 0..p : E(n) \in Nat
    <2> SUFFICES ASSUME NEW n \in 0..p PROVE E(n) \in Nat
      OBVIOUS
    <2>1. n \in Nat
      OBVIOUS
    <2> QED BY <1>1, <2>1
  <1> QED BY <1>2, <1>3, <1>4, <1>5 DEF E, S

\* A part of a vector, from one place to another.
LEMMA PartIs ==
  ASSUME NEW S, NEW v \in Seq(S), NEW a \in Nat, NEW b \in Nat, a <= b, b <= Len(v)
  PROVE  LET w == SubSeq(v, a + 1, b)
         IN  /\ w \in Seq(S) /\ Len(w) = b - a
             /\ \A n \in 1..Len(w) : a + n \in 1..Len(v) /\ w[n] = v[a + n]
             /\ \A n \in 1..Len(v) : a < n /\ n <= b => n - a \in 1..Len(w) /\ w[n - a] = v[n]
  <1> DEFINE w == SubSeq(v, a + 1, b)
  <1>0. Len(v) \in Nat /\ \A n \in 1..Len(v) : v[n] \in S
    OBVIOUS
  <1>1. a + 1 \in Int /\ b \in Int /\ \A n \in a + 1..b : v[n] \in S
    BY <1>0
  <1>2. /\ w \in Seq(S) /\ Len(w) = IF a + 1 <= b THEN b - (a + 1) + 1 ELSE 0
        /\ \A n \in 1..b - (a + 1) + 1 : w[n] = v[(a + 1) + n - 1]
    BY <1>1, SubSeqProperties
  <1> HIDE DEF w
  <1>3. Len(w) = b - a
    BY <1>2
  <1>4. ASSUME NEW n \in 1..Len(w) PROVE a + n \in 1..Len(v) /\ w[n] = v[a + n]
    <2>1. n \in 1..b - (a + 1) + 1 /\ (a + 1) + n - 1 = a + n /\ a + n \in 1..Len(v)
      BY <1>0, <1>3
    <2> QED BY <1>2, <2>1
  <1>5. ASSUME NEW n \in 1..Len(v), a < n, n <= b PROVE n - a \in 1..Len(w) /\ w[n - a] = v[n]
    <2>1. n - a \in 1..Len(w) /\ a + (n - a) = n
      BY <1>3, <1>5
    <2> QED BY <1>4, <2>1
  <1> QED BY <1>2, <1>3, <1>4, <1>5 DEF w

LEMMA PartOrdered ==
  ASSUME NEW v \in Seq(Item), NEW a \in Nat, NEW b \in Nat, a <= b, b <= Len(v), Ordered(v)
  PROVE  Ordered(SubSeq(v, a + 1, b))
  <1> DEFINE w == SubSeq(v, a + 1, b)
  <1>1. Len(w) = b - a /\ \A n \in 1..Len(w) : a + n \in 1..Len(v) /\ w[n] = v[a + n]
    BY PartIs
  <1> HIDE DEF w
  <1>2. ASSUME NEW m \in 1..Len(w), NEW n \in 1..Len(w), m < n PROVE w[m].id < w[n].id
    <2>1. a + m < a + n
      BY <1>1, <1>2
    <2>2. v[a + m].id < v[a + n].id
      BY <1>1, <2>1 DEF Ordered
    <2> QED BY <1>1, <2>2
  <1> QED BY <1>2 DEF Ordered, w

LEMMA PiecesAre ==
  ASSUME NEW v \in Seq(Item), Ordered(v), NEW p \in Nat \ {0}, p <= Len(v), Len(v) <= p * SplitLen
  PROVE  LET w == Pieces(v, p)
         IN  /\ w \in Seq(Seq(Item)) /\ Len(w) = p
             /\ \A n \in 1..p : w[n] \in Seq(Item) /\ w[n] # <<>> /\ Len(w[n]) \in 1..SplitLen
                                /\ Ordered(w[n])
             /\ \A n \in 1..p : \A j \in 1..Len(w[n]) : \E m \in 1..Len(v) : w[n][j] = v[m]
             /\ \A m \in 1..Len(v) : \E n \in 1..p : \E j \in 1..Len(w[n]) : w[n][j] = v[m]
             /\ \A c, d \in 1..p : c < d =>
                  \A i \in 1..Len(w[c]), j \in 1..Len(w[d]) : w[c][i].id < w[d][j].id
  <1> DEFINE L == Len(v)
             E(n) == PartEnd(L, p, n)
             w == Pieces(v, p)
             u(n) == SubSeq(v, E(n - 1) + 1, E(n))
  <1>1. L \in Nat
    OBVIOUS
  <1>2. /\ E(0) = 0 /\ E(p) = L /\ \A n \in 0..p : E(n) \in Nat
        /\ \A n \in 1..p : E(n - 1) + 1 <= E(n) /\ E(n) <= E(n - 1) + SplitLen
    BY <1>1, PartEndIs
  <1>3. w = [n \in 1..p |-> u(n)]
    BY DEF Pieces
  <1> HIDE DEF E, w
  \* The ends grow.
  <1>4. \A m, n \in 0..p : m <= n => E(m) <= E(n)
    <2> DEFINE T == {d \in Nat : \A m \in 0..p : m + d <= p => E(m) <= E(m + d)}
    <2>1. 0 \in T
      <3>1. \A m \in 0..p : m + 0 = m /\ E(m) <= E(m)
        BY <1>2
      <3> QED BY <3>1
    <2>2. ASSUME NEW d \in Nat, d \in T PROVE d + 1 \in T
      <3> SUFFICES ASSUME NEW m \in 0..p, m + (d + 1) <= p PROVE E(m) <= E(m + (d + 1))
        OBVIOUS
      <3> DEFINE k == m + (d + 1)
      <3>1. k \in 1..p /\ k - 1 = m + d /\ k \in 0..p /\ k - 1 \in 0..p /\ m + d <= p
        OBVIOUS
      <3> HIDE DEF k
      <3>2. E(m) <= E(k - 1)
        BY <2>2, <3>1
      <3>3. E(k - 1) + 1 <= E(k) /\ E(k) \in Nat /\ E(k - 1) \in Nat /\ E(m) \in Nat
        BY <1>2, <3>1
      <3>4. E(m) <= E(k)
        BY <3>2, <3>3
      <3> QED BY <3>4 DEF k
    <2>3. \A d \in Nat : d \in T
      <3> HIDE DEF T
      <3> QED BY <2>1, <2>2, ByInduction
    <2>4. ASSUME NEW m \in 0..p, NEW n \in 0..p, m <= n PROVE E(m) <= E(n)
      <3> DEFINE d == n - m
      <3>1. d \in Nat /\ m + d <= p /\ m + d = n
        BY <2>4
      <3> HIDE DEF d
      <3>2. E(m) <= E(m + d)
        BY <2>3, <3>1
      <3> QED BY <3>1, <3>2
    <2> QED BY <2>4
  <1>5. ASSUME NEW n \in 1..p
        PROVE  /\ E(n - 1) \in Nat /\ E(n) \in Nat /\ E(n - 1) <= E(n) /\ E(n) <= L
               /\ E(n) - E(n - 1) \in 1..SplitLen /\ n - 1 \in 0..p
    <2>1. n \in 0..p /\ n - 1 \in 0..p /\ p \in 0..p /\ n <= p
      OBVIOUS
    <2>2. E(n - 1) \in Nat /\ E(n) \in Nat /\ E(n) <= E(p)
      BY <1>2, <1>4, <2>1
    <2>3. E(n - 1) + 1 <= E(n) /\ E(n) <= E(n - 1) + SplitLen /\ SplitLen \in Nat
      BY <1>2, SplitAssumption
    <2>4. E(n) <= L
      BY <1>2, <2>2
    <2> HIDE DEF L
    <2>5. E(n) - E(n - 1) \in 1..SplitLen
      BY <2>2, <2>3
    <2>6. E(n - 1) <= E(n)
      BY <2>2, <2>3
    <2> QED BY <2>1, <2>2, <2>4, <2>5, <2>6
  <1>6. ASSUME NEW n \in 1..p
        PROVE  /\ u(n) \in Seq(Item) /\ Len(u(n)) = E(n) - E(n - 1) /\ Ordered(u(n))
               /\ \A j \in 1..Len(u(n)) : E(n - 1) + j \in 1..L /\ u(n)[j] = v[E(n - 1) + j]
               /\ \A m \in 1..L : E(n - 1) < m /\ m <= E(n) =>
                    m - E(n - 1) \in 1..Len(u(n)) /\ u(n)[m - E(n - 1)] = v[m]
    <2> DEFINE a == E(n - 1)
               b == E(n)
    <2>1. a \in Nat /\ b \in Nat /\ a <= b /\ b <= Len(v)
      BY <1>5
    <2> HIDE DEF a, b
    <2> DEFINE x == SubSeq(v, a + 1, b)
    <2>2. /\ x \in Seq(Item) /\ Len(x) = b - a
          /\ \A j \in 1..Len(x) : a + j \in 1..Len(v) /\ x[j] = v[a + j]
          /\ \A m \in 1..Len(v) : a < m /\ m <= b => m - a \in 1..Len(x) /\ x[m - a] = v[m]
      <3> HIDE DEF L
      <3> QED BY <2>1, PartIs, SMTT(60)
    <2>3. Ordered(x)
      BY <2>1, PartOrdered
    <2>4. x = u(n)
      BY DEF a, b
    <2> HIDE DEF x, u
    <2> QED BY <2>2, <2>3, <2>4 DEF a, b
  <1> HIDE DEF u
  <1>7. ASSUME NEW n \in 1..p
        PROVE  u(n) # <<>> /\ Len(u(n)) \in 1..SplitLen
    <2>1. Len(u(n)) \in 1..SplitLen
      BY <1>5, <1>6
    <2> QED BY <2>1
  <1>8. \A n \in 1..p : w[n] = u(n)
    BY <1>3
  <1>9. w \in Seq(Seq(Item)) /\ Len(w) = p
    <2>1. \A n \in 1..p : u(n) \in Seq(Item)
      BY <1>6
    <2>2. [n \in 1..p |-> u(n)] \in Seq(Seq(Item)) /\ Len([n \in 1..p |-> u(n)]) = p
      BY <2>1
    <2> QED BY <1>3, <2>2
  <1>10. ASSUME NEW n \in 1..p, NEW j \in 1..Len(u(n)) PROVE \E m \in 1..L : u(n)[j] = v[m]
    <2>1. E(n - 1) + j \in 1..L /\ u(n)[j] = v[E(n - 1) + j]
      BY <1>6
    <2> QED BY <2>1
  <1>11. ASSUME NEW m \in 1..L PROVE \E n \in 1..p : \E j \in 1..Len(u(n)) : u(n)[j] = v[m]
    <2> DEFINE A == {n \in 1..p : m <= E(n)}
    <2>1. A \in SUBSET Nat /\ p \in A
      BY <1>2
    <2> HIDE DEF A
    <2>2. PICK n \in A : \A k \in A : n <= k
      BY <2>1, LeastIs
    <2>3. n \in 1..p /\ m <= E(n)
      BY <2>2 DEF A
    <2>4. E(n - 1) < m
      <3>1. CASE n = 1
        <4>1. n - 1 = 0
          BY <3>1
        <4> QED BY <1>2, <4>1
      <3>2. CASE n # 1
        <4>1. n - 1 \in 1..p /\ ~(n <= n - 1)
          BY <2>3, <3>2
        <4>2. n - 1 \notin A
          BY <2>2, <4>1
        <4>3. ~(m <= E(n - 1)) /\ E(n - 1) \in Nat
          BY <1>5, <2>3, <4>1, <4>2 DEF A
        <4> QED BY <4>3
      <3> QED BY <3>1, <3>2
    <2>5. m - E(n - 1) \in 1..Len(u(n)) /\ u(n)[m - E(n - 1)] = v[m]
      BY <1>6, <2>3, <2>4
    <2> QED BY <2>3, <2>5
  <1>12. ASSUME NEW c \in 1..p, NEW d \in 1..p, c < d, NEW i \in 1..Len(u(c)), NEW j \in 1..Len(u(d))
         PROVE  u(c)[i].id < u(d)[j].id
    <2>1. /\ E(c - 1) + i \in 1..L /\ u(c)[i] = v[E(c - 1) + i]
          /\ E(d - 1) + j \in 1..L /\ u(d)[j] = v[E(d - 1) + j]
      BY <1>6
    <2>2. c \in 0..p /\ d - 1 \in 0..p /\ c <= d - 1
      BY <1>12
    <2>3. E(c) <= E(d - 1) /\ E(d - 1) \in Nat /\ E(c - 1) \in Nat /\ E(c) \in Nat
      BY <1>4, <1>5, <2>2
    <2>4. Len(u(c)) = E(c) - E(c - 1)
      BY <1>6
    <2>5. E(c - 1) + i < E(d - 1) + j
      BY <2>3, <2>4
    <2>6. v[E(c - 1) + i].id < v[E(d - 1) + j].id
      BY <2>1, <2>5 DEF Ordered
    <2> QED BY <2>1, <2>6
  <1>13. \A n \in 1..p : /\ w[n] \in Seq(Item) /\ w[n] # <<>> /\ Len(w[n]) \in 1..SplitLen
                         /\ Ordered(w[n])
    BY <1>6, <1>7, <1>8
  <1>14. \A n \in 1..p : \A j \in 1..Len(w[n]) : \E m \in 1..L : w[n][j] = v[m]
    BY <1>8, <1>10
  <1>15. \A m \in 1..L : \E n \in 1..p : \E j \in 1..Len(w[n]) : w[n][j] = v[m]
    BY <1>8, <1>11
  <1>16. \A c, d \in 1..p : c < d =>
           \A i \in 1..Len(w[c]), j \in 1..Len(w[d]) : w[c][i].id < w[d][j].id
    BY <1>8, <1>12
  <1> QED BY <1>9, <1>13, <1>14, <1>15, <1>16 DEF w

\* A vector all of which is cut into pieces.
LEMMA CutIs ==
  ASSUME NEW k, KidOK(k), k.Len > SplitLenMax
  PROVE  LET f == Cut(k, Pieces(Vec(k), (k.Len + SplitLen - 1) \div SplitLen))
         IN  /\ Kids(f)
             /\ \A j \in 1..Len(f) : /\ f[j].Len <= SplitLenMax
                                     /\ k.MinItem <= f[j].MinItem /\ f[j].MaxItem <= k.MaxItem
             /\ \A x : InKids(f, x) <=> x \in Vals(Vec(k))
  <1> DEFINE v == Vec(k)
             p == (k.Len + SplitLen - 1) \div SplitLen
             w == Pieces(v, p)
             f == Cut(k, w)
  <1>1. /\ k \in Child /\ v \in Seq(Item) /\ k.Len = Len(v) /\ Ordered(v) /\ Len(v) \in Nat
        /\ \A m \in 1..Len(v) : v[m].id \in Nat /\ k.MinItem <= v[m].id /\ v[m].id <= k.MaxItem
    <2>1. /\ k \in Child /\ v \in Seq(Item) /\ k.Len = Len(v) /\ Ordered(v)
          /\ \A m \in 1..Len(v) : v[m].id \in Nat /\ k.MinItem <= v[m].id /\ v[m].id <= k.MaxItem
      BY KidIs
    <2> QED BY <2>1
  <1> HIDE DEF v
  <1>2. SplitLen \in Nat /\ SplitLenMax \in Nat /\ SplitLen <= SplitLenMax /\ Len(v) > SplitLen
    BY <1>1, SplitAssumption
  <1>3. p \in Nat \ {0} /\ p <= Len(v) /\ Len(v) <= p * SplitLen
    <2> DEFINE L == k.Len
    <2>1. L \in Nat /\ L > SplitLen
      BY <1>1, <1>2
    <2> HIDE DEF L
    <2>2. LET y == (L + SplitLen - 1) \div SplitLen
          IN  y \in Nat \ {0} /\ y <= L /\ L <= y * SplitLen
      BY <2>1, PartsAre
    <2> QED BY <1>1, <2>2 DEF L
  <1> HIDE DEF p
  <1>4. /\ w \in Seq(Seq(Item)) /\ Len(w) = p
        /\ \A n \in 1..p : w[n] \in Seq(Item) /\ w[n] # <<>> /\ Len(w[n]) \in 1..SplitLen
                           /\ Ordered(w[n])
        /\ \A n \in 1..p : \A j \in 1..Len(w[n]) : \E m \in 1..Len(v) : w[n][j] = v[m]
        /\ \A m \in 1..Len(v) : \E n \in 1..p : \E j \in 1..Len(w[n]) : w[n][j] = v[m]
        /\ \A c, d \in 1..p : c < d =>
             \A i \in 1..Len(w[c]), j \in 1..Len(w[d]) : w[c][i].id < w[d][j].id
    BY <1>1, <1>3, PiecesAre
  <1> HIDE DEF w
  <1>5. f = [n \in 1..p |-> IF n = 1 THEN Rebound(k, w[n]) ELSE Enlisted(w[n])]
    <2>1. DOMAIN w = 1..p
      BY <1>4
    <2> QED BY <2>1 DEF Cut
  <1> HIDE DEF f
  <1>6. ASSUME NEW n \in 1..p
        PROVE  /\ KidOK(f[n]) /\ f[n] \in Child /\ Vec(f[n]) = w[n] /\ f[n].Len <= SplitLenMax
               /\ f[n].MinItem = w[n][1].id /\ f[n].MaxItem = w[n][Len(w[n])].id
               /\ 1 \in 1..Len(w[n]) /\ Len(w[n]) \in 1..Len(w[n])
    <2> DEFINE y == w[n]
    <2>1. y \in Seq(Item) /\ y # <<>> /\ Len(y) \in 1..SplitLen /\ Ordered(y)
      BY <1>4
    <2>2. f[n] = IF n = 1 THEN Rebound(k, y) ELSE Enlisted(y)
      BY <1>5
    <2> HIDE DEF y
    <2>3. /\ 1 \in 1..Len(y) /\ Len(y) \in 1..Len(y) /\ Last(y) = y[Len(y)]
      BY <2>1, Ends
    <2>4. /\ KidOK(f[n]) /\ Vec(f[n]) = y /\ f[n].Len = Len(y)
          /\ f[n].MinItem = y[1].id /\ f[n].MaxItem = Last(y).id
      <3>1. CASE n = 1
        BY <1>1, <2>1, <2>2, <3>1, ReboundIs
      <3>2. CASE n # 1
        BY <2>1, <2>2, <3>2, EnlistedIs
      <3> QED BY <3>1, <3>2
    <2>5. f[n].Len <= SplitLenMax
      BY <1>2, <2>1, <2>4
    <2>6. f[n] \in Child
      BY <2>4 DEF KidOK
    <2> QED BY <2>3, <2>4, <2>5, <2>6 DEF y
  <1>7. f \in Seq(Child) /\ Len(f) = p
    <2> DEFINE e(n) == IF n = 1 THEN Rebound(k, w[n]) ELSE Enlisted(w[n])
    <2>1. \A n \in 1..p : e(n) \in Child
      BY <1>5, <1>6
    <2>2. f = [n \in 1..p |-> e(n)]
      BY <1>5
    <2> HIDE DEF e
    <2> QED BY <1>3, <2>1, <2>2
  <1>8. ASSUME NEW c \in 1..p, NEW d \in 1..p, c < d PROVE f[c].MaxItem < f[d].MinItem
    <2>1. w[c][Len(w[c])].id < w[d][1].id
      BY <1>4, <1>6, <1>8
    <2> QED BY <1>6, <2>1
  <1>9. Kids(f)
    BY <1>6, <1>7, <1>8 DEF Kids, Behind
  <1>10. ASSUME NEW n \in 1..p PROVE k.MinItem <= f[n].MinItem /\ f[n].MaxItem <= k.MaxItem
    <2>1. PICK m \in 1..Len(v) : w[n][1] = v[m]
      BY <1>4, <1>6
    <2>2. PICK m2 \in 1..Len(v) : w[n][Len(w[n])] = v[m2]
      BY <1>4, <1>6
    <2> QED BY <1>1, <1>6, <2>1, <2>2
  <1>11. ASSUME NEW x, InKids(f, x) PROVE x \in Vals(v)
    <2>1. PICK n \in 1..p : x \in Vals(Vec(f[n]))
      BY <1>7, <1>11 DEF InKids
    <2>2. PICK j \in 1..Len(w[n]) : x = w[n][j]
      BY <1>6, <2>1 DEF Vals
    <2>3. PICK m \in 1..Len(v) : w[n][j] = v[m]
      BY <1>4
    <2> QED BY <2>2, <2>3 DEF Vals
  <1>12. ASSUME NEW x, x \in Vals(v) PROVE InKids(f, x)
    <2>1. PICK m \in 1..Len(v) : x = v[m]
      BY <1>12 DEF Vals
    <2>2. PICK n \in 1..p : \E j \in 1..Len(w[n]) : w[n][j] = v[m]
      BY <1>4
    <2>3. PICK j \in 1..Len(w[n]) : w[n][j] = v[m]
      BY <2>2
    <2>4. x \in Vals(w[n])
      BY <2>1, <2>3 DEF Vals
    <2>5. x \in Vals(Vec(f[n]))
      BY <1>6, <2>4
    <2> QED BY <1>7, <2>5 DEF InKids
  <1>13. \A j \in 1..Len(f) : /\ f[j].Len <= SplitLenMax
                              /\ k.MinItem <= f[j].MinItem /\ f[j].MaxItem <= k.MaxItem
    BY <1>6, <1>7, <1>10
  <1> QED BY <1>9, <1>11, <1>12, <1>13 DEF f, w, p, v

LEMMA OneKid ==
  ASSUME NEW k, KidOK(k)
  PROVE  Kids(<<k>>) /\ \A x : InKids(<<k>>, x) <=> x \in Vals(Vec(k))
  <1>1. k \in Child
    BY DEF KidOK
  <1>2. <<k>> \in Seq(Child) /\ Len(<<k>>) = 1 /\ <<k>>[1] = k /\ 1 \in 1..1 /\ \A c \in 1..1 : c = 1
    BY <1>1
  <1> DEFINE f == <<k>>
  <1>3. f \in Seq(Child) /\ Len(f) = 1 /\ f[1] = k /\ \A c \in 1..Len(f) : c = 1
    BY <1>2
  <1> HIDE DEF f
  <1>4. Kids(f)
    <2>1. \A c \in 1..Len(f) : KidOK(f[c])
      BY <1>3
    <2>2. \A c, d \in 1..Len(f) : ~(c < d)
      BY <1>3
    <2> QED BY <1>3, <2>1, <2>2 DEF Kids, Behind
  <1>5. ASSUME NEW x PROVE InKids(f, x) <=> x \in Vals(Vec(k))
    BY <1>3 DEF InKids
  <1> QED BY <1>4, <1>5 DEF f

LEMMA CutChildIs ==
  ASSUME NEW k, KidOK(k)
  PROVE  /\ Kids(CutChild(k))
         /\ \A j \in 1..Len(CutChild(k)) :
              /\ CutChild(k)[j].Len <= SplitLenMax
              /\ k.MinItem <= CutChild(k)[j].MinItem /\ CutChild(k)[j].MaxItem <= k.MaxItem
         /\ \A x : InKids(CutChild(k), x) <=> x \in Vals(Vec(k))
  <1>0. k \in Child /\ k.MinItem \in Nat /\ k.MaxItem \in Nat /\ k.Len \in Nat /\ SplitLenMax \in Nat
    <2>1. k \in Child
      BY DEF KidOK
    <2> QED BY <2>1, ChildIs, SplitAssumption
  <1> DEFINE f == CutChild(k)
  <1>1. CASE k.Len <= SplitLenMax
    <2>1. f = <<k>>
      BY <1>1 DEF CutChild
    <2>2. Kids(f) /\ \A x : InKids(f, x) <=> x \in Vals(Vec(k))
      BY <2>1, OneKid
    <2>3. \A j \in 1..Len(f) : f[j] = k
      BY <2>1
    <2> HIDE DEF f
    <2>4. \A j \in 1..Len(f) : /\ f[j].Len <= SplitLenMax
                               /\ k.MinItem <= f[j].MinItem /\ f[j].MaxItem <= k.MaxItem
      BY <1>0, <1>1, <2>3
    <2> QED BY <2>2, <2>4 DEF f
  <1>2. CASE ~(k.Len <= SplitLenMax)
    <2> DEFINE g == Cut(k, Pieces(Vec(k), (k.Len + SplitLen - 1) \div SplitLen))
    <2>1. f = g
      BY <1>2 DEF CutChild
    <2>2. k.Len > SplitLenMax
      BY <1>0, <1>2
    <2>3. /\ Kids(g)
          /\ \A j \in 1..Len(g) : /\ g[j].Len <= SplitLenMax
                                  /\ k.MinItem <= g[j].MinItem /\ g[j].MaxItem <= k.MaxItem
          /\ \A x : InKids(g, x) <=> x \in Vals(Vec(k))
      BY <2>2, CutIs
    <2> HIDE DEF f, g
    <2> QED BY <2>1, <2>3 DEF f
  <1> QED BY <1>1, <1>2

LEMMA SplitAre ==
  ASSUME NEW s \in Rec, Kids(s.ChildInfoV), s.Blobs = Len(s.ChildInfoV)
  PROVE  LET r == SplitOversizedChildren(s)
         IN  /\ r \in Rec /\ Kids(r.ChildInfoV) /\ r.Blobs = Len(r.ChildInfoV)
             /\ r.ItemV = s.ItemV /\ r.ItemVDel = s.ItemVDel /\ r.MergedP = s.MergedP
             /\ r.DeleteMarkerP = s.DeleteMarkerP /\ r.DirtyP = TRUE
             /\ \A j \in 1..Len(r.ChildInfoV) :
                  /\ r.ChildInfoV[j].Len <= SplitLenMax
                  /\ \E c \in 1..Len(s.ChildInfoV) :
                       r.ChildInfoV[j].MaxItem <= s.ChildInfoV[c].MaxItem
             /\ \A x : InKids(r.ChildInfoV, x) <=> InKids(s.ChildInfoV, x)
  <1> DEFINE kids == s.ChildInfoV
             N == Len(kids)
             f == [c \in 1..N |-> CutChild(kids[c])]
             t == Chained(f)
             r == SplitOversizedChildren(s)
             R == {p \in Child \X Child : p[1].MaxItem < p[2].MinItem}
  <1>1. /\ N \in Nat /\ DOMAIN kids = 1..N
        /\ \A c \in 1..N : KidOK(kids[c]) /\ kids[c].MinItem \in Nat /\ kids[c].MaxItem \in Nat
        /\ \A c, d \in 1..N : c < d => kids[c].MaxItem < kids[d].MinItem
    BY KidsAre
  <1>2. r = [s EXCEPT !.ChildInfoV = t, !.Blobs = s.Blobs + Len(t) - N, !.DirtyP = TRUE]
    <2>1. SplitOversizedChildren(s) = WithChildren(s, t)
      BY <1>1 DEF SplitOversizedChildren
    <2> HIDE DEF t
    <2>2. WithChildren(s, t) = [s EXCEPT !.ChildInfoV = t, !.Blobs = s.Blobs + Len(t) - N, !.DirtyP = TRUE]
      BY DEF WithChildren, Rec
    <2> QED BY <2>1, <2>2
  <1>3. \A c \in 1..N :
          /\ f[c] = CutChild(kids[c]) /\ Kids(f[c]) /\ f[c] \in Seq(Child)
          /\ \A j \in 1..Len(f[c]) : /\ f[c][j].Len <= SplitLenMax
                                     /\ kids[c].MinItem <= f[c][j].MinItem
                                     /\ f[c][j].MaxItem <= kids[c].MaxItem
          /\ \A x : InKids(f[c], x) <=> x \in Vals(Vec(kids[c]))
    <2> SUFFICES ASSUME NEW c \in 1..N
                 PROVE  /\ f[c] = CutChild(kids[c]) /\ Kids(f[c]) /\ f[c] \in Seq(Child)
                        /\ \A j \in 1..Len(f[c]) : /\ f[c][j].Len <= SplitLenMax
                                                   /\ kids[c].MinItem <= f[c][j].MinItem
                                                   /\ f[c][j].MaxItem <= kids[c].MaxItem
                        /\ \A x : InKids(f[c], x) <=> x \in Vals(Vec(kids[c]))
      OBVIOUS
    <2>1. f[c] = CutChild(kids[c])
      OBVIOUS
    <2>2. KidOK(kids[c])
      BY <1>1
    <2> HIDE DEF f
    <2>3. Kids(f[c]) => f[c] \in Seq(Child)
      BY DEF Kids
    <2> QED BY <2>1, <2>2, <2>3, CutChildIs
  <1>4. f \in Seq(Seq(Child)) /\ Len(f) = N
    <2>1. \A c \in 1..N : CutChild(kids[c]) \in Seq(Child)
      BY <1>3
    <2> QED BY <1>1, <2>1
  <1> HIDE DEF f
  <1>5. \A c \in 1..N : \A j \in 1..Len(f[c]) :
          /\ f[c][j] \in Child /\ KidOK(f[c][j])
          /\ f[c][j].MinItem \in Nat /\ f[c][j].MaxItem \in Nat
    BY <1>3, KidsAre
  <1>6. \A c \in 1..N : \A m, n \in 1..Len(f[c]) : m < n => <<f[c][m], f[c][n]>> \in R
    <2> SUFFICES ASSUME NEW c \in 1..N, NEW m \in 1..Len(f[c]), NEW n \in 1..Len(f[c]), m < n
                 PROVE  <<f[c][m], f[c][n]>> \in R
      OBVIOUS
    <2>1. f[c][m].MaxItem < f[c][n].MinItem
      BY <1>3 DEF Kids, Behind
    <2> QED BY <1>5, <2>1
  <1>7. \A c, d \in 1..N : c < d =>
          \A m \in 1..Len(f[c]), n \in 1..Len(f[d]) : <<f[c][m], f[d][n]>> \in R
    <2> SUFFICES ASSUME NEW c \in 1..N, NEW d \in 1..N, c < d,
                        NEW m \in 1..Len(f[c]), NEW n \in 1..Len(f[d])
                 PROVE  <<f[c][m], f[d][n]>> \in R
      OBVIOUS
    <2> DEFINE a == f[c][m]
               b == f[d][n]
    <2>1. a.MaxItem <= kids[c].MaxItem /\ kids[d].MinItem <= b.MinItem
      BY <1>3
    <2>2. kids[c].MaxItem < kids[d].MinItem
      BY <1>1
    <2>3. a \in Child /\ b \in Child /\ a.MaxItem \in Nat /\ b.MinItem \in Nat
      BY <1>5
    <2>4. kids[c].MaxItem \in Nat /\ kids[d].MinItem \in Nat
      BY <1>1
    <2> HIDE DEF a, b
    <2>5. a.MaxItem < b.MinItem
      BY <2>1, <2>2, <2>3, <2>4
    <2>6. <<a, b>> \in R
      BY <2>3, <2>5
    <2> QED BY <2>6 DEF a, b
  <1> HIDE DEF R
  <1>8. /\ t \in Seq(Child)
        /\ \A j \in 1..Len(t) : \E c \in 1..N : \E m \in 1..Len(f[c]) : t[j] = f[c][m]
        /\ \A c \in 1..N : \A m \in 1..Len(f[c]) : \E j \in 1..Len(t) : t[j] = f[c][m]
        /\ \A i, j \in 1..Len(t) : i < j => <<t[i], t[j]>> \in R
    <2> HIDE DEF t
    <2>1. /\ f \in Seq(Seq(Child))
          /\ \A c \in 1..Len(f) : \A m, n \in 1..Len(f[c]) : m < n => <<f[c][m], f[c][n]>> \in R
          /\ \A c, d \in 1..Len(f) : c < d =>
               \A m \in 1..Len(f[c]), n \in 1..Len(f[d]) : <<f[c][m], f[d][n]>> \in R
      BY <1>4, <1>6, <1>7
    <2> HIDE DEF N
    <2>2. /\ Chained(f) \in Seq(Child)
          /\ \A j \in 1..Len(Chained(f)) : \E c \in 1..Len(f) : \E m \in 1..Len(f[c]) :
               Chained(f)[j] = f[c][m]
          /\ \A c \in 1..Len(f) : \A m \in 1..Len(f[c]) : \E j \in 1..Len(Chained(f)) :
               Chained(f)[j] = f[c][m]
          /\ \A i, j \in 1..Len(Chained(f)) : i < j => <<Chained(f)[i], Chained(f)[j]>> \in R
      BY <2>1, ChainIs
    <2>3. Len(f) = N
      BY <1>4
    <2> QED BY <2>2, <2>3 DEF t
  <1> HIDE DEF t
  <1>9. Kids(t)
    <2>1. ASSUME NEW j \in 1..Len(t) PROVE KidOK(t[j])
      <3>1. PICK c \in 1..N : \E m \in 1..Len(f[c]) : t[j] = f[c][m]
        BY <1>8
      <3> QED BY <1>5, <3>1
    <2>2. ASSUME NEW i \in 1..Len(t), NEW j \in 1..Len(t), i < j PROVE t[i].MaxItem < t[j].MinItem
      <3>1. <<t[i], t[j]>> \in R
        BY <1>8, <2>2
      <3> QED BY <3>1 DEF R
    <2> QED BY <1>8, <2>1, <2>2 DEF Kids, Behind
  <1>10. ASSUME NEW j \in 1..Len(t)
         PROVE  t[j].Len <= SplitLenMax /\ \E c \in 1..N : t[j].MaxItem <= kids[c].MaxItem
    <2>1. PICK c \in 1..N : \E m \in 1..Len(f[c]) : t[j] = f[c][m]
      BY <1>8
    <2>2. PICK m \in 1..Len(f[c]) : t[j] = f[c][m]
      BY <2>1
    <2>3. f[c][m].Len <= SplitLenMax /\ f[c][m].MaxItem <= kids[c].MaxItem
      BY <1>3
    <2> QED BY <2>2, <2>3
  <1>11. ASSUME NEW x, InKids(t, x) PROVE InKids(kids, x)
    <2>1. PICK j \in 1..Len(t) : x \in Vals(Vec(t[j]))
      BY <1>11 DEF InKids
    <2>2. PICK c \in 1..N : \E m \in 1..Len(f[c]) : t[j] = f[c][m]
      BY <1>8
    <2>3. PICK m \in 1..Len(f[c]) : t[j] = f[c][m]
      BY <2>2
    <2>4. InKids(f[c], x)
      BY <2>1, <2>3 DEF InKids
    <2>5. x \in Vals(Vec(kids[c]))
      BY <1>3, <2>4
    <2> QED BY <2>5 DEF InKids
  <1>12. ASSUME NEW x, InKids(kids, x) PROVE InKids(t, x)
    <2>1. PICK c \in 1..N : x \in Vals(Vec(kids[c]))
      BY <1>12 DEF InKids
    <2>2. InKids(f[c], x)
      BY <1>3, <2>1
    <2>3. PICK m \in 1..Len(f[c]) : x \in Vals(Vec(f[c][m]))
      BY <2>2 DEF InKids
    <2>4. PICK j \in 1..Len(t) : t[j] = f[c][m]
      BY <1>8
    <2>5. x \in Vals(Vec(t[j]))
      BY <2>3, <2>4
    <2> QED BY <2>5 DEF InKids
  <1> HIDE DEF r
  <1>13. /\ r \in Rec /\ r.ChildInfoV = t /\ r.Blobs = Len(t) /\ r.DirtyP = TRUE
         /\ r.ItemV = s.ItemV /\ r.ItemVDel = s.ItemVDel /\ r.MergedP = s.MergedP
         /\ r.DeleteMarkerP = s.DeleteMarkerP
    <2>1. Len(t) \in Nat /\ s.Blobs + Len(t) - N = Len(t)
      BY <1>1, <1>8
    <2>2. t \in Seq(Child)
      BY <1>8
    <2> DEFINE v == s.ItemV
               b == Len(t)
    <2>3. v \in Seq(Item) /\ b \in Int
      BY <2>1 DEF Rec
    <2>4. s = [s EXCEPT !.ItemV = v]
      BY DEF Rec
    <2>5. r = [s EXCEPT !.ChildInfoV = t, !.ItemV = v, !.Blobs = b, !.DirtyP = TRUE]
      BY <1>2, <2>1, <2>4 DEF Rec
    <2> HIDE DEF v, b
    <2> DEFINE d == TRUE
               q == [s EXCEPT !.ChildInfoV = t, !.ItemV = v, !.Blobs = b, !.DirtyP = d]
    <2>6. r = q
      BY <2>5
    <2>8. d \in BOOLEAN
      OBVIOUS
    <2> HIDE DEF d
    <2>7. /\ q \in Rec /\ q.ChildInfoV = t /\ q.ItemV = v /\ q.Blobs = b /\ q.DirtyP = d
          /\ q.ItemVDel = s.ItemVDel /\ q.MergedP = s.MergedP
          /\ q.DeleteMarkerP = s.DeleteMarkerP
      BY <2>2, <2>3, <2>8 DEF Rec
    <2> HIDE DEF q
    <2> QED BY <2>6, <2>7 DEF v, b, d
  <1> QED BY <1>9, <1>10, <1>11, <1>12, <1>13 DEF r

----
\* Joining short children.
LEMMA ConcatVals ==
  ASSUME NEW S, NEW v \in Seq(S), NEW w \in Seq(S)
  PROVE  /\ v \o w \in Seq(S)
         /\ \A n \in 1..Len(v \o w) : (\E m \in 1..Len(v) : n = m /\ (v \o w)[n] = v[m]) \/
                                      \E m \in 1..Len(w) : n = Len(v) + m /\ (v \o w)[n] = w[m]
         /\ \A x : x \in Vals(v \o w) <=> x \in Vals(v) \/ x \in Vals(w)
  <1> DEFINE r == v \o w
  <1>1. /\ r \in Seq(S) /\ Len(v) \in Nat /\ Len(w) \in Nat /\ Len(r) = Len(v) + Len(w)
        /\ \A j \in 1..Len(v) + Len(w) : r[j] = IF j <= Len(v) THEN v[j] ELSE w[j - Len(v)]
    BY ConcatProperties
  <1> HIDE DEF r
  <1>2. \A m \in 1..Len(v) : r[m] = v[m] /\ m \in 1..Len(r)
    BY <1>1
  <1>3. ASSUME NEW m \in 1..Len(w) PROVE r[Len(v) + m] = w[m] /\ Len(v) + m \in 1..Len(r)
    <2>1. /\ Len(v) + m \in 1..Len(v) + Len(w) /\ ~(Len(v) + m <= Len(v))
          /\ Len(v) + m - Len(v) = m
      BY <1>1
    <2> QED BY <1>1, <2>1
  <1>4. \A n \in 1..Len(r) : (\E m \in 1..Len(v) : n = m /\ r[n] = v[m]) \/
                             \E m \in 1..Len(w) : n = Len(v) + m /\ r[n] = w[m]
    <2> SUFFICES ASSUME NEW n \in 1..Len(r), n \notin 1..Len(v)
                 PROVE  \E m \in 1..Len(w) : n = Len(v) + m /\ r[n] = w[m]
      BY <1>2
    <2>1. n - Len(v) \in 1..Len(w) /\ n = Len(v) + (n - Len(v))
      BY <1>1
    <2> QED BY <1>3, <2>1
  <1>5. ASSUME NEW x PROVE x \in Vals(r) <=> x \in Vals(v) \/ x \in Vals(w)
    <2>1. ASSUME x \in Vals(r) PROVE x \in Vals(v) \/ x \in Vals(w)
      <3>1. PICK n \in 1..Len(r) : x = r[n]
        BY <2>1 DEF Vals
      <3> QED BY <1>4, <3>1 DEF Vals
    <2>2. ASSUME x \in Vals(v) PROVE x \in Vals(r)
      <3>1. PICK n \in 1..Len(v) : x = v[n]
        BY <2>2 DEF Vals
      <3>2. x = r[n] /\ n \in 1..Len(r)
        BY <1>2, <3>1
      <3> QED BY <3>2 DEF Vals
    <2>3. ASSUME x \in Vals(w) PROVE x \in Vals(r)
      <3>1. PICK n \in 1..Len(w) : x = w[n]
        BY <2>3 DEF Vals
      <3>2. x = r[Len(v) + n] /\ Len(v) + n \in 1..Len(r)
        BY <1>3, <3>1
      <3> QED BY <3>2 DEF Vals
    <2> QED BY <2>1, <2>2, <2>3
  <1> QED BY <1>1, <1>4, <1>5 DEF r

LEMMA JoinedIs ==
  ASSUME NEW l, NEW k, KidOK(l), KidOK(k), l.MaxItem < k.MinItem
  PROVE  /\ KidOK(Joined(l, k)) /\ Joined(l, k).Len = l.Len + k.Len
         /\ Joined(l, k).MinItem = l.MinItem /\ Joined(l, k).MaxItem = k.MaxItem
         /\ \A x : x \in Vals(Vec(Joined(l, k))) <=> x \in Vals(Vec(l)) \/ x \in Vals(Vec(k))
  <1> DEFINE v == Vec(l)
             w == Vec(k)
             u == v \o w
             h == Changed(l, u)
             r == Joined(l, k)
  <1>1. /\ l \in Child /\ k \in Child /\ v \in Seq(Item) /\ w \in Seq(Item)
        /\ l.Len = Len(v) /\ k.Len = Len(w) /\ Ordered(v) /\ Ordered(w)
        /\ l.MinItem <= l.MaxItem /\ k.MinItem <= k.MaxItem
        /\ \A n \in 1..Len(v) : v[n].id \in Nat /\ l.MinItem <= v[n].id /\ v[n].id <= l.MaxItem
        /\ \A n \in 1..Len(w) : w[n].id \in Nat /\ k.MinItem <= w[n].id /\ w[n].id <= k.MaxItem
    <2>1. l.MinItem <= l.MaxItem /\ k.MinItem <= k.MaxItem
      BY DEF KidOK
    <2> QED BY <2>1, KidIs
  <1>2. /\ l.MinItem \in Nat /\ l.MaxItem \in Nat /\ k.MinItem \in Nat /\ k.MaxItem \in Nat
        /\ k.MaxItem \in Id
    BY <1>1, ChildIs
  <1> HIDE DEF v, w
  <1>3. /\ u \in Seq(Item) /\ Len(u) = Len(v) + Len(w) /\ Len(v) \in Nat /\ Len(w) \in Nat
        /\ \A n \in 1..Len(u) : (\E m \in 1..Len(v) : n = m /\ u[n] = v[m]) \/
                                \E m \in 1..Len(w) : n = Len(v) + m /\ u[n] = w[m]
        /\ \A x : x \in Vals(u) <=> x \in Vals(v) \/ x \in Vals(w)
    <2>1. Len(u) = Len(v) + Len(w) /\ Len(v) \in Nat /\ Len(w) \in Nat
      BY <1>1, ConcatProperties
    <2> QED BY <1>1, <2>1, ConcatVals
  <1> HIDE DEF u
  <1>4. /\ h \in Child /\ LoadedP(h) /\ Vec(h) = u /\ h.Len = Len(u) /\ h.DirtyP = TRUE
        /\ h.MinItem = l.MinItem
    BY <1>1, <1>3, ChangedIs
  <1>5. r = [h EXCEPT !.MaxItem = k.MaxItem]
    BY DEF Joined, u, v, w
  <1> HIDE DEF h, r
  <1>6. /\ r \in Child /\ r.Vec = h.Vec /\ r.Disk = h.Disk /\ r.Len = h.Len /\ r.DirtyP = h.DirtyP
        /\ r.MinItem = h.MinItem /\ r.MaxItem = k.MaxItem
    BY <1>2, <1>4, <1>5 DEF Child
  <1>7. LoadedP(r) /\ Vec(r) = u
    BY <1>4, <1>6 DEF LoadedP, Vec
  <1>8. ASSUME NEW n \in 1..Len(u) PROVE l.MinItem <= u[n].id /\ u[n].id <= k.MaxItem
    <2>1. CASE \E m \in 1..Len(v) : n = m /\ u[n] = v[m]
      <3>1. PICK m \in 1..Len(v) : u[n] = v[m]
        BY <2>1
      <3>2. v[m].id \in Nat /\ l.MinItem <= v[m].id /\ v[m].id <= l.MaxItem
        BY <1>1
      <3>3. v[m].id <= k.MaxItem
        BY <1>1, <1>2, <3>2, SMTT(30)
      <3> QED BY <3>1, <3>2, <3>3
    <2>2. CASE \E m \in 1..Len(w) : n = Len(v) + m /\ u[n] = w[m]
      <3>1. PICK m \in 1..Len(w) : u[n] = w[m]
        BY <2>2
      <3>2. w[m].id \in Nat /\ k.MinItem <= w[m].id /\ w[m].id <= k.MaxItem
        BY <1>1
      <3>3. l.MinItem <= w[m].id
        BY <1>1, <1>2, <3>2
      <3> QED BY <3>1, <3>2, <3>3
    <2> QED BY <1>3, <2>1, <2>2
  <1>9. Ordered(u)
    <2> SUFFICES ASSUME NEW m \in 1..Len(u), NEW n \in 1..Len(u), m < n PROVE u[m].id < u[n].id
      BY DEF Ordered
    <2>1. CASE n \in 1..Len(v)
      <3>1. m \in 1..Len(v)
        BY <1>3, <2>1
      <3>2. u[m] = v[m] /\ u[n] = v[n]
        BY <1>3, <2>1, <3>1
      <3> QED BY <1>1, <2>1, <3>1, <3>2 DEF Ordered
    <2>2. CASE n \notin 1..Len(v)
      <3>1. PICK b \in 1..Len(w) : n = Len(v) + b /\ u[n] = w[b]
        BY <1>3, <2>2
      <3>2. CASE m \in 1..Len(v)
        <4>1. u[m] = v[m]
          BY <1>3, <3>2
        <4>2. v[m].id <= l.MaxItem /\ k.MinItem <= w[b].id /\ v[m].id \in Nat /\ w[b].id \in Nat
          BY <1>1, <3>2
        <4>3. v[m].id < w[b].id
          BY <1>2, <4>2
        <4> QED BY <3>1, <4>1, <4>3
      <3>3. CASE m \notin 1..Len(v)
        <4>1. PICK a \in 1..Len(w) : m = Len(v) + a /\ u[m] = w[a]
          BY <1>3, <3>3
        <4>2. a < b
          BY <1>3, <3>1, <4>1
        <4>3. w[a].id < w[b].id
          BY <1>1, <4>2 DEF Ordered
        <4> QED BY <3>1, <4>1, <4>3
      <3> QED BY <3>2, <3>3
    <2> QED BY <2>1, <2>2
  <1>10. l.MinItem <= k.MaxItem
    BY <1>1, <1>2
  <1>11. KidOK(r)
    BY <1>3, <1>4, <1>6, <1>7, <1>8, <1>9, <1>10 DEF KidOK, Bounded
  <1>12. r.Len = l.Len + k.Len
    BY <1>1, <1>3, <1>4, <1>6
  <1> QED BY <1>3, <1>4, <1>6, <1>7, <1>11, <1>12 DEF r, u, v, w

\* All children but the last.
LEMMA FrontKids ==
  ASSUME NEW kids, Kids(kids), kids # <<>>
  PROVE  /\ Kids(Front(kids)) /\ Len(Front(kids)) = Len(kids) - 1 /\ Len(kids) \in Nat \ {0}
         /\ \A c \in 1..Len(Front(kids)) : c \in 1..Len(kids) /\ Front(kids)[c] = kids[c]
         /\ \A c \in 1..Len(kids) : c = Len(kids) \/ c \in 1..Len(Front(kids))
         /\ Last(kids) = kids[Len(kids)] /\ Len(kids) \in 1..Len(kids)
         /\ \A x : InKids(kids, x) <=> InKids(Front(kids), x) \/ x \in Vals(Vec(Last(kids)))
  <1> DEFINE N == Len(kids)
             f == Front(kids)
  <1>1. kids \in Seq(Child) /\ N \in Nat \ {0}
    BY DEF Kids
  <1>2. f \in Seq(Child) /\ Len(f) = N - 1 /\ \A c \in 1..Len(f) : c \in 1..N /\ f[c] = kids[c]
    <2>1. f = SubSeq(kids, 1, N - 1)
      BY DEF Front
    <2>2. 1 \in Int /\ N - 1 \in Int /\ \A c \in 1..N - 1 : kids[c] \in Child
      BY <1>1
    <2>3. /\ SubSeq(kids, 1, N - 1) \in Seq(Child)
          /\ Len(SubSeq(kids, 1, N - 1)) = IF 1 <= N - 1 THEN N - 1 - 1 + 1 ELSE 0
          /\ \A c \in 1..N - 1 - 1 + 1 : SubSeq(kids, 1, N - 1)[c] = kids[1 + c - 1]
      <3> DEFINE b == N - 1
      <3>1. b \in Int /\ \A c \in 1..b : kids[c] \in Child
        BY <2>2
      <3> HIDE DEF b
      <3>2. /\ SubSeq(kids, 1, b) \in Seq(Child)
            /\ Len(SubSeq(kids, 1, b)) = IF 1 <= b THEN b - 1 + 1 ELSE 0
            /\ \A c \in 1..b - 1 + 1 : SubSeq(kids, 1, b)[c] = kids[1 + c - 1]
        BY <3>1, SubSeqProperties
      <3> QED BY <3>2 DEF b
    <2> HIDE DEF f
    <2>4. f \in Seq(Child) /\ Len(f) = N - 1
      <3>1. f \in Seq(Child) /\ Len(f) = IF 1 <= N - 1 THEN N - 1 - 1 + 1 ELSE 0
        BY <2>1, <2>3
      <3>2. N \in Nat \ {0}
        BY <1>1
      <3> HIDE DEF N
      <3>3. (IF 1 <= N - 1 THEN N - 1 - 1 + 1 ELSE 0) = N - 1
        BY <3>2
      <3> QED BY <3>1, <3>3
    <2>5. ASSUME NEW c \in 1..Len(f) PROVE c \in 1..N /\ f[c] = kids[c]
      <3>1. c \in 1..N /\ c \in 1..N - 1 - 1 + 1 /\ 1 + c - 1 = c
        BY <1>1, <2>4
      <3> QED BY <2>1, <2>3, <3>1
    <2> QED BY <2>4, <2>5
  <1> HIDE DEF f
  <1>3. Kids(f)
    <2>1. \A c \in 1..Len(f) : KidOK(f[c])
      BY <1>2 DEF Kids
    <2>2. ASSUME NEW c \in 1..Len(f), NEW d \in 1..Len(f), c < d PROVE f[c].MaxItem < f[d].MinItem
      <3>1. kids[c].MaxItem < kids[d].MinItem
        BY <1>2, <2>2 DEF Kids, Behind
      <3> QED BY <1>2, <3>1
    <2> QED BY <1>2, <2>1, <2>2 DEF Kids, Behind
  <1>4. \A c \in 1..N : c = N \/ c \in 1..Len(f)
    BY <1>1, <1>2
  <1>5. Last(kids) = kids[N] /\ N \in 1..N
    BY <1>1 DEF Last
  <1>6. ASSUME NEW x PROVE InKids(kids, x) <=> InKids(f, x) \/ x \in Vals(Vec(Last(kids)))
    <2>1. ASSUME InKids(kids, x) PROVE InKids(f, x) \/ x \in Vals(Vec(Last(kids)))
      <3>1. PICK c \in 1..N : x \in Vals(Vec(kids[c]))
        BY <2>1 DEF InKids
      <3>2. CASE c = N
        BY <1>5, <3>1, <3>2
      <3>3. CASE c \in 1..Len(f)
        <4>1. x \in Vals(Vec(f[c]))
          BY <1>2, <3>1, <3>3
        <4> QED BY <3>3, <4>1 DEF InKids
      <3> QED BY <1>4, <3>2, <3>3
    <2>2. ASSUME InKids(f, x) PROVE InKids(kids, x)
      <3>1. PICK c \in 1..Len(f) : x \in Vals(Vec(f[c]))
        BY <2>2 DEF InKids
      <3>2. x \in Vals(Vec(kids[c])) /\ c \in 1..N
        BY <1>2, <3>1
      <3> QED BY <3>2 DEF InKids
    <2>3. ASSUME x \in Vals(Vec(Last(kids))) PROVE InKids(kids, x)
      BY <1>5, <2>3 DEF InKids
    <2> QED BY <2>1, <2>2, <2>3
  <1> QED BY <1>1, <1>2, <1>3, <1>4, <1>5, <1>6 DEF f

\* One more child.
LEMMA AppendKid ==
  ASSUME NEW kids, Kids(kids), NEW k, KidOK(k),
         \A c \in 1..Len(kids) : kids[c].MaxItem < k.MinItem
  PROVE  /\ Kids(Append(kids, k)) /\ Len(Append(kids, k)) = Len(kids) + 1
         /\ \A c \in 1..Len(kids) : Append(kids, k)[c] = kids[c]
         /\ Append(kids, k)[Len(kids) + 1] = k
         /\ \A c \in 1..Len(Append(kids, k)) : c \in 1..Len(kids) \/ c = Len(kids) + 1
         /\ \A x : InKids(Append(kids, k), x) <=> InKids(kids, x) \/ x \in Vals(Vec(k))
  <1> DEFINE r == Append(kids, k)
             N == Len(kids)
  <1>1. /\ r \in Seq(Child) /\ N \in Nat /\ Len(r) = N + 1 /\ r[N + 1] = k
        /\ \A c \in 1..N : r[c] = kids[c]
    <2>1. kids \in Seq(Child) /\ k \in Child
      BY DEF Kids, KidOK
    <2> QED BY <2>1, AppendProperties
  <1> HIDE DEF r
  <1>2. (\A c \in 1..Len(r) : c \in 1..N \/ c = N + 1) /\ (\A c \in 1..N : c \in 1..Len(r))
        /\ N + 1 \in 1..Len(r)
    BY <1>1
  <1>3. ASSUME NEW c \in 1..Len(r) PROVE KidOK(r[c])
    <2>1. \A d \in 1..N : KidOK(kids[d])
      BY DEF Kids
    <2> QED BY <1>1, <1>2, <2>1
  <1>4. ASSUME NEW c \in 1..Len(r), NEW d \in 1..Len(r), c < d PROVE r[c].MaxItem < r[d].MinItem
    <2>1. c \in 1..N
      BY <1>1, <1>4
    <2>2. CASE d = N + 1
      BY <1>1, <2>1, <2>2
    <2>3. CASE d \in 1..N
      <3>1. kids[c].MaxItem < kids[d].MinItem
        BY <1>4, <2>1, <2>3 DEF Kids, Behind
      <3> QED BY <1>1, <2>1, <2>3, <3>1
    <2> QED BY <1>2, <2>2, <2>3
  <1>5. Kids(r)
    BY <1>1, <1>3, <1>4 DEF Kids, Behind
  <1>6. ASSUME NEW x PROVE InKids(r, x) <=> InKids(kids, x) \/ x \in Vals(Vec(k))
    <2>1. ASSUME InKids(r, x) PROVE InKids(kids, x) \/ x \in Vals(Vec(k))
      <3>1. PICK c \in 1..Len(r) : x \in Vals(Vec(r[c]))
        BY <2>1 DEF InKids
      <3>2. CASE c = N + 1
        BY <1>1, <3>1, <3>2
      <3>3. CASE c \in 1..N
        <4>1. x \in Vals(Vec(kids[c]))
          BY <1>1, <3>1, <3>3
        <4> QED BY <3>3, <4>1 DEF InKids
      <3> QED BY <1>2, <3>2, <3>3
    <2>2. ASSUME InKids(kids, x) PROVE InKids(r, x)
      <3>1. PICK c \in 1..N : x \in Vals(Vec(kids[c]))
        BY <2>2 DEF InKids
      <3>2. x \in Vals(Vec(r[c])) /\ c \in 1..Len(r)
        BY <1>1, <1>2, <3>1
      <3> QED BY <3>2 DEF InKids
    <2>3. ASSUME x \in Vals(Vec(k)) PROVE InKids(r, x)
      <3>1. x \in Vals(Vec(r[N + 1]))
        BY <1>1, <2>3
      <3> QED BY <1>2, <3>1 DEF InKids
    <2> QED BY <2>1, <2>2, <2>3
  <1> QED BY <1>1, <1>2, <1>5, <1>6 DEF r

\* The first n children of s have become the children of a.
JoinedUpTo(a, s, n) ==
  /\ a \in Rec /\ Kids(a.ChildInfoV) /\ a.DirtyP = TRUE
  /\ a.ItemV = s.ItemV /\ a.ItemVDel = s.ItemVDel /\ a.MergedP = s.MergedP
  /\ a.DeleteMarkerP = s.DeleteMarkerP
  /\ a.Blobs = s.Blobs - n + Len(a.ChildInfoV)
  /\ \A j \in 1..Len(a.ChildInfoV) : /\ a.ChildInfoV[j].Len \in 1..SplitLenMax
                                     /\ \E c \in 1..n : a.ChildInfoV[j].MaxItem = s.ChildInfoV[c].MaxItem
  /\ \A x : InKids(a.ChildInfoV, x) <=> \E c \in 1..n : x \in Vals(Vec(s.ChildInfoV[c]))

LEMMA JoinedFields ==
  ASSUME NEW s, NEW n \in Nat, NEW a, NEW r, NEW B,
         r \in Rec, r.ChildInfoV = B, Kids(B), r.Blobs = s.Blobs - n + Len(B),
         a.DirtyP = TRUE, a.ItemV = s.ItemV, a.ItemVDel = s.ItemVDel, a.MergedP = s.MergedP,
         a.DeleteMarkerP = s.DeleteMarkerP,
         r.DirtyP = a.DirtyP, r.ItemV = a.ItemV, r.ItemVDel = a.ItemVDel, r.MergedP = a.MergedP,
         r.DeleteMarkerP = a.DeleteMarkerP,
         \A j \in 1..Len(B) : /\ B[j].Len \in 1..SplitLenMax
                              /\ \E c \in 1..n : B[j].MaxItem = s.ChildInfoV[c].MaxItem,
         \A x : InKids(B, x) <=> \E c \in 1..n : x \in Vals(Vec(s.ChildInfoV[c]))
  PROVE  JoinedUpTo(r, s, n)
  BY DEF JoinedUpTo

LEMMA OneMore ==
  ASSUME NEW x \in Int, NEW n \in Nat, NEW m \in Nat
  PROVE  x - n + m = x - (n + 1) + (m + 1)
  OBVIOUS
LEMMA OneLess ==
  ASSUME NEW x \in Int, NEW n \in Nat, NEW m \in Nat
  PROVE  (x - n + m) - 1 \in Int /\ (x - n + m) - 1 = x - (n + 1) + (m - 1 + 1)
  OBVIOUS

LEMMA JoinStep ==
  ASSUME NEW s \in Rec, Kids(s.ChildInfoV),
         \A c \in 1..Len(s.ChildInfoV) : s.ChildInfoV[c].Len <= SplitLenMax,
         NEW n \in Nat, n + 1 <= Len(s.ChildInfoV), NEW a, JoinedUpTo(a, s, n)
  PROVE  JoinedUpTo(JoinChild(a, s.ChildInfoV[n + 1]), s, n + 1)
  <1> DEFINE kids == s.ChildInfoV
             N == Len(kids)
             k == kids[n + 1]
             r == JoinChild(a, k)
             A == a.ChildInfoV
             M == Len(A)
  <1>0. n + 1 \in 1..N /\ N \in Nat /\ (\A c \in 1..n : c \in 1..N /\ c < n + 1 /\ c \in 1..n + 1)
        /\ (\A c \in 1..n + 1 : c \in 1..n \/ c = n + 1) /\ n + 1 \in 1..n + 1
    <2>1. N \in Nat
      BY KidsAre
    <2> QED BY <2>1
  <1>1. /\ KidOK(k) /\ k \in Child /\ k.Len \in Nat /\ k.Len = Len(Vec(k)) /\ k.Len <= SplitLenMax
        /\ SplitLenMax \in Nat
    <2>1. KidOK(k) /\ k \in Child
      BY <1>0, KidsAre
    <2> QED BY <1>0, <2>1, KidIs, ChildIs, SplitAssumption
  <1>2. \A c \in 1..n : kids[c].MaxItem < k.MinItem
    BY <1>0, KidsAre
  <1>3. /\ a \in Rec /\ Kids(A) /\ a.DirtyP = TRUE
        /\ a.ItemV = s.ItemV /\ a.ItemVDel = s.ItemVDel /\ a.MergedP = s.MergedP
        /\ a.DeleteMarkerP = s.DeleteMarkerP
        /\ a.Blobs = s.Blobs - n + M
        /\ \A j \in 1..M : A[j].Len \in 1..SplitLenMax /\ \E c \in 1..n : A[j].MaxItem = kids[c].MaxItem
        /\ \A x : InKids(A, x) <=> \E c \in 1..n : x \in Vals(Vec(kids[c]))
    BY DEF JoinedUpTo
  <1>4. s.Blobs \in Int /\ M \in Nat /\ a.Blobs \in Int /\ A \in Seq(Child)
    BY <1>3 DEF Rec, Kids
  <1> HIDE DEF k
  <1>5. \A x : (\E c \in 1..n + 1 : x \in Vals(Vec(kids[c]))) <=>
                 (\E c \in 1..n : x \in Vals(Vec(kids[c]))) \/ x \in Vals(Vec(k))
    BY <1>0 DEF k
  <1>6. \A j \in 1..M : A[j].MaxItem < k.MinItem
    BY <1>2, <1>3
  <1>7. \A j \in 1..M : A[j].Len \in 1..SplitLenMax /\ \E c \in 1..n + 1 : A[j].MaxItem = kids[c].MaxItem
    <2> SUFFICES ASSUME NEW j \in 1..M
                 PROVE  A[j].Len \in 1..SplitLenMax /\ \E c \in 1..n + 1 : A[j].MaxItem = kids[c].MaxItem
      OBVIOUS
    <2>1. PICK c \in 1..n : A[j].MaxItem = kids[c].MaxItem
      BY <1>3
    <2>2. c \in 1..n + 1
      BY <1>0
    <2> QED BY <1>3, <2>1, <2>2
  <1>8. \E c \in 1..n + 1 : k.MaxItem = kids[c].MaxItem
    BY <1>0 DEF k
  <1>9. \A x : (\E c \in 1..n + 1 : x \in Vals(Vec(kids[c]))) <=> InKids(A, x) \/ x \in Vals(Vec(k))
    BY <1>3, <1>5
  <1>10. CASE k.Len = 0
    <2> DEFINE b == a.Blobs - 1
    <2>1. r = [a EXCEPT !.Blobs = b]
      BY <1>3, <1>10 DEF JoinChild, DropBlobs, Rec
    <2>2. b \in Int /\ b = s.Blobs - (n + 1) + M
      BY <1>3, <1>4, SMTT(30)
    <2> HIDE DEF b, r
    <2>3. /\ r \in Rec /\ r.ChildInfoV = A /\ r.Blobs = b /\ r.DirtyP = a.DirtyP
          /\ r.ItemV = a.ItemV /\ r.ItemVDel = a.ItemVDel /\ r.MergedP = a.MergedP
          /\ r.DeleteMarkerP = a.DeleteMarkerP
      BY <1>3, <2>1, <2>2 DEF Rec
    <2>4. \A x : x \notin Vals(Vec(k))
      BY <1>1, <1>10 DEF Vals
    <2>5. \A x : InKids(A, x) <=> \E c \in 1..n + 1 : x \in Vals(Vec(kids[c]))
      BY <1>9, <2>4
    <2>6. r.Blobs = s.Blobs - (n + 1) + M /\ n + 1 \in Nat
      BY <2>2, <2>3
    <2> HIDE DEF A
    <2>7. JoinedUpTo(r, s, n + 1)
      BY <1>3, <1>7, <2>3, <2>5, <2>6, JoinedFields
    <2> QED BY <2>7 DEF r, k
  <1>11. CASE k.Len # 0 /\ ~(/\ A # <<>> /\ Last(A).Len < SplitLenMin
                            /\ k.Len < SplitLenMin /\ Last(A).Len + k.Len <= SplitLenMax)
    <2> DEFINE B == Append(A, k)
    <2>1. r = [a EXCEPT !.ChildInfoV = B]
      BY <1>3, <1>11 DEF JoinChild, Rec
    <2>2. /\ Kids(B) /\ Len(B) = M + 1 /\ (\A j \in 1..M : B[j] = A[j]) /\ B[M + 1] = k
          /\ \A j \in 1..Len(B) : j \in 1..M \/ j = M + 1
          /\ \A x : InKids(B, x) <=> InKids(A, x) \/ x \in Vals(Vec(k))
      BY <1>1, <1>3, <1>6, AppendKid
    <2> HIDE DEF B, r
    <2>3. B \in Seq(Child)
      BY <2>2 DEF Kids
    <2>4. /\ r \in Rec /\ r.ChildInfoV = B /\ r.Blobs = a.Blobs /\ r.DirtyP = a.DirtyP
          /\ r.ItemV = a.ItemV /\ r.ItemVDel = a.ItemVDel /\ r.MergedP = a.MergedP
          /\ r.DeleteMarkerP = a.DeleteMarkerP
      BY <1>3, <2>1, <2>3 DEF Rec
    <2>5. a.Blobs = s.Blobs - (n + 1) + Len(B)
      <3>1. a.Blobs = s.Blobs - n + M /\ Len(B) = M + 1
        BY <1>3, <2>2
      <3>2. s.Blobs \in Int /\ M \in Nat
        BY <1>4
      <3> HIDE DEF M, B
      <3> QED BY <3>1, <3>2, OneMore
    <2>6. \A j \in 1..Len(B) : /\ B[j].Len \in 1..SplitLenMax
                               /\ \E c \in 1..n + 1 : B[j].MaxItem = kids[c].MaxItem
      <3> SUFFICES ASSUME NEW j \in 1..Len(B)
                   PROVE  /\ B[j].Len \in 1..SplitLenMax
                          /\ \E c \in 1..n + 1 : B[j].MaxItem = kids[c].MaxItem
        OBVIOUS
      <3>1. CASE j \in 1..M
        BY <1>7, <2>2, <3>1
      <3>2. CASE j = M + 1
        <4>1. B[j] = k /\ k.Len \in 1..SplitLenMax
          BY <1>1, <1>11, <2>2, <3>2
        <4> QED BY <1>8, <4>1
      <3> QED BY <2>2, <3>1, <3>2
    <2>7. \A x : InKids(B, x) <=> \E c \in 1..n + 1 : x \in Vals(Vec(kids[c]))
      BY <1>9, <2>2
    <2>8. r.Blobs = s.Blobs - (n + 1) + Len(B) /\ n + 1 \in Nat
      BY <2>4, <2>5
    <2> HIDE DEF A
    <2>9. JoinedUpTo(r, s, n + 1)
      BY <1>3, <2>2, <2>4, <2>6, <2>7, <2>8, JoinedFields
    <2> QED BY <2>9 DEF r, k
  <1>12. CASE k.Len # 0 /\ (/\ A # <<>> /\ Last(A).Len < SplitLenMin
                           /\ k.Len < SplitLenMin /\ Last(A).Len + k.Len <= SplitLenMax)
    <2> DEFINE F == Front(A)
               l == Last(A)
               j1 == Joined(l, k)
               B == Append(F, j1)
               b == a.Blobs - 1
    <2>1. r = [a EXCEPT !.ChildInfoV = B, !.Blobs = b]
      BY <1>3, <1>12 DEF JoinChild, Glue, DropBlobs, Rec
    <2>2. /\ Kids(F) /\ Len(F) = M - 1
          /\ \A c \in 1..Len(F) : c \in 1..M /\ F[c] = A[c]
          /\ l = A[M] /\ M \in 1..M /\ M # 0
          /\ \A x : InKids(A, x) <=> InKids(F, x) \/ x \in Vals(Vec(l))
      BY <1>3, <1>12, FrontKids
    <2>3. KidOK(l) /\ l.MaxItem < k.MinItem /\ l.Len \in 1..SplitLenMax
      <3>1. KidOK(A[M])
        BY <1>3, <2>2 DEF Kids
      <3> QED BY <1>6, <1>7, <2>2, <3>1
    <2> HIDE DEF F, l
    <2>4. /\ KidOK(j1) /\ j1.Len = l.Len + k.Len /\ j1.MinItem = l.MinItem /\ j1.MaxItem = k.MaxItem
          /\ \A x : x \in Vals(Vec(j1)) <=> x \in Vals(Vec(l)) \/ x \in Vals(Vec(k))
      BY <1>1, <2>3, JoinedIs
    <2> HIDE DEF j1
    <2>5. \A c \in 1..Len(F) : F[c].MaxItem < j1.MinItem
      <3> SUFFICES ASSUME NEW c \in 1..Len(F) PROVE A[c].MaxItem < A[M].MinItem
        BY <2>2, <2>4
      <3>1. c \in 1..M /\ M \in 1..M /\ c < M
        BY <1>4, <2>2
      <3> QED BY <1>3, <3>1 DEF Kids, Behind
    <2>6. /\ Kids(B) /\ Len(B) = Len(F) + 1 /\ (\A j \in 1..Len(F) : B[j] = F[j]) /\ B[Len(F) + 1] = j1
          /\ \A j \in 1..Len(B) : j \in 1..Len(F) \/ j = Len(F) + 1
          /\ \A x : InKids(B, x) <=> InKids(F, x) \/ x \in Vals(Vec(j1))
      BY <2>2, <2>4, <2>5, AppendKid
    <2> HIDE DEF B, b, r
    <2>7. B \in Seq(Child) /\ b \in Int /\ b = s.Blobs - (n + 1) + Len(B)
      <3>1. B \in Seq(Child)
        BY <2>6 DEF Kids
      <3>2. b \in Int /\ b = s.Blobs - (n + 1) + Len(B)
        <4>1. a.Blobs = s.Blobs - n + M /\ Len(B) = M - 1 + 1
          BY <1>3, <2>2, <2>6
        <4>2. s.Blobs \in Int /\ M \in Nat
          BY <1>4
        <4> HIDE DEF M, B
        <4>3. /\ (s.Blobs - n + M) - 1 \in Int
              /\ (s.Blobs - n + M) - 1 = s.Blobs - (n + 1) + (M - 1 + 1)
          BY <4>2, OneLess
        <4>5. a.Blobs = s.Blobs - n + M
          BY <4>1
        <4>4. b = (s.Blobs - n + M) - 1
          BY <4>5 DEF b
        <4> HIDE DEF b
        <4> QED BY <4>1, <4>3, <4>4
      <3> QED BY <3>1, <3>2
    <2>8. /\ r \in Rec /\ r.ChildInfoV = B /\ r.Blobs = b /\ r.DirtyP = a.DirtyP
          /\ r.ItemV = a.ItemV /\ r.ItemVDel = a.ItemVDel /\ r.MergedP = a.MergedP
          /\ r.DeleteMarkerP = a.DeleteMarkerP
      BY <1>3, <2>1, <2>7 DEF Rec
    <2>9. \A j \in 1..Len(B) : /\ B[j].Len \in 1..SplitLenMax
                               /\ \E c \in 1..n + 1 : B[j].MaxItem = kids[c].MaxItem
      <3> SUFFICES ASSUME NEW j \in 1..Len(B)
                   PROVE  /\ B[j].Len \in 1..SplitLenMax
                          /\ \E c \in 1..n + 1 : B[j].MaxItem = kids[c].MaxItem
        OBVIOUS
      <3>1. CASE j \in 1..Len(F)
        <4>1. j \in 1..M /\ B[j] = A[j]
          BY <2>2, <2>6, <3>1
        <4> QED BY <1>7, <4>1
      <3>2. CASE j = Len(F) + 1
        <4>1. B[j] = j1
          BY <2>6, <3>2
        <4>2. j1.Len \in 1..SplitLenMax
          BY <1>1, <1>12, <2>3, <2>4 DEF l
        <4> QED BY <1>8, <2>4, <4>1, <4>2
      <3> QED BY <2>6, <3>1, <3>2
    <2>10. \A x : InKids(B, x) <=> \E c \in 1..n + 1 : x \in Vals(Vec(kids[c]))
      BY <1>9, <2>2, <2>4, <2>6
    <2>11. r.Blobs = s.Blobs - (n + 1) + Len(B) /\ n + 1 \in Nat
      BY <2>7, <2>8
    <2> HIDE DEF A
    <2>12. JoinedUpTo(r, s, n + 1)
      BY <1>3, <2>6, <2>8, <2>9, <2>10, <2>11, JoinedFields
    <2> QED BY <2>12 DEF r, k
  <1> QED BY <1>10, <1>11, <1>12 DEF k

LEMMA CoalesceAre ==
  ASSUME NEW s \in Rec, Kids(s.ChildInfoV), s.Blobs = Len(s.ChildInfoV),
         \A c \in 1..Len(s.ChildInfoV) : s.ChildInfoV[c].Len <= SplitLenMax
  PROVE  JoinedUpTo(CoalesceUndersizedChildren(s), s, Len(s.ChildInfoV))
  <1> DEFINE kids == s.ChildInfoV
             N == Len(kids)
             base == [s EXCEPT !.ChildInfoV = <<>>, !.DirtyP = TRUE]
             T == [n \in 1..N |-> [a \in Rec |-> IF JoinChild(a, kids[n]) \in Rec
                                                 THEN JoinChild(a, kids[n]) ELSE a]]
             Is(g) == g = [n \in 0..N |-> IF n = 0 THEN base ELSE JoinChild(g[n - 1], kids[n])]
             joined == CHOOSE g : Is(g)
  <1>1. N \in Nat
    BY KidsAre
  <1>2. base \in Rec /\ JoinedUpTo(base, s, 0)
    <2>1. <<>> \in Seq(Child) /\ Len(<<>>) = 0
      OBVIOUS
    <2>2. /\ base \in Rec /\ base.ChildInfoV = <<>> /\ base.Blobs = s.Blobs /\ base.DirtyP = TRUE
          /\ base.ItemV = s.ItemV /\ base.ItemVDel = s.ItemVDel /\ base.MergedP = s.MergedP
          /\ base.DeleteMarkerP = s.DeleteMarkerP
      BY <2>1 DEF Rec
    <2>3. Kids(<<>>) /\ \A x : ~InKids(<<>>, x)
      BY <2>1 DEF Kids, Behind, InKids
    <2>4. s.Blobs = s.Blobs - 0 + 0
      BY DEF Rec
    <2> HIDE DEF base
    <2>5. \A x : ~\E c \in 1..0 : x \in Vals(Vec(kids[c]))
      OBVIOUS
    <2> QED BY <2>1, <2>2, <2>3, <2>4, <2>5 DEF JoinedUpTo
  <1>3. T \in [1..N -> [Rec -> Rec]]
    <2>1. ASSUME NEW n \in 1..N, NEW a \in Rec
          PROVE  (IF JoinChild(a, kids[n]) \in Rec THEN JoinChild(a, kids[n]) ELSE a) \in Rec
      OBVIOUS
    <2> HIDE DEF N
    <2> QED BY <2>1
  <1> HIDE DEF base
  <1>4. PICK g \in [0..N -> Rec] : \A n \in 0..N : g[n] = IF n = 0 THEN base ELSE T[n][g[n - 1]]
    <2> HIDE DEF N, T
    <2>1. \E g : Recurs(g, Rec, base, N, T)
      BY <1>1, <1>2, <1>3, Recursion
    <2> QED BY <2>1 DEF Recurs
  <1> DEFINE P == {n \in Nat : n <= N => JoinedUpTo(g[n], s, n) /\
                                         (n # 0 => g[n] = JoinChild(g[n - 1], kids[n]))}
  <1>5. 0 \in P
    <2>1. 0 \in 0..N
      BY <1>1
    <2>2. g[0] = base
      BY <1>4, <2>1
    <2> HIDE DEF N
    <2> QED BY <1>2, <2>2
  <1>6. ASSUME NEW n \in Nat, n \in P PROVE n + 1 \in P
    <2>a. SUFFICES ASSUME n + 1 <= N
                   PROVE  JoinedUpTo(g[n + 1], s, n + 1) /\ g[n + 1] = JoinChild(g[n + 1 - 1], kids[n + 1])
      OBVIOUS
    <2>1. n + 1 \in 1..N /\ n + 1 \in 0..N /\ n \in 0..N /\ n <= N /\ n + 1 - 1 = n /\ n + 1 # 0
      BY <1>1, <2>a
    <2>2. JoinedUpTo(g[n], s, n)
      BY <1>6, <2>1
    <2> DEFINE a == g[n]
               r == JoinChild(a, kids[n + 1])
               m == n + 1
    <2>3. JoinedUpTo(r, s, n + 1)
      <3> HIDE DEF a
      <3>1. JoinedUpTo(a, s, n)
        BY <2>2 DEF a
      <3> QED BY <2>a, <3>1, JoinStep
    <2>4. r \in Rec /\ a \in Rec
      BY <2>2, <2>3 DEF JoinedUpTo
    <2>5. g[m] = r
      <3>1. m \in 1..N /\ m \in 0..N /\ m # 0 /\ m - 1 = n /\ r = JoinChild(a, kids[m])
        BY <2>1
      <3> HIDE DEF m, r, T, N
      <3>2. g[m] = T[m][g[m - 1]]
        BY <1>4, <3>1
      <3>3. g[m] = T[m][a]
        BY <3>1, <3>2
      <3>4. T[m][a] = r
        BY <2>4, <3>1 DEF T
      <3> QED BY <3>3, <3>4
    <2> QED BY <2>1, <2>3, <2>5
  <1>7. \A n \in Nat : n \in P
    <2> HIDE DEF P
    <2> QED BY <1>5, <1>6, ByInduction
  <1>8. Is(g)
    <2>1. ASSUME NEW n \in 0..N, n # 0 PROVE g[n] = JoinChild(g[n - 1], kids[n])
      <3>1. n \in Nat /\ n <= N
        BY <1>1
      <3> QED BY <1>7, <2>1, <3>1
    <2>2. g[0] = base
      <3>1. 0 \in 0..N
        BY <1>1
      <3> QED BY <1>4, <3>1
    <2>3. \A n \in 0..N : g[n] = IF n = 0 THEN base ELSE JoinChild(g[n - 1], kids[n])
      BY <2>1, <2>2
    <2> HIDE DEF N
    <2> QED BY <1>4, <2>3
  <1>9. Is(joined)
    <2> HIDE DEF Is
    <2> QED BY <1>8
  <1>10. CoalesceUndersizedChildren(s) = joined[N]
    BY DEF CoalesceUndersizedChildren, base
  <1>11. \A n \in 0..N : joined[n] = IF n = 0 THEN base ELSE JoinChild(joined[n - 1], kids[n])
    BY <1>9
  <1> HIDE DEF joined
  <1> DEFINE Q == {n \in Nat : n <= N => joined[n] = g[n]}
  <1>12. 0 \in Q
    <2>1. 0 \in 0..N
      BY <1>1
    <2>2. joined[0] = base /\ g[0] = base
      BY <1>4, <1>11, <2>1
    <2> QED BY <2>2
  <1>13. ASSUME NEW n \in Nat, n \in Q PROVE n + 1 \in Q
    <2>a. SUFFICES ASSUME n + 1 <= N PROVE joined[n + 1] = g[n + 1]
      OBVIOUS
    <2> DEFINE m == n + 1
    <2>1. m \in 0..N /\ m # 0 /\ m - 1 = n /\ n <= N /\ m \in Nat /\ m <= N
      BY <1>1, <2>a
    <2> HIDE DEF m
    <2>2. joined[m] = JoinChild(joined[n], kids[m])
      BY <1>11, <2>1
    <2>3. g[m] = JoinChild(g[n], kids[m])
      BY <1>7, <2>1
    <2>4. joined[n] = g[n]
      BY <1>13, <2>1
    <2> QED BY <2>2, <2>3, <2>4 DEF m
  <1>14. N \in Q /\ N \in P
    <2>1. \A n \in Nat : n \in Q
      <3> HIDE DEF Q
      <3> QED BY <1>12, <1>13, ByInduction
    <2> QED BY <1>1, <1>7, <2>1
  <1>15. joined[N] = g[N] /\ JoinedUpTo(g[N], s, N)
    BY <1>1, <1>14
  <1> QED BY <1>10, <1>15

----
\* Pushing the buffer to new children.
LEMMA Times ==
  ASSUME NEW S \in Nat, NEW m \in Nat, NEW n \in Nat, m <= n
  PROVE  m * S \in Nat /\ n * S \in Nat /\ m * S <= n * S /\ (m + 1) * S = m * S + S
  <1> DEFINE k == n - m
  <1>1. k \in Nat /\ n = m + k
    OBVIOUS
  <1> HIDE DEF k
  <1>2. m * S \in Nat /\ k * S \in Nat
    BY <1>1
  <1>3. (m + k) * S = m * S + k * S
    BY <1>1
  <1>4. (m + 1) * S = m * S + S
    OBVIOUS
  <1> QED BY <1>1, <1>2, <1>3, <1>4

LEMMA ChunkIs ==
  ASSUME NEW v \in Seq(Item), Ordered(v), NEW n \in Nat, n * SplitLen <= Len(v), NEW m \in 1..n
  PROVE  /\ Chunk(v, m) \in Seq(Item) /\ Len(Chunk(v, m)) = SplitLen /\ Chunk(v, m) # <<>>
         /\ Ordered(Chunk(v, m)) /\ (m - 1) * SplitLen \in Nat
         /\ m * SplitLen = (m - 1) * SplitLen + SplitLen
         /\ \A j \in 1..SplitLen : /\ (m - 1) * SplitLen + j \in 1..Len(v)
                                   /\ Chunk(v, m)[j] = v[(m - 1) * SplitLen + j]
  <1> DEFINE a == (m - 1) * SplitLen
             b == m * SplitLen
             w == SubSeq(v, a + 1, b)
  <1>1. SplitLen \in Nat \ {0} /\ m - 1 \in Nat /\ m \in Nat /\ m <= n /\ Len(v) \in Nat
        /\ (m - 1) + 1 = m /\ m - 1 <= n
    BY SplitAssumption
  <1>2. a \in Nat /\ n * SplitLen \in Nat /\ b = a + SplitLen
    <2> DEFINE q == m - 1
    <2>1. q \in Nat /\ q <= n /\ q + 1 = m
      BY <1>1
    <2> HIDE DEF q
    <2>2. q * SplitLen \in Nat /\ n * SplitLen \in Nat /\ (q + 1) * SplitLen = q * SplitLen + SplitLen
      BY <1>1, <2>1, Times
    <2> QED BY <2>1, <2>2 DEF q
  <1>3. b \in Nat /\ b <= n * SplitLen
    BY <1>1, Times
  <1>4. w = Chunk(v, m)
    BY DEF Chunk
  <1> HIDE DEF a, b
  <1>5. b \in Nat /\ a <= b /\ b <= Len(v) /\ b - a = SplitLen
    BY <1>1, <1>2, <1>3
  <1>6. /\ w \in Seq(Item) /\ Len(w) = b - a
        /\ \A j \in 1..Len(w) : a + j \in 1..Len(v) /\ w[j] = v[a + j]
    <2>1. a \in Nat /\ b \in Nat /\ a <= b /\ b <= Len(v)
      BY <1>2, <1>5
    <2> QED BY <2>1, PartIs
  <1>7. Ordered(w)
    BY <1>2, <1>5, PartOrdered
  <1> HIDE DEF w
  <1>8. Len(w) = SplitLen /\ w # <<>>
    <2>1. Len(w) = SplitLen
      BY <1>5, <1>6
    <2> QED BY <1>1, <1>6, <2>1
  <1>9. m * SplitLen = (m - 1) * SplitLen + SplitLen /\ (m - 1) * SplitLen \in Nat
    BY <1>2 DEF a, b
  <1>10. \A j \in 1..SplitLen : /\ (m - 1) * SplitLen + j \in 1..Len(v)
                                 /\ w[j] = v[(m - 1) * SplitLen + j]
    BY <1>6, <1>8 DEF a
  <1> QED BY <1>4, <1>6, <1>7, <1>8, <1>9, <1>10

Chunks(v, n) == [m \in 1..n |-> Enlisted(Chunk(v, m))]

LEMMA ChunksAre ==
  ASSUME NEW v \in Seq(Item), Ordered(v), NEW n \in Nat, n * SplitLen <= Len(v)
  PROVE  /\ Kids(Chunks(v, n)) /\ Len(Chunks(v, n)) = n
         /\ \A m \in 1..n : /\ Chunks(v, n)[m].Len = SplitLen /\ Chunks(v, n)[m].DirtyP = FALSE
                            /\ \E p \in 1..Len(v) : Chunks(v, n)[m].MinItem = v[p].id
                            /\ \E p \in 1..Len(v) : p <= n * SplitLen /\ Chunks(v, n)[m].MaxItem = v[p].id
         /\ \A x : InKids(Chunks(v, n), x) <=> \E p \in 1..Len(v) : p <= n * SplitLen /\ x = v[p]
  <1> DEFINE f == Chunks(v, n)
             A(m) == (m - 1) * SplitLen
  <1>1. SplitLen \in Nat \ {0} /\ Len(v) \in Nat
    BY SplitAssumption
  <1>2. ASSUME NEW m \in 1..n
        PROVE  /\ KidOK(f[m]) /\ f[m] \in Child /\ Vec(f[m]) = Chunk(v, m) /\ f[m].Len = SplitLen
               /\ f[m].DirtyP = FALSE /\ Len(Vec(f[m])) = SplitLen
               /\ A(m) \in Nat /\ m * SplitLen = A(m) + SplitLen
               /\ A(m) + SplitLen <= n * SplitLen
               /\ \A j \in 1..SplitLen : A(m) + j \in 1..Len(v) /\ Vec(f[m])[j] = v[A(m) + j]
               /\ f[m].MinItem = v[A(m) + 1].id /\ f[m].MaxItem = v[A(m) + SplitLen].id
    <2> DEFINE w == Chunk(v, m)
    <2>1. /\ w \in Seq(Item) /\ Len(w) = SplitLen /\ w # <<>> /\ Ordered(w) /\ A(m) \in Nat
          /\ m * SplitLen = A(m) + SplitLen
          /\ \A j \in 1..SplitLen : A(m) + j \in 1..Len(v) /\ w[j] = v[A(m) + j]
      BY ChunkIs
    <2>2. f[m] = Enlisted(w)
      BY DEF Chunks
    <2>3. m * SplitLen <= n * SplitLen
      BY <1>1, Times
    <2> HIDE DEF w, f, A
    <2>5. /\ KidOK(f[m]) /\ Vec(f[m]) = w /\ f[m].Len = Len(w) /\ f[m].DirtyP = FALSE
          /\ f[m].MinItem = w[1].id /\ f[m].MaxItem = Last(w).id
      BY <2>1, <2>2, EnlistedIs
    <2>6. Last(w) = w[SplitLen] /\ 1 \in 1..SplitLen /\ SplitLen \in 1..SplitLen
      BY <1>1, <2>1, Ends
    <2>7. f[m] \in Child
      BY <2>5 DEF KidOK
    <2>8. A(m) + SplitLen <= n * SplitLen
      BY <2>1, <2>3
    <2> QED BY <2>1, <2>5, <2>6, <2>7, <2>8 DEF w
  <1>3. f = [m \in 1..n |-> Enlisted(Chunk(v, m))]
    BY DEF Chunks
  <1> HIDE DEF f
  <1>4. f \in Seq(Child) /\ Len(f) = n
    <2> DEFINE e(m) == Enlisted(Chunk(v, m))
    <2>1. \A m \in 1..n : e(m) \in Child
      BY <1>2, <1>3
    <2>2. f = [m \in 1..n |-> e(m)]
      BY <1>3
    <2> HIDE DEF e
    <2> QED BY <2>1, <2>2
  <1>5. \A c, d \in 1..n : c < d => A(c) + SplitLen <= A(d)
    <2> SUFFICES ASSUME NEW c \in 1..n, NEW d \in 1..n, c < d PROVE c * SplitLen <= A(d)
      BY <1>2
    <2>1. c \in Nat /\ d - 1 \in Nat /\ c <= d - 1
      OBVIOUS
    <2> QED BY <1>1, <2>1, Times
  <1> HIDE DEF A
  <1>6. ASSUME NEW c \in 1..n, NEW d \in 1..n, c < d PROVE f[c].MaxItem < f[d].MinItem
    <2>1. A(c) + SplitLen < A(d) + 1 /\ A(c) + SplitLen \in 1..Len(v) /\ A(d) + 1 \in 1..Len(v)
      <3>1. A(c) + SplitLen <= A(d) /\ A(c) \in Nat /\ A(d) \in Nat
        BY <1>2, <1>5, <1>6
      <3>2. 1 \in 1..SplitLen /\ SplitLen \in 1..SplitLen
        BY <1>1
      <3>3. A(c) + SplitLen \in 1..Len(v) /\ A(d) + 1 \in 1..Len(v)
        BY <1>2, <3>2
      <3> HIDE DEF f
      <3>4. A(c) + SplitLen < A(d) + 1
        BY <1>1, <3>1
      <3> QED BY <3>3, <3>4
    <2>2. v[A(c) + SplitLen].id < v[A(d) + 1].id
      BY <2>1 DEF Ordered
    <2> QED BY <1>2, <2>2
  <1>7. Kids(f)
    BY <1>2, <1>4, <1>6 DEF Kids, Behind
  <1>8. ASSUME NEW m \in 1..n
        PROVE  /\ \E p \in 1..Len(v) : f[m].MinItem = v[p].id
               /\ \E p \in 1..Len(v) : p <= n * SplitLen /\ f[m].MaxItem = v[p].id
    <2>1. 1 \in 1..SplitLen /\ SplitLen \in 1..SplitLen
      BY <1>1
    <2>2. A(m) + 1 \in 1..Len(v) /\ A(m) + SplitLen \in 1..Len(v) /\ A(m) + SplitLen <= n * SplitLen
      BY <1>2, <2>1
    <2> QED BY <1>2, <2>2
  <1>9. ASSUME NEW x, InKids(f, x) PROVE \E p \in 1..Len(v) : p <= n * SplitLen /\ x = v[p]
    <2>1. PICK m \in 1..n : x \in Vals(Vec(f[m]))
      BY <1>4, <1>9 DEF InKids
    <2>2. PICK j \in 1..SplitLen : x = Vec(f[m])[j]
      BY <1>2, <2>1 DEF Vals
    <2>3. A(m) + j \in 1..Len(v) /\ x = v[A(m) + j]
      BY <1>2, <2>2
    <2>4. A(m) \in Nat /\ A(m) + SplitLen <= n * SplitLen
      BY <1>2
    <2>5. A(m) + j <= n * SplitLen
      <3>1. n * SplitLen \in Nat
        BY <1>1, Times
      <3> HIDE DEF f
      <3> QED BY <1>1, <2>4, <3>1
    <2> QED BY <2>3, <2>5
  <1>10. ASSUME NEW p \in 1..Len(v), p <= n * SplitLen PROVE InKids(f, v[p])
    <2> DEFINE q == (p - 1) \div SplitLen
    <2>1. q \in Nat /\ SplitLen * q <= p - 1 /\ p - 1 < SplitLen * q + SplitLen
      BY <1>1, DivIs
    <2> HIDE DEF q
    <2>2. q < n
      <3>1. SUFFICES ASSUME n <= q PROVE FALSE
        BY <2>1
      <3>2. n * SplitLen <= q * SplitLen /\ n * SplitLen \in Nat /\ q * SplitLen \in Nat
        BY <1>1, <2>1, <3>1, Times
      <3>3. q * SplitLen = SplitLen * q
        BY <1>1, <2>1
      <3> QED BY <1>10, <2>1, <3>2, <3>3
    <2>3. q + 1 \in 1..n /\ A(q + 1) = SplitLen * q
      <3>1. (q + 1) - 1 = q
        BY <2>1
      <3> QED BY <1>1, <2>1, <2>2, <3>1 DEF A
    <2> DEFINE m == q + 1
               j == p - A(m)
    <2>4. m \in 1..n /\ j \in 1..SplitLen /\ A(m) + j = p
      <3>1. A(m) = SplitLen * q /\ A(m) \in Nat
        BY <1>2, <2>3
      <3>2. p - A(m) \in 1..SplitLen /\ A(m) + (p - A(m)) = p
        <4> DEFINE x == SplitLen * q
        <4>1. x <= p - 1 /\ p - 1 < x + SplitLen /\ A(m) = x /\ x \in Nat /\ p \in Nat
          BY <2>1, <3>1
        <4> HIDE DEF x, m
        <4> QED BY <1>1, <4>1
      <3> QED BY <2>3, <3>2
    <2> HIDE DEF m, j
    <2>5. Vec(f[m])[j] = v[p] /\ Len(Vec(f[m])) = SplitLen
      BY <1>2, <2>4
    <2>6. v[p] \in Vals(Vec(f[m]))
      BY <2>4, <2>5 DEF Vals
    <2> QED BY <1>4, <2>4, <2>6 DEF InKids
  <1>11. \A m \in 1..n : f[m].Len = SplitLen /\ f[m].DirtyP = FALSE
    BY <1>2
  <1> QED BY <1>4, <1>7, <1>8, <1>9, <1>10, <1>11 DEF f

----
\* What the steps of Def() that only move items have in common.
Has(s, x) == InKids(s.ChildInfoV, x) \/ x \in Vals(s.ItemV)
Sound(s) ==
  /\ s \in Rec /\ Kids(s.ChildInfoV) /\ s.Blobs = Len(s.ChildInfoV)
  /\ Ordered(s.ItemV) /\ Beyond(s.ChildInfoV, s.ItemV)
Steady(r, s) ==
  r.ItemVDel = s.ItemVDel /\ r.MergedP = s.MergedP /\ r.DeleteMarkerP = s.DeleteMarkerP
\* The first child may be short, no other is empty, none is too long.
Nearly(kids) ==
  \A c \in 1..Len(kids) : kids[c].Len <= SplitLenMax /\ (c > 1 => kids[c].Len # 0)
Shaped(kids) == \A c \in 1..Len(kids) : kids[c].Len \in 1..SplitLenMax

Pushed(r, s, n) ==
  /\ Sound(r) /\ Steady(r, s) /\ (r.DirtyP <=> s.DirtyP \/ n > 0)
  /\ r.TotalCnt = s.TotalCnt /\ (n <= 1 => RecalcTotalCnt(r) = RecalcTotalCnt(s))
  /\ Len(r.ItemV) = Len(s.ItemV) - n * SplitLen
  /\ Len(r.ChildInfoV) = Len(s.ChildInfoV) + n
  /\ \A c \in 1..Len(r.ChildInfoV) :
       (c \in 1..Len(s.ChildInfoV) /\ r.ChildInfoV[c] = s.ChildInfoV[c]) \/
       (r.ChildInfoV[c].Len = SplitLen /\ r.ChildInfoV[c].DirtyP = FALSE)
  /\ \A x : Has(r, x) <=> Has(s, x)

LEMMA PushChunksAre ==
  ASSUME NEW s, Sound(s), NEW n \in Nat, n * SplitLen <= Len(s.ItemV)
  PROVE  Pushed(PushChunks(s, n), s, n)
  <1> DEFINE kids == s.ChildInfoV
             v == s.ItemV
             f == Chunks(v, n)
             a == n * SplitLen
             w == SubSeq(v, a + 1, Len(v))
             k2 == kids \o f
             r == PushChunks(s, n)
  <1>1. /\ s \in Rec /\ Kids(kids) /\ s.Blobs = Len(kids) /\ Ordered(v) /\ Beyond(kids, v)
        /\ v \in Seq(Item) /\ Len(v) \in Nat /\ Len(kids) \in Nat /\ kids \in Seq(Child)
        /\ s.DirtyP \in BOOLEAN
    <2>1. s \in Rec /\ Kids(kids) /\ s.Blobs = Len(kids) /\ Ordered(v) /\ Beyond(kids, v)
      BY DEF Sound
    <2>2. v \in Seq(Item) /\ kids \in Seq(Child) /\ s.DirtyP \in BOOLEAN
      BY <2>1 DEF Rec
    <2> QED BY <2>1, <2>2
  <1>2. SplitLen \in Nat \ {0} /\ a \in Nat
    BY SplitAssumption, Times
  <1>3. r = [s EXCEPT !.ChildInfoV = k2, !.ItemV = w, !.Blobs = @ + n, !.DirtyP = @ \/ n > 0]
    BY <1>1 DEF PushChunks, Chunks, Rec
  <1> HIDE DEF v
  <1>4. /\ Kids(f) /\ Len(f) = n
        /\ \A m \in 1..n : /\ f[m].Len = SplitLen /\ f[m].DirtyP = FALSE
                           /\ \E p \in 1..Len(v) : f[m].MinItem = v[p].id
                           /\ \E p \in 1..Len(v) : p <= n * SplitLen /\ f[m].MaxItem = v[p].id
        /\ \A x : InKids(f, x) <=> \E p \in 1..Len(v) : p <= n * SplitLen /\ x = v[p]
    BY <1>1, ChunksAre DEF v
  <1>5. a <= Len(v)
    BY DEF v
  <1> HIDE DEF f
  <1>6. \A c \in 1..Len(kids), d \in 1..Len(f) : kids[c].MaxItem < f[d].MinItem
    BY <1>1, <1>4 DEF Beyond
  <1> HIDE DEF kids
  <1>7. /\ Kids(k2) /\ Len(k2) = Len(kids) + Len(f)
        /\ \A c \in 1..Len(kids) : k2[c] = kids[c]
        /\ \A c \in 1..Len(f) : k2[Len(kids) + c] = f[c]
        /\ \A c \in 1..Len(k2) : (c \in 1..Len(kids) /\ k2[c] = kids[c]) \/
                                 \E d \in 1..Len(f) : c = Len(kids) + d /\ k2[c] = f[d]
        /\ \A x : InKids(k2, x) <=> InKids(kids, x) \/ InKids(f, x)
    BY <1>1, <1>4, <1>6, ConcatKids
  <1> HIDE DEF a
  <1>8. /\ w \in Seq(Item) /\ Len(w) = Len(v) - a
        /\ \A m \in 1..Len(w) : a + m \in 1..Len(v) /\ w[m] = v[a + m]
        /\ \A m \in 1..Len(v) : a < m /\ m <= Len(v) => m - a \in 1..Len(w) /\ w[m - a] = v[m]
    BY <1>1, <1>2, <1>5, PartIs
  <1>9. Ordered(w)
    BY <1>1, <1>2, <1>5, PartOrdered
  <1> HIDE DEF w
  <1>10. Beyond(k2, w)
    <2> SUFFICES ASSUME NEW c \in 1..Len(k2), NEW m \in 1..Len(w)
                 PROVE  k2[c].MaxItem < v[a + m].id
      BY <1>8 DEF Beyond
    <2>1. a + m \in 1..Len(v)
      BY <1>8
    <2>2. CASE c \in 1..Len(kids) /\ k2[c] = kids[c]
      BY <1>1, <2>1, <2>2 DEF Beyond
    <2>3. CASE \E d \in 1..Len(f) : c = Len(kids) + d /\ k2[c] = f[d]
      <3>1. PICK d \in 1..n : k2[c] = f[d]
        BY <1>4, <2>3
      <3>2. PICK p \in 1..Len(v) : p <= n * SplitLen /\ f[d].MaxItem = v[p].id
        BY <1>4
      <3>3. p < a + m
        <4>1. p <= a
          BY <3>2 DEF a
        <4> QED BY <1>1, <1>2, <4>1
      <3>4. v[p].id < v[a + m].id
        BY <1>1, <2>1, <3>3 DEF Ordered
      <3> QED BY <3>1, <3>2, <3>4
    <2> QED BY <1>7, <2>2, <2>3
  <1> DEFINE b == s.Blobs + n
             dp == s.DirtyP \/ n > 0
  <1>11. b \in Int /\ b = Len(k2) /\ dp \in BOOLEAN /\ k2 \in Seq(Child) /\ Len(k2) = Len(kids) + n
    BY <1>1, <1>4, <1>7 DEF Kids
  <1>12. r = [s EXCEPT !.ChildInfoV = k2, !.ItemV = w, !.Blobs = b, !.DirtyP = dp]
    BY <1>1, <1>3 DEF Rec
  <1> HIDE DEF b, dp, k2, r
  <1>13. /\ r \in Rec /\ r.ChildInfoV = k2 /\ r.ItemV = w /\ r.Blobs = b /\ r.DirtyP = dp
         /\ Steady(r, s) /\ r.TotalCnt = s.TotalCnt
    BY <1>1, <1>8, <1>11, <1>12 DEF Rec, Steady
  <1>14. Sound(r)
    BY <1>7, <1>9, <1>10, <1>11, <1>13 DEF Sound
  <1>15. ASSUME NEW x PROVE Has(r, x) <=> Has(s, x)
    <2>1. ASSUME x \in Vals(w) PROVE x \in Vals(v)
      BY <1>8, <2>1 DEF Vals
    <2>2. ASSUME InKids(f, x) PROVE x \in Vals(v)
      BY <1>4, <2>2 DEF Vals
    <2>3. ASSUME x \in Vals(v) PROVE x \in Vals(w) \/ InKids(f, x)
      <3>1. PICK p \in 1..Len(v) : x = v[p]
        BY <2>3 DEF Vals
      <3>2. CASE p <= a
        BY <1>4, <3>1, <3>2 DEF a
      <3>3. CASE ~(p <= a)
        <4>1. a < p /\ p <= Len(v)
          BY <1>1, <1>2, <3>3
        <4>2. p - a \in 1..Len(w) /\ w[p - a] = v[p]
          BY <1>8, <4>1
        <4> QED BY <3>1, <4>2 DEF Vals
      <3> QED BY <3>2, <3>3
    <2>4. Has(r, x) <=> InKids(k2, x) \/ x \in Vals(w)
      BY <1>13 DEF Has
    <2>5. Has(s, x) <=> InKids(kids, x) \/ x \in Vals(v)
      BY DEF Has, kids, v
    <2>6. InKids(k2, x) <=> InKids(kids, x) \/ InKids(f, x)
      BY <1>7
    <2> HIDE DEF Has
    <2> QED BY <2>1, <2>2, <2>3, <2>4, <2>5, <2>6
  <1>16. ASSUME n <= 1 PROVE RecalcTotalCnt(r) = RecalcTotalCnt(s)
    <2>0. f \in Seq(Child)
      BY <1>4 DEF Kids
    <2>1. SumLen(f) = n * SplitLen
      <3>1. CASE n = 0
        <4>1. f = <<>>
          BY <1>4, <2>0, <3>1
        <4> QED BY <1>2, <3>1, <4>1, SumLenEmpty
      <3>2. CASE n = 1
        <4> DEFINE k == f[1]
                   g == <<k>>
        <4>1. k \in Child /\ k.Len = SplitLen
          <5>1. 1 \in 1..n /\ 1 \in 1..Len(f)
            BY <1>4, <3>2
          <5>2. f[1] \in Child
            BY <2>0, <5>1
          <5>3. f[1].Len = SplitLen
            BY <1>4, <5>1
          <5> QED BY <5>2, <5>3
        <4> HIDE DEF k
        <4>2. g \in Seq(Child) /\ Len(g) = Len(f) /\ \A c \in 1..Len(g) : f[c].Len = g[c].Len
          BY <1>4, <3>2, <4>1 DEF k
        <4>3. SumLen(g) = SplitLen
          BY <4>1, SumLenOne
        <4> HIDE DEF g
        <4>4. SumLen(f) = SumLen(g)
          BY <2>0, <4>2, SumLenSame
        <4> QED BY <1>2, <3>2, <4>3, <4>4
      <3> QED BY <1>16, <3>1, <3>2
    <2>2. SumLen(k2) = SumLen(kids) + SumLen(f)
      BY <1>1, <2>0, SumLenConcat DEF k2
    <2>3. SumLen(kids) \in Nat
      BY <1>1, SumLenIs
    <2>4. RecalcTotalCnt(r) = Len(w) + SumLen(k2)
      BY <1>13 DEF RecalcTotalCnt
    <2>5. RecalcTotalCnt(s) = Len(v) + SumLen(kids)
      BY DEF RecalcTotalCnt, v, kids
    <2>6. SumLen(f) = a /\ Len(w) = Len(v) - a
      BY <1>8, <2>1 DEF a
    <2> HIDE DEF RecalcTotalCnt
    <2> QED BY <1>1, <1>2, <2>2, <2>3, <2>4, <2>5, <2>6
  <1>17. r.DirtyP <=> s.DirtyP \/ n > 0
    BY <1>13 DEF dp
  <1>18. ASSUME NEW c \in 1..Len(r.ChildInfoV)
         PROVE  (c \in 1..Len(kids) /\ r.ChildInfoV[c] = kids[c]) \/
                (r.ChildInfoV[c].Len = SplitLen /\ r.ChildInfoV[c].DirtyP = FALSE)
    <2>1. c \in 1..Len(k2)
      BY <1>13
    <2>2. (c \in 1..Len(kids) /\ k2[c] = kids[c]) \/ \E d \in 1..n : k2[c] = f[d]
      BY <1>4, <1>7, <2>1
    <2>3. (c \in 1..Len(kids) /\ k2[c] = kids[c]) \/ (k2[c].Len = SplitLen /\ k2[c].DirtyP = FALSE)
      BY <1>4, <2>2
    <2> QED BY <1>13, <2>3
  <1>19. Len(r.ItemV) = Len(v) - n * SplitLen /\ Len(r.ChildInfoV) = Len(kids) + n
    BY <1>8, <1>11, <1>13 DEF a
  <1>20. /\ Len(r.ItemV) = Len(s.ItemV) - n * SplitLen
         /\ Len(r.ChildInfoV) = Len(s.ChildInfoV) + n
         /\ \A c \in 1..Len(r.ChildInfoV) :
              (c \in 1..Len(s.ChildInfoV) /\ r.ChildInfoV[c] = s.ChildInfoV[c]) \/
              (r.ChildInfoV[c].Len = SplitLen /\ r.ChildInfoV[c].DirtyP = FALSE)
    BY <1>18, <1>19 DEF kids, v
  <1>21. Pushed(r, s, n)
    BY <1>13, <1>14, <1>15, <1>16, <1>17, <1>20 DEF Pushed
  <1> QED BY <1>21 DEF r

LEMMA PushAre ==
  ASSUME NEW s, Sound(s)
  PROVE  LET r == PushWorkBufferToChildren(s)
             kids == s.ChildInfoV
             n == Len(s.ItemV) \div SplitLen
         IN  /\ Sound(r) /\ Steady(r, s) /\ (r.DirtyP <=> s.DirtyP \/ n > 0) /\ n \in Nat
             /\ r.TotalCnt = s.TotalCnt
             /\ Len(s.ItemV) < 2 * SplitLen => RecalcTotalCnt(r) = RecalcTotalCnt(s)
             /\ Len(r.ItemV) < SplitLen
             /\ \A c \in 1..Len(r.ChildInfoV) :
                  (c \in 1..Len(kids) /\ r.ChildInfoV[c] = kids[c]) \/
                  (r.ChildInfoV[c].Len = SplitLen /\ r.ChildInfoV[c].DirtyP = FALSE)
             /\ \A x : Has(r, x) <=> Has(s, x)
  <1> DEFINE L == Len(s.ItemV)
             n == L \div SplitLen
             r == PushChunks(s, n)
  <1>1. L \in Nat /\ SplitLen \in Nat \ {0}
    <2>1. s.ItemV \in Seq(Item)
      BY DEF Sound, Rec
    <2> QED BY <2>1, SplitAssumption
  <1> HIDE DEF L
  <1>2. n \in Nat /\ SplitLen * n <= L /\ L < SplitLen * n + SplitLen
    BY <1>1, DivIs
  <1>3. L < 2 * SplitLen => n <= 1
    <2>1. L < 2 * SplitLen => L < SplitLen * 1 + SplitLen
      BY <1>1
    <2>2. \A q \in Nat : L < SplitLen * q + SplitLen => n <= q
      BY <1>1, DivIs
    <2> QED BY <2>1, <2>2
  <1> HIDE DEF n
  <1>4. n * SplitLen = SplitLen * n
    BY <1>1, <1>2
  <1>5. n * SplitLen <= Len(s.ItemV)
    BY <1>2, <1>4 DEF L
  <1>6. /\ Sound(r) /\ Steady(r, s) /\ (r.DirtyP <=> s.DirtyP \/ n > 0)
        /\ r.TotalCnt = s.TotalCnt /\ (n <= 1 => RecalcTotalCnt(r) = RecalcTotalCnt(s))
        /\ Len(r.ItemV) = Len(s.ItemV) - n * SplitLen
        /\ \A c \in 1..Len(r.ChildInfoV) :
             (c \in 1..Len(s.ChildInfoV) /\ r.ChildInfoV[c] = s.ChildInfoV[c]) \/
             (r.ChildInfoV[c].Len = SplitLen /\ r.ChildInfoV[c].DirtyP = FALSE)
        /\ \A x : Has(r, x) <=> Has(s, x)
    <2>1. n \in Nat
      BY <1>2
    <2>2. Pushed(r, s, n)
      BY <2>1, <1>5, PushChunksAre
    <2> HIDE DEF r
    <2> QED BY <2>2 DEF Pushed
  <1>7. r = PushWorkBufferToChildren(s)
    BY DEF PushWorkBufferToChildren, n, L
  <1> HIDE DEF r
  <1>8. Len(r.ItemV) < SplitLen
    <2> DEFINE x == n * SplitLen
    <2>1. L < x + SplitLen /\ Len(r.ItemV) = L - x /\ x \in Nat
      <3>1. Len(r.ItemV) = L - n * SplitLen
        BY <1>6 DEF L
      <3> QED BY <1>1, <1>2, <1>4, <3>1
    <2> HIDE DEF x
    <2> QED BY <1>1, <2>1
  <1>9. L < 2 * SplitLen => RecalcTotalCnt(r) = RecalcTotalCnt(s)
    BY <1>3, <1>6
  <1> QED BY <1>2, <1>6, <1>7, <1>8, <1>9 DEF n, L

----
\* Dropping the first children.
Dropped(r, s, n) ==
  /\ r \in Rec /\ Kids(r.ChildInfoV) /\ r.Blobs = Len(r.ChildInfoV)
  /\ r.ItemV = s.ItemV /\ Steady(r, s) /\ r.DirtyP = s.DirtyP /\ r.TotalCnt = s.TotalCnt
  /\ Len(r.ChildInfoV) = Len(s.ChildInfoV) - n
  /\ \A c \in 1..Len(r.ChildInfoV) :
       c + n \in 1..Len(s.ChildInfoV) /\ r.ChildInfoV[c] = s.ChildInfoV[c + n]
  /\ \A c \in 1..Len(s.ChildInfoV) : c > n =>
       c - n \in 1..Len(r.ChildInfoV) /\ r.ChildInfoV[c - n] = s.ChildInfoV[c]

LEMMA DropFrontIs ==
  ASSUME NEW s \in Rec, Kids(s.ChildInfoV), s.Blobs = Len(s.ChildInfoV),
         NEW n \in 0..Len(s.ChildInfoV)
  PROVE  Dropped(DropFront(s, n), s, n)
  <1> DEFINE kids == s.ChildInfoV
             w == SubSeq(kids, n + 1, Len(kids))
             b == s.Blobs - n
             r == DropFront(s, n)
  <1>1. Len(kids) \in Nat
    BY KidsAre
  <1>2. /\ Kids(w) /\ Len(w) = Len(kids) - n
        /\ \A c \in 1..Len(w) : c + n \in 1..Len(kids) /\ w[c] = kids[c + n]
        /\ \A c \in 1..Len(kids) : c > n => c - n \in 1..Len(w) /\ w[c - n] = kids[c]
    BY SubKids
  <1>3. r = [s EXCEPT !.ChildInfoV = w, !.Blobs = b]
    BY DEF DropFront, DropBlobs, Rec
  <1> HIDE DEF w
  <1>4. b \in Int /\ b = Len(w) /\ w \in Seq(Child)
    BY <1>1, <1>2 DEF Kids
  <1> HIDE DEF b, r
  <1>5. /\ r \in Rec /\ r.ChildInfoV = w /\ r.Blobs = b /\ r.ItemV = s.ItemV /\ Steady(r, s)
        /\ r.DirtyP = s.DirtyP /\ r.TotalCnt = s.TotalCnt
    BY <1>3, <1>4 DEF Rec, Steady
  <1>6. Dropped(r, s, n)
    BY <1>2, <1>4, <1>5 DEF Dropped
  <1> QED BY <1>6 DEF r

LEMMA DropEmptyFrontAre ==
  ASSUME NEW s, Sound(s), Nearly(s.ChildInfoV)
  PROVE  LET r == DropEmptyFront(s)
         IN  /\ Sound(r) /\ Steady(r, s) /\ Shaped(r.ChildInfoV) /\ r.ItemV = s.ItemV
             /\ r.DirtyP = s.DirtyP /\ \A x : Has(r, x) <=> Has(s, x)
  <1> DEFINE kids == s.ChildInfoV
             N == Len(kids)
             P == {n \in 0..N : \A c \in 1..n : kids[c].Len = 0}
             n == Max(P)
             r == DropFront(s, n)
  <1>1. /\ s \in Rec /\ Kids(kids) /\ s.Blobs = N /\ N \in Nat
        /\ Ordered(s.ItemV) /\ Beyond(kids, s.ItemV)
    <2>1. s \in Rec /\ Kids(kids) /\ s.Blobs = N /\ Ordered(s.ItemV) /\ Beyond(kids, s.ItemV)
      BY DEF Sound
    <2> QED BY <2>1, KidsAre
  <1>2. n \in P /\ \A m \in P : m <= n
    <2>1. 0 \in P
      BY <1>1
    <2>2. P \in SUBSET (0..N)
      OBVIOUS
    <2>3. P # {}
      BY <2>1
    <2> HIDE DEF P
    <2> QED BY <1>1, <2>2, <2>3, MaxIs
  <1>3. n \in 0..N /\ \A c \in 1..n : kids[c].Len = 0
    BY <1>2
  <1>4. r = DropEmptyFront(s)
    BY DEF DropEmptyFront
  <1>5. \A c \in 1..N : /\ kids[c].Len \in Nat /\ kids[c].Len <= SplitLenMax
                        /\ (c > n => kids[c].Len # 0)
                        /\ kids[c].Len = Len(Vec(kids[c]))
    <2> SUFFICES ASSUME NEW c \in 1..N
                 PROVE  /\ kids[c].Len \in Nat /\ kids[c].Len <= SplitLenMax
                        /\ (c > n => kids[c].Len # 0) /\ kids[c].Len = Len(Vec(kids[c]))
      OBVIOUS
    <2>1. KidOK(kids[c]) /\ kids[c] \in Child
      BY <1>1, KidsAre
    <2>2. kids[c].Len \in Nat /\ kids[c].Len = Len(Vec(kids[c]))
      BY <2>1, KidIs, ChildIs
    <2>3. kids[c].Len <= SplitLenMax /\ (c > 1 => kids[c].Len # 0)
      BY DEF Nearly
    <2>4. ASSUME c > n, ~(c > 1) PROVE kids[c].Len # 0
      <3>1. n = 0 /\ c = 1
        BY <1>1, <1>3, <2>4
      <3>2. 1 \notin P
        BY <1>2, <3>1
      <3>3. \E d \in 1..1 : kids[d].Len # 0
        BY <3>1, <3>2
      <3>4. \A d \in 1..1 : d = 1
        OBVIOUS
      <3> QED BY <3>1, <3>3, <3>4
    <2> QED BY <2>2, <2>3, <2>4
  <1> HIDE DEF n
  <1>6. Dropped(r, s, n)
    BY <1>1, <1>3, DropFrontIs
  <1> HIDE DEF r
  <1>7. Shaped(r.ChildInfoV)
    <2> SUFFICES ASSUME NEW c \in 1..Len(r.ChildInfoV) PROVE r.ChildInfoV[c].Len \in 1..SplitLenMax
      BY DEF Shaped
    <2>1. c + n \in 1..N /\ r.ChildInfoV[c] = kids[c + n] /\ c + n > n
      BY <1>1, <1>3, <1>6 DEF Dropped
    <2>2. kids[c + n].Len \in Nat /\ kids[c + n].Len <= SplitLenMax /\ kids[c + n].Len # 0
      BY <1>5, <2>1
    <2> QED BY <2>1, <2>2, SplitAssumption
  <1>8. Beyond(r.ChildInfoV, r.ItemV)
    BY <1>1, <1>6 DEF Dropped, Beyond
  <1>9. Sound(r) /\ Steady(r, s) /\ r.ItemV = s.ItemV /\ r.DirtyP = s.DirtyP
    BY <1>1, <1>6, <1>8 DEF Dropped, Sound
  <1>10. ASSUME NEW x PROVE InKids(r.ChildInfoV, x) <=> InKids(kids, x)
    <2>1. ASSUME InKids(r.ChildInfoV, x) PROVE InKids(kids, x)
      <3>1. PICK c \in 1..Len(r.ChildInfoV) : x \in Vals(Vec(r.ChildInfoV[c]))
        BY <2>1 DEF InKids
      <3>2. c + n \in 1..N /\ r.ChildInfoV[c] = kids[c + n]
        BY <1>6 DEF Dropped
      <3> QED BY <3>1, <3>2 DEF InKids
    <2>2. ASSUME InKids(kids, x) PROVE InKids(r.ChildInfoV, x)
      <3>1. PICK c \in 1..N : x \in Vals(Vec(kids[c]))
        BY <2>2 DEF InKids
      <3>2. c > n
        <4>1. SUFFICES ASSUME ~(c > n) PROVE FALSE
          OBVIOUS
        <4>2. c \in 1..n
          BY <1>1, <1>3, <4>1
        <4>3. Len(Vec(kids[c])) = 0
          BY <1>3, <1>5, <4>2
        <4> QED BY <3>1, <4>3 DEF Vals
      <3>3. c - n \in 1..Len(r.ChildInfoV) /\ r.ChildInfoV[c - n] = kids[c]
        BY <1>6, <3>2 DEF Dropped
      <3> QED BY <3>1, <3>3 DEF InKids
    <2> QED BY <2>1, <2>2
  <1>11. \A x : Has(r, x) <=> Has(s, x)
    BY <1>9, <1>10 DEF Has
  <1> QED BY <1>4, <1>7, <1>9, <1>11

----
\* Repairing.
\* A child that is not up to date has been checked for its length before.
Checked(kids) == \A c \in 1..Len(kids) : kids[c].DirtyP \/ kids[c].Len \in 1..SplitLenMax

LEMMA NoOverlap == ASSUME NEW s, Kids(s.ChildInfoV) PROVE ~HasOverlappingChildren(s)
  <1> DEFINE kids == s.ChildInfoV
  <1>1. SUFFICES ASSUME NEW c \in 2..Len(kids), kids[c].MinItem < kids[c-1].MaxItem PROVE FALSE
    BY DEF HasOverlappingChildren
  <1>2. Len(kids) \in Nat
    BY KidsAre
  <1>3. c \in 1..Len(kids) /\ c - 1 \in 1..Len(kids) /\ c - 1 < c
    BY <1>2
  <1> DEFINE b == c - 1
  <1>4. b \in 1..Len(kids) /\ b < c /\ kids[c].MinItem < kids[b].MaxItem
    BY <1>1, <1>3
  <1> HIDE DEF b
  <1>5. /\ kids[b].MaxItem < kids[c].MinItem
        /\ kids[c].MinItem \in Nat /\ kids[b].MaxItem \in Nat
    BY <1>3, <1>4, KidsAre
  <1> HIDE DEF kids
  <1> QED BY <1>4, <1>5

LEMMA RepairAre ==
  ASSUME NEW s, Sound(s), Checked(s.ChildInfoV), s.DirtyP = TRUE, SplitLenMin # 0
  PROVE  LET r == Repair(s)
         IN  /\ Sound(r) /\ Steady(r, s) /\ Nearly(r.ChildInfoV) /\ r.ItemV = s.ItemV
             /\ r.DirtyP = TRUE /\ \A x : Has(r, x) <=> Has(s, x)
  <1> DEFINE kids == s.ChildInfoV
             N == Len(kids)
             bad == {c \in DOMAIN s.ChildInfoV : NeedsMerge(s, c)}
             r == Repair(s)
  <1>1. /\ s \in Rec /\ Kids(kids) /\ s.Blobs = N /\ N \in Nat /\ DOMAIN kids = 1..N
        /\ Ordered(s.ItemV) /\ Beyond(kids, s.ItemV) /\ kids \in Seq(Child)
    <2>1. s \in Rec /\ Kids(kids) /\ s.Blobs = N /\ Ordered(s.ItemV) /\ Beyond(kids, s.ItemV)
      BY DEF Sound
    <2> QED BY <2>1, KidsAre DEF Kids
  <1>2. CASE bad = {}
    <2>1. r = s
      BY <1>2 DEF Repair, Repaired
    <2>2. Nearly(kids)
      <3> SUFFICES ASSUME NEW c \in 1..N
                   PROVE  kids[c].Len <= SplitLenMax /\ (c > 1 => kids[c].Len # 0)
        BY DEF Nearly
      <3>1. ~NeedsMerge(s, c)
        BY <1>1, <1>2
      <3>2. kids[c].Len \in Nat /\ kids[c].DirtyP \in BOOLEAN
        BY <1>1, ChildIs
      <3>3. CASE kids[c].DirtyP
        <4>1. /\ kids[c].Len < SplitLenMin \/ kids[c].Len > SplitLenMax
                   => c = 1 /\ kids[c].Len <= SplitLenMax
          BY <3>1, <3>3 DEF NeedsMerge
        <4> HIDE DEF kids
        <4> QED BY <3>2, <4>1, SplitAssumption
      <3>4. CASE ~kids[c].DirtyP
        <4>1. kids[c].Len \in 1..SplitLenMax
          BY <3>4 DEF Checked
        <4> QED BY <4>1, SplitAssumption
      <3> QED BY <3>3, <3>4
    <2>3. Steady(s, s)
      BY DEF Steady
    <2> HIDE DEF r
    <2> QED BY <2>1, <2>2, <2>3 DEF r
  <1>3. CASE bad # {}
    <2> DEFINE p == SplitOversizedChildren(s)
               a == p.ChildInfoV
    <2>1. r = CoalesceUndersizedChildren(p)
      BY <1>1, <1>3, NoOverlap DEF Repair, Repaired
    <2>2. /\ p \in Rec /\ Kids(a) /\ p.Blobs = Len(a)
          /\ p.ItemV = s.ItemV /\ p.ItemVDel = s.ItemVDel /\ p.MergedP = s.MergedP
          /\ p.DeleteMarkerP = s.DeleteMarkerP /\ p.DirtyP = TRUE
          /\ \A j \in 1..Len(a) : /\ a[j].Len <= SplitLenMax
                                  /\ \E c \in 1..N : a[j].MaxItem <= kids[c].MaxItem
          /\ \A x : InKids(a, x) <=> InKids(kids, x)
      BY <1>1, SplitAre
    <2> HIDE DEF p
    <2>3. JoinedUpTo(r, p, Len(a))
      BY <2>1, <2>2, CoalesceAre
    <2> HIDE DEF r
    <2> DEFINE k2 == r.ChildInfoV
    <2>4. Len(a) \in Nat /\ Len(k2) \in Nat /\ Kids(k2)
      <3>1. Kids(k2)
        BY <2>3 DEF JoinedUpTo
      <3> QED BY <2>2, <3>1, KidsAre
    <2>5. r.Blobs = Len(k2)
      <3>1. r.Blobs = p.Blobs - Len(a) + Len(k2)
        BY <2>3 DEF JoinedUpTo
      <3> QED BY <2>2, <2>4, <3>1
    <2>6. /\ r \in Rec /\ r.DirtyP = TRUE /\ r.ItemV = s.ItemV /\ Steady(r, s)
      BY <2>2, <2>3 DEF JoinedUpTo, Steady
    <2>7. ASSUME NEW j \in 1..Len(k2)
          PROVE  k2[j].Len \in 1..SplitLenMax /\ \E c \in 1..N : k2[j].MaxItem <= kids[c].MaxItem
      <3>1. PICK d \in 1..Len(a) : k2[j].MaxItem = a[d].MaxItem
        BY <2>3 DEF JoinedUpTo
      <3>2. PICK c \in 1..N : a[d].MaxItem <= kids[c].MaxItem
        BY <2>2
      <3>3. k2[j].Len \in 1..SplitLenMax
        BY <2>3 DEF JoinedUpTo
      <3> QED BY <3>1, <3>2, <3>3
    <2>8. Nearly(k2)
      BY <2>7, SplitAssumption DEF Nearly
    <2>9. Beyond(k2, r.ItemV)
      <3> SUFFICES ASSUME NEW j \in 1..Len(k2), NEW n \in 1..Len(s.ItemV)
                   PROVE  k2[j].MaxItem < s.ItemV[n].id
        BY <2>6 DEF Beyond
      <3>1. PICK c \in 1..N : k2[j].MaxItem <= kids[c].MaxItem
        BY <2>7
      <3>2. kids[c].MaxItem < s.ItemV[n].id
        BY <1>1 DEF Beyond
      <3>3. k2[j].MaxItem \in Nat /\ kids[c].MaxItem \in Nat /\ s.ItemV[n].id \in Nat
        <4>1. s.ItemV \in Seq(Item)
          BY <1>1 DEF Rec
        <4>2. s.ItemV[n].id \in Nat
          BY <4>1, IdsAre
        <4>3. k2[j].MaxItem \in Nat /\ kids[c].MaxItem \in Nat
          BY <1>1, <2>4, KidsAre
        <4> QED BY <4>2, <4>3
      <3> QED BY <3>1, <3>2, <3>3, SMTT(30)
    <2>10. Sound(r)
      BY <1>1, <2>4, <2>5, <2>6, <2>9 DEF Sound
    <2>11. \A x : InKids(k2, x) <=> InKids(kids, x)
      <3>1. \A x : InKids(k2, x) <=> InKids(a, x)
        BY <2>3 DEF JoinedUpTo, InKids
      <3> QED BY <2>2, <3>1
    <2>12. \A x : Has(r, x) <=> Has(s, x)
      BY <2>6, <2>11 DEF Has
    <2> QED BY <2>6, <2>8, <2>10, <2>12 DEF r
  <1> QED BY <1>2, <1>3

----
\* Def().
\* What holds between the calls, as far as Def() needs it.
Base(s) ==
  /\ s \in Rec /\ Kids(s.ChildInfoV) /\ s.Blobs = Len(s.ChildInfoV) /\ Markers(s)
  /\ Shaped(s.ChildInfoV)
\* What it leaves.
Packed(s) ==
  /\ Sound(s) /\ Shaped(s.ChildInfoV) /\ s.MergedP /\ s.DirtyP /\ s.ItemVDel = {}
  /\ ~s.DeleteMarkerP /\ Len(s.ItemV) < SplitLen /\ s.TotalCnt = RecalcTotalCnt(s)

LEMMA MergeBufferIs ==
  ASSUME NEW s \in Rec
  PROVE  LET r == MergeBuffer(s)
         IN  /\ r \in Rec /\ r.ItemV = Merge(s.ItemV, TRUE) /\ r.DirtyP = TRUE
             /\ r.ChildInfoV = s.ChildInfoV /\ r.Blobs = s.Blobs /\ r.TotalCnt = s.TotalCnt
             /\ Steady(r, s)
  <1> DEFINE w == Merge(s.ItemV, TRUE)
             r == MergeBuffer(s)
  <1>1. w \in Seq(Item)
    <2>1. s.ItemV \in Seq(Item)
      BY DEF Rec
    <2> QED BY <2>1, MergeIs
  <1>2. r = [s EXCEPT !.ItemV = w, !.DirtyP = TRUE]
    BY DEF MergeBuffer
  <1> HIDE DEF w, r
  <1>3. /\ r \in Rec /\ r.ItemV = w /\ r.DirtyP = TRUE
        /\ r.ChildInfoV = s.ChildInfoV /\ r.Blobs = s.Blobs /\ r.TotalCnt = s.TotalCnt
        /\ Steady(r, s)
    BY <1>1, <1>2 DEF Rec, Steady
  <1> QED BY <1>3 DEF w, r

LEMMA ScrubTailIs ==
  ASSUME NEW s \in Rec
  PROVE  LET r == ScrubTail(s)
         IN  /\ r \in Rec /\ r.ItemV = IF s.DeleteMarkerP THEN Merge(s.ItemV, FALSE) ELSE s.ItemV
             /\ r.DirtyP = s.DirtyP /\ r.DeleteMarkerP = FALSE
             /\ r.ChildInfoV = s.ChildInfoV /\ r.Blobs = s.Blobs /\ r.TotalCnt = s.TotalCnt
             /\ r.ItemVDel = s.ItemVDel /\ r.MergedP = s.MergedP
  <1> DEFINE w == IF s.DeleteMarkerP THEN Merge(s.ItemV, FALSE) ELSE s.ItemV
             r == ScrubTail(s)
  <1>1. w \in Seq(Item)
    <2>1. s.ItemV \in Seq(Item)
      BY DEF Rec
    <2> QED BY <2>1, MergeIs
  <1>2. r = [s EXCEPT !.ItemV = w, !.DeleteMarkerP = FALSE]
    BY DEF ScrubTail
  <1> HIDE DEF w, r
  <1>3. /\ r \in Rec /\ r.ItemV = w
        /\ r.DirtyP = s.DirtyP /\ r.DeleteMarkerP = FALSE
        /\ r.ChildInfoV = s.ChildInfoV /\ r.Blobs = s.Blobs /\ r.TotalCnt = s.TotalCnt
        /\ r.ItemVDel = s.ItemVDel /\ r.MergedP = s.MergedP
    BY <1>1, <1>2 DEF Rec
  <1> QED BY <1>3 DEF w, r

\* Merging the buffer again leaves no new ids in it.
LEMMA StaysBeyond ==
  ASSUME NEW kids, NEW v \in Seq(Item), Beyond(kids, v), NEW l
  PROVE  Beyond(kids, Merge(v, l))
  <1> SUFFICES ASSUME NEW c \in 1..Len(kids), NEW n \in 1..Len(Merge(v, l))
               PROVE  kids[c].MaxItem < Merge(v, l)[n].id
    BY DEF Beyond
  <1>1. Merge(v, l)[n].id \in IdsIn(v)
    <2>1. Merge(v, l)[n].id \in Kept(v, l)
      BY MergeIs
    <2> QED BY <2>1 DEF Kept
  <1>2. PICK m \in 1..Len(v) : v[m].id = Merge(v, l)[n].id
    BY <1>1, IdsAre
  <1> QED BY <1>2 DEF Beyond

\* The first half: everything is where it belongs.
Moved(s) == ScrubTail(InjectWorkBufferToChildren(MergeBuffer(ProcessDeletes(s))))

LEMMA MovedIs ==
  ASSUME NEW s, Base(s)
  PROVE  LET t == Moved(s)
         IN  /\ Sound(t) /\ Checked(t.ChildInfoV) /\ t.DirtyP = TRUE /\ t.ItemVDel = {}
             /\ t.DeleteMarkerP = FALSE /\ t.MergedP = s.MergedP
  <1> DEFINE p == ProcessDeletes(s)
             m == MergeBuffer(p)
             j == InjectWorkBufferToChildren(m)
             t == ScrubTail(j)
             kids == s.ChildInfoV
  <1>1. s \in Rec /\ Kids(kids) /\ s.Blobs = Len(kids) /\ Markers(s) /\ Shaped(kids)
    BY DEF Base
  <1>2. /\ p \in Rec /\ Kids(p.ChildInfoV) /\ Len(p.ChildInfoV) = Len(kids)
        /\ p.Blobs = s.Blobs /\ p.ItemVDel = {} /\ p.MergedP = s.MergedP
        /\ p.DeleteMarkerP = s.DeleteMarkerP
        /\ \A c \in 1..Len(kids) : p.ChildInfoV[c].DirtyP \/ p.ChildInfoV[c] = kids[c]
    BY <1>1, DeletesAre
  <1> HIDE DEF p
  <1>3. /\ m \in Rec /\ m.ItemV = Merge(p.ItemV, TRUE) /\ m.DirtyP = TRUE
        /\ m.ChildInfoV = p.ChildInfoV /\ m.Blobs = p.Blobs /\ Steady(m, p)
    BY <1>2, MergeBufferIs
  <1>4. Ordered(m.ItemV)
    <2>1. p.ItemV \in Seq(Item)
      BY <1>2 DEF Rec
    <2> QED BY <1>3, <2>1, MergeIs
  <1> HIDE DEF m
  <1>5. Kids(m.ChildInfoV)
    BY <1>2, <1>3
  <1>6. /\ j \in Rec /\ Kids(j.ChildInfoV) /\ Len(j.ChildInfoV) = Len(m.ChildInfoV)
        /\ j.Blobs = m.Blobs /\ j.ItemVDel = m.ItemVDel /\ j.MergedP = m.MergedP
        /\ j.DeleteMarkerP = m.DeleteMarkerP /\ (m.DirtyP => j.DirtyP)
        /\ Ordered(j.ItemV) /\ Beyond(j.ChildInfoV, j.ItemV)
        /\ \A c \in 1..Len(m.ChildInfoV) : j.ChildInfoV[c].DirtyP \/ j.ChildInfoV[c] = m.ChildInfoV[c]
    BY <1>3, <1>4, <1>5, InjectAre
  <1> HIDE DEF j
  <1>7. /\ t \in Rec /\ t.ItemV = IF j.DeleteMarkerP THEN Merge(j.ItemV, FALSE) ELSE j.ItemV
        /\ t.DirtyP = j.DirtyP /\ t.DeleteMarkerP = FALSE
        /\ t.ChildInfoV = j.ChildInfoV /\ t.Blobs = j.Blobs
        /\ t.ItemVDel = j.ItemVDel /\ t.MergedP = j.MergedP
    BY <1>6, ScrubTailIs
  <1> HIDE DEF t
  <1>8. Ordered(t.ItemV) /\ Beyond(t.ChildInfoV, t.ItemV)
    <2>1. j.ItemV \in Seq(Item)
      BY <1>6 DEF Rec
    <2>2. CASE j.DeleteMarkerP
      <3> DEFINE w == j.ItemV
                 k2 == j.ChildInfoV
      <3>1. t.ItemV = Merge(w, FALSE) /\ t.ChildInfoV = k2
        BY <1>7, <2>2
      <3>2. w \in Seq(Item) /\ Beyond(k2, w)
        BY <1>6, <2>1
      <3> HIDE DEF w, k2
      <3>3. Ordered(Merge(w, FALSE))
        BY <3>2, MergeIs
      <3>4. Beyond(k2, Merge(w, FALSE))
        BY <3>2, StaysBeyond
      <3> QED BY <3>1, <3>3, <3>4
    <2>3. CASE ~j.DeleteMarkerP
      BY <1>6, <1>7, <2>3
    <2> QED BY <2>2, <2>3
  <1>9. t.Blobs = Len(t.ChildInfoV)
    BY <1>1, <1>2, <1>3, <1>6, <1>7
  <1>10. Sound(t)
    BY <1>6, <1>7, <1>8, <1>9 DEF Sound
  <1>11. Checked(t.ChildInfoV)
    <2> SUFFICES ASSUME NEW c \in 1..Len(kids), ~t.ChildInfoV[c].DirtyP
                 PROVE  t.ChildInfoV[c].Len \in 1..SplitLenMax
      BY <1>2, <1>3, <1>6, <1>7 DEF Checked
    <2>1. t.ChildInfoV[c] = m.ChildInfoV[c]
      BY <1>2, <1>3, <1>6, <1>7
    <2>2. m.ChildInfoV[c] = kids[c]
      BY <1>2, <1>3, <2>1
    <2> QED BY <1>1, <2>1, <2>2 DEF Shaped
  <1>12. t.DirtyP = TRUE /\ t.ItemVDel = {} /\ t.MergedP = s.MergedP
    <2>1. j.DirtyP = TRUE
      BY <1>3, <1>6 DEF Rec
    <2> QED BY <1>2, <1>3, <1>6, <1>7, <2>1 DEF Steady
  <1>13. t = Moved(s)
    BY DEF t, j, m, p, Moved
  <1> QED BY <1>7, <1>10, <1>11, <1>12, <1>13

LEMMA CountedIs ==
  ASSUME NEW s \in Rec
  PROVE  LET r == Counted(s)
         IN  /\ r \in Rec /\ r.ItemV = s.ItemV /\ r.ItemVDel = s.ItemVDel
             /\ r.ChildInfoV = s.ChildInfoV /\ r.TotalCnt = RecalcTotalCnt(r) /\ r.MergedP = TRUE
             /\ r.DirtyP = s.DirtyP /\ r.DeleteMarkerP = s.DeleteMarkerP /\ r.Blobs = s.Blobs
  <1> DEFINE b == RecalcTotalCnt(s)
             r == Counted(s)
  <1>1. b \in Int
    <2>1. s.ItemV \in Seq(Item) /\ s.ChildInfoV \in Seq(Child)
      BY DEF Rec
    <2>2. SumLen(s.ChildInfoV) \in Nat /\ Len(s.ItemV) \in Nat
      <3>1. SumLen(s.ChildInfoV) \in Nat
        BY <2>1, SumLenIs
      <3>2. Len(s.ItemV) \in Nat
        BY <2>1
      <3> QED BY <3>1, <3>2
    <2> QED BY <2>2 DEF RecalcTotalCnt
  <1>2. r = [s EXCEPT !.TotalCnt = b, !.MergedP = TRUE]
    BY DEF Counted
  <1>3. b = Len(s.ItemV) + SumLen(s.ChildInfoV)
    BY DEF RecalcTotalCnt
  <1> HIDE DEF b, r
  <1>4. /\ r \in Rec /\ r.ItemV = s.ItemV /\ r.ItemVDel = s.ItemVDel
        /\ r.ChildInfoV = s.ChildInfoV /\ r.TotalCnt = b /\ r.MergedP = TRUE
        /\ r.DirtyP = s.DirtyP /\ r.DeleteMarkerP = s.DeleteMarkerP /\ r.Blobs = s.Blobs
    BY <1>1, <1>2 DEF Rec
  <1>5. r.TotalCnt = RecalcTotalCnt(r)
    BY <1>3, <1>4 DEF RecalcTotalCnt
  <1> QED BY <1>4, <1>5 DEF r

LEMMA DefIs ==
  ASSUME NEW s, Base(s), ~s.MergedP, SplitLenMin # 0
  PROVE  Packed(Def(s)) /\ \A x : Has(Def(s), x) <=> Has(Moved(s), x)
  <1> DEFINE t == Moved(s)
             q == Repair(t)
             u == PushWorkBufferToChildren(q)
             e == DropEmptyFront(u)
             d == Counted(e)
  <1>1. /\ Sound(t) /\ Checked(t.ChildInfoV) /\ t.DirtyP = TRUE /\ t.ItemVDel = {}
        /\ t.DeleteMarkerP = FALSE
    BY MovedIs
  <1> HIDE DEF t
  <1>2. /\ Sound(q) /\ Steady(q, t) /\ Nearly(q.ChildInfoV) /\ q.ItemV = t.ItemV
        /\ q.DirtyP = TRUE /\ \A x : Has(q, x) <=> Has(t, x)
    BY <1>1, RepairAre
  <1> HIDE DEF q
  <1>3. /\ Sound(u) /\ Steady(u, q) /\ u.DirtyP = TRUE /\ Len(u.ItemV) < SplitLen
        /\ \A c \in 1..Len(u.ChildInfoV) :
             (c \in 1..Len(q.ChildInfoV) /\ u.ChildInfoV[c] = q.ChildInfoV[c]) \/
             u.ChildInfoV[c].Len = SplitLen
        /\ \A x : Has(u, x) <=> Has(q, x)
    <2>1. /\ Sound(u) /\ Steady(u, q)
          /\ (u.DirtyP <=> q.DirtyP \/ Len(q.ItemV) \div SplitLen > 0)
          /\ Len(u.ItemV) < SplitLen
          /\ \A c \in 1..Len(u.ChildInfoV) :
               (c \in 1..Len(q.ChildInfoV) /\ u.ChildInfoV[c] = q.ChildInfoV[c]) \/
               (u.ChildInfoV[c].Len = SplitLen /\ u.ChildInfoV[c].DirtyP = FALSE)
          /\ \A x : Has(u, x) <=> Has(q, x)
      BY <1>2, PushAre
    <2>2. u.DirtyP \in BOOLEAN
      BY <2>1 DEF Sound, Rec
    <2> HIDE DEF u
    <2>3. u.DirtyP = TRUE
      BY <1>2, <2>1, <2>2
    <2> QED BY <2>1, <2>3
  <1> HIDE DEF u
  <1>4. Nearly(u.ChildInfoV)
    <2> SUFFICES ASSUME NEW c \in 1..Len(u.ChildInfoV)
                 PROVE  u.ChildInfoV[c].Len <= SplitLenMax /\ (c > 1 => u.ChildInfoV[c].Len # 0)
      BY DEF Nearly
    <2> QED BY <1>2, <1>3, SplitAssumption DEF Nearly
  <1>5. /\ Sound(e) /\ Steady(e, u) /\ Shaped(e.ChildInfoV) /\ e.ItemV = u.ItemV
        /\ e.DirtyP = u.DirtyP /\ \A x : Has(e, x) <=> Has(u, x)
    BY <1>3, <1>4, DropEmptyFrontAre
  <1> HIDE DEF e
  <1>6. /\ d \in Rec /\ d.ItemV = e.ItemV /\ d.ItemVDel = e.ItemVDel
        /\ d.ChildInfoV = e.ChildInfoV /\ d.TotalCnt = RecalcTotalCnt(d) /\ d.MergedP = TRUE
        /\ d.DirtyP = e.DirtyP /\ d.DeleteMarkerP = e.DeleteMarkerP /\ d.Blobs = e.Blobs
    <2>1. e \in Rec
      BY <1>5 DEF Sound
    <2> QED BY <2>1, CountedIs
  <1>7. d = Def(s)
    BY DEF Def, d, e, u, q, t, Moved
  <1> HIDE DEF d
  <1>8. Sound(d) /\ Shaped(d.ChildInfoV)
    BY <1>5, <1>6 DEF Sound
  <1>9. Packed(d)
    BY <1>1, <1>2, <1>3, <1>5, <1>6, <1>8 DEF Packed, Steady
  <1>10. \A x : Has(d, x) <=> Has(t, x)
    <2>1. \A x : Has(d, x) <=> Has(e, x)
      BY <1>6 DEF Has
    <2> QED BY <1>2, <1>3, <1>5, <2>1
  <1> QED BY <1>7, <1>9, <1>10 DEF t

----
\* What holds between the calls.
Fit(s) ==
  /\ Base(s) /\ s.TotalCnt = RecalcTotalCnt(s)
  /\ s.MergedP => Sound(s) /\ s.ItemVDel = {} /\ s.DeleteMarkerP = FALSE
  /\ s.ItemVDel = {} => Len(s.ItemV) <= SplitLen

LEMMA FitIs ==
  ASSUME NEW s, Fit(s)
  PROVE  /\ s \in Rec /\ Kids(s.ChildInfoV) /\ s.Blobs = Len(s.ChildInfoV) /\ Markers(s)
         /\ Shaped(s.ChildInfoV) /\ s.ItemV \in Seq(Item) /\ s.ChildInfoV \in Seq(Child)
         /\ Len(s.ItemV) \in Nat /\ Len(s.ChildInfoV) \in Nat
         /\ s.TotalCnt = RecalcTotalCnt(s) /\ SumLen(s.ChildInfoV) \in Nat
         /\ RecalcTotalCnt(s) = Len(s.ItemV) + SumLen(s.ChildInfoV)
  <1>1. /\ s \in Rec /\ Kids(s.ChildInfoV) /\ s.Blobs = Len(s.ChildInfoV) /\ Markers(s)
        /\ Shaped(s.ChildInfoV) /\ s.TotalCnt = RecalcTotalCnt(s)
    BY DEF Fit, Base
  <1>2. s.ItemV \in Seq(Item) /\ s.ChildInfoV \in Seq(Child)
    BY <1>1 DEF Rec
  <1>3. SumLen(s.ChildInfoV) \in Nat
    BY <1>2, SumLenIs
  <1>4. Len(s.ItemV) \in Nat /\ Len(s.ChildInfoV) \in Nat
    BY <1>2
  <1> QED BY <1>1, <1>2, <1>3, <1>4 DEF RecalcTotalCnt

LEMMA DefFits ==
  ASSUME NEW s, Fit(s), SplitLenMin # 0
  PROVE  /\ Fit(Def(s)) /\ Def(s).MergedP /\ Sound(Def(s)) /\ Def(s).ItemVDel = {}
         /\ Def(s).DeleteMarkerP = FALSE
         /\ IF s.MergedP THEN Def(s) = s ELSE Packed(Def(s))
  <1>1. CASE s.MergedP
    <2>1. Def(s) = s
      BY <1>1 DEF Def
    <2> QED BY <1>1, <2>1 DEF Fit
  <1>2. CASE ~s.MergedP
    <2> DEFINE d == Def(s)
    <2>1. Packed(d)
      BY <1>2, DefIs DEF Fit
    <2> HIDE DEF d
    <2>2. d \in Rec /\ Len(d.ItemV) \in Nat /\ d.DeleteMarkerP \in BOOLEAN /\ d.MergedP
      <3>1. d \in Rec /\ d.ItemV \in Seq(Item) /\ d.DeleteMarkerP \in BOOLEAN
        BY <2>1 DEF Packed, Sound, Rec
      <3> QED BY <2>1, <3>1 DEF Packed
    <2>3. Markers(d)
      <3>1. d.ItemVDel = {}
        BY <2>1 DEF Packed
      <3> QED BY <3>1 DEF Markers
    <2>4. Base(d)
      BY <2>1, <2>3 DEF Base, Packed, Sound
    <2>5. Fit(d)
      BY <2>1, <2>2, <2>4, SplitAssumption DEF Fit, Packed
    <2>6. d.DeleteMarkerP = FALSE
      BY <2>1, <2>2 DEF Packed
    <2> QED BY <1>2, <2>1, <2>2, <2>5, <2>6 DEF Packed, d
  <1> QED BY <1>1, <1>2

LEMMA RoomFits ==
  ASSUME NEW s, Fit(s), SplitLenMin # 0
  PROVE  /\ Fit(MakeRoom(s)) /\ Len(MakeRoom(s).ItemV) < SplitLen
         /\ IF IsFull(s) THEN MakeRoom(s) = PushWorkBufferToChildren(Def(s)) ELSE MakeRoom(s) = s
  <1>0. SplitLen \in Nat \ {0} /\ SplitLenMax \in Nat /\ SplitLen <= SplitLenMax
    BY SplitAssumption
  <1>1. CASE ~IsFull(s)
    <2>1. MakeRoom(s) = s
      BY <1>1 DEF MakeRoom
    <2>2. Len(s.ItemV) < SplitLen
      BY <1>0, <1>1, FitIs DEF IsFull
    <2> QED BY <1>1, <2>1, <2>2
  <1>2. CASE IsFull(s)
    <2> DEFINE d == Def(s)
               r == PushWorkBufferToChildren(d)
    <2>1. Fit(d) /\ Sound(d) /\ d.MergedP /\ d.ItemVDel = {} /\ d.DeleteMarkerP = FALSE
      BY DefFits
    <2>2. MakeRoom(s) = r
      BY <1>2 DEF MakeRoom
    <2> HIDE DEF d
    <2>3. /\ Sound(r) /\ Steady(r, d)
          /\ r.TotalCnt = d.TotalCnt
          /\ (Len(d.ItemV) < 2 * SplitLen => RecalcTotalCnt(r) = RecalcTotalCnt(d))
          /\ Len(r.ItemV) < SplitLen
          /\ \A c \in 1..Len(r.ChildInfoV) :
               (c \in 1..Len(d.ChildInfoV) /\ r.ChildInfoV[c] = d.ChildInfoV[c]) \/
               (r.ChildInfoV[c].Len = SplitLen /\ r.ChildInfoV[c].DirtyP = FALSE)
      BY <2>1, PushAre
    <2> HIDE DEF r
    <2>4. Len(d.ItemV) < 2 * SplitLen
      <3>1. Len(d.ItemV) \in Nat /\ Len(d.ItemV) <= SplitLen
        BY <2>1, FitIs DEF Fit
      <3> QED BY <1>0, <3>1
    <2>5. r.TotalCnt = RecalcTotalCnt(r)
      BY <2>1, <2>3, <2>4, FitIs
    <2>6. Shaped(r.ChildInfoV)
      <3> SUFFICES ASSUME NEW c \in 1..Len(r.ChildInfoV) PROVE r.ChildInfoV[c].Len \in 1..SplitLenMax
        BY DEF Shaped
      <3>1. CASE c \in 1..Len(d.ChildInfoV) /\ r.ChildInfoV[c] = d.ChildInfoV[c]
        BY <2>1, <3>1, FitIs DEF Shaped
      <3>2. CASE r.ChildInfoV[c].Len = SplitLen
        BY <1>0, <3>2
      <3> QED BY <2>3, <3>1, <3>2
    <2>7. Markers(r)
      BY <2>1, <2>3 DEF Steady, Markers
    <2>8. Base(r)
      BY <2>3, <2>6, <2>7 DEF Base, Sound
    <2>9. Fit(r)
      <3>1. Len(r.ItemV) <= SplitLen
        <4>1. Len(r.ItemV) \in Nat
          BY <2>8 DEF Base, Rec
        <4> QED BY <1>0, <2>3, <4>1
      <3> QED BY <2>1, <2>3, <2>5, <2>8, <3>1 DEF Fit, Steady
    <2> QED BY <1>2, <2>2, <2>3, <2>9 DEF r, d
  <1> QED BY <1>1, <1>2

----
\* Additions and deletions.
LEMMA ExtendedIs ==
  ASSUME NEW s \in Rec, NEW x \in Item
  PROVE  LET r == Extended(s, x)
         IN  /\ r \in Rec /\ r.ItemV = Append(s.ItemV, x) /\ r.DirtyP = TRUE
             /\ r.TotalCnt = s.TotalCnt + 1 /\ r.ChildInfoV = s.ChildInfoV /\ r.Blobs = s.Blobs
             /\ r.ItemVDel = s.ItemVDel
             /\ (r.MergedP <=> s.MergedP /\ InOrder(s, x) /\ ~IsDeleteMarker(x))
             /\ (r.DeleteMarkerP <=> s.DeleteMarkerP \/ IsDeleteMarker(x))
  <1> DEFINE v == Append(s.ItemV, x)
             t == s.TotalCnt + 1
             m == s.MergedP /\ InOrder(s, x) /\ ~IsDeleteMarker(x)
             n == s.DeleteMarkerP \/ IsDeleteMarker(x)
             r == Extended(s, x)
  <1>1. v \in Seq(Item) /\ t \in Int /\ m \in BOOLEAN /\ n \in BOOLEAN
    <2>1. s.ItemV \in Seq(Item) /\ s.TotalCnt \in Int
      BY DEF Rec
    <2> QED BY <2>1
  <1>2. r = [s EXCEPT !.ItemV = v, !.DirtyP = TRUE, !.TotalCnt = t, !.MergedP = m,
                      !.DeleteMarkerP = n]
    BY DEF Extended, Rec
  <1> HIDE DEF v, t, m, n, r
  <1>3. /\ r \in Rec /\ r.ItemV = v /\ r.DirtyP = TRUE
        /\ r.TotalCnt = t /\ r.ChildInfoV = s.ChildInfoV /\ r.Blobs = s.Blobs
        /\ r.ItemVDel = s.ItemVDel /\ r.MergedP = m /\ r.DeleteMarkerP = n
    BY <1>1, <1>2 DEF Rec
  <1> QED BY <1>3 DEF v, t, m, n, r

LEMMA MarkedIs ==
  ASSUME NEW s \in Rec, NEW ids \in Seq(Id)
  PROVE  LET r == Marked(s, ids)
         IN  /\ r \in Rec /\ r.DirtyP = TRUE
             /\ r.ItemV = s.ItemV \o [n \in 1..Len(ids) |-> [id |-> ids[n], fq |-> 0]]
             /\ r.ItemVDel = s.ItemVDel \cup (Len(s.ItemV)+1 .. Len(s.ItemV)+Len(ids))
             /\ r.TotalCnt = s.TotalCnt + Len(ids) /\ r.ChildInfoV = s.ChildInfoV
             /\ r.Blobs = s.Blobs /\ r.MergedP = FALSE /\ r.DeleteMarkerP = s.DeleteMarkerP
             /\ Len(r.ItemV) = Len(s.ItemV) + Len(ids) /\ Len(s.ItemV) \in Nat /\ Len(ids) \in Nat
             /\ \A n \in 1..Len(s.ItemV) : r.ItemV[n] = s.ItemV[n]
             /\ \A n \in 1..Len(ids) : r.ItemV[Len(s.ItemV) + n] = [id |-> ids[n], fq |-> 0]
  <1> DEFINE w == [n \in 1..Len(ids) |-> [id |-> ids[n], fq |-> 0]]
             v == s.ItemV \o w
             t == s.TotalCnt + Len(ids)
             d == s.ItemVDel \cup (Len(s.ItemV)+1 .. Len(s.ItemV)+Len(ids))
             r == Marked(s, ids)
  <1>1. s.ItemV \in Seq(Item) /\ s.TotalCnt \in Int /\ s.ItemVDel \in SUBSET Nat
    BY DEF Rec
  <1>2. w \in Seq(Item) /\ Len(w) = Len(ids) /\ Len(ids) \in Nat
    <2>1. \A n \in 1..Len(ids) : [id |-> ids[n], fq |-> 0] \in Item
      BY DEF Item
    <2> QED BY <2>1
  <1>3. r = [s EXCEPT !.ItemV = v, !.ItemVDel = d, !.DirtyP = TRUE, !.TotalCnt = t, !.MergedP = FALSE]
    <2>1. DOMAIN ids = 1..Len(ids)
      OBVIOUS
    <2> QED BY <2>1 DEF Marked, Rec
  <1>4. \A n \in 1..Len(ids) : w[n] = [id |-> ids[n], fq |-> 0]
    OBVIOUS
  <1> HIDE DEF w
  <1>5. /\ v \in Seq(Item) /\ t \in Int /\ d \in SUBSET Nat /\ Len(s.ItemV) \in Nat
        /\ Len(v) = Len(s.ItemV) + Len(ids)
        /\ \A n \in 1..Len(s.ItemV) : v[n] = s.ItemV[n]
        /\ \A n \in 1..Len(ids) : v[Len(s.ItemV) + n] = w[n]
    <2> DEFINE y == s.ItemV
    <2>1. y \in Seq(Item) /\ Len(y) \in Nat /\ t \in Int /\ Len(w) \in Nat
      BY <1>1, <1>2
    <2>2. d \in SUBSET Nat
      BY <1>1, <1>2, <2>1
    <2>3. v = y \o w
      OBVIOUS
    <2> HIDE DEF y, v
    <2>4. v \in Seq(Item) /\ Len(v) = Len(y) + Len(w)
      BY <1>2, <2>1, <2>3, ConcatProperties
    <2>5. \A n \in 1..Len(y) : v[n] = y[n]
      BY <1>2, <2>1, <2>3
    <2>6. \A n \in 1..Len(w) : v[Len(y) + n] = w[n]
      BY <1>2, <2>1, <2>3
    <2> QED BY <1>2, <2>1, <2>2, <2>4, <2>5, <2>6 DEF y
  <1> HIDE DEF v, t, d, r
  <1>6. /\ r \in Rec /\ r.ItemV = v /\ r.ItemVDel = d /\ r.DirtyP = TRUE
        /\ r.TotalCnt = t /\ r.ChildInfoV = s.ChildInfoV /\ r.Blobs = s.Blobs
        /\ r.MergedP = FALSE /\ r.DeleteMarkerP = s.DeleteMarkerP
    BY <1>3, <1>5 DEF Rec
  <1> QED BY <1>2, <1>4, <1>5, <1>6 DEF v, t, d, r, w

\* In order means beyond all children.
LEMMA InOrderIs ==
  ASSUME NEW s, Sound(s), NEW x \in Item, InOrder(s, x)
  PROVE  /\ Ordered(Append(s.ItemV, x)) /\ Beyond(s.ChildInfoV, Append(s.ItemV, x))
  <1> DEFINE v == s.ItemV
             w == Append(v, x)
             kids == s.ChildInfoV
             L == Len(v)
  <1>1. /\ v \in Seq(Item) /\ L \in Nat /\ Kids(kids) /\ Ordered(v) /\ Beyond(kids, v)
        /\ x.id \in Nat
    <2>1. v \in Seq(Item) /\ Kids(kids) /\ Ordered(v) /\ Beyond(kids, v)
      BY DEF Sound, Rec
    <2>2. x.id \in Nat
      BY IdAssumption DEF Item
    <2> QED BY <2>1, <2>2
  <1>2. (v # <<>> => Last(v).id < x.id) /\ (v = <<>> => (kids # <<>> => Last(kids).MaxItem < x.id))
    BY DEF InOrder, IsLt
  <1> HIDE DEF v, kids
  <1>3. /\ w \in Seq(Item) /\ Len(w) = L + 1 /\ (\A n \in 1..L : w[n] = v[n]) /\ w[L + 1] = x
        /\ \A n \in 1..Len(w) : n \in 1..L \/ n = L + 1
    BY <1>1
  <1> HIDE DEF w
  <1>4. \A n \in 1..L : v[n].id < x.id
    <2> SUFFICES ASSUME NEW n \in 1..L PROVE v[n].id < x.id
      OBVIOUS
    <2>1. v # <<>>
      BY <1>1
    <2>2. v[n].id <= Last(v).id /\ Last(v).id \in Nat /\ v[n].id \in Nat
      BY <1>1, <2>1, OrderedEnds, Ends, IdsAre
    <2> QED BY <1>1, <1>2, <2>1, <2>2
  <1>5. \A c \in 1..Len(kids) : kids[c].MaxItem < x.id
    <2> SUFFICES ASSUME NEW c \in 1..Len(kids) PROVE kids[c].MaxItem < x.id
      OBVIOUS
    <2>0. kids[c].MaxItem \in Nat
      BY <1>1, KidsAre
    <2>1. CASE v # <<>>
      <3>1. 1 \in 1..L
        BY <1>1, <2>1, Ends
      <3>2. kids[c].MaxItem < v[1].id /\ v[1].id < x.id /\ v[1].id \in Nat
        BY <1>1, <1>4, <3>1, IdsAre DEF Beyond
      <3> QED BY <1>1, <2>0, <3>2
    <2>2. CASE v = <<>>
      <3> DEFINE K == Len(kids)
      <3>1. K \in Nat
        BY <1>1, KidsAre
      <3>2. kids # <<>>
        BY <3>1
      <3>3. Last(kids) = kids[K] /\ K \in 1..K
        BY <1>1, <3>2, FrontKids
      <3>4. kids[K].MaxItem < x.id
        BY <1>2, <2>2, <3>2, <3>3
      <3>5. c = K \/ (c < K /\ kids[c].MaxItem < kids[K].MaxItem /\ kids[K].MaxItem \in Nat)
        <4>1. c = K \/ c < K
          BY <3>1
        <4> QED BY <1>1, <3>3, <4>1, KidsAre
      <3> QED BY <1>1, <2>0, <3>4, <3>5
    <2> QED BY <2>1, <2>2
  <1>6. Ordered(w)
    <2> SUFFICES ASSUME NEW m \in 1..Len(w), NEW n \in 1..Len(w), m < n PROVE w[m].id < w[n].id
      BY DEF Ordered
    <2>1. m \in 1..L
      BY <1>1, <1>3
    <2>2. CASE n \in 1..L
      BY <1>1, <1>3, <2>1, <2>2 DEF Ordered
    <2>3. CASE n = L + 1
      BY <1>3, <1>4, <2>1, <2>3
    <2> QED BY <1>3, <2>2, <2>3
  <1>7. Beyond(kids, w)
    <2> SUFFICES ASSUME NEW c \in 1..Len(kids), NEW n \in 1..Len(w) PROVE kids[c].MaxItem < w[n].id
      BY DEF Beyond
    <2>1. CASE n \in 1..L
      BY <1>1, <1>3, <2>1 DEF Beyond
    <2>2. CASE n = L + 1
      BY <1>3, <1>5, <2>2
    <2> QED BY <1>3, <2>1, <2>2
  <1> QED BY <1>6, <1>7 DEF v, w, kids

LEMMA ExtendedFits ==
  ASSUME NEW s, Fit(s), Len(s.ItemV) < SplitLen, NEW x \in Item
  PROVE  Fit(Extended(s, x))
  <1> DEFINE r == Extended(s, x)
  <1>1. /\ s \in Rec /\ Kids(s.ChildInfoV) /\ s.Blobs = Len(s.ChildInfoV) /\ Markers(s)
        /\ Shaped(s.ChildInfoV) /\ s.ItemV \in Seq(Item)
        /\ Len(s.ItemV) \in Nat /\ s.TotalCnt = RecalcTotalCnt(s) /\ SumLen(s.ChildInfoV) \in Nat
        /\ RecalcTotalCnt(s) = Len(s.ItemV) + SumLen(s.ChildInfoV)
    BY FitIs
  <1>2. /\ r \in Rec /\ r.ItemV = Append(s.ItemV, x) /\ r.DirtyP = TRUE
        /\ r.TotalCnt = s.TotalCnt + 1 /\ r.ChildInfoV = s.ChildInfoV /\ r.Blobs = s.Blobs
        /\ r.ItemVDel = s.ItemVDel
        /\ (r.MergedP <=> s.MergedP /\ InOrder(s, x) /\ ~IsDeleteMarker(x))
        /\ (r.DeleteMarkerP <=> s.DeleteMarkerP \/ IsDeleteMarker(x))
    BY <1>1, ExtendedIs
  <1> HIDE DEF r
  <1>3. Len(r.ItemV) = Len(s.ItemV) + 1
    BY <1>1, <1>2
  <1>4. Base(r)
    <2>1. Markers(r)
      BY <1>1, <1>2, <1>3 DEF Markers
    <2> QED BY <1>1, <1>2, <2>1 DEF Base
  <1>5. r.TotalCnt = RecalcTotalCnt(r)
    <2>1. RecalcTotalCnt(r) = Len(s.ItemV) + 1 + SumLen(s.ChildInfoV)
      BY <1>2, <1>3 DEF RecalcTotalCnt
    <2>2. r.TotalCnt = Len(s.ItemV) + SumLen(s.ChildInfoV) + 1
      BY <1>1, <1>2
    <2> QED BY <1>1, <2>1, <2>2
  <1>6. Len(r.ItemV) <= SplitLen
    BY <1>1, <1>3, SplitAssumption
  <1>7. ASSUME r.MergedP PROVE Sound(r) /\ r.ItemVDel = {} /\ r.DeleteMarkerP = FALSE
    <2>1. Sound(s) /\ s.ItemVDel = {} /\ s.DeleteMarkerP = FALSE /\ InOrder(s, x)
      BY <1>2, <1>7 DEF Fit
    <2>2. Ordered(r.ItemV) /\ Beyond(r.ChildInfoV, r.ItemV)
      BY <1>2, <2>1, InOrderIs
    <2>3. r.DeleteMarkerP = FALSE
      <3>1. r.DeleteMarkerP \in BOOLEAN
        BY <1>2 DEF Rec
      <3> QED BY <1>2, <1>7, <2>1, <3>1
    <2> QED BY <1>1, <1>2, <2>1, <2>2, <2>3 DEF Sound
  <1>8. Fit(r)
    BY <1>4, <1>5, <1>6, <1>7 DEF Fit
  <1> QED BY <1>8 DEF r

LEMMA MarkedFits ==
  ASSUME NEW s, Fit(s), NEW ids \in Seq(Id), ids # <<>>
  PROVE  Fit(Marked(s, ids))
  <1> DEFINE r == Marked(s, ids)
             L == Len(s.ItemV)
             K == Len(ids)
  <1>1. /\ s \in Rec /\ Kids(s.ChildInfoV) /\ s.Blobs = Len(s.ChildInfoV) /\ Markers(s)
        /\ Shaped(s.ChildInfoV) /\ L \in Nat
        /\ s.TotalCnt = RecalcTotalCnt(s) /\ SumLen(s.ChildInfoV) \in Nat
        /\ RecalcTotalCnt(s) = L + SumLen(s.ChildInfoV)
    BY FitIs
  <1>2. /\ r \in Rec /\ r.ItemVDel = s.ItemVDel \cup (L+1 .. L+K)
        /\ r.TotalCnt = s.TotalCnt + K /\ r.ChildInfoV = s.ChildInfoV
        /\ r.Blobs = s.Blobs /\ r.MergedP = FALSE /\ Len(r.ItemV) = L + K /\ K \in Nat
    BY <1>1, MarkedIs
  <1>3. K # 0
    OBVIOUS
  <1> HIDE DEF r, K, L
  <1>4. Base(r)
    <2>1. Markers(r)
      BY <1>1, <1>2 DEF Markers, L
    <2> QED BY <1>1, <1>2, <2>1 DEF Base
  <1>5. r.TotalCnt = RecalcTotalCnt(r)
    <2>1. RecalcTotalCnt(r) = L + K + SumLen(s.ChildInfoV)
      BY <1>2 DEF RecalcTotalCnt
    <2>2. r.TotalCnt = L + SumLen(s.ChildInfoV) + K
      BY <1>1, <1>2
    <2> QED BY <1>1, <1>2, <2>1, <2>2
  <1>6. r.ItemVDel # {}
    <2>1. L + 1 \in L+1 .. L+K
      BY <1>1, <1>2, <1>3
    <2> QED BY <1>2, <2>1
  <1>7. Fit(r)
    BY <1>2, <1>4, <1>5, <1>6 DEF Fit
  <1> QED BY <1>7 DEF r

----
\* Packing without loading a child.
LEMMA BeyondIs ==
  ASSUME NEW s \in Rec, Kids(s.ChildInfoV), Ordered(s.ItemV), IsBeyondChildren(s)
  PROVE  Beyond(s.ChildInfoV, s.ItemV)
  <1> DEFINE v == s.ItemV
             kids == s.ChildInfoV
             K == Len(kids)
  <1>1. v \in Seq(Item) /\ K \in Nat /\ Kids(kids) /\ Ordered(v)
    BY KidsAre DEF Rec
  <1>2. kids = <<>> \/ v = <<>> \/ Last(kids).MaxItem < v[1].id
    BY DEF IsBeyondChildren
  <1> HIDE DEF v, kids
  <1>3. SUFFICES ASSUME NEW c \in 1..K, NEW n \in 1..Len(v) PROVE kids[c].MaxItem < v[n].id
    BY DEF Beyond, v, kids
  <1>4. kids # <<>> /\ v # <<>>
    BY <1>1
  <1>5. Last(kids) = kids[K] /\ K \in 1..K
    BY <1>1, <1>4, FrontKids
  <1>6. v[1].id <= v[n].id /\ v[1].id \in Nat /\ v[n].id \in Nat
    BY <1>1, <1>4, OrderedEnds, Ends, IdsAre
  <1>7. kids[K].MaxItem < v[1].id
    BY <1>2, <1>4, <1>5
  <1>8. kids[c].MaxItem <= kids[K].MaxItem /\ kids[c].MaxItem \in Nat /\ kids[K].MaxItem \in Nat
    <2>1. kids[c].MaxItem \in Nat /\ kids[K].MaxItem \in Nat
      BY <1>1, <1>5, KidsAre
    <2>2. c = K \/ c < K
      BY <1>1
    <2>3. c < K => kids[c].MaxItem < kids[K].MaxItem
      BY <1>1, <1>5, KidsAre
    <2> QED BY <2>1, <2>2, <2>3
  <1> QED BY <1>6, <1>7, <1>8

LocalIs(r, s) ==
  /\ r \in Rec /\ r.ChildInfoV = s.ChildInfoV /\ r.Blobs = s.Blobs /\ r.ItemVDel = {}
  /\ r.DirtyP = TRUE /\ Ordered(r.ItemV)
  /\ r.TotalCnt = s.TotalCnt - Len(s.ItemV) + Len(r.ItemV)
  /\ Len(r.ItemV) <= Len(s.ItemV) /\ Len(r.ItemV) \in Nat
  /\ \/ /\ r.MergedP = FALSE /\ r.ItemV = Merge(s.ItemV, TRUE) /\ r.DeleteMarkerP = s.DeleteMarkerP
     \/ /\ r.MergedP = TRUE /\ r.DeleteMarkerP = FALSE /\ Beyond(r.ChildInfoV, r.ItemV)
        /\ r.ItemV = IF s.DeleteMarkerP THEN Merge(Merge(s.ItemV, TRUE), FALSE)
                     ELSE Merge(s.ItemV, TRUE)
        /\ Beyond(s.ChildInfoV, Merge(s.ItemV, TRUE))

LEMMA DefLocalIs ==
  ASSUME NEW s \in Rec, Kids(s.ChildInfoV), ~s.MergedP, s.ItemVDel = {}
  PROVE  LocalIs(DefLocal(s), s)
  <1> DEFINE m == MergeBuffer(s)
             b == ScrubBeyond(m)
             t == ScrubTail(m)
             r == CountedFrom(b, Len(s.ItemV))
  <1>1. r = DefLocal(s)
    BY DEF DefLocal
  <1>2. /\ m \in Rec /\ m.ItemV = Merge(s.ItemV, TRUE) /\ m.DirtyP = TRUE
        /\ m.ChildInfoV = s.ChildInfoV /\ m.Blobs = s.Blobs /\ m.TotalCnt = s.TotalCnt
        /\ m.ItemVDel = s.ItemVDel /\ m.DeleteMarkerP = s.DeleteMarkerP /\ m.MergedP = s.MergedP
    BY MergeBufferIs DEF Steady
  <1>3. s.ItemV \in Seq(Item) /\ Len(s.ItemV) \in Nat /\ s.TotalCnt \in Int
    <2>1. s.ItemV \in Seq(Item) /\ s.TotalCnt \in Int
      BY DEF Rec
    <2> QED BY <2>1
  <1>4. Ordered(m.ItemV) /\ Len(m.ItemV) <= Len(s.ItemV) /\ m.ItemV \in Seq(Item)
    BY <1>2, <1>3, MergeIs
  <1>5. m.MergedP = FALSE
    BY <1>2 DEF Rec
  <1> HIDE DEF m
  <1>6. /\ t \in Rec /\ t.ItemV = IF m.DeleteMarkerP THEN Merge(m.ItemV, FALSE) ELSE m.ItemV
        /\ t.DirtyP = m.DirtyP /\ t.DeleteMarkerP = FALSE
        /\ t.ChildInfoV = m.ChildInfoV /\ t.Blobs = m.Blobs /\ t.TotalCnt = m.TotalCnt
        /\ t.ItemVDel = m.ItemVDel
    BY <1>2, ScrubTailIs
  <1> HIDE DEF t
  <1>7. Ordered(t.ItemV) /\ Len(t.ItemV) <= Len(m.ItemV) /\ t.ItemV \in Seq(Item)
    <2> DEFINE w == m.ItemV
    <2>1. w \in Seq(Item) /\ Ordered(w) /\ Len(w) \in Nat
      BY <1>4
    <2>2. t.ItemV = IF m.DeleteMarkerP THEN Merge(w, FALSE) ELSE w
      BY <1>6
    <2> HIDE DEF w
    <2>3. Ordered(Merge(w, FALSE)) /\ Len(Merge(w, FALSE)) <= Len(w) /\ Merge(w, FALSE) \in Seq(Item)
      BY <2>1, MergeIs
    <2>4. Len(w) <= Len(w)
      BY <2>1
    <2>5. Ordered(t.ItemV) /\ Len(t.ItemV) <= Len(w) /\ t.ItemV \in Seq(Item)
      BY <2>1, <2>2, <2>3, <2>4
    <2> QED BY <2>5 DEF w
  \* What the count does.
  <1>8. ASSUME NEW a \in Rec
        PROVE  LET y == CountedFrom(a, Len(s.ItemV))
               IN  /\ y \in Rec /\ y.TotalCnt = a.TotalCnt - Len(s.ItemV) + Len(a.ItemV)
                   /\ y.ItemV = a.ItemV /\ y.ItemVDel = a.ItemVDel /\ y.ChildInfoV = a.ChildInfoV
                   /\ y.MergedP = a.MergedP /\ y.DirtyP = a.DirtyP
                   /\ y.DeleteMarkerP = a.DeleteMarkerP /\ y.Blobs = a.Blobs
    <2> DEFINE n == a.TotalCnt - Len(s.ItemV) + Len(a.ItemV)
               y == CountedFrom(a, Len(s.ItemV))
    <2>1. n \in Int
      <3>1. a.TotalCnt \in Int /\ a.ItemV \in Seq(Item)
        BY DEF Rec
      <3> QED BY <1>3, <3>1
    <2>2. y = [a EXCEPT !.TotalCnt = n]
      BY DEF CountedFrom, Rec
    <2> HIDE DEF n, y
    <2>3. /\ y \in Rec /\ y.TotalCnt = n
          /\ y.ItemV = a.ItemV /\ y.ItemVDel = a.ItemVDel /\ y.ChildInfoV = a.ChildInfoV
          /\ y.MergedP = a.MergedP /\ y.DirtyP = a.DirtyP
          /\ y.DeleteMarkerP = a.DeleteMarkerP /\ y.Blobs = a.Blobs
      BY <2>1, <2>2 DEF Rec
    <2> QED BY <2>3 DEF n, y
  <1>9. CASE ~IsBeyondChildren(m)
    <2>1. b = m
      BY <1>9 DEF ScrubBeyond
    <2>2. LocalIs(CountedFrom(m, Len(s.ItemV)), s)
      <3> DEFINE y == CountedFrom(m, Len(s.ItemV))
      <3>1. /\ y \in Rec /\ y.TotalCnt = m.TotalCnt - Len(s.ItemV) + Len(m.ItemV)
            /\ y.ItemV = m.ItemV /\ y.ItemVDel = m.ItemVDel /\ y.ChildInfoV = m.ChildInfoV
            /\ y.MergedP = m.MergedP /\ y.DirtyP = m.DirtyP
            /\ y.DeleteMarkerP = m.DeleteMarkerP /\ y.Blobs = m.Blobs
        BY <1>2, <1>8
      <3> HIDE DEF y
      <3>2. Len(y.ItemV) \in Nat
        BY <1>4, <3>1
      <3>3. LocalIs(y, s)
        BY <1>2, <1>4, <1>5, <3>1, <3>2 DEF LocalIs
      <3> QED BY <3>3 DEF y
    <2> QED BY <1>1, <2>1, <2>2
  <1>10. CASE IsBeyondChildren(m)
    <2> DEFINE a == [t EXCEPT !.MergedP = TRUE]
    <2>1. b = a
      BY <1>10 DEF ScrubBeyond, t
    <2>2. /\ a \in Rec /\ a.ItemV = t.ItemV /\ a.ItemVDel = t.ItemVDel /\ a.ChildInfoV = t.ChildInfoV
          /\ a.MergedP = TRUE /\ a.DirtyP = t.DirtyP /\ a.TotalCnt = t.TotalCnt
          /\ a.DeleteMarkerP = t.DeleteMarkerP /\ a.Blobs = t.Blobs
      BY <1>6 DEF Rec
    <2> HIDE DEF a
    <2>3. Beyond(s.ChildInfoV, m.ItemV)
      <3>1. Kids(m.ChildInfoV)
        BY <1>2
      <3>2. Beyond(m.ChildInfoV, m.ItemV)
        BY <1>2, <1>4, <1>10, <3>1, BeyondIs
      <3> QED BY <1>2, <3>2
    <2>4. Beyond(s.ChildInfoV, t.ItemV)
      <3> DEFINE w == m.ItemV
                 k2 == s.ChildInfoV
      <3>1. w \in Seq(Item) /\ Beyond(k2, w)
        BY <1>4, <2>3
      <3>2. t.ItemV = IF m.DeleteMarkerP THEN Merge(w, FALSE) ELSE w
        BY <1>6
      <3> HIDE DEF w, k2
      <3>3. Beyond(k2, Merge(w, FALSE))
        BY <3>1, StaysBeyond
      <3>4. Beyond(k2, t.ItemV)
        BY <3>1, <3>2, <3>3
      <3> QED BY <3>4 DEF k2
    <2> DEFINE y == CountedFrom(a, Len(s.ItemV))
    <2>5. /\ y \in Rec /\ y.TotalCnt = a.TotalCnt - Len(s.ItemV) + Len(a.ItemV)
          /\ y.ItemV = a.ItemV /\ y.ItemVDel = a.ItemVDel /\ y.ChildInfoV = a.ChildInfoV
          /\ y.MergedP = a.MergedP /\ y.DirtyP = a.DirtyP
          /\ y.DeleteMarkerP = a.DeleteMarkerP /\ y.Blobs = a.Blobs
      BY <1>8, <2>2
    <2> HIDE DEF y
    <2>6. Len(y.ItemV) <= Len(s.ItemV) /\ Len(y.ItemV) \in Nat
      <3>1. Len(t.ItemV) \in Nat /\ Len(m.ItemV) \in Nat
        BY <1>4, <1>7
      <3>2. Len(t.ItemV) <= Len(s.ItemV)
        BY <1>3, <1>4, <1>7, <3>1
      <3> QED BY <2>2, <2>5, <3>1, <3>2
    <2>7. y.ItemV = IF s.DeleteMarkerP THEN Merge(Merge(s.ItemV, TRUE), FALSE)
                    ELSE Merge(s.ItemV, TRUE)
      BY <1>2, <1>6, <2>2, <2>5
    <2>8. /\ y \in Rec /\ y.ChildInfoV = s.ChildInfoV /\ y.Blobs = s.Blobs /\ y.ItemVDel = {}
          /\ y.DirtyP = TRUE /\ Ordered(y.ItemV) /\ y.MergedP = TRUE /\ y.DeleteMarkerP = FALSE
          /\ y.TotalCnt = s.TotalCnt - Len(s.ItemV) + Len(y.ItemV)
          /\ Beyond(y.ChildInfoV, y.ItemV) /\ Beyond(s.ChildInfoV, Merge(s.ItemV, TRUE))
      BY <1>2, <1>6, <1>7, <2>2, <2>3, <2>4, <2>5
    <2>9. LocalIs(y, s)
      BY <2>6, <2>7, <2>8 DEF LocalIs
    <2> QED BY <1>1, <2>1, <2>9 DEF y
  <1> QED BY <1>9, <1>10

LEMMA DefLocalFits ==
  ASSUME NEW s, Fit(s), ~s.MergedP
  PROVE  Fit(DefLocal(s)) /\ (DefLocal(s) = s \/ DefLocal(s).DirtyP = TRUE)
  <1>1. CASE s.ItemVDel # {}
    <2>1. DefLocal(s) = s
      BY <1>1 DEF DefLocal
    <2> QED BY <2>1
  <1>2. CASE s.ItemVDel = {}
    <2> DEFINE r == DefLocal(s)
    <2>1. /\ s \in Rec /\ Kids(s.ChildInfoV) /\ s.Blobs = Len(s.ChildInfoV)
          /\ Shaped(s.ChildInfoV) /\ Len(s.ItemV) \in Nat
          /\ s.TotalCnt = RecalcTotalCnt(s) /\ SumLen(s.ChildInfoV) \in Nat
          /\ RecalcTotalCnt(s) = Len(s.ItemV) + SumLen(s.ChildInfoV)
          /\ Len(s.ItemV) <= SplitLen
      BY <1>2, FitIs DEF Fit
    <2>2. LocalIs(r, s)
      BY <1>2, <2>1, DefLocalIs
    <2> HIDE DEF r
    <2>3. /\ r \in Rec /\ r.ChildInfoV = s.ChildInfoV /\ r.Blobs = s.Blobs /\ r.ItemVDel = {}
          /\ r.DirtyP = TRUE /\ Ordered(r.ItemV)
          /\ r.TotalCnt = s.TotalCnt - Len(s.ItemV) + Len(r.ItemV)
          /\ Len(r.ItemV) <= Len(s.ItemV) /\ Len(r.ItemV) \in Nat
          /\ (r.MergedP => r.DeleteMarkerP = FALSE /\ Beyond(r.ChildInfoV, r.ItemV))
      BY <2>2 DEF LocalIs
    <2>4. Base(r)
      BY <2>1, <2>3 DEF Base, Markers
    <2>5. r.TotalCnt = RecalcTotalCnt(r)
      <3>1. RecalcTotalCnt(r) = Len(r.ItemV) + SumLen(s.ChildInfoV)
        BY <2>3 DEF RecalcTotalCnt
      <3>2. r.TotalCnt = Len(s.ItemV) + SumLen(s.ChildInfoV) - Len(s.ItemV) + Len(r.ItemV)
        BY <2>1, <2>3
      <3> QED BY <2>1, <2>3, <3>1, <3>2
    <2>6. Len(r.ItemV) <= SplitLen
      BY <2>1, <2>3, SplitAssumption
    <2>7. r.MergedP => Sound(r)
      BY <2>1, <2>3 DEF Sound
    <2>8. Fit(r)
      BY <2>3, <2>4, <2>5, <2>6, <2>7 DEF Fit
    <2> QED BY <2>3, <2>8 DEF r
  <1> QED BY <1>1, <1>2

----
\* Loading and saving children.
Alike(k2, kids) ==
  /\ k2 \in Seq(Child) /\ Len(k2) = Len(kids)
  /\ \A c \in 1..Len(kids) :
       /\ KidOK(k2[c]) /\ Vec(k2[c]) = Vec(kids[c]) /\ k2[c].Len = kids[c].Len
       /\ k2[c].MinItem = kids[c].MinItem /\ k2[c].MaxItem = kids[c].MaxItem
SameButKids(r, s) ==
  /\ r \in Rec /\ Alike(r.ChildInfoV, s.ChildInfoV)
  /\ r.ItemV = s.ItemV /\ r.ItemVDel = s.ItemVDel /\ r.TotalCnt = s.TotalCnt
  /\ r.MergedP = s.MergedP /\ r.DeleteMarkerP = s.DeleteMarkerP /\ r.Blobs = s.Blobs

LEMMA AlikeFits ==
  ASSUME NEW s, Fit(s), NEW r, SameButKids(r, s)
  PROVE  Fit(r) /\ \A x : Has(r, x) <=> Has(s, x)
  <1> DEFINE kids == s.ChildInfoV
             k2 == r.ChildInfoV
  <1>1. /\ s \in Rec /\ Kids(kids) /\ s.Blobs = Len(kids) /\ Markers(s)
        /\ Shaped(kids) /\ Len(kids) \in Nat /\ s.TotalCnt = RecalcTotalCnt(s)
        /\ RecalcTotalCnt(s) = Len(s.ItemV) + SumLen(kids) /\ kids \in Seq(Child)
    BY FitIs
  <1>2. /\ r \in Rec /\ Alike(k2, kids)
        /\ r.ItemV = s.ItemV /\ r.ItemVDel = s.ItemVDel /\ r.TotalCnt = s.TotalCnt
        /\ r.MergedP = s.MergedP /\ r.DeleteMarkerP = s.DeleteMarkerP /\ r.Blobs = s.Blobs
    BY DEF SameButKids
  <1> HIDE DEF kids, k2
  <1>3. /\ k2 \in Seq(Child) /\ Len(k2) = Len(kids)
        /\ \A c \in 1..Len(kids) :
             /\ KidOK(k2[c]) /\ Vec(k2[c]) = Vec(kids[c]) /\ k2[c].Len = kids[c].Len
             /\ k2[c].MinItem = kids[c].MinItem /\ k2[c].MaxItem = kids[c].MaxItem
    BY <1>2 DEF Alike
  <1>4. Kids(k2)
    BY <1>1, <1>3 DEF Kids, Behind
  <1>5. SumLen(k2) = SumLen(kids)
    BY <1>1, <1>3, SumLenSame
  <1>6. r.TotalCnt = RecalcTotalCnt(r)
    BY <1>1, <1>2, <1>5 DEF RecalcTotalCnt, k2, kids
  <1>7. Base(r)
    BY <1>1, <1>2, <1>3, <1>4 DEF Base, Markers, Shaped, k2, kids
  <1>8. ASSUME r.MergedP PROVE Sound(r)
    <2>1. Sound(s)
      BY <1>2, <1>8 DEF Fit
    <2>2. Ordered(s.ItemV) /\ Beyond(kids, s.ItemV)
      BY <2>1 DEF Sound, kids
    <2>3. Beyond(k2, r.ItemV)
      BY <1>2, <1>3, <2>2 DEF Beyond
    <2> QED BY <1>2, <1>4, <1>7, <2>2, <2>3 DEF Sound, Base, k2
  <1>9. Fit(r)
    BY <1>2, <1>6, <1>7, <1>8 DEF Fit
  <1>10. \A x : InKids(k2, x) <=> InKids(kids, x)
    BY <1>3 DEF InKids
  <1>11. \A x : Has(r, x) <=> Has(s, x)
    BY <1>2, <1>10 DEF Has, k2, kids
  <1> QED BY <1>9, <1>11

Rekid(s, k2, d) == [s EXCEPT !.ChildInfoV = k2, !.DirtyP = d]

LEMMA RekidIs ==
  ASSUME NEW s, Fit(s), NEW k2, Alike(k2, s.ChildInfoV), NEW d \in BOOLEAN
  PROVE  /\ SameButKids(Rekid(s, k2, d), s)
         /\ Rekid(s, k2, d).ChildInfoV = k2 /\ Rekid(s, k2, d).DirtyP = d
  <1> DEFINE r == [s EXCEPT !.ChildInfoV = k2, !.DirtyP = d]
  <1>1. s \in Rec /\ k2 \in Seq(Child)
    BY FitIs DEF Alike
  <1>2. /\ r \in Rec /\ r.ChildInfoV = k2 /\ r.DirtyP = d
        /\ r.ItemV = s.ItemV /\ r.ItemVDel = s.ItemVDel /\ r.TotalCnt = s.TotalCnt
        /\ r.MergedP = s.MergedP /\ r.DeleteMarkerP = s.DeleteMarkerP /\ r.Blobs = s.Blobs
    BY <1>1 DEF Rec
  <1> HIDE DEF r
  <1>3. SameButKids(r, s)
    BY <1>2 DEF SameButKids
  <1> QED BY <1>2, <1>3 DEF r, Rekid

----
\* The stored header.
HeadKid(k) == [k EXCEPT !.Vec = NoVec, !.DirtyP = FALSE]
HeadKids(kids) == [c \in 1..Len(kids) |-> HeadKid(kids[c])]

LEMMA HeadKidIs ==
  ASSUME NEW k \in Child
  PROVE  /\ HeadKid(k) \in Child /\ HeadKid(k).MinItem = k.MinItem
         /\ HeadKid(k).MaxItem = k.MaxItem /\ HeadKid(k).Len = k.Len
         /\ HeadKid(k).DirtyP = FALSE /\ HeadKid(k).Vec = NoVec /\ HeadKid(k).Disk = k.Disk
  BY DEF HeadKid, Child

LEMMA HeaderIs ==
  ASSUME NEW s, s.ChildInfoV \in Seq(Child)
  PROVE  /\ Header(s) = [ItemV |-> s.ItemV, ChildInfoV |-> HeadKids(s.ChildInfoV)]
         /\ HeadKids(s.ChildInfoV) \in Seq(Child)
         /\ Len(HeadKids(s.ChildInfoV)) = Len(s.ChildInfoV)
         /\ \A c \in 1..Len(s.ChildInfoV) : HeadKids(s.ChildInfoV)[c] = HeadKid(s.ChildInfoV[c])
  <1> DEFINE kids == s.ChildInfoV
  <1>1. DOMAIN kids = 1..Len(kids) /\ Len(kids) \in Nat /\ \A c \in 1..Len(kids) : kids[c] \in Child
    OBVIOUS
  <1>2. Header(s) = [ItemV |-> s.ItemV, ChildInfoV |-> HeadKids(kids)]
    BY <1>1 DEF Header, HeadKids, HeadKid
  <1> HIDE DEF kids
  <1>3. \A c \in 1..Len(kids) : HeadKid(kids[c]) \in Child
    BY <1>1, HeadKidIs
  <1>4. HeadKids(kids) \in Seq(Child) /\ Len(HeadKids(kids)) = Len(kids)
    <2> DEFINE e(c) == HeadKid(kids[c])
    <2>1. \A c \in 1..Len(kids) : e(c) \in Child
      BY <1>3
    <2>2. HeadKids(kids) = [c \in 1..Len(kids) |-> e(c)]
      BY DEF HeadKids
    <2> HIDE DEF e
    <2> QED BY <1>1, <2>1, <2>2
  <1>5. \A c \in 1..Len(kids) : HeadKids(kids)[c] = HeadKid(kids[c])
    BY DEF HeadKids
  <1> QED BY <1>2, <1>4, <1>5 DEF kids

\* The same on disk.
Stores(k2, kids) ==
  /\ Len(k2) = Len(kids) /\ \A c \in 1..Len(kids) :
       /\ k2[c].MinItem = kids[c].MinItem /\ k2[c].MaxItem = kids[c].MaxItem
       /\ k2[c].Len = kids[c].Len /\ k2[c].Disk = kids[c].Disk

LEMMA HeaderSame ==
  ASSUME NEW s, NEW r, s.ChildInfoV \in Seq(Child), r.ChildInfoV \in Seq(Child),
         r.ItemV = s.ItemV, Stores(r.ChildInfoV, s.ChildInfoV)
  PROVE  Header(r) = Header(s)
  <1> DEFINE kids == s.ChildInfoV
             k2 == r.ChildInfoV
  <1>1. kids \in Seq(Child) /\ k2 \in Seq(Child) /\ Stores(k2, kids)
    OBVIOUS
  <1>2. HeadKids(k2) = HeadKids(kids)
    <2> HIDE DEF kids, k2
    <2>1. ASSUME NEW c \in 1..Len(kids) PROVE HeadKid(k2[c]) = HeadKid(kids[c])
      <3>1. k2[c] \in Child /\ kids[c] \in Child
        BY <1>1 DEF Stores
      <3> DEFINE k == k2[c]
                 l == kids[c]
      <3>2. k \in Child /\ l \in Child /\ k.MinItem = l.MinItem /\ k.MaxItem = l.MaxItem
            /\ k.Len = l.Len /\ k.Disk = l.Disk
        BY <1>1, <3>1 DEF Stores
      <3> HIDE DEF k, l
      <3>3. HeadKid(k) = HeadKid(l)
        BY <3>2 DEF HeadKid, Child
      <3> QED BY <3>3 DEF k, l
    <2> QED BY <1>1, <2>1 DEF HeadKids, Stores
  <1>3. Header(r) = [ItemV |-> r.ItemV, ChildInfoV |-> HeadKids(k2)]
    BY HeaderIs
  <1>4. Header(s) = [ItemV |-> s.ItemV, ChildInfoV |-> HeadKids(kids)]
    BY HeaderIs
  <1> QED BY <1>2, <1>3, <1>4

\* Loading some of the children.
LEMMA LoadsAre ==
  ASSUME NEW s, Fit(s), NEW P
  PROVE  LET k2 == [c \in 1..Len(s.ChildInfoV) |->
                      IF c \in P THEN LoadChild(s.ChildInfoV[c]) ELSE s.ChildInfoV[c]]
         IN  /\ Alike(k2, s.ChildInfoV) /\ Stores(k2, s.ChildInfoV)
             /\ \A c \in 1..Len(s.ChildInfoV) : k2[c].DirtyP = s.ChildInfoV[c].DirtyP
  <1> DEFINE kids == s.ChildInfoV
             e(c) == IF c \in P THEN LoadChild(kids[c]) ELSE kids[c]
             k2 == [c \in 1..Len(kids) |-> e(c)]
  <1>1. Kids(kids) /\ Len(kids) \in Nat
    BY FitIs
  <1> HIDE DEF kids
  <1>2. ASSUME NEW c \in 1..Len(kids)
        PROVE  /\ KidOK(e(c)) /\ e(c) \in Child /\ Vec(e(c)) = Vec(kids[c])
               /\ e(c).Len = kids[c].Len /\ e(c).DirtyP = kids[c].DirtyP
               /\ e(c).MinItem = kids[c].MinItem /\ e(c).MaxItem = kids[c].MaxItem
               /\ e(c).Disk = kids[c].Disk
    <2>1. KidOK(kids[c])
      BY <1>1, KidsAre
    <2>2. CASE c \in P
      <3>1. e(c) = LoadChild(kids[c])
        BY <2>2
      <3> HIDE DEF e
      <3> QED BY <2>1, <3>1, LoadChildIs DEF KidOK
    <2>3. CASE c \notin P
      <3>1. e(c) = kids[c]
        BY <2>3
      <3> HIDE DEF e
      <3> QED BY <2>1, <3>1 DEF KidOK
    <2> QED BY <2>2, <2>3
  <1> HIDE DEF e
  <1>3. k2 \in Seq(Child) /\ Len(k2) = Len(kids) /\ \A c \in 1..Len(kids) : k2[c] = e(c)
    BY <1>1, <1>2
  <1> HIDE DEF k2
  <1>4. Alike(k2, kids) /\ Stores(k2, kids) /\ \A c \in 1..Len(kids) : k2[c].DirtyP = kids[c].DirtyP
    BY <1>2, <1>3 DEF Alike, Stores
  <1> QED BY <1>4 DEF k2, e, kids

\* Saving all of them.
LEMMA SavedIs ==
  ASSUME NEW s, Fit(s)
  PROVE  LET r == Saved(s)
         IN  /\ SameButKids(r, s) /\ r.DirtyP = FALSE
             /\ \A c \in 1..Len(r.ChildInfoV) : r.ChildInfoV[c].DirtyP = FALSE
  <1> DEFINE kids == s.ChildInfoV
             e(c) == SaveChild(kids[c])
             k2 == [c \in 1..Len(kids) |-> e(c)]
             r == Saved(s)
  <1>1. Kids(kids) /\ Len(kids) \in Nat /\ s \in Rec /\ DOMAIN kids = 1..Len(kids)
    BY FitIs, KidsAre
  <1>2. r = [s EXCEPT !.ChildInfoV = k2, !.DirtyP = FALSE]
    BY <1>1 DEF Saved, Rec
  <1> HIDE DEF kids
  <1>3. ASSUME NEW c \in 1..Len(kids)
        PROVE  /\ KidOK(e(c)) /\ e(c) \in Child /\ Vec(e(c)) = Vec(kids[c])
               /\ e(c).Len = kids[c].Len /\ e(c).DirtyP = FALSE
               /\ e(c).MinItem = kids[c].MinItem /\ e(c).MaxItem = kids[c].MaxItem
    <2>1. KidOK(kids[c])
      BY <1>1, KidsAre
    <2> QED BY <2>1, SaveChildIs DEF KidOK
  <1> HIDE DEF e
  <1>4. k2 \in Seq(Child) /\ Len(k2) = Len(kids) /\ \A c \in 1..Len(kids) : k2[c] = e(c)
    <2>1. \A c \in 1..Len(kids) : e(c) \in Child
      BY <1>3
    <2>2. Len(kids) \in Nat
      BY <1>1
    <2> QED BY <2>1, <2>2
  <1> HIDE DEF k2, r
  <1>5. Alike(k2, kids) /\ \A c \in 1..Len(k2) : k2[c].DirtyP = FALSE
    BY <1>3, <1>4 DEF Alike
  <1>6. SameButKids(r, s) /\ r.ChildInfoV = k2 /\ r.DirtyP = FALSE
    <2>1. FALSE \in BOOLEAN /\ Alike(k2, s.ChildInfoV)
      BY <1>5 DEF kids
    <2> DEFINE y == Rekid(s, k2, FALSE)
    <2>2. SameButKids(y, s) /\ y.ChildInfoV = k2 /\ y.DirtyP = FALSE
      BY <2>1, RekidIs
    <2>3. y = r
      BY <1>2 DEF Rekid
    <2> HIDE DEF y
    <2> QED BY <2>2, <2>3
  <1> QED BY <1>5, <1>6 DEF r

\* Loading the header.
LEMMA LoadedIs ==
  ASSUME NEW s, Fit(s), s.MergedP,
         \A c \in 1..Len(s.ChildInfoV) : s.ChildInfoV[c].DirtyP = FALSE
  PROVE  LET r == Loaded(Header(s), s.Blobs)
         IN  /\ SameButKids(r, s) /\ r.DirtyP = FALSE /\ Stores(r.ChildInfoV, s.ChildInfoV)
             /\ \A c \in 1..Len(r.ChildInfoV) : r.ChildInfoV[c].DirtyP = FALSE
  <1> DEFINE kids == s.ChildInfoV
             k2 == HeadKids(kids)
             r == Loaded(Header(s), s.Blobs)
             y == [ItemV |-> s.ItemV, ItemVDel |-> {}, ChildInfoV |-> k2,
                   TotalCnt |-> 0, MergedP |-> TRUE, DirtyP |-> FALSE,
                   DeleteMarkerP |-> FALSE, Blobs |-> s.Blobs]
             b == RecalcTotalCnt(y)
  <1>1. /\ s \in Rec /\ Kids(kids) /\ kids \in Seq(Child) /\ Len(kids) \in Nat
        /\ s.TotalCnt = RecalcTotalCnt(s) /\ RecalcTotalCnt(s) = Len(s.ItemV) + SumLen(kids)
        /\ s.ItemV \in Seq(Item)
    BY FitIs
  <1>2. /\ Header(s) = [ItemV |-> s.ItemV, ChildInfoV |-> k2] /\ k2 \in Seq(Child)
        /\ Len(k2) = Len(kids) /\ \A c \in 1..Len(kids) : k2[c] = HeadKid(kids[c])
    BY <1>1, HeaderIs
  <1>3. s.ItemVDel = {} /\ s.DeleteMarkerP = FALSE /\ s.MergedP = TRUE
    BY <1>1 DEF Fit, Rec
  <1> HIDE DEF k2
  <1>4. r = [y EXCEPT !.TotalCnt = b]
    BY <1>2 DEF Loaded
  <1>5. y.ItemV = s.ItemV /\ y.ChildInfoV = k2
    OBVIOUS
  <1>6. /\ r.ItemV = s.ItemV /\ r.ItemVDel = {} /\ r.ChildInfoV = k2 /\ r.TotalCnt = b
        /\ r.MergedP = TRUE /\ r.DirtyP = FALSE /\ r.DeleteMarkerP = FALSE /\ r.Blobs = s.Blobs
        /\ r = [ItemV |-> s.ItemV, ItemVDel |-> {}, ChildInfoV |-> k2,
                   TotalCnt |-> b, MergedP |-> TRUE, DirtyP |-> FALSE,
                   DeleteMarkerP |-> FALSE, Blobs |-> s.Blobs]
    BY <1>4, ZenonT(40)
  <1> HIDE DEF y, r
  <1>7. ASSUME NEW c \in 1..Len(kids)
        PROVE  /\ KidOK(k2[c]) /\ Vec(k2[c]) = Vec(kids[c]) /\ k2[c].Len = kids[c].Len
               /\ k2[c].MinItem = kids[c].MinItem /\ k2[c].MaxItem = kids[c].MaxItem
               /\ k2[c].DirtyP = FALSE /\ k2[c].Disk = kids[c].Disk
    <2> DEFINE k == kids[c]
               l == k2[c]
    <2>1. KidOK(k) /\ k.DirtyP = FALSE
      BY <1>1, KidsAre
    <2>2. l = HeadKid(k)
      BY <1>2
    <2> HIDE DEF k, l
    <2>3. k \in Child /\ k.Disk = Vec(k) /\ Vec(k) \in Seq(Item)
      BY <2>1 DEF KidOK
    <2>4. /\ l \in Child /\ l.MinItem = k.MinItem /\ l.MaxItem = k.MaxItem /\ l.Len = k.Len
          /\ l.DirtyP = FALSE /\ l.Vec = NoVec /\ l.Disk = k.Disk
      BY <2>2, <2>3, HeadKidIs
    <2>5. Vec(l) = Vec(k)
      <3>1. Vec(l) = l.Disk
        BY <2>4 DEF Vec, LoadedP
      <3> QED BY <2>3, <2>4, <3>1
    <2>6. KidOK(l)
      BY <2>1, <2>3, <2>4, <2>5 DEF KidOK, Bounded
    <2> QED BY <2>4, <2>5, <2>6 DEF k, l
  <1>8. Alike(k2, kids) /\ Stores(k2, kids) /\ \A c \in 1..Len(k2) : k2[c].DirtyP = FALSE
    BY <1>2, <1>7 DEF Alike, Stores
  <1>9. b = s.TotalCnt
    <2>1. SumLen(k2) = SumLen(kids)
      BY <1>1, <1>2, <1>7, SumLenSame
    <2>2. b = Len(s.ItemV) + SumLen(k2)
      BY <1>5 DEF RecalcTotalCnt
    <2> QED BY <1>1, <2>1, <2>2
  <1>10. r \in Rec
    <2>1. b \in Int /\ s.Blobs \in Int
      BY <1>1, <1>9 DEF Rec
    <2> HIDE DEF b
    <2> QED BY <1>1, <1>2, <1>6, <2>1 DEF Rec
  <1>11. SameButKids(r, s)
    BY <1>3, <1>6, <1>8, <1>9, <1>10 DEF SameButKids, kids
  <1> QED BY <1>6, <1>8, <1>11 DEF r, kids

----
\* Item sets with nothing in them.
EmptySet(b) == [ItemV |-> <<>>, ItemVDel |-> {}, ChildInfoV |-> <<>>, TotalCnt |-> 0,
                MergedP |-> TRUE, DirtyP |-> TRUE, DeleteMarkerP |-> FALSE, Blobs |-> b]

LEMMA EmptyFits == Fit(EmptySet(0)) /\ \A x : ~Has(EmptySet(0), x)
  <1> DEFINE r == EmptySet(0)
  <1>1. <<>> \in Seq(Item) /\ <<>> \in Seq(Child) /\ Len(<<>>) = 0
    OBVIOUS
  <1>2. /\ r \in Rec /\ r.ItemV = <<>> /\ r.ItemVDel = {} /\ r.ChildInfoV = <<>> /\ r.TotalCnt = 0
        /\ r.MergedP = TRUE /\ r.DirtyP = TRUE /\ r.DeleteMarkerP = FALSE /\ r.Blobs = 0
    BY <1>1 DEF EmptySet, Rec
  <1> HIDE DEF r
  <1>3. Kids(<<>>) /\ Shaped(<<>>) /\ Ordered(<<>>) /\ Beyond(<<>>, <<>>)
    BY <1>1 DEF Kids, Behind, Shaped, Ordered, Beyond
  <1>4. Base(r) /\ Sound(r)
    BY <1>1, <1>2, <1>3 DEF Base, Sound, Markers
  <1>5. r.TotalCnt = RecalcTotalCnt(r)
    BY <1>1, <1>2, SumLenEmpty DEF RecalcTotalCnt
  <1>6. Fit(r)
    BY <1>1, <1>2, <1>4, <1>5, SplitAssumption DEF Fit
  <1>7. \A x : ~Has(r, x)
    BY <1>1, <1>2 DEF Has, InKids, Vals
  <1> QED BY <1>6, <1>7 DEF r

LEMMA NewIs == NewItemSet = EmptySet(0) /\ \A s : s.Blobs = 0 => Forgotten(s) = EmptySet(0)
  <1> DEFINE y == [ItemV |-> <<>>, ItemVDel |-> {}, ChildInfoV |-> <<>>,
                   TotalCnt |-> 0, MergedP |-> TRUE, DirtyP |-> FALSE,
                   DeleteMarkerP |-> FALSE, Blobs |-> 0]
  <1>1. RecalcTotalCnt(y) = 0
    BY SumLenEmpty DEF RecalcTotalCnt
  <1>2. NewItemSet = [[y EXCEPT !.TotalCnt = RecalcTotalCnt(y)] EXCEPT !.DirtyP = TRUE]
    BY DEF NewItemSet, Loaded
  <1>3. NewItemSet = EmptySet(0)
    BY <1>1, <1>2 DEF EmptySet
  <1>4. \A s : s.Blobs = 0 => Forgotten(s) = EmptySet(0)
    <2>1. [EmptySet(0) EXCEPT !.Blobs = 0] = EmptySet(0)
      <3> DEFINE x == EmptySet(0)
      <3>1. x.Blobs = 0 /\ x \in Rec
        BY EmptyFits, FitIs DEF EmptySet
      <3> HIDE DEF x
      <3>2. [x EXCEPT !.Blobs = 0] = x
        BY <3>1 DEF Rec
      <3> QED BY <3>2 DEF x
    <2> QED BY <1>3, <2>1 DEF Forgotten
  <1> QED BY <1>3, <1>4

LEMMA ClearedIs == ASSUME NEW s, Fit(s) PROVE Cleared(s) = EmptySet(0)
  <1>1. s \in Rec /\ s.Blobs = Len(s.ChildInfoV) /\ Len(s.ChildInfoV) \in Nat
    BY FitIs
  <1>2. s.Blobs - Len(s.ChildInfoV) = 0
    BY <1>1
  <1> DEFINE b == s.Blobs - Len(s.ChildInfoV)
  <1>3. Cleared(s) = [[s EXCEPT !.Blobs = b] EXCEPT
                        !.ChildInfoV = <<>>, !.ItemV = <<>>, !.ItemVDel = {}, !.MergedP = TRUE,
                        !.DeleteMarkerP = FALSE, !.DirtyP = TRUE, !.TotalCnt = 0]
    BY <1>1 DEF Cleared, DropBlobs, Rec
  <1>4. b = 0
    BY <1>2
  <1> HIDE DEF b
  <1> QED BY <1>1, <1>3, <1>4 DEF EmptySet, Rec

\* What counts to nothing has no children.
LEMMA NothingLeft ==
  ASSUME NEW s, Fit(s), s.TotalCnt = 0
  PROVE  s.Blobs = 0 /\ s.ItemV = <<>> /\ s.ChildInfoV = <<>>
  <1>1. /\ s.ChildInfoV \in Seq(Child) /\ s.ItemV \in Seq(Item) /\ s.Blobs = Len(s.ChildInfoV)
        /\ Len(s.ItemV) \in Nat /\ SumLen(s.ChildInfoV) \in Nat /\ Shaped(s.ChildInfoV)
        /\ s.TotalCnt = Len(s.ItemV) + SumLen(s.ChildInfoV) /\ Len(s.ChildInfoV) \in Nat
    BY FitIs
  <1>2. Len(s.ItemV) = 0 /\ SumLen(s.ChildInfoV) = 0
    BY <1>1
  <1>3. Len(s.ChildInfoV) = 0
    <2>1. SUFFICES ASSUME Len(s.ChildInfoV) # 0 PROVE FALSE
      OBVIOUS
    <2>2. 1 \in 1..Len(s.ChildInfoV)
      BY <1>1, <2>1
    <2>3. s.ChildInfoV[1].Len <= SumLen(s.ChildInfoV) /\ s.ChildInfoV[1].Len \in 1..SplitLenMax
      BY <1>1, <2>2, SumLenIs DEF Shaped
    <2> QED BY <1>2, <2>3, SplitAssumption
  <1> QED BY <1>1, <1>2, <1>3

----
\* Deleting what is below an id.
LEMMA FromIs ==
  ASSUME NEW v \in Seq(Item), NEW m, Ordered(v)
  PROVE  /\ From(v, m) \in Seq(Item) /\ Ordered(From(v, m)) /\ Len(From(v, m)) \in 0..Len(v)
         /\ (Len(From(v, m)) = Len(v) => From(v, m) = v)
         /\ \A x : x \in Vals(From(v, m)) <=> x \in Vals(v) /\ x.id >= m
  <1> DEFINE P == {n \in 1..Len(v) : v[n].id >= m}
             w == PickedFrom(v, P)
  <1>1. P \in SUBSET (1..Len(v)) /\ \A n \in 1..Len(v) : n \in P <=> v[n].id >= m
    OBVIOUS
  <1>2. w = From(v, m)
    <2>1. DOMAIN v = 1..Len(v)
      OBVIOUS
    <2> QED BY <2>1 DEF From
  <1> HIDE DEF P
  <1>3. w \in Seq(Item) /\ Vals(w) = {v[n] : n \in P}
    BY <1>1, PickedVals
  <1>4. Ordered(w)
    BY <1>1, PickedOrdered
  <1>5. Len(w) \in 0..Len(v) /\ (Len(w) = Len(v) => w = v)
    BY <1>1, PickedShort
  <1>6. ASSUME NEW x PROVE x \in Vals(w) <=> x \in Vals(v) /\ x.id >= m
    BY <1>1, <1>3 DEF Vals
  <1> QED BY <1>2, <1>3, <1>4, <1>5, <1>6

LEMMA FirstCutIs ==
  ASSUME NEW k, KidOK(k), NEW m, From(Vec(k), m) # <<>>
  PROVE  LET v == From(Vec(k), m)
             r == FirstCut(k, v)
         IN  /\ KidOK(r) /\ Vec(r) = v /\ r.Len = Len(v) /\ r.MaxItem = k.MaxItem
             /\ r.MinItem >= k.MinItem /\ r.Len \in 1..k.Len
             /\ (r.Len = k.Len => /\ r.MinItem = k.MinItem /\ r.Disk = k.Disk
                                  /\ r.DirtyP = k.DirtyP)
  <1> DEFINE u == Vec(k)
             v == From(u, m)
             r == FirstCut(k, v)
  <1>1. /\ k \in Child /\ u \in Seq(Item) /\ Ordered(u) /\ k.Len = Len(u) /\ Len(u) \in Nat
        /\ k.MinItem \in Nat /\ k.MaxItem \in Nat
        /\ \A x \in Vals(u) : k.MinItem <= x.id /\ x.id <= k.MaxItem
    <2>1. /\ k \in Child /\ u \in Seq(Item) /\ Ordered(u) /\ k.Len = Len(u)
          /\ \A x \in Vals(u) : k.MinItem <= x.id /\ x.id <= k.MaxItem
      BY KidIs
    <2> HIDE DEF u
    <2> QED BY <2>1, ChildIs
  <1> HIDE DEF u
  <1>2. /\ v \in Seq(Item) /\ Ordered(v) /\ Len(v) \in 0..Len(u) /\ (Len(v) = Len(u) => v = u)
        /\ \A x : x \in Vals(v) <=> x \in Vals(u) /\ x.id >= m
    BY <1>1, FromIs
  <1>3. v # <<>>
    BY DEF u
  <1> HIDE DEF v
  <1>4. 1 \in 1..Len(v) /\ v[1].id \in Id /\ v[1].id \in Nat /\ Len(v) \in 1..Len(u)
    <2>1. 1 \in 1..Len(v) /\ v[1].id \in Id /\ v[1].id \in Nat
      BY <1>2, <1>3, Ends
    <2> QED BY <1>2, <2>1
  <1>5. \A n \in 1..Len(v) : v[n] \in Vals(v) /\ k.MinItem <= v[n].id /\ v[n].id <= k.MaxItem
    <2> SUFFICES ASSUME NEW n \in 1..Len(v)
                 PROVE  v[n] \in Vals(v) /\ k.MinItem <= v[n].id /\ v[n].id <= k.MaxItem
      OBVIOUS
    <2>1. v[n] \in Vals(v)
      BY DEF Vals
    <2>2. v[n] \in Vals(u)
      BY <1>2, <2>1
    <2> QED BY <1>1, <2>1, <2>2
  <1>6. CASE v = u
    <2>1. r = LoadChild(k)
      BY <1>6 DEF FirstCut, u
    <2> HIDE DEF r
    <2>2. /\ KidOK(r) /\ Vec(r) = u /\ r.Len = k.Len /\ r.DirtyP = k.DirtyP
          /\ r.MinItem = k.MinItem /\ r.MaxItem = k.MaxItem /\ r.Disk = k.Disk
      BY <2>1, LoadChildIs DEF u
    <2>3. r.MinItem >= k.MinItem /\ r.Len \in 1..k.Len
      BY <1>1, <1>4, <1>6, <2>2
    <2>4. r.Len = Len(v) /\ Vec(r) = v
      BY <1>1, <1>6, <2>2
    <2> QED BY <2>2, <2>3, <2>4 DEF r, v, u
  <1>7. CASE v # u
    <2> DEFINE c == Changed(k, v)
               i == v[1].id
    <2>1. r = [c EXCEPT !.MinItem = i]
      BY <1>7 DEF FirstCut, u
    <2>2. /\ c \in Child /\ LoadedP(c) /\ Vec(c) = v /\ c.Len = Len(v) /\ c.DirtyP = TRUE
          /\ c.MinItem = k.MinItem /\ c.MaxItem = k.MaxItem
      BY <1>1, <1>2, ChangedIs
    <2>3. i \in Id
      BY <1>4
    <2>4. \A n \in 1..Len(v) : i <= v[n].id
      BY <1>2, <1>3, OrderedEnds
    <2> HIDE DEF c, i, r
    <2>5. /\ r \in Child /\ r.MinItem = i /\ r.MaxItem = c.MaxItem /\ r.Len = c.Len
          /\ r.DirtyP = c.DirtyP /\ r.Vec = c.Vec /\ r.Disk = c.Disk
      BY <2>1, <2>2, <2>3 DEF Child
    <2>6. LoadedP(r) /\ Vec(r) = v
      BY <2>2, <2>5 DEF LoadedP, Vec
    <2>7. r.MinItem <= r.MaxItem /\ r.MinItem >= k.MinItem
      BY <1>1, <1>4, <1>5, <2>2, <2>5 DEF i
    <2>8. Bounded(r, v)
      BY <1>5, <2>2, <2>4, <2>5 DEF Bounded
    <2>9. KidOK(r)
      BY <1>2, <2>2, <2>5, <2>6, <2>7, <2>8 DEF KidOK
    <2>10. r.Len \in 1..k.Len /\ r.Len # k.Len
      BY <1>1, <1>2, <1>4, <1>7, <2>2, <2>5
    <2>11. r.Len = Len(v) /\ r.MaxItem = k.MaxItem
      BY <2>2, <2>5
    <2> QED BY <2>6, <2>7, <2>9, <2>10, <2>11 DEF r, v, u
  <1> QED BY <1>6, <1>7

\* Less in one place is less in all.
LEMMA SumLess ==
  ASSUME NEW f \in Seq(Nat), NEW g \in Seq(Nat), Len(f) = Len(g),
         \A n \in 1..Len(g) : f[n] <= g[n]
  PROVE  SumUp(f) <= SumUp(g) /\ (SumUp(f) = SumUp(g) => \A n \in 1..Len(g) : f[n] = g[n])
  <1> DEFINE N == Len(g)
             F == SumTo(f)
             G == SumTo(g)
             P == {n \in Nat : n <= N => F[n] <= G[n] /\ (F[n] = G[n] => \A k \in 1..n : f[k] = g[k])}
  <1>1. f \in Seq(Int) /\ g \in Seq(Int) /\ N \in Nat /\ Len(f) = N
    OBVIOUS
  <1>2. /\ SumUp(f) = F[N] /\ F[0] = 0
        /\ \A n \in 1..N : F[n] = F[n - 1] + f[n]
        /\ \A n \in 0..N : F[n] \in Int
    <2>1. /\ SumUp(f) = SumTo(f)[Len(f)] /\ SumTo(f)[0] = 0
          /\ \A n \in 1..Len(f) : SumTo(f)[n] = SumTo(f)[n - 1] + f[n]
          /\ \A n \in 0..Len(f) : SumTo(f)[n] \in Int
      BY <1>1, SumSteps
    <2> QED BY <1>1, <2>1
  <1>3. /\ SumUp(g) = G[N] /\ G[0] = 0
        /\ \A n \in 1..N : G[n] = G[n - 1] + g[n]
        /\ \A n \in 0..N : G[n] \in Int
    BY <1>1, SumSteps
  <1>4. \A n \in 1..N : f[n] \in Nat /\ g[n] \in Nat /\ f[n] <= g[n]
    <2> SUFFICES ASSUME NEW n \in 1..N PROVE f[n] \in Nat /\ g[n] \in Nat /\ f[n] <= g[n]
      OBVIOUS
    <2>1. n \in 1..Len(f) /\ n \in 1..Len(g)
      BY <1>1
    <2> QED BY <2>1
  <1> HIDE DEF F, G, N
  <1>5. 0 \in P
    <2>1. 0 <= 0 /\ \A k \in 1..0 : f[k] = g[k]
      OBVIOUS
    <2> QED BY <1>2, <1>3, <2>1
  <1>6. ASSUME NEW n \in Nat, n \in P PROVE n + 1 \in P
    <2> DEFINE m == n + 1
    <2>1. SUFFICES ASSUME m <= N
                   PROVE  F[m] <= G[m] /\ (F[m] = G[m] => \A k \in 1..m : f[k] = g[k])
      OBVIOUS
    <2>2. m \in 1..N /\ m - 1 = n /\ n <= N /\ n \in 0..N /\ \A k \in 1..m : k \in 1..n \/ k = m
      BY <1>1, <2>1
    <2> HIDE DEF m
    <2>3. F[m] = F[n] + f[m] /\ G[m] = G[n] + g[m] /\ F[n] \in Int /\ G[n] \in Int
      BY <1>2, <1>3, <2>2
    <2>4. F[n] <= G[n] /\ (F[n] = G[n] => \A k \in 1..n : f[k] = g[k])
      BY <1>6, <2>2
    <2>5. f[m] \in Nat /\ g[m] \in Nat /\ f[m] <= g[m]
      BY <1>4, <2>2
    <2>6. F[m] <= G[m] /\ (F[m] = G[m] => F[n] = G[n] /\ f[m] = g[m])
      <3> DEFINE a == F[n]
                 b == G[n]
                 x == f[m]
                 y == g[m]
      <3>1. a \in Int /\ b \in Int /\ x \in Nat /\ y \in Nat /\ a <= b /\ x <= y
        BY <2>3, <2>4, <2>5
      <3>2. F[m] = a + x /\ G[m] = b + y
        BY <2>3
      <3> HIDE DEF a, b, x, y
      <3>3. a + x <= b + y /\ (a + x = b + y => a = b /\ x = y)
        BY <3>1
      <3>4. F[m] <= G[m] /\ (F[m] = G[m] => a = b /\ x = y)
        BY <3>2, <3>3
      <3> QED BY <3>4 DEF a, b, x, y
    <2> QED BY <2>2, <2>4, <2>6
  <1>7. \A n \in Nat : n \in P
    <2> HIDE DEF P
    <2> QED BY <1>5, <1>6, ByInduction
  <1>8. N \in P /\ N <= N
    BY <1>1, <1>7
  <1>9. F[N] <= G[N] /\ (F[N] = G[N] => \A k \in 1..N : f[k] = g[k])
    BY <1>8
  <1> QED BY <1>2, <1>3, <1>9 DEF N

LEMMA SumLenLess ==
  ASSUME NEW kids \in Seq(Child), NEW other \in Seq(Child), Len(other) = Len(kids),
         \A c \in 1..Len(kids) : other[c].Len <= kids[c].Len
  PROVE  /\ SumLen(other) <= SumLen(kids)
         /\ SumLen(other) = SumLen(kids) => \A c \in 1..Len(kids) : other[c].Len = kids[c].Len
  <1> DEFINE f == [c \in 1..Len(other) |-> other[c].Len]
             g == [c \in 1..Len(kids) |-> kids[c].Len]
  <1>1. f \in Seq(Nat) /\ Len(f) = Len(other) /\ SumLen(other) = SumUp(f)
    BY SumLenIs
  <1>2. g \in Seq(Nat) /\ Len(g) = Len(kids) /\ SumLen(kids) = SumUp(g)
    BY SumLenIs
  <1>3. \A c \in 1..Len(kids) : f[c] = other[c].Len /\ g[c] = kids[c].Len
    OBVIOUS
  <1> HIDE DEF f, g
  <1>4. Len(f) = Len(g) /\ \A c \in 1..Len(g) : f[c] <= g[c]
    BY <1>1, <1>2, <1>3
  <1>5. SumUp(f) <= SumUp(g) /\ (SumUp(f) = SumUp(g) => \A n \in 1..Len(g) : f[n] = g[n])
    BY <1>1, <1>2, <1>4, SumLess
  <1> QED BY <1>1, <1>2, <1>3, <1>5

\* Dropping children that hold something is seen in the sum.
LEMMA SumLenDrop ==
  ASSUME NEW kids \in Seq(Child), NEW rest \in Seq(Child), NEW n \in 0..Len(kids),
         Len(rest) = Len(kids) - n, \A c \in 1..Len(rest) : rest[c] = kids[c + n], Shaped(kids)
  PROVE  SumLen(rest) <= SumLen(kids) /\ (SumLen(rest) = SumLen(kids) => n = 0)
  <1> DEFINE a == SubSeq(kids, 1, n)
             N == Len(kids)
  <1>1. N \in Nat /\ n \in Nat /\ n <= N
    OBVIOUS
  <1>2. a \in Seq(Child) /\ Len(a) = n /\ \A c \in 1..n : a[c] = kids[c]
    <2> DEFINE b == SubSeq(kids, 0 + 1, n)
    <2>1. b \in Seq(Child) /\ Len(b) = n - 0 /\ \A c \in 1..Len(b) : b[c] = kids[0 + c]
      BY <1>1, PartIs
    <2>2. a = b
      OBVIOUS
    <2> HIDE DEF a, b
    <2>3. \A c \in 1..n : 0 + c = c
      OBVIOUS
    <2> QED BY <1>1, <2>1, <2>2, <2>3
  <1> HIDE DEF a
  <1>3. kids = a \o rest
    <2> DEFINE w == a \o rest
    <2>1. w \in Seq(Child) /\ Len(w) = N
      <3>1. w \in Seq(Child) /\ Len(w) = Len(a) + Len(rest)
        BY <1>2, ConcatProperties
      <3> HIDE DEF w, N
      <3> QED BY <1>1, <1>2, <3>1 DEF N
    <2>2. ASSUME NEW c \in 1..N PROVE w[c] = kids[c]
      <3>1. c \in 1..Len(a) + Len(rest)
        BY <1>1, <1>2
      <3>2. w[c] = IF c <= Len(a) THEN a[c] ELSE rest[c - Len(a)]
        BY <1>2, <3>1, ConcatProperties
      <3>3. CASE c <= n
        BY <1>2, <3>2, <3>3
      <3>4. CASE ~(c <= n)
        <4>1. c - n \in 1..Len(rest) /\ (c - n) + n = c
          BY <1>1, <3>4
        <4>2. rest[c - n] = kids[c]
          BY <4>1
        <4> QED BY <1>2, <3>2, <3>4, <4>2
      <3> QED BY <3>3, <3>4
    <2> HIDE DEF w
    <2>3. w = kids
      BY <2>1, <2>2, SeqEqual
    <2> QED BY <2>3 DEF w
  <1>4. SumLen(a \o rest) = SumLen(a) + SumLen(rest)
    BY <1>2, SumLenConcat
  <1>5. SumLen(a) \in Nat /\ SumLen(rest) \in Nat /\ \A c \in 1..Len(a) : a[c].Len <= SumLen(a)
    BY <1>2, SumLenIs
  <1>6. n # 0 => SumLen(a) # 0
    <2>1. SUFFICES ASSUME n # 0 PROVE SumLen(a) # 0
      OBVIOUS
    <2>2. 1 \in 1..n /\ 1 \in 1..N
      BY <1>1, <2>1
    <2>3. a[1].Len \in 1..SplitLenMax
      BY <1>2, <2>2 DEF Shaped
    <2>4. a[1].Len <= SumLen(a)
      BY <1>2, <1>5, <2>2
    <2> QED BY <1>5, <2>3, <2>4, SplitAssumption
  <1>7. SumLen(kids) = SumLen(a) + SumLen(rest)
    BY <1>3, <1>4
  <1> HIDE DEF N
  <1> QED BY <1>5, <1>6, <1>7

\* The children after the cut; the first of them is one at which it stops.
CutOK(k2, kids, m) ==
  /\ Kids(k2) /\ Shaped(k2) /\ Len(k2) = Len(kids)
  /\ \A c \in 1..Len(kids) : k2[c].MaxItem = kids[c].MaxItem
  /\ SumLen(k2) <= SumLen(kids)
  /\ SumLen(k2) = SumLen(kids) =>
       Stores(k2, kids) /\ \A c \in 1..Len(kids) : k2[c].DirtyP = kids[c].DirtyP
  /\ \A x : InKids(k2, x) <=> InKids(kids, x) /\ x.id >= m

LEMMA CutKids ==
  ASSUME NEW kids, Kids(kids), Shaped(kids), NEW m \in Nat,
         kids # <<>> => Stops(kids[1], m)
  PROVE  CutOK(CutBelow(kids, m), kids, m)
  <1> DEFINE N == Len(kids)
             e(c) == IF c = 1 /\ kids[c].MinItem < m
                     THEN FirstCut(kids[c], From(Vec(kids[c]), m)) ELSE kids[c]
             k2 == [c \in 1..N |-> e(c)]
  <1>1. /\ N \in Nat /\ DOMAIN kids = 1..N /\ kids \in Seq(Child)
        /\ \A c \in 1..N : /\ kids[c] \in Child /\ KidOK(kids[c])
                           /\ kids[c].MinItem \in Nat /\ kids[c].MaxItem \in Nat
                           /\ kids[c].MinItem <= kids[c].MaxItem
        /\ \A c, d \in 1..N : c < d => kids[c].MaxItem < kids[d].MinItem
    BY KidsAre DEF Kids
  <1>2. k2 = CutBelow(kids, m)
    BY <1>1 DEF CutBelow
  <1>3. 1 \in 1..N => Stops(kids[1], m)
    OBVIOUS
  <1> HIDE DEF N
  <1>4. ASSUME NEW c \in 1..N
        PROVE  /\ KidOK(e(c)) /\ e(c) \in Child /\ e(c).MaxItem = kids[c].MaxItem
               /\ e(c).MinItem >= kids[c].MinItem /\ e(c).MinItem \in Nat
               /\ e(c).Len \in 1..SplitLenMax /\ e(c).Len <= kids[c].Len
               /\ (e(c).Len = kids[c].Len => /\ e(c).MinItem = kids[c].MinItem
                                             /\ e(c).Disk = kids[c].Disk
                                             /\ e(c).DirtyP = kids[c].DirtyP)
               /\ \A x : x \in Vals(Vec(e(c))) <=> x \in Vals(Vec(kids[c])) /\ x.id >= m
    <2> DEFINE k == kids[c]
               r == e(c)
    <2>1. KidOK(k) /\ k \in Child /\ k.MinItem \in Nat /\ k.MaxItem \in Nat /\ k.Len \in Nat
          /\ k.Len \in 1..SplitLenMax
      BY <1>1, ChildIs DEF Shaped, N
    <2>2. c = 1 => Stops(k, m)
      BY <1>3
    <2>3. \A x \in Vals(Vec(k)) : x.id \in Nat /\ k.MinItem <= x.id /\ x.id <= k.MaxItem
      BY <2>1, KidIs
    <2>4. Vec(k) \in Seq(Item) /\ Ordered(Vec(k)) /\ k.Len = Len(Vec(k))
      BY <2>1, KidIs
    <2>5. CASE c = 1 /\ k.MinItem < m
      <3> DEFINE v == From(Vec(k), m)
      <3>1. r = FirstCut(k, v)
        BY <2>5
      <3>2. v # <<>>
        <4>1. Vec(k) # <<>>
          BY <2>1, <2>4
        <4> HIDE DEF v, k
        <4> QED BY <2>2, <2>5, <4>1 DEF Stops, v
      <3> HIDE DEF r, k
      <3>3. /\ KidOK(r) /\ Vec(r) = v /\ r.Len = Len(v) /\ r.MaxItem = k.MaxItem
            /\ r.MinItem >= k.MinItem /\ r.Len \in 1..k.Len
            /\ (r.Len = k.Len => /\ r.MinItem = k.MinItem /\ r.Disk = k.Disk
                                 /\ r.DirtyP = k.DirtyP)
        BY <2>1, <3>1, <3>2, FirstCutIs
      <3>4. \A x : x \in Vals(v) <=> x \in Vals(Vec(k)) /\ x.id >= m
        BY <2>4, FromIs
      <3> HIDE DEF v
      <3>5. r.Len \in 1..SplitLenMax /\ r.Len <= k.Len
        BY <2>1, <3>3, SplitAssumption
      <3>6. r \in Child /\ r.MinItem \in Nat
        <4>1. r \in Child
          BY <3>3 DEF KidOK
        <4> QED BY <4>1, ChildIs
      <3> QED BY <3>3, <3>4, <3>5, <3>6 DEF r, k
    <2>6. CASE ~(c = 1 /\ k.MinItem < m)
      <3>1. r = k
        BY <2>6
      <3>2. \A x \in Vals(Vec(k)) : x.id >= m
        <4>1. k.MinItem >= m
          <5>1. CASE c = 1
            BY <2>1, <2>6, <5>1
          <5>2. CASE c # 1
            <6>1. 1 \in 1..N /\ 1 < c
              BY <1>1, <5>2
            <6>2. kids[1].MaxItem >= m /\ kids[1].MaxItem < k.MinItem /\ kids[1].MaxItem \in Nat
              BY <1>1, <1>3, <6>1 DEF Stops
            <6> QED BY <2>1, <6>2
          <5> QED BY <5>1, <5>2
        <4> HIDE DEF k
        <4> QED BY <2>1, <2>3, <4>1
      <3> HIDE DEF r, k
      <3>3. k.MinItem >= k.MinItem /\ k.Len <= k.Len
        BY <2>1
      <3> QED BY <2>1, <3>1, <3>2, <3>3 DEF r, k
    <2> QED BY <2>5, <2>6
  <1> HIDE DEF e
  <1>5. k2 \in Seq(Child) /\ Len(k2) = N /\ \A c \in 1..N : k2[c] = e(c)
    <2>1. \A c \in 1..N : e(c) \in Child
      BY <1>4
    <2>2. N \in Nat
      BY <1>1
    <2> QED BY <2>1, <2>2
  <1> HIDE DEF k2
  <1>6. ASSUME NEW c \in 1..N, NEW d \in 1..N, c < d PROVE k2[c].MaxItem < k2[d].MinItem
    <2>1. e(c).MaxItem = kids[c].MaxItem /\ e(d).MinItem >= kids[d].MinItem /\ e(d).MinItem \in Nat
      BY <1>4
    <2>2. kids[c].MaxItem < kids[d].MinItem /\ kids[c].MaxItem \in Nat /\ kids[d].MinItem \in Nat
      BY <1>1, <1>6
    <2>3. e(c).MaxItem < e(d).MinItem
      BY <2>1, <2>2
    <2> QED BY <1>5, <2>3
  <1>7. Kids(k2) /\ Shaped(k2)
    BY <1>4, <1>5, <1>6 DEF Kids, Behind, Shaped
  <1>8. /\ SumLen(k2) <= SumLen(kids)
        /\ (SumLen(k2) = SumLen(kids) => \A c \in 1..N : k2[c].Len = kids[c].Len)
    <2>1. Len(k2) = Len(kids)
      BY <1>5 DEF N
    <2>2. \A c \in 1..Len(kids) : k2[c].Len <= kids[c].Len
      BY <1>4, <1>5 DEF N
    <2> QED BY <1>1, <1>5, <2>1, <2>2, SumLenLess DEF N
  <1>9. ASSUME SumLen(k2) = SumLen(kids)
        PROVE  Stores(k2, kids) /\ \A c \in 1..N : k2[c].DirtyP = kids[c].DirtyP
    <2>1. \A c \in 1..N : k2[c].Len = kids[c].Len
      BY <1>8, <1>9
    <2>2. \A c \in 1..N : /\ k2[c].MinItem = kids[c].MinItem /\ k2[c].MaxItem = kids[c].MaxItem
                          /\ k2[c].Len = kids[c].Len /\ k2[c].Disk = kids[c].Disk
                          /\ k2[c].DirtyP = kids[c].DirtyP
      BY <1>4, <1>5, <2>1
    <2> QED BY <1>5, <2>2 DEF Stores, N
  <1>10. \A x : InKids(k2, x) <=> InKids(kids, x) /\ x.id >= m
    BY <1>4, <1>5 DEF InKids, N
  <1>11. \A c \in 1..N : k2[c].MaxItem = kids[c].MaxItem
    BY <1>4, <1>5
  <1>12. CutOK(k2, kids, m)
    BY <1>5, <1>7, <1>8, <1>9, <1>10, <1>11 DEF CutOK, N
  <1> QED BY <1>2, <1>12

\* What is left after deleting what is below m.
Lowered(r, s, m) ==
  /\ Fit(r) /\ r.MergedP = TRUE /\ r.DirtyP \in BOOLEAN
  /\ r.DirtyP = FALSE => /\ s.DirtyP = FALSE /\ r.ItemV = s.ItemV
                         /\ Stores(r.ChildInfoV, s.ChildInfoV)
                         /\ \A c \in 1..Len(s.ChildInfoV) :
                              r.ChildInfoV[c].DirtyP = s.ChildInfoV[c].DirtyP
  /\ \A x : Has(r, x) <=> Has(s, x) /\ x.id >= m

LEMMA BelowIs ==
  ASSUME NEW s, Fit(s), s.MergedP, NEW m \in Nat
  PROVE  Lowered(DeletedBelow(s, m), s, m)
  <1> DEFINE kids == s.ChildInfoV
             N == Len(kids)
             P == {n \in 0..N : \A c \in 1..n : ~Stops(kids[c], m)}
             n == Max(P)
             a == DropFront(s, n)
             rest == a.ChildInfoV
             k2 == CutBelow(rest, m)
             w == From(s.ItemV, m)
             b == [a EXCEPT !.ChildInfoV = k2, !.ItemV = w]
             r == Recounted(s, b)
  <1>1. /\ s \in Rec /\ Kids(kids) /\ s.Blobs = N /\ kids \in Seq(Child)
        /\ Shaped(kids) /\ s.ItemV \in Seq(Item) /\ N \in Nat /\ Len(s.ItemV) \in Nat
        /\ s.TotalCnt = RecalcTotalCnt(s) /\ SumLen(kids) \in Nat
        /\ RecalcTotalCnt(s) = Len(s.ItemV) + SumLen(kids)
    BY FitIs
  <1>2. /\ Ordered(s.ItemV) /\ Beyond(kids, s.ItemV) /\ s.ItemVDel = {} /\ s.DeleteMarkerP = FALSE
        /\ Len(s.ItemV) <= SplitLen /\ s.MergedP = TRUE /\ s.DirtyP \in BOOLEAN
    BY <1>1 DEF Fit, Sound, Rec
  <1>3. n \in P /\ \A q \in P : q <= n
    <2>1. 0 \in P
      BY <1>1
    <2>2. P \in SUBSET (0..N)
      OBVIOUS
    <2>3. P # {}
      BY <2>1
    <2> HIDE DEF P
    <2> QED BY <1>1, <2>2, <2>3, MaxIs
  <1>4. n \in 0..N /\ (\A c \in 1..n : ~Stops(kids[c], m)) /\ n \in Nat
    BY <1>3
  <1> HIDE DEF n
  <1>5. n < N => Stops(kids[n + 1], m)
    <2>1. SUFFICES ASSUME n < N, ~Stops(kids[n + 1], m) PROVE FALSE
      OBVIOUS
    <2> DEFINE q == n + 1
    <2>2. q \in 0..N /\ ~(q <= n)
      <3> HIDE DEF N
      <3> QED BY <1>1, <1>4, <2>1
    <2>3. ~Stops(kids[q], m)
      BY <2>1
    <2>4. ASSUME NEW c \in 1..q PROVE ~Stops(kids[c], m)
      <3>1. CASE c = q
        BY <2>3, <3>1
      <3>2. CASE c # q
        <4>1. c \in 1..n
          BY <1>4, <3>2
        <4> QED BY <1>4, <4>1
      <3> QED BY <3>1, <3>2
    <2> HIDE DEF q
    <2>5. q \in P
      BY <2>2, <2>4
    <2> QED BY <1>3, <2>2, <2>5
  <1>7. Dropped(a, s, n)
    BY <1>1, <1>4, DropFrontIs
  <1> HIDE DEF a
  <1>8. /\ a \in Rec /\ Kids(rest) /\ a.Blobs = Len(rest) /\ a.ItemV = s.ItemV /\ Steady(a, s)
        /\ a.DirtyP = s.DirtyP /\ a.TotalCnt = s.TotalCnt /\ Len(rest) = N - n
        /\ \A c \in 1..Len(rest) : c + n \in 1..N /\ rest[c] = kids[c + n]
        /\ \A c \in 1..N : c > n => c - n \in 1..Len(rest) /\ rest[c - n] = kids[c]
    BY <1>7 DEF Dropped
  <1>6. r = DeletedBelow(s, m)
    <2>1. n = Max({q \in 0..Len(s.ChildInfoV) : \A c \in 1..q : ~Stops(s.ChildInfoV[c], m)})
      BY DEF n
    <2>2. DeletedBelow(s, m) =
            Recounted(s, [DropFront(s, n) EXCEPT !.ChildInfoV = CutBelow(@, m), !.ItemV = From(@, m)])
      BY <1>2, <2>1 DEF DeletedBelow
    <2>3. b = [a EXCEPT !.ChildInfoV = CutBelow(@, m), !.ItemV = From(@, m)]
      BY <1>8
    <2> QED BY <2>2, <2>3 DEF a
  <1> HIDE DEF rest
  <1>9. Shaped(rest) /\ (rest # <<>> => Stops(rest[1], m)) /\ rest \in Seq(Child)
    <2>1. Shaped(rest)
      BY <1>1, <1>8 DEF Shaped
    <2>2. rest \in Seq(Child)
      BY <1>8 DEF Kids
    <2>3. ASSUME rest # <<>> PROVE Stops(rest[1], m)
      <3>1. 1 \in 1..Len(rest)
        BY <2>2, <2>3
      <3>2. rest[1] = kids[1 + n] /\ 1 + n \in 1..N
        BY <1>8, <3>1
      <3>3. 1 + n = n + 1 /\ n < N
        BY <1>1, <1>4, <3>2
      <3> QED BY <1>5, <3>2, <3>3
    <2> QED BY <2>1, <2>2, <2>3
  <1>10. CutOK(k2, rest, m)
    BY <1>8, <1>9, CutKids
  <1> HIDE DEF k2
  <1>11. /\ w \in Seq(Item) /\ Ordered(w) /\ Len(w) \in 0..Len(s.ItemV)
         /\ (Len(w) = Len(s.ItemV) => w = s.ItemV)
         /\ \A x : x \in Vals(w) <=> x \in Vals(s.ItemV) /\ x.id >= m
    BY <1>1, <1>2, FromIs
  <1> HIDE DEF w
  <1>12. k2 \in Seq(Child) /\ Len(k2) = Len(rest) /\ Kids(k2) /\ Shaped(k2) /\ SumLen(k2) \in Nat
    <2>1. k2 \in Seq(Child) /\ Len(k2) = Len(rest) /\ Kids(k2) /\ Shaped(k2)
      BY <1>10 DEF CutOK, Kids
    <2> QED BY <2>1, SumLenIs
  <1>13. /\ b \in Rec /\ b.ChildInfoV = k2 /\ b.ItemV = w /\ b.ItemVDel = a.ItemVDel
         /\ b.MergedP = a.MergedP /\ b.DirtyP = a.DirtyP /\ b.DeleteMarkerP = a.DeleteMarkerP
         /\ b.Blobs = a.Blobs
    BY <1>8, <1>11, <1>12 DEF Rec
  <1> HIDE DEF b
  <1> DEFINE R == RecalcTotalCnt(b)
             S == RecalcTotalCnt(s)
             t == s.TotalCnt - (S - R)
             d == b.DirtyP \/ R < S
  <1>14. R = Len(w) + SumLen(k2) /\ R \in Nat
    <2>1. R = Len(w) + SumLen(k2)
      BY <1>13 DEF RecalcTotalCnt
    <2>2. Len(w) \in Nat
      BY <1>11
    <2> HIDE DEF R
    <2> QED BY <1>12, <2>1, <2>2
  <1>15. r = [b EXCEPT !.TotalCnt = t, !.DirtyP = d]
    BY <1>13 DEF Recounted, Rec
  <1>16. t = R /\ t \in Int /\ d \in BOOLEAN
    <2>1. S \in Nat /\ s.TotalCnt = S
      BY <1>1
    <2> HIDE DEF R, S
    <2> QED BY <1>14, <2>1
  <1> HIDE DEF t, d, r, R, S
  <1>17. /\ r \in Rec /\ r.ChildInfoV = k2 /\ r.ItemV = w /\ r.ItemVDel = {} /\ r.TotalCnt = t
         /\ r.MergedP = TRUE /\ r.DirtyP = d /\ r.DeleteMarkerP = FALSE /\ r.Blobs = Len(k2)
    <2>1. /\ r \in Rec /\ r.ChildInfoV = b.ChildInfoV /\ r.ItemV = b.ItemV
          /\ r.ItemVDel = b.ItemVDel /\ r.TotalCnt = t
          /\ r.MergedP = b.MergedP /\ r.DirtyP = d /\ r.DeleteMarkerP = b.DeleteMarkerP
          /\ r.Blobs = b.Blobs
      BY <1>13, <1>15, <1>16 DEF Rec
    <2> QED BY <1>2, <1>8, <1>12, <1>13, <2>1 DEF Steady
  <1>18. Beyond(k2, w)
    <2> SUFFICES ASSUME NEW c \in 1..Len(k2), NEW j \in 1..Len(w)
                 PROVE  k2[c].MaxItem < w[j].id
      BY DEF Beyond
    <2>1. k2[c].MaxItem = rest[c].MaxItem /\ c \in 1..Len(rest)
      BY <1>10, <1>12 DEF CutOK
    <2>2. c + n \in 1..N /\ rest[c] = kids[c + n]
      BY <1>8, <2>1
    <2>3. w[j] \in Vals(s.ItemV)
      <3>1. w[j] \in Vals(w)
        BY DEF Vals
      <3> QED BY <1>11, <3>1
    <2>4. PICK i \in 1..Len(s.ItemV) : w[j] = s.ItemV[i]
      BY <2>3 DEF Vals
    <2> QED BY <1>2, <2>1, <2>2, <2>4 DEF Beyond
  <1>19. Sound(r) /\ Base(r)
    BY <1>11, <1>12, <1>17, <1>18 DEF Sound, Base, Markers
  <1>20. r.TotalCnt = RecalcTotalCnt(r)
    <2>1. RecalcTotalCnt(r) = Len(w) + SumLen(k2)
      BY <1>17 DEF RecalcTotalCnt
    <2> QED BY <1>14, <1>16, <1>17, <2>1
  <1>21. Fit(r)
    <2>1. Len(r.ItemV) <= SplitLen
      BY <1>1, <1>2, <1>11, <1>17, SplitAssumption
    <2> QED BY <1>17, <1>19, <1>20, <2>1 DEF Fit
  <1>22. ASSUME r.DirtyP = FALSE
         PROVE  /\ s.DirtyP = FALSE /\ r.ItemV = s.ItemV
                /\ Stores(r.ChildInfoV, s.ChildInfoV)
                /\ \A c \in 1..Len(s.ChildInfoV) :
                     r.ChildInfoV[c].DirtyP = s.ChildInfoV[c].DirtyP
    <2>1. s.DirtyP = FALSE /\ ~(R < S)
      BY <1>2, <1>8, <1>13, <1>17, <1>22 DEF d
    <2>2. SumLen(rest) <= SumLen(kids) /\ (SumLen(rest) = SumLen(kids) => n = 0)
      <3>1. rest \in Seq(Child) /\ kids \in Seq(Child) /\ Shaped(kids) /\ n \in 0..Len(kids)
        BY <1>1, <1>4, <1>9
      <3>2. Len(rest) = Len(kids) - n /\ \A c \in 1..Len(rest) : rest[c] = kids[c + n]
        BY <1>8
      <3> HIDE DEF kids
      <3> QED BY <3>1, <3>2, SumLenDrop
    <2>3. SumLen(k2) <= SumLen(rest) /\ SumLen(rest) \in Nat
      <3>1. SumLen(rest) \in Nat
        BY <1>9, SumLenIs
      <3> QED BY <1>10, <3>1 DEF CutOK
    <2>4. S = Len(s.ItemV) + SumLen(kids) /\ Len(w) \in Nat /\ Len(w) <= Len(s.ItemV)
      <3>1. S = Len(s.ItemV) + SumLen(kids)
        BY <1>1 DEF S
      <3> QED BY <1>1, <1>11, <3>1
    <2>5. SumLen(k2) = SumLen(rest) /\ SumLen(rest) = SumLen(kids) /\ Len(w) = Len(s.ItemV)
      <3> HIDE DEF kids
      <3> QED BY <1>1, <1>12, <1>14, <2>1, <2>2, <2>3, <2>4
    <2>6. n = 0 /\ w = s.ItemV
      BY <1>11, <2>2, <2>5
    <2>7. Stores(k2, rest) /\ \A c \in 1..Len(rest) : k2[c].DirtyP = rest[c].DirtyP
      BY <1>10, <2>5 DEF CutOK
    <2>8. Len(rest) = N /\ \A c \in 1..N : rest[c] = kids[c]
      <3>1. Len(rest) = N
        BY <1>1, <1>8, <2>6
      <3>2. \A c \in 1..N : c + 0 = c
        OBVIOUS
      <3> HIDE DEF N
      <3> QED BY <1>8, <2>6, <3>1, <3>2
    <2>9. Stores(k2, kids)
      BY <2>7, <2>8 DEF Stores
    <2> QED BY <1>17, <2>1, <2>6, <2>7, <2>8, <2>9
  <1>23. ASSUME NEW x PROVE InKids(rest, x) => InKids(kids, x)
    <2>1. SUFFICES ASSUME InKids(rest, x) PROVE InKids(kids, x)
      OBVIOUS
    <2>2. PICK c \in 1..Len(rest) : x \in Vals(Vec(rest[c]))
      BY <2>1 DEF InKids
    <2>3. c + n \in 1..N /\ rest[c] = kids[c + n]
      BY <1>8
    <2> QED BY <2>2, <2>3 DEF InKids
  <1>24. ASSUME NEW x, InKids(kids, x), x.id >= m PROVE InKids(rest, x)
    <2>1. PICK c \in 1..N : x \in Vals(Vec(kids[c]))
      BY <1>24 DEF InKids
    <2>2. ~(c <= n)
      <3>1. SUFFICES ASSUME c <= n PROVE FALSE
        OBVIOUS
      <3> DEFINE k == kids[c]
      <3>2. c \in 1..n
        BY <1>1, <1>4, <3>1
      <3>3. ~Stops(k, m) /\ KidOK(k)
        BY <1>1, <1>4, <3>2, KidsAre
      <3> HIDE DEF k
      <3>4. x \in Vals(Vec(k))
        BY <2>1 DEF k
      <3>5. x.id \in Nat /\ x.id <= k.MaxItem /\ Vec(k) \in Seq(Item) /\ Ordered(Vec(k)) /\ k \in Child
        BY <3>3, <3>4, KidIs
      <3>6. k.MaxItem \in Nat
        BY <3>5, ChildIs
      <3>7. k.MaxItem >= m
        BY <1>24, <3>5, <3>6
      <3>8. From(Vec(k), m) = <<>>
        BY <3>3, <3>7 DEF Stops
      <3>9. x \in Vals(From(Vec(k), m))
        BY <1>24, <3>4, <3>5, FromIs
      <3> QED BY <3>8, <3>9 DEF Vals
    <2>3. c > n
      BY <1>1, <1>4, <2>2
    <2>4. c - n \in 1..Len(rest) /\ rest[c - n] = kids[c]
      BY <1>8, <2>3
    <2> QED BY <2>1, <2>4 DEF InKids
  <1>25. \A x : Has(r, x) <=> Has(s, x) /\ x.id >= m
    <2> SUFFICES ASSUME NEW x PROVE Has(r, x) <=> Has(s, x) /\ x.id >= m
      OBVIOUS
    <2>1. Has(r, x) <=> InKids(k2, x) \/ x \in Vals(w)
      BY <1>17 DEF Has
    <2>2. Has(s, x) <=> InKids(kids, x) \/ x \in Vals(s.ItemV)
      BY DEF Has
    <2>3. InKids(k2, x) <=> InKids(rest, x) /\ x.id >= m
      BY <1>10 DEF CutOK
    <2>4. x \in Vals(w) <=> x \in Vals(s.ItemV) /\ x.id >= m
      BY <1>11
    <2> HIDE DEF Has, InKids
    <2> QED BY <1>23, <1>24, <2>1, <2>2, <2>3, <2>4
  <1>26. Lowered(r, s, m)
    BY <1>16, <1>17, <1>21, <1>22, <1>25 DEF Lowered
  <1> QED BY <1>6, <1>26

----
\* Every call leaves an item set that fits, and one that it does not
\* mark as changed is on disk what the one before was.
SameOnDisk(r, s) ==
  /\ s.DirtyP = FALSE /\ r.MergedP = TRUE /\ r.ItemV = s.ItemV
  /\ Stores(r.ChildInfoV, s.ChildInfoV)
  /\ \A c \in 1..Len(s.ChildInfoV) : r.ChildInfoV[c].DirtyP = s.ChildInfoV[c].DirtyP
Clean(s) ==
  s.DirtyP = FALSE => s.MergedP = TRUE /\ \A c \in 1..Len(s.ChildInfoV) : s.ChildInfoV[c].DirtyP = FALSE
Follows(r, s) == Fit(r) /\ (r.DirtyP = FALSE => SameOnDisk(r, s))

LEMMA StaysSame ==
  ASSUME NEW s, Fit(s), s.MergedP = TRUE
  PROVE  Follows(s, s)
  BY DEF Follows, SameOnDisk, Stores

LEMMA DirtyFollows ==
  ASSUME NEW s, NEW r, Fit(r), r.DirtyP = TRUE
  PROVE  Follows(r, s)
  BY DEF Follows

LEMMA AddFollows ==
  ASSUME NEW s, Fit(s), NEW x \in Item, SplitLenMin # 0
  PROVE  Follows(Added(s, x), s)
  <1> DEFINE m == MakeRoom(s)
  <1>1. Fit(m) /\ Len(m.ItemV) < SplitLen
    BY RoomFits
  <1>2. m \in Rec
    BY <1>1, FitIs
  <1> HIDE DEF m
  <1>3. Fit(Extended(m, x))
    BY <1>1, ExtendedFits
  <1>4. Extended(m, x).DirtyP = TRUE
    BY <1>2, ExtendedIs
  <1>5. Added(s, x) = Extended(m, x)
    BY DEF Added, m
  <1> QED BY <1>3, <1>4, <1>5, DirtyFollows

LEMMA DelFollows ==
  ASSUME NEW s, Fit(s), NEW D \in SUBSET Id, D # {}, SplitLenMin # 0
  PROVE  Follows(Deleted(s, D), s)
  <1> DEFINE m == MakeRoom(s)
             ids == Ascending(D)
  <1>1. Fit(m) /\ Len(m.ItemV) < SplitLen
    BY RoomFits
  <1>2. m \in Rec
    BY <1>1, FitIs
  <1>3. ids \in Seq(Id) /\ ids # <<>>
    <2>1. Enumerates(ids, D) /\ ids \in Seq(Id)
      BY IdOrder
    <2> HIDE DEF ids
    <2>2. PICK x \in D : TRUE
      OBVIOUS
    <2>3. PICK n \in 1..Len(ids) : ids[n] = x
      BY <2>1 DEF Enumerates
    <2> QED BY <2>1, <2>3
  <1> HIDE DEF m, ids
  <1>4. Fit(Marked(m, ids))
    BY <1>1, <1>3, MarkedFits
  <1>5. Marked(m, ids).DirtyP = TRUE
    BY <1>2, <1>3, MarkedIs
  <1>6. Deleted(s, D) = Marked(m, ids)
    BY DEF Deleted, m, ids
  <1> QED BY <1>4, <1>5, <1>6, DirtyFollows

\* Def() changes nothing, or leaves an item set that is dirty.
LEMMA DefFollows ==
  ASSUME NEW s, Fit(s), SplitLenMin # 0
  PROVE  Follows(Def(s), s)
  <1>1. Fit(Def(s)) /\ IF s.MergedP THEN Def(s) = s ELSE Packed(Def(s))
    BY DefFits
  <1>2. s.MergedP \in BOOLEAN
    BY FitIs DEF Rec
  <1>3. CASE s.MergedP = TRUE
    BY <1>1, <1>3, StaysSame
  <1>4. CASE s.MergedP = FALSE
    <2>1. Def(s).DirtyP
      BY <1>1, <1>4 DEF Packed
    <2>2. Def(s).DirtyP \in BOOLEAN
      BY <1>1, FitIs DEF Rec
    <2> QED BY <1>1, <2>1, <2>2, DirtyFollows
  <1> QED BY <1>2, <1>3, <1>4

\* One call after the other.
LEMMA FollowsOn ==
  ASSUME NEW r, NEW d, NEW s, Follows(r, d), Follows(d, s)
  PROVE  Follows(r, s)
  <1>1. SUFFICES ASSUME r.DirtyP = FALSE PROVE SameOnDisk(r, s)
    BY DEF Follows
  <1>2. SameOnDisk(r, d)
    BY <1>1 DEF Follows
  <1>3. SameOnDisk(d, s)
    BY <1>2 DEF Follows, SameOnDisk
  <1> HIDE DEF Follows
  <1> QED BY <1>2, <1>3 DEF SameOnDisk, Stores

LEMMA BelowFollows ==
  ASSUME NEW s, Fit(s), NEW m \in Nat, SplitLenMin # 0
  PROVE  Follows(OrForgotten(DeletedBelow(Def(s), m)), s)
  <1> DEFINE d == Def(s)
             r == DeletedBelow(d, m)
  <1>1. Fit(d) /\ d.MergedP /\ Follows(d, s)
    BY DefFits, DefFollows
  <1> HIDE DEF d
  <1>2. Lowered(r, d, m)
    BY <1>1, BelowIs
  <1> HIDE DEF r
  <1>3. Fit(r)
    BY <1>2 DEF Lowered
  <1>4. CASE r.TotalCnt = 0
    <2>1. r.Blobs = 0
      BY <1>3, <1>4, NothingLeft
    <2>2. OrForgotten(r) = EmptySet(0)
      BY <1>4, <2>1, NewIs DEF OrForgotten
    <2>3. EmptySet(0).DirtyP = TRUE
      BY DEF EmptySet
    <2> QED BY <2>2, <2>3, EmptyFits, DirtyFollows DEF r, d
  <1>5. CASE r.TotalCnt # 0
    <2>1. OrForgotten(r) = r
      BY <1>5 DEF OrForgotten
    <2>2. Follows(r, d)
      BY <1>2 DEF Lowered, Follows, SameOnDisk
    <2> QED BY <1>1, <2>1, <2>2, FollowsOn DEF r, d
  <1> QED BY <1>4, <1>5

LEMMA ClrFollows ==
  ASSUME NEW s, Fit(s)
  PROVE  Follows(Cleared(s), s)
  <1>1. EmptySet(0).DirtyP = TRUE
    BY DEF EmptySet
  <1> QED BY <1>1, ClearedIs, EmptyFits, DirtyFollows

\* Reading loads some of the children.
LoadedIn(d, P) ==
  [d EXCEPT !.ChildInfoV = [c \in 1..Len(d.ChildInfoV) |->
      IF c \in P THEN LoadChild(d.ChildInfoV[c]) ELSE d.ChildInfoV[c]]]

LEMMA ReadIs ==
  ASSUME NEW d, Fit(d), d.MergedP = TRUE, NEW P
  PROVE  SameButKids(LoadedIn(d, P), d) /\ Follows(LoadedIn(d, P), d)
  <1> DEFINE kids == d.ChildInfoV
             k2 == [c \in 1..Len(d.ChildInfoV) |->
                      IF c \in P THEN LoadChild(d.ChildInfoV[c]) ELSE d.ChildInfoV[c]]
             r == Rekid(d, k2, d.DirtyP)
  <1>1. /\ Alike(k2, kids) /\ Stores(k2, kids)
        /\ \A c \in 1..Len(kids) : k2[c].DirtyP = kids[c].DirtyP
    BY LoadsAre
  <1>2. d \in Rec /\ d.DirtyP \in BOOLEAN
    BY FitIs DEF Rec
  <1>3. LoadedIn(d, P) = r
    BY <1>2 DEF LoadedIn, Rekid, Rec
  <1> HIDE DEF k2
  <1>4. SameButKids(r, d) /\ r.ChildInfoV = k2 /\ r.DirtyP = d.DirtyP
    BY <1>1, <1>2, RekidIs
  <1> HIDE DEF r
  <1>5. Fit(r)
    BY <1>4, AlikeFits
  <1>6. r.DirtyP = FALSE => SameOnDisk(r, d)
    BY <1>1, <1>4 DEF SameOnDisk, SameButKids
  <1> QED BY <1>3, <1>4, <1>5, <1>6 DEF Follows

LEMMA LocalFollows ==
  ASSUME NEW s, Fit(s), Clean(s), s.MergedP = FALSE
  PROVE  Follows(DefLocal(s), s)
  <1>1. Fit(DefLocal(s)) /\ (DefLocal(s) = s \/ DefLocal(s).DirtyP = TRUE)
    BY DefLocalFits
  <1>2. s.DirtyP \in BOOLEAN
    BY FitIs DEF Rec
  <1>3. s.DirtyP = TRUE
    BY <1>2 DEF Clean
  <1>4. DefLocal(s).DirtyP = TRUE
    BY <1>1, <1>3
  <1> QED BY <1>1, <1>4, DirtyFollows

----
\* The invariant.
Filed(s, h) == IF s.DirtyP = TRUE THEN h = NoHeader ELSE h = Header(s)
IInv == Fit(set) /\ Clean(set) /\ Filed(set, disk)

LEMMA FollowsFiled ==
  ASSUME IInv, NEW r, Follows(r, set), Becomes(r)
  PROVE  IInv'
  <1>1. /\ set' = r /\ disk' = IF r.DirtyP THEN NoHeader ELSE disk
        /\ Fit(set) /\ Clean(set) /\ Filed(set, disk)
        /\ Fit(r) /\ (r.DirtyP = FALSE => SameOnDisk(r, set))
    BY DEF Becomes, Follows, IInv
  <1>2. r.DirtyP \in BOOLEAN /\ r.ChildInfoV \in Seq(Child) /\ set.ChildInfoV \in Seq(Child)
    <2>1. r.DirtyP \in BOOLEAN
      BY <1>1, FitIs DEF Rec
    <2> QED BY <1>1, <2>1, FitIs
  <1>3. CASE r.DirtyP = TRUE
    <2>1. Clean(r) /\ Filed(r, NoHeader)
      BY <1>3 DEF Clean, Filed
    <2>2. disk' = NoHeader
      BY <1>1, <1>3
    <2> QED BY <1>1, <2>1, <2>2 DEF IInv
  <1>4. CASE r.DirtyP = FALSE
    <2>1. SameOnDisk(r, set)
      BY <1>1, <1>4
    <2>2. disk' = disk /\ set.DirtyP = FALSE
      BY <1>1, <1>4, <2>1 DEF SameOnDisk
    <2>3. disk = Header(set)
      BY <1>1, <2>2 DEF Filed
    <2>4. r.ItemV = set.ItemV /\ Stores(r.ChildInfoV, set.ChildInfoV)
      BY <2>1 DEF SameOnDisk
    <2>5. Header(r) = Header(set)
      BY <1>2, <2>4, HeaderSame
    <2>6. Filed(r, disk)
      BY <1>4, <2>3, <2>5 DEF Filed
    <2>7. Clean(r)
      BY <1>1, <2>1, <2>2 DEF Clean, SameOnDisk, Stores
    <2> QED BY <1>1, <2>2, <2>6, <2>7 DEF IInv
  <1> QED BY <1>2, <1>3, <1>4

----
\* The invariant holds, and each step keeps it.
LEMMA InitIs == Init => IInv
  <1> SUFFICES ASSUME Init PROVE IInv
    OBVIOUS
  <1>1. set = EmptySet(0) /\ disk = NoHeader
    BY NewIs DEF Init
  <1>2. EmptySet(0).DirtyP = TRUE
    BY DEF EmptySet
  <1>3. Clean(EmptySet(0)) /\ Filed(EmptySet(0), NoHeader)
    BY <1>2 DEF Clean, Filed
  <1> QED BY <1>1, <1>3, EmptyFits DEF IInv

LEMMA AddItemStep ==
  ASSUME IInv, SplitLenMin # 0, NEW i \in Id, NEW fq \in Fq, AddItem(i, fq)
  PROVE  IInv'
  <1> DEFINE x == [id |-> i, fq |-> fq]
  <1>1. x \in Item
    BY IdAssumption DEF Item
  <1>2. Becomes(Added(set, x))
    BY DEF AddItem
  <1> HIDE DEF x
  <1>3. Fit(set)
    BY DEF IInv
  <1>4. Follows(Added(set, x), set)
    BY <1>1, <1>3, AddFollows
  <1> QED BY <1>2, <1>4, FollowsFiled

LEMMA DelItemVStep ==
  ASSUME IInv, SplitLenMin # 0, NEW D \in SUBSET Id, DelItemV(D)
  PROVE  IInv'
  <1>1. Becomes(Deleted(set, D))
    BY DEF DelItemV
  <1>2. D # {}
    <2>1. Cardinality(D) # 0
      BY DEF DelItemV
    <2> QED BY <2>1, FS_EmptySet
  <1>3. Fit(set)
    BY DEF IInv
  <1>4. Follows(Deleted(set, D), set)
    BY <1>2, <1>3, DelFollows
  <1> QED BY <1>1, <1>4, FollowsFiled

LEMMA DelItemsBelowStep ==
  ASSUME IInv, SplitLenMin # 0, NEW m \in Id, DelItemsBelow(m)
  PROVE  IInv'
  <1> DEFINE r == OrForgotten(DeletedBelow(Def(set), m))
  <1>1. Becomes(r)
    BY DEF DelItemsBelow
  <1>2. Fit(set) /\ m \in Nat
    BY IdAssumption DEF IInv
  <1>3. Follows(r, set)
    BY <1>2, BelowFollows
  <1> HIDE DEF r
  <1> QED BY <1>1, <1>3, FollowsFiled

LEMMA ClrStep ==
  ASSUME IInv, Clr
  PROVE  IInv'
  <1>1. Becomes(Cleared(set)) /\ Fit(set)
    BY DEF Clr, IInv
  <1>2. Follows(Cleared(set), set)
    BY <1>1, ClrFollows
  <1> QED BY <1>1, <1>2, FollowsFiled

LEMMA ReadStep ==
  ASSUME IInv, SplitLenMin # 0, NEW P, Becomes(LoadedIn(Def(set), P))
  PROVE  IInv'
  <1>1. Fit(set)
    BY DEF IInv
  <1> DEFINE d == Def(set)
  <1>2. Fit(d) /\ d.MergedP /\ Follows(d, set)
    BY <1>1, DefFits, DefFollows
  <1>3. Becomes(LoadedIn(d, P))
    OBVIOUS
  <1> HIDE DEF d
  <1>4. d.MergedP = TRUE
    BY <1>2, FitIs DEF Rec
  <1>5. Follows(LoadedIn(d, P), d)
    BY <1>2, <1>4, ReadIs
  <1>6. Follows(LoadedIn(d, P), set)
    BY <1>2, <1>5, FollowsOn
  <1> QED BY <1>3, <1>6, FollowsFiled

LEMMA GetItemVReads ==
  ASSUME IInv, SplitLenMin # 0, GetItemV
  PROVE  Becomes(LoadedIn(Def(set), 1..Len(Def(set).ChildInfoV)))
  <1> DEFINE d == Def(set)
  <1>1. Fit(d)
    BY DefFits DEF IInv
  <1>2. Becomes([d EXCEPT !.ChildInfoV = [c \in DOMAIN @ |-> LoadChild(@[c])]])
    BY DEF GetItemV
  <1> HIDE DEF d
  <1>3. d \in Rec /\ DOMAIN d.ChildInfoV = 1..Len(d.ChildInfoV)
    BY <1>1, FitIs
  <1>4. [d EXCEPT !.ChildInfoV = [c \in DOMAIN @ |-> LoadChild(@[c])]] =
          LoadedIn(d, 1..Len(d.ChildInfoV))
    BY <1>3 DEF LoadedIn, Rec
  <1> QED BY <1>2, <1>4 DEF d

LEMMA InRangeReads ==
  ASSUME IInv, SplitLenMin # 0, NEW lo, NEW hi, GetItemVInRange(lo, hi)
  PROVE  Becomes(LoadedIn(Def(set), {c \in 1..Len(Def(set).ChildInfoV) :
                                       InRange(Def(set).ChildInfoV[c], lo, hi)}))
  <1> DEFINE d == Def(set)
  <1>1. Fit(d)
    BY DefFits DEF IInv
  <1>2. Becomes([d EXCEPT !.ChildInfoV =
                 [c \in DOMAIN @ |-> IF InRange(@[c], lo, hi) THEN LoadChild(@[c]) ELSE @[c]]])
    BY DEF GetItemVInRange
  <1> HIDE DEF d
  <1>3. d \in Rec /\ DOMAIN d.ChildInfoV = 1..Len(d.ChildInfoV)
    BY <1>1, FitIs
  <1> DEFINE P == {c \in 1..Len(d.ChildInfoV) : InRange(d.ChildInfoV[c], lo, hi)}
  <1>4. \A c \in 1..Len(d.ChildInfoV) : c \in P <=> InRange(d.ChildInfoV[c], lo, hi)
    OBVIOUS
  <1> HIDE DEF P
  <1>5. [d EXCEPT !.ChildInfoV =
                 [c \in DOMAIN @ |-> IF InRange(@[c], lo, hi) THEN LoadChild(@[c]) ELSE @[c]]] =
          LoadedIn(d, P)
    BY <1>3, <1>4 DEF LoadedIn, Rec
  <1> QED BY <1>2, <1>5 DEF d, P

LEMMA RefreshStep ==
  ASSUME IInv, RefreshMemUsed
  PROVE  IInv'
  <1>1. Becomes(DefLocal(set)) /\ Fit(set) /\ Clean(set) /\ ~set.MergedP
    BY DEF RefreshMemUsed, IInv
  <1>2. set.MergedP = FALSE
    BY <1>1, FitIs DEF Rec
  <1>3. Follows(DefLocal(set), set)
    BY <1>1, <1>2, LocalFollows
  <1> QED BY <1>1, <1>3, FollowsFiled

LEMMA StoreStep ==
  ASSUME IInv, SplitLenMin # 0, StoreSet
  PROVE  IInv'
  <1> DEFINE d == Def(set)
  <1>1. Fit(set)
    BY DEF IInv
  <1>2. Fit(d) /\ d.MergedP
    BY <1>1, DefFits
  <1>3. IF d.TotalCnt = 0 THEN Becomes(Forgotten(d)) ELSE Stored(Saved(d))
    BY DEF StoreSet
  <1> HIDE DEF d
  <1>4. CASE d.TotalCnt = 0
    <2>1. d.Blobs = 0
      BY <1>2, <1>4, NothingLeft
    <2>2. Forgotten(d) = EmptySet(0)
      BY <2>1, NewIs
    <2>3. EmptySet(0).DirtyP = TRUE
      BY DEF EmptySet
    <2>4. Follows(EmptySet(0), set)
      BY <2>3, EmptyFits, DirtyFollows
    <2> QED BY <1>3, <1>4, <2>2, <2>4, FollowsFiled
  <1>5. CASE d.TotalCnt # 0
    <2> DEFINE r == Saved(d)
    <2>1. /\ SameButKids(r, d) /\ r.DirtyP = FALSE
          /\ \A c \in 1..Len(r.ChildInfoV) : r.ChildInfoV[c].DirtyP = FALSE
      BY <1>2, SavedIs
    <2>2. set' = r /\ disk' = Header(r)
      BY <1>3, <1>5 DEF Stored
    <2> HIDE DEF r
    <2>3. Fit(r)
      BY <1>2, <2>1, AlikeFits
    <2>4. r.MergedP = TRUE
      <3>1. r.MergedP = d.MergedP /\ d.MergedP \in BOOLEAN
        BY <1>2, <2>1, FitIs DEF SameButKids, Rec
      <3> QED BY <1>2, <3>1
    <2>5. Clean(r) /\ Filed(r, Header(r))
      BY <2>1, <2>4 DEF Clean, Filed
    <2> QED BY <2>2, <2>3, <2>5 DEF IInv
  <1> QED BY <1>4, <1>5

LEMMA ReloadStep ==
  ASSUME IInv, Reload
  PROVE  IInv'
  <1>1. ~set.DirtyP /\ set' = Loaded(disk, set.Blobs) /\ disk' = disk
        /\ Fit(set) /\ Clean(set) /\ Filed(set, disk)
    BY DEF Reload, IInv
  <1>2. set.DirtyP = FALSE /\ set.ChildInfoV \in Seq(Child)
    BY <1>1, FitIs DEF Rec
  <1>3. disk = Header(set) /\ set.MergedP = TRUE
        /\ \A c \in 1..Len(set.ChildInfoV) : set.ChildInfoV[c].DirtyP = FALSE
    BY <1>1, <1>2 DEF Clean, Filed
  <1> DEFINE r == Loaded(Header(set), set.Blobs)
  <1>4. /\ SameButKids(r, set) /\ r.DirtyP = FALSE /\ Stores(r.ChildInfoV, set.ChildInfoV)
        /\ \A c \in 1..Len(r.ChildInfoV) : r.ChildInfoV[c].DirtyP = FALSE
    BY <1>1, <1>3, LoadedIs
  <1>5. set' = r /\ disk' = Header(set)
    BY <1>1, <1>3
  <1> HIDE DEF r
  <1>6. Fit(r)
    BY <1>1, <1>4, AlikeFits
  <1>7. r.MergedP = TRUE /\ r.ItemV = set.ItemV /\ r.ChildInfoV \in Seq(Child)
    BY <1>3, <1>4, <1>6, FitIs DEF SameButKids
  <1>8. Header(r) = Header(set)
    BY <1>2, <1>4, <1>7, HeaderSame
  <1>9. Clean(r) /\ Filed(r, Header(set))
    BY <1>4, <1>7, <1>8 DEF Clean, Filed
  <1> QED BY <1>5, <1>6, <1>9 DEF IInv

LEMMA NextIs ==
  ASSUME SplitLenMin # 0
  PROVE  IInv /\ [Next]_vars => IInv'
  <1> SUFFICES ASSUME IInv, [Next]_vars PROVE IInv'
    OBVIOUS
  <1>1. ASSUME NEW i \in Id, NEW fq \in Fq, AddItem(i, fq) PROVE IInv'
    BY <1>1, AddItemStep
  <1>2. ASSUME NEW D \in SUBSET Id, DelItemV(D) PROVE IInv'
    BY <1>2, DelItemVStep
  <1>3. ASSUME NEW m \in Id, DelItemsBelow(m) PROVE IInv'
    BY <1>3, DelItemsBelowStep
  <1>4. ASSUME Clr PROVE IInv'
    BY <1>4, ClrStep
  <1>5. ASSUME GetItemV PROVE IInv'
    BY <1>5, GetItemVReads, ReadStep
  <1>6. ASSUME NEW lo, NEW hi, GetItemVInRange(lo, hi) PROVE IInv'
    BY <1>6, InRangeReads, ReadStep
  <1>7. ASSUME RefreshMemUsed PROVE IInv'
    BY <1>7, RefreshStep
  <1>8. ASSUME StoreSet PROVE IInv'
    BY <1>8, StoreStep
  <1>9. ASSUME Reload PROVE IInv'
    BY <1>9, ReloadStep
  <1>10. CASE UNCHANGED vars
    BY <1>10 DEF vars, IInv
  <1> QED BY <1>1, <1>2, <1>3, <1>4, <1>5, <1>6, <1>7, <1>8, <1>9, <1>10 DEF Next

\* The invariant holds whatever is called, in any order, as often as one likes.
THEOREM ItemSetInvariant == ASSUME SplitLenMin # 0 PROVE Spec => []IInv
  <1>1. IInv /\ [Next]_vars => IInv'
    BY NextIs
  <1> QED BY <1>1, InitIs, PTL DEF Spec

----
\* What follows from it.
LEMMA KidsInOrder == ASSUME IInv PROVE ChildrenInOrder
  <1> DEFINE kids == set.ChildInfoV
  <1>1. Kids(kids)
    BY FitIs DEF IInv
  <1> HIDE DEF kids
  <1>2. ASSUME NEW c \in 1..Len(kids)
        PROVE  LET k == kids[c]
                   v == Vec(k)
               IN  /\ k.Len = Len(v)
                   /\ \A n \in DOMAIN v : v[n].id \in k.MinItem..k.MaxItem
                   /\ \A n \in 2..Len(v) : v[n-1].id < v[n].id
                   /\ c > 1 => kids[c-1].MaxItem < k.MinItem
    <2> DEFINE k == kids[c]
               v == Vec(k)
    <2>1. KidOK(k) /\ k.MinItem \in Nat /\ k.MaxItem \in Nat /\ Len(kids) \in Nat
      BY <1>1, KidsAre
    <2>2. c > 1 => kids[c-1].MaxItem < k.MinItem
      <3>1. SUFFICES ASSUME c > 1 PROVE kids[c-1].MaxItem < k.MinItem
        OBVIOUS
      <3> DEFINE b == c - 1
      <3>2. b \in 1..Len(kids) /\ b < c
        BY <2>1, <3>1
      <3> HIDE DEF b
      <3>3. kids[b].MaxItem < kids[c].MinItem
        BY <1>1, <3>2, KidsAre
      <3> QED BY <3>3 DEF b
    <2> HIDE DEF k
    <2>3. v \in Seq(Item) /\ k.Len = Len(v) /\ Ordered(v) /\ Len(v) \in Nat
          /\ \A n \in 1..Len(v) : v[n].id \in Nat /\ k.MinItem <= v[n].id /\ v[n].id <= k.MaxItem
      BY <2>1, KidIs
    <2> HIDE DEF v
    <2>4. \A n \in DOMAIN v : v[n].id \in k.MinItem..k.MaxItem
      BY <2>1, <2>3
    <2>5. \A n \in 2..Len(v) : v[n-1].id < v[n].id
      <3> SUFFICES ASSUME NEW n \in 2..Len(v) PROVE v[n-1].id < v[n].id
        OBVIOUS
      <3> DEFINE b == n - 1
      <3>1. b \in 1..Len(v) /\ n \in 1..Len(v) /\ b < n
        BY <2>3
      <3> HIDE DEF b
      <3>2. v[b].id < v[n].id
        BY <2>3, <3>1 DEF Ordered
      <3> QED BY <3>2 DEF b
    <2> QED BY <2>2, <2>3, <2>4, <2>5 DEF k, v
  <1>3. DOMAIN kids = 1..Len(kids)
    BY <1>1, KidsAre
  <1> QED BY <1>2, <1>3 DEF ChildrenInOrder, kids

LEMMA AllTyped == ASSUME IInv PROVE TypeOK
  <1>1. /\ set \in Rec /\ set.ItemV \in Seq(Item) /\ set.ItemVDel \in SUBSET (1..Len(set.ItemV))
        /\ set.ChildInfoV \in Seq(Child) /\ Len(set.ItemV) \in Nat
        /\ set.TotalCnt = RecalcTotalCnt(set) /\ SumLen(set.ChildInfoV) \in Nat
        /\ RecalcTotalCnt(set) = Len(set.ItemV) + SumLen(set.ChildInfoV)
        /\ set.Blobs = Len(set.ChildInfoV) /\ Len(set.ChildInfoV) \in Nat
        /\ Filed(set, disk)
    BY FitIs DEF IInv, Markers
  <1>2. set.TotalCnt \in Nat /\ set.Blobs \in Nat /\ DOMAIN set.ItemV = 1..Len(set.ItemV)
    BY <1>1
  <1>3. set.MergedP \in BOOLEAN /\ set.DirtyP \in BOOLEAN /\ set.DeleteMarkerP \in BOOLEAN
    BY <1>1 DEF Rec
  <1>4. disk # NoHeader => disk.ItemV \in Seq(Item) /\ disk.ChildInfoV \in Seq(Child)
    <2>1. SUFFICES ASSUME disk # NoHeader
                   PROVE  disk.ItemV \in Seq(Item) /\ disk.ChildInfoV \in Seq(Child)
      OBVIOUS
    <2>2. disk = Header(set)
      BY <1>1, <2>1 DEF Filed
    <2> DEFINE hk == HeadKids(set.ChildInfoV)
    <2>3. Header(set) = [ItemV |-> set.ItemV, ChildInfoV |-> hk] /\ hk \in Seq(Child)
      BY <1>1, HeaderIs
    <2> HIDE DEF hk
    <2> QED BY <1>1, <2>2, <2>3
  <1> QED BY <1>1, <1>2, <1>3, <1>4 DEF TypeOK

LEMMA Shapely == ASSUME IInv PROVE InShape
  <1>1. /\ Shaped(set.ChildInfoV) /\ set.ChildInfoV \in Seq(Child)
        /\ (set.MergedP => set.ItemVDel = {}) /\ (set.ItemVDel = {} => Len(set.ItemV) <= SplitLen)
    BY FitIs DEF IInv, Fit
  <1>2. \A c \in DOMAIN set.ChildInfoV : /\ set.ChildInfoV[c].Len # 0
                                         /\ set.ChildInfoV[c].Len <= SplitLenMax
    BY <1>1, SplitAssumption DEF Shaped
  <1> QED BY <1>1, <1>2 DEF InShape, NoEmptiedChild

LEMMA BlobsExact == ASSUME IInv PROVE ChildBlobsExact
  <1>1. Kids(set.ChildInfoV) /\ set.Blobs = Len(set.ChildInfoV) /\ set.ChildInfoV \in Seq(Child)
    BY FitIs DEF IInv
  <1>2. \A c \in 1..Len(set.ChildInfoV) : KidOK(set.ChildInfoV[c])
    BY <1>1 DEF Kids
  <1>3. DOMAIN set.ChildInfoV = 1..Len(set.ChildInfoV)
    BY <1>1
  <1> QED BY <1>1, <1>2, <1>3 DEF ChildBlobsExact, KidOK

LEMMA CleanStored == ASSUME IInv PROVE CleanIsStored
  <1>1. set.ChildInfoV \in Seq(Child) /\ set.DirtyP \in BOOLEAN
    BY FitIs DEF IInv, Rec
  <1>2. DOMAIN set.ChildInfoV = 1..Len(set.ChildInfoV)
    BY <1>1
  <1> QED BY <1>1, <1>2 DEF CleanIsStored, IInv, Clean, Filed

LEMMA RangesComplete == ASSUME IInv, SplitLenMin # 0 PROVE RangeComplete
  <1> DEFINE d == Def(set)
             kids == d.ChildInfoV
  <1>1. Kids(kids)
    BY DefFits, FitIs DEF IInv
  <1> SUFFICES ASSUME NEW lo \in Id, NEW hi \in Id, NEW c \in DOMAIN kids,
                      ~InRange(kids[c], lo, hi)
               PROVE  IdsIn(Vec(kids[c])) \cap lo..hi-1 = {}
    BY DEF RangeComplete
  <1> HIDE DEF d
  <1>2. c \in 1..Len(kids) /\ lo \in Nat /\ hi \in Nat
    BY <1>1, KidsAre, IdAssumption
  <1> DEFINE k == kids[c]
  <1>3. KidOK(k) /\ k.MinItem \in Nat /\ k.MaxItem \in Nat /\ ~InRange(k, lo, hi)
    BY <1>1, <1>2, KidsAre
  <1> HIDE DEF k
  <1>4. /\ \A n \in 1..Len(Vec(k)) : /\ Vec(k)[n].id \in Nat
                                     /\ k.MinItem <= Vec(k)[n].id /\ Vec(k)[n].id <= k.MaxItem
        /\ Vec(k) \in Seq(Item)
    BY <1>3, KidIs
  <1>5. ASSUME NEW i \in IdsIn(Vec(k)), i \in lo..hi-1 PROVE FALSE
    <2>1. PICK n \in 1..Len(Vec(k)) : Vec(k)[n].id = i
      BY <1>4, IdsAre
    <2>2. i \in Nat /\ k.MinItem <= i /\ i <= k.MaxItem
      BY <1>4, <2>1
    <2> QED BY <1>2, <1>3, <1>5, <2>2 DEF InRange
  <1> QED BY <1>5 DEF k

\* What the invariant says of the children, of the count, and of what is stored.
LEMMA SoundIs == ASSUME IInv PROVE ChildrenSound /\ StorageSound
  BY KidsInOrder, AllTyped, Shapely, BlobsExact, CleanStored DEF ChildrenSound, StorageSound

\* The children of an item set are in order, within their bounds, as long as they should
\* be, and their lengths are the ones in the header, however they were filled, cut, joined
\* and cut off (Def, DelItems, InjectWorkBufferToChildren and the rest).
THEOREM ChildrenStaySound == ASSUME SplitLenMin # 0 PROVE Spec => []ChildrenSound
  <1>1. IInv => ChildrenSound
    BY SoundIs
  <1> QED BY <1>1, ItemSetInvariant, PTL

\* Each child that is not marked as changed is in its blob as it is, and so is the header
\* of an item set that is not: nothing that is not stored is ever dropped.
THEOREM StorageStaysSound == ASSUME SplitLenMin # 0 PROVE Spec => []StorageSound
  <1>1. IInv => StorageSound
    BY SoundIs
  <1> QED BY <1>1, ItemSetInvariant, PTL

----
\* What the items of one id in a vector come to.
Plus(a, b) == IF Summing THEN a + b ELSE IF a = 0 /\ b = 0 THEN 0 ELSE 1
Shown(n) == IF n > 0 THEN n ELSE 0
Fine(x) == x.fq > 0 /\ (~Summing => x.fq = 1)
Part(v, i) == [n \in 1..Len(v) |-> IF v[n].id = i THEN v[n].fq ELSE 0]

\* A sum of one number, the others being zero.
LEMMA SumSingle ==
  ASSUME NEW f \in Seq(Int), NEW k \in 1..Len(f), \A n \in 1..Len(f) : n # k => f[n] = 0
  PROVE  SumUp(f) = f[k]
  <1> DEFINE N == Len(f)
             g == SumTo(f)
             S == {m \in Nat : m <= N => g[m] = IF m >= k THEN f[k] ELSE 0}
  <1>1. /\ SumUp(f) = g[N] /\ g[0] = 0 /\ N \in Nat
        /\ \A n \in 1..N : g[n] = g[n - 1] + f[n]
        /\ \A n \in 0..N : g[n] \in Int
    BY SumSteps
  <1>2. f[k] \in Int /\ k \in Nat /\ k >= 1 /\ k <= N
    BY <1>1
  <1> HIDE DEF g, N
  <1>3. 0 \in S
    BY <1>1, <1>2
  <1>4. ASSUME NEW m \in Nat, m \in S PROVE m + 1 \in S
    <2> DEFINE q == m + 1
    <2>1. SUFFICES ASSUME q <= N PROVE g[q] = IF q >= k THEN f[k] ELSE 0
      OBVIOUS
    <2>2. q \in 1..N /\ q - 1 = m /\ m <= N /\ q \in Nat
      BY <1>1, <2>1
    <2>3. g[m] = IF m >= k THEN f[k] ELSE 0
      BY <1>4, <2>2
    <2>4. g[q] = g[m] + f[q]
      BY <1>1, <2>2
    <2>5. CASE q = k
      <3>1. ~(m >= k)
        BY <1>2, <2>2, <2>5
      <3> QED BY <1>2, <2>3, <2>4, <2>5, <3>1
    <2>6. CASE q # k
      <3>1. f[q] = 0
        BY <2>2, <2>6 DEF N
      <3>2. q >= k <=> m >= k
        BY <1>2, <2>2, <2>6
      <3> QED BY <1>2, <2>3, <2>4, <3>1, <3>2
    <2> QED BY <2>5, <2>6
  <1> HIDE DEF S
  <1>5. \A m \in Nat : m \in S
    BY <1>3, <1>4, ByInduction
  <1>6. N \in S
    BY <1>1, <1>5
  <1> QED BY <1>1, <1>2, <1>6 DEF S

LEMMA SumZero ==
  ASSUME NEW f \in Seq(Int), \A n \in 1..Len(f) : f[n] = 0
  PROVE  SumUp(f) = 0
  <1>1. CASE f = <<>>
    BY <1>1, SumEmpty
  <1>2. CASE f # <<>>
    <2>1. 1 \in 1..Len(f)
      BY <1>2
    <2>2. SumUp(f) = f[1]
      BY <2>1, SumSingle
    <2> QED BY <2>1, <2>2
  <1> QED BY <1>1, <1>2

LEMMA PartIsInt ==
  ASSUME NEW v \in Seq(Item), NEW i
  PROVE  /\ Part(v, i) \in Seq(Int) /\ Len(Part(v, i)) = Len(v)
         /\ \A n \in 1..Len(v) : Part(v, i)[n] = IF v[n].id = i THEN v[n].fq ELSE 0
  <1> DEFINE N == Len(v)
             e(n) == IF v[n].id = i THEN v[n].fq ELSE 0
  <1>1. N \in Nat /\ \A n \in 1..N : e(n) \in Int
    BY IdsAre
  <1>2. Part(v, i) = [n \in 1..N |-> e(n)]
    BY DEF Part
  <1> HIDE DEF e
  <1>3. [n \in 1..N |-> e(n)] \in Seq(Int) /\ Len([n \in 1..N |-> e(n)]) = N
    BY <1>1
  <1> QED BY <1>2, <1>3 DEF e

LEMMA TotalIs ==
  ASSUME NEW v \in Seq(Item), NEW i
  PROVE  /\ TotalOrNone(v, i) \in Int
         /\ i \in IdsIn(v) => TotalOrNone(v, i) = Total(v, i)
         /\ i \notin IdsIn(v) => TotalOrNone(v, i) = 0
         /\ Summing => TotalOrNone(v, i) = SumUp(Part(v, i))
         /\ ~Summing => TotalOrNone(v, i) = IF i \in IdsIn(v) THEN 1 ELSE 0
  <1>1. DOMAIN v = 1..Len(v)
    BY IdsAre
  <1>2. Summing => Total(v, i) = SumUp(Part(v, i))
    BY <1>1 DEF Total, Part
  <1>3. i \notin IdsIn(v) => SumUp(Part(v, i)) = 0
    <2>1. SUFFICES ASSUME i \notin IdsIn(v) PROVE SumUp(Part(v, i)) = 0
      OBVIOUS
    <2>2. \A n \in 1..Len(v) : v[n].id # i
      BY <2>1, IdsAre
    <2> DEFINE f == Part(v, i)
    <2>3. f \in Seq(Int) /\ \A n \in 1..Len(f) : f[n] = 0
      BY <2>2, PartIsInt
    <2> HIDE DEF f
    <2>4. SumUp(f) = 0
      BY <2>3, SumZero
    <2> QED BY <2>4 DEF f
  <1>4. Total(v, i) \in Int
    BY TotalType
  <1>5. ~Summing => Total(v, i) = 1
    BY DEF Total
  <1> QED BY <1>2, <1>3, <1>4, <1>5 DEF TotalOrNone

\* Vectors one after the other.
LEMMA TotalConcat ==
  ASSUME NEW v \in Seq(Item), NEW w \in Seq(Item), NEW i
  PROVE  TotalOrNone(v \o w, i) = Plus(TotalOrNone(v, i), TotalOrNone(w, i))
  <1> DEFINE u == v \o w
  <1>1. u \in Seq(Item) /\ (i \in IdsIn(u) <=> i \in IdsIn(v) \/ i \in IdsIn(w))
    BY ConcatIds
  <1>2. CASE ~Summing
    <2> HIDE DEF u
    <2> QED BY <1>1, <1>2, TotalIs DEF Plus, u
  <1>3. CASE Summing
    <2> DEFINE f == Part(v, i)
               g == Part(w, i)
               h == Part(u, i)
    <2>1. f \in Seq(Int) /\ g \in Seq(Int) /\ h \in Seq(Int)
          /\ Len(f) = Len(v) /\ Len(g) = Len(w) /\ Len(h) = Len(u)
      BY <1>1, PartIsInt
    <2>2. Len(u) = Len(v) + Len(w) /\ Len(v) \in Nat /\ Len(w) \in Nat
          /\ \A n \in 1..Len(u) : u[n] = IF n <= Len(v) THEN v[n] ELSE w[n - Len(v)]
      BY ConcatProperties, LenProperties
    <2>3. \A n \in 1..Len(u) : h[n] = IF n <= Len(v) THEN f[n] ELSE g[n - Len(v)]
      <3> SUFFICES ASSUME NEW n \in 1..Len(u)
                   PROVE  h[n] = IF n <= Len(v) THEN f[n] ELSE g[n - Len(v)]
        OBVIOUS
      <3>1. h[n] = IF u[n].id = i THEN u[n].fq ELSE 0
        BY <1>1, PartIsInt
      <3>2. CASE n <= Len(v)
        <4>1. n \in 1..Len(v) /\ u[n] = v[n]
          BY <2>2, <3>2
        <4>2. f[n] = IF v[n].id = i THEN v[n].fq ELSE 0
          BY <4>1, PartIsInt
        <4> HIDE DEF f, g, h, u
        <4> QED BY <3>1, <3>2, <4>1, <4>2
      <3>3. CASE ~(n <= Len(v))
        <4> DEFINE m == n - Len(v)
        <4>1. m \in 1..Len(w) /\ u[n] = w[m]
          BY <2>2, <3>3
        <4> HIDE DEF m
        <4>2. g[m] = IF w[m].id = i THEN w[m].fq ELSE 0
          BY <4>1, PartIsInt
        <4> HIDE DEF f, g, h, u
        <4> QED BY <3>1, <3>3, <4>1, <4>2 DEF m
      <3> QED BY <3>2, <3>3
    <2> HIDE DEF f, g, h, u
    <2>4. h = f \o g
      <3> DEFINE k == f \o g
      <3>1. k \in Seq(Int) /\ Len(k) = Len(v) + Len(w)
            /\ \A n \in 1..Len(k) : k[n] = IF n <= Len(v) THEN f[n] ELSE g[n - Len(v)]
        <4>0. f \in Seq(Int) /\ g \in Seq(Int)
          BY <2>1
        <4>1. /\ k \in Seq(Int) /\ Len(k) = Len(f) + Len(g)
              /\ \A n \in 1..Len(f) + Len(g) : k[n] = IF n <= Len(f) THEN f[n] ELSE g[n - Len(f)]
          BY <4>0, ConcatProperties
        <4> HIDE DEF k
        <4> QED BY <2>1, <4>1
      <3> HIDE DEF k
      <3>2. Len(h) = Len(k) /\ \A n \in 1..Len(h) : h[n] = k[n]
        BY <2>1, <2>2, <2>3, <3>1
      <3>3. h = k
        BY <2>1, <3>1, <3>2, SeqEqual
      <3> QED BY <3>3 DEF k
    <2>5. SumUp(h) = SumUp(f) + SumUp(g)
      BY <2>1, <2>4, SumConcat
    <2>6. /\ TotalOrNone(v, i) = SumUp(f) /\ TotalOrNone(w, i) = SumUp(g)
          /\ TotalOrNone(u, i) = SumUp(h)
      BY <1>1, <1>3, TotalIs DEF f, g, h
    <2> QED BY <1>3, <2>5, <2>6 DEF Plus, u
  <1> QED BY <1>2, <1>3

\* A vector that holds each id once.
LEMMA TotalOrdered ==
  ASSUME NEW v \in Seq(Item), Ordered(v)
  PROVE  \A x \in Vals(v) : /\ x.id \in IdsIn(v) /\ x \in Item
                            /\ TotalOrNone(v, x.id) = IF Summing THEN x.fq ELSE 1
  <1> SUFFICES ASSUME NEW x \in Vals(v)
               PROVE  /\ x.id \in IdsIn(v) /\ x \in Item
                      /\ TotalOrNone(v, x.id) = IF Summing THEN x.fq ELSE 1
    OBVIOUS
  <1>1. PICK k \in 1..Len(v) : x = v[k]
    BY DEF Vals
  <1> DEFINE i == x.id
             f == Part(v, i)
  <1>2. i \in IdsIn(v) /\ x \in Item /\ Len(v) \in Nat /\ \A n \in 1..Len(v) : v[n].id \in Nat
    BY <1>1, IdsAre
  <1>3. /\ f \in Seq(Int) /\ Len(f) = Len(v)
        /\ \A n \in 1..Len(v) : f[n] = IF v[n].id = i THEN v[n].fq ELSE 0
    BY PartIsInt
  <1>4. ASSUME NEW n \in 1..Len(v), n # k PROVE v[n].id # i
    <2>1. v[n].id \in Nat /\ v[k].id \in Nat /\ (n < k \/ k < n)
      BY <1>2, <1>4
    <2> QED BY <1>1, <2>1 DEF Ordered
  <1> HIDE DEF f
  <1>5. SumUp(f) = f[k]
    BY <1>3, <1>4, SumSingle
  <1>6. f[k] = x.fq
    BY <1>1, <1>3
  <1> HIDE DEF i
  <1> QED BY <1>2, <1>5, <1>6, TotalIs DEF i, f

\* A vector all of whose frequencies are positive.
LEMMA TotalPositive ==
  ASSUME NEW v \in Seq(Item), \A n \in 1..Len(v) : v[n].fq > 0, NEW i \in IdsIn(v)
  PROVE  TotalOrNone(v, i) > 0
  <1>1. CASE ~Summing
    BY <1>1, TotalIs
  <1>2. CASE Summing
    <2> DEFINE f == Part(v, i)
    <2>1. /\ f \in Seq(Int) /\ Len(f) = Len(v)
          /\ \A n \in 1..Len(v) : f[n] = IF v[n].id = i THEN v[n].fq ELSE 0
      BY PartIsInt
    <2>2. TotalOrNone(v, i) = SumUp(f)
      BY <1>2, TotalIs
    <2> HIDE DEF f
    <2>3. PICK k \in 1..Len(v) : v[k].id = i
      BY IdsAre
    <2>4. \A n \in 1..Len(f) : f[n] \in Nat
      <3> SUFFICES ASSUME NEW n \in 1..Len(v) PROVE f[n] \in Nat
        BY <2>1
      <3>1. v[n].fq \in Int /\ v[n].fq > 0
        BY IdsAre
      <3> QED BY <2>1, <3>1
    <2>5. f \in Seq(Nat)
      BY <2>1, <2>4
    <2>6. f[k] <= SumUp(f) /\ SumUp(f) \in Nat
      BY <2>1, <2>3, <2>5, SumNat
    <2>7. f[k] = v[k].fq /\ v[k].fq \in Int /\ v[k].fq > 0
      BY <2>1, <2>3, IdsAre
    <2> QED BY <2>2, <2>6, <2>7
  <1> QED BY <1>1, <1>2

\* Merging keeps the totals, or those that are positive.
LEMMA MergeTotal ==
  ASSUME NEW v \in Seq(Item), NEW i
  PROVE  /\ TotalOrNone(Merge(v, TRUE), i) = TotalOrNone(v, i)
         /\ TotalOrNone(Merge(v, FALSE), i) = Shown(TotalOrNone(v, i))
  <1>1. ASSUME NEW l \in BOOLEAN
        PROVE  TotalOrNone(Merge(v, l), i) = IF i \in Kept(v, l) THEN Total(v, i) ELSE 0
    <2> DEFINE m == Merge(v, l)
    <2>1. m \in Seq(Item) /\ Ordered(m) /\ Vals(m) = Sums(v, l)
      BY MergeIs, MergeVals
    <2> HIDE DEF m
    <2>2. CASE i \in Kept(v, l)
      <3> DEFINE x == [id |-> i, fq |-> Total(v, i)]
      <3>1. x \in Vals(m)
        BY <2>1, <2>2 DEF Sums
      <3>2. x.id = i /\ x.fq = Total(v, i)
        OBVIOUS
      <3> HIDE DEF x
      <3>3. TotalOrNone(m, x.id) = IF Summing THEN x.fq ELSE 1
        BY <2>1, <3>1, TotalOrdered
      <3>4. ~Summing => Total(v, i) = 1
        BY DEF Total
      <3> QED BY <2>2, <3>2, <3>3, <3>4 DEF m
    <2>3. CASE i \notin Kept(v, l)
      <3>1. i \notin IdsIn(m)
        <4>1. SUFFICES ASSUME i \in IdsIn(m) PROVE FALSE
          OBVIOUS
        <4>2. PICK n \in 1..Len(m) : m[n].id = i
          BY <2>1, <4>1, IdsAre
        <4>3. m[n] \in Sums(v, l)
          BY <2>1 DEF Vals
        <4>4. PICK j \in Kept(v, l) : m[n] = [id |-> j, fq |-> Total(v, j)]
          BY <4>3 DEF Sums
        <4> QED BY <2>3, <4>2, <4>4
      <3>2. TotalOrNone(m, i) = 0
        BY <2>1, <3>1, TotalIs
      <3> QED BY <2>3, <3>2 DEF m
    <2> QED BY <2>2, <2>3
  <1>2. /\ i \in Kept(v, TRUE) <=> i \in IdsIn(v) /\ (Total(v, i) > 0 \/ Total(v, i) < 0)
        /\ i \in Kept(v, FALSE) <=> i \in IdsIn(v) /\ Total(v, i) > 0
    BY DEF Kept, IsKept
  <1>3. Total(v, i) \in Int
    BY TotalType
  <1>4. /\ TotalOrNone(Merge(v, TRUE), i) = IF i \in Kept(v, TRUE) THEN Total(v, i) ELSE 0
        /\ TotalOrNone(Merge(v, FALSE), i) = IF i \in Kept(v, FALSE) THEN Total(v, i) ELSE 0
    BY <1>1
  <1>5. TotalOrNone(v, i) = IF i \in IdsIn(v) THEN Total(v, i) ELSE 0
    BY TotalIs
  <1> DEFINE t == Total(v, i)
             a == TotalOrNone(Merge(v, TRUE), i)
             b == TotalOrNone(Merge(v, FALSE), i)
             K == Kept(v, TRUE)
             L == Kept(v, FALSE)
             I == IdsIn(v)
  <1>6. /\ t \in Int /\ a = (IF i \in K THEN t ELSE 0) /\ b = (IF i \in L THEN t ELSE 0)
        /\ TotalOrNone(v, i) = IF i \in I THEN t ELSE 0
    BY <1>3, <1>4, <1>5
  <1>7. (i \in K <=> i \in I /\ (t > 0 \/ t < 0)) /\ (i \in L <=> i \in I /\ t > 0)
    BY <1>2
  <1> HIDE DEF t, a, b, K, L, I
  <1>8. a = TotalOrNone(v, i) /\ b = Shown(TotalOrNone(v, i))
    BY <1>6, <1>7 DEF Shown
  <1> QED BY <1>8 DEF a, b

\* Merged for good, all is fine.
LEMMA MergeFine ==
  ASSUME NEW v \in Seq(Item)
  PROVE  /\ \A x \in Vals(Merge(v, FALSE)) : Fine(x)
         /\ (\A n \in 1..Len(v) : v[n].fq > 0) => \A x \in Vals(Merge(v, TRUE)) : Fine(x)
  <1>1. ASSUME NEW l \in BOOLEAN, NEW x \in Vals(Merge(v, l))
        PROVE  \E i \in Kept(v, l) : x.fq = Total(v, i)
    BY <1>1, MergeVals DEF Sums
  <1>2. ~Summing => \A i : Total(v, i) = 1
    BY DEF Total
  <1>3. \A x \in Vals(Merge(v, FALSE)) : Fine(x)
    <2> SUFFICES ASSUME NEW x \in Vals(Merge(v, FALSE)) PROVE Fine(x)
      OBVIOUS
    <2>1. PICK i \in Kept(v, FALSE) : x.fq = Total(v, i)
      BY <1>1
    <2>2. Total(v, i) > 0
      BY DEF Kept, IsKept
    <2> QED BY <1>2, <2>1, <2>2 DEF Fine
  <1>4. ASSUME \A n \in 1..Len(v) : v[n].fq > 0, NEW x \in Vals(Merge(v, TRUE)) PROVE Fine(x)
    <2>1. PICK i \in Kept(v, TRUE) : x.fq = Total(v, i)
      BY <1>1
    <2>2. i \in IdsIn(v)
      BY DEF Kept
    <2>3. Total(v, i) > 0
      BY <1>4, <2>2, TotalPositive, TotalIs
    <2> QED BY <1>2, <2>1, <2>3 DEF Fine
  <1> QED BY <1>3, <1>4

\* An ordered vector of fine items holds the positive totals.
LEMMA FineVals ==
  ASSUME NEW v \in Seq(Item), Ordered(v), \A x \in Vals(v) : Fine(x), NEW x
  PROVE  x \in Vals(v) <=> x \in Item /\ x.fq = TotalOrNone(v, x.id) /\ x.fq > 0
  <1>1. ASSUME NEW y \in Vals(v)
        PROVE  y \in Item /\ y.fq = TotalOrNone(v, y.id) /\ y.fq > 0 /\ y.id \in IdsIn(v)
    BY <1>1, TotalOrdered DEF Fine
  <1>2. ASSUME x \in Item, x.fq = TotalOrNone(v, x.id), x.fq > 0 PROVE x \in Vals(v)
    <2>1. x.id \in IdsIn(v)
      BY <1>2, TotalIs
    <2>2. PICK n \in 1..Len(v) : v[n].id = x.id
      BY <2>1, IdsAre
    <2>3. v[n] \in Vals(v)
      BY DEF Vals
    <2>4. v[n] \in Item /\ v[n].fq = x.fq
      BY <1>1, <1>2, <2>2, <2>3
    <2>5. v[n] = x
      BY <1>2, <2>2, <2>4 DEF Item
    <2> QED BY <2>3, <2>5
  <1> QED BY <1>1, <1>2

----
\* All items of the children.
LEMMA AllOfIs ==
  ASSUME NEW kids, Kids(kids)
  PROVE  /\ AllOf(kids) \in Seq(Item) /\ Ordered(AllOf(kids))
         /\ \A x : x \in Vals(AllOf(kids)) <=> InKids(kids, x)
  <1> DEFINE N == Len(kids)
             e(c) == Vec(kids[c])
             f == [c \in 1..N |-> e(c)]
             R == {p \in Item \X Item : p[1].id < p[2].id}
             a == AllOf(kids)
  <1>1. N \in Nat /\ DOMAIN kids = 1..N
    BY KidsAre
  <1>2. ASSUME NEW c \in 1..N
        PROVE  /\ KidOK(kids[c]) /\ e(c) \in Seq(Item) /\ Ordered(e(c))
               /\ kids[c].MinItem \in Nat /\ kids[c].MaxItem \in Nat
               /\ \A n \in 1..Len(e(c)) : /\ e(c)[n] \in Item /\ e(c)[n].id \in Nat
                                          /\ kids[c].MinItem <= e(c)[n].id
                                          /\ e(c)[n].id <= kids[c].MaxItem
    <2>1. KidOK(kids[c]) /\ kids[c].MinItem \in Nat /\ kids[c].MaxItem \in Nat
      BY KidsAre
    <2>2. e(c) \in Seq(Item) /\ Ordered(e(c))
          /\ \A n \in 1..Len(e(c)) : /\ e(c)[n].id \in Nat /\ kids[c].MinItem <= e(c)[n].id
                                     /\ e(c)[n].id <= kids[c].MaxItem
      BY <2>1, KidIs
    <2>3. \A n \in 1..Len(e(c)) : e(c)[n] \in Item
      BY <2>2
    <2> QED BY <2>1, <2>2, <2>3
  <1>3. a = Chained(f)
    BY <1>1 DEF AllOf
  <1> HIDE DEF e
  <1>4. f \in Seq(Seq(Item)) /\ Len(f) = N /\ \A c \in 1..N : f[c] = e(c)
    <2>1. \A c \in 1..N : e(c) \in Seq(Item)
      BY <1>2
    <2> HIDE DEF N
    <2> QED BY <1>1, <2>1
  <1> HIDE DEF f, a, N
  <1>5. ASSUME NEW c \in 1..Len(f), NEW m \in 1..Len(f[c]), NEW n \in 1..Len(f[c]), m < n
        PROVE  <<f[c][m], f[c][n]>> \in R
    <2>1. f[c] = e(c) /\ c \in 1..N
      BY <1>4
    <2>2. Ordered(e(c)) /\ e(c)[m] \in Item /\ e(c)[n] \in Item
      BY <1>2, <2>1
    <2>3. e(c)[m].id < e(c)[n].id
      BY <1>5, <2>1, <2>2 DEF Ordered
    <2> QED BY <2>1, <2>2, <2>3
  <1>6. ASSUME NEW c \in 1..Len(f), NEW d \in 1..Len(f), c < d,
               NEW m \in 1..Len(f[c]), NEW n \in 1..Len(f[d])
        PROVE  <<f[c][m], f[d][n]>> \in R
    <2>1. f[c] = e(c) /\ c \in 1..N /\ f[d] = e(d) /\ d \in 1..N
      BY <1>4
    <2>2. /\ e(c)[m] \in Item /\ e(c)[m].id \in Nat /\ e(c)[m].id <= kids[c].MaxItem
          /\ e(d)[n] \in Item /\ e(d)[n].id \in Nat /\ kids[d].MinItem <= e(d)[n].id
          /\ kids[c].MaxItem \in Nat /\ kids[d].MinItem \in Nat
      BY <1>2, <2>1
    <2>3. kids[c].MaxItem < kids[d].MinItem
      BY <1>6, <2>1, KidsAre DEF N
    <2>4. e(c)[m].id < e(d)[n].id
      BY <2>2, <2>3, SMTT(30)
    <2> QED BY <2>1, <2>2, <2>4
  <1> HIDE DEF R
  <1>7. /\ a \in Seq(Item)
        /\ \A j \in 1..Len(a) : \E c \in 1..Len(f) : \E m \in 1..Len(f[c]) : a[j] = f[c][m]
        /\ \A c \in 1..Len(f) : \A m \in 1..Len(f[c]) : \E j \in 1..Len(a) : a[j] = f[c][m]
        /\ \A i, j \in 1..Len(a) : i < j => <<a[i], a[j]>> \in R
    <2> DEFINE b == Chained(f)
    <2>1. \A c \in 1..Len(f) : \A m, n \in 1..Len(f[c]) : m < n => <<f[c][m], f[c][n]>> \in R
      BY <1>5
    <2>2. \A c, d \in 1..Len(f) : c < d =>
            \A m \in 1..Len(f[c]), n \in 1..Len(f[d]) : <<f[c][m], f[d][n]>> \in R
      BY <1>6
    <2>3. f \in Seq(Seq(Item))
      BY <1>4
    <2>4. /\ b \in Seq(Item)
          /\ \A j \in 1..Len(b) : \E c \in 1..Len(f) : \E m \in 1..Len(f[c]) : b[j] = f[c][m]
          /\ \A c \in 1..Len(f) : \A m \in 1..Len(f[c]) : \E j \in 1..Len(b) : b[j] = f[c][m]
          /\ \A i, j \in 1..Len(b) : i < j => <<b[i], b[j]>> \in R
      BY <2>1, <2>2, <2>3, ChainIs
    <2> QED BY <1>3, <2>4
  <1>8. Ordered(a)
    <2> SUFFICES ASSUME NEW i \in 1..Len(a), NEW j \in 1..Len(a), i < j
                 PROVE  a[i].id < a[j].id
      BY DEF Ordered
    <2>1. <<a[i], a[j]>> \in R
      BY <1>7
    <2> QED BY <2>1 DEF R
  <1>9. ASSUME NEW x PROVE x \in Vals(a) <=> InKids(kids, x)
    <2>1. ASSUME x \in Vals(a) PROVE InKids(kids, x)
      <3>1. PICK j \in 1..Len(a) : x = a[j]
        BY <2>1 DEF Vals
      <3>2. PICK c \in 1..Len(f) : \E m \in 1..Len(f[c]) : a[j] = f[c][m]
        BY <1>7
      <3>3. c \in 1..N /\ f[c] = Vec(kids[c])
        BY <1>4 DEF e
      <3> QED BY <3>1, <3>2, <3>3 DEF InKids, Vals, N
    <2>2. ASSUME InKids(kids, x) PROVE x \in Vals(a)
      <3>1. PICK c \in 1..N : x \in Vals(Vec(kids[c]))
        BY <2>2 DEF InKids, N
      <3>2. c \in 1..Len(f) /\ f[c] = Vec(kids[c])
        BY <1>4 DEF e
      <3>3. PICK m \in 1..Len(f[c]) : x = f[c][m]
        BY <3>1, <3>2 DEF Vals
      <3>4. PICK j \in 1..Len(a) : a[j] = f[c][m]
        BY <1>7, <3>2
      <3> QED BY <3>3, <3>4 DEF Vals
    <2> QED BY <2>1, <2>2
  <1> QED BY <1>7, <1>8, <1>9 DEF a

\* What a child holds belongs to it.
LEMMA HeldBelongs ==
  ASSUME NEW kids, Kids(kids), NEW c \in 1..Len(kids), NEW x \in Vals(Vec(kids[c]))
  PROVE  Belongs(kids, c, x.id) /\ x \in Item /\ x.id \in Nat
  <1>1. KidOK(kids[c]) /\ kids[c].MinItem \in Nat /\ kids[c].MaxItem \in Nat
    BY KidsAre
  <1>2. x \in Item /\ x.id \in Nat /\ kids[c].MinItem <= x.id /\ x.id <= kids[c].MaxItem
    BY <1>1, KidIs
  <1>3. ASSUME NEW d \in 1..Len(kids), d < c PROVE kids[d].MaxItem < x.id
    <2>1. kids[d].MaxItem < kids[c].MinItem /\ kids[d].MaxItem \in Nat
      BY <1>3, KidsAre
    <2> QED BY <1>1, <1>2, <2>1
  <1> QED BY <1>2, <1>3 DEF Belongs

\* Two vectors that hold the same of an id.
LEMMA TotalSame ==
  ASSUME NEW v \in Seq(Item), Ordered(v), NEW w \in Seq(Item), Ordered(w), NEW i,
         \A x : x.id = i => (x \in Vals(v) <=> x \in Vals(w))
  PROVE  TotalOrNone(v, i) = TotalOrNone(w, i)
  <1>1. CASE i \in IdsIn(v)
    <2>1. PICK n \in 1..Len(v) : v[n].id = i
      BY <1>1, IdsAre
    <2> DEFINE x == v[n]
    <2>2. x \in Vals(v) /\ x.id = i
      BY <2>1 DEF Vals
    <2> HIDE DEF x
    <2>3. x \in Vals(w)
      BY <2>2
    <2> QED BY <2>2, <2>3, TotalOrdered
  <1>2. CASE i \notin IdsIn(v)
    <2>1. i \notin IdsIn(w)
      <3>1. SUFFICES ASSUME i \in IdsIn(w) PROVE FALSE
        OBVIOUS
      <3>2. PICK n \in 1..Len(w) : w[n].id = i
        BY <3>1, IdsAre
      <3> DEFINE x == w[n]
      <3>3. x \in Vals(w) /\ x.id = i
        BY <3>2 DEF Vals
      <3> HIDE DEF x
      <3>4. x \in Vals(v)
        BY <3>3
      <3> QED BY <1>2, <3>3, <3>4, TotalOrdered
    <2> QED BY <1>2, <2>1, TotalIs
  <1> QED BY <1>1, <1>2

LEMMA NoneHeld ==
  ASSUME NEW v \in Seq(Item), NEW i, \A x \in Vals(v) : x.id # i
  PROVE  TotalOrNone(v, i) = 0
  <1>1. i \notin IdsIn(v)
    BY IdsAre DEF Vals
  <1> QED BY <1>1, TotalIs

LEMMA KidTotal ==
  ASSUME NEW kids, Kids(kids), NEW i
  PROVE  /\ \A c \in 1..Len(kids) : Belongs(kids, c, i) =>
              TotalOrNone(AllOf(kids), i) = TotalOrNone(Vec(kids[c]), i)
         /\ (\A c \in 1..Len(kids) : ~Belongs(kids, c, i)) => TotalOrNone(AllOf(kids), i) = 0
  <1> DEFINE a == AllOf(kids)
  <1>1. a \in Seq(Item) /\ Ordered(a) /\ \A x : x \in Vals(a) <=> InKids(kids, x)
    BY AllOfIs
  <1> HIDE DEF a
  <1>2. ASSUME NEW c \in 1..Len(kids), Belongs(kids, c, i)
        PROVE  TotalOrNone(a, i) = TotalOrNone(Vec(kids[c]), i)
    <2> DEFINE w == Vec(kids[c])
    <2>1. w \in Seq(Item) /\ Ordered(w)
      BY KidsAre, KidIs
    <2>2. ASSUME NEW x, x.id = i PROVE x \in Vals(a) <=> x \in Vals(w)
      <3>1. ASSUME x \in Vals(a) PROVE x \in Vals(w)
        <4>1. PICK d \in 1..Len(kids) : x \in Vals(Vec(kids[d]))
          BY <1>1, <3>1 DEF InKids
        <4>2. Belongs(kids, d, i) /\ i \in Nat
          BY <2>2, <4>1, HeldBelongs
        <4>3. c = d
          BY <1>2, <4>2, BelongsIs
        <4> QED BY <4>1, <4>3
      <3>2. ASSUME x \in Vals(w) PROVE x \in Vals(a)
        BY <1>1, <3>2 DEF InKids
      <3> QED BY <3>1, <3>2
    <2> HIDE DEF w
    <2>3. TotalOrNone(a, i) = TotalOrNone(w, i)
      BY <1>1, <2>1, <2>2, TotalSame
    <2> QED BY <2>3 DEF w
  <1>3. ASSUME \A c \in 1..Len(kids) : ~Belongs(kids, c, i) PROVE TotalOrNone(a, i) = 0
    <2>1. ASSUME NEW x \in Vals(a) PROVE x.id # i
      <3>1. PICK d \in 1..Len(kids) : x \in Vals(Vec(kids[d]))
        BY <1>1 DEF InKids
      <3>2. Belongs(kids, d, x.id)
        BY <3>1, HeldBelongs
      <3> QED BY <1>3, <3>2
    <2> QED BY <1>1, <2>1, NoneHeld
  <1> QED BY <1>2, <1>3 DEF a

----
\* What is due to an id before and after Def().
AllFine(kids) == \A x : InKids(kids, x) => Fine(x)

\* An ordered vector of fine items has no negative total.
LEMMA FineTotal ==
  ASSUME NEW v \in Seq(Item), Ordered(v), \A x \in Vals(v) : Fine(x), NEW i
  PROVE  /\ TotalOrNone(v, i) \in Nat /\ Shown(TotalOrNone(v, i)) = TotalOrNone(v, i)
         /\ ~Summing => TotalOrNone(v, i) \in {0, 1}
  <1>1. TotalOrNone(v, i) \in Int /\ (~Summing => TotalOrNone(v, i) \in {0, 1})
    BY TotalIs
  <1>2. CASE i \in IdsIn(v)
    <2>1. PICK n \in 1..Len(v) : v[n].id = i
      BY <1>2, IdsAre
    <2> DEFINE x == v[n]
    <2>2. x \in Vals(v) /\ x.id = i
      BY <2>1 DEF Vals
    <2> HIDE DEF x
    <2>3. TotalOrNone(v, i) > 0
      BY <2>2, TotalOrdered DEF Fine
    <2> QED BY <1>1, <2>3 DEF Shown
  <1>3. CASE i \notin IdsIn(v)
    <2>1. TotalOrNone(v, i) = 0
      BY <1>3, TotalIs
    <2> QED BY <2>1 DEF Shown
  <1> QED BY <1>2, <1>3

LEMMA ProcessTotals ==
  ASSUME NEW s \in Rec, Kids(s.ChildInfoV), Markers(s), NEW i
  PROVE  LET r == ProcessDeletes(s)
         IN  Frequency(s, i) = Plus(TotalOrNone(AllOf(r.ChildInfoV), i), TotalOrNone(r.ItemV, i))
  <1> DEFINE kids == s.ChildInfoV
             r == ProcessDeletes(s)
             w == PickedFrom(s.ItemV, Survivors(s))
             k2 == r.ChildInfoV
  <1>1. /\ Kids(k2) /\ Len(k2) = Len(kids) /\ r.ItemV = w
        /\ \A c \in 1..Len(kids) :
             \A x : x \in Vals(Vec(k2[c])) <=> x \in Vals(Vec(kids[c])) /\ ~IsMarked(s, x.id)
    BY DeletesAre
  <1>2. w \in Seq(Item)
    <2>1. s.ItemV \in Seq(Item) /\ Survivors(s) \in SUBSET (1..Len(s.ItemV))
      BY DEF Rec, Survivors
    <2> QED BY <2>1, PickedVals
  <1> HIDE DEF r, k2
  <1>3. AllOf(kids) \in Seq(Item) /\ Ordered(AllOf(kids))
        /\ \A x : x \in Vals(AllOf(kids)) <=> InKids(kids, x)
    BY AllOfIs
  <1>4. AllOf(k2) \in Seq(Item) /\ Ordered(AllOf(k2))
        /\ \A x : x \in Vals(AllOf(k2)) <=> InKids(k2, x)
    BY <1>1, AllOfIs
  <1>5. \A x : InKids(k2, x) <=> InKids(kids, x) /\ ~IsMarked(s, x.id)
    BY <1>1 DEF InKids
  <1>6. s.ItemV \in Seq(Item) /\ DOMAIN s.ItemV = 1..Len(s.ItemV)
    BY DEF Rec
  <1>7. w = PickedFrom(s.ItemV, {n \in DOMAIN s.ItemV : Outlives(s, n)})
    BY <1>6 DEF Survivors
  <1> DEFINE a == AllOf(kids)
             b == AllOf(k2)
  <1>8. /\ a \in Seq(Item) /\ Ordered(a) /\ b \in Seq(Item) /\ Ordered(b)
        /\ \A x : x \in Vals(b) <=> x \in Vals(a) /\ ~IsMarked(s, x.id)
    BY <1>3, <1>4, <1>5
  <1>9. Frequency(s, i) = TotalOrNone((IF IsMarked(s, i) THEN <<>> ELSE a) \o w, i)
    BY <1>7 DEF Frequency
  <1> HIDE DEF a, b, w, kids
  <1>10. CASE IsMarked(s, i)
    <2>1. <<>> \in Seq(Item) /\ TotalOrNone(<<>>, i) = 0
      <3>1. <<>> \in Seq(Item) /\ Vals(<<>>) = {}
        BY DEF Vals
      <3> QED BY <3>1, NoneHeld
    <2>2. \A x \in Vals(b) : x.id # i
      BY <1>8, <1>10
    <2>3. TotalOrNone(b, i) = 0
      BY <1>8, <2>2, NoneHeld
    <2>4. Frequency(s, i) = TotalOrNone(<<>> \o w, i)
      BY <1>9, <1>10
    <2>5. TotalOrNone(<<>> \o w, i) = Plus(TotalOrNone(<<>>, i), TotalOrNone(w, i))
      BY <1>2, <2>1, TotalConcat
    <2> QED BY <1>1, <2>1, <2>3, <2>4, <2>5 DEF b, r, k2
  <1>11. CASE ~IsMarked(s, i)
    <2>1. \A x : x.id = i => (x \in Vals(a) <=> x \in Vals(b))
      BY <1>8, <1>11
    <2>2. TotalOrNone(a, i) = TotalOrNone(b, i)
      BY <1>8, <2>1, TotalSame
    <2>3. Frequency(s, i) = TotalOrNone(a \o w, i)
      BY <1>9, <1>11
    <2>4. TotalOrNone(a \o w, i) = Plus(TotalOrNone(a, i), TotalOrNone(w, i))
      BY <1>2, <1>8, TotalConcat
    <2> QED BY <1>1, <2>2, <2>3, <2>4 DEF b, r, k2
  <1> QED BY <1>10, <1>11

\* What a child holds after the injection belonged to it before.
LEMMA InjectedBelongs ==
  ASSUME NEW s \in Rec, Kids(s.ChildInfoV), Ordered(s.ItemV),
         NEW c \in 1..Len(s.ChildInfoV),
         NEW x \in Vals(Vec(InjectWorkBufferToChildren(s).ChildInfoV[c]))
  PROVE  Belongs(s.ChildInfoV, c, x.id)
  <1> DEFINE kids == s.ChildInfoV
             k2 == InjectWorkBufferToChildren(s).ChildInfoV
             v == Vec(kids[c])
             g == Given(s, c)
  <1>1. IF g = <<>> THEN k2[c] = kids[c] ELSE Vec(k2[c]) = Merge(v \o g, FALSE)
    BY InjectAre
  <1>2. CASE g = <<>>
    <2>1. x \in Vals(v)
      BY <1>1, <1>2
    <2> QED BY <2>1, HeldBelongs
  <1>3. CASE g # <<>>
    <2>1. v \in Seq(Item) /\ g \in Seq(Item)
          /\ \A n \in 1..Len(g) : \E m \in 1..Len(s.ItemV) :
               g[n] = s.ItemV[m] /\ Belongs(kids, c, s.ItemV[m].id)
      BY KidsAre, KidIs, GivenIs
    <2>2. x \in Vals(Merge(v \o g, FALSE))
      BY <1>1, <1>3
    <2> HIDE DEF g
    <2> DEFINE u == v \o g
    <2>3. u \in Seq(Item) /\ \A i \in IdsIn(u) : i \in IdsIn(v) \/ i \in IdsIn(g)
      BY <2>1, ConcatIds
    <2>4. x \in Vals(Merge(u, FALSE))
      BY <2>2
    <2> HIDE DEF u
    <2>5. x.id \in IdsIn(u)
      <3>1. x \in Sums(u, FALSE)
        BY <2>3, <2>4, MergeVals
      <3>2. PICK i \in Kept(u, FALSE) : x = [id |-> i, fq |-> Total(u, i)]
        BY <3>1 DEF Sums
      <3>3. x.id = i
        BY <3>2
      <3> QED BY <3>3 DEF Kept
    <2>6. CASE x.id \in IdsIn(v)
      <3>1. PICK n \in 1..Len(v) : v[n].id = x.id
        BY <2>1, <2>6, IdsAre
      <3>2. v[n] \in Vals(v)
        BY DEF Vals
      <3> QED BY <3>1, <3>2, HeldBelongs
    <2>7. CASE x.id \in IdsIn(g)
      <3>1. PICK n \in 1..Len(g) : g[n].id = x.id
        BY <2>1, <2>7, IdsAre
      <3> QED BY <2>1, <3>1
    <2> QED BY <2>3, <2>5, <2>6, <2>7
  <1> QED BY <1>2, <1>3

LEMMA InjectFine ==
  ASSUME NEW s \in Rec, Kids(s.ChildInfoV), Ordered(s.ItemV), AllFine(s.ChildInfoV)
  PROVE  AllFine(InjectWorkBufferToChildren(s).ChildInfoV)
  <1> DEFINE kids == s.ChildInfoV
             k2 == InjectWorkBufferToChildren(s).ChildInfoV
  <1> SUFFICES ASSUME NEW x, InKids(k2, x) PROVE Fine(x)
    BY DEF AllFine
  <1>1. Len(k2) = Len(kids)
    BY InjectAre
  <1>2. PICK c \in 1..Len(kids) : x \in Vals(Vec(k2[c]))
    BY <1>1 DEF InKids
  <1> DEFINE v == Vec(kids[c])
             g == Given(s, c)
  <1>3. IF g = <<>> THEN k2[c] = kids[c] ELSE Vec(k2[c]) = Merge(v \o g, FALSE)
    BY InjectAre
  <1>4. CASE g = <<>>
    <2>1. InKids(kids, x)
      BY <1>2, <1>3, <1>4 DEF InKids
    <2> QED BY <2>1 DEF AllFine
  <1>5. CASE g # <<>>
    <2>1. v \in Seq(Item) /\ g \in Seq(Item)
      BY KidsAre, KidIs, GivenIs
    <2> HIDE DEF k2
    <2>2. x \in Vals(Merge(v \o g, FALSE))
      BY <1>2, <1>3, <1>5
    <2> HIDE DEF g, v
    <2>3. v \o g \in Seq(Item)
      BY <2>1, ConcatIds
    <2> QED BY <2>2, <2>3, MergeFine
  <1> QED BY <1>4, <1>5

\* The injection: an id goes to the child it belongs to, or stays.
Placed(r, a, b, i) ==
  \/ TotalOrNone(AllOf(r.ChildInfoV), i) = Shown(Plus(a, b)) /\ TotalOrNone(r.ItemV, i) = 0
  \/ /\ TotalOrNone(AllOf(r.ChildInfoV), i) = 0 /\ a = 0 /\ TotalOrNone(r.ItemV, i) = b

LEMMA InjectTotals ==
  ASSUME NEW s \in Rec, Kids(s.ChildInfoV), Ordered(s.ItemV), AllFine(s.ChildInfoV), NEW i
  PROVE  Placed(InjectWorkBufferToChildren(s), TotalOrNone(AllOf(s.ChildInfoV), i),
                TotalOrNone(s.ItemV, i), i)
  <1> DEFINE kids == s.ChildInfoV
             r == InjectWorkBufferToChildren(s)
             k2 == r.ChildInfoV
             a == TotalOrNone(AllOf(kids), i)
             b == TotalOrNone(s.ItemV, i)
  <1>1. /\ Kids(k2) /\ Len(k2) = Len(kids) /\ r.ItemV = PickedFrom(s.ItemV, LeftOver(s))
        /\ Ordered(r.ItemV) /\ r \in Rec
        /\ \A c \in 1..Len(kids) :
             IF Given(s, c) = <<>> THEN k2[c] = kids[c]
             ELSE Vec(k2[c]) = Merge(Vec(kids[c]) \o Given(s, c), FALSE)
    BY InjectAre
  <1>2. ASSUME NEW c \in 1..Len(kids), NEW x \in Vals(Vec(k2[c])) PROVE Belongs(kids, c, x.id)
    BY <1>2, InjectedBelongs
  <1>3. /\ \A n \in 1..Len(r.ItemV) : \E m \in 1..Len(s.ItemV) :
             /\ r.ItemV[n] = s.ItemV[m]
             /\ \A c \in 1..Len(kids) : ~Belongs(kids, c, s.ItemV[m].id)
        /\ \A m \in 1..Len(s.ItemV) :
             (\A c \in 1..Len(kids) : ~Belongs(kids, c, s.ItemV[m].id)) =>
             \E n \in 1..Len(r.ItemV) : r.ItemV[n] = s.ItemV[m]
    <2> DEFINE w == PickedFrom(s.ItemV, LeftOver(s))
    <2>1. /\ \A n \in 1..Len(w) : \E m \in 1..Len(s.ItemV) :
               /\ w[n] = s.ItemV[m]
               /\ \A c \in 1..Len(kids) : ~Belongs(kids, c, s.ItemV[m].id)
          /\ \A m \in 1..Len(s.ItemV) :
               (\A c \in 1..Len(kids) : ~Belongs(kids, c, s.ItemV[m].id)) =>
               \E n \in 1..Len(w) : w[n] = s.ItemV[m]
      BY LeftOverIs
    <2>2. r.ItemV = w
      BY <1>1
    <2> HIDE DEF w, r
    <2> QED BY <2>1, <2>2
  <1>4. s.ItemV \in Seq(Item) /\ r.ItemV \in Seq(Item)
    BY <1>1 DEF Rec
  <1> HIDE DEF r
  <1>5. /\ AllOf(k2) \in Seq(Item) /\ Ordered(AllOf(k2))
        /\ \A x : x \in Vals(AllOf(k2)) <=> InKids(k2, x)
    BY <1>1, AllOfIs
  <1>6. CASE \E c \in 1..Len(kids) : Belongs(kids, c, i)
    <2>1. PICK c \in 1..Len(kids) : Belongs(kids, c, i)
      BY <1>6
    <2> DEFINE v == Vec(kids[c])
               w == Vec(k2[c])
               g == Given(s, c)
    <2>2. v \in Seq(Item) /\ Ordered(v) /\ w \in Seq(Item) /\ Ordered(w)
      <3>1. KidOK(kids[c]) /\ KidOK(k2[c])
        BY <1>1, KidsAre
      <3> QED BY <3>1, KidIs
    <2>3. /\ g \in Seq(Item) /\ Ordered(g)
          /\ \A n \in 1..Len(g) : \E m \in 1..Len(s.ItemV) :
               g[n] = s.ItemV[m] /\ Belongs(kids, c, s.ItemV[m].id)
          /\ \A m \in 1..Len(s.ItemV) : Belongs(kids, c, s.ItemV[m].id) =>
               \E n \in 1..Len(g) : g[n] = s.ItemV[m]
      BY GivenIs
    <2>4. a = TotalOrNone(v, i)
      BY <2>1, KidTotal
    <2> HIDE DEF kids, k2
    <2>5. TotalOrNone(g, i) = b
      <3> HIDE DEF g
      <3>1. \A x : x.id = i => (x \in Vals(g) <=> x \in Vals(s.ItemV))
        <4> SUFFICES ASSUME NEW x, x.id = i PROVE x \in Vals(g) <=> x \in Vals(s.ItemV)
          OBVIOUS
        <4>1. ASSUME x \in Vals(g) PROVE x \in Vals(s.ItemV)
          <5>1. PICK n \in 1..Len(g) : x = g[n]
            BY <4>1 DEF Vals
          <5> QED BY <2>3, <5>1 DEF Vals
        <4>2. ASSUME x \in Vals(s.ItemV) PROVE x \in Vals(g)
          <5>1. PICK m \in 1..Len(s.ItemV) : x = s.ItemV[m]
            BY <4>2 DEF Vals
          <5>2. Belongs(kids, c, s.ItemV[m].id)
            BY <2>1, <5>1
          <5>3. PICK n \in 1..Len(g) : g[n] = s.ItemV[m]
            BY <2>3, <5>2
          <5> QED BY <5>1, <5>3 DEF Vals
        <4> QED BY <4>1, <4>2
      <3> QED BY <1>4, <2>3, <3>1, TotalSame
    <2>6. TotalOrNone(w, i) = Shown(Plus(a, b))
      <3>1. CASE g = <<>>
        <4>1. w = v
          BY <1>1, <3>1
        <4>2. \A x \in Vals(v) : Fine(x)
          BY DEF AllFine, InKids, kids
        <4>3. b = 0
          <5>1. \A x \in Vals(g) : x.id # i
            BY <3>1 DEF Vals
          <5> HIDE DEF g
          <5>2. TotalOrNone(g, i) = 0
            BY <2>3, <5>1, NoneHeld
          <5> QED BY <2>5, <5>2
        <4> HIDE DEF v
        <4>4. /\ TotalOrNone(v, i) \in Nat /\ Shown(TotalOrNone(v, i)) = TotalOrNone(v, i)
              /\ ~Summing => TotalOrNone(v, i) \in {0, 1}
          BY <2>2, <4>2, FineTotal
        <4> HIDE DEF a, b, w
        <4>5. Plus(a, b) = a
          BY <2>4, <4>3, <4>4 DEF Plus
        <4> QED BY <2>4, <4>1, <4>4, <4>5
      <3>2. CASE g # <<>>
        <4>1. w = Merge(v \o g, FALSE)
          BY <1>1, <3>2
        <4> HIDE DEF v, g
        <4>2. TotalOrNone(v \o g, i) = Plus(TotalOrNone(v, i), TotalOrNone(g, i))
          BY <2>2, <2>3, TotalConcat
        <4>3. v \o g \in Seq(Item)
          BY <2>2, <2>3, ConcatIds
        <4> DEFINE u == v \o g
        <4>4. u \in Seq(Item)
          BY <4>3
        <4> HIDE DEF u
        <4>5. TotalOrNone(Merge(u, FALSE), i) = Shown(TotalOrNone(u, i))
          BY <4>4, MergeTotal
        <4> QED BY <2>4, <2>5, <4>1, <4>2, <4>5 DEF u
      <3> QED BY <3>1, <3>2
    <2>7. TotalOrNone(AllOf(k2), i) = TotalOrNone(w, i)
      <3>1. ASSUME NEW x, x.id = i PROVE x \in Vals(AllOf(k2)) <=> x \in Vals(w)
        <4>1. ASSUME x \in Vals(AllOf(k2)) PROVE x \in Vals(w)
          <5>1. PICK d \in 1..Len(kids) : x \in Vals(Vec(k2[d]))
            BY <1>1, <1>5, <4>1 DEF InKids
          <5>2. Belongs(kids, d, i)
            BY <1>2, <3>1, <5>1
          <5>3. i \in Nat
            <6>1. KidOK(k2[d])
              BY <1>1, <5>1, KidsAre
            <6> QED BY <3>1, <5>1, <6>1, KidIs
          <5>4. c = d
            BY <2>1, <5>2, <5>3, BelongsIs DEF kids
          <5> QED BY <5>1, <5>4
        <4>2. ASSUME x \in Vals(w) PROVE x \in Vals(AllOf(k2))
          BY <1>1, <1>5, <4>2 DEF InKids
        <4> QED BY <4>1, <4>2
      <3> DEFINE u == AllOf(k2)
      <3>2. u \in Seq(Item) /\ Ordered(u)
        BY <1>5
      <3> HIDE DEF w, u
      <3> QED BY <2>2, <3>1, <3>2, TotalSame DEF u
    <2>8. TotalOrNone(r.ItemV, i) = 0
      <3>1. \A x \in Vals(r.ItemV) : x.id # i
        BY <1>3, <2>1 DEF Vals
      <3> QED BY <1>4, <3>1, NoneHeld
    <2> QED BY <2>6, <2>7, <2>8 DEF Placed, r, k2, kids
  <1>7. CASE ~\E c \in 1..Len(kids) : Belongs(kids, c, i)
    <2>1. a = 0
      BY <1>7, KidTotal
    <2>2. TotalOrNone(AllOf(k2), i) = 0
      <3>1. ASSUME NEW x \in Vals(AllOf(k2)) PROVE x.id # i
        <4>1. PICK d \in 1..Len(kids) : x \in Vals(Vec(k2[d]))
          BY <1>1, <1>5, <3>1 DEF InKids
        <4>2. Belongs(kids, d, x.id)
          BY <1>2, <4>1
        <4> QED BY <1>7, <4>2
      <3> DEFINE u == AllOf(k2)
      <3>2. u \in Seq(Item) /\ \A x \in Vals(u) : x.id # i
        BY <1>5, <3>1
      <3> HIDE DEF u
      <3> QED BY <3>2, NoneHeld DEF u
    <2>3. TotalOrNone(r.ItemV, i) = b
      <3> HIDE DEF kids
      <3>1. \A x : x.id = i => (x \in Vals(r.ItemV) <=> x \in Vals(s.ItemV))
        BY <1>3, <1>7 DEF Vals
      <3> HIDE DEF k2
      <3>2. Ordered(r.ItemV)
        BY <1>1
      <3> DEFINE u == r.ItemV
      <3>3. u \in Seq(Item) /\ Ordered(u) /\ \A x : x.id = i => (x \in Vals(u) <=> x \in Vals(s.ItemV))
        BY <1>4, <3>1, <3>2
      <3> HIDE DEF u
      <3>4. TotalOrNone(u, i) = TotalOrNone(s.ItemV, i)
        BY <1>4, <3>3, TotalSame
      <3> QED BY <3>4 DEF u
    <2> QED BY <2>1, <2>2, <2>3 DEF Placed, r, k2, kids
  <1> QED BY <1>6, <1>7

----
\* No item is there whose frequency is not positive, wherever one may be
\* read without a merge.
Worth(s) ==
  /\ AllFine(s.ChildInfoV)
  /\ s.MergedP => \A x \in Vals(s.ItemV) : Fine(x)
  /\ ~s.DeleteMarkerP => \A n \in 1..Len(s.ItemV) : n \notin s.ItemVDel => s.ItemV[n].fq > 0
Owed(s, x) == x \in Item /\ x.fq = Frequency(s, x.id) /\ x.fq > 0

\* What the survivors of the deletes come to once they are merged.
LEMMA SurvivorsAre ==
  ASSUME NEW s \in Rec, Markers(s), Worth(s)
  PROVE  LET w == PickedFrom(s.ItemV, Survivors(s))
         IN  w \in Seq(Item) /\ (~s.DeleteMarkerP => \A n \in 1..Len(w) : w[n].fq > 0)
  <1> DEFINE w == PickedFrom(s.ItemV, Survivors(s))
  <1>1. s.ItemV \in Seq(Item) /\ Survivors(s) \in SUBSET (1..Len(s.ItemV)) /\ Len(s.ItemV) \in Nat
    BY DEF Rec, Survivors
  <1>2. w \in Seq(Item) /\ \A n \in 1..Len(w) : \E m \in Survivors(s) : w[n] = s.ItemV[m]
    BY <1>1, PickedVals
  <1>3. ASSUME NEW m \in Survivors(s) PROVE m \notin s.ItemVDel /\ m \in 1..Len(s.ItemV)
    BY <1>1 DEF Survivors, Outlives
  <1>4. ASSUME ~s.DeleteMarkerP, NEW n \in 1..Len(w) PROVE w[n].fq > 0
    <2>1. PICK m \in Survivors(s) : w[n] = s.ItemV[m]
      BY <1>2
    <2> QED BY <1>3, <1>4, <2>1 DEF Worth
  <1> QED BY <1>2, <1>4

\* All that is left after the first half is due, and what is due is there.
LEMMA MovedHolds ==
  ASSUME NEW s, Base(s), Worth(s), NEW x
  PROVE  Has(Moved(s), x) <=> Owed(s, x)
  <1> DEFINE w == PickedFrom(s.ItemV, Survivors(s))
             p == ProcessDeletes(s)
             m == MergeBuffer(p)
             j == InjectWorkBufferToChildren(m)
             t == ScrubTail(j)
             i == x.id
  <1>1. t = Moved(s) /\ s \in Rec /\ Kids(s.ChildInfoV) /\ Markers(s)
    BY DEF Moved, Base
  <1>2. w \in Seq(Item) /\ (~s.DeleteMarkerP => \A n \in 1..Len(w) : w[n].fq > 0)
    BY <1>1, SurvivorsAre
  <1> HIDE DEF w
  <1>3. /\ p \in Rec /\ Kids(p.ChildInfoV) /\ p.DeleteMarkerP = s.DeleteMarkerP /\ p.ItemV = w
        /\ Len(p.ChildInfoV) = Len(s.ChildInfoV)
        /\ \A c \in 1..Len(s.ChildInfoV) :
             \A y : y \in Vals(Vec(p.ChildInfoV[c])) => y \in Vals(Vec(s.ChildInfoV[c]))
    BY <1>1, DeletesAre DEF w
  <1>4. Frequency(s, i) = Plus(TotalOrNone(AllOf(p.ChildInfoV), i), TotalOrNone(p.ItemV, i))
    BY <1>1, ProcessTotals
  <1> HIDE DEF p
  <1>5. AllFine(p.ChildInfoV)
    <2>1. \A y : InKids(p.ChildInfoV, y) => InKids(s.ChildInfoV, y)
      BY <1>3 DEF InKids
    <2> QED BY <2>1 DEF Worth, AllFine
  <1>6. /\ m \in Rec /\ m.ItemV = Merge(w, TRUE) /\ m.ChildInfoV = p.ChildInfoV
        /\ m.DeleteMarkerP = s.DeleteMarkerP
    BY <1>3, MergeBufferIs DEF Steady
  <1> HIDE DEF m
  <1>7. Ordered(m.ItemV) /\ Kids(m.ChildInfoV) /\ AllFine(m.ChildInfoV)
    BY <1>2, <1>3, <1>5, <1>6, MergeIs
  <1> DEFINE a == TotalOrNone(AllOf(p.ChildInfoV), i)
             b == TotalOrNone(w, i)
  <1>8. TotalOrNone(m.ItemV, i) = b
    BY <1>2, <1>6, MergeTotal
  <1>9. Placed(j, a, b, i)
    <2>1. Placed(j, TotalOrNone(AllOf(m.ChildInfoV), i), TotalOrNone(m.ItemV, i), i)
      BY <1>6, <1>7, InjectTotals
    <2> QED BY <1>6, <1>8, <2>1
  <1>10. /\ j \in Rec /\ Kids(j.ChildInfoV) /\ j.DeleteMarkerP = s.DeleteMarkerP
         /\ j.ItemV = PickedFrom(m.ItemV, LeftOver(m)) /\ Ordered(j.ItemV)
    BY <1>6, <1>7, InjectAre
  <1>11. AllFine(j.ChildInfoV)
    BY <1>6, <1>7, InjectFine
  <1>12. \A y \in Vals(j.ItemV) : y \in Vals(m.ItemV)
    <2>1. m.ItemV \in Seq(Item) /\ LeftOver(m) \in SUBSET (1..Len(m.ItemV))
      BY <1>6 DEF Rec, LeftOver
    <2> DEFINE u == PickedFrom(m.ItemV, LeftOver(m))
    <2>2. Vals(u) = {m.ItemV[n] : n \in LeftOver(m)}
      <3> DEFINE v == m.ItemV
                 L == LeftOver(m)
      <3>1. v \in Seq(Item) /\ L \in SUBSET (1..Len(v))
        BY <2>1
      <3> HIDE DEF v, L
      <3>2. Vals(PickedFrom(v, L)) = {v[n] : n \in L}
        BY <3>1, PickedVals, SMTT(30)
      <3> QED BY <3>2 DEF u, v, L
    <2> QED BY <1>10, <2>1, <2>2, ZenonT(40) DEF Vals
  <1> HIDE DEF j
  <1>13. /\ t \in Rec /\ t.ChildInfoV = j.ChildInfoV
         /\ t.ItemV = IF s.DeleteMarkerP THEN Merge(j.ItemV, FALSE) ELSE j.ItemV
    BY <1>10, ScrubTailIs
  <1> HIDE DEF t
  <1>14. j.ItemV \in Seq(Item) /\ s.DeleteMarkerP \in BOOLEAN
    BY <1>1, <1>10 DEF Rec
  <1> DEFINE q == t.ItemV
             g == AllOf(j.ChildInfoV)
             f == Frequency(s, i)
  <1>15. q \in Seq(Item) /\ Ordered(q) /\ \A y \in Vals(q) : Fine(y)
    <2>1. CASE s.DeleteMarkerP
      <3>1. q = Merge(j.ItemV, FALSE)
        BY <1>13, <2>1
      <3> HIDE DEF q
      <3>2. Merge(j.ItemV, FALSE) \in Seq(Item) /\ Ordered(Merge(j.ItemV, FALSE))
        BY <1>14, MergeIs
      <3>3. \A y \in Vals(Merge(j.ItemV, FALSE)) : Fine(y)
        BY <1>14, MergeFine
      <3> QED BY <3>1, <3>2, <3>3
    <2>2. CASE ~s.DeleteMarkerP
      <3>1. \A y \in Vals(Merge(w, TRUE)) : Fine(y)
        BY <1>2, <2>2, MergeFine
      <3>2. q = j.ItemV
        BY <1>13, <2>2
      <3> HIDE DEF q
      <3> QED BY <1>6, <1>10, <1>12, <1>14, <3>1, <3>2
    <2> QED BY <2>1, <2>2
  <1>16. TotalOrNone(q, i) = Shown(TotalOrNone(j.ItemV, i))
    <2>1. CASE s.DeleteMarkerP
      <3>1. q = Merge(j.ItemV, FALSE)
        BY <1>13, <2>1
      <3> QED BY <1>14, <3>1, MergeTotal
    <2>2. CASE ~s.DeleteMarkerP
      <3>1. q = j.ItemV
        BY <1>13, <2>2
      <3> HIDE DEF q
      <3>2. Shown(TotalOrNone(q, i)) = TotalOrNone(q, i)
        BY <1>15, FineTotal
      <3> QED BY <3>1, <3>2
    <2> QED BY <2>1, <2>2
  <1>17. /\ g \in Seq(Item) /\ Ordered(g) /\ \A y : y \in Vals(g) <=> InKids(j.ChildInfoV, y)
         /\ \A y \in Vals(g) : Fine(y)
    BY <1>10, <1>11, AllOfIs DEF AllFine
  <1>18. Has(t, x) <=> x \in Vals(g) \/ x \in Vals(q)
    BY <1>13, <1>17 DEF Has
  <1> HIDE DEF g, q
  <1>19. /\ x \in Vals(g) <=> x \in Item /\ x.fq = TotalOrNone(g, i) /\ x.fq > 0
         /\ x \in Vals(q) <=> x \in Item /\ x.fq = TotalOrNone(q, i) /\ x.fq > 0
    BY <1>15, <1>17, FineVals
  <1>20. f = Plus(a, b) /\ b \in Int
    BY <1>2, <1>3, <1>4, TotalIs
  <1>21. \/ TotalOrNone(g, i) = Shown(f) /\ TotalOrNone(q, i) = 0
         \/ TotalOrNone(g, i) = 0 /\ TotalOrNone(q, i) = Shown(f)
    <2>1. Shown(0) = 0
      BY DEF Shown
    <2>2. ASSUME a = 0 PROVE Plus(a, b) = b
      <3>1. ~Summing => b \in {0, 1}
        BY <1>2, TotalIs
      <3> HIDE DEF a, b
      <3> QED BY <1>20, <2>2, <3>1 DEF Plus
    <2> HIDE DEF a, b, f
    <2> QED BY <1>9, <1>16, <1>20, <2>1, <2>2 DEF Placed, g
  <1>22. f \in Int
    <2>1. TotalOrNone(AllOf(p.ChildInfoV), i) \in Int
      <3>1. AllOf(p.ChildInfoV) \in Seq(Item)
        BY <1>3, AllOfIs
      <3> QED BY <3>1, TotalIs
    <2> HIDE DEF b
    <2> QED BY <1>20, <2>1 DEF Plus
  <1> HIDE DEF f, i
  <1>23. (x \in Vals(g) \/ x \in Vals(q)) <=> x \in Item /\ x.fq = f /\ x.fq > 0
    BY <1>19, <1>21, <1>22 DEF Shown
  <1> QED BY <1>1, <1>18, <1>23 DEF Owed, f, i

\* Without deletes that are pending, the frequency is what children and buffer come to.
LEMMA PlainFrequency ==
  ASSUME NEW s \in Rec, Kids(s.ChildInfoV), s.ItemVDel = {}, NEW i
  PROVE  Frequency(s, i) = Plus(TotalOrNone(AllOf(s.ChildInfoV), i), TotalOrNone(s.ItemV, i))
  <1> DEFINE v == s.ItemV
             g == AllOf(s.ChildInfoV)
  <1>1. v \in Seq(Item)
    BY DEF Rec
  <1>2. g \in Seq(Item)
    BY AllOfIs
  <1>3. Frequency(s, i) = TotalOrNone(g \o v, i)
    <2>1. ~IsMarked(s, i)
      BY DEF IsMarked
    <2>2. DOMAIN v = 1..Len(v)
      BY <1>1
    <2>3. {n \in DOMAIN s.ItemV : Outlives(s, n)} = 1..Len(v)
      BY <2>2 DEF Outlives
    <2>4. PickedFrom(v, 1..Len(v)) = v
      <3>1. 1..Len(v) \in SUBSET (1..Len(v))
        OBVIOUS
      <3> HIDE DEF v
      <3> QED BY <1>1, <3>1, PickedShort
    <2> QED BY <2>1, <2>3, <2>4 DEF Frequency
  <1> HIDE DEF v, g
  <1>4. TotalOrNone(g \o v, i) = Plus(TotalOrNone(g, i), TotalOrNone(v, i))
    BY <1>1, <1>2, TotalConcat
  <1> QED BY <1>3, <1>4 DEF v, g

\* A merged item set holds what is due.
LEMMA MergedHolds ==
  ASSUME NEW s, Fit(s), Worth(s), s.MergedP, NEW x
  PROVE  (Has(s, x) <=> Owed(s, x)) /\ Frequency(s, x.id) \in Nat
  <1> DEFINE v == s.ItemV
             g == AllOf(s.ChildInfoV)
             i == x.id
  <1>1. /\ s \in Rec /\ Kids(s.ChildInfoV) /\ Ordered(v) /\ Beyond(s.ChildInfoV, v)
        /\ v \in Seq(Item) /\ s.ItemVDel = {}
    BY FitIs DEF Fit, Sound
  <1>2. /\ g \in Seq(Item) /\ Ordered(g) /\ \A y : y \in Vals(g) <=> InKids(s.ChildInfoV, y)
        /\ (\A y \in Vals(g) : Fine(y)) /\ \A y \in Vals(v) : Fine(y)
    BY <1>1, AllOfIs DEF Worth, AllFine
  <1>4. Frequency(s, i) = Plus(TotalOrNone(g, i), TotalOrNone(v, i))
    BY <1>1, PlainFrequency
  <1> HIDE DEF v, g
  <1>5. /\ x \in Vals(g) <=> x \in Item /\ x.fq = TotalOrNone(g, i) /\ x.fq > 0
        /\ x \in Vals(v) <=> x \in Item /\ x.fq = TotalOrNone(v, i) /\ x.fq > 0
    BY <1>1, <1>2, FineVals
  <1>6. TotalOrNone(g, i) = 0 \/ TotalOrNone(v, i) = 0
    <2>1. SUFFICES ASSUME TotalOrNone(g, i) # 0, TotalOrNone(v, i) # 0 PROVE FALSE
      OBVIOUS
    <2>2. i \in IdsIn(g) /\ i \in IdsIn(v)
      BY <1>1, <1>2, <2>1, TotalIs
    <2>3. PICK n \in 1..Len(g) : g[n].id = i
      BY <1>2, <2>2, IdsAre
    <2>4. PICK k \in 1..Len(v) : v[k].id = i
      BY <1>1, <2>2, IdsAre
    <2>5. PICK c \in 1..Len(s.ChildInfoV) : g[n] \in Vals(Vec(s.ChildInfoV[c]))
      BY <1>2 DEF Vals, InKids
    <2>6. Belongs(s.ChildInfoV, c, i) /\ i \in Nat
      BY <1>1, <2>3, <2>5, HeldBelongs
    <2>7. s.ChildInfoV[c].MaxItem < i /\ s.ChildInfoV[c].MaxItem \in Nat
      BY <1>1, <2>4, KidsAre DEF Beyond
    <2> QED BY <2>6, <2>7 DEF Belongs
  <1>7. /\ TotalOrNone(g, i) \in Nat /\ TotalOrNone(v, i) \in Nat
        /\ ~Summing => TotalOrNone(g, i) \in {0, 1} /\ TotalOrNone(v, i) \in {0, 1}
    BY <1>1, <1>2, FineTotal
  <1>8. Has(s, x) <=> x \in Vals(g) \/ x \in Vals(v)
    BY <1>2 DEF Has, v
  <1> DEFINE a == TotalOrNone(g, i)
             b == TotalOrNone(v, i)
             f == Frequency(s, i)
  <1>9. f = IF a = 0 THEN b ELSE a
    <2>1. f = Plus(a, b) /\ (a = 0 \/ b = 0) /\ a \in Nat /\ b \in Nat
          /\ (~Summing => a \in {0, 1} /\ b \in {0, 1})
      BY <1>4, <1>6, <1>7
    <2> HIDE DEF f, a, b
    <2> QED BY <2>1 DEF Plus
  <1>10. (x \in Vals(g) \/ x \in Vals(v)) <=> x \in Item /\ x.fq = f /\ x.fq > 0
    <2>1. /\ x \in Vals(g) <=> x \in Item /\ x.fq = a /\ x.fq > 0
          /\ x \in Vals(v) <=> x \in Item /\ x.fq = b /\ x.fq > 0
          /\ a \in Nat /\ b \in Nat /\ (a = 0 \/ b = 0)
      BY <1>5, <1>6, <1>7
    <2> HIDE DEF f, a, b
    <2> QED BY <1>9, <2>1
  <1>11. f \in Nat
    BY <1>7, <1>9
  <1> QED BY <1>8, <1>10, <1>11 DEF Owed

\* So Def() leaves what is due, fine.
LEMMA DefHolds ==
  ASSUME NEW s, Fit(s), Worth(s), SplitLenMin # 0, NEW x
  PROVE  Has(Def(s), x) <=> Owed(s, x)
  <1>1. s.MergedP \in BOOLEAN /\ Base(s)
    BY FitIs DEF Rec, Fit
  <1>2. CASE s.MergedP
    <2>1. Def(s) = s
      BY <1>2, DefFits
    <2> QED BY <1>2, <2>1, MergedHolds
  <1>3. CASE ~s.MergedP
    <2>1. Has(Def(s), x) <=> Has(Moved(s), x)
      BY <1>1, <1>3, DefIs
    <2> QED BY <1>1, <2>1, MovedHolds
  <1> QED BY <1>2, <1>3

LEMMA OwedFine ==
  ASSUME NEW s, NEW x, Owed(s, x)
  PROVE  Fine(x)
  <1>1. ~Summing => Frequency(s, x.id) = 0 \/ Frequency(s, x.id) = 1
    BY DEF Frequency, TotalOrNone, Total
  <1> QED BY <1>1 DEF Owed, Fine

----
\* A read yields what is due, in order.
LEMMA FrequencyInt ==
  ASSUME NEW s, Fit(s), NEW i
  PROVE  Frequency(s, i) \in Int
  <1> DEFINE r == ProcessDeletes(s)
  <1>1. s \in Rec /\ Kids(s.ChildInfoV) /\ Markers(s)
    BY FitIs
  <1>2. Frequency(s, i) = Plus(TotalOrNone(AllOf(r.ChildInfoV), i), TotalOrNone(r.ItemV, i))
    BY <1>1, ProcessTotals
  <1>3. r \in Rec /\ Kids(r.ChildInfoV)
    BY <1>1, DeletesAre
  <1> HIDE DEF r
  <1>4. AllOf(r.ChildInfoV) \in Seq(Item) /\ r.ItemV \in Seq(Item)
    BY <1>3, AllOfIs DEF Rec
  <1>5. TotalOrNone(AllOf(r.ChildInfoV), i) \in Int /\ TotalOrNone(r.ItemV, i) \in Int
    BY <1>4, TotalIs
  <1> QED BY <1>2, <1>5 DEF Plus

LEMMA ItemsAre ==
  ASSUME NEW s, Sound(s)
  PROVE  /\ Items(s) \in Seq(Item) /\ Ordered(Items(s))
         /\ \A x : x \in Vals(Items(s)) <=> Has(s, x)
  <1> DEFINE g == AllOf(s.ChildInfoV)
             v == s.ItemV
             u == Items(s)
  <1>1. /\ Kids(s.ChildInfoV) /\ v \in Seq(Item) /\ Ordered(v) /\ Beyond(s.ChildInfoV, v)
    BY DEF Sound, Rec
  <1>2. g \in Seq(Item) /\ Ordered(g) /\ \A x : x \in Vals(g) <=> InKids(s.ChildInfoV, x)
    BY <1>1, AllOfIs
  <1>3. u = g \o v
    BY DEF Items
  <1>4. \A x : Has(s, x) <=> x \in Vals(g) \/ x \in Vals(v)
    BY <1>2 DEF Has
  <1>5. ASSUME NEW m \in 1..Len(g), NEW n \in 1..Len(v) PROVE g[m].id < v[n].id
    <2>1. g[m] \in Vals(g)
      BY DEF Vals
    <2>2. PICK c \in 1..Len(s.ChildInfoV) : g[m] \in Vals(Vec(s.ChildInfoV[c]))
      BY <1>2, <2>1 DEF InKids
    <2>3. g[m].id <= s.ChildInfoV[c].MaxItem /\ g[m].id \in Nat
      BY <1>1, <2>2, HeldBelongs DEF Belongs
    <2>4. s.ChildInfoV[c].MaxItem < v[n].id /\ s.ChildInfoV[c].MaxItem \in Nat /\ v[n].id \in Nat
      BY <1>1, KidsAre, IdsAre DEF Beyond
    <2> QED BY <2>3, <2>4
  <1> HIDE DEF g, v
  <1> DEFINE w == g \o v
  <1>6. /\ w \in Seq(Item)
        /\ \A n \in 1..Len(w) : (\E m \in 1..Len(g) : n = m /\ w[n] = g[m]) \/
                                \E m \in 1..Len(v) : n = Len(g) + m /\ w[n] = v[m]
        /\ \A x : x \in Vals(w) <=> x \in Vals(g) \/ x \in Vals(v)
    BY <1>1, <1>2, ConcatVals
  <1>7. Len(g) \in Nat
    BY <1>2
  <1> HIDE DEF w
  <1>8. Ordered(w)
    <2> SUFFICES ASSUME NEW i \in 1..Len(w), NEW j \in 1..Len(w), i < j PROVE w[i].id < w[j].id
      BY DEF Ordered
    <2>1. CASE \E m \in 1..Len(g) : j = m /\ w[j] = g[m]
      <3>1. j \in 1..Len(g) /\ w[j] = g[j]
        BY <2>1
      <3>2. i \in 1..Len(g)
        BY <1>7, <3>1
      <3>3. w[i] = g[i]
        BY <1>6, <1>7, <3>2
      <3> QED BY <1>2, <3>1, <3>2, <3>3 DEF Ordered
    <2>2. CASE \E m \in 1..Len(v) : j = Len(g) + m /\ w[j] = v[m]
      <3>1. PICK m \in 1..Len(v) : j = Len(g) + m /\ w[j] = v[m]
        BY <2>2
      <3>2. CASE i \in 1..Len(g)
        <4>1. w[i] = g[i]
          BY <1>6, <1>7, <3>2
        <4> QED BY <1>5, <3>1, <3>2, <4>1
      <3>3. CASE i \notin 1..Len(g)
        <4>1. PICK k \in 1..Len(v) : i = Len(g) + k /\ w[i] = v[k]
          BY <1>6, <3>3
        <4>2. k < m
          BY <1>7, <3>1, <4>1
        <4> QED BY <1>1, <3>1, <4>1, <4>2 DEF Ordered
      <3> QED BY <3>2, <3>3
    <2> QED BY <1>6, <2>1, <2>2
  <1> HIDE DEF u
  <1>9. u = w
    BY <1>3 DEF w
  <1> QED BY <1>4, <1>6, <1>8, <1>9 DEF u

LEMMA ReadsDue ==
  ASSUME NEW s, Fit(s), Worth(s), SplitLenMin # 0
  PROVE  Items(Def(s)) = Due(s, Ascending({i \in Id : Frequency(s, i) > 0}))
  <1> DEFINE v == Items(Def(s))
             K == {i \in Id : Frequency(s, i) > 0}
             N == Len(v)
             q == [n \in 1..N |-> v[n].id]
  <1>1. Sound(Def(s))
    BY DefFits
  <1>2. v \in Seq(Item) /\ Ordered(v) /\ \A x : x \in Vals(v) <=> Has(Def(s), x)
    BY <1>1, ItemsAre
  <1>3. \A x : x \in Vals(v) <=> Owed(s, x)
    BY <1>2, DefHolds
  <1> HIDE DEF v, N
  <1>4. /\ N \in Nat /\ DOMAIN v = 1..N
        /\ \A n \in 1..N : v[n] \in Item /\ v[n].id \in Id /\ v[n].id \in Nat
    BY <1>2, IdsAre DEF N
  <1>5. ASSUME NEW n \in 1..N PROVE v[n].fq = Frequency(s, v[n].id) /\ v[n].id \in K
    <2>1. v[n] \in Vals(v)
      BY DEF Vals, N
    <2> QED BY <1>3, <1>4, <2>1 DEF Owed
  <1>6. q \in Seq(K) /\ Len(q) = N
    BY <1>4, <1>5
  <1>7. Enumerates(q, K)
    <2>1. \A m, n \in 1..N : m < n => q[m] < q[n]
      BY <1>2 DEF Ordered, N
    <2>2. ASSUME NEW i \in K PROVE \E n \in 1..N : q[n] = i
      <3> DEFINE x == [id |-> i, fq |-> Frequency(s, i)]
      <3>1. Frequency(s, i) \in Int
        BY FrequencyInt
      <3>2. x.id = i /\ x.fq = Frequency(s, i) /\ x \in Item
        BY <3>1 DEF Item
      <3> HIDE DEF x
      <3>3. Owed(s, x)
        BY <3>2 DEF Owed
      <3>4. PICK n \in 1..N : v[n] = x
        BY <1>3, <3>3 DEF Vals, N
      <3> QED BY <3>2, <3>4
    <2> HIDE DEF q, K
    <2> QED BY <1>6, <2>1, <2>2 DEF Enumerates
  <1>8. K \in SUBSET Id
    OBVIOUS
  <1> HIDE DEF K, q
  <1>9. Ascending(K) = q
    BY <1>7, <1>8, IdOrder
  <1> DEFINE D == Due(s, q)
  <1>10. D = [n \in 1..N |-> [id |-> v[n].id, fq |-> Frequency(s, v[n].id)]]
    <2>1. DOMAIN q = 1..N
      BY <1>4, <1>6
    <2>2. \A n \in 1..N : q[n] = v[n].id
      BY DEF q
    <2> QED BY <2>1, <2>2 DEF Due
  <1>11. \A n \in 1..N : v[n] = [id |-> v[n].id, fq |-> Frequency(s, v[n].id)]
    BY <1>4, <1>5 DEF Item
  <1> HIDE DEF D
  <1>12. v = [n \in 1..N |-> v[n]]
    BY <1>2, <1>4
  <1>13. v = D
    BY <1>10, <1>11, <1>12
  <1> QED BY <1>9, <1>13 DEF D, v, K

----
\* What each call does to the frequencies, and that it leaves nothing that
\* is not worth keeping.
LEMMA WorthIf ==
  ASSUME NEW s \in Rec, \A x : Has(s, x) => Fine(x)
  PROVE  Worth(s)
  <1>1. AllFine(s.ChildInfoV)
    BY DEF AllFine, Has
  <1>2. \A x \in Vals(s.ItemV) : Fine(x)
    BY DEF Has
  <1>3. ASSUME NEW n \in 1..Len(s.ItemV) PROVE s.ItemV[n].fq > 0
    <2>1. s.ItemV[n] \in Vals(s.ItemV)
      BY DEF Vals
    <2> QED BY <1>2, <2>1 DEF Fine
  <1> QED BY <1>1, <1>2, <1>3 DEF Worth

\* The frequency an item has in a merged item set is the one it is there with.
LEMMA FrequencyThere ==
  ASSUME NEW s, Fit(s), Worth(s), s.MergedP, NEW i \in Id, NEW n \in Int,
         \A x : x.id = i => (Has(s, x) <=> x \in Item /\ x.fq = n /\ n > 0)
  PROVE  Frequency(s, i) = Shown(n)
  <1> DEFINE f == Frequency(s, i)
             x == [id |-> i, fq |-> f]
             y == [id |-> i, fq |-> n]
  <1>1. y.id = i /\ y.fq = n /\ y \in Item
    BY DEF Item
  <1>2. (Has(s, y) <=> Owed(s, y)) /\ f \in Nat
    <2>1. (Has(s, y) <=> Owed(s, y)) /\ Frequency(s, y.id) \in Nat
      BY MergedHolds
    <2> HIDE DEF y
    <2> QED BY <1>1, <2>1
  <1>3. x.id = i /\ x.fq = f /\ x \in Item
    BY <1>2 DEF Item
  <1>4. Has(s, x) <=> Owed(s, x)
    BY MergedHolds
  <1> HIDE DEF x, y, f
  <1>5. Owed(s, x) <=> f > 0
    BY <1>3 DEF Owed, f
  <1>6. Owed(s, y) <=> n = f /\ n > 0
    BY <1>1 DEF Owed, f
  <1>7. Has(s, x) <=> f = n /\ n > 0
    BY <1>3
  <1>8. Has(s, y) <=> n > 0
    BY <1>1
  <1> QED BY <1>2, <1>4, <1>5, <1>6, <1>7, <1>8 DEF Shown, f

\* A frequency stays, or what is below zero is forgotten.
Settles(r, s) ==
  \A i \in Id : Frequency(r, i) = Frequency(s, i) \/ Frequency(r, i) = Shown(Frequency(s, i))

\* What holds the items that are due has their frequencies.
LEMMA DueSettles ==
  ASSUME NEW s, Fit(s), NEW r, Fit(r), r.MergedP, \A x : Has(r, x) <=> Owed(s, x)
  PROVE  Worth(r) /\ \A i \in Id : Frequency(r, i) = Shown(Frequency(s, i))
  <1>1. Worth(r)
    <2>1. \A x : Has(r, x) => Fine(x)
      BY OwedFine
    <2> QED BY <2>1, FitIs, WorthIf
  <1>2. ASSUME NEW i \in Id PROVE Frequency(r, i) = Shown(Frequency(s, i))
    <2> DEFINE n == Frequency(s, i)
    <2>1. n \in Int
      BY FrequencyInt
    <2>2. \A x : x.id = i => (Has(r, x) <=> x \in Item /\ x.fq = n /\ n > 0)
      BY DEF Owed
    <2> HIDE DEF n
    <2>3. Frequency(r, i) = Shown(n)
      BY <1>1, <2>1, <2>2, FrequencyThere
    <2> QED BY <2>3 DEF n
  <1> QED BY <1>1, <1>2

LEMMA DefSettles ==
  ASSUME NEW s, Fit(s), Worth(s), SplitLenMin # 0
  PROVE  Worth(Def(s)) /\ \A i \in Id : Frequency(Def(s), i) = Shown(Frequency(s, i))
  <1> DEFINE r == Def(s)
  <1>1. Fit(r) /\ r.MergedP
    BY DefFits
  <1>2. \A x : Has(r, x) <=> Owed(s, x)
    BY DefHolds
  <1> HIDE DEF r
  <1>3. Worth(r) /\ \A i \in Id : Frequency(r, i) = Shown(Frequency(s, i))
    BY <1>1, <1>2, DueSettles
  <1> QED BY <1>3 DEF r

LEMMA RoomSettles ==
  ASSUME NEW s, Fit(s), Worth(s), SplitLenMin # 0
  PROVE  Worth(MakeRoom(s)) /\ Settles(MakeRoom(s), s)
  <1> DEFINE m == MakeRoom(s)
             d == Def(s)
  <1>1. Fit(m) /\ IF IsFull(s) THEN m = PushWorkBufferToChildren(d) ELSE m = s
    BY RoomFits
  <1>2. CASE ~IsFull(s)
    BY <1>1, <1>2 DEF Settles
  <1>3. CASE IsFull(s)
    <2>1. Sound(d) /\ d.MergedP /\ \A x : Has(d, x) <=> Owed(s, x)
      BY DefFits, DefHolds
    <2> HIDE DEF d
    <2>2. m = PushWorkBufferToChildren(d)
      BY <1>1, <1>3
    <2> HIDE DEF m
    <2>3. Steady(PushWorkBufferToChildren(d), d)
          /\ \A x : Has(PushWorkBufferToChildren(d), x) <=> Has(d, x)
      BY <2>1, PushAre
    <2>4. m.MergedP /\ \A x : Has(m, x) <=> Owed(s, x)
      BY <2>1, <2>2, <2>3 DEF Steady
    <2>5. Worth(m) /\ \A i \in Id : Frequency(m, i) = Shown(Frequency(s, i))
      BY <1>1, <2>4, DueSettles
    <2> QED BY <2>5 DEF m, Settles
  <1> QED BY <1>2, <1>3

\* Loading and saving children changes no frequency.
LEMMA AlikeSettles ==
  ASSUME NEW s, Fit(s), Worth(s), NEW r, SameButKids(r, s)
  PROVE  Worth(r) /\ \A i : Frequency(r, i) = Frequency(s, i)
  <1> DEFINE kids == s.ChildInfoV
             k2 == r.ChildInfoV
  <1>1. /\ Alike(k2, kids) /\ r.ItemV = s.ItemV /\ r.ItemVDel = s.ItemVDel
        /\ r.MergedP = s.MergedP /\ r.DeleteMarkerP = s.DeleteMarkerP
        /\ kids \in Seq(Child)
    BY FitIs DEF SameButKids
  <1>2. DOMAIN k2 = DOMAIN kids /\ DOMAIN kids = 1..Len(kids)
        /\ \A c \in 1..Len(kids) : Vec(k2[c]) = Vec(kids[c])
    BY <1>1 DEF Alike
  <1>3. AllOf(k2) = AllOf(kids)
    <2>1. [c \in DOMAIN k2 |-> Vec(k2[c])] = [c \in DOMAIN kids |-> Vec(kids[c])]
      BY <1>2
    <2> QED BY <2>1 DEF AllOf
  <1>4. \A x : InKids(k2, x) <=> InKids(kids, x)
    BY <1>1, <1>2 DEF InKids, Alike
  <1>5. Worth(r)
    BY <1>1, <1>4 DEF Worth, AllFine
  <1>6. ASSUME NEW i PROVE Frequency(r, i) = Frequency(s, i)
    <2>1. IsMarked(r, i) <=> IsMarked(s, i)
      BY <1>1 DEF IsMarked
    <2>2. {n \in DOMAIN r.ItemV : Outlives(r, n)} = {n \in DOMAIN s.ItemV : Outlives(s, n)}
      BY <1>1 DEF Outlives
    <2> QED BY <1>1, <1>3, <2>1, <2>2 DEF Frequency
  <1> QED BY <1>5, <1>6

\* Nothing there, nothing due.
LEMMA EmptySettles ==
  ASSUME NEW s, Fit(s), s.MergedP, \A x : ~Has(s, x)
  PROVE  Worth(s) /\ \A i \in Id : Frequency(s, i) = 0
  <1>1. Worth(s)
    BY FitIs, WorthIf
  <1>2. ASSUME NEW i \in Id PROVE Frequency(s, i) = 0
    <2>1. \A x : x.id = i => (Has(s, x) <=> x \in Item /\ x.fq = 0 /\ 0 > 0)
      OBVIOUS
    <2>2. Frequency(s, i) = Shown(0)
      BY <1>1, <2>1, FrequencyThere
    <2> QED BY <2>2 DEF Shown
  <1> QED BY <1>1, <1>2

LEMMA NewSettles == Worth(EmptySet(0)) /\ \A i \in Id : Frequency(EmptySet(0), i) = 0
  <1>1. EmptySet(0).MergedP
    BY DEF EmptySet
  <1> QED BY <1>1, EmptyFits, EmptySettles

\* An item set that counts nothing holds nothing.
LEMMA UncountedSettles ==
  ASSUME NEW s, Fit(s), s.MergedP, s.TotalCnt = 0, NEW i \in Id
  PROVE  Frequency(s, i) = 0
  <1>1. s.ItemV = <<>> /\ s.ChildInfoV = <<>>
    BY NothingLeft
  <1>2. \A x : ~Has(s, x)
    BY <1>1 DEF Has, InKids, Vals
  <1> QED BY <1>2, EmptySettles

\* Deleting what is below m from a merged item set.
LEMMA BelowSettles ==
  ASSUME NEW s, Fit(s), Worth(s), s.MergedP, NEW m \in Nat
  PROVE  LET r == DeletedBelow(s, m)
         IN  Worth(r) /\ \A i \in Id : Frequency(r, i) = IF i >= m THEN Frequency(s, i) ELSE 0
  <1> DEFINE r == DeletedBelow(s, m)
  <1>1. Lowered(r, s, m)
    BY BelowIs
  <1> HIDE DEF r
  <1>2. Fit(r) /\ r.MergedP /\ \A x : Has(r, x) <=> Has(s, x) /\ x.id >= m
    BY <1>1 DEF Lowered
  <1>3. \A x : Has(r, x) <=> Owed(s, x) /\ x.id >= m
    BY <1>2, MergedHolds
  <1>4. Worth(r)
    <2>1. \A x : Has(r, x) => Fine(x)
      BY <1>3, OwedFine
    <2> QED BY <1>2, <2>1, FitIs, WorthIf
  <1>5. ASSUME NEW i \in Id PROVE Frequency(r, i) = IF i >= m THEN Frequency(s, i) ELSE 0
    <2> DEFINE x == [id |-> i, fq |-> 1]
               n == IF i >= m THEN Frequency(s, i) ELSE 0
    <2>1. Frequency(s, i) \in Nat
      <3>1. x.id = i /\ Frequency(s, x.id) \in Nat
        BY MergedHolds
      <3> QED BY <3>1
    <2>2. \A y : y.id = i => (Has(r, y) <=> y \in Item /\ y.fq = n /\ n > 0)
      BY <1>3, <2>1 DEF Owed
    <2>3. n \in Nat
      BY <2>1
    <2> HIDE DEF n
    <2>4. Frequency(r, i) = Shown(n)
      BY <1>2, <1>4, <2>2, <2>3, FrequencyThere
    <2>5. Frequency(r, i) = n
      BY <2>3, <2>4 DEF Shown
    <2> QED BY <2>5 DEF n
  <1> QED BY <1>4, <1>5 DEF r

LEMMA DropSettles ==
  ASSUME NEW s, Fit(s), Worth(s), NEW m \in Nat, SplitLenMin # 0
  PROVE  LET r == OrForgotten(DeletedBelow(Def(s), m))
         IN  Worth(r) /\ \A i \in Id : Frequency(r, i) = IF i >= m THEN Shown(Frequency(s, i)) ELSE 0
  <1> DEFINE d == Def(s)
             b == DeletedBelow(d, m)
             r == OrForgotten(b)
  <1>1. /\ Fit(d) /\ Worth(d) /\ d.MergedP
        /\ \A i \in Id : Frequency(d, i) = Shown(Frequency(s, i))
    BY DefFits, DefSettles
  <1> HIDE DEF d
  <1>2. Worth(b) /\ \A i \in Id : Frequency(b, i) = IF i >= m THEN Frequency(d, i) ELSE 0
    BY <1>1, BelowSettles
  <1>3. Fit(b) /\ b.MergedP
    <2>1. Lowered(DeletedBelow(d, m), d, m)
      BY <1>1, BelowIs
    <2> QED BY <2>1 DEF Lowered
  <1> HIDE DEF b
  <1>4. \A i \in Id : Frequency(b, i) = IF i >= m THEN Shown(Frequency(s, i)) ELSE 0
    BY <1>1, <1>2
  <1>5. CASE b.TotalCnt = 0
    <2>1. b.Blobs = 0
      BY <1>3, <1>5, NothingLeft
    <2>2. r = EmptySet(0)
      BY <1>5, <2>1, NewIs DEF OrForgotten
    <2>3. \A i \in Id : Frequency(b, i) = 0
      BY <1>3, <1>5, UncountedSettles
    <2>4. \A i \in Id : Frequency(EmptySet(0), i) = Frequency(b, i)
      BY <2>3, NewSettles
    <2> QED BY <1>4, <2>2, <2>4, NewSettles DEF b, d
  <1>6. CASE b.TotalCnt # 0
    <2>1. r = b
      BY <1>6 DEF OrForgotten
    <2> QED BY <1>2, <1>4, <2>1 DEF b, d
  <1> QED BY <1>5, <1>6

\* Packing without loading a child.
LEMMA LocalSettles ==
  ASSUME NEW s, Fit(s), Worth(s), ~s.MergedP
  PROVE  Worth(DefLocal(s)) /\ Settles(DefLocal(s), s)
  <1> DEFINE r == DefLocal(s)
             v == s.ItemV
             w == Merge(s.ItemV, TRUE)
             g == AllOf(s.ChildInfoV)
  <1>1. s \in Rec /\ Kids(s.ChildInfoV) /\ v \in Seq(Item) /\ s.DeleteMarkerP \in BOOLEAN
    BY FitIs DEF Rec
  <1>2. CASE s.ItemVDel # {}
    <2>1. r = s
      BY <1>2 DEF DefLocal
    <2> QED BY <2>1 DEF Settles
  <1>3. CASE s.ItemVDel = {}
    <2>1. LocalIs(r, s)
      BY <1>1, <1>3, DefLocalIs
    <2> HIDE DEF r
    <2>2. /\ r \in Rec /\ r.ChildInfoV = s.ChildInfoV /\ r.ItemVDel = {}
          /\ \/ /\ r.MergedP = FALSE /\ r.ItemV = w /\ r.DeleteMarkerP = s.DeleteMarkerP
             \/ /\ r.MergedP = TRUE /\ r.DeleteMarkerP = FALSE
                /\ r.ItemV = IF s.DeleteMarkerP THEN Merge(w, FALSE) ELSE w
                /\ Beyond(s.ChildInfoV, w)
      BY <2>1 DEF LocalIs
    <2>3. w \in Seq(Item)
      BY <1>1, MergeIs
    <2>4. ~s.DeleteMarkerP => \A x \in Vals(w) : Fine(x)
      BY <1>1, <1>3, MergeFine DEF Worth
    <2>5. \A x \in Vals(Merge(w, FALSE)) : Fine(x)
      BY <2>3, MergeFine
    <2>6. g \in Seq(Item) /\ \A x : x \in Vals(g) <=> InKids(s.ChildInfoV, x)
      BY <1>1, AllOfIs
    <2>7. r.ItemV \in Seq(Item) /\ AllOf(r.ChildInfoV) = g
      BY <2>2 DEF Rec
    <2> DEFINE fine == \A x \in Vals(r.ItemV) : Fine(x)
    <2>8. fine \/ (r.MergedP = FALSE /\ r.DeleteMarkerP /\ s.DeleteMarkerP)
      BY <1>1, <2>2, <2>4, <2>5
    <2>9. Worth(r)
      <3>1. AllFine(r.ChildInfoV)
        BY <2>2 DEF Worth
      <3>2. fine => \A n \in 1..Len(r.ItemV) : r.ItemV[n].fq > 0
        BY DEF Vals, Fine
      <3> QED BY <2>8, <3>1, <3>2 DEF Worth
    <2>10. ASSUME NEW i \in Id
           PROVE  Frequency(r, i) = Frequency(s, i) \/ Frequency(r, i) = Shown(Frequency(s, i))
      <3> DEFINE a == TotalOrNone(g, i)
                 t == TotalOrNone(v, i)
                 u == TotalOrNone(r.ItemV, i)
      <3>1. Frequency(s, i) = Plus(a, t)
        BY <1>1, <1>3, PlainFrequency
      <3>2. Frequency(r, i) = Plus(a, u)
        <4>1. Kids(r.ChildInfoV)
          BY <1>1, <2>2
        <4>2. Frequency(r, i) = Plus(TotalOrNone(AllOf(r.ChildInfoV), i), TotalOrNone(r.ItemV, i))
          BY <2>2, <4>1, PlainFrequency
        <4> QED BY <2>7, <4>2
      <3>3. TotalOrNone(w, i) = t /\ TotalOrNone(Merge(w, FALSE), i) = Shown(t)
        BY <1>1, <2>3, MergeTotal
      <3>4. CASE u = t
        BY <3>1, <3>2, <3>4
      <3>5. CASE u # t
        <4>1. u = Shown(t) /\ Beyond(s.ChildInfoV, w)
          BY <2>2, <3>3, <3>5
        <4>2. t # 0 /\ t \in Int /\ a \in Int /\ (~Summing => t \in {0, 1})
          <5>1. t \in Int /\ a \in Int /\ (~Summing => t \in {0, 1})
            BY <1>1, <2>6, TotalIs
          <5> HIDE DEF t, u
          <5> QED BY <3>5, <4>1, <5>1 DEF Shown
        <4>3. i \in IdsIn(w)
          BY <2>3, <3>3, <4>2, TotalIs
        <4>4. PICK n \in 1..Len(w) : w[n].id = i
          BY <2>3, <4>3, IdsAre
        <4>5. a = 0
          <5>1. ASSUME NEW x \in Vals(g), x.id = i PROVE FALSE
            <6>1. PICK c \in 1..Len(s.ChildInfoV) : x \in Vals(Vec(s.ChildInfoV[c]))
              BY <2>6 DEF InKids
            <6>2. Belongs(s.ChildInfoV, c, i) /\ i \in Nat
              BY <1>1, <5>1, <6>1, HeldBelongs
            <6>3. s.ChildInfoV[c].MaxItem < i /\ s.ChildInfoV[c].MaxItem \in Nat
              BY <1>1, <4>1, <4>4, KidsAre DEF Beyond
            <6> QED BY <6>2, <6>3 DEF Belongs
          <5> HIDE DEF g
          <5> QED BY <2>6, <5>1, NoneHeld
        <4> HIDE DEF a, t, u
        <4>6. Plus(a, t) = t /\ Plus(a, u) = u
          BY <4>1, <4>2, <4>5 DEF Plus, Shown
        <4> QED BY <3>1, <3>2, <4>1, <4>6
      <3> QED BY <3>4, <3>5
    <2> QED BY <2>9, <2>10 DEF Settles, r
  <1> QED BY <1>2, <1>3

----
\* One more item at the end of the buffer.
LEMMA PickedMore ==
  ASSUME NEW S, NEW v \in Seq(S), NEW m \in 1..Len(v), NEW P \in SUBSET (1..m-1)
  PROVE  PickedFrom(v, P \cup {m}) = PickedFrom(v, P) \o <<v[m]>>
  <1> DEFINE Q == P \cup {m}
             p == Ascending(P)
             q == p \o <<m>>
             L == Len(p)
             k == Len(v)
  <1>1. k \in Nat /\ m \in Nat /\ m <= k /\ (\A n \in P : n \in Nat /\ n < m) /\ P \in SUBSET (1..k)
        /\ Q \in SUBSET (1..k) /\ m \in Q
    <2>1. k \in Nat /\ m \in 1..k
      OBVIOUS
    <2> HIDE DEF k
    <2>2. ASSUME NEW n \in P PROVE n \in Nat /\ n < m /\ n \in 1..k
      <3>1. n \in 1..m-1
        OBVIOUS
      <3> QED BY <2>1, <3>1
    <2>3. m \in Nat /\ m <= k
      BY <2>1
    <2>4. P \in SUBSET (1..k)
      BY <2>2
    <2> QED BY <2>1, <2>2, <2>3, <2>4
  <1>2. Enumerates(p, P)
    BY <1>1, AscendingIs
  <1> HIDE DEF p, Q
  <1>3. p \in Seq(P) /\ P \in SUBSET Q
    BY <1>2 DEF Enumerates, Q
  <1>4. L \in Nat /\ p \in Seq(Q) /\ \A n \in 1..L : p[n] \in P
    <2>1. L \in Nat /\ DOMAIN p = 1..L /\ \A n \in 1..L : p[n] \in P
      BY <1>3
    <2>2. \A n \in 1..L : p[n] \in Q
      BY <1>3, <2>1
    <2>3. p = [n \in 1..L |-> p[n]]
      BY <1>3
    <2> HIDE DEF L
    <2>4. [n \in 1..L |-> p[n]] \in Seq(Q)
      BY <2>1, <2>2
    <2> QED BY <2>1, <2>3, <2>4
  <1>5. q \in Seq(Q) /\ Len(q) = L + 1 /\ q[L + 1] = m /\ \A n \in 1..L : q[n] = p[n]
    BY <1>1, <1>4
  <1> HIDE DEF q
  <1>6. Enumerates(q, Q)
    <2>1. ASSUME NEW a \in 1..L+1, NEW b \in 1..L+1, a < b PROVE q[a] < q[b]
      <3> HIDE DEF L
      <3>1. a \in 1..L
        BY <1>4, <2>1
      <3>2. q[a] = p[a] /\ p[a] \in P
        BY <1>4, <1>5, <3>1 DEF L
      <3>3. CASE b = L + 1
        BY <1>1, <1>5, <3>2, <3>3
      <3>4. CASE b # L + 1
        <4>1. b \in 1..L
          BY <1>4, <3>4
        <4> QED BY <1>2, <1>5, <2>1, <3>1, <4>1 DEF Enumerates, L
      <3> QED BY <3>3, <3>4
    <2>2. ASSUME NEW x \in Q PROVE \E n \in 1..L+1 : q[n] = x
      <3>1. CASE x = m
        <4>1. L + 1 \in 1..L+1
          BY <1>4
        <4> QED BY <1>5, <3>1, <4>1
      <3>2. CASE x # m
        <4>1. x \in P
          BY <3>2 DEF Q
        <4>2. PICK n \in 1..L : p[n] = x
          BY <1>2, <4>1 DEF Enumerates
        <4>3. n \in 1..L+1
          BY <1>4
        <4> QED BY <1>5, <4>2, <4>3
      <3> QED BY <3>1, <3>2
    <2> HIDE DEF L
    <2> QED BY <1>5, <2>1, <2>2 DEF Enumerates
  <1>7. Ascending(Q) = q
    BY <1>1, <1>6, OrderIs
  <1> DEFINE a == PickedFrom(v, P)
             b == PickedFrom(v, Q)
             c == a \o <<v[m]>>
  <1>8. a \in Seq(S) /\ Len(a) = L /\ \A n \in 1..L : a[n] = v[p[n]]
    <2>1. /\ PickedFrom(v, P) \in Seq(S) /\ Len(PickedFrom(v, P)) = Len(Ascending(P))
          /\ \A n \in 1..Len(Ascending(P)) : PickedFrom(v, P)[n] = v[Ascending(P)[n]]
      BY <1>1, PickedIs
    <2> QED BY <2>1 DEF p
  <1>9. b \in Seq(S) /\ Len(b) = L + 1 /\ \A n \in 1..L+1 : b[n] = v[q[n]]
    <2>1. /\ PickedFrom(v, Q) \in Seq(S) /\ Len(PickedFrom(v, Q)) = Len(Ascending(Q))
          /\ \A n \in 1..Len(Ascending(Q)) : PickedFrom(v, Q)[n] = v[Ascending(Q)[n]]
      BY <1>1, PickedIs
    <2> QED BY <1>5, <1>7, <2>1
  <1>10. v[m] \in S
    OBVIOUS
  <1> HIDE DEF a, b, L
  <1>11. c \in Seq(S) /\ Len(c) = L + 1 /\ c[L + 1] = v[m] /\ \A n \in 1..L : c[n] = a[n]
    BY <1>4, <1>8, <1>10
  <1> HIDE DEF c
  <1>12. \A n \in 1..L+1 : b[n] = c[n]
    <2> SUFFICES ASSUME NEW n \in 1..L+1 PROVE b[n] = c[n]
      OBVIOUS
    <2>1. CASE n = L + 1
      BY <1>5, <1>9, <1>11, <2>1
    <2>2. CASE n # L + 1
      <3>1. n \in 1..L
        BY <1>4, <2>2 DEF L
      <3> QED BY <1>5, <1>8, <1>9, <1>11, <3>1, SMTT(30) DEF L
    <2> QED BY <2>1, <2>2
  <1>13. b = c
    BY <1>9, <1>11, <1>12, SeqEqual
  <1> QED BY <1>13 DEF a, b, c, Q

LEMMA PickedSame ==
  ASSUME NEW S, NEW v \in Seq(S), NEW w \in Seq(S), NEW P \in SUBSET (1..Len(v)),
         P \in SUBSET (1..Len(w)), \A n \in P : w[n] = v[n]
  PROVE  PickedFrom(w, P) = PickedFrom(v, P)
  <1> DEFINE q == Ascending(P)
  <1>1. Enumerates(q, P)
    <2>1. Len(v) \in Nat
      OBVIOUS
    <2> QED BY <2>1, AscendingIs
  <1>2. q \in Seq(P)
    BY <1>1 DEF Enumerates
  <1> HIDE DEF q
  <1>3. \A n \in DOMAIN q : w[q[n]] = v[q[n]]
    <2>1. \A n \in DOMAIN q : q[n] \in P
      BY <1>2
    <2> QED BY <2>1
  <1> QED BY <1>3 DEF PickedFrom, q

\* The weight of one item.
Weight(x) == IF Summing THEN x.fq ELSE 1

LEMMA OneTotal ==
  ASSUME NEW x \in Item, NEW i
  PROVE  TotalOrNone(<<x>>, i) = IF x.id = i THEN Weight(x) ELSE 0
  <1> DEFINE v == <<x>>
  <1>1. v \in Seq(Item) /\ Len(v) = 1 /\ v[1] = x
    OBVIOUS
  <1> HIDE DEF v
  <1>2. i \in IdsIn(v) <=> x.id = i
    BY <1>1, IdsAre
  <1>3. Part(v, i) \in Seq(Int) /\ Len(Part(v, i)) = 1 /\ Part(v, i)[1] = IF x.id = i THEN x.fq ELSE 0
    <2>1. /\ Part(v, i) \in Seq(Int) /\ Len(Part(v, i)) = Len(v)
          /\ \A n \in 1..Len(v) : Part(v, i)[n] = IF v[n].id = i THEN v[n].fq ELSE 0
      BY <1>1, PartIsInt
    <2> QED BY <1>1, <2>1
  <1>4. SumUp(Part(v, i)) = Part(v, i)[1]
    <2> DEFINE f == Part(v, i)
    <2>1. f \in Seq(Int) /\ 1 \in 1..Len(f) /\ \A n \in 1..Len(f) : n # 1 => f[n] = 0
      BY <1>3
    <2> HIDE DEF f
    <2> QED BY <2>1, SumSingle DEF f
  <1>5. /\ Summing => TotalOrNone(v, i) = SumUp(Part(v, i))
        /\ ~Summing => TotalOrNone(v, i) = IF i \in IdsIn(v) THEN 1 ELSE 0
    BY <1>1, TotalIs
  <1>6. TotalOrNone(v, i) = IF x.id = i THEN Weight(x) ELSE 0
    BY <1>2, <1>3, <1>4, <1>5, HandlerAssumption DEF Weight
  <1> QED BY <1>6 DEF v

\* What outlives the deletes, behind what the children hold.
LEMMA PendingIs ==
  ASSUME NEW s \in Rec, Kids(s.ChildInfoV), NEW i
  PROVE  LET g == IF IsMarked(s, i) THEN <<>> ELSE AllOf(s.ChildInfoV)
             w == PickedFrom(s.ItemV, Survivors(s))
         IN  /\ g \in Seq(Item) /\ w \in Seq(Item) /\ Survivors(s) \in SUBSET (1..Len(s.ItemV))
             /\ s.ItemV \in Seq(Item) /\ Len(s.ItemV) \in Nat
             /\ Frequency(s, i) = TotalOrNone(g \o w, i)
             /\ Frequency(s, i) = Plus(TotalOrNone(g, i), TotalOrNone(w, i))
  <1> DEFINE g == IF IsMarked(s, i) THEN <<>> ELSE AllOf(s.ChildInfoV)
             w == PickedFrom(s.ItemV, Survivors(s))
  <1>1. s.ItemV \in Seq(Item) /\ Len(s.ItemV) \in Nat /\ Survivors(s) \in SUBSET (1..Len(s.ItemV))
    BY DEF Rec, Survivors
  <1>2. w \in Seq(Item)
    BY <1>1, PickedVals
  <1>3. g \in Seq(Item)
    BY AllOfIs
  <1>4. Frequency(s, i) = TotalOrNone(g \o w, i)
    <2>1. {n \in DOMAIN s.ItemV : Outlives(s, n)} = Survivors(s)
      BY <1>1 DEF Survivors
    <2> QED BY <2>1 DEF Frequency
  <1> HIDE DEF g, w
  <1>5. TotalOrNone(g \o w, i) = Plus(TotalOrNone(g, i), TotalOrNone(w, i))
    BY <1>2, <1>3, TotalConcat
  <1> QED BY <1>1, <1>2, <1>3, <1>4, <1>5 DEF g, w

LEMMA ExtendedSettles ==
  ASSUME NEW s, Fit(s), Worth(s), NEW x \in Item, x.fq \in Fq
  PROVE  LET r == Extended(s, x)
         IN  Worth(r) /\ \A i \in Id : Frequency(r, i) = IF x.id = i
                                                         THEN Plus(Frequency(s, i), Weight(x))
                                                         ELSE Frequency(s, i)
  <1> DEFINE r == Extended(s, x)
             N == Len(s.ItemV)
             M == N + 1
  <1>1. /\ s \in Rec /\ Kids(s.ChildInfoV) /\ s.ItemV \in Seq(Item) /\ N \in Nat
        /\ s.ItemVDel \in SUBSET (1..N)
    BY FitIs DEF Markers
  <1>2. /\ r \in Rec /\ r.ItemV = Append(s.ItemV, x) /\ r.ChildInfoV = s.ChildInfoV
        /\ r.ItemVDel = s.ItemVDel
        /\ (r.MergedP <=> s.MergedP /\ InOrder(s, x) /\ ~IsDeleteMarker(x))
        /\ (r.DeleteMarkerP <=> s.DeleteMarkerP \/ IsDeleteMarker(x))
    BY <1>1, ExtendedIs
  <1> HIDE DEF r
  <1>3. Len(r.ItemV) = M /\ r.ItemV[M] = x /\ \A n \in 1..N : r.ItemV[n] = s.ItemV[n]
    BY <1>1, <1>2
  <1>4. r.ItemV \in Seq(Item) /\ M \in 1..M /\ 1..N \in SUBSET (1..M) /\ M - 1 = N
        /\ \A n \in 1..M : n = M \/ n \in 1..N
    <2>1. r.ItemV \in Seq(Item)
      BY <1>2 DEF Rec
    <2> HIDE DEF N
    <2> QED BY <1>1, <2>1
  <1>5. ~IsDeleteMarker(x) => Fine(x)
    <2>1. x.fq \in Int /\ (~Summing => x.fq = 1)
      BY HandlerAssumption DEF Item
    <2> QED BY <2>1, HandlerAssumption DEF IsDeleteMarker, Fine
  <1> HIDE DEF M, N
  <1>6. Worth(r)
    <2>1. AllFine(r.ChildInfoV)
      BY <1>2 DEF Worth
    <2>2. r.MergedP => \A y \in Vals(r.ItemV) : Fine(y)
      <3> SUFFICES ASSUME r.MergedP, NEW y \in Vals(r.ItemV) PROVE Fine(y)
        OBVIOUS
      <3>1. PICK n \in 1..M : y = r.ItemV[n]
        BY <1>3 DEF Vals
      <3>2. CASE n = M
        BY <1>2, <1>3, <1>5, <3>1, <3>2
      <3>3. CASE n \in 1..N
        <4>1. y \in Vals(s.ItemV)
          BY <1>3, <3>1, <3>3 DEF Vals, N
        <4> QED BY <1>2, <4>1 DEF Worth
      <3> QED BY <1>4, <3>2, <3>3
    <2>3. ~r.DeleteMarkerP => \A n \in 1..Len(r.ItemV) : n \notin r.ItemVDel => r.ItemV[n].fq > 0
      <3> SUFFICES ASSUME ~r.DeleteMarkerP, NEW n \in 1..M, n \notin r.ItemVDel
                   PROVE  r.ItemV[n].fq > 0
        BY <1>3
      <3>1. CASE n = M
        BY <1>2, <1>3, <1>5, <3>1 DEF Fine
      <3>2. CASE n \in 1..N
        BY <1>2, <1>3, <3>2 DEF Worth, N
      <3> QED BY <1>4, <3>1, <3>2
    <2> QED BY <2>1, <2>2, <2>3 DEF Worth
  <1> DEFINE P == Survivors(s)
  <1>7. P \in SUBSET (1..N) /\ Survivors(r) = P \cup {M}
    <2>1. P \in SUBSET (1..N)
      BY DEF Survivors, N
    <2>2. ASSUME NEW n \in 1..N PROVE Outlives(r, n) <=> Outlives(s, n)
      <3>1. \A d \in s.ItemVDel : r.ItemV[d] = s.ItemV[d]
        BY <1>1, <1>3
      <3> QED BY <1>2, <1>3, <3>1 DEF Outlives
    <2>3. Outlives(r, M)
      <3>1. ASSUME NEW d \in s.ItemVDel PROVE ~(d >= M)
        BY <1>1 DEF M
      <3> QED BY <1>2, <3>1 DEF Outlives
    <2>4. Survivors(r) = {n \in 1..M : Outlives(r, n)} /\ P = {n \in 1..N : Outlives(s, n)}
      BY <1>3 DEF Survivors, N
    <2> HIDE DEF P
    <2> QED BY <1>4, <2>1, <2>2, <2>3, <2>4
  <1>8. ASSUME NEW i \in Id
        PROVE  Frequency(r, i) = IF x.id = i THEN Plus(Frequency(s, i), Weight(x)) ELSE Frequency(s, i)
    <2> DEFINE g == IF IsMarked(s, i) THEN <<>> ELSE AllOf(s.ChildInfoV)
               w == PickedFrom(s.ItemV, P)
               u == PickedFrom(r.ItemV, Survivors(r))
               one == <<x>>
    <2>1. IsMarked(r, i) <=> IsMarked(s, i)
      <3>1. \A d \in s.ItemVDel : r.ItemV[d] = s.ItemV[d]
        BY <1>1, <1>3
      <3> QED BY <1>2, <3>1 DEF IsMarked
    <2>2. g \in Seq(Item) /\ w \in Seq(Item) /\ Frequency(s, i) = TotalOrNone(g \o w, i)
      BY <1>1, PendingIs
    <2>3. Frequency(r, i) = TotalOrNone(g \o u, i)
      <3>1. Kids(r.ChildInfoV)
        BY <1>1, <1>2
      <3>2. Frequency(r, i) = TotalOrNone((IF IsMarked(r, i) THEN <<>> ELSE AllOf(r.ChildInfoV)) \o u, i)
        BY <1>2, <3>1, PendingIs
      <3> QED BY <1>2, <2>1, <3>2
    <2>4. u = w \o one
      <3>1. P \in SUBSET (1..M-1) /\ M \in 1..Len(r.ItemV)
        BY <1>3, <1>4, <1>7
      <3>2. PickedFrom(r.ItemV, P \cup {M}) = PickedFrom(r.ItemV, P) \o <<r.ItemV[M]>>
        <4> HIDE DEF P
        <4> QED BY <1>4, <3>1, PickedMore
      <3>3. PickedFrom(r.ItemV, P) = PickedFrom(s.ItemV, P)
        <4>1. P \in SUBSET (1..Len(s.ItemV)) /\ P \in SUBSET (1..Len(r.ItemV))
              /\ \A n \in P : r.ItemV[n] = s.ItemV[n]
          BY <1>3, <1>4, <1>7 DEF N
        <4> HIDE DEF P
        <4> QED BY <1>1, <1>4, <4>1, PickedSame
      <3> QED BY <1>3, <1>7, <3>2, <3>3
    <2>5. one \in Seq(Item)
      OBVIOUS
    <2> HIDE DEF g, w, u, one
    <2>6. g \o (w \o one) = (g \o w) \o one /\ g \o w \in Seq(Item)
      <3>1. g \in Seq(Item) /\ w \in Seq(Item) /\ one \in Seq(Item)
        BY <2>2, <2>5
      <3>2. (g \o w) \o one = g \o (w \o one)
        BY <3>1, JoinThree
      <3>3. g \o w \in Seq(Item)
        BY <3>1, ConcatProperties
      <3> QED BY <3>2, <3>3
    <2>7. TotalOrNone((g \o w) \o one, i) = Plus(TotalOrNone(g \o w, i), TotalOrNone(one, i))
      BY <2>5, <2>6, TotalConcat
    <2>8. TotalOrNone(one, i) = IF x.id = i THEN Weight(x) ELSE 0
      BY OneTotal DEF one
    <2>9. Frequency(r, i) = Plus(Frequency(s, i), IF x.id = i THEN Weight(x) ELSE 0)
      BY <2>2, <2>3, <2>4, <2>6, <2>7, <2>8
    <2>10. Plus(Frequency(s, i), 0) = Frequency(s, i)
      <3> DEFINE h == g \o w
      <3>1. TotalOrNone(h, i) \in Int /\ (~Summing => TotalOrNone(h, i) \in {0, 1})
        <4> HIDE DEF h
        <4>1. h \in Seq(Item)
          BY <2>6 DEF h
        <4> QED BY <4>1, TotalIs
      <3>2. Frequency(s, i) = TotalOrNone(h, i)
        BY <2>2
      <3> HIDE DEF h
      <3> QED BY <3>1, <3>2 DEF Plus
    <2> QED BY <2>9, <2>10
  <1> QED BY <1>6, <1>8 DEF r

----
\* Markers at the end of the buffer.
\* Leaving out items with other ids does not change what one id comes to.
LEMMA DropOthers ==
  ASSUME NEW v \in Seq(Item), NEW P \in SUBSET (1..Len(v)), NEW Q \in SUBSET P, NEW i,
         \A n \in P : n \notin Q => v[n].id # i
  PROVE  TotalOrNone(PickedFrom(v, Q), i) = TotalOrNone(PickedFrom(v, P), i)
  <1> DEFINE N == Len(v)
             A(m) == {n \in P : n <= m}
             B(m) == {n \in Q : n <= m}
             t(R) == TotalOrNone(PickedFrom(v, R), i)
             T == {m \in Nat : m <= N => t(B(m)) = t(A(m))}
  <1>1. N \in Nat /\ P \in SUBSET (1..N) /\ Q \in SUBSET (1..N)
    BY LenProperties
  <1>2. 0 \in T
    <2>1. A(0) = {} /\ B(0) = {}
      <3> HIDE DEF N
      <3>1. ASSUME NEW n \in 1..N PROVE ~(n <= 0)
        BY <1>1
      <3>2. \A n \in P : n \in 1..N
        BY <1>1
      <3>3. \A n \in Q : n \in 1..N
        BY <1>1
      <3> QED BY <3>1, <3>2, <3>3
    <2> HIDE DEF A, B, t
    <2> QED BY <2>1
  <1>3. ASSUME NEW m \in Nat, m \in T PROVE m + 1 \in T
    <2> DEFINE k == m + 1
    <2> SUFFICES ASSUME k <= N PROVE t(B(k)) = t(A(k))
      OBVIOUS
    <2>1. k \in 1..N /\ k - 1 = m /\ m <= N /\ k \in Nat
      <3> HIDE DEF N
      <3> QED BY <1>1
    <2>2. t(B(m)) = t(A(m))
      BY <1>3, <2>1
    <2>3. ASSUME NEW R \in SUBSET (1..N)
          PROVE  IF k \in R THEN {n \in R : n <= k} = {n \in R : n <= m} \cup {k}
                            ELSE {n \in R : n <= k} = {n \in R : n <= m}
      <3>1. \A n \in R : n \in Nat
        <4> HIDE DEF N
        <4> QED BY <1>1
      <3>2. \A n \in R : n <= k <=> n <= m \/ n = k
        <4> HIDE DEF N
        <4> QED BY <3>1, <2>1
      <3> QED BY <3>2
    <2>4. ASSUME NEW R \in SUBSET (1..N)
          PROVE  /\ {n \in R : n <= m} \in SUBSET (1..k-1)
                 /\ {n \in R : n <= m} \in SUBSET (1..N)
      <3>1. ASSUME NEW n \in R, n <= m PROVE n \in 1..m
        <4> HIDE DEF N
        <4>1. n \in 1..N
          OBVIOUS
        <4> QED BY <1>1, <3>1, <4>1
      <3> QED BY <2>1, <3>1
    <2> HIDE DEF k
    \* One more place.
    <2>5. ASSUME NEW R \in SUBSET (1..N), k \in R
          PROVE  t({n \in R : n <= k}) =
                   Plus(t({n \in R : n <= m}), IF v[k].id = i THEN Weight(v[k]) ELSE 0)
      <3> DEFINE b == {n \in R : n <= m}
                 c == {n \in R : n <= k}
                 w == PickedFrom(v, b)
      <3>1. c = b \cup {k} /\ b \in SUBSET (1..k-1) /\ b \in SUBSET (1..N)
        BY <2>3, <2>4, <2>5
      <3> HIDE DEF b, c
      <3>2. PickedFrom(v, c) = w \o <<v[k]>>
        <4>1. k \in 1..Len(v)
          BY <2>1
        <4>2. PickedFrom(v, b \cup {k}) = PickedFrom(v, b) \o <<v[k]>>
          BY <3>1, <4>1, PickedMore
        <4> QED BY <3>1, <4>2
      <3>3. w \in Seq(Item)
        BY <3>1, PickedVals
      <3>4. v[k] \in Item
        BY <2>1
      <3> DEFINE x == v[k]
                 one == <<x>>
      <3>5. one \in Seq(Item)
        BY <3>4
      <3> HIDE DEF w, one
      <3>6. TotalOrNone(w \o one, i) = Plus(TotalOrNone(w, i), TotalOrNone(one, i))
        BY <3>3, <3>5, TotalConcat
      <3>7. TotalOrNone(one, i) = IF x.id = i THEN Weight(x) ELSE 0
        BY <3>4, OneTotal DEF one
      <3> QED BY <3>2, <3>6, <3>7 DEF w, one, b, c
    <2>6. CASE k \notin P
      <3>1. A(k) = A(m) /\ B(k) = B(m)
        BY <1>1, <2>3, <2>6
      <3> HIDE DEF A, B
      <3> QED BY <2>2, <3>1
    <2>7. CASE k \in Q
      <3>1. t(A(k)) = Plus(t(A(m)), IF v[k].id = i THEN Weight(v[k]) ELSE 0)
        BY <1>1, <2>5, <2>7
      <3>2. t(B(k)) = Plus(t(B(m)), IF v[k].id = i THEN Weight(v[k]) ELSE 0)
        BY <1>1, <2>5, <2>7
      <3> HIDE DEF A, B, t
      <3> QED BY <2>2, <3>1, <3>2
    <2>8. CASE k \in P /\ k \notin Q
      <3>1. t(A(k)) = Plus(t(A(m)), IF v[k].id = i THEN Weight(v[k]) ELSE 0)
        BY <1>1, <2>5, <2>8
      <3>2. B(k) = B(m)
        BY <1>1, <2>3, <2>8
      <3>3. v[k].id # i
        BY <2>8
      <3>4. t(A(m)) \in Int /\ (~Summing => t(A(m)) \in {0, 1})
        <4> DEFINE a == A(m)
                   w == PickedFrom(v, a)
        <4>1. a \in SUBSET (1..Len(v))
          BY <1>1, <2>4
        <4> HIDE DEF a
        <4>2. w \in Seq(Item)
          BY <4>1, PickedVals
        <4> HIDE DEF w
        <4>3. TotalOrNone(w, i) \in Int /\ (~Summing => TotalOrNone(w, i) \in {0, 1})
          BY <4>2, TotalIs
        <4> QED BY <4>3 DEF w, a
      <3> HIDE DEF A, B, t
      <3>5. Plus(t(A(m)), 0) = t(A(m))
        BY <3>4 DEF Plus
      <3> QED BY <2>2, <3>1, <3>2, <3>3, <3>5
    <2> QED BY <2>6, <2>7, <2>8
  <1>4. \A m \in Nat : m \in T
    <2> HIDE DEF T
    <2> QED BY <1>2, <1>3, ByInduction
  <1>5. t(B(N)) = t(A(N))
    <2>1. N \in T /\ N <= N
      BY <1>1, <1>4
    <2> HIDE DEF t, A, B, N
    <2> QED BY <2>1
  <1>6. A(N) = P /\ B(N) = Q
    <2> HIDE DEF N
    <2>1. \A n \in P : n <= N
      BY <1>1
    <2>2. \A n \in Q : n <= N
      BY <1>1
    <2> QED BY <2>1, <2>2
  <1> HIDE DEF A, B
  <1> QED BY <1>5, <1>6

LEMMA MarkedSettles ==
  ASSUME NEW s, Fit(s), Worth(s), NEW ids \in Seq(Id), NEW D \in SUBSET Id, Enumerates(ids, D)
  PROVE  LET r == Marked(s, ids)
         IN  Worth(r) /\ \A i \in Id : Frequency(r, i) = IF i \in D THEN 0 ELSE Frequency(s, i)
  <1> DEFINE r == Marked(s, ids)
             N == Len(s.ItemV)
             M == Len(ids)
             v == s.ItemV
             w == r.ItemV
  <1>1. /\ s \in Rec /\ Kids(s.ChildInfoV) /\ v \in Seq(Item) /\ N \in Nat
        /\ s.ItemVDel \in SUBSET (1..N)
    BY FitIs DEF Markers
  <1>2. /\ r \in Rec /\ r.ItemVDel = s.ItemVDel \cup (N + 1 .. N + M)
        /\ r.ChildInfoV = s.ChildInfoV /\ r.MergedP = FALSE /\ r.DeleteMarkerP = s.DeleteMarkerP
        /\ Len(w) = N + M /\ M \in Nat
        /\ \A n \in 1..N : w[n] = v[n]
        /\ \A n \in 1..M : w[N + n] = [id |-> ids[n], fq |-> 0]
    BY <1>1, MarkedIs
  <1>3. w \in Seq(Item)
    BY <1>2 DEF Rec
  <1>4. /\ \A i : i \in D <=> \E n \in 1..M : ids[n] = i
    <2>1. ids \in Seq(D)
      BY DEF Enumerates
    <2> QED BY <2>1 DEF Enumerates
  <1> HIDE DEF r, M, N
  <1>5. /\ 1..N \in SUBSET (1..N+M)
        /\ \A n \in 1..N+M : n \in 1..N \/ n \in N+1..N+M
        /\ \A n \in N+1..N+M : n - N \in 1..M /\ N + (n - N) = n /\ n \in 1..N+M /\ n >= n
        /\ \A n \in 1..M : N + n \in N+1..N+M
        /\ \A n \in 1..N : n \in Nat /\ n <= N
        /\ \A n \in 1..N : \A d \in N+1..N+M : d >= n
    BY <1>1, <1>2
  <1> DEFINE P == Survivors(s)
             Q == Survivors(r)
  <1>6. \A i : (\E d \in N+1..N+M : w[d].id = i) <=> i \in D
    <2> SUFFICES ASSUME NEW i PROVE (\E d \in N+1..N+M : w[d].id = i) <=> i \in D
      OBVIOUS
    <2>1. ASSUME NEW d \in N+1..N+M, w[d].id = i PROVE i \in D
      <3> DEFINE n == d - N
      <3>1. n \in 1..M /\ N + n = d
        BY <1>5
      <3> HIDE DEF n
      <3>2. w[d] = [id |-> ids[n], fq |-> 0]
        BY <1>2, <3>1
      <3> QED BY <1>4, <2>1, <3>1, <3>2
    <2>2. ASSUME i \in D PROVE \E d \in N+1..N+M : w[d].id = i
      <3>1. PICK n \in 1..M : ids[n] = i
        BY <1>4, <2>2
      <3>2. w[N + n] = [id |-> ids[n], fq |-> 0] /\ N + n \in N+1..N+M
        BY <1>2, <1>5
      <3> QED BY <3>1, <3>2
    <2> QED BY <2>1, <2>2
  <1>7. \A d \in s.ItemVDel : d \in 1..N /\ w[d] = v[d]
    BY <1>1, <1>2
  <1>8. Q \in SUBSET P /\ P \in SUBSET (1..N) /\ \A n \in P : n \in Q <=> v[n].id \notin D
    <2>1. ASSUME NEW n \in 1..N PROVE Outlives(r, n) <=> Outlives(s, n) /\ v[n].id \notin D
      <3>1. Outlives(r, n) <=> ~\E d \in r.ItemVDel : d >= n /\ w[d].id = w[n].id
        BY DEF Outlives
      <3>2. Outlives(s, n) <=> ~\E d \in s.ItemVDel : d >= n /\ v[d].id = v[n].id
        BY DEF Outlives
      <3>3. (\E d \in N+1..N+M : d >= n /\ w[d].id = v[n].id) <=> v[n].id \in D
        BY <1>5, <1>6
      <3>4. (\E d \in s.ItemVDel : d >= n /\ w[d].id = v[n].id) <=>
              \E d \in s.ItemVDel : d >= n /\ v[d].id = v[n].id
        BY <1>7
      <3>5. w[n] = v[n]
        BY <1>2
      <3> QED BY <1>2, <3>1, <3>2, <3>3, <3>4, <3>5
    <2>2. ASSUME NEW n \in N+1..N+M PROVE ~Outlives(r, n)
      <3>1. n \in r.ItemVDel /\ n >= n
        BY <1>2, <1>5
      <3> QED BY <3>1 DEF Outlives
    <2>3. Q = {n \in 1..N+M : Outlives(r, n)} /\ P = {n \in 1..N : Outlives(s, n)}
      BY <1>2 DEF Survivors, N
    <2> HIDE DEF P, Q
    <2> QED BY <1>5, <2>1, <2>2, <2>3
  <1> HIDE DEF P, Q, w, v
  <1>9. Worth(r)
    <2>1. AllFine(r.ChildInfoV)
      BY <1>2 DEF Worth
    <2>2. ~r.DeleteMarkerP => \A n \in 1..Len(w) : n \notin r.ItemVDel => w[n].fq > 0
      <3> SUFFICES ASSUME ~r.DeleteMarkerP, NEW n \in 1..Len(w), n \notin r.ItemVDel
                   PROVE  w[n].fq > 0
        OBVIOUS
      <3>1. n \in 1..N /\ n \notin s.ItemVDel
        BY <1>2, <1>5
      <3>2. v[n].fq > 0
        BY <1>2, <3>1 DEF Worth, v, N
      <3> QED BY <1>2, <3>1, <3>2
    <2> QED BY <1>2, <2>1, <2>2 DEF Worth, w
  <1>10. ASSUME NEW i \in Id
         PROVE  Frequency(r, i) = IF i \in D THEN 0 ELSE Frequency(s, i)
    <2> DEFINE g == IF IsMarked(s, i) THEN <<>> ELSE AllOf(s.ChildInfoV)
               h == IF IsMarked(r, i) THEN <<>> ELSE AllOf(r.ChildInfoV)
               a == PickedFrom(v, P)
               b == PickedFrom(w, Q)
    <2>1. g \in Seq(Item) /\ a \in Seq(Item) /\ Frequency(s, i) = Plus(TotalOrNone(g, i), TotalOrNone(a, i))
      BY <1>1, PendingIs DEF P, v
    <2>2. h \in Seq(Item) /\ b \in Seq(Item) /\ Frequency(r, i) = Plus(TotalOrNone(h, i), TotalOrNone(b, i))
      <3>1. Kids(r.ChildInfoV)
        BY <1>1, <1>2
      <3> QED BY <1>2, <3>1, PendingIs DEF Q, w
    <2>3. IsMarked(r, i) <=> IsMarked(s, i) \/ i \in D
      <3>1. IsMarked(r, i) <=> \E d \in r.ItemVDel : w[d].id = i
        BY DEF IsMarked, w
      <3>2. IsMarked(s, i) <=> \E d \in s.ItemVDel : v[d].id = i
        BY DEF IsMarked, v
      <3> QED BY <1>2, <1>6, <1>7, <3>1, <3>2
    <2>4. b = PickedFrom(v, Q)
      <3>1. Q \in SUBSET (1..Len(v)) /\ Q \in SUBSET (1..Len(w)) /\ \A n \in Q : w[n] = v[n]
        <4>1. \A n \in Q : n \in 1..N
          BY <1>8
        <4>2. Len(v) = N /\ Len(w) = N + M
          BY <1>2 DEF v, N
        <4> QED BY <1>2, <1>5, <4>1, <4>2
      <3> QED BY <1>1, <1>3, <3>1, PickedSame
    <2>5. P \in SUBSET (1..Len(v)) /\ Q \in SUBSET P
      BY <1>8 DEF v, N
    <2>6. CASE i \in D
      <3>1. h = <<>>
        BY <2>3, <2>6
      <3>2. TotalOrNone(h, i) = 0
        BY <3>1 DEF TotalOrNone, IdsIn
      <3>3. TotalOrNone(b, i) = 0
        <4>1. ASSUME NEW x \in Vals(b), x.id = i PROVE FALSE
          <5>1. Q \in SUBSET (1..Len(v))
            BY <2>5
          <5>2. Vals(PickedFrom(v, Q)) = {v[n] : n \in Q}
            BY <1>1, <5>1, PickedVals
          <5> DEFINE V == {v[n] : n \in Q}
          <5>3. x \in V
            BY <2>4, <5>2
          <5>4. PICK n \in Q : x = v[n]
            BY <5>3
          <5> QED BY <1>8, <2>6, <4>1, <5>4
        <4> HIDE DEF b
        <4> QED BY <2>2, <4>1, NoneHeld
      <3> HIDE DEF h, b
      <3>4. Plus(0, 0) = 0
        BY DEF Plus
      <3> QED BY <2>2, <2>6, <3>2, <3>3, <3>4
    <2>7. CASE i \notin D
      <3>1. h = g
        BY <1>2, <2>3, <2>7
      <3>2. TotalOrNone(PickedFrom(v, Q), i) = TotalOrNone(PickedFrom(v, P), i)
        <4>1. \A n \in P : n \notin Q => v[n].id # i
          BY <1>8, <2>7
        <4> QED BY <1>1, <2>5, <4>1, DropOthers
      <3>3. TotalOrNone(b, i) = TotalOrNone(a, i)
        BY <2>4, <3>2
      <3> HIDE DEF a, b, g, h
      <3> QED BY <2>1, <2>2, <2>7, <3>1, <3>3
    <2> QED BY <2>6, <2>7
  <1> QED BY <1>9, <1>10 DEF r

----
\* The steps of the posting list.
\* The frequencies below zero that r no longer has.
Forgave(r, s) == {i \in Id : Frequency(s, i) < 0 /\ Frequency(r, i) = 0}
Owing(s) == {i \in Id : Frequency(s, i) < 0}

LEMMA Forgets ==
  ASSUME NEW s, Fit(s), NEW r, Settles(r, s)
  PROVE  /\ Forgave(r, s) \in SUBSET Owing(s)
         /\ \A i \in Id : Frequency(r, i) = IF i \in Forgave(r, s) THEN 0 ELSE Frequency(s, i)
  <1>1. ASSUME NEW i \in Id
        PROVE  Frequency(r, i) = IF i \in Forgave(r, s) THEN 0 ELSE Frequency(s, i)
    <2> DEFINE f == Frequency(s, i)
    <2>1. f \in Int
      BY FrequencyInt
    <2>2. Frequency(r, i) = f \/ Frequency(r, i) = Shown(f)
      BY DEF Settles
    <2>3. i \in Forgave(r, s) <=> f < 0 /\ Frequency(r, i) = 0
      BY DEF Forgave
    <2> HIDE DEF f
    <2>4. Frequency(r, i) = IF i \in Forgave(r, s) THEN 0 ELSE f
      BY <2>1, <2>2, <2>3 DEF Shown
    <2> QED BY <2>4 DEF f
  <1> QED BY <1>1 DEF Forgave, Owing

LEMMA Keeps ==
  ASSUME Fit(set), Settles(set', set), call' = NoCall
  PROVE  Abs!Keep
  <1> DEFINE F == Forgave(set', set)
  <1>1. /\ F \in SUBSET Owing(set)
        /\ \A i \in Id : Frequency(set', i) = IF i \in F THEN 0 ELSE Frequency(set, i)
    BY Forgets
  <1> HIDE DEF F
  <1>2. F \in Abs!Debts
    BY <1>1 DEF Abs!Debts, Owing
  <1>3. [i \in Id |-> Frequency(set, i)]' = Abs!Forgiven(F)
    BY <1>1 DEF Abs!Forgiven
  <1> QED BY <1>2, <1>3 DEF Abs!Keep, Abs!None, NoCall

LEMMA Deletes ==
  ASSUME NEW D \in SUBSET Id, NEW F \in SUBSET Owing(set),
         \A i \in Id : Frequency(set', i) = IF i \in D THEN 0
                                            ELSE IF i \in F THEN 0 ELSE Frequency(set, i),
         call' = [op |-> "del", ids |-> D]
  PROVE  Abs!DelItemV(D)
  <1>1. F \in Abs!Debts
    BY DEF Abs!Debts, Owing
  <1>2. [i \in Id |-> Frequency(set, i)]' = [i \in Id |-> IF i \in D THEN 0 ELSE Abs!Forgiven(F)[i]]
    BY DEF Abs!Forgiven
  <1> QED BY <1>1, <1>2 DEF Abs!DelItemV, Abs!Del

LEMMA Adds ==
  ASSUME NEW i \in Id, NEW fq \in Fq, NEW F \in SUBSET Owing(set),
         \A j \in Id : Frequency(set', j) =
             IF j = i THEN (IF Summing THEN (IF i \in F THEN 0 ELSE Frequency(set, i)) + fq ELSE 1)
             ELSE IF j \in F THEN 0 ELSE Frequency(set, j),
         call' = [op |-> "add", id |-> i, fq |-> fq]
  PROVE  Abs!AddItem(i, fq)
  <1> DEFINE G == Abs!Forgiven(F)
  <1>1. F \in Abs!Debts
    BY DEF Abs!Debts, Owing
  <1>2. G = [j \in Id |-> IF j \in F THEN 0 ELSE Frequency(set, j)]
    BY DEF Abs!Forgiven
  <1>3. [j \in Id |-> Frequency(set, j)]' = [G EXCEPT ![i] = IF Summing THEN @ + fq ELSE 1]
    BY <1>2
  <1> QED BY <1>1, <1>3 DEF Abs!AddItem, Abs!Add

WInv == IInv /\ Worth(set)

LEMMA AddRefines ==
  ASSUME WInv, SplitLenMin # 0, NEW i \in Id, NEW fq \in Fq, AddItem(i, fq)
  PROVE  Worth(set') /\ Abs!AddItem(i, fq)
  <1> DEFINE x == [id |-> i, fq |-> fq]
             m == MakeRoom(set)
             F == Forgave(m, set)
  <1>1. x \in Item /\ x.id = i /\ x.fq = fq /\ fq \in Int
    BY IdAssumption DEF Item
  <1>2. set' = Extended(m, x) /\ call' = [op |-> "add", id |-> i, fq |-> fq]
    BY DEF AddItem, Becomes, Asked, Added
  <1> HIDE DEF x
  <1>3. Fit(set) /\ Worth(set)
    BY DEF WInv, IInv
  <1>4. Fit(m) /\ Worth(m) /\ Settles(m, set)
    BY <1>3, RoomFits, RoomSettles
  <1> HIDE DEF m
  <1>5. Worth(Extended(m, x))
        /\ \A j \in Id : Frequency(Extended(m, x), j) =
                           IF x.id = j THEN Plus(Frequency(m, j), Weight(x)) ELSE Frequency(m, j)
    BY <1>1, <1>4, ExtendedSettles
  <1>6. /\ F \in SUBSET Owing(set)
        /\ \A j \in Id : Frequency(m, j) = IF j \in F THEN 0 ELSE Frequency(set, j)
    BY <1>3, <1>4, Forgets
  <1> HIDE DEF F
  <1>7. ASSUME NEW j \in Id
        PROVE  Frequency(set', j) =
             IF j = i THEN (IF Summing THEN (IF i \in F THEN 0 ELSE Frequency(set, i)) + fq ELSE 1)
             ELSE IF j \in F THEN 0 ELSE Frequency(set, j)
    <2>1. Frequency(set', j) = IF i = j THEN Plus(Frequency(m, j), Weight(x)) ELSE Frequency(m, j)
      BY <1>1, <1>2, <1>5
    <2>2. Plus(Frequency(m, j), Weight(x)) = IF Summing THEN Frequency(m, j) + fq ELSE 1
      BY <1>1 DEF Plus, Weight
    <2> QED BY <1>6, <2>1, <2>2
  <1>8. Abs!AddItem(i, fq)
    BY <1>2, <1>6, <1>7, Adds
  <1> QED BY <1>2, <1>5, <1>8

LEMMA DelRefines ==
  ASSUME WInv, SplitLenMin # 0, NEW D \in SUBSET Id, DelItemV(D)
  PROVE  Worth(set') /\ Abs!DelItemV(D)
  <1> DEFINE ids == Ascending(D)
             m == MakeRoom(set)
             F == Forgave(m, set)
  <1>1. ids \in Seq(Id) /\ Enumerates(ids, D)
    BY IdOrder
  <1>2. set' = Marked(m, ids) /\ call' = [op |-> "del", ids |-> D]
    BY DEF DelItemV, Becomes, Asked, Deleted
  <1> HIDE DEF ids
  <1>3. Fit(set) /\ Worth(set)
    BY DEF WInv, IInv
  <1>4. Fit(m) /\ Worth(m) /\ Settles(m, set)
    BY <1>3, RoomFits, RoomSettles
  <1> HIDE DEF m
  <1>5. Worth(Marked(m, ids))
        /\ \A j \in Id : Frequency(Marked(m, ids), j) = IF j \in D THEN 0 ELSE Frequency(m, j)
    BY <1>1, <1>4, MarkedSettles
  <1>6. /\ F \in SUBSET Owing(set)
        /\ \A j \in Id : Frequency(m, j) = IF j \in F THEN 0 ELSE Frequency(set, j)
    BY <1>3, <1>4, Forgets
  <1> HIDE DEF F
  <1>7. \A j \in Id : Frequency(set', j) = IF j \in D THEN 0
                                           ELSE IF j \in F THEN 0 ELSE Frequency(set, j)
    BY <1>2, <1>5, <1>6
  <1>8. Abs!DelItemV(D)
    BY <1>2, <1>6, <1>7, Deletes
  <1> QED BY <1>2, <1>5, <1>8

LEMMA BelowRefines ==
  ASSUME WInv, SplitLenMin # 0, NEW m \in Id, DelItemsBelow(m)
  PROVE  Worth(set') /\ \E D \in SUBSET Id : Abs!DelItemV(D)
  <1> DEFINE r == OrForgotten(DeletedBelow(Def(set), m))
             D == {i \in Id : i < m}
             F == Owing(set)
  <1>1. set' = r /\ call' = [op |-> "del", ids |-> D]
    BY DEF DelItemsBelow, Becomes, Asked
  <1>2. Fit(set) /\ Worth(set) /\ m \in Nat
    BY IdAssumption DEF WInv, IInv
  <1>3. Worth(r) /\ \A i \in Id : Frequency(r, i) = IF i >= m THEN Shown(Frequency(set, i)) ELSE 0
    BY <1>2, DropSettles
  <1> HIDE DEF r
  <1>4. ASSUME NEW i \in Id
        PROVE  Frequency(set', i) = IF i \in D THEN 0 ELSE IF i \in F THEN 0 ELSE Frequency(set, i)
    <2>1. Frequency(set, i) \in Int /\ i \in Nat
      BY <1>2, FrequencyInt, IdAssumption
    <2>2. i \in D <=> ~(i >= m)
      BY <1>2, <2>1
    <2>3. i \in F <=> Frequency(set, i) < 0
      BY DEF Owing
    <2>4. Frequency(set', i) = IF i >= m THEN Shown(Frequency(set, i)) ELSE 0
      BY <1>1, <1>3
    <2> HIDE DEF D, F
    <2> QED BY <2>1, <2>2, <2>3, <2>4 DEF Shown
  <1>5. D \in SUBSET Id
    OBVIOUS
  <1> HIDE DEF D, F
  <1>6. Abs!DelItemV(D)
    <2>1. F \in SUBSET Owing(set)
      BY DEF F
    <2> QED BY <1>1, <1>4, <1>5, <2>1, Deletes
  <1> QED BY <1>1, <1>3, <1>5, <1>6

LEMMA ClrRefines ==
  ASSUME WInv, Clr
  PROVE  Worth(set') /\ \E D \in SUBSET Id : Abs!DelItemV(D)
  <1>1. set' = EmptySet(0) /\ call' = [op |-> "del", ids |-> Id]
    BY ClearedIs DEF Clr, Becomes, Asked, WInv, IInv
  <1>2. Worth(set') /\ \A i \in Id : Frequency(set', i) = 0
    BY <1>1, NewSettles
  <1>3. Abs!DelItemV(Id)
    <2>1. {} \in SUBSET Owing(set) /\ Id \in SUBSET Id
      OBVIOUS
    <2> QED BY <1>1, <1>2, <2>1, Deletes
  <1> QED BY <1>2, <1>3

LEMMA ReadRefines ==
  ASSUME WInv, SplitLenMin # 0, NEW P, Becomes(LoadedIn(Def(set), P)), call' = NoCall
  PROVE  Worth(set') /\ Abs!Keep
  <1> DEFINE d == Def(set)
             r == LoadedIn(d, P)
  <1>1. Fit(set) /\ Worth(set) /\ set' = r
    BY DEF WInv, IInv, Becomes
  <1>2. /\ Fit(d) /\ Worth(d) /\ d.MergedP
        /\ \A i \in Id : Frequency(d, i) = Shown(Frequency(set, i))
    BY <1>1, DefFits, DefSettles
  <1> HIDE DEF d
  <1>3. d.MergedP = TRUE
    BY <1>2, FitIs DEF Rec
  <1>4. SameButKids(r, d)
    BY <1>2, <1>3, ReadIs
  <1> HIDE DEF r
  <1>5. Worth(r) /\ \A i : Frequency(r, i) = Frequency(d, i)
    BY <1>2, <1>4, AlikeSettles
  <1>6. Settles(set', set)
    BY <1>1, <1>2, <1>5 DEF Settles
  <1> QED BY <1>1, <1>5, <1>6, Keeps

LEMMA RefreshRefines ==
  ASSUME WInv, RefreshMemUsed
  PROVE  Worth(set') /\ Abs!Keep
  <1>1. /\ Fit(set) /\ Worth(set) /\ ~set.MergedP /\ set' = DefLocal(set) /\ call' = NoCall
    BY DEF WInv, IInv, RefreshMemUsed, Becomes, Asked
  <1>2. Worth(DefLocal(set)) /\ Settles(DefLocal(set), set)
    BY <1>1, LocalSettles
  <1>3. Worth(set') /\ Settles(set', set)
    BY <1>1, <1>2
  <1> QED BY <1>1, <1>3, Keeps

LEMMA StoreRefines ==
  ASSUME WInv, SplitLenMin # 0, StoreSet
  PROVE  Worth(set') /\ Abs!Keep
  <1> DEFINE d == Def(set)
  <1>1. /\ Fit(set) /\ Worth(set) /\ call' = NoCall
        /\ set' = IF d.TotalCnt = 0 THEN Forgotten(d) ELSE Saved(d)
    BY DEF WInv, IInv, StoreSet, Becomes, Stored, Asked
  <1>2. /\ Fit(d) /\ Worth(d) /\ d.MergedP
        /\ \A i \in Id : Frequency(d, i) = Shown(Frequency(set, i))
    BY <1>1, DefFits, DefSettles
  <1> HIDE DEF d
  <1>3. CASE d.TotalCnt = 0
    <2>1. d.Blobs = 0
      BY <1>2, <1>3, NothingLeft
    <2>2. set' = EmptySet(0)
      BY <1>1, <1>3, <2>1, NewIs
    <2>3. \A i \in Id : Frequency(d, i) = 0
      BY <1>2, <1>3, UncountedSettles
    <2>4. Worth(set') /\ \A i \in Id : Frequency(set', i) = 0
      BY <2>2, NewSettles
    <2>5. Settles(set', set)
      <3>1. \A i \in Id : Frequency(set', i) = Shown(Frequency(set, i))
        BY <1>2, <2>3, <2>4
      <3> QED BY <3>1 DEF Settles
    <2> QED BY <1>1, <2>4, <2>5, Keeps
  <1>4. CASE d.TotalCnt # 0
    <2> DEFINE r == Saved(d)
    <2>1. SameButKids(r, d) /\ set' = r
      BY <1>1, <1>2, <1>4, SavedIs
    <2> HIDE DEF r
    <2>2. Worth(r) /\ \A i : Frequency(r, i) = Frequency(d, i)
      BY <1>2, <2>1, AlikeSettles
    <2>3. Settles(set', set)
      BY <1>2, <2>1, <2>2 DEF Settles
    <2> QED BY <1>1, <2>1, <2>2, <2>3, Keeps
  <1> QED BY <1>3, <1>4

LEMMA ReloadRefines ==
  ASSUME WInv, Reload
  PROVE  Worth(set') /\ Abs!Keep
  <1>1. /\ Fit(set) /\ Worth(set) /\ Clean(set) /\ Filed(set, disk) /\ ~set.DirtyP
        /\ set' = Loaded(disk, set.Blobs) /\ call' = NoCall
    BY DEF WInv, IInv, Reload, Asked
  <1>2. set.DirtyP = FALSE
    BY <1>1, FitIs DEF Rec
  <1>3. disk = Header(set) /\ set.MergedP
        /\ \A c \in 1..Len(set.ChildInfoV) : set.ChildInfoV[c].DirtyP = FALSE
    BY <1>1, <1>2 DEF Clean, Filed
  <1> DEFINE r == Loaded(Header(set), set.Blobs)
  <1>4. SameButKids(r, set) /\ set' = r
    BY <1>1, <1>3, LoadedIs
  <1> HIDE DEF r
  <1>5. Worth(r) /\ \A i : Frequency(r, i) = Frequency(set, i)
    BY <1>1, <1>4, AlikeSettles
  <1>6. Settles(set', set)
    BY <1>4, <1>5 DEF Settles
  <1> QED BY <1>1, <1>4, <1>5, <1>6, Keeps

LEMMA NextRefines ==
  ASSUME WInv, SplitLenMin # 0, Next
  PROVE  Worth(set') /\ Abs!Next
  <1>1. ASSUME NEW i \in Id, NEW fq \in Fq, AddItem(i, fq) PROVE Worth(set') /\ Abs!Next
    BY <1>1, AddRefines DEF Abs!Next
  <1>2. ASSUME NEW D \in SUBSET Id, DelItemV(D) PROVE Worth(set') /\ Abs!Next
    BY <1>2, DelRefines DEF Abs!Next
  <1>3. ASSUME NEW m \in Id, DelItemsBelow(m) PROVE Worth(set') /\ Abs!Next
    BY <1>3, BelowRefines DEF Abs!Next
  <1>4. ASSUME Clr PROVE Worth(set') /\ Abs!Next
    BY <1>4, ClrRefines DEF Abs!Next
  <1>5. ASSUME GetItemV PROVE Worth(set') /\ Abs!Keep
    <2>1. call' = NoCall
      BY <1>5 DEF GetItemV, Asked
    <2>2. Becomes(LoadedIn(Def(set), 1..Len(Def(set).ChildInfoV)))
      BY <1>5, GetItemVReads DEF WInv
    <2> QED BY <2>1, <2>2, ReadRefines
  <1>6. ASSUME NEW lo, NEW hi, GetItemVInRange(lo, hi) PROVE Worth(set') /\ Abs!Keep
    <2>1. call' = NoCall
      BY <1>6 DEF GetItemVInRange, Asked
    <2>2. Becomes(LoadedIn(Def(set), {c \in 1..Len(Def(set).ChildInfoV) :
                                        InRange(Def(set).ChildInfoV[c], lo, hi)}))
      BY <1>6, InRangeReads DEF WInv
    <2> QED BY <2>1, <2>2, ReadRefines
  <1>7. ASSUME RefreshMemUsed PROVE Worth(set') /\ Abs!Keep
    BY <1>7, RefreshRefines
  <1>8. ASSUME StoreSet PROVE Worth(set') /\ Abs!Keep
    BY <1>8, StoreRefines
  <1>9. ASSUME Reload PROVE Worth(set') /\ Abs!Keep
    BY <1>9, ReloadRefines
  <1> QED BY <1>1, <1>2, <1>3, <1>4, <1>5, <1>6, <1>7, <1>8, <1>9 DEF Next, Abs!Next

LEMMA WorthInit == Init => WInv /\ Abs!Init
  <1> SUFFICES ASSUME Init PROVE WInv /\ Abs!Init
    OBVIOUS
  <1>1. set = EmptySet(0) /\ call = NoCall
    BY NewIs DEF Init
  <1>2. Worth(set) /\ \A i \in Id : Frequency(set, i) = 0
    BY <1>1, NewSettles
  <1> QED BY <1>1, <1>2, InitIs DEF WInv, Abs!Init, Abs!None, NoCall

LEMMA WorthNext ==
  ASSUME SplitLenMin # 0
  PROVE  WInv /\ [Next]_vars => WInv' /\ [Abs!Next]_(Abs!vars)
  <1> SUFFICES ASSUME WInv, [Next]_vars PROVE WInv' /\ [Abs!Next]_(Abs!vars)
    OBVIOUS
  <1>1. IInv'
    BY NextIs DEF WInv
  <1>2. CASE Next
    <2>1. Worth(set') /\ Abs!Next
      BY <1>2, NextRefines
    <2> QED BY <1>1, <2>1 DEF WInv
  <1>3. CASE UNCHANGED vars
    <2>1. set' = set /\ call' = call
      BY <1>3 DEF vars
    <2>2. Worth(set')
      BY <2>1 DEF WInv
    <2>3. UNCHANGED (Abs!vars)
      BY <2>1 DEF Abs!vars
    <2> QED BY <1>1, <2>2, <2>3 DEF WInv
  <1> QED BY <1>2, <1>3

LEMMA ReadsAre == ASSUME WInv, SplitLenMin # 0 PROVE ReadsExact
  <1>1. Fit(set) /\ Worth(set) /\ IInv
    BY DEF WInv, IInv
  <1>2. DefExact
    BY <1>1, ReadsDue DEF DefExact
  <1>3. TotalCntExact
    BY <1>1 DEF Fit, TotalCntExact
  <1>4. RangeComplete
    BY <1>1, RangesComplete
  <1> QED BY <1>2, <1>3, <1>4 DEF ReadsExact

\* The invariant, and that no item is kept that a read must not show.
THEOREM WorthInvariant == ASSUME SplitLenMin # 0 PROVE Spec => []WInv
  <1>1. WInv /\ [Next]_vars => WInv'
    BY WorthNext
  <1>2. Init => WInv
    BY WorthInit
  <1> QED BY <1>1, <1>2, PTL DEF Spec

\* Whatever was added and deleted before, in any order, a read yields the items whose
\* frequency is positive, with that frequency, once each and in order; and TotalCnt and
\* the children between two bounds leave none of them out.
THEOREM ReadsStayExact == ASSUME SplitLenMin # 0 PROVE Spec => []ReadsExact
  <1>1. WInv => ReadsExact
    BY ReadsAre
  <1> QED BY <1>1, WorthInvariant, PTL

\* An item set does what PostingList promises: an addition, a deletion of items or of all
\* below one changes the frequencies it should and no other, and a child that is loaded,
\* saved, cut or joined, a merge and a reload change none.
THEOREM ItemSetIsAPostingList == ASSUME SplitLenMin # 0 PROVE Spec => ImplementsPostingList
  <1>1. WInv /\ [Next]_vars => [Abs!Next]_(Abs!vars)
    BY WorthNext
  <1>2. Init => Abs!Init
    BY WorthInit
  <1>3. Spec => Abs!Spec
    BY <1>1, <1>2, WorthInvariant, PTL DEF Spec, Abs!Spec
  <1> QED BY <1>3 DEF ImplementsPostingList
===============================================================================
