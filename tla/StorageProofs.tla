--------------------------- MODULE StorageProofs ---------------------------
(***************************************************************************)
(* Proofs about the two storages that a field of a record may be in:       *)
(* WndBlockCache, on disk behind a cache of blocks, and InMemStorage       *)
(* (InCore).  For both: an inductive invariant, that what is not marked as *)
(* changed is on disk as it is, and that the storage does what ValueStore  *)
(* promises, whatever the cache drops, and whatever is flushed or loaded   *)
(* when.                                                                   *)
(***************************************************************************)
EXTENDS WndBlockCache, TLAPS, SequenceTheorems, WellFoundedInduction

CONSTANTS
  Blank,            \* what is left of a value in memory that is deleted or not loaded
  Lazy, LoadsFirst  \* is the storage in memory opened lazily, and loaded before it is changed?

VARIABLES memVals, memFlags, memBlobs, memOffset, memFirst

InCore == INSTANCE InMemStorage WITH
  ValV <- memVals, DirtyV <- memFlags, BlobPtV <- memBlobs,
  FirstValOffset <- memOffset, FirstValOffsetMem <- memFirst

(***************************************************************************)
(* The cache.  Put fills the cache for a block that is about to come, so   *)
(* what is said of the blocks leaves out those in X.                       *)
(***************************************************************************)
BlocksOf(c) == FirstBlockOffset..LastBlock(c)
Hold(c, b) == IF b \in DOMAIN c.cache THEN c.cache[b].ValV ELSE c.blobs[Place(b)]
Cached == [ValV : Seq(Value), ChangedP : BOOLEAN]
Shape(c) ==
  /\ c = [cache |-> c.cache, order |-> c.order, cur |-> c.cur, blobs |-> c.blobs]
  /\ c.cache \in [DOMAIN c.cache -> Cached]
  /\ DOMAIN c.cache \subseteq BlocksOf(c)
  /\ c.order \in Seq(DOMAIN c.cache)
  /\ c.blobs \in Seq(Seq(Value) \cup {Empty})
Safe(c, X) ==
  \A b \in BlocksOf(c) \ X :
    \/ b \in DOMAIN c.cache /\ c.cache[b].ChangedP
    \/ c.blobs[Place(b)] # Empty /\ c.blobs[Place(b)] = Hold(c, b)
Same(c, d, X) == Len(d.blobs) = Len(c.blobs) /\ \A b \in BlocksOf(c) \ X : Hold(d, b) = Hold(c, b)

LEMMA Places ==
  ASSUME FirstBlockOffset \in Nat, NEW c, Shape(c)
  PROVE  /\ Len(c.blobs) \in Nat /\ DOMAIN c.blobs = 1..Len(c.blobs)
         /\ LastBlock(c) \in Int /\ LastBlock(c) = FirstBlockOffset + Len(c.blobs) - 1
         /\ \A b \in BlocksOf(c) : b \in Nat /\ Place(b) \in DOMAIN c.blobs
            /\ FirstBlockOffset + Place(b) - 1 = b
  BY DEF Shape, Place, BlocksOf, LastBlock

LEMMA SavedKeeps ==
  ASSUME Careful, FirstBlockOffset \in Nat, NEW c, NEW X, Shape(c), Safe(c, X),
           NEW bs \in SUBSET DOMAIN c.cache,
         NEW d, d = Saved(c, bs)
  PROVE  /\ Shape(d) /\ Safe(d, X) /\ Same(c, d, X)
         /\ DOMAIN d.cache = DOMAIN c.cache /\ d.order = c.order
         /\ \A b \in DOMAIN c.cache : d.cache[b].ValV = c.cache[b].ValV
         /\ \A b \in bs : ~d.cache[b].ChangedP
  <1> DEFINE written == {b \in bs : c.cache[b].ChangedP}
             blobs == [i \in DOMAIN c.blobs |-> IF FirstBlockOffset + i - 1 \in written
                                                THEN c.cache[FirstBlockOffset + i - 1].ValV ELSE c.blobs[i]]
             cache == [b \in DOMAIN c.cache |-> IF b \in written THEN Block(c.cache[b].ValV, FALSE) ELSE c.cache[b]]
  <1>1. /\ Len(c.blobs) \in Nat /\ DOMAIN c.blobs = 1..Len(c.blobs)
        /\ \A b \in BlocksOf(c) : b \in Nat /\ Place(b) \in DOMAIN c.blobs
           /\ FirstBlockOffset + Place(b) - 1 = b
    BY Places
  <1>2. d = [c EXCEPT !.blobs = blobs, !.cache = cache]
    BY DEF Saved
  <1>3. \A b \in DOMAIN c.cache : c.cache[b] \in Cached /\ b \in BlocksOf(c)
    BY DEF Shape
  <1>4. /\ blobs \in Seq(Seq(Value) \cup {Empty}) /\ Len(blobs) = Len(c.blobs)
        /\ \A b \in BlocksOf(c) : blobs[Place(b)] = IF b \in written THEN c.cache[b].ValV ELSE c.blobs[Place(b)]
    <2>1. \A i \in 1..Len(c.blobs) : blobs[i] \in Seq(Value) \cup {Empty}
      BY <1>1, <1>3 DEF Shape, Cached
    <2>2. blobs \in Seq(Seq(Value) \cup {Empty}) /\ Len(blobs) = Len(c.blobs)
      <3> DEFINE S == Seq(Value) \cup {Empty}
      <3>1. blobs = [i \in 1..Len(c.blobs) |-> blobs[i]] /\ \A i \in 1..Len(c.blobs) : blobs[i] \in S
        BY <1>1, <2>1
      <3> HIDE DEF blobs, S
      <3>2. blobs \in Seq(S) /\ Len(blobs) = Len(c.blobs)
        BY <1>1, <3>1
      <3> QED BY <3>2 DEF S
    <2> QED BY <1>1, <2>2
  <1>5. \A b \in DOMAIN c.cache : cache[b] \in Cached /\ cache[b].ValV = c.cache[b].ValV
                                  /\ (b \in written => ~cache[b].ChangedP) /\ (b \notin written
                                     => cache[b] = c.cache[b])
    BY <1>3 DEF Cached, Block
  <1>6. cache \in [DOMAIN c.cache -> Cached]
    BY <1>5
  <1>7. DOMAIN cache = DOMAIN c.cache
    OBVIOUS
  <1>8. \A b \in bs : ~cache[b].ChangedP
    <2>1. \A b \in bs : b \notin written => ~c.cache[b].ChangedP
      OBVIOUS
    <2> HIDE DEF written, cache
    <2> QED BY <1>5, <2>1
  <1>9. \A b \in written : b \in DOMAIN c.cache
    OBVIOUS
  <1> HIDE DEF blobs, cache, written
  <1>10. d.blobs = blobs /\ d.cache = cache /\ d.order = c.order
    BY <1>2 DEF Shape
  <1>11. d = [cache |-> d.cache, order |-> d.order, cur |-> d.cur, blobs |-> d.blobs]
    BY <1>2 DEF Shape
  <1>12. BlocksOf(d) = BlocksOf(c)
    BY <1>4, <1>10 DEF BlocksOf, LastBlock
  <1>13. Shape(d)
    BY <1>4, <1>6, <1>7, <1>10, <1>11, <1>12 DEF Shape
  <1>14. \A b \in BlocksOf(c) : Hold(d, b) = Hold(c, b)
    BY <1>4, <1>5, <1>7, <1>9, <1>10 DEF Hold
  <1>15. Safe(d, X)
    <2> SUFFICES ASSUME NEW b \in BlocksOf(c) \ X, ~(b \in DOMAIN cache /\ cache[b].ChangedP)
                 PROVE  blobs[Place(b)] # Empty /\ blobs[Place(b)] = Hold(c, b)
      BY <1>10, <1>12, <1>14 DEF Safe
    <2>1. CASE b \in written
      <3>1. blobs[Place(b)] = c.cache[b].ValV /\ b \in DOMAIN c.cache
        BY <1>4, <1>9, <2>1
      <3> QED BY <1>3, <3>1 DEF Careful, Hold, Cached
    <2>2. CASE b \notin written
      <3>1. ~(b \in DOMAIN c.cache /\ c.cache[b].ChangedP) /\ blobs[Place(b)] = c.blobs[Place(b)]
        BY <1>4, <1>5, <1>7, <2>2
      <3> QED BY <3>1 DEF Safe
    <2> QED BY <2>1, <2>2
  <1> QED BY <1>4, <1>5, <1>7, <1>8, <1>10, <1>13, <1>14, <1>15 DEF Same

(***************************************************************************)
(* Numbers.                                                                *)
(***************************************************************************)
LEMMA DivMod ==
  ASSUME NEW B \in Nat \ {0}, NEW n \in Nat
  PROVE  n \div B \in Nat /\ n % B \in 0..B - 1 /\ n = (n \div B) * B + (n % B)
  <1>1. n \div B \in Int /\ n % B \in 0..B - 1 /\ n = (n \div B) * B + (n % B)
    OBVIOUS
  <1>2. n \div B >= 0
    OBVIOUS
  <1> QED BY <1>1, <1>2

LEMMA DivModUnique ==
  ASSUME NEW B \in Nat \ {0}, NEW n \in Nat, NEW q \in Int, NEW r \in 0..B - 1, n = q * B + r
  PROVE  n \div B = q /\ n % B = r
  <1>1. ASSUME NEW x \in Int, x >= 1 PROVE x * B >= B
    BY <1>1
  <1> DEFINE p == n \div B
             s == n % B
  <1>2. p \in Int /\ s \in 0..B - 1 /\ n = p * B + s
    BY DivMod
  <1> HIDE DEF p, s
  <1>3. (q - p) * B = s - r
    BY <1>2
  <1>4. ~(q - p >= 1)
    BY <1>1, <1>2, <1>3
  <1>5. ~(p - q >= 1)
    <2>1. (p - q) * B = r - s
      BY <1>2
    <2> QED BY <1>1, <1>2, <2>1
  <1>6. q = p /\ r = s
    BY <1>2, <1>4, <1>5
  <1> QED BY <1>6 DEF p, s

\* Multiples of the block size are in the order of their factors.
LEMMA Multiples ==
  ASSUME NEW B \in Nat \ {0}, NEW p \in Int, NEW q \in Int
  PROVE  p < q <=> p * B + B <= q * B
  <1>1. ASSUME NEW x \in Int, x >= 1 PROVE x * B >= B
    BY <1>1
  <1>2. (q - p) * B = q * B - p * B
    OBVIOUS
  <1>3. (p - q) * B = p * B - q * B
    OBVIOUS
  <1>4. p < q => p * B + B <= q * B
    BY <1>1, <1>2
  <1>5. p > q => q * B + B <= p * B
    BY <1>1, <1>3
  <1> QED BY <1>4, <1>5

(***************************************************************************)
(* Sequences.                                                              *)
(***************************************************************************)
\* What is left of a sequence without its first d elements.
CutOff(s, d, n) == SubSeq(s, d + 1, n)
EndsIn(s, d, n, S) == \A i \in d + 1..n : s[i] \in S
IsCut(t, s, d, n, S) == t \in Seq(S) /\ Len(t) = n - d /\ \A i \in 1..n - d : t[i] = s[d + i]

LEMMA Cut ==
  ASSUME NEW S, NEW s, NEW d \in Nat, NEW n \in Nat, d <= n, EndsIn(s, d, n, S)
  PROVE  IsCut(CutOff(s, d, n), s, d, n, S)
  <1> DEFINE g == d + 1
             t == SubSeq(s, g, n)
  <1>1. g \in Int /\ n \in Int /\ n - g + 1 = n - d /\ (g <= n \/ n - d = 0)
    OBVIOUS
  <1>2. \A i \in 1..n - d : g + i - 1 = d + i
    OBVIOUS
  <1>3. \A i \in g..n : s[i] \in S
    BY DEF EndsIn
  <1> HIDE DEF g
  <1>4. /\ t \in Seq(S) /\ Len(t) = IF g <= n THEN n - g + 1 ELSE 0
        /\ \A i \in 1..n - g + 1 : t[i] = s[g + i - 1]
    BY <1>1, <1>3, SubSeqProperties
  <1> HIDE DEF t
  <1>5. Len(t) = n - d /\ \A i \in 1..n - d : t[i] = s[d + i]
    BY <1>1, <1>2, <1>4
  <1> QED BY <1>4, <1>5 DEF t, g, CutOff, IsCut

LEMMA Appended ==
  ASSUME NEW W, NEW s \in Seq(W), NEW v
  PROVE  Append(s, v) = [i \in 1..Len(s) + 1 |-> IF i = Len(s) + 1 THEN v ELSE s[i]]
  <1> DEFINE t == Append(s, v)
  <1>1. /\ t \in Seq(W \cup {v}) /\ Len(t) = Len(s) + 1 /\ Len(s) \in Nat
        /\ \A i \in 1..Len(s) + 1 : t[i] = IF i = Len(s) + 1 THEN v ELSE s[i]
    OBVIOUS
  <1> HIDE DEF t
  <1>2. t = [i \in 1..Len(t) |-> t[i]]
    BY <1>1
  <1>3. t = [i \in 1..Len(s) + 1 |-> IF i = Len(s) + 1 THEN v ELSE s[i]]
    BY <1>1, <1>2
  <1> QED BY <1>3 DEF t

(***************************************************************************)
(* Induction over the natural numbers, and the functions it defines.       *)
(***************************************************************************)
\* Of numbers there is a least one.
LEMMA Least ==
  ASSUME NEW S \in SUBSET Nat, S # {}
  PROVE  \E n \in S : \A k \in S : n <= k
  <1> DEFINE Less == OpToRel(<, Nat)
  <1>1. \A m, n \in Nat : <<m, n>> \in Less <=> m < n
    BY DEF OpToRel
  <1>2. IsWellFoundedOn(Less, Nat)
    BY NatLessThanWellFounded
  <1> HIDE DEF Less
  <1>3. PICK n \in S : \A m \in S : ~(<<m, n>> \in Less)
    BY <1>2, WFMin
  <1>4. \A k \in S : n \in Nat /\ k \in Nat /\ ~(k < n)
    BY <1>1, <1>3
  <1> QED BY <1>4

LEMMA Induct ==
  ASSUME NEW S, 0 \in S, \A n \in Nat : n \in S => n + 1 \in S
  PROVE  Nat \subseteq S
  <1> SUFFICES ASSUME Nat \ S # {} PROVE FALSE
    OBVIOUS
  <1>1. PICK n \in Nat \ S : \A k \in Nat \ S : n <= k
    BY Least
  <1>2. n \in Nat /\ n # 0 /\ n - 1 \in Nat /\ ~(n <= n - 1) /\ n - 1 + 1 = n
    BY <1>1
  <1> QED BY <1>1, <1>2

Recurs(g, R, b, N, T) == g \in [0..N -> R] /\ \A n \in 0..N : g[n] = IF n = 0 THEN b ELSE T[n][g[n - 1]]

LEMMA Recursion ==
  ASSUME NEW R, NEW b \in R, NEW N \in Nat, NEW T \in [1..N -> [R -> R]]
  PROVE  \E g : Recurs(g, R, b, N, T)
  <1> DEFINE Is(g, m) == g \in [0..m -> R] /\ \A n \in 0..m : g[n] = IF n = 0 THEN b ELSE T[n][g[n - 1]]
             S == {m \in Nat : m <= N => \E g : Is(g, m)}
  <1>1. 0 \in S
    <2>1. Is([n \in 0..0 |-> b], 0)
      OBVIOUS
    <2> QED BY <2>1
  <1>2. ASSUME NEW m \in Nat, m \in S PROVE m + 1 \in S
    <2> SUFFICES ASSUME m + 1 <= N PROVE \E g : Is(g, m + 1)
      OBVIOUS
    <2>1. PICK g : Is(g, m)
      BY <1>2
    <2> DEFINE h == [n \in 0..m + 1 |-> IF n = m + 1 THEN T[m + 1][g[m]] ELSE g[n]]
    <2>2. g[m] \in R /\ m + 1 \in 1..N
      BY <2>1
    <2>3. T[m + 1][g[m]] \in R
      BY <2>2
    <2>4. h \in [0..m + 1 -> R]
      BY <2>1, <2>3
    <2>5. ASSUME NEW n \in 0..m + 1 PROVE h[n] = IF n = 0 THEN b ELSE T[n][h[n - 1]]
      <3>1. CASE n = m + 1
        <4>1. m + 1 # 0 /\ n - 1 = m /\ m \in 0..m + 1 /\ m # m + 1
          BY <3>1
        <4> QED BY <3>1, <4>1
      <3>2. CASE n # m + 1
        <4>1. n \in 0..m /\ (n # 0 => n - 1 \in 0..m + 1 /\ n - 1 # m + 1)
          BY <3>2
        <4> QED BY <2>1, <3>2, <4>1
      <3> QED BY <3>1, <3>2
    <2>6. Is(h, m + 1)
      BY <2>4, <2>5
    <2> HIDE DEF h, Is
    <2> QED BY <2>6
  <1>3. Nat \subseteq S
    <2> HIDE DEF S
    <2> QED BY <1>1, <1>2, Induct
  <1>4. PICK g : Is(g, N)
    BY <1>3
  <1> QED BY <1>4 DEF Recurs

\* What is left out of an order is not in it.
LEMMA RestIs ==
  ASSUME NEW S, NEW s \in Seq(S), NEW bs
  PROVE  Rest(s, bs) \in Seq(S \ bs)
  <1> DEFINE N == Len(s)
             R == Seq(S \ bs)
             T == [i \in 1..N |-> [t \in R |-> IF s[i] \in bs THEN t ELSE Append(t, s[i])]]
             Is(g) == g = [i \in 0..N |-> IF i = 0 THEN <<>> ELSE IF s[i] \in bs THEN g[i - 1] ELSE Append(g[i - 1], s[i])]
             rest == CHOOSE g : Is(g)
  <1>1. N \in Nat /\ <<>> \in R /\ \A i \in 1..N : s[i] \in S
    OBVIOUS
  <1>2. \A i \in 1..N, t \in R : (IF s[i] \in bs THEN t ELSE Append(t, s[i])) \in R
    BY <1>1
  <1>3. T \in [1..N -> [R -> R]]
    <2> HIDE DEF R, N
    <2> QED BY <1>2
  <1>4. PICK g \in [0..N -> R] : \A n \in 0..N : g[n] = IF n = 0 THEN <<>> ELSE T[n][g[n - 1]]
    <2> HIDE DEF R, N, T
    <2>1. \E g : Recurs(g, R, <<>>, N, T)
      BY <1>1, <1>3, Recursion
    <2> QED BY <2>1 DEF Recurs
  <1>5. Is(g)
    <2>1. ASSUME NEW n \in 0..N, n # 0
          PROVE T[n][g[n - 1]] = IF s[n] \in bs THEN g[n - 1] ELSE Append(g[n - 1], s[n])
      <3>1. n \in 1..N /\ n - 1 \in 0..N
        BY <1>1, <2>1
      <3> HIDE DEF N, R
      <3>2. g[n - 1] \in R
        BY <3>1
      <3> QED BY <3>1, <3>2
    <2> HIDE DEF T, R, N
    <2> QED BY <1>4, <2>1
  <1>6. Is(rest)
    <2> HIDE DEF Is
    <2> QED BY <1>5
  <1>7. Rest(s, bs) = rest[N]
    BY DEF Rest
  <1>8. \A n \in 0..N : rest[n] = IF n = 0 THEN <<>> ELSE IF s[n] \in bs THEN rest[n - 1] ELSE Append(rest[n - 1], s[n])
    BY <1>6
  <1> HIDE DEF rest, R, N
  <1> DEFINE P == {n \in Nat : n \in 0..N => rest[n] \in R}
  <1>9. 0 \in P
    BY <1>1, <1>8
  <1>10. ASSUME NEW n \in Nat, n \in P PROVE n + 1 \in P
    <2> SUFFICES ASSUME n + 1 \in 0..N PROVE rest[n + 1] \in R
      OBVIOUS
    <2> DEFINE k == n + 1
    <2>1. k \in 1..N /\ k \in 0..N /\ k # 0 /\ k - 1 = n /\ n \in 0..N
      BY <1>1
    <2> HIDE DEF k
    <2>2. rest[k] = IF s[k] \in bs THEN rest[n] ELSE Append(rest[n], s[k])
      BY <1>8, <2>1
    <2>3. rest[k] \in R
      BY <1>2, <1>10, <2>1, <2>2
    <2> QED BY <2>3 DEF k
  <1>11. Nat \subseteq P
    <2> HIDE DEF P
    <2> QED BY <1>9, <1>10, Induct
  <1>12. rest[N] \in R
    BY <1>1, <1>11
  <1> QED BY <1>7, <1>12 DEF R

LEMMA DeletedKeeps ==
  ASSUME Careful, FirstBlockOffset \in Nat, NEW c, NEW X, Shape(c), Safe(c, X),
           NEW bs \in SUBSET DOMAIN c.cache,
         \A b \in bs : ~c.cache[b].ChangedP,
         NEW d, d = Deleted(c, bs)
  PROVE  /\ Shape(d) /\ Safe(d, X) /\ Same(c, d, X) /\ DOMAIN d.cache = DOMAIN c.cache \ bs
         /\ \A b \in DOMAIN d.cache : d.cache[b] = c.cache[b]
  <1>1. /\ d.cache = Without(c.cache, bs) /\ d.order = Rest(c.order, bs) /\ d.blobs = c.blobs
        /\ d = [cache |-> d.cache, order |-> d.order, cur |-> d.cur, blobs |-> d.blobs]
    BY DEF Deleted, Shape
  <1>2. DOMAIN d.cache = DOMAIN c.cache \ bs /\ \A b \in DOMAIN d.cache : d.cache[b] = c.cache[b]
    BY <1>1 DEF Without
  <1>3. d.cache \in [DOMAIN d.cache -> Cached]
    BY <1>1, <1>2 DEF Without, Shape
  <1>4. d.order \in Seq(DOMAIN d.cache)
    BY <1>1, <1>2, RestIs DEF Shape
  <1>5. BlocksOf(d) = BlocksOf(c)
    BY <1>1 DEF BlocksOf, LastBlock
  <1>6. Shape(d)
    BY <1>1, <1>2, <1>3, <1>4, <1>5 DEF Shape
  <1>7. \A b \in BlocksOf(c) \ X : Hold(d, b) = Hold(c, b)
    BY <1>1, <1>2 DEF Hold, Safe
  <1>8. Safe(d, X)
    BY <1>1, <1>2, <1>5, <1>7 DEF Safe
  <1> QED BY <1>1, <1>2, <1>6, <1>7, <1>8 DEF Same

LEMMA DroppedKeeps ==
  ASSUME Careful, FirstBlockOffset \in Nat, NEW c, NEW X, Shape(c), Safe(c, X),
           NEW bs \in SUBSET DOMAIN c.cache,
         NEW d, d = Dropped(c, bs)
  PROVE  Shape(d) /\ Safe(d, X) /\ Same(c, d, X) /\ DOMAIN d.cache = DOMAIN c.cache \ bs
  <1> DEFINE e == Saved(c, bs)
  <1>1. /\ Shape(e) /\ Safe(e, X) /\ Same(c, e, X) /\ DOMAIN e.cache = DOMAIN c.cache
        /\ \A b \in bs : ~e.cache[b].ChangedP
    BY SavedKeeps
  <1>2. d = Deleted(e, bs)
    BY DEF Dropped
  <1> HIDE DEF e
  <1>3. Shape(d) /\ Safe(d, X) /\ Same(e, d, X) /\ DOMAIN d.cache = DOMAIN e.cache \ bs
    BY <1>1, <1>2, DeletedKeeps
  <1>4. BlocksOf(e) = BlocksOf(c)
    BY <1>1 DEF Same, BlocksOf, LastBlock
  <1> QED BY <1>1, <1>3, <1>4 DEF Same

LEMMA PurgeKeeps ==
  ASSUME Careful, FirstBlockOffset \in Nat, NEW c, NEW X, Shape(c), Safe(c, X), NEW mem,
           NEW d, d = Purge(c, mem)
  PROVE  Shape(d) /\ Safe(d, X) /\ Same(c, d, X) /\ DOMAIN d.cache \subseteq DOMAIN c.cache
  <1> DEFINE freed(n) == Total([b \in LastOf(c, n) |-> MemUsed(c.cache[b])])
             enough == {n \in 0..Len(c.order) : freed(n) >= mem \/ n = Len(c.order)}
             least == CHOOSE n \in enough : \A k \in enough : n <= k
  <1>1. Len(c.order) \in Nat /\ \A i \in 1..Len(c.order) : c.order[i] \in DOMAIN c.cache
    BY DEF Shape
  <1>2. least \in 0..Len(c.order)
    <2> HIDE DEF freed
    <2>1. enough \in SUBSET Nat /\ Len(c.order) \in enough /\ \A n \in enough : n \in 0..Len(c.order)
      BY <1>1
    <2> HIDE DEF enough
    <2>2. \E n \in enough : \A k \in enough : n <= k
      BY <2>1, Least
    <2>3. least \in enough
      BY <2>2
    <2> QED BY <2>1, <2>3
  <1>3. d = Dropped(c, LastOf(c, least))
    BY DEF Purge
  <1> HIDE DEF least, enough
  <1>4. LastOf(c, least) \in SUBSET DOMAIN c.cache
    <2>1. \A i \in Len(c.order) - least + 1..Len(c.order) : i \in 1..Len(c.order)
      BY <1>1, <1>2
    <2> QED BY <1>1, <2>1 DEF LastOf
  <1> QED BY <1>3, <1>4, DroppedKeeps

LEMMA PutKeeps ==
  ASSUME Careful, FirstBlockOffset \in Nat, NEW c, NEW b, b \in BlocksOf(c), Shape(c), Safe(c, {b}),
         NEW block \in Cached,
         block.ChangedP \/ (Safe(c, {}) /\ block.ValV = Hold(c, b)),
         b \in DOMAIN c.cache => block = c.cache[b],
         NEW d, d = Put(c, b, block)
  PROVE  /\ Shape(d) /\ Safe(d, {}) /\ Same(c, d, {b}) /\ b \in DOMAIN d.cache /\ d.cache[b] = block
  <1> DEFINE r == IF b \in DOMAIN c.cache THEN c
                  ELSE IF MustPurge(c, MemUsed(block)) THEN Purge(c, Greater(PurgeMem, MemUsed(block))) ELSE c
  <1>1. /\ Shape(r) /\ Safe(r, {b}) /\ Same(c, r, {b}) /\ DOMAIN r.cache \subseteq DOMAIN c.cache
        /\ (Safe(c, {}) => Safe(r, {}) /\ Hold(r, b) = Hold(c, b))
    <2>1. Same(c, c, {b})
      BY DEF Same
    <2> DEFINE p == Purge(c, Greater(PurgeMem, MemUsed(block)))
    <2>2. Shape(p) /\ Safe(p, {b}) /\ Same(c, p, {b}) /\ DOMAIN p.cache \subseteq DOMAIN c.cache
      BY PurgeKeeps
    <2>3. Safe(c, {}) => Safe(p, {}) /\ Same(c, p, {})
      BY PurgeKeeps
    <2>4. Safe(c, {}) => Safe(p, {}) /\ Hold(p, b) = Hold(c, b)
      BY <2>3 DEF Same
    <2> QED BY <2>1, <2>2, <2>4
  <1>2. /\ d.cache = IF b \in DOMAIN c.cache THEN [c.cache EXCEPT ![b] = block]
                     ELSE [k \in DOMAIN r.cache \cup {b} |-> IF k = b THEN block ELSE r.cache[k]]
        /\ d.order = ToFront(r.order, b) /\ d.blobs = r.blobs
        /\ d = [cache |-> d.cache, order |-> d.order, cur |-> d.cur, blobs |-> d.blobs]
    <2> HIDE DEF r
    <2>1. CASE b \in DOMAIN c.cache
      <3>1. r = c /\ d = [c EXCEPT !.cache[b] = block, !.order = ToFront(@, b)]
        BY <2>1 DEF Put, r
      <3> QED BY <2>1, <3>1 DEF Shape
    <2>2. CASE b \notin DOMAIN c.cache
      <3>1. d = [r EXCEPT !.cache = [k \in DOMAIN @ \cup {b} |-> IF k = b THEN block ELSE @[k]],
                          !.order = ToFront(@, b), !.cur = @ + MemUsed(block)]
        BY <2>2 DEF Put, r
      <3> QED BY <1>1, <2>2, <3>1 DEF Shape
    <2> QED BY <2>1, <2>2
  <1>3. b \in DOMAIN c.cache => r.cache = c.cache
    OBVIOUS
  <1> HIDE DEF r
  <1>4. /\ DOMAIN d.cache = DOMAIN r.cache \cup {b} /\ d.cache[b] = block
        /\ \A k \in DOMAIN r.cache : k # b => d.cache[k] = r.cache[k]
    BY <1>2, <1>3
  <1>5. d.cache \in [DOMAIN d.cache -> Cached]
    <2>1. \A k \in DOMAIN d.cache : d.cache[k] \in Cached
      BY <1>1, <1>4 DEF Shape
    <2>2. d.cache = [k \in DOMAIN d.cache |-> d.cache[k]]
      BY <1>1, <1>2, <1>3 DEF Shape
    <2> QED BY <2>1, <2>2
  <1>6. BlocksOf(d) = BlocksOf(c) /\ BlocksOf(r) = BlocksOf(c)
    BY <1>1, <1>2 DEF Same, BlocksOf, LastBlock
  <1>7. d.order \in Seq(DOMAIN d.cache)
    <2> DEFINE S == DOMAIN d.cache
               rest == Rest(r.order, {b})
    <2>1. r.order \in Seq(S) /\ b \in S
      BY <1>1, <1>4 DEF Shape
    <2> HIDE DEF S
    <2>2. rest \in Seq(S \ {b})
      BY <2>1, RestIs
    <2>3. d.order = <<b>> \o rest
      BY <1>2 DEF ToFront
    <2> HIDE DEF rest
    <2>4. d.order \in Seq(S)
      BY <2>1, <2>2, <2>3
    <2> QED BY <2>4 DEF S
  <1>8. Shape(d)
    BY <1>1, <1>2, <1>4, <1>5, <1>6, <1>7 DEF Shape
  <1>9. \A k \in BlocksOf(c) \ {b} : Hold(d, k) = Hold(r, k) /\ Hold(r, k) = Hold(c, k)
    BY <1>1, <1>2, <1>4 DEF Hold, Same
  <1>10. Hold(d, b) = block.ValV
    BY <1>4 DEF Hold
  <1>11. Safe(d, {})
    <2> SUFFICES ASSUME NEW k \in BlocksOf(c), ~(k \in DOMAIN d.cache /\ d.cache[k].ChangedP)
                 PROVE  d.blobs[Place(k)] # Empty /\ d.blobs[Place(k)] = Hold(d, k)
      BY <1>6 DEF Safe
    <2>1. CASE k = b
      <3>1. ~block.ChangedP /\ Safe(r, {}) /\ Hold(d, b) = Hold(r, b)
        BY <1>1, <1>4, <1>10, <2>1
      <3>2. ~(b \in DOMAIN r.cache /\ r.cache[b].ChangedP)
        BY <1>1, <1>3, <3>1
      <3> QED BY <1>2, <1>6, <2>1, <3>1, <3>2 DEF Safe
    <2>2. CASE k # b
      <3>1. k \in BlocksOf(r) \ {b} /\ ~(k \in DOMAIN r.cache /\ r.cache[k].ChangedP)
        BY <1>4, <1>6, <2>2
      <3>2. r.blobs[Place(k)] # Empty /\ r.blobs[Place(k)] = Hold(r, k)
        BY <1>1, <3>1 DEF Safe
      <3> QED BY <1>2, <1>6, <1>9, <3>1, <3>2
    <2> QED BY <2>1, <2>2
  <1> QED BY <1>1, <1>2, <1>4, <1>8, <1>9, <1>11 DEF Same

\* A block that is asked for is there, and nothing changed.
LEMMA GetKeeps ==
  ASSUME Careful, FirstBlockOffset \in Nat, NEW c, NEW b, b \in BlocksOf(c), Shape(c), Safe(c, {}),
           NEW d, d = GetBlock(c, b)
  PROVE  Shape(d) /\ Safe(d, {}) /\ Same(c, d, {}) /\ b \in DOMAIN d.cache
  <1> DEFINE block == IF b \in DOMAIN c.cache THEN c.cache[b] ELSE Block(c.blobs[Place(b)], FALSE)
  <1>1. Place(b) \in DOMAIN c.blobs
    BY Places
  <1>2. block \in Cached /\ block.ValV = Hold(c, b)
    <2>1. CASE b \in DOMAIN c.cache
      BY <2>1 DEF Shape, Hold
    <2>2. CASE b \notin DOMAIN c.cache
      <3>1. c.blobs[Place(b)] \in Seq(Value)
        BY <1>1, <2>2 DEF Shape, Safe
      <3> QED BY <2>2, <3>1 DEF Hold, Cached, Block
    <2> QED BY <2>1, <2>2
  <1>3. d = Put(c, b, block) /\ (b \in DOMAIN c.cache => block = c.cache[b])
    BY DEF GetBlock
  <1>4. Safe(c, {b})
    BY DEF Safe
  <1> HIDE DEF block
  <1>5. Shape(d) /\ Safe(d, {}) /\ Same(c, d, {b}) /\ b \in DOMAIN d.cache /\ d.cache[b] = block
    BY <1>2, <1>3, <1>4, PutKeeps
  <1> QED BY <1>2, <1>5 DEF Same, Hold

LEMMA AddBlockKeeps ==
  ASSUME Careful, FirstBlockOffset \in Nat, NEW c, Shape(c), Safe(c, {}), NEW d, d = AddBlock(c)
  PROVE  /\ Shape(d) /\ Safe(d, {}) /\ Len(d.blobs) = Len(c.blobs) + 1
         /\ \A b \in BlocksOf(c) : Hold(d, b) = Hold(c, b)
         /\ LastBlock(d) \in DOMAIN d.cache /\ d.cache[LastBlock(d)].ValV = <<>>
  <1> DEFINE blobs == Append(c.blobs, Empty)
             e == [c EXCEPT !.blobs = blobs]
             b == LastBlock(e)
             block == Block(<<>>, TRUE)
  <1>1. /\ e.cache = c.cache /\ e.order = c.order /\ e.blobs = blobs
        /\ e = [cache |-> e.cache, order |-> e.order, cur |-> e.cur, blobs |-> e.blobs]
    <2> HIDE DEF blobs
    <2> QED BY DEF Shape
  <1>2. /\ Len(c.blobs) \in Nat /\ DOMAIN c.blobs = 1..Len(c.blobs)
        /\ LastBlock(c) \in Int /\ LastBlock(c) = FirstBlockOffset + Len(c.blobs) - 1
        /\ \A k \in BlocksOf(c) : k \in Nat /\ Place(k) \in DOMAIN c.blobs
    BY Places
  <1>3. d = Put(e, b, block)
    BY DEF AddBlock
  <1>4. /\ e.blobs \in Seq(Seq(Value) \cup {Empty}) /\ Len(e.blobs) = Len(c.blobs) + 1
        /\ \A i \in 1..Len(c.blobs) : e.blobs[i] = c.blobs[i]
    BY <1>1, <1>2 DEF Shape
  <1>5. b = LastBlock(c) + 1 /\ BlocksOf(e) = BlocksOf(c) \cup {b} /\ b \notin BlocksOf(c)
    <2>1. LastBlock(c) + 1 = FirstBlockOffset + Len(c.blobs) /\ b = FirstBlockOffset + Len(c.blobs)
      BY <1>2, <1>4 DEF LastBlock
    <2>2. BlocksOf(e) = FirstBlockOffset..b /\ BlocksOf(c) = FirstBlockOffset..b - 1
      BY <1>2, <2>1 DEF BlocksOf
    <2> HIDE DEF b, e
    <2>3. b \in Int /\ b >= FirstBlockOffset
      BY <1>2, <2>1
    <2>4. FirstBlockOffset..b = (FirstBlockOffset..b - 1) \cup {b}
      BY <2>3
    <2>5. b \notin FirstBlockOffset..b - 1
      BY <2>3
    <2> QED BY <2>1, <2>2, <2>4, <2>5
  <1>6. block \in Cached /\ block.ChangedP /\ block.ValV = <<>>
    BY DEF Block, Cached
  <1> HIDE DEF e, block
  <1>7. Shape(e)
    BY <1>1, <1>4, <1>5 DEF Shape
  <1>8. \A k \in BlocksOf(c) : Hold(e, k) = Hold(c, k) /\ e.blobs[Place(k)] = c.blobs[Place(k)]
    BY <1>1, <1>2, <1>4 DEF Hold
  <1>9. Safe(e, {b})
    BY <1>1, <1>5, <1>8 DEF Safe
  <1>10. b \in BlocksOf(e) /\ (b \in DOMAIN e.cache => block = e.cache[b])
    BY <1>1, <1>5 DEF Shape
  <1> HIDE DEF b
  <1>11. Shape(d) /\ Safe(d, {}) /\ Same(e, d, {b}) /\ b \in DOMAIN d.cache /\ d.cache[b] = block
    BY <1>3, <1>6, <1>7, <1>9, <1>10, PutKeeps
  <1>12. LastBlock(d) = b
    BY <1>11 DEF Same, LastBlock, b
  <1> QED BY <1>4, <1>5, <1>6, <1>8, <1>11, <1>12 DEF Same

LEMMA MeasuredKeeps ==
  ASSUME Careful, FirstBlockOffset \in Nat, NEW c, Shape(c), Safe(c, {}), NEW d, d = Measured(c)
  PROVE  Shape(d) /\ Safe(d, {}) /\ Same(c, d, {})
  <1> DEFINE mem == GetMemUsed(c.cache)
             e == [c EXCEPT !.cur = mem]
  <1>1. /\ e.cache = c.cache /\ e.order = c.order /\ e.blobs = c.blobs
        /\ e = [cache |-> e.cache, order |-> e.order, cur |-> e.cur, blobs |-> e.blobs]
    BY DEF Shape
  <1>2. d = IF mem > MxMemUsed THEN Purge(e, mem - MxMemUsed) ELSE e
    BY DEF Measured
  <1> HIDE DEF e, mem
  <1>3. BlocksOf(e) = BlocksOf(c) /\ \A b : Hold(e, b) = Hold(c, b)
    BY <1>1 DEF BlocksOf, LastBlock, Hold
  <1>4. Shape(e) /\ Safe(e, {}) /\ Same(c, e, {})
    BY <1>1, <1>3 DEF Shape, Safe, Same
  <1>5. Shape(d) /\ Safe(d, {}) /\ Same(e, d, {})
    <2>1. Same(e, e, {})
      BY DEF Same
    <2> QED BY <1>2, <1>4, <2>1, PurgeKeeps
  <1> QED BY <1>3, <1>4, <1>5 DEF Same

\* One cached block gets other values.
Changes(c, b, vs, d) ==
  /\ b \in DOMAIN c.cache /\ vs \in Seq(Value)
  /\ d = [c EXCEPT !.cache[b] = Block(vs, TRUE)]

LEMMA ChangedKeeps ==
  ASSUME Careful, FirstBlockOffset \in Nat, NEW c, Shape(c), Safe(c, {}), NEW b, NEW vs,
           NEW d, Changes(c, b, vs, d)
  PROVE  /\ Shape(d) /\ Safe(d, {}) /\ Same(c, d, {b}) /\ Hold(d, b) = vs
         /\ b \in BlocksOf(c) /\ DOMAIN d.cache = DOMAIN c.cache
  <1> DEFINE block == Block(vs, TRUE)
             cache == [c.cache EXCEPT ![b] = block]
  <1>1. block \in Cached /\ block.ValV = vs /\ block.ChangedP
    BY DEF Block, Cached, Changes
  <1> HIDE DEF block
  <1>2. DOMAIN cache = DOMAIN c.cache /\ cache[b] = block /\ \A k \in DOMAIN c.cache : k # b
          => cache[k] = c.cache[k]
    BY DEF Changes
  <1>3. cache \in [DOMAIN c.cache -> Cached]
    BY <1>1 DEF Shape
  <1>4. d = [c EXCEPT !.cache = cache]
    BY DEF block, Shape, Changes
  <1> HIDE DEF cache
  <1>5. /\ d.cache = cache /\ d.order = c.order /\ d.blobs = c.blobs
        /\ d = [cache |-> d.cache, order |-> d.order, cur |-> d.cur, blobs |-> d.blobs]
    BY <1>4 DEF Shape
  <1>6. BlocksOf(d) = BlocksOf(c) /\ b \in BlocksOf(c)
    BY <1>5 DEF BlocksOf, LastBlock, Shape, Changes
  <1>7. Shape(d)
    BY <1>2, <1>3, <1>5, <1>6 DEF Shape
  <1>a. b \in DOMAIN c.cache
    BY DEF Changes
  <1>8. Hold(d, b) = vs /\ \A k \in BlocksOf(c) \ {b} : Hold(d, k) = Hold(c, k)
    BY <1>1, <1>2, <1>5, <1>a DEF Hold
  <1>9. Safe(d, {})
    <2> SUFFICES ASSUME NEW k \in BlocksOf(c)
                 PROVE  \/ k \in DOMAIN cache /\ cache[k].ChangedP
                        \/ c.blobs[Place(k)] # Empty /\ c.blobs[Place(k)] = Hold(d, k)
      BY <1>5, <1>6 DEF Safe
    <2>1. CASE k = b
      BY <1>1, <1>2, <1>a, <2>1
    <2>2. CASE k # b
      <3>1. \/ k \in DOMAIN c.cache /\ c.cache[k].ChangedP
            \/ c.blobs[Place(k)] # Empty /\ c.blobs[Place(k)] = Hold(c, k)
        BY DEF Safe
      <3> QED BY <1>2, <1>8, <2>2, <3>1
    <2> QED BY <2>1, <2>2
  <1> QED BY <1>2, <1>5, <1>6, <1>7, <1>8, <1>9 DEF Same

(***************************************************************************)
(* What the cache must always be, for n values since the oldest block      *)
(* began: of the right shape, with nothing lost, all blocks full but the   *)
(* last.  Positions are counted from where the oldest block begins.        *)
(***************************************************************************)
Filled(c, n) ==
  /\ \A b \in BlocksOf(c) : Len(Hold(c, b)) <= BlockSize /\ (b # LastBlock(c)
     => Len(Hold(c, b)) = BlockSize)
  /\ Len(c.blobs) = 0 => n = 0
  /\ Len(c.blobs) # 0 => n = (Len(c.blobs) - 1) * BlockSize + Len(Hold(c, LastBlock(c)))
Good(c, n) == Shape(c) /\ Safe(c, {}) /\ Filled(c, n)
At(c, k) == Hold(c, FirstBlockOffset + (k \div BlockSize))[(k % BlockSize) + 1]

\* What a block holds are values.
LEMMA HoldsValues ==
  ASSUME FirstBlockOffset \in Nat, NEW c, Shape(c), Safe(c, {}), NEW b \in BlocksOf(c)
  PROVE  Hold(c, b) \in Seq(Value) /\ Len(Hold(c, b)) \in Nat
  <1>1. Place(b) \in DOMAIN c.blobs
    BY Places
  <1>2. Hold(c, b) \in Seq(Value)
    <2>1. CASE b \in DOMAIN c.cache
      BY <2>1 DEF Shape, Hold, Cached
    <2>2. CASE b \notin DOMAIN c.cache
      BY <1>1, <2>2 DEF Shape, Safe, Hold
    <2> QED BY <2>1, <2>2
  <1> QED BY <1>2

LEMMA SameFilled ==
  ASSUME FirstBlockOffset \in Nat, NEW c, NEW d,
           NEW n, Good(c, n), Shape(d), Safe(d, {}), Same(c, d, {})
  PROVE  Good(d, n) /\ BlocksOf(d) = BlocksOf(c) /\ LastBlock(d) = LastBlock(c)
  <1>1. Len(d.blobs) = Len(c.blobs) /\ BlocksOf(d) = BlocksOf(c) /\ LastBlock(d) = LastBlock(c)
    BY DEF Same, BlocksOf, LastBlock
  <1>2. \A b \in BlocksOf(c) : Hold(d, b) = Hold(c, b)
    BY DEF Same
  <1>3. Len(c.blobs) # 0 => LastBlock(c) \in BlocksOf(c)
    BY Places DEF Good, BlocksOf
  <1>4. Filled(d, n)
    BY <1>1, <1>2, <1>3 DEF Good, Filled
  <1> QED BY <1>1, <1>4 DEF Good

\* Where the values are.
LEMMA InRange ==
  ASSUME Careful, FirstBlockOffset \in Nat, NEW c, NEW n \in Nat, Good(c, n), NEW k \in Nat, k < n,
         NEW b, b = FirstBlockOffset + (k \div BlockSize)
  PROVE  /\ b \in BlocksOf(c) /\ (k % BlockSize) + 1 \in 1..Len(Hold(c, b)) /\ Len(c.blobs) # 0
         /\ b = LastBlock(c) => k = (Len(c.blobs) - 1) * BlockSize + (k % BlockSize)
  <1> DEFINE L == Len(c.blobs)
             q == k \div BlockSize
             r == k % BlockSize
             last == Len(Hold(c, LastBlock(c)))
  <1>1. BlockSize \in Nat \ {0} /\ q \in Nat /\ r \in 0..BlockSize - 1 /\ k = q * BlockSize + r
    BY DivMod DEF Careful
  <1>2. L \in Nat /\ LastBlock(c) \in Int /\ LastBlock(c) = FirstBlockOffset + L - 1 /\ L # 0
    BY Places DEF Good, Filled
  <1>3. LastBlock(c) \in BlocksOf(c)
    BY <1>2 DEF BlocksOf
  <1>4. last \in Nat /\ last <= BlockSize /\ n = (L - 1) * BlockSize + last
    BY <1>2, <1>3, HoldsValues DEF Good, Filled
  <1>5. b = FirstBlockOffset + q
    OBVIOUS
  <1> HIDE DEF q, r, last, L
  <1>6. L - 1 < q <=> (L - 1) * BlockSize + BlockSize <= q * BlockSize
    BY <1>1, <1>2, Multiples
  <1>7. q <= L - 1
    <2>1. PICK x \in Int : x = q * BlockSize
      BY <1>1
    <2>2. PICK y \in Int : y = (L - 1) * BlockSize
      BY <1>2, <1>1
    <2> QED BY <1>1, <1>2, <1>4, <1>6, <2>1, <2>2
  <1>8. b \in BlocksOf(c)
    BY <1>1, <1>2, <1>5, <1>7 DEF BlocksOf
  <1>9. b = LastBlock(c) => q = L - 1 /\ k = (L - 1) * BlockSize + r
    BY <1>1, <1>2, <1>5
  <1>10. r + 1 \in 1..Len(Hold(c, b))
    <2>1. CASE b = LastBlock(c)
      <3>1. r < last
        <4>1. PICK y \in Int : y = (L - 1) * BlockSize
          BY <1>1, <1>2
        <4> QED BY <1>1, <1>4, <1>9, <2>1, <4>1
      <3> QED BY <1>1, <1>4, <2>1, <3>1 DEF last
    <2>2. CASE b # LastBlock(c)
      <3>1. Len(Hold(c, b)) = BlockSize
        BY <1>8, <2>2 DEF Good, Filled
      <3> QED BY <1>1, <3>1
    <2> QED BY <2>1, <2>2
  <1> QED BY <1>2, <1>8, <1>9, <1>10 DEF r, L, q

LEMMA SameAt ==
  ASSUME Careful, FirstBlockOffset \in Nat, NEW c, NEW d, NEW n \in Nat, Good(c, n), Same(c, d, {})
  PROVE  \A k \in Nat : k < n => At(d, k) = At(c, k)
  <1> SUFFICES ASSUME NEW k \in Nat, k < n PROVE At(d, k) = At(c, k)
    OBVIOUS
  <1>1. FirstBlockOffset + (k \div BlockSize) \in BlocksOf(c)
    BY InRange
  <1> QED BY <1>1 DEF At, Same

(***************************************************************************)
(* The operations, on the cache.                                           *)
(***************************************************************************)
LEMMA GetGood ==
  ASSUME Careful, FirstBlockOffset \in Nat, NEW c, NEW n \in Nat, Good(c, n), NEW b \in BlocksOf(c),
           NEW d, d = GetBlock(c, b)
  PROVE  /\ Good(d, n) /\ b \in DOMAIN d.cache /\ BlocksOf(d) = BlocksOf(c)
            /\ LastBlock(d) = LastBlock(c)
         /\ Len(d.blobs) = Len(c.blobs) /\ \A k \in Nat : k < n => At(d, k) = At(c, k)
  <1>1. Shape(d) /\ Safe(d, {}) /\ Same(c, d, {}) /\ b \in DOMAIN d.cache
    BY GetKeeps DEF Good
  <1>2. Good(d, n) /\ BlocksOf(d) = BlocksOf(c) /\ LastBlock(d) = LastBlock(c)
    BY <1>1, SameFilled
  <1>3. \A k \in Nat : k < n => At(d, k) = At(c, k)
    BY <1>1, SameAt
  <1> QED BY <1>1, <1>2, <1>3 DEF Same

LEMMA AddBlockGood ==
  ASSUME Careful, FirstBlockOffset \in Nat, NEW c, NEW n \in Nat, Good(c, n), Len(c.blobs) # 0,
         Len(Hold(c, LastBlock(c))) = BlockSize, NEW d, d = AddBlock(c)
  PROVE  /\ Good(d, n) /\ LastBlock(d) \in DOMAIN d.cache /\ Len(d.blobs) # 0
            /\ Len(Hold(d, LastBlock(d))) < BlockSize
         /\ \A k \in Nat : k < n => At(d, k) = At(c, k)
  <1>1. /\ Shape(d) /\ Safe(d, {}) /\ Len(d.blobs) = Len(c.blobs) + 1
        /\ \A b \in BlocksOf(c) : Hold(d, b) = Hold(c, b)
        /\ LastBlock(d) \in DOMAIN d.cache /\ d.cache[LastBlock(d)].ValV = <<>>
    BY AddBlockKeeps DEF Good
  <1>2. Hold(d, LastBlock(d)) = <<>>
    BY <1>1 DEF Hold
  <1>3. Len(c.blobs) \in Nat /\ Len(d.blobs) \in Nat /\ BlockSize \in Nat \ {0}
    BY <1>1, Places DEF Good, Careful
  <1>4. \A b \in BlocksOf(d) : b # LastBlock(d) => b \in BlocksOf(c)
    <2> DEFINE l == Len(c.blobs)
               e == Len(d.blobs)
    <2>1. BlocksOf(d) = FirstBlockOffset..FirstBlockOffset + e - 1
            /\ LastBlock(d) = FirstBlockOffset + e - 1
      BY DEF BlocksOf, LastBlock
    <2>2. BlocksOf(c) = FirstBlockOffset..FirstBlockOffset + l - 1 /\ e = l + 1 /\ l \in Nat
      BY <1>1, <1>3 DEF BlocksOf, LastBlock
    <2> HIDE DEF l, e
    <2> QED BY <2>1, <2>2
  <1>5. \A b \in BlocksOf(c) : Len(Hold(c, b)) = BlockSize
    BY DEF Good, Filled
  <1>6. n = (Len(d.blobs) - 1) * BlockSize + Len(Hold(d, LastBlock(d)))
    <2>1. n = (Len(c.blobs) - 1) * BlockSize + BlockSize
      BY DEF Good, Filled
    <2>2. (Len(d.blobs) - 1) * BlockSize = (Len(c.blobs) - 1) * BlockSize + BlockSize
      BY <1>1, <1>3
    <2>3. PICK x \in Int : x = (Len(d.blobs) - 1) * BlockSize
      BY <1>3
    <2> QED BY <1>2, <2>1, <2>2, <2>3
  <1>7. \A b \in BlocksOf(d) : Len(Hold(d, b)) <= BlockSize /\ (b # LastBlock(d)
          => Len(Hold(d, b)) = BlockSize)
    <2> SUFFICES ASSUME NEW b \in BlocksOf(d)
                 PROVE  Len(Hold(d, b)) <= BlockSize /\ (b # LastBlock(d)
                          => Len(Hold(d, b)) = BlockSize)
      OBVIOUS
    <2>1. CASE b = LastBlock(d)
      BY <1>2, <1>3, <2>1
    <2>2. CASE b # LastBlock(d)
      BY <1>1, <1>3, <1>4, <1>5, <2>2
    <2> QED BY <2>1, <2>2
  <1>8. Len(d.blobs) # 0
    BY <1>1, <1>3
  <1>9. Good(d, n)
    BY <1>1, <1>6, <1>7, <1>8 DEF Good, Filled
  <1>10. ASSUME NEW k \in Nat, k < n PROVE At(d, k) = At(c, k)
    <2>1. FirstBlockOffset + (k \div BlockSize) \in BlocksOf(c)
      BY <1>10, InRange
    <2> QED BY <1>1, <2>1 DEF At
  <1> QED BY <1>1, <1>2, <1>3, <1>8, <1>9, <1>10

\* A value goes to the end of the last block, where it has room.
Appends(c, b, v, d) ==
  /\ b = LastBlock(c) /\ b \in DOMAIN c.cache /\ Len(c.blobs) # 0 /\ Len(Hold(c, b)) < BlockSize
  /\ Changes(c, b, Append(Hold(c, b), v), d)

LEMMA AppendGood ==
  ASSUME Careful, FirstBlockOffset \in Nat, NEW c, NEW n \in Nat, Good(c, n), NEW b, NEW v \in Value,
         NEW d, Appends(c, b, v, d)
  PROVE  Good(d, n + 1) /\ At(d, n) = v /\ \A k \in Nat : k < n => At(d, k) = At(c, k)
  <1> DEFINE s == Hold(c, b)
             t == Append(s, v)
  <1>a. /\ b = LastBlock(c) /\ b \in DOMAIN c.cache /\ Len(c.blobs) # 0 /\ Len(s) < BlockSize
        /\ Changes(c, b, t, d)
    BY DEF Appends
  <1>1. b \in BlocksOf(c)
    BY <1>a DEF Good, Shape
  <1>2. s \in Seq(Value) /\ Len(s) \in Nat
    BY <1>1, HoldsValues DEF Good
  <1>3. t \in Seq(Value) /\ Len(t) = Len(s) + 1 /\ t[Len(s) + 1] = v /\ \A i \in 1..Len(s) : t[i] = s[i]
    BY <1>2
  <1>5. /\ Shape(d) /\ Safe(d, {}) /\ Same(c, d, {b}) /\ Hold(d, b) = t
    <2>1. Shape(c) /\ Safe(c, {})
      BY DEF Good
    <2>2. Changes(c, b, t, d)
      BY <1>a
    <2> HIDE DEF s, t
    <2> QED BY <2>1, <2>2, ChangedKeeps
  <1>6. Len(d.blobs) = Len(c.blobs) /\ BlocksOf(d) = BlocksOf(c) /\ LastBlock(d) = b
    BY <1>a, <1>5 DEF Same, BlocksOf, LastBlock
  <1>7. /\ Len(c.blobs) \in Nat /\ BlockSize \in Nat \ {0} /\ b = FirstBlockOffset + (Len(c.blobs) - 1)
        /\ n = (Len(c.blobs) - 1) * BlockSize + Len(s)
    BY <1>a, Places DEF Good, Filled, Careful
  <1>8. n + 1 = (Len(d.blobs) - 1) * BlockSize + Len(Hold(d, b))
    <2> DEFINE x == (Len(c.blobs) - 1) * BlockSize
               y == (Len(d.blobs) - 1) * BlockSize
               z == Len(Hold(d, b))
               l == Len(s)
    <2>1. x \in Int
      BY <1>7
    <2>3. l \in Nat /\ n = x + l
      BY <1>2, <1>7
    <2>2. z = l + 1 /\ y = x
      BY <1>3, <1>5, <1>6
    <2> HIDE DEF x, y, z, l
    <2>4. n + 1 = y + z
      BY <2>1, <2>2, <2>3
    <2> QED BY <2>4 DEF y, z
  <1>9. \A k \in BlocksOf(d) : Len(Hold(d, k)) <= BlockSize /\ (k # b => Len(Hold(d, k)) = BlockSize)
    <2> SUFFICES ASSUME NEW k \in BlocksOf(c)
        PROVE Len(Hold(d, k)) <= BlockSize /\ (k # b => Len(Hold(d, k)) = BlockSize)
      BY <1>6
    <2>1. CASE k = b
      BY <1>a, <1>2, <1>3, <1>5, <1>7, <2>1
    <2>2. CASE k # b
      <3>1. Hold(d, k) = Hold(c, k) /\ Len(Hold(c, k)) = BlockSize
        BY <1>a, <1>5, <2>2 DEF Same, Good, Filled
      <3> QED BY <1>7, <3>1
    <2> QED BY <2>1, <2>2
  <1>10. Good(d, n + 1)
    BY <1>a, <1>5, <1>6, <1>8, <1>9 DEF Good, Filled
  <1>11. At(d, n) = v
    <2> DEFINE q == Len(c.blobs) - 1
               r == Len(s)
    <2>1. q \in Nat /\ n = q * BlockSize + r
      BY <1>a, <1>7
    <2>5. r \in Nat /\ r < BlockSize
      BY <1>a, <1>2
    <2> HIDE DEF q, r
    <2>2. n \div BlockSize = q /\ n % BlockSize = r
      <3>1. q \in Int /\ r \in 0..BlockSize - 1
        BY <1>7, <2>1, <2>5
      <3> QED BY <1>7, <2>1, <3>1, DivModUnique
    <2>3. FirstBlockOffset + (n \div BlockSize) = b
      BY <1>7, <2>2 DEF q
    <2>4. (n % BlockSize) + 1 = Len(s) + 1
      BY <2>2 DEF r
    <2> HIDE DEF s
    <2> QED BY <1>3, <1>5, <2>3, <2>4 DEF At
  <1>12. ASSUME NEW k \in Nat, k < n PROVE At(d, k) = At(c, k)
    <2> DEFINE a == FirstBlockOffset + (k \div BlockSize)
               p == (k % BlockSize) + 1
    <2>1. a \in BlocksOf(c) /\ p \in 1..Len(Hold(c, a))
      BY <1>12, InRange
    <2> HIDE DEF a, p
    <2>2. Hold(d, a)[p] = Hold(c, a)[p]
      <3>1. CASE a = b
        <4> HIDE DEF s
        <4> QED BY <1>3, <1>5, <2>1, <3>1 DEF s
      <3>2. CASE a # b
        BY <1>5, <2>1, <3>2 DEF Same
      <3> QED BY <3>1, <3>2
    <2> QED BY <2>2 DEF At, a, p
  <1> QED BY <1>10, <1>11, <1>12

LEMMA OverwriteGood ==
  ASSUME Careful, FirstBlockOffset \in Nat, NEW c, NEW n \in Nat, Good(c, n), NEW k \in Nat, k < n,
         NEW b, b = FirstBlockOffset + (k \div BlockSize), b \in DOMAIN c.cache,
         NEW p, p = (k % BlockSize) + 1, NEW v \in Value,
         NEW d, d = [c EXCEPT !.cache[b] = Overwritten(@, p, v)]
  PROVE  Good(d, n) /\ \A j \in Nat : j < n => At(d, j) = IF j = k THEN v ELSE At(c, j)
  <1> DEFINE s == Hold(c, b)
             t == [s EXCEPT ![p] = v]
  <1>1. b \in BlocksOf(c) /\ p \in 1..Len(s)
    BY InRange
  <1>2. s \in Seq(Value) /\ Len(s) \in Nat /\ s = c.cache[b].ValV
    BY <1>1, HoldsValues DEF Good, Hold
  <1>3. t \in Seq(Value) /\ Len(t) = Len(s) /\ t[p] = v /\ \A i \in 1..Len(s) : i # p => t[i] = s[i]
    <2> HIDE DEF s
    <2> QED BY <1>1, <1>2
  <1>4. Changes(c, b, t, d)
    BY <1>2, <1>3 DEF Overwritten, Changes
  <1> HIDE DEF t
  <1>5. /\ Shape(d) /\ Safe(d, {}) /\ Same(c, d, {b}) /\ Hold(d, b) = t
    <2>1. Shape(c) /\ Safe(c, {})
      BY DEF Good
    <2> QED BY <1>4, <2>1, ChangedKeeps
  <1>6. Len(d.blobs) = Len(c.blobs) /\ BlocksOf(d) = BlocksOf(c) /\ LastBlock(d) = LastBlock(c)
    BY <1>5 DEF Same, BlocksOf, LastBlock
  <1>7. \A a \in BlocksOf(c) : Len(Hold(d, a)) = Len(Hold(c, a))
    <2> SUFFICES ASSUME NEW a \in BlocksOf(c) PROVE Len(Hold(d, a)) = Len(Hold(c, a))
      OBVIOUS
    <2>1. CASE a = b
      BY <1>3, <1>5, <2>1
    <2>2. CASE a # b
      BY <1>5, <2>2 DEF Same
    <2> QED BY <2>1, <2>2
  <1>8. Len(c.blobs) # 0 => LastBlock(c) \in BlocksOf(c)
    BY Places DEF Good, BlocksOf
  <1>9. Good(d, n)
    BY <1>5, <1>6, <1>7, <1>8 DEF Good, Filled
  <1>10. ASSUME NEW j \in Nat, j < n PROVE At(d, j) = IF j = k THEN v ELSE At(c, j)
    <2> DEFINE a == FirstBlockOffset + (j \div BlockSize)
               i == (j % BlockSize) + 1
    <2>1. a \in BlocksOf(c) /\ i \in 1..Len(Hold(c, a))
      BY <1>10, InRange
    <2>2. a = b /\ i = p <=> j = k
      <3> DEFINE jq == j \div BlockSize
                 jr == j % BlockSize
                 kq == k \div BlockSize
                 kr == k % BlockSize
      <3>1. BlockSize \in Nat \ {0}
        BY DEF Careful
      <3>2. jq \in Nat /\ jr \in 0..BlockSize - 1 /\ j = jq * BlockSize + jr
        BY <3>1, DivMod
      <3>3. kq \in Nat /\ kr \in 0..BlockSize - 1 /\ k = kq * BlockSize + kr
        BY <3>1, DivMod
      <3>4. a = FirstBlockOffset + jq /\ i = jr + 1 /\ b = FirstBlockOffset + kq /\ p = kr + 1
        OBVIOUS
      <3>5. j = k => jq = kq /\ jr = kr
        OBVIOUS
      <3> HIDE DEF jq, jr, kq, kr, a, i
      <3>6. (a = b <=> jq = kq) /\ (i = p <=> jr = kr)
        BY <3>1, <3>2, <3>3, <3>4
      <3>7. jq = kq /\ jr = kr => j = k
        BY <3>2, <3>3
      <3> QED BY <3>5, <3>6, <3>7
    <2> HIDE DEF a, i
    <2>3. Hold(d, a)[i] = IF j = k THEN v ELSE Hold(c, a)[i]
      <3>1. CASE a = b
        <4> HIDE DEF s
        <4>1. i \in 1..Len(s)
          BY <2>1, <3>1 DEF s
        <4> QED BY <1>3, <1>5, <2>2, <3>1, <4>1 DEF s
      <3>2. CASE a # b
        BY <1>5, <2>1, <2>2, <3>2 DEF Same
      <3> QED BY <3>1, <3>2
    <2> QED BY <2>3 DEF At, a, i
  <1> QED BY <1>9, <1>10

(***************************************************************************)
(* The operations.                                                         *)
(***************************************************************************)
IInv ==
  /\ Vals \in Nat /\ FirstBlockOffset \in Nat /\ FirstValOffset \in 0..BlockSize - 1
  /\ Good(BlockCache, FirstValOffset + Vals)
Held == FirstValOffset + Vals

LEMMA Numbers ==
  ASSUME Careful, IInv
  PROVE  /\ BlockSize \in Nat \ {0} /\ FirstValOffset \in Nat /\ Held \in Nat
         /\ FirstValOffset < BlockSize /\ Good(BlockCache, Held)
  BY DEF Careful, IInv, Held

\* Ids are positions from the first block on.
LEMMA Ids ==
  ASSUME NEW B \in Nat \ {0}, NEW f \in Nat, NEW k \in Nat
  PROVE  (f * B + k) \div B = f + (k \div B) /\ (f * B + k) % B = k % B
  <1> DEFINE q == k \div B
             r == k % B
             n == f * B + k
             p == f + q
  <1>1. q \in Nat /\ r \in 0..B - 1 /\ k = q * B + r
    BY DivMod
  <1>2. f * B \in Nat
    OBVIOUS
  <1> HIDE DEF q, r
  <1>3. n \in Nat /\ p \in Int /\ n = p * B + r
    BY <1>1, <1>2
  <1> HIDE DEF n, p
  <1>4. n \div B = p /\ n % B = r
    BY <1>1, <1>3, DivModUnique
  <1> QED BY <1>4 DEF n, p, q, r

LEMMA IdOf ==
  ASSUME Careful, IInv, NEW id \in ValIds
  PROVE  \E k \in Nat : /\ k < Held /\ k >= FirstValOffset /\ id = FirstBlockOffset * BlockSize + k
                        /\ id \div BlockSize = FirstBlockOffset + (k \div BlockSize)
                           /\ id % BlockSize = k % BlockSize
                        /\ FirstBlockOffset + (k \div BlockSize) \in BlocksOf(BlockCache)
  <1> DEFINE k == id - FirstBlockOffset * BlockSize
             x == FirstBlockOffset * BlockSize
  <1>1. FirstBlockOffset \in Nat /\ Vals \in Nat
    BY DEF IInv
  <1>2. x \in Nat
    BY <1>1, Numbers
  <1>3. k \in Nat /\ k < Held /\ k >= FirstValOffset /\ id = x + k
    <2>1. id \in x + FirstValOffset..x + FirstValOffset + Vals - 1 /\ k = id - x
      BY DEF ValIds, GetFirstValId
    <2> HIDE DEF x, k
    <2> QED BY <1>1, <1>2, <2>1, Numbers DEF Held
  <1> HIDE DEF k
  <1>4. id \div BlockSize = FirstBlockOffset + (k \div BlockSize) /\ id % BlockSize = k % BlockSize
    BY <1>1, <1>3, Numbers, Ids
  <1>5. FirstBlockOffset + (k \div BlockSize) \in BlocksOf(BlockCache)
    BY <1>1, <1>3, Numbers, InRange
  <1> QED BY <1>3, <1>4, <1>5

\* Where the oldest block stays, what is said of the next cache may be said of it now.
LEMMA Carried ==
  ASSUME FirstBlockOffset' = FirstBlockOffset, NEW d, d = BlockCache', NEW n
  PROVE  (Good(d, n) => Good(BlockCache, n)') /\ \A k : At(BlockCache, k)' = At(d, k)
  <1>1. /\ BlocksOf(BlockCache)' = BlocksOf(d) /\ LastBlock(BlockCache)' = LastBlock(d)
           /\ \A b : Place(b)' = Place(b)
        /\ BlockCache' = d
    BY DEF BlocksOf, LastBlock, Place
  <1>2. \A b : Hold(BlockCache, b)' = Hold(d, b)
    BY <1>1 DEF Hold
  <1>3. Shape(d) => Shape(BlockCache)'
    BY <1>1 DEF Shape
  <1>4. Safe(d, {}) => Safe(BlockCache, {})'
    BY <1>1, <1>2 DEF Safe
  <1>5. Filled(d, n) => Filled(BlockCache, n)'
    BY <1>1, <1>2 DEF Filled
  <1> QED BY <1>2, <1>3, <1>4, <1>5 DEF Good, At

\* As the users of the storage see it, nothing happens.
SameValues ==
  /\ UNCHANGED <<Vals, FirstBlockOffset, FirstValOffset>>
  /\ \A k \in Nat : k < Held => At(BlockCache, k)' = At(BlockCache, k)

LEMMA Unseen ==
  ASSUME Careful, IInv, UNCHANGED <<Vals, FirstBlockOffset, FirstValOffset>>,
           NEW d, d = BlockCache', Good(d, Held),
         \A k \in Nat : k < Held => At(d, k) = At(BlockCache, k)
  PROVE  IInv' /\ SameValues
  <1>1. Good(BlockCache, Held)'
    <2>1. \A n : n = Held => Good(BlockCache, n)'
      BY Carried
    <2>2. Held' = Held
      BY DEF Held
    <2> QED BY <2>1, <2>2 DEF Good, Filled
  <1>2. IInv'
    BY <1>1 DEF IInv, Held
  <1> QED BY <1>2, Carried DEF SameValues

LEMMA GetStep ==
  ASSUME Careful, IInv, NEW id \in ValIds, GetVal(id)
  PROVE  IInv' /\ SameValues
  <1>1. PICK k \in Nat : id \div BlockSize = FirstBlockOffset + (k \div BlockSize)
                         /\ FirstBlockOffset + (k \div BlockSize) \in BlocksOf(BlockCache)
    BY IdOf
  <1>2. PICK d : d = BlockCache'
    OBVIOUS
  <1>3. d = GetBlock(BlockCache, id \div BlockSize)
          /\ UNCHANGED <<Vals, FirstBlockOffset, FirstValOffset>>
    BY <1>2 DEF GetVal
  <1>4. PICK c : c = BlockCache
    OBVIOUS
  <1>5. Good(d, Held) /\ \A j \in Nat : j < Held => At(d, j) = At(c, j)
    BY <1>1, <1>3, <1>4, Numbers, GetGood DEF IInv
  <1> QED BY <1>2, <1>3, <1>4, <1>5, Unseen

LEMMA FlushStep ==
  ASSUME Careful, IInv, PartialFlush
  PROVE  IInv' /\ SameValues
  <1>1. PICK c : c = BlockCache
    OBVIOUS
  <1>2. PICK n \in 1..Len(c.order) : BlockCache' = Saved(c, LastOf(c, n))
                                       /\ UNCHANGED <<Vals, FirstBlockOffset, FirstValOffset>>
    BY <1>1 DEF PartialFlush
  <1>3. PICK d : d = BlockCache'
    OBVIOUS
  <1>4. Good(c, Held) /\ Shape(c) /\ Safe(c, {}) /\ FirstBlockOffset \in Nat
    BY <1>1, Numbers DEF Good, IInv
  <1>5. LastOf(c, n) \in SUBSET DOMAIN c.cache
    <2>1. Len(c.order) \in Nat /\ \A i \in 1..Len(c.order) : c.order[i] \in DOMAIN c.cache
      BY <1>4 DEF Shape
    <2>2. \A i \in Len(c.order) - n + 1..Len(c.order) : i \in 1..Len(c.order)
      BY <2>1
    <2> QED BY <2>1, <2>2 DEF LastOf
  <1>6. Shape(d) /\ Safe(d, {}) /\ Same(c, d, {})
    BY <1>2, <1>3, <1>4, <1>5, SavedKeeps
  <1>7. Good(d, Held) /\ \A k \in Nat : k < Held => At(d, k) = At(c, k)
    BY <1>4, <1>6, Numbers, SameFilled, SameAt
  <1> QED BY <1>1, <1>2, <1>3, <1>7, Unseen

LEMMA CloseStep ==
  ASSUME Careful, IInv, CloseAndOpen
  PROVE  IInv' /\ SameValues
  <1>1. PICK c : c = BlockCache
    OBVIOUS
  <1> DEFINE e == Saved(c, DOMAIN c.cache)
  <1>2. PICK d : d = BlockCache'
    OBVIOUS
  <1>3. d = [cache |-> <<>>, order |-> <<>>, cur |-> 0, blobs |-> e.blobs]
          /\ UNCHANGED <<Vals, FirstBlockOffset, FirstValOffset>>
    BY <1>1, <1>2 DEF CloseAndOpen, NoCache
  <1>4. Good(c, Held) /\ Shape(c) /\ Safe(c, {}) /\ FirstBlockOffset \in Nat
    BY <1>1, Numbers DEF Good, IInv
  <1>5. Shape(e) /\ Safe(e, {}) /\ Same(c, e, {}) /\ DOMAIN e.cache = DOMAIN c.cache
          /\ \A b \in DOMAIN c.cache : ~e.cache[b].ChangedP
    BY <1>4, SavedKeeps
  <1> HIDE DEF e
  <1>6. BlocksOf(d) = BlocksOf(e) /\ BlocksOf(e) = BlocksOf(c) /\ Len(d.blobs) = Len(c.blobs)
          /\ d.blobs = e.blobs /\ d.cache = <<>>
    BY <1>3, <1>5 DEF Same, BlocksOf, LastBlock
  <1>7. \A b \in BlocksOf(c) : e.blobs[Place(b)] # Empty /\ e.blobs[Place(b)] = Hold(e, b)
          /\ Hold(d, b) = e.blobs[Place(b)]
    BY <1>5, <1>6 DEF Safe, Hold
  <1>8. Shape(d)
    <2>1. DOMAIN d.cache = {} /\ d.cache \in [DOMAIN d.cache -> Cached]
            /\ d.order \in Seq(DOMAIN d.cache)
      BY <1>3
    <2> QED BY <1>3, <1>5, <2>1 DEF Shape
  <1>9. Safe(d, {}) /\ Same(c, d, {})
    BY <1>5, <1>6, <1>7 DEF Safe, Same
  <1>10. Good(d, Held) /\ \A k \in Nat : k < Held => At(d, k) = At(c, k)
    BY <1>4, <1>8, <1>9, Numbers, SameFilled, SameAt
  <1> QED BY <1>1, <1>2, <1>3, <1>10, Unseen

LEMMA SetStep ==
  ASSUME Careful, IInv, NEW id \in ValIds, NEW v \in Value, SetVal(id, v)
  PROVE  /\ IInv' /\ UNCHANGED <<Vals, FirstBlockOffset, FirstValOffset>>
         /\ \E k \in Nat : /\ k < Held /\ k >= FirstValOffset /\ id = FirstBlockOffset * BlockSize + k
                           /\ \A j \in Nat : j < Held
                              => At(BlockCache, j)' = IF j = k THEN v ELSE At(BlockCache, j)
  <1>1. PICK k \in Nat : /\ k < Held /\ k >= FirstValOffset /\ id = FirstBlockOffset * BlockSize + k
                         /\ id \div BlockSize = FirstBlockOffset + (k \div BlockSize)
                            /\ id % BlockSize = k % BlockSize
                         /\ FirstBlockOffset + (k \div BlockSize) \in BlocksOf(BlockCache)
    BY IdOf
  <1> DEFINE b == FirstBlockOffset + (k \div BlockSize)
             c == GetBlock(BlockCache, b)
             p == (k % BlockSize) + 1
  <1>2. PICK d : d = BlockCache'
    OBVIOUS
  <1>3. d = [c EXCEPT !.cache[b] = Overwritten(@, p, v)]
          /\ UNCHANGED <<Vals, FirstBlockOffset, FirstValOffset>>
    BY <1>1, <1>2 DEF SetVal
  <1>4. PICK a : a = BlockCache
    OBVIOUS
  <1>5. c = GetBlock(a, b) /\ Good(a, Held) /\ FirstBlockOffset \in Nat /\ b \in BlocksOf(a)
    BY <1>1, <1>4, Numbers DEF IInv
  <1> HIDE DEF b, c, p
  <1>6. Good(c, Held) /\ b \in DOMAIN c.cache /\ \A j \in Nat : j < Held => At(c, j) = At(a, j)
    BY <1>5, Numbers, GetGood
  <1>7. b = FirstBlockOffset + (k \div BlockSize) /\ p = (k % BlockSize) + 1
    BY DEF b, p
  <1>8. Good(d, Held) /\ \A j \in Nat : j < Held => At(d, j) = IF j = k THEN v ELSE At(c, j)
    BY <1>1, <1>3, <1>5, <1>6, <1>7, Numbers, OverwriteGood
  <1>9. Good(BlockCache, Held)'
    <2>1. \A n : n = Held => Good(BlockCache, n)'
      BY <1>2, <1>3, <1>8, Carried
    <2>2. Held' = Held
      BY <1>3 DEF Held
    <2> QED BY <2>1, <2>2 DEF Good, Filled
  <1>10. IInv'
    BY <1>3, <1>9 DEF IInv, Held
  <1>11. \A j \in Nat : j < Held => At(BlockCache, j)' = IF j = k THEN v ELSE At(BlockCache, j)
    BY <1>2, <1>3, <1>4, <1>6, <1>8, Carried
  <1> QED BY <1>1, <1>3, <1>10, <1>11

LEMMA AddStep ==
  ASSUME Careful, IInv, NEW v \in Value, AddVal(v)
  PROVE  /\ IInv' /\ UNCHANGED <<FirstBlockOffset, FirstValOffset>> /\ Vals' = Vals + 1
         /\ \A j \in Nat : j <= Held => At(BlockCache, j)' = IF j = Held THEN v ELSE At(BlockCache, j)
  <1>1. PICK a : a = BlockCache
    OBVIOUS
  <1> DEFINE c == GetBlock(a, LastBlock(a))
             full == IsFull(c.cache[LastBlock(c)])
             last == IF full THEN AddBlock(c) ELSE c
             b == LastBlock(last)
             added == [last EXCEPT !.cache[b] = Block(Append(Hold(last, b), v), TRUE)]
  <1>2. PICK d : d = BlockCache'
    OBVIOUS
  <1>3. /\ Good(a, Held) /\ FirstBlockOffset \in Nat /\ Held \in Nat /\ BlockSize \in Nat \ {0}
           /\ Len(a.blobs) \in Nat
        /\ Len(a.blobs) # 0 /\ LastBlock(a) \in BlocksOf(a)
    <2>1. Good(a, Held) /\ FirstBlockOffset \in Nat /\ Held \in Nat /\ BlockSize \in Nat \ {0}
      BY <1>1, Numbers DEF IInv
    <2>2. Len(a.blobs) \in Nat /\ a.blobs \in Seq(Seq(Value) \cup {Empty}) /\ a.blobs # <<>>
      BY <1>1, <2>1 DEF Good, Shape, AddVal
    <2>3. Len(a.blobs) # 0
      BY <2>2
    <2> QED BY <2>1, <2>2, <2>3 DEF BlocksOf, LastBlock
  <1>4. /\ Good(c, Held) /\ LastBlock(c) \in DOMAIN c.cache /\ Len(c.blobs) # 0
           /\ LastBlock(c) \in BlocksOf(c)
        /\ \A k \in Nat : k < Held => At(c, k) = At(a, k)
    <2> DEFINE l == LastBlock(a)
    <2>1. l \in BlocksOf(a) /\ c = GetBlock(a, l)
      BY <1>3
    <2> HIDE DEF c, l
    <2>2. /\ Good(c, Held) /\ l \in DOMAIN c.cache /\ BlocksOf(c) = BlocksOf(a)
             /\ LastBlock(c) = LastBlock(a)
          /\ Len(c.blobs) = Len(a.blobs) /\ \A k \in Nat : k < Held => At(c, k) = At(a, k)
      BY <1>3, <2>1, GetGood
    <2> QED BY <1>3, <2>1, <2>2 DEF l
  <1>5. /\ Hold(c, LastBlock(c)) = c.cache[LastBlock(c)].ValV /\ Len(Hold(c, LastBlock(c))) \in Nat
        /\ Len(Hold(c, LastBlock(c))) <= BlockSize /\ (full <=> Len(Hold(c, LastBlock(c))) >= BlockSize)
    <2> HIDE DEF c
    <2>1. Hold(c, LastBlock(c)) = c.cache[LastBlock(c)].ValV
      BY <1>4 DEF Hold
    <2>2. Len(Hold(c, LastBlock(c))) \in Nat
      BY <1>3, <1>4, HoldsValues DEF Good
    <2>3. Len(Hold(c, LastBlock(c))) <= BlockSize
      BY <1>4 DEF Good, Filled
    <2> QED BY <2>1, <2>2, <2>3 DEF IsFull
  <1> HIDE DEF c
  <1>6. /\ Good(last, Held) /\ b \in DOMAIN last.cache /\ Len(last.blobs) # 0
           /\ Len(Hold(last, b)) < BlockSize
        /\ \A k \in Nat : k < Held => At(last, k) = At(a, k)
    <2>1. CASE full
      <3>1. Len(Hold(c, LastBlock(c))) = BlockSize /\ last = AddBlock(c)
        BY <1>3, <1>5, <2>1
      <3> HIDE DEF last, full
      <3> QED BY <1>3, <1>4, <3>1, AddBlockGood
    <2>2. CASE ~full
      <3>1. Len(Hold(c, LastBlock(c))) < BlockSize /\ last = c
        BY <1>3, <1>5, <2>2
      <3> HIDE DEF last, full
      <3> QED BY <1>4, <3>1
    <2> QED BY <2>1, <2>2
  <1>7. /\ Hold(last, b) = last.cache[b].ValV
        /\ d = added \/ d = Measured(added)
        /\ Vals' = Vals + 1 /\ UNCHANGED <<FirstBlockOffset, FirstValOffset>>
    <2>1. Hold(last, b) = last.cache[b].ValV
      <3> HIDE DEF last
      <3> QED BY <1>6 DEF Hold
    <2>2. added = [last EXCEPT !.cache[b] = Block(Append(@.ValV, v), TRUE)]
      <3> HIDE DEF last
      <3> QED BY <2>1
    <2> QED BY <1>1, <1>2, <2>1, <2>2 DEF AddVal, c
  <1> HIDE DEF last, full
  <1>8. Appends(last, b, v, added)
    <2>1. b \in BlocksOf(last)
      BY <1>6 DEF Good, Shape
    <2>2. Append(Hold(last, b), v) \in Seq(Value)
      BY <1>3, <1>6, <2>1, HoldsValues DEF Good
    <2> QED BY <1>6, <2>2 DEF Appends, Changes
  <1> HIDE DEF added, b
  <1>9. Good(added, Held + 1) /\ At(added, Held) = v /\ \A k \in Nat : k < Held
          => At(added, k) = At(last, k)
    BY <1>3, <1>6, <1>8, AppendGood
  <1>10. Good(d, Held + 1) /\ \A k \in Nat : k < Held + 1 => At(d, k) = At(added, k)
    <2>1. CASE d = added
      BY <1>9, <2>1
    <2>2. CASE d = Measured(added)
      <3>1. Shape(d) /\ Safe(d, {}) /\ Same(added, d, {})
        BY <1>3, <1>9, <2>2, MeasuredKeeps DEF Good
      <3>2. Held + 1 \in Nat
        BY <1>3
      <3> QED BY <1>3, <1>9, <3>1, <3>2, SameFilled, SameAt
    <2> QED BY <1>7, <2>1, <2>2
  <1>11. Held' = Held + 1 /\ IInv'
    <2>1. Held' = Held + 1 /\ Vals' \in Nat
      BY <1>7 DEF Held, IInv
    <2>2. \A n : n = Held + 1 => Good(BlockCache, n)'
      BY <1>2, <1>7, <1>10, Carried
    <2>3. Good(BlockCache, Held)'
      BY <2>1, <2>2 DEF Good, Filled
    <2> QED BY <1>7, <2>1, <2>3 DEF IInv, Held
  <1>12. ASSUME NEW j \in Nat, j <= Held
         PROVE At(BlockCache, j)' = IF j = Held THEN v ELSE At(BlockCache, j)
    <2>1. At(BlockCache, j)' = At(d, j)
      BY <1>2, <1>7, Carried
    <2>2. At(d, j) = At(added, j)
      BY <1>3, <1>10, <1>12
    <2>3. j # Held => At(added, j) = At(a, j)
      BY <1>3, <1>6, <1>9, <1>12
    <2> QED BY <1>1, <1>9, <2>1, <2>2, <2>3
  <1> QED BY <1>7, <1>11, <1>12

LEMMA DelStep ==
  ASSUME Careful, IInv, NEW n \in Nat, DelVals(n)
  PROVE  /\ IInv'
         /\ \E m \in Nat, gone \in Nat :
              /\ m > 0 /\ m <= Vals /\ Vals' = Vals - m
              /\ FirstBlockOffset' = FirstBlockOffset + gone
              /\ FirstValOffset' + gone * BlockSize = FirstValOffset + m
              /\ \A k \in Nat : k < Held' => At(BlockCache, k)' = At(BlockCache, k + gone * BlockSize)
  <1>1. PICK c : c = BlockCache
    OBVIOUS
  <1>2. PICK d : d = BlockCache'
    OBVIOUS
  <1>3. PICK F \in Nat : F = FirstBlockOffset
    BY DEF IInv
  <1> DEFINE L == Len(c.blobs)
             last == Len(Hold(c, LastBlock(c)))
  <1>4. /\ BlockSize \in Nat \ {0} /\ FirstValOffset \in Nat /\ Held \in Nat
           /\ Held = FirstValOffset + Vals /\ Vals \in Nat
        /\ Good(c, Held) /\ L \in Nat /\ DOMAIN c.blobs = 1..L
        /\ LastBlock(c) = F + L - 1 /\ BlocksOf(c) = F..F + L - 1
    <2>1. BlockSize \in Nat \ {0} /\ FirstValOffset \in Nat /\ Held \in Nat
            /\ Held = FirstValOffset + Vals /\ Vals \in Nat /\ Good(c, Held)
      BY <1>1, Numbers DEF Held, IInv
    <2> QED BY <1>3, <2>1, Places DEF Good, BlocksOf
  <1>5. PICK m \in Nat : m = Lesser(n, Vals) /\ m > 0 /\ m <= Vals
    BY <1>4 DEF Lesser, DelVals
  <1>6. PICK gone \in Nat, o \in 0..BlockSize - 1 :
          /\ gone = (FirstValOffset + m) \div BlockSize /\ o = (FirstValOffset + m) % BlockSize
          /\ FirstValOffset + m = gone * BlockSize + o /\ gone * BlockSize \in Nat
    <2> DEFINE x == FirstValOffset + m
    <2>1. x \in Nat
      BY <1>4, <1>5
    <2> HIDE DEF x
    <2>2. x \div BlockSize \in Nat /\ x % BlockSize \in 0..BlockSize - 1
            /\ x = (x \div BlockSize) * BlockSize + (x % BlockSize)
      BY <1>4, <2>1, DivMod
    <2>3. \A q \in Nat : q * BlockSize \in Nat
      BY <1>4
    <2> QED BY <2>2, <2>3 DEF x
  <1> DEFINE bs == F..F + gone - 1
             G == F + gone
             back == gone * BlockSize
  <1>6a. gone \in Nat /\ o \in 0..BlockSize - 1 /\ FirstValOffset + m = back + o /\ back \in Nat
    BY <1>6
  <1>7. /\ d = [Deleted(c, bs) EXCEPT !.blobs = SubSeq(@, gone + 1, Len(@))]
        /\ FirstBlockOffset' = G /\ FirstValOffset' = o /\ Vals' = Vals - m
    BY <1>1, <1>2, <1>3, <1>5, <1>6 DEF DelVals
  <1>8. L # 0 /\ last \in Nat /\ last <= BlockSize /\ Held = (L - 1) * BlockSize + last
    <2>1. L # 0
      BY <1>4, <1>5 DEF Good, Filled
    <2>2. LastBlock(c) \in BlocksOf(c)
      BY <1>3, <1>4, <2>1
    <2> QED BY <1>3, <1>4, <2>1, <2>2, HoldsValues DEF Good, Filled
  <1>9. gone <= L
    <2>1. L < gone => L * BlockSize + BlockSize <= gone * BlockSize
      BY <1>4, <1>6a, Multiples
    <2>2. L * BlockSize = (L - 1) * BlockSize + BlockSize
      BY <1>4
    <2> DEFINE x == (L - 1) * BlockSize
    <2>3. x \in Int
      BY <1>4
    <2> HIDE DEF x, back, last
    <2>4. L < gone => x + BlockSize + BlockSize <= back
      BY <2>1, <2>2 DEF x, back
    <2>5. Held = x + last
      BY <1>8 DEF x
    <2> QED BY <1>4, <1>5, <1>6a, <1>8, <2>3, <2>4, <2>5
  <1>10. /\ d.cache = Without(c.cache, bs) /\ d.order = Rest(c.order, bs)
            /\ d.blobs = SubSeq(c.blobs, gone + 1, L)
         /\ d = [cache |-> d.cache, order |-> d.order, cur |-> d.cur, blobs |-> d.blobs]
    <2> HIDE DEF bs, L
    <2>0. Shape(c)
      BY <1>4 DEF Good
    <2>3. PICK e : e = Deleted(c, bs)
      OBVIOUS
    <2>1. /\ e.cache = Without(c.cache, bs) /\ e.order = Rest(c.order, bs) /\ e.blobs = c.blobs
          /\ e = [cache |-> e.cache, order |-> e.order, cur |-> e.cur, blobs |-> e.blobs]
      BY <2>0, <2>3 DEF Deleted, Shape
    <2>2. d = [e EXCEPT !.blobs = SubSeq(@, gone + 1, Len(@))]
      BY <1>7, <2>3
    <2> QED BY <2>1, <2>2 DEF L
  <1>11. DOMAIN d.cache = DOMAIN c.cache \ bs /\ \A b \in DOMAIN d.cache : d.cache[b] = c.cache[b]
    BY <1>10 DEF Without
  <1>12. /\ d.blobs \in Seq(Seq(Value) \cup {Empty}) /\ Len(d.blobs) = L - gone
         /\ \A i \in 1..L - gone : d.blobs[i] = c.blobs[gone + i]
    <2> DEFINE S == Seq(Value) \cup {Empty}
    <2>1. c.blobs \in Seq(S)
      BY <1>4 DEF Good, Shape
    <2> DEFINE s == c.blobs
               t == CutOff(s, gone, L)
    <2>2. \A i \in 1..L : s[i] \in S
      BY <2>1
    <2> HIDE DEF S, L, s
    <2>3. EndsIn(s, gone, L, S)
      BY <1>4, <1>6a, <2>2 DEF EndsIn
    <2>4. t \in Seq(S) /\ Len(t) = L - gone /\ \A i \in 1..L - gone : t[i] = s[gone + i]
      <3>1. gone \in Nat /\ L \in Nat /\ gone <= L
        BY <1>4, <1>6a, <1>9
      <3>2. IsCut(CutOff(s, gone, L), s, gone, L, S)
        BY <2>3, <3>1, Cut
      <3> QED BY <3>2 DEF IsCut
    <2>5. d.blobs = t
      BY <1>10 DEF s, CutOff
    <2> HIDE DEF t
    <2> QED BY <2>4, <2>5 DEF S, s
  <1> DEFINE left == G..F + L - 1
  <1>13. /\ BlocksOf(BlockCache)' = left /\ left = BlocksOf(c) \ bs
         /\ LastBlock(BlockCache)' = LastBlock(c)
         /\ \A b \in left : Place(b)' \in 1..L - gone /\ gone + Place(b)' = Place(b)
            /\ b \in BlocksOf(c) /\ b \notin bs
    <2>1. LastBlock(BlockCache)' = G + (L - gone) - 1
      BY <1>2, <1>7, <1>12 DEF LastBlock
    <2>2. LastBlock(BlockCache)' = LastBlock(c) /\ LastBlock(c) = F + L - 1
      <3> HIDE DEF L
      <3>1. G + (L - gone) - 1 = F + L - 1
        BY <1>4, <1>6a
      <3> QED BY <1>4, <2>1, <3>1
    <2>3. BlocksOf(BlockCache)' = left
      BY <1>7, <2>2 DEF BlocksOf
    <2>4. \A b \in left : b \in Int /\ b >= G /\ b <= F + L - 1
      BY <1>4, <1>6a
    <2>5. \A b : Place(b)' = b - G + 1 /\ Place(b) = b - F + 1
      BY <1>3, <1>7 DEF Place
    <2> HIDE DEF L
    <2>6. left = BlocksOf(c) \ bs
      BY <1>4, <1>6a, <1>9
    <2>7. ASSUME NEW b \in left PROVE b - G + 1 \in 1..L - gone /\ gone + (b - G + 1) = b - F + 1
      BY <1>4, <1>6a, <1>9, <2>4
    <2> HIDE DEF left, bs, G
    <2> QED BY <2>2, <2>3, <2>5, <2>6, <2>7
  <1>14. \A b \in left : Hold(BlockCache, b)' = Hold(c, b)
    <2> SUFFICES ASSUME NEW b \in left PROVE Hold(BlockCache, b)' = Hold(c, b)
      OBVIOUS
    <2> HIDE DEF left, bs, L, G
    <2>1. Hold(BlockCache, b)' = IF b \in DOMAIN d.cache THEN d.cache[b].ValV ELSE d.blobs[Place(b)']
      BY <1>2 DEF Hold
    <2>2. d.blobs[Place(b)'] = c.blobs[Place(b)]
      BY <1>12, <1>13
    <2>3. b \in DOMAIN d.cache <=> b \in DOMAIN c.cache
      BY <1>11, <1>13
    <2> QED BY <1>11, <2>1, <2>2, <2>3 DEF Hold
  <1>15. Shape(BlockCache)'
    <2> HIDE DEF left, bs, L, G
    <2>1. DOMAIN d.cache \subseteq left
      BY <1>4, <1>11, <1>13 DEF Good, Shape
    <2>2. d.cache \in [DOMAIN d.cache -> Cached]
      BY <1>4, <1>10, <1>11 DEF Without, Good, Shape
    <2>3. d.order \in Seq(DOMAIN d.cache)
      BY <1>4, <1>10, <1>11, RestIs DEF Good, Shape
    <2> QED BY <1>2, <1>10, <1>12, <1>13, <2>1, <2>2, <2>3 DEF Shape
  <1>16. Safe(BlockCache, {})'
    <2> SUFFICES ASSUME NEW b \in left
                 PROVE  \/ b \in DOMAIN d.cache /\ d.cache[b].ChangedP
                        \/ d.blobs[Place(b)'] # Empty /\ d.blobs[Place(b)'] = Hold(BlockCache, b)'
      BY <1>2, <1>13 DEF Safe
    <2> HIDE DEF left, bs, L, G
    <2>1. d.blobs[Place(b)'] = c.blobs[Place(b)] /\ b \in BlocksOf(c) /\ b \notin bs
      BY <1>12, <1>13
    <2>2. \/ b \in DOMAIN c.cache /\ c.cache[b].ChangedP
          \/ c.blobs[Place(b)] # Empty /\ c.blobs[Place(b)] = Hold(c, b)
      BY <1>4, <2>1 DEF Good, Safe
    <2> QED BY <1>11, <1>14, <2>1, <2>2
  <1>17. Held' \in Nat /\ Held' = Held - back /\ Vals' \in Nat
    <2>1. PICK h : h = Held'
      OBVIOUS
    <2>2. h = o + (Vals - m) /\ Vals' = Vals - m
      BY <1>7, <2>1 DEF Held
    <2>3. Vals - m \in Nat
      BY <1>4, <1>5
    <2>4. back \in Nat /\ FirstValOffset + m = back + o /\ o \in Nat
      BY <1>6a
    <2>6. Held = FirstValOffset + Vals /\ FirstValOffset \in Nat /\ Vals \in Nat
      BY <1>4
    <2> HIDE DEF back
    <2>5. h \in Nat /\ h = Held - back
      BY <2>2, <2>3, <2>4, <2>6
    <2> QED BY <2>1, <2>2, <2>3, <2>5
  <1>18. Filled(BlockCache, Held)'
    <2>1. \A b \in left : Len(Hold(BlockCache, b))' <= BlockSize
                          /\ (b # LastBlock(BlockCache)' => Len(Hold(BlockCache, b))' = BlockSize)
      <3> HIDE DEF left, bs, L, G
      <3> QED BY <1>4, <1>13, <1>14 DEF Good, Filled
    <2>2. Len(d.blobs) = 0 => Held' = 0
      <3>0. Len(d.blobs) = 0 => L = gone
        <4> HIDE DEF L
        <4> QED BY <1>4, <1>12
      <3> SUFFICES ASSUME L = gone PROVE Held' = 0
        BY <3>0
      <3> DEFINE x == (L - 1) * BlockSize
      <3>1. back = x + BlockSize /\ x \in Int
        <4>1. L * BlockSize = (L - 1) * BlockSize + BlockSize /\ (L - 1) * BlockSize \in Int
          BY <1>4
        <4> QED BY <4>1
      <3>2. Held = x + last
        BY <1>8
      <3>3. PICK h \in Nat : h = Held'
        BY <1>17
      <3>4. h = Held - back
        BY <1>17, <3>3
      <3> HIDE DEF x, back, last
      <3>6. last \in Nat /\ last <= BlockSize /\ BlockSize \in Nat
        BY <1>4, <1>8
      <3>5. h = 0
        BY <3>1, <3>2, <3>3, <3>4, <3>6
      <3> QED BY <3>3, <3>5
    <2>3. Len(d.blobs) # 0
            => Held' = (Len(d.blobs) - 1) * BlockSize + Len(Hold(BlockCache, LastBlock(BlockCache)))'
      <3> SUFFICES ASSUME L # gone
          PROVE Held' = (Len(d.blobs) - 1) * BlockSize + Len(Hold(BlockCache, LastBlock(BlockCache)))'
        BY <1>4, <1>6a, <1>12
      <3>1. LastBlock(c) \in left
        BY <1>3, <1>4, <1>6a, <1>9
      <3>2. \A b : b = LastBlock(c) => Hold(BlockCache, b)' = Hold(c, b)
        BY <1>14, <3>1
      <3>3. Hold(BlockCache, LastBlock(BlockCache))' = Hold(c, LastBlock(c))
        BY <1>13, <3>2 DEF Hold
      <3> DEFINE x == (L - 1) * BlockSize
                 y == (L - gone - 1) * BlockSize
      <3>4. x = y + back /\ x \in Int /\ y \in Int
        <4>1. \A p, q \in Int : (p + q) * BlockSize = p * BlockSize + q * BlockSize
                /\ p * BlockSize \in Int
          BY <1>4
        <4> HIDE DEF L
        <4>2. L - gone - 1 \in Int /\ gone \in Int /\ L - 1 = (L - gone - 1) + gone
          BY <1>4, <1>6a
        <4> QED BY <4>1, <4>2
      <3>5. Held = x + last
        BY <1>8
      <3>6. Len(d.blobs) = L - gone
        BY <1>12
      <3> HIDE DEF x, y, back, last
      <3>7. Held' = y + last
        BY <1>4, <1>6a, <1>8, <1>17, <3>4, <3>5
      <3> QED BY <3>3, <3>6, <3>7 DEF y, last
    <2> QED BY <1>2, <1>13, <2>1, <2>2, <2>3 DEF Filled
  <1>19. IInv'
    <2>1. FirstBlockOffset' \in Nat /\ FirstValOffset' \in 0..BlockSize - 1
      BY <1>6a, <1>7
    <2> QED BY <1>15, <1>16, <1>17, <1>18, <2>1 DEF IInv, Held, Good
  <1>20. ASSUME NEW k \in Nat, k < Held' PROVE At(BlockCache, k)' = At(BlockCache, k + back)
    <2> DEFINE q == k \div BlockSize
               r == k % BlockSize
    <2>1. q \in Nat /\ r \in 0..BlockSize - 1
      BY <1>4, DivMod
    <2>2. (back + k) \div BlockSize = gone + q /\ (back + k) % BlockSize = r
      BY <1>4, <1>6a, Ids
    <2>3. back + k = k + back /\ k + back \in Nat /\ k + back < Held
      <3> HIDE DEF back
      <3> QED BY <1>4, <1>6a, <1>17, <1>20
    <2> DEFINE b == G + q
    <2>4. b = F + (gone + q)
      BY <1>6a, <2>1
    <2>5. b \in BlocksOf(c)
      <3>1. F + ((k + back) \div BlockSize) \in BlocksOf(c)
        <4> HIDE DEF back
        <4> QED BY <1>3, <1>4, <2>3, InRange
      <3> QED BY <2>2, <2>3, <2>4, <3>1
    <2>6. b \in left
      BY <1>4, <1>6a, <2>1, <2>5
    <2>7. At(BlockCache, k)' = Hold(BlockCache, G + q)'[r + 1]
      BY <1>7 DEF At
    <2>8. At(BlockCache, k + back) = Hold(c, F + (gone + q))[r + 1]
      BY <1>1, <1>3, <2>2, <2>3 DEF At
    <2> HIDE DEF left, b, q, r
    <2>9. Hold(BlockCache, b)' = Hold(c, b)
      BY <1>14, <2>6
    <2> QED BY <2>4, <2>7, <2>8, <2>9 DEF b
  <1>21. /\ m > 0 /\ m <= Vals /\ Vals' = Vals - m
         /\ FirstBlockOffset' = FirstBlockOffset + gone
         /\ FirstValOffset' + gone * BlockSize = FirstValOffset + m
         /\ \A k \in Nat : k < Held' => At(BlockCache, k)' = At(BlockCache, k + gone * BlockSize)
    <2>1. FirstValOffset' + back = FirstValOffset + m
      <3> HIDE DEF back
      <3>1. o + back = FirstValOffset + m
        BY <1>4, <1>6a
      <3> QED BY <1>7, <3>1
    <2> QED BY <1>3, <1>5, <1>7, <1>20, <2>1
  <1> HIDE DEF bs, L, G, last, left, back
  <1> QED BY <1>6a, <1>19, <1>21

(***************************************************************************)
(* The values, as the users of the storage see them.                       *)
(***************************************************************************)
Seen == [i \in 1..Vals |-> At(BlockCache, FirstValOffset + i - 1)]

LEMMA SeenAre ==
  ASSUME Careful, IInv
  PROVE  /\ Vals \in Nat /\ Len(Seen) = Vals /\ DOMAIN Seen = 1..Vals
         /\ Seen \in Seq({At(BlockCache, k) : k \in Nat})
         /\ \A i \in 1..Vals : FirstValOffset + i - 1 \in Nat /\ FirstValOffset + i - 1 < Held
  <1>1. Vals \in Nat /\ FirstValOffset \in Nat /\ Held = FirstValOffset + Vals
    BY Numbers DEF IInv, Held
  <1>2. \A i \in 1..Vals : FirstValOffset + i - 1 \in Nat /\ FirstValOffset + i - 1 < Held
    BY <1>1
  <1> DEFINE W == {At(BlockCache, k) : k \in Nat}
  <1>3. \A i \in 1..Vals : At(BlockCache, FirstValOffset + i - 1) \in W
    BY <1>2
  <1>4. Seen \in Seq(W) /\ Len(Seen) = Vals /\ DOMAIN Seen = 1..Vals
    <2> HIDE DEF W
    <2> QED BY <1>1, <1>3 DEF Seen
  <1> QED BY <1>1, <1>2, <1>4

\* Counted in ids, they are the values of the abstract storage.
LEMMA SeenIs ==
  ASSUME NEW B \in Nat \ {0}, NEW f \in Nat, NEW o \in Nat, NEW i \in Nat \ {0}
  PROVE  /\ (f * B + o + i - 1) \div B = f + ((o + i - 1) \div B)
         /\ (f * B + o + i - 1) % B = (o + i - 1) % B
  <1> DEFINE k == o + i - 1
             x == f * B
  <1>1. k \in Nat /\ x \in Nat
    OBVIOUS
  <1>2. (x + k) \div B = f + (k \div B) /\ (x + k) % B = k % B
    <2> HIDE DEF k
    <2> QED BY <1>1, Ids
  <1>3. x + k = x + o + i - 1
    <2> HIDE DEF x
    <2> QED BY <1>1
  <1> QED BY <1>2, <1>3

PromisedVals == [i \in 1..Vals |-> LET id == GetFirstValId + i - 1 IN ValuesOf(id \div BlockSize)[(id % BlockSize) + 1]]

LEMMA PromisedIs ==
  ASSUME Careful, IInv
  PROVE  PromisedVals = Seen
  <1> SUFFICES ASSUME NEW i \in 1..Vals
               PROVE  ValuesOf((GetFirstValId + i - 1) \div BlockSize)[((GetFirstValId + i - 1) % BlockSize) + 1]
                      = At(BlockCache, FirstValOffset + i - 1)
    BY DEF PromisedVals, Seen
  <1>1. FirstBlockOffset \in Nat /\ i \in Nat \ {0}
    BY DEF IInv
  <1>2. /\ (GetFirstValId + i - 1) \div BlockSize = FirstBlockOffset + ((FirstValOffset + i - 1) \div BlockSize)
        /\ (GetFirstValId + i - 1) % BlockSize = (FirstValOffset + i - 1) % BlockSize
    <2>1. BlockSize \in Nat \ {0} /\ FirstValOffset \in Nat
      BY Numbers
    <2>2. /\ (FirstBlockOffset * BlockSize + FirstValOffset + i - 1) \div BlockSize
              = FirstBlockOffset + ((FirstValOffset + i - 1) \div BlockSize)
          /\ (FirstBlockOffset * BlockSize + FirstValOffset + i - 1) % BlockSize = (FirstValOffset + i - 1) % BlockSize
      BY <1>1, <2>1, SeenIs, ZenonT(40)
    <2> QED BY <2>2 DEF GetFirstValId
  <1>3. \A b : ValuesOf(b) = Hold(BlockCache, b)
    BY DEF ValuesOf, Hold
  <1> QED BY <1>2, <1>3 DEF At

LEMMA NothingSeen ==
  ASSUME Careful, IInv, SameValues
  PROVE  Seen' = Seen /\ GetFirstValId' = GetFirstValId
  <1>1. Vals' = Vals /\ FirstValOffset' = FirstValOffset /\ GetFirstValId' = GetFirstValId
    BY DEF SameValues, GetFirstValId
  <1>2. ASSUME NEW i \in 1..Vals
        PROVE At(BlockCache, FirstValOffset + i - 1)' = At(BlockCache, FirstValOffset + i - 1)
    <2> DEFINE j == FirstValOffset + i - 1
    <2>1. j \in Nat /\ j < Held /\ j' = j
      BY <1>1, SeenAre
    <2> HIDE DEF j
    <2>2. \A k : k = j => At(BlockCache, k)' = At(BlockCache, j)
      BY <2>1 DEF SameValues
    <2>3. At(BlockCache, j)' = At(BlockCache, j)
      BY <2>1, <2>2 DEF At
    <2> QED BY <2>3 DEF j
  <1> QED BY <1>1, <1>2 DEF Seen

LEMMA SetSeen ==
  ASSUME Careful, IInv, NEW id \in ValIds, NEW v \in Value, SetVal(id, v)
  PROVE  GetFirstValId' = GetFirstValId /\ id - GetFirstValId + 1 \in 1..Vals
         /\ Seen' = [Seen EXCEPT ![id - GetFirstValId + 1] = v]
  <1>1. /\ UNCHANGED <<Vals, FirstBlockOffset, FirstValOffset>>
        /\ \E k \in Nat : /\ k < Held /\ k >= FirstValOffset /\ id = FirstBlockOffset * BlockSize + k
                          /\ \A j \in Nat : j < Held
                             => At(BlockCache, j)' = IF j = k THEN v ELSE At(BlockCache, j)
    BY SetStep
  <1>2. PICK k \in Nat : /\ k < Held /\ k >= FirstValOffset /\ id = FirstBlockOffset * BlockSize + k
                         /\ \A j \in Nat : j < Held
                            => At(BlockCache, j)' = IF j = k THEN v ELSE At(BlockCache, j)
    BY <1>1
  <1> DEFINE p == id - GetFirstValId + 1
  <1>3. Vals \in Nat /\ FirstValOffset \in Nat /\ Held = FirstValOffset + Vals
          /\ FirstBlockOffset * BlockSize \in Nat
    <2>1. FirstBlockOffset \in Nat /\ BlockSize \in Nat
      BY Numbers DEF IInv
    <2> QED BY <2>1, Numbers, SeenAre DEF Held
  <1>4. p = k - FirstValOffset + 1
    <2> DEFINE x == FirstBlockOffset * BlockSize
    <2>1. id = x + k /\ p = id - (x + FirstValOffset) + 1
      BY <1>2 DEF GetFirstValId
    <2> HIDE DEF x, p
    <2> QED BY <1>3, <2>1 DEF x
  <1> HIDE DEF p
  <1>5. p \in 1..Vals
    BY <1>2, <1>3, <1>4
  <1>6. ASSUME NEW i \in 1..Vals
        PROVE At(BlockCache, FirstValOffset + i - 1)' = IF i = p THEN v ELSE Seen[i]
    <2> DEFINE j == FirstValOffset + i - 1
    <2>1. j \in Nat /\ j < Held /\ j' = j /\ (j = k <=> i = p) /\ Seen[i] = At(BlockCache, j)
      BY <1>1, <1>2, <1>3, <1>4, SeenAre DEF Seen
    <2> HIDE DEF j
    <2>2. \A n : n = j => At(BlockCache, n)' = IF i = p THEN v ELSE Seen[i]
      BY <1>2, <2>1
    <2>3. At(BlockCache, j)' = IF i = p THEN v ELSE Seen[i]
      BY <2>1, <2>2 DEF At
    <2> QED BY <2>3 DEF j
  <1>7. Seen' = [i \in 1..Vals |-> At(BlockCache, FirstValOffset + i - 1)']
    BY <1>1 DEF Seen
  <1>8. Seen' = [Seen EXCEPT ![p] = v]
    <2>1. DOMAIN Seen = 1..Vals
      BY SeenAre
    <2>2. Seen' = [i \in 1..Vals |-> IF i = p THEN v ELSE Seen[i]]
      BY <1>6, <1>7
    <2> QED BY <1>5, <2>1, <2>2
  <1>9. GetFirstValId' = GetFirstValId
    BY <1>1 DEF GetFirstValId
  <1> QED BY <1>5, <1>8, <1>9 DEF p

LEMMA AddSeen ==
  ASSUME Careful, IInv, NEW v \in Value, AddVal(v)
  PROVE  GetFirstValId' = GetFirstValId /\ Seen' = Append(Seen, v)
  <1>1. /\ UNCHANGED <<FirstBlockOffset, FirstValOffset>> /\ Vals' = Vals + 1
        /\ \A j \in Nat : j <= Held => At(BlockCache, j)' = IF j = Held THEN v ELSE At(BlockCache, j)
    BY AddStep
  <1>2. Vals \in Nat /\ FirstValOffset \in Nat /\ Held = FirstValOffset + Vals
    BY Numbers, SeenAre DEF Held
  <1>3. ASSUME NEW i \in 1..Vals + 1
        PROVE  At(BlockCache, FirstValOffset + i - 1)' = IF i = Vals + 1 THEN v ELSE Seen[i]
    <2> DEFINE j == FirstValOffset + i - 1
    <2>1. j \in Nat /\ j <= Held /\ (j = Held <=> i = Vals + 1)
      BY <1>2
    <2>2. j' = j /\ (i # Vals + 1 => Seen[i] = At(BlockCache, j))
      BY <1>1, <1>2 DEF Seen
    <2> HIDE DEF j
    <2>3. \A n : n = j => At(BlockCache, n)' = IF i = Vals + 1 THEN v ELSE Seen[i]
      BY <1>1, <2>1, <2>2
    <2>4. At(BlockCache, j)' = IF i = Vals + 1 THEN v ELSE Seen[i]
      BY <2>2, <2>3 DEF At
    <2> QED BY <2>4 DEF j
  <1>4. Seen' = [i \in 1..Vals + 1 |-> At(BlockCache, FirstValOffset + i - 1)']
    BY <1>1 DEF Seen
  <1>5. Seen' = [i \in 1..Vals + 1 |-> IF i = Vals + 1 THEN v ELSE Seen[i]]
    BY <1>3, <1>4
  <1>6. Append(Seen, v) = [i \in 1..Vals + 1 |-> IF i = Vals + 1 THEN v ELSE Seen[i]]
    BY SeenAre, Appended
  <1> QED BY <1>1, <1>5, <1>6 DEF GetFirstValId

LEMMA DelSeen ==
  ASSUME Careful, IInv, NEW n \in Nat, DelVals(n)
  PROVE  \E m \in 1..Vals : GetFirstValId' = GetFirstValId + m /\ Seen' = SubSeq(Seen, m + 1, Len(Seen))
  <1>1. PICK m \in Nat, gone \in Nat :
          /\ m > 0 /\ m <= Vals /\ Vals' = Vals - m
          /\ FirstBlockOffset' = FirstBlockOffset + gone
          /\ FirstValOffset' + gone * BlockSize = FirstValOffset + m
          /\ \A k \in Nat : k < Held' => At(BlockCache, k)' = At(BlockCache, k + gone * BlockSize)
    BY DelStep
  <1>2. IInv'
    BY DelStep
  <1>3. PICK o \in Nat : o = FirstValOffset'
    BY <1>2 DEF IInv, Careful
  <1> DEFINE back == gone * BlockSize
  <1>4. /\ Vals \in Nat /\ FirstValOffset \in Nat /\ Held = FirstValOffset + Vals
           /\ BlockSize \in Nat \ {0} /\ FirstBlockOffset \in Nat
        /\ back \in Nat /\ o + back = FirstValOffset + m
    <2>1. BlockSize \in Nat \ {0}
      BY DEF Careful
    <2>2. back \in Nat
      BY <2>1
    <2> QED BY <1>1, <1>3, <2>1, <2>2, Numbers DEF Held, IInv
  <1>5. GetFirstValId' = GetFirstValId + m
    <2> DEFINE x == FirstBlockOffset * BlockSize
               y == (FirstBlockOffset + gone) * BlockSize
    <2>1. y = x + back /\ x \in Nat
      BY <1>4
    <2>2. GetFirstValId' = y + o /\ GetFirstValId = x + FirstValOffset
      BY <1>1, <1>3 DEF GetFirstValId
    <2> HIDE DEF x, y, back
    <2>3. y + o = (x + FirstValOffset) + m
      BY <1>4, <2>1
    <2> QED BY <2>2, <2>3
  <1>6. ASSUME NEW i \in 1..Vals - m PROVE At(BlockCache, o + i - 1)' = Seen[m + i] /\ m + i \in 1..Vals
    <2> DEFINE j == o + i - 1
    <2>1. m + i \in 1..Vals /\ j \in Nat
      BY <1>1, <1>4
    <2>2. j < Held'
      <3>1. Held' = o + (Vals - m)
        BY <1>1, <1>3 DEF Held
      <3> DEFINE h == Held'
      <3> HIDE DEF h
      <3>2. h = o + (Vals - m)
        BY <3>1 DEF h
      <3>3. j < h
        BY <1>1, <1>4, <3>2
      <3> QED BY <3>3 DEF h
    <2>3. j + back = FirstValOffset + (m + i) - 1
      <3> HIDE DEF back
      <3> QED BY <1>4
    <2> HIDE DEF j
    <2>4. At(BlockCache, j)' = At(BlockCache, j + back)
      BY <1>1, <2>1, <2>2
    <2>5. Seen[m + i] = At(BlockCache, FirstValOffset + (m + i) - 1)
      BY <2>1 DEF Seen
    <2> QED BY <2>1, <2>3, <2>4, <2>5 DEF j
  <1>7. Seen' = [i \in 1..Vals - m |-> At(BlockCache, o + i - 1)']
    BY <1>1, <1>3 DEF Seen
  <1> DEFINE s == Seen
             t == CutOff(s, m, Vals)
             W == {At(BlockCache, k) : k \in Nat}
  <1>8. s \in Seq(W) /\ Len(s) = Vals
    BY SeenAre
  <1> HIDE DEF s, W, back
  <1>9. EndsIn(s, m, Vals, W)
    <2>1. \A i \in m + 1..Vals : i \in 1..Vals
      BY <1>1, <1>4
    <2> QED BY <1>4, <1>8, <2>1 DEF EndsIn
  <1>10. t \in Seq(W) /\ Len(t) = Vals - m /\ \A i \in 1..Vals - m : t[i] = s[m + i]
    <2>1. m \in Nat /\ Vals \in Nat /\ m <= Vals
      BY <1>1, <1>4
    <2> HIDE DEF t
    <2>2. IsCut(CutOff(s, m, Vals), s, m, Vals, W)
      BY <1>9, <2>1, Cut
    <2> QED BY <2>2 DEF t, IsCut
  <1> HIDE DEF t
  <1>11. t = [i \in 1..Vals - m |-> s[m + i]]
    BY <1>10
  <1>12. Seen' = t
    BY <1>6, <1>7, <1>11 DEF s
  <1>13. m \in 1..Vals
    BY <1>1, <1>4
  <1> QED BY <1>5, <1>8, <1>12, <1>13 DEF s, t, CutOff

(***************************************************************************)
(* The theorems.                                                           *)
(***************************************************************************)
LEMMA NextKeeps ==
  ASSUME Careful, IInv, [Next]_vars
  PROVE  IInv' /\ [Promise!Next]_(Promise!vars)
  <1>1. PromisedVals = Seen /\ Len(Seen) = Vals
    BY PromisedIs, SeenAre
  <1>2. IInv' => PromisedVals' = Seen'
    <2> SUFFICES ASSUME IInv', NEW i \in 1..Vals'
                 PROVE  (LET id == GetFirstValId + i - 1 IN ValuesOf(id \div BlockSize)[(id % BlockSize) + 1])'
                        = At(BlockCache, FirstValOffset + i - 1)'
      BY DEF PromisedVals, Seen
    <2>1. PICK f \in Nat : f = FirstBlockOffset'
      BY DEF IInv
    <2>2. PICK o \in Nat : o = FirstValOffset'
      BY DEF IInv, Careful
    <2>3. i \in Nat \ {0}
      BY DEF IInv
    <2>4. /\ (f * BlockSize + o + i - 1) \div BlockSize = f + ((o + i - 1) \div BlockSize)
          /\ (f * BlockSize + o + i - 1) % BlockSize = (o + i - 1) % BlockSize
      <3>1. BlockSize \in Nat \ {0}
        BY DEF Careful
      <3> QED BY <2>3, <3>1, SeenIs
    <2>5. GetFirstValId' = f * BlockSize + o
      BY <2>1, <2>2 DEF GetFirstValId
    <2>6. \A b : ValuesOf(b)' = Hold(BlockCache, b)'
      BY DEF ValuesOf, Hold
    <2>7. \A b : (b = (f * BlockSize + o + i - 1) \div BlockSize) => ValuesOf(b)' = Hold(BlockCache, b)'
      BY <2>6
    <2> QED BY <2>1, <2>2, <2>4, <2>5, <2>6 DEF At, ValuesOf, Hold
  <1>3. ASSUME SameValues, IInv' PROVE UNCHANGED Promise!vars
    <2>1. Seen' = Seen /\ GetFirstValId' = GetFirstValId
      BY <1>3, NothingSeen
    <2>2. PromisedVals' = PromisedVals
      BY <1>1, <1>2, <1>3, <2>1
    <2> QED BY <2>1, <2>2 DEF Promise!vars, PromisedVals
  <1>4. CASE UNCHANGED vars
    <2>1. IInv' /\ SameValues
      BY <1>4 DEF vars, IInv, SameValues, Good, Shape, Safe, Filled, At, Hold, BlocksOf, LastBlock,
        Place
    <2> QED BY <1>3, <2>1
  <1>5. CASE \E v \in Value : AddVal(v)
    <2>1. PICK v \in Value : AddVal(v)
      BY <1>5
    <2>2. IInv' /\ GetFirstValId' = GetFirstValId /\ Seen' = Append(Seen, v)
      BY <2>1, AddStep, AddSeen
    <2>3. PromisedVals' = Append(PromisedVals, v)
      BY <1>1, <1>2, <2>2
    <2>4. Promise!AddVal(v)
      BY <2>2, <2>3 DEF Promise!AddVal, PromisedVals
    <2> QED BY <2>2, <2>4 DEF Promise!Next
  <1>6. CASE \E v \in Value : \E id \in ValIds : SetVal(id, v)
    <2>1. PICK v \in Value, id \in ValIds : SetVal(id, v)
      BY <1>6
    <2>2. /\ IInv' /\ GetFirstValId' = GetFirstValId /\ id - GetFirstValId + 1 \in 1..Vals
          /\ Seen' = [Seen EXCEPT ![id - GetFirstValId + 1] = v]
      BY <2>1, SetStep, SetSeen
    <2>3. PromisedVals' = [PromisedVals EXCEPT ![id - GetFirstValId + 1] = v]
            /\ Len(PromisedVals) = Vals
      BY <1>1, <1>2, <2>2
    <2>4. id \in GetFirstValId..GetFirstValId + Len(PromisedVals) - 1
      BY <2>3 DEF ValIds
    <2>5. Promise!SetVal(id, v)
      BY <2>2, <2>3, <2>4 DEF Promise!SetVal, PromisedVals
    <2> QED BY <2>2, <2>4, <2>5 DEF Promise!Next, PromisedVals
  <1>7. CASE \E id \in ValIds : GetVal(id)
    BY <1>3, <1>7, GetStep
  <1>8. CASE \E n \in 1..MaxVals : DelVals(n)
    <2>1. PICK n \in Nat : DelVals(n)
      BY <1>8 DEF Careful
    <2>2. PICK m \in 1..Vals : GetFirstValId' = GetFirstValId + m
                                 /\ Seen' = SubSeq(Seen, m + 1, Len(Seen))
      BY <2>1, DelSeen
    <2>3. IInv'
      BY <2>1, DelStep
    <2>4. PromisedVals' = SubSeq(PromisedVals, m + 1, Len(PromisedVals)) /\ Len(PromisedVals) = Vals
      BY <1>1, <1>2, <2>2, <2>3
    <2>5. m <= Vals
      BY DEF IInv
    <2>6. Promise!DelVals(m)
      BY <2>2, <2>4, <2>5 DEF Promise!DelVals, PromisedVals
    <2> QED BY <2>3, <2>4, <2>6 DEF Promise!Next, PromisedVals
  <1>9. CASE PartialFlush
    BY <1>3, <1>9, FlushStep
  <1>10. CASE CloseAndOpen
    BY <1>3, <1>10, CloseStep
  <1> QED BY <1>4, <1>5, <1>6, <1>7, <1>8, <1>9, <1>10 DEF Next

LEMMA InitKeeps ==
  ASSUME Careful, Init
  PROVE  IInv /\ Promise!Init
  <1>1. PICK c : c = BlockCache
    OBVIOUS
  <1>2. /\ Vals = 0 /\ FirstBlockOffset = 0 /\ FirstValOffset = 0 /\ BlockSize \in Nat \ {0}
        /\ c = [cache |-> [b \in {0} |-> Block(<<>>, TRUE)], order |-> <<0>>, cur |-> BlockMem, blobs |-> <<Empty>>]
    BY <1>1 DEF Init, Careful
  <1> DEFINE cache == [b \in {0} |-> Block(<<>>, TRUE)]
  <1>3. DOMAIN cache = {0} /\ cache[0] = Block(<<>>, TRUE) /\ cache = [b \in {0} |-> Block(<<>>, TRUE)]
    OBVIOUS
  <1>4. Block(<<>>, TRUE) \in Cached /\ Block(<<>>, TRUE).ValV = <<>> /\ Block(<<>>, TRUE).ChangedP
    BY DEF Block, Cached
  <1> HIDE DEF cache
  <1>5. /\ c.cache = cache /\ c.order = <<0>> /\ c.blobs = <<Empty>>
        /\ c = [cache |-> c.cache, order |-> c.order, cur |-> c.cur, blobs |-> c.blobs]
    BY <1>2 DEF cache
  <1>6. Len(c.blobs) = 1 /\ LastBlock(c) = 0 /\ BlocksOf(c) = {0}
    <2>1. Len(c.blobs) = 1
      BY <1>5
    <2>2. LastBlock(c) = 0
      BY <1>2, <2>1 DEF LastBlock
    <2>3. BlocksOf(c) = 0..0
      BY <1>2, <2>2 DEF BlocksOf
    <2> QED BY <2>1, <2>2, <2>3
  <1>7. Hold(c, 0) = <<>>
    BY <1>3, <1>4, <1>5 DEF Hold
  <1>8. Shape(c)
    <2>1. c.cache \in [DOMAIN c.cache -> Cached]
      BY <1>3, <1>4, <1>5
    <2>2. c.order \in Seq(DOMAIN c.cache) /\ c.blobs \in Seq(Seq(Value) \cup {Empty})
      BY <1>3, <1>5
    <2> QED BY <1>3, <1>5, <1>6, <2>1, <2>2 DEF Shape
  <1>9. Safe(c, {})
    BY <1>3, <1>4, <1>5, <1>6 DEF Safe
  <1>10. Filled(c, 0)
    <2>1. Len(Hold(c, 0)) = 0
      BY <1>7
    <2>2. 0 <= BlockSize /\ (Len(c.blobs) - 1) * BlockSize + Len(Hold(c, LastBlock(c))) = 0
      BY <1>2, <1>6, <2>1
    <2> QED BY <1>6, <2>1, <2>2 DEF Filled
  <1>11. IInv
    BY <1>1, <1>2, <1>8, <1>9, <1>10 DEF IInv, Good
  <1>12. GetFirstValId = 0
    BY <1>2 DEF GetFirstValId
  <1>13. PromisedVals = <<>>
    BY <1>2 DEF PromisedVals
  <1> QED BY <1>11, <1>12, <1>13 DEF Promise!Init, PromisedVals

\* The invariant of the cache: TCache and TWndBlockCache always have the values of every block
\* somewhere, in blocks that are full up to the last.
THEOREM CacheIInv == ASSUME Careful PROVE Spec => []IInv
  <1>1. Init => IInv
    BY InitKeeps
  <1>2. IInv /\ [Next]_vars => IInv'
    BY NextKeeps
  <1> QED BY <1>1, <1>2, PTL DEF Spec

\* What is said of the blocks is what the properties of the module say.
LEMMA SoundBlocks ==
  ASSUME Careful, IInv
  PROVE  CleanOnDisk /\ BlocksFull
  <1>1. Blocks = BlocksOf(BlockCache) /\ \A b : ValuesOf(b) = Hold(BlockCache, b)
    BY DEF Blocks, BlocksOf, ValuesOf, Hold
  <1>2. CleanOnDisk
    BY <1>1 DEF CleanOnDisk, IInv, Good, Safe
  <1>3. Blocks = {} <=> Len(BlockCache.blobs) = 0
    <2>1. /\ Len(BlockCache.blobs) \in Nat /\ FirstBlockOffset \in Nat
          /\ LastBlock(BlockCache) = FirstBlockOffset + Len(BlockCache.blobs) - 1
      BY Places DEF IInv, Good
    <2>2. Len(BlockCache.blobs) # 0 => FirstBlockOffset \in Blocks
      BY <2>1 DEF Blocks
    <2>3. Len(BlockCache.blobs) = 0 => Blocks = {}
      BY <2>1 DEF Blocks
    <2> QED BY <2>2, <2>3
  <1>4. Vals + FirstValOffset = FirstValOffset + Vals
    BY Numbers DEF IInv
  <1> QED BY <1>1, <1>2, <1>3, <1>4 DEF BlocksFull, IInv, Good, Filled

\* Whatever Put purges, Flush writes and DelVals forgets (glib/base/cache.h), a block that is not
\* marked as changed in the cache is in its blob as it is.
THEOREM CacheCleanOnDisk == ASSUME Careful PROVE Spec => []CleanOnDisk
  <1>1. IInv => CleanOnDisk
    BY SoundBlocks
  <1> QED BY <1>1, CacheIInv, PTL

\* All blocks but the last are full, so the arithmetic that finds a value by its id finds it, and
\* TWndBlockCache::Len is how many there are.
THEOREM CacheBlocksFull == ASSUME Careful PROVE Spec => []BlocksFull
  <1>1. IInv => BlocksFull
    BY SoundBlocks
  <1> QED BY <1>1, CacheIInv, PTL

\* The storage on disk behaves as ValueStore: what AddVal and SetVal were given is what GetVal
\* returns under the same id, until DelVals deletes it, whatever was purged, flushed or reopened.
THEOREM CacheKeepsItsPromise == ASSUME Careful PROVE Spec => ImplementsValueStore
  <1>1. Init => Promise!Init
    BY InitKeeps
  <1>2. IInv /\ [Next]_vars => [Promise!Next]_(Promise!vars)
    BY NextKeeps
  <1> QED BY <1>1, <1>2, CacheIInv, PTL DEF Spec, ImplementsValueStore, Promise!Spec

(***************************************************************************)
(* The storage in memory: what is loaded, flushed and deleted.             *)
(***************************************************************************)
(***************************************************************************)
(* The inductive invariant.                                                *)
(***************************************************************************)
\* There is a blob pointer for each block.
Pages == \A b \in Nat : b < Len(memBlobs) <=> b * BlockSize < Len(memVals)
\* What is not new is in the blob of its block.
OnceStored == \A n \in InCore!Position : InCore!FlagOf(n) # "new"
  => InCore!Place(n) <= Len(memBlobs[InCore!BlockOf(n) + 1])
\* Nothing changes before everything is loaded.
LoadsAlone == /\ \A n \in InCore!Position : InCore!MustLoad(n) => Lazy
              /\ \A n, k \in InCore!Position : InCore!MustLoad(n) => ~InCore!NeedsSaving(k)

MemIInv == InCore!TypeOK /\ Pages /\ OnceStored /\ LoadsAlone /\ InCore!CleanOnDisk

\* Where a position is.
LEMMA Where ==
  ASSUME InCore!Careful, InCore!TypeOK, Pages, NEW n \in InCore!Position
  PROVE  /\ n \in Nat /\ n < Len(memVals) /\ n + 1 \in DOMAIN memVals /\ n + 1 \in DOMAIN memFlags
         /\ InCore!BlockOf(n) \in Nat /\ InCore!Place(n) \in 1..BlockSize
         /\ n + 1 = InCore!BlockOf(n) * BlockSize + InCore!Place(n)
         /\ InCore!BlockOf(n) < Len(memBlobs) /\ InCore!BlockOf(n) + 1 \in DOMAIN memBlobs
         /\ InCore!Filled(InCore!BlockOf(n)) \in 0..BlockSize
            /\ InCore!Place(n) <= InCore!Filled(InCore!BlockOf(n))
         /\ memBlobs[InCore!BlockOf(n) + 1] \in Seq(Value \cup {Blank})
         /\ InCore!FlagOf(n) \in InCore!Flag /\ memVals[n + 1] \in Value \cup {Blank}
  <1>1. BlockSize \in Nat \ {0} /\ Len(memVals) \in Nat /\ Len(memFlags) = Len(memVals)
          /\ Len(memBlobs) \in Nat
    BY DEF InCore!Careful, InCore!TypeOK
  <1>2. n \in Nat /\ n < Len(memVals) /\ n + 1 \in 1..Len(memVals)
    BY <1>1 DEF InCore!Position
  <1>3. InCore!BlockOf(n) \in Nat /\ InCore!Place(n) \in 1..BlockSize
          /\ n + 1 = InCore!BlockOf(n) * BlockSize + InCore!Place(n)
    <2>1. n \div BlockSize \in Nat /\ n % BlockSize \in 0..BlockSize - 1
      BY <1>1, <1>2, DivMod
    <2>2. n = (n \div BlockSize) * BlockSize + (n % BlockSize)
      BY <1>1, <1>2, DivMod
    <2> DEFINE q == n \div BlockSize
               r == n % BlockSize
    <2>3. q \in Nat /\ r \in 0..BlockSize - 1 /\ n = q * BlockSize + r
      BY <2>1, <2>2
    <2>4. InCore!BlockOf(n) = q /\ InCore!Place(n) = r + 1
      BY DEF InCore!BlockOf, InCore!Place
    <2> HIDE DEF q, r
    <2>5. q * BlockSize \in Nat
      BY <1>1, <2>3
    <2> QED BY <1>1, <1>2, <2>3, <2>4, <2>5
  <1>4. InCore!BlockOf(n) * BlockSize \in Nat /\ InCore!BlockOf(n) * BlockSize < Len(memVals)
    BY <1>1, <1>2, <1>3
  <1>5. InCore!BlockOf(n) < Len(memBlobs)
    BY <1>3, <1>4 DEF Pages
  <1>6. InCore!Filled(InCore!BlockOf(n)) \in 0..BlockSize
          /\ InCore!Place(n) <= InCore!Filled(InCore!BlockOf(n))
    BY <1>1, <1>2, <1>3, <1>4 DEF InCore!Filled, InCore!Lesser
  <1>7. InCore!BlockOf(n) + 1 \in DOMAIN memBlobs
    BY <1>1, <1>3, <1>5 DEF InCore!TypeOK
  <1> QED BY <1>1, <1>2, <1>3, <1>5, <1>6, <1>7 DEF InCore!TypeOK, InCore!FlagOf

(***************************************************************************)
(* Saving.                                                                 *)
(***************************************************************************)
LEMMA StoredIs ==
  ASSUME InCore!Careful, MemIInv, NEW bs, \A b \in bs : b \in Nat /\ b < Len(memBlobs)
  PROVE  InCore!Stored(bs) = [i \in 1..Len(memBlobs) |-> IF i - 1 \in bs THEN InCore!Contents(i - 1) ELSE memBlobs[i]]
  <1> DEFINE L == Len(memBlobs)
             reach == {0} \cup DOMAIN memBlobs \cup {b + 1 : b \in bs}
             top == CHOOSE r \in reach : \A q \in reach : q <= r
  <1>1. L \in Nat /\ DOMAIN memBlobs = 1..L
    BY DEF MemIInv, InCore!TypeOK
  <1>2. reach = 0..L
    BY <1>1
  <1>3. top = L
    <2>1. L \in reach /\ \A q \in reach : q <= L
      BY <1>1, <1>2
    <2>2. top \in reach /\ \A q \in reach : q <= top
      BY <2>1
    <2>3. top \in Int /\ L <= top /\ top <= L
      BY <1>1, <1>2, <2>1, <2>2
    <2> QED BY <1>1, <2>3
  <1>4. InCore!Stored(bs) = [i \in 1..top |-> IF i - 1 \in bs THEN InCore!Contents(i - 1) ELSE IF i \in DOMAIN memBlobs THEN memBlobs[i] ELSE <<>>]
    BY DEF InCore!Stored
  <1> HIDE DEF top, reach
  <1> QED BY <1>1, <1>3, <1>4

LEMMA ContentsAre ==
  ASSUME InCore!Careful, MemIInv, NEW b \in Nat, b < Len(memBlobs)
  PROVE  /\ InCore!Filled(b) \in 1..BlockSize
         /\ InCore!Contents(b) \in Seq(Value \cup {Blank}) /\ Len(InCore!Contents(b)) = InCore!Filled(b)
         /\ \A p \in 1..InCore!Filled(b) : InCore!Contents(b)[p] = memVals[b * BlockSize + p]
  <1>1. BlockSize \in Nat \ {0} /\ Len(memVals) \in Nat /\ memVals \in Seq(Value \cup {Blank})
    BY DEF InCore!Careful, MemIInv, InCore!TypeOK
  <1>2. b * BlockSize \in Nat /\ b * BlockSize < Len(memVals)
    BY <1>1 DEF MemIInv, Pages
  <1>3. InCore!Filled(b) \in 1..BlockSize /\ InCore!Filled(b) <= Len(memVals) - b * BlockSize
    <2> DEFINE x == b * BlockSize
    <2>1. x \in Nat /\ x < Len(memVals)
            /\ InCore!Filled(b) = IF BlockSize <= Len(memVals) - x THEN BlockSize ELSE Len(memVals) - x
      BY <1>2 DEF InCore!Filled, InCore!Lesser
    <2> HIDE DEF x
    <2>2. InCore!Filled(b) \in 1..BlockSize /\ InCore!Filled(b) <= Len(memVals) - x
      BY <1>1, <2>1
    <2> QED BY <2>2 DEF x
  <1>4. \A p \in 1..InCore!Filled(b) : memVals[b * BlockSize + p] \in Value \cup {Blank}
    BY <1>1, <1>2, <1>3
  <1> QED BY <1>3, <1>4 DEF InCore!Contents

\* What saving these blocks leaves on disk.
LEMMA SaveFacts ==
  ASSUME InCore!Careful, MemIInv, NEW bs, \A b \in bs : b \in Nat
           /\ b < Len(memBlobs), NEW S, S = InCore!Stored(bs)
  PROVE  /\ S \in Seq(Seq(Value \cup {Blank})) /\ Len(S) = Len(memBlobs)
         /\ \A b \in DOMAIN S : Len(S[b]) <= BlockSize
         /\ \A n \in InCore!Position :
              /\ InCore!BlockOf(n) \in bs => /\ InCore!Place(n) <= Len(S[InCore!BlockOf(n) + 1])
                                             /\ S[InCore!BlockOf(n) + 1][InCore!Place(n)] = memVals[n + 1]
              /\ InCore!BlockOf(n) \notin bs
                 => S[InCore!BlockOf(n) + 1] = memBlobs[InCore!BlockOf(n) + 1]
  <1>1. S = [i \in 1..Len(memBlobs) |-> IF i - 1 \in bs THEN InCore!Contents(i - 1) ELSE memBlobs[i]]
    BY StoredIs
  <1>2. BlockSize \in Nat /\ Len(memBlobs) \in Nat
          /\ \A i \in 1..Len(memBlobs) : memBlobs[i] \in Seq(Value \cup {Blank})
          /\ Len(memBlobs[i]) <= BlockSize
    BY DEF InCore!Careful, MemIInv, InCore!TypeOK
  <1>3. ASSUME NEW i \in 1..Len(memBlobs)
        PROVE S[i] \in Seq(Value \cup {Blank}) /\ Len(S[i]) <= BlockSize
    <2>1. CASE i - 1 \in bs
      <3>1. i - 1 \in Nat /\ i - 1 < Len(memBlobs) /\ S[i] = InCore!Contents(i - 1)
        BY <1>1, <1>2, <2>1
      <3> DEFINE j == i - 1
      <3>2. j \in Nat /\ j < Len(memBlobs) /\ S[i] = InCore!Contents(j)
        BY <3>1
      <3> HIDE DEF j
      <3> QED BY <1>2, <3>2, ContentsAre
    <2>2. CASE i - 1 \notin bs
      BY <1>1, <1>2, <2>2
    <2> QED BY <2>1, <2>2
  <1>4. S \in Seq(Seq(Value \cup {Blank})) /\ Len(S) = Len(memBlobs)
    BY <1>1, <1>2, <1>3
  <1>5. ASSUME NEW n \in InCore!Position
        PROVE  /\ InCore!BlockOf(n) \in bs => /\ InCore!Place(n) <= Len(S[InCore!BlockOf(n) + 1])
                                              /\ S[InCore!BlockOf(n) + 1][InCore!Place(n)] = memVals[n + 1]
               /\ InCore!BlockOf(n) \notin bs
                  => S[InCore!BlockOf(n) + 1] = memBlobs[InCore!BlockOf(n) + 1]
    <2> DEFINE b == InCore!BlockOf(n)
    <2>1. b \in Nat /\ b < Len(memBlobs) /\ n + 1 = b * BlockSize + InCore!Place(n)
            /\ InCore!Place(n) \in 1..InCore!Filled(b) /\ b + 1 - 1 = b
          /\ b + 1 \in 1..Len(memBlobs)
      BY Where DEF MemIInv
    <2> HIDE DEF b
    <2>2. S[b + 1] = IF b \in bs THEN InCore!Contents(b) ELSE memBlobs[b + 1]
      BY <1>1, <2>1
    <2>3. Len(InCore!Contents(b)) = InCore!Filled(b)
            /\ InCore!Contents(b)[InCore!Place(n)] = memVals[n + 1]
            /\ InCore!Place(n) <= InCore!Filled(b)
      BY <2>1, ContentsAre
    <2>4. /\ b \in bs => /\ InCore!Place(n) <= Len(S[b + 1])
                         /\ S[b + 1][InCore!Place(n)] = memVals[n + 1]
          /\ b \notin bs => S[b + 1] = memBlobs[b + 1]
      BY <2>2, <2>3
    <2> QED BY <2>4 DEF b
  <1> QED BY <1>3, <1>4, <1>5

LEMMA WrittenFacts ==
  ASSUME InCore!Careful, MemIInv, NEW ns \in SUBSET InCore!Position
  PROVE  /\ \A b \in InCore!Written(ns) : b \in Nat /\ b < Len(memBlobs)
         /\ \A n \in ns : InCore!NeedsSaving(n) => InCore!BlockOf(n) \in InCore!Written(ns)
         /\ InCore!Written(ns) # {} => \A n \in InCore!Position : ~InCore!MustLoad(n)
  <1>1. \A n \in ns : InCore!BlockOf(n) \in Nat /\ InCore!BlockOf(n) < Len(memBlobs)
    BY Where DEF MemIInv
  <1>2. InCore!Written(ns) # {} => \E k \in InCore!Position : InCore!NeedsSaving(k)
    BY DEF InCore!Written
  <1> QED BY <1>1, <1>2 DEF InCore!Written, MemIInv, LoadsAlone

(***************************************************************************)
(* The operations.                                                         *)
(***************************************************************************)
\* The values under the ids stay.
MemSameValues ==
  /\ Len(memVals)' = Len(memVals) /\ UNCHANGED <<memOffset, memFirst>>
  /\ \A n \in InCore!Live : InCore!Kept(n)' = InCore!Kept(n)

LEMMA MemFlushStep ==
  ASSUME InCore!Careful, MemIInv, InCore!PartialFlush
  PROVE  MemIInv' /\ MemSameValues
  <1>1. PICK n \in 1..Len(memVals) :
          /\ InCore!Written(0..n - 1) # {} /\ memBlobs' = InCore!Stored(InCore!Written(0..n - 1))
             /\ memFlags' = InCore!Cleaned(InCore!Written(0..n - 1))
          /\ UNCHANGED <<memVals, memOffset, memFirst>>
    BY DEF InCore!PartialFlush
  <1>2. Len(memVals) \in Nat /\ 0..n - 1 \in SUBSET InCore!Position
    BY DEF MemIInv, InCore!TypeOK, InCore!Position
  <1> DEFINE bs == InCore!Written(0..n - 1)
  <1>3. (\A b \in bs : b \in Nat /\ b < Len(memBlobs)) /\ \A k \in InCore!Position : ~InCore!MustLoad(k)
    BY <1>1, <1>2, WrittenFacts
  <1> HIDE DEF bs
  <1>4. memBlobs' = InCore!Stored(bs) /\ memFlags' = InCore!Cleaned(bs)
    BY <1>1 DEF bs
  <1>5. /\ memBlobs' \in Seq(Seq(Value \cup {Blank})) /\ Len(memBlobs') = Len(memBlobs)
        /\ \A b \in DOMAIN memBlobs' : Len(memBlobs'[b]) <= BlockSize
        /\ \A k \in InCore!Position :
              /\ InCore!BlockOf(k) \in bs => /\ InCore!Place(k) <= Len(memBlobs'[InCore!BlockOf(k) + 1])
                                             /\ memBlobs'[InCore!BlockOf(k) + 1][InCore!Place(k)] = memVals[k + 1]
              /\ InCore!BlockOf(k) \notin bs
                 => memBlobs'[InCore!BlockOf(k) + 1] = memBlobs[InCore!BlockOf(k) + 1]
    BY <1>3, <1>4, SaveFacts
  <1>6. /\ memFlags \in Seq(InCore!Flag) /\ Len(memFlags) = Len(memVals)
        /\ memFlags' \in Seq(InCore!Flag) /\ Len(memFlags') = Len(memVals)
    <2>1. memFlags \in Seq(InCore!Flag) /\ Len(memFlags) = Len(memVals)
      BY DEF MemIInv, InCore!TypeOK
    <2>2. memFlags' = [i \in 1..Len(memVals) |-> IF InCore!BlockOf(i - 1) \in bs THEN "clean" ELSE memFlags[i]]
      BY <1>4, <2>1 DEF InCore!Cleaned
    <2> QED BY <1>2, <2>1, <2>2 DEF InCore!Flag
  <1>7. \A k \in InCore!Position : memFlags'[k + 1] = IF InCore!BlockOf(k) \in bs THEN "clean" ELSE memFlags[k + 1]
    <2>1. \A i \in DOMAIN memFlags : memFlags'[i] = IF InCore!BlockOf(i - 1) \in bs THEN "clean" ELSE memFlags[i]
      BY <1>4 DEF InCore!Cleaned
    <2>2. ASSUME NEW k \in InCore!Position
          PROVE memFlags'[k + 1] = IF InCore!BlockOf(k) \in bs THEN "clean" ELSE memFlags[k + 1]
      <3> DEFINE i == k + 1
      <3>1. i \in DOMAIN memFlags /\ i - 1 = k
        BY <1>2, <1>6 DEF InCore!Position
      <3> HIDE DEF i
      <3>2. memFlags'[i] = IF InCore!BlockOf(k) \in bs THEN "clean" ELSE memFlags[i]
        BY <2>1, <3>1
      <3> QED BY <3>2 DEF i
    <2> QED BY <2>2
  <1>8. InCore!Position' = InCore!Position /\ InCore!Live' = InCore!Live
    BY <1>1 DEF InCore!Position, InCore!Live
  <1>9. \A k \in InCore!Position : memFlags'[k + 1] # "notLoaded"
    BY <1>3, <1>7 DEF InCore!MustLoad, InCore!FlagOf
  <1>10. InCore!TypeOK'
    BY <1>1, <1>5, <1>6 DEF MemIInv, InCore!TypeOK
  <1>11. Pages'
    BY <1>1, <1>5 DEF MemIInv, Pages
  <1>12. OnceStored'
    BY <1>5, <1>7, <1>8 DEF MemIInv, OnceStored, InCore!FlagOf
  <1>13. LoadsAlone'
    BY <1>8, <1>9 DEF LoadsAlone, InCore!MustLoad, InCore!FlagOf
  <1>14. InCore!CleanOnDisk'
    <2> SUFFICES ASSUME NEW k \in InCore!Live, memFlags'[k + 1] = "clean"
                 PROVE  /\ InCore!Place(k) <= Len(memBlobs'[InCore!BlockOf(k) + 1])
                        /\ memBlobs'[InCore!BlockOf(k) + 1][InCore!Place(k)] = memVals[k + 1]
      BY <1>1, <1>8 DEF InCore!CleanOnDisk, InCore!FlagOf
    <2>1. k \in InCore!Position
      BY DEF InCore!Live
    <2> QED BY <1>5, <1>7, <2>1 DEF MemIInv, InCore!CleanOnDisk, InCore!FlagOf
  <1>15. MemSameValues
    <2>1. \A k \in InCore!Live : k \in InCore!Position
      BY DEF InCore!Live
    <2> QED BY <1>1, <1>3, <1>9, <2>1 DEF MemSameValues, InCore!Kept, InCore!MustLoad, InCore!FlagOf
  <1> QED BY <1>10, <1>11, <1>12, <1>13, <1>14, <1>15 DEF MemIInv

LEMMA MemCloseStep ==
  ASSUME InCore!Careful, MemIInv, InCore!CloseAndOpen
  PROVE  MemIInv' /\ MemSameValues
  <1> DEFINE bs == InCore!Written(InCore!Position)
             S == InCore!Stored(bs)
  <1>1. /\ memBlobs' = S
        /\ memVals' = [i \in DOMAIN memVals |-> IF Lazy THEN Blank ELSE S[InCore!BlockOf(i - 1) + 1][InCore!Place(i - 1)]]
        /\ memFlags' = [i \in DOMAIN memFlags |-> IF Lazy THEN "notLoaded" ELSE "clean"]
        /\ UNCHANGED <<memOffset, memFirst>>
    BY DEF InCore!CloseAndOpen
  <1>2. /\ \A b \in bs : b \in Nat /\ b < Len(memBlobs)
        /\ \A n \in InCore!Position : InCore!NeedsSaving(n) => InCore!BlockOf(n) \in bs
        /\ bs # {} => \A n \in InCore!Position : ~InCore!MustLoad(n)
    BY WrittenFacts
  <1> HIDE DEF bs
  <1>3. /\ S \in Seq(Seq(Value \cup {Blank})) /\ Len(S) = Len(memBlobs)
        /\ \A b \in DOMAIN S : Len(S[b]) <= BlockSize
        /\ \A k \in InCore!Position :
              /\ InCore!BlockOf(k) \in bs => /\ InCore!Place(k) <= Len(S[InCore!BlockOf(k) + 1])
                                             /\ S[InCore!BlockOf(k) + 1][InCore!Place(k)] = memVals[k + 1]
              /\ InCore!BlockOf(k) \notin bs
                 => S[InCore!BlockOf(k) + 1] = memBlobs[InCore!BlockOf(k) + 1]
    BY <1>2, SaveFacts
  <1> HIDE DEF S
  <1>4. /\ Len(memVals) \in Nat /\ DOMAIN memVals = 1..Len(memVals) /\ DOMAIN memFlags = 1..Len(memVals)
        /\ \A k \in InCore!Position : k \in Nat /\ k + 1 \in 1..Len(memVals)
    BY DEF MemIInv, InCore!TypeOK, InCore!Position
  <1>5. ASSUME NEW n \in InCore!Position
        PROVE  /\ InCore!Place(n) \in 1..Len(S[InCore!BlockOf(n) + 1])
                  /\ S[InCore!BlockOf(n) + 1][InCore!Place(n)] \in Value \cup {Blank}
               /\ InCore!BlockOf(n) \in bs => S[InCore!BlockOf(n) + 1][InCore!Place(n)] = memVals[n + 1]
               /\ InCore!BlockOf(n) \notin bs => /\ ~InCore!NeedsSaving(n)
                                                 /\ S[InCore!BlockOf(n) + 1] = memBlobs[InCore!BlockOf(n) + 1]
    <2>1. /\ InCore!Place(n) \in Nat \ {0} /\ InCore!BlockOf(n) + 1 \in DOMAIN memBlobs
             /\ InCore!FlagOf(n) \in InCore!Flag
          /\ Len(memBlobs) \in Nat
      BY Where DEF MemIInv, InCore!TypeOK, InCore!Careful
    <2>2. InCore!Place(n) <= Len(S[InCore!BlockOf(n) + 1])
      BY <1>2, <1>3, <2>1 DEF MemIInv, OnceStored, InCore!NeedsSaving
    <2>3. InCore!BlockOf(n) + 1 \in DOMAIN S
      BY <1>3, <2>1 DEF MemIInv, InCore!TypeOK
    <2>4. S[InCore!BlockOf(n) + 1] \in Seq(Value \cup {Blank})
      BY <1>3, <2>3
    <2>5. InCore!Place(n) \in 1..Len(S[InCore!BlockOf(n) + 1])
      BY <2>1, <2>2, <2>4
    <2> QED BY <1>2, <1>3, <2>4, <2>5
  <1>6. /\ Len(memVals') = Len(memVals) /\ Len(memFlags') = Len(memVals)
           /\ memFlags' \in Seq(InCore!Flag)
        /\ \A n \in InCore!Position : /\ memFlags'[n + 1] = IF Lazy THEN "notLoaded" ELSE "clean"
                                      /\ memVals'[n + 1] = IF Lazy THEN Blank ELSE S[InCore!BlockOf(n) + 1][InCore!Place(n)]
    <2>1. ASSUME NEW n \in InCore!Position
          PROVE memVals'[n + 1] = IF Lazy THEN Blank ELSE S[InCore!BlockOf(n) + 1][InCore!Place(n)]
      <3> DEFINE i == n + 1
      <3>1. i \in DOMAIN memVals /\ i - 1 = n
        BY <1>4
      <3> HIDE DEF i
      <3>2. memVals'[i] = IF Lazy THEN Blank ELSE S[InCore!BlockOf(i - 1) + 1][InCore!Place(i - 1)]
        BY <1>1, <3>1
      <3>3. memVals'[i] = IF Lazy THEN Blank ELSE S[InCore!BlockOf(n) + 1][InCore!Place(n)]
        BY <3>1, <3>2
      <3> QED BY <3>3 DEF i
    <2>2. \A n \in InCore!Position : memFlags'[n + 1] = IF Lazy THEN "notLoaded" ELSE "clean"
      BY <1>1, <1>4
    <2>3. memFlags' = [i \in 1..Len(memVals) |-> IF Lazy THEN "notLoaded" ELSE "clean"]
      BY <1>1, <1>4
    <2>4. Len(memFlags') = Len(memVals) /\ memFlags' \in Seq(InCore!Flag)
      BY <1>4, <2>3 DEF InCore!Flag
    <2>5. Len(memVals') = Len(memVals)
      BY <1>1, <1>4
    <2> QED BY <2>1, <2>2, <2>4, <2>5
  <1>7. memVals' \in Seq(Value \cup {Blank})
    <2>1. ASSUME NEW i \in 1..Len(memVals) PROVE memVals'[i] \in Value \cup {Blank}
      <3> DEFINE n == i - 1
      <3>1. n \in InCore!Position /\ n + 1 = i
        BY <1>4 DEF InCore!Position
      <3> HIDE DEF n
      <3> QED BY <1>5, <1>6, <3>1
    <2>2. memVals' = [i \in 1..Len(memVals) |-> memVals'[i]]
      BY <1>1, <1>4
    <2> QED BY <1>4, <2>1, <2>2
  <1>8. InCore!Position' = InCore!Position /\ InCore!Live' = InCore!Live
    BY <1>1, <1>6 DEF InCore!Position, InCore!Live
  <1>9. InCore!TypeOK'
    BY <1>1, <1>3, <1>6, <1>7 DEF MemIInv, InCore!TypeOK
  <1>10. Pages'
    BY <1>1, <1>3, <1>6 DEF MemIInv, Pages
  <1>11. OnceStored'
    <2>1. \A n \in InCore!Position : InCore!Place(n) <= Len(S[InCore!BlockOf(n) + 1])
      BY <1>3, <1>5
    <2> QED BY <1>1, <1>8, <2>1 DEF OnceStored
  <1>12. LoadsAlone'
    BY <1>6, <1>8 DEF LoadsAlone, InCore!MustLoad, InCore!NeedsSaving, InCore!FlagOf
  <1>13. InCore!CleanOnDisk'
    <2> SUFFICES ASSUME NEW k \in InCore!Live, memFlags'[k + 1] = "clean"
                 PROVE  /\ InCore!Place(k) <= Len(S[InCore!BlockOf(k) + 1])
                        /\ S[InCore!BlockOf(k) + 1][InCore!Place(k)] = memVals'[k + 1]
      BY <1>1, <1>8 DEF InCore!CleanOnDisk, InCore!FlagOf
    <2>1. k \in InCore!Position
      BY DEF InCore!Live
    <2> QED BY <1>3, <1>5, <1>6, <2>1
  <1>14. MemSameValues
    <2> SUFFICES ASSUME NEW k \in InCore!Live PROVE InCore!Kept(k)' = InCore!Kept(k)
      BY <1>1, <1>6 DEF MemSameValues
    <2>1. k \in InCore!Position /\ InCore!FlagOf(k) \in InCore!Flag
      BY Where DEF InCore!Live, MemIInv
    <2>2. InCore!Kept(k)' = S[InCore!BlockOf(k) + 1][InCore!Place(k)]
      BY <1>1, <1>6, <2>1 DEF InCore!Kept, InCore!MustLoad, InCore!FlagOf
    <2>3. CASE InCore!BlockOf(k) \in bs
      BY <1>2, <1>5, <2>1, <2>2, <2>3 DEF InCore!Kept
    <2>4. CASE InCore!BlockOf(k) \notin bs
      <3>1. InCore!FlagOf(k) = "clean" \/ InCore!FlagOf(k) = "notLoaded"
        BY <1>5, <2>1, <2>4 DEF InCore!NeedsSaving, InCore!Flag
      <3> QED BY <1>5, <2>1, <2>2, <2>4, <3>1 DEF InCore!Kept, InCore!MustLoad, MemIInv,
                InCore!CleanOnDisk
    <2> QED BY <2>3, <2>4
  <1> QED BY <1>9, <1>10, <1>11, <1>12, <1>13, <1>14 DEF MemIInv

LEMMA LoadStep ==
  ASSUME InCore!Careful, MemIInv,
           NEW blocks, InCore!LoadBlocks(blocks), UNCHANGED <<memBlobs, memOffset, memFirst>>
  PROVE  MemIInv' /\ MemSameValues
  <1> DEFINE now(n) == InCore!BlockOf(n) \in blocks /\ InCore!Loadable(n)
  <1>1. /\ Len(memVals) \in Nat /\ DOMAIN memVals = 1..Len(memVals) /\ DOMAIN memFlags = 1..Len(memVals)
        /\ \A k \in InCore!Position : k \in Nat /\ k + 1 \in 1..Len(memVals) /\ k + 1 - 1 = k
        /\ \A i \in 1..Len(memVals) : i - 1 \in InCore!Position /\ i - 1 + 1 = i
    BY DEF MemIInv, InCore!TypeOK, InCore!Position
  <1>2. /\ memVals' = [i \in 1..Len(memVals) |-> IF now(i - 1) THEN memBlobs[InCore!BlockOf(i - 1) + 1][InCore!Place(i - 1)] ELSE memVals[i]]
        /\ memFlags' = [i \in 1..Len(memVals) |-> IF now(i - 1) THEN "clean" ELSE memFlags[i]]
    BY <1>1 DEF InCore!LoadBlocks
  <1>3. \A n \in InCore!Position : now(n) => InCore!FlagOf(n) = "notLoaded"
          /\ InCore!Place(n) <= Len(memBlobs[InCore!BlockOf(n) + 1])
    BY DEF InCore!Loadable, InCore!MustLoad
  <1> HIDE DEF now
  <1>4. ASSUME NEW n \in InCore!Position
        PROVE  /\ memVals'[n + 1] = IF now(n) THEN memBlobs[InCore!BlockOf(n) + 1][InCore!Place(n)] ELSE memVals[n + 1]
               /\ memFlags'[n + 1] = IF now(n) THEN "clean" ELSE memFlags[n + 1]
    <2> DEFINE i == n + 1
    <2>1. i \in 1..Len(memVals) /\ i - 1 = n
      BY <1>1
    <2> HIDE DEF i
    <2>2. /\ memVals'[i] = IF now(i - 1) THEN memBlobs[InCore!BlockOf(i - 1) + 1][InCore!Place(i - 1)] ELSE memVals[i]
          /\ memFlags'[i] = IF now(i - 1) THEN "clean" ELSE memFlags[i]
      BY <1>2, <2>1
    <2>3. /\ memVals'[i] = IF now(n) THEN memBlobs[InCore!BlockOf(n) + 1][InCore!Place(n)] ELSE memVals[i]
          /\ memFlags'[i] = IF now(n) THEN "clean" ELSE memFlags[i]
      BY <2>1, <2>2
    <2> QED BY <2>3 DEF i
  <1>5. ASSUME NEW i \in 1..Len(memVals)
        PROVE memVals'[i] \in Value \cup {Blank} /\ memFlags'[i] \in InCore!Flag
    <2> DEFINE n == i - 1
    <2>1. n \in InCore!Position /\ n + 1 = i
      BY <1>1
    <2> HIDE DEF n
    <2>2. /\ InCore!Place(n) \in Nat \ {0}
             /\ memBlobs[InCore!BlockOf(n) + 1] \in Seq(Value \cup {Blank})
          /\ memVals[n + 1] \in Value \cup {Blank} /\ InCore!FlagOf(n) \in InCore!Flag
      BY <2>1, Where DEF MemIInv, InCore!Careful
    <2>3. now(n) => InCore!Place(n) \in 1..Len(memBlobs[InCore!BlockOf(n) + 1])
      BY <1>3, <2>1, <2>2
    <2> QED BY <1>4, <2>1, <2>2, <2>3 DEF InCore!FlagOf, InCore!Flag
  <1>6. /\ memVals' \in Seq(Value \cup {Blank}) /\ Len(memVals') = Len(memVals)
        /\ memFlags' \in Seq(InCore!Flag) /\ Len(memFlags') = Len(memVals)
    <2>1. memVals' = [i \in 1..Len(memVals) |-> memVals'[i]]
            /\ memFlags' = [i \in 1..Len(memVals) |-> memFlags'[i]]
      BY <1>2
    <2> QED BY <1>1, <1>5, <2>1
  <1>7. InCore!Position' = InCore!Position /\ InCore!Live' = InCore!Live
    BY <1>6 DEF InCore!Position, InCore!Live
  <1>8. InCore!TypeOK'
    BY <1>6 DEF MemIInv, InCore!TypeOK
  <1>9. Pages'
    BY <1>6 DEF MemIInv, Pages
  <1>10. OnceStored'
    BY <1>3, <1>4, <1>7 DEF MemIInv, OnceStored, InCore!FlagOf
  <1>11. LoadsAlone'
    BY <1>4, <1>7 DEF MemIInv, LoadsAlone, InCore!FlagOf, InCore!MustLoad, InCore!NeedsSaving
  <1>12. InCore!CleanOnDisk'
    <2> SUFFICES ASSUME NEW k \in InCore!Live, memFlags'[k + 1] = "clean"
                 PROVE  /\ InCore!Place(k) <= Len(memBlobs[InCore!BlockOf(k) + 1])
                        /\ memBlobs[InCore!BlockOf(k) + 1][InCore!Place(k)] = memVals'[k + 1]
      BY <1>7 DEF InCore!CleanOnDisk, InCore!FlagOf
    <2>1. k \in InCore!Position
      BY DEF InCore!Live
    <2> QED BY <1>3, <1>4, <2>1 DEF MemIInv, InCore!CleanOnDisk, InCore!FlagOf
  <1>13. MemSameValues
    <2> SUFFICES ASSUME NEW k \in InCore!Live PROVE InCore!Kept(k)' = InCore!Kept(k)
      BY <1>6 DEF MemSameValues
    <2>1. k \in InCore!Position
      BY DEF InCore!Live
    <2> QED BY <1>3, <1>4, <2>1 DEF InCore!Kept, InCore!MustLoad, InCore!FlagOf
  <1> QED BY <1>8, <1>9, <1>10, <1>11, <1>12, <1>13 DEF MemIInv

LEMMA MemSetStep ==
  ASSUME InCore!Careful, MemIInv, NEW n \in InCore!Live,
           NEW v \in Value, InCore!SetVal(n, v), \A k \in InCore!Position : ~InCore!MustLoad(k)
  PROVE  /\ MemIInv' /\ Len(memVals)' = Len(memVals) /\ UNCHANGED <<memOffset, memFirst>>
         /\ \A k \in InCore!Live : InCore!Kept(k)' = IF k = n THEN v ELSE InCore!Kept(k)
  <1>1. /\ n \in InCore!Position /\ n \in Nat
        /\ Len(memVals) \in Nat /\ DOMAIN memVals = 1..Len(memVals) /\ DOMAIN memFlags = 1..Len(memVals)
        /\ \A k \in InCore!Position : k \in Nat /\ k + 1 \in 1..Len(memVals)
    BY DEF MemIInv, InCore!TypeOK, InCore!Position, InCore!Live
  <1>2. /\ memVals' = [memVals EXCEPT ![n + 1] = v]
        /\ memFlags' = [memFlags EXCEPT ![n + 1] = IF @ = "new" THEN "new" ELSE "dirty"]
        /\ UNCHANGED <<memBlobs, memOffset, memFirst>>
    BY DEF InCore!SetVal
  <1>3. \A k \in InCore!Position :
          /\ memVals'[k + 1] = IF k = n THEN v ELSE memVals[k + 1]
          /\ k # n => memFlags'[k + 1] = memFlags[k + 1]
          /\ k = n => memFlags'[k + 1] = IF memFlags[n + 1] = "new" THEN "new" ELSE "dirty"
    BY <1>1, <1>2
  <1>4. /\ memVals' \in Seq(Value \cup {Blank}) /\ Len(memVals') = Len(memVals)
        /\ memFlags' \in Seq(InCore!Flag) /\ Len(memFlags') = Len(memVals)
    BY <1>1, <1>2 DEF MemIInv, InCore!TypeOK, InCore!Flag
  <1>5. InCore!Position' = InCore!Position /\ InCore!Live' = InCore!Live
    BY <1>2, <1>4 DEF InCore!Position, InCore!Live
  <1>6. InCore!TypeOK'
    BY <1>2, <1>4 DEF MemIInv, InCore!TypeOK
  <1>7. Pages'
    BY <1>2, <1>4 DEF MemIInv, Pages
  <1>8. OnceStored'
    BY <1>1, <1>2, <1>3, <1>5 DEF MemIInv, OnceStored, InCore!FlagOf
  <1>9. \A k \in InCore!Position : memFlags'[k + 1] # "notLoaded"
    BY <1>3 DEF InCore!MustLoad, InCore!FlagOf
  <1>10. LoadsAlone'
    BY <1>5, <1>9 DEF LoadsAlone, InCore!MustLoad, InCore!FlagOf
  <1>11. InCore!CleanOnDisk'
    <2> SUFFICES ASSUME NEW k \in InCore!Live, memFlags'[k + 1] = "clean"
                 PROVE  /\ InCore!Place(k) <= Len(memBlobs[InCore!BlockOf(k) + 1])
                        /\ memBlobs[InCore!BlockOf(k) + 1][InCore!Place(k)] = memVals'[k + 1]
      BY <1>2, <1>5 DEF InCore!CleanOnDisk, InCore!FlagOf
    <2>1. k \in InCore!Position
      BY DEF InCore!Live
    <2>2. k # n
      BY <1>3, <2>1
    <2> QED BY <1>3, <2>1, <2>2 DEF MemIInv, InCore!CleanOnDisk, InCore!FlagOf
  <1>12. \A k \in InCore!Live : InCore!Kept(k)' = IF k = n THEN v ELSE InCore!Kept(k)
    <2>1. \A k \in InCore!Live : k \in InCore!Position
      BY DEF InCore!Live
    <2> QED BY <1>3, <1>9, <2>1 DEF InCore!Kept, InCore!MustLoad, InCore!FlagOf
  <1> QED BY <1>2, <1>4, <1>6, <1>7, <1>8, <1>10, <1>11, <1>12 DEF MemIInv

\* A new position starts a block exactly if the blocks there are are full.
LEMMA BlocksGrow ==
  ASSUME InCore!Careful, NEW L \in Nat, NEW N \in Nat, \A b \in Nat : b < L <=> b * BlockSize < N
  PROVE  \A b \in Nat : b < (IF InCore!StartsBlock(N + 1) THEN L + 1 ELSE L) <=> b * BlockSize < N + 1
  <1>1. BlockSize \in Nat \ {0, 1} /\ BlockSize \in Nat \ {0}
    BY DEF InCore!Careful
  <1> DEFINE q == N \div BlockSize
             r == N % BlockSize
  <1>2. q \in Nat /\ r \in 0..BlockSize - 1 /\ N = q * BlockSize + r
    BY <1>1, DivMod
  <1> HIDE DEF q, r
  <1>3. q * BlockSize \in Nat
    BY <1>1, <1>2
  <1>4. InCore!StartsBlock(N + 1) <=> r = 0
    <2>1. CASE r + 1 <= BlockSize - 1
      <3>1. N + 1 = q * BlockSize + (r + 1) /\ r + 1 \in 0..BlockSize - 1 /\ q \in Int /\ N + 1 \in Nat
        BY <1>2, <1>3, <2>1
      <3>2. (N + 1) % BlockSize = r + 1
        BY <1>1, <3>1, DivModUnique
      <3> QED BY <1>2, <3>2 DEF InCore!StartsBlock
    <2>2. CASE ~(r + 1 <= BlockSize - 1)
      <3>1. r = BlockSize - 1
        BY <1>1, <1>2, <2>2
      <3>2. N + 1 = (q + 1) * BlockSize + 0 /\ 0 \in 0..BlockSize - 1 /\ q + 1 \in Int /\ N + 1 \in Nat
        BY <1>1, <1>2, <1>3, <3>1
      <3>3. (N + 1) % BlockSize = 0
        BY <1>1, <3>2, DivModUnique
      <3> QED BY <1>1, <3>1, <3>3 DEF InCore!StartsBlock
    <2> QED BY <2>1, <2>2
  <1>5. ASSUME NEW b \in Nat
        PROVE  b < (IF InCore!StartsBlock(N + 1) THEN L + 1 ELSE L) <=> b * BlockSize < N + 1
    <2> DEFINE x == b * BlockSize
               y == q * BlockSize
    <2>1. x \in Nat /\ y \in Nat /\ (b < q <=> x + BlockSize <= y) /\ (q < b <=> y + BlockSize <= x)
            /\ (b = q => x = y)
      BY <1>1, <1>2, <1>3, Multiples
    <2>2. (b < L <=> x < N) /\ (q < L <=> y < N) /\ N = y + r
      BY <1>2
    <2> HIDE DEF x, y
    <2>3. CASE r = 0
      <3>1. ~(q < L) /\ b < L + 1 => b <= q
        <4>1. ~(q < L)
          BY <2>1, <2>2, <2>3
        <4> QED BY <1>2, <4>1
      <3>2. b < q => b < L
        BY <1>1, <2>1, <2>2, <2>3
      <3>3. q = L
        <4>1. ~(q < L)
          BY <2>1, <2>2, <2>3
        <4>2. CASE q = 0
          BY <4>1, <4>2
        <4>3. CASE q > 0
          <5> DEFINE p == q - 1
          <5>1. p \in Nat /\ p < q /\ p + 1 = q
            BY <1>2, <4>3
          <5>2. p * BlockSize + BlockSize <= y /\ p * BlockSize \in Int
            <6> HIDE DEF p
            <6> QED BY <1>1, <1>2, <5>1, Multiples DEF y
          <5>3. p * BlockSize < N
            BY <1>1, <2>1, <2>2, <2>3, <5>2
          <5>4. p < L
            <6> HIDE DEF p
            <6> QED BY <5>1, <5>3
          <5> QED BY <1>2, <4>1, <5>1, <5>4
        <4> QED BY <1>2, <4>2, <4>3
      <3>4. x < N + 1 <=> b <= q
        BY <1>1, <1>2, <2>1, <2>2, <2>3
      <3> QED BY <1>2, <1>4, <2>3, <3>3, <3>4 DEF x
    <2>4. CASE r # 0
      <3>1. x < N + 1 <=> x < N
        BY <1>1, <1>2, <2>1, <2>2, <2>4
      <3> QED BY <1>4, <2>2, <2>4, <3>1 DEF x
    <2> QED BY <2>3, <2>4 DEF x
  <1> QED BY <1>5

LEMMA MemAddStep ==
  ASSUME InCore!Careful, MemIInv,
           NEW v \in Value, InCore!AddVal(v), \A k \in InCore!Position : ~InCore!MustLoad(k)
  PROVE  /\ MemIInv' /\ Len(memVals)' = Len(memVals) + 1 /\ UNCHANGED <<memOffset, memFirst>>
         /\ \A k \in InCore!Position : InCore!Kept(k)' = InCore!Kept(k)
         /\ \A k : k = Len(memVals) => InCore!Kept(k)' = v
  <1> DEFINE N == Len(memVals)
             L == Len(memBlobs)
  <1>1. /\ N \in Nat /\ DOMAIN memVals = 1..N /\ DOMAIN memFlags = 1..N /\ L \in Nat
           /\ DOMAIN memBlobs = 1..L
        /\ memVals \in Seq(Value \cup {Blank}) /\ memFlags \in Seq(InCore!Flag)
           /\ memBlobs \in Seq(Seq(Value \cup {Blank}))
        /\ \A k \in InCore!Position : k \in Nat /\ k < N /\ k + 1 \in 1..N
    BY DEF MemIInv, InCore!TypeOK, InCore!Position
  <1>2. /\ memVals' = Append(memVals, v) /\ memFlags' = Append(memFlags, "new")
        /\ memBlobs' = IF InCore!StartsBlock(N + 1) THEN Append(memBlobs, <<>>) ELSE memBlobs
        /\ UNCHANGED <<memOffset, memFirst>>
    BY DEF InCore!AddVal
  <1>3. /\ memVals' \in Seq(Value \cup {Blank}) /\ Len(memVals') = N + 1 /\ memVals'[N + 1] = v
        /\ \A i \in 1..N : memVals'[i] = memVals[i]
    BY <1>1, <1>2
  <1>4. /\ memFlags' \in Seq(InCore!Flag) /\ Len(memFlags') = N + 1 /\ memFlags'[N + 1] = "new"
        /\ \A i \in 1..N : memFlags'[i] = memFlags[i]
    BY <1>1, <1>2 DEF MemIInv, InCore!TypeOK, InCore!Flag
  <1>5. /\ memBlobs' \in Seq(Seq(Value \cup {Blank}))
           /\ Len(memBlobs') = IF InCore!StartsBlock(N + 1) THEN L + 1 ELSE L
        /\ \A i \in 1..L : memBlobs'[i] = memBlobs[i]
        /\ \A i \in DOMAIN memBlobs' : Len(memBlobs'[i]) <= BlockSize
    <2>1. CASE InCore!StartsBlock(N + 1)
      <3>1. memBlobs' = Append(memBlobs, <<>>) /\ <<>> \in Seq(Value \cup {Blank}) /\ Len(<<>>) = 0
        BY <1>2, <2>1
      <3>2. /\ memBlobs' \in Seq(Seq(Value \cup {Blank})) /\ Len(memBlobs') = L + 1
            /\ \A i \in 1..L : memBlobs'[i] = memBlobs[i]
            /\ memBlobs'[L + 1] = <<>>
        BY <1>1, <3>1
      <3>3. DOMAIN memBlobs' = 1..L + 1
        BY <1>1, <3>2
      <3>4. ASSUME NEW i \in 1..L + 1 PROVE Len(memBlobs'[i]) <= BlockSize
        <4>1. CASE i = L + 1
          BY <3>1, <3>2, <4>1 DEF InCore!Careful
        <4>2. CASE i \in 1..L
          BY <1>1, <3>2, <4>2 DEF MemIInv, InCore!TypeOK
        <4> QED BY <1>1, <4>1, <4>2
      <3> QED BY <2>1, <3>2, <3>3, <3>4
    <2>2. CASE ~InCore!StartsBlock(N + 1)
      BY <1>1, <1>2, <2>2 DEF MemIInv, InCore!TypeOK
    <2> QED BY <2>1, <2>2
  <1>6. InCore!Position' = InCore!Position \cup {N} /\ N \notin InCore!Position
    BY <1>1, <1>3 DEF InCore!Position
  <1>7. \A k \in InCore!Position : InCore!BlockOf(k) + 1 \in 1..L
    BY <1>1, Where DEF MemIInv
  <1>8. \A k \in InCore!Position : /\ memVals'[k + 1] = memVals[k + 1]
          /\ memFlags'[k + 1] = memFlags[k + 1]
                                   /\ memBlobs'[InCore!BlockOf(k) + 1] = memBlobs[InCore!BlockOf(k) + 1]
    BY <1>1, <1>3, <1>4, <1>5, <1>7
  <1>9. InCore!TypeOK'
    BY <1>1, <1>2, <1>3, <1>4, <1>5 DEF MemIInv, InCore!TypeOK
  <1>10. Pages'
    <2>1. \A b \in Nat : b < L <=> b * BlockSize < N
      BY DEF MemIInv, Pages
    <2> HIDE DEF N, L
    <2>2. \A b \in Nat : b < (IF InCore!StartsBlock(N + 1) THEN L + 1 ELSE L) <=> b * BlockSize < N + 1
      BY <1>1, <2>1, BlocksGrow
    <2> QED BY <1>3, <1>5, <2>2 DEF Pages
  <1>11. OnceStored'
    BY <1>4, <1>6, <1>8 DEF MemIInv, OnceStored, InCore!FlagOf
  <1>12. \A k \in InCore!Position : memFlags'[k + 1] # "notLoaded"
    BY <1>8 DEF InCore!MustLoad, InCore!FlagOf
  <1>13. LoadsAlone'
    BY <1>4, <1>6, <1>12 DEF LoadsAlone, InCore!MustLoad, InCore!FlagOf
  <1>14. InCore!CleanOnDisk'
    <2> SUFFICES ASSUME NEW k \in InCore!Live', memFlags'[k + 1] = "clean"
                 PROVE  /\ InCore!Place(k) <= Len(memBlobs'[InCore!BlockOf(k) + 1])
                        /\ memBlobs'[InCore!BlockOf(k) + 1][InCore!Place(k)] = memVals'[k + 1]
      BY DEF InCore!CleanOnDisk, InCore!FlagOf
    <2>1. k \in InCore!Position /\ k \in InCore!Live
      BY <1>2, <1>4, <1>6 DEF InCore!Live
    <2> QED BY <1>8, <2>1 DEF MemIInv, InCore!CleanOnDisk, InCore!FlagOf
  <1>15. \A k \in InCore!Position : InCore!Kept(k)' = InCore!Kept(k)
    BY <1>8, <1>12 DEF InCore!Kept, InCore!MustLoad, InCore!FlagOf
  <1>16. ASSUME NEW k, k = N PROVE InCore!Kept(k)' = v
    BY <1>3, <1>4, <1>16 DEF InCore!Kept, InCore!MustLoad, InCore!FlagOf
  <1> QED BY <1>2, <1>3, <1>9, <1>10, <1>11, <1>13, <1>14, <1>15, <1>16 DEF MemIInv

\* What is left of a sequence without its first elements.
\* A position moves to the front by whole blocks.
LEMMA Moves ==
  ASSUME InCore!Careful, NEW n \in Nat, NEW k \in Nat
  PROVE  InCore!BlockOf(n + k * BlockSize) = InCore!BlockOf(n) + k
           /\ InCore!Place(n + k * BlockSize) = InCore!Place(n)
  <1> DEFINE q == n \div BlockSize
             r == n % BlockSize
             m == n + k * BlockSize
  <1>1. BlockSize \in Nat \ {0} /\ q \in Nat /\ r \in 0..BlockSize - 1 /\ n = q * BlockSize + r
    BY DivMod DEF InCore!Careful
  <1> HIDE DEF q, r
  <1>2. m \in Nat /\ q + k \in Int /\ m = (q + k) * BlockSize + r
    BY <1>1
  <1> HIDE DEF m
  <1>3. m \div BlockSize = q + k /\ m % BlockSize = r
    BY <1>1, <1>2, DivModUnique
  <1>4. InCore!BlockOf(m) = InCore!BlockOf(n) + k /\ InCore!Place(m) = InCore!Place(n)
    BY <1>3 DEF InCore!BlockOf, InCore!Place, q, r
  <1> QED BY <1>4 DEF m

LEMMA MemDelStep ==
  ASSUME InCore!Careful, MemIInv, NEW n \in Nat, InCore!DelVals(n)
  PROVE  /\ MemIInv'
         /\ \E m \in Nat : /\ m <= InCore!Count /\ m <= n
                           /\ Len(memVals)' = Len(memVals) - (memOffset + m - memOffset')
                           /\ memFirst' + memOffset' = memFirst + memOffset + m
                           /\ \A k \in InCore!Live' :
                              /\ k + (memOffset + m - memOffset') \in InCore!Live
                                                      /\ InCore!Kept(k)' = InCore!Kept(k + (memOffset + m - memOffset'))
  <1> DEFINE N == Len(memVals)
             L == Len(memBlobs)
             m == InCore!Lesser(n, InCore!Count)
             bs == (memOffset + m) \div BlockSize
             gone == bs * BlockSize
             blanked == [i \in DOMAIN memVals |-> IF i - 1 \in memOffset..memOffset + m - 1 THEN Blank ELSE memVals[i]]
  <1>1. /\ N \in Nat /\ DOMAIN memVals = 1..N /\ DOMAIN memFlags = 1..N /\ L \in Nat
           /\ DOMAIN memBlobs = 1..L
        /\ memVals \in Seq(Value \cup {Blank}) /\ memFlags \in Seq(InCore!Flag)
           /\ memBlobs \in Seq(Seq(Value \cup {Blank}))
        /\ memOffset \in 0..BlockSize - 1 /\ memOffset <= N /\ memFirst \in Nat
        /\ BlockSize \in Nat \ {0} /\ Len(memFlags) = N
    BY DEF MemIInv, InCore!TypeOK, InCore!Careful
  <1>2. m \in Nat /\ m <= n /\ m <= InCore!Count /\ InCore!Count = N - memOffset
          /\ memOffset + m \in Nat /\ memOffset + m <= N
    BY <1>1 DEF InCore!Lesser, InCore!Count
  <1>3. /\ memVals' = SubSeq(blanked, gone + 1, N) /\ memFlags' = SubSeq(memFlags, gone + 1, N)
        /\ memBlobs' = SubSeq(memBlobs, bs + 1, L)
        /\ memOffset' = memOffset + m - gone /\ memFirst' = memFirst + gone
    BY <1>1 DEF InCore!DelVals, InCore!DeletedBlocks
  <1>4. /\ \A i \in 1..N : blanked[i] \in Value \cup {Blank}
        /\ \A i \in 1..N : i - 1 >= memOffset + m => blanked[i] = memVals[i]
    BY <1>1, <1>2
  <1> HIDE DEF m, blanked
  <1>5. bs \in Nat /\ gone \in Nat /\ gone <= memOffset + m /\ memOffset + m - gone \in 0..BlockSize - 1
    <2>1. bs \in Nat /\ (memOffset + m) % BlockSize \in 0..BlockSize - 1
          /\ memOffset + m = bs * BlockSize + ((memOffset + m) % BlockSize)
      BY <1>1, <1>2, DivMod
    <2> HIDE DEF bs
    <2> QED BY <1>1, <1>2, <2>1
  <1> HIDE DEF bs
  <1>6. bs <= L
    <2>1. CASE bs = 0
      BY <1>1, <2>1
    <2>2. CASE bs # 0
      <3> DEFINE p == bs - 1
      <3>1. p \in Nat /\ p < bs /\ p + 1 = bs
        BY <1>5, <2>2
      <3> HIDE DEF p
      <3>2. p * BlockSize + BlockSize <= gone /\ p * BlockSize \in Nat
        BY <1>1, <1>5, <3>1, Multiples
      <3>3. p * BlockSize < N
        BY <1>1, <1>2, <1>5, <3>2
      <3>4. p < L
        BY <3>1, <3>3 DEF MemIInv, Pages
      <3> QED BY <1>1, <3>1, <3>4
    <2> QED BY <2>1, <2>2
  <1>7. gone <= N
    BY <1>1, <1>2, <1>5
  <1> DEFINE N1 == N - gone
             L1 == L - bs
  <1>8. N1 \in Nat /\ L1 \in Nat
    BY <1>1, <1>5, <1>6, <1>7
  <1> HIDE DEF gone
  <1>9. /\ memVals' \in Seq(Value \cup {Blank}) /\ Len(memVals') = N1
        /\ \A i \in 1..N1 : memVals'[i] = blanked[gone + i]
    <2>1. \A i \in gone + 1..N : blanked[i] \in Value \cup {Blank}
      BY <1>1, <1>4, <1>5
    <2> DEFINE S == Value \cup {Blank}
    <2>2. EndsIn(blanked, gone, N, S)
      BY <2>1 DEF EndsIn
    <2> HIDE DEF N, N1, S
    <2>3. /\ CutOff(blanked, gone, N) \in Seq(S) /\ Len(CutOff(blanked, gone, N)) = N - gone
          /\ \A i \in 1..N - gone : CutOff(blanked, gone, N)[i] = blanked[gone + i]
      <3>1. gone \in Nat /\ N \in Nat /\ gone <= N
        BY <1>1, <1>5, <1>7
      <3>2. IsCut(CutOff(blanked, gone, N), blanked, gone, N, S)
        BY <2>2, <3>1, Cut
      <3> QED BY <3>2 DEF IsCut
    <2> QED BY <1>3, <2>3 DEF N1, S, CutOff
  <1>10. /\ memFlags' \in Seq(InCore!Flag) /\ Len(memFlags') = N1
         /\ \A i \in 1..N1 : memFlags'[i] = memFlags[gone + i]
    <2>1. EndsIn(memFlags, gone, N, InCore!Flag)
      BY <1>1, <1>5 DEF EndsIn
    <2> HIDE DEF N, N1
    <2>2. /\ memFlags' \in Seq(InCore!Flag) /\ Len(memFlags') = N - gone
          /\ \A i \in 1..N - gone : memFlags'[i] = memFlags[gone + i]
      <3>1. memFlags' = CutOff(memFlags, gone, N)
        BY <1>3 DEF CutOff
      <3>2. gone \in Nat /\ N \in Nat /\ gone <= N
        BY <1>1, <1>5, <1>7
      <3>3. IsCut(CutOff(memFlags, gone, N), memFlags, gone, N, InCore!Flag)
        BY <2>1, <3>2, Cut
      <3> QED BY <3>1, <3>3 DEF IsCut
    <2> QED BY <2>2 DEF N1
  <1>11. /\ memBlobs' \in Seq(Seq(Value \cup {Blank})) /\ Len(memBlobs') = L1
         /\ \A i \in 1..L1 : memBlobs'[i] = memBlobs[bs + i]
    <2>1. \A i \in bs + 1..L : memBlobs[i] \in Seq(Value \cup {Blank})
      BY <1>1, <1>5
    <2> DEFINE S == Seq(Value \cup {Blank})
    <2>2. EndsIn(memBlobs, bs, L, S)
      BY <2>1 DEF EndsIn
    <2> HIDE DEF L, L1, S
    <2>3. /\ CutOff(memBlobs, bs, L) \in Seq(S) /\ Len(CutOff(memBlobs, bs, L)) = L - bs
          /\ \A i \in 1..L - bs : CutOff(memBlobs, bs, L)[i] = memBlobs[bs + i]
      <3>1. bs \in Nat /\ L \in Nat /\ bs <= L
        BY <1>1, <1>5, <1>6
      <3>2. IsCut(CutOff(memBlobs, bs, L), memBlobs, bs, L, S)
        BY <2>2, <3>1, Cut
      <3> QED BY <3>2 DEF IsCut
    <2> QED BY <1>3, <2>3 DEF L1, S, CutOff
  <1>12. memOffset' \in 0..BlockSize - 1 /\ memOffset' <= N1 /\ memFirst' \in Nat
         /\ memFirst' + memOffset' = memFirst + memOffset + m
         /\ memOffset + m - memOffset' = gone
    BY <1>1, <1>2, <1>3, <1>5
  <1>13. \A k \in InCore!Position' : k \in Nat /\ k + gone \in InCore!Position /\ k + 1 \in 1..N1
           /\ gone + (k + 1) = k + gone + 1
    BY <1>5, <1>7, <1>9 DEF InCore!Position
  <1>14. ASSUME NEW k \in InCore!Position'
         PROVE  /\ InCore!BlockOf(k + gone) = InCore!BlockOf(k) + bs
                   /\ InCore!Place(k + gone) = InCore!Place(k)
                /\ memFlags'[k + 1] = memFlags[k + gone + 1]
                /\ memBlobs'[InCore!BlockOf(k) + 1] = memBlobs[InCore!BlockOf(k + gone) + 1]
    <2>1. InCore!BlockOf(k + gone) = InCore!BlockOf(k) + bs /\ InCore!Place(k + gone) = InCore!Place(k)
      BY <1>5, <1>13, Moves DEF gone
    <2>2. InCore!BlockOf(k) \in Nat
      BY <1>1, <1>13, DivMod DEF InCore!BlockOf
    <2>3. InCore!BlockOf(k + gone) + 1 \in 1..L
      BY <1>1, <1>13, Where DEF MemIInv
    <2>4. InCore!BlockOf(k) + 1 \in 1..L1 /\ bs + (InCore!BlockOf(k) + 1) = InCore!BlockOf(k + gone) + 1
      BY <1>1, <1>5, <2>1, <2>2, <2>3
    <2>5. memBlobs'[InCore!BlockOf(k) + 1] = memBlobs[InCore!BlockOf(k + gone) + 1]
      BY <1>11, <2>4
    <2> QED BY <1>10, <1>13, <2>1, <2>5
  <1>15. \A k \in InCore!Live' : /\ k \in InCore!Position' /\ k + gone \in InCore!Live
                                 /\ memVals'[k + 1] = memVals[k + gone + 1]
    <2> SUFFICES ASSUME NEW k \in InCore!Live'
        PROVE k \in InCore!Position' /\ k + gone \in InCore!Live
                /\ memVals'[k + 1] = memVals[k + gone + 1]
      OBVIOUS
    <2>1. k \in InCore!Position' /\ k >= memOffset'
      BY DEF InCore!Live
    <2>2. k + gone >= memOffset + m /\ k + gone \in InCore!Position /\ k + 1 \in 1..N1
            /\ gone + (k + 1) = k + gone + 1
      BY <1>1, <1>2, <1>3, <1>5, <1>13, <2>1
    <2>3. k + gone + 1 \in 1..N /\ k + gone + 1 - 1 = k + gone
      BY <1>1, <1>5, <1>13, <2>1, <2>2 DEF InCore!Position
    <2>4. blanked[k + gone + 1] = memVals[k + gone + 1]
      <3> DEFINE j == k + gone + 1
      <3>1. j \in 1..N /\ j - 1 >= memOffset + m
        BY <1>1, <1>2, <1>5, <1>13, <2>1, <2>2, <2>3
      <3> HIDE DEF j
      <3>2. blanked[j] = memVals[j]
        BY <1>4, <3>1
      <3> QED BY <3>2 DEF j
    <2>5. k + gone \in InCore!Live
      BY <1>1, <1>2, <2>2, <1>5, <1>13, <2>1 DEF InCore!Live
    <2> QED BY <1>9, <2>1, <2>2, <2>4, <2>5
  <1>16. InCore!TypeOK'
    <2>1. \A i \in DOMAIN memBlobs' : Len(memBlobs'[i]) <= BlockSize
      <3>1. DOMAIN memBlobs' = 1..L1
        BY <1>8, <1>11
      <3> SUFFICES ASSUME NEW i \in 1..L1 PROVE Len(memBlobs'[i]) <= BlockSize
        BY <3>1
      <3>2. bs + i \in DOMAIN memBlobs
        BY <1>1, <1>5, <1>6
      <3> QED BY <1>11, <3>2 DEF MemIInv, InCore!TypeOK
    <2> QED BY <1>9, <1>10, <1>11, <1>12, <2>1 DEF InCore!TypeOK
  <1>17. Pages'
    <2> SUFFICES ASSUME NEW b \in Nat PROVE b < L1 <=> b * BlockSize < N1
      BY <1>9, <1>11 DEF Pages
    <2> DEFINE c == b + bs
    <2>1. c \in Nat /\ (c < L <=> b < L1) /\ c * BlockSize = b * BlockSize + gone
            /\ b * BlockSize \in Nat
      BY <1>1, <1>5, <1>6 DEF gone
    <2> HIDE DEF c
    <2>2. c < L <=> c * BlockSize < N
      BY <2>1 DEF MemIInv, Pages
    <2> QED BY <1>1, <1>5, <1>7, <2>1, <2>2
  <1>18. OnceStored'
    <2> SUFFICES ASSUME NEW k \in InCore!Position', memFlags'[k + 1] # "new"
                 PROVE  InCore!Place(k) <= Len(memBlobs'[InCore!BlockOf(k) + 1])
      BY DEF OnceStored, InCore!FlagOf
    <2>1. k + gone \in InCore!Position /\ memFlags[k + gone + 1] # "new"
      BY <1>13, <1>14
    <2>2. InCore!Place(k + gone) <= Len(memBlobs[InCore!BlockOf(k + gone) + 1])
      BY <2>1 DEF MemIInv, OnceStored, InCore!FlagOf
    <2> QED BY <1>14, <2>2
  <1>19. LoadsAlone'
    <2>1. \A k \in InCore!Position' : /\ k + gone \in InCore!Position
                                      /\ InCore!MustLoad(k)' <=> InCore!MustLoad(k + gone)
                                      /\ InCore!NeedsSaving(k)' <=> InCore!NeedsSaving(k + gone)
      BY <1>13, <1>14 DEF InCore!MustLoad, InCore!NeedsSaving, InCore!FlagOf
    <2> QED BY <2>1 DEF LoadsAlone, MemIInv
  <1>20. InCore!CleanOnDisk'
    <2> SUFFICES ASSUME NEW k \in InCore!Live', memFlags'[k + 1] = "clean"
                 PROVE  /\ InCore!Place(k) <= Len(memBlobs'[InCore!BlockOf(k) + 1])
                        /\ memBlobs'[InCore!BlockOf(k) + 1][InCore!Place(k)] = memVals'[k + 1]
      BY DEF InCore!CleanOnDisk, InCore!FlagOf
    <2>1. k \in InCore!Position' /\ k + gone \in InCore!Live /\ memFlags[k + gone + 1] = "clean"
      BY <1>14, <1>15
    <2>2. /\ InCore!Place(k + gone) <= Len(memBlobs[InCore!BlockOf(k + gone) + 1])
          /\ memBlobs[InCore!BlockOf(k + gone) + 1][InCore!Place(k + gone)] = memVals[k + gone + 1]
      BY <2>1 DEF MemIInv, InCore!CleanOnDisk, InCore!FlagOf
    <2> QED BY <1>14, <1>15, <2>1, <2>2
  <1>21. \A k \in InCore!Live' : k + gone \in InCore!Live /\ InCore!Kept(k)' = InCore!Kept(k + gone)
    BY <1>14, <1>15 DEF InCore!Kept, InCore!MustLoad, InCore!FlagOf
  <1>22. Len(memVals)' = Len(memVals) - gone
    BY <1>9
  <1>23. MemIInv'
    BY <1>16, <1>17, <1>18, <1>19, <1>20 DEF MemIInv
  <1> HIDE DEF N, L, N1, L1
  <1> QED BY <1>2, <1>12, <1>21, <1>22, <1>23

(***************************************************************************)
(* The theorems.                                                           *)
(***************************************************************************)
Values == [i \in 1..InCore!Count |-> InCore!Kept(memOffset + i - 1)]
First == memFirst + memOffset

LEMMA LiveAre ==
  ASSUME InCore!Careful, InCore!TypeOK
  PROVE  /\ InCore!Count \in Nat /\ memOffset \in Nat
            /\ Values \in Seq({InCore!Kept(k) : k \in InCore!Live}) /\ Len(Values) = InCore!Count
         /\ First \in Nat
         /\ \A i \in 1..InCore!Count : memOffset + i - 1 \in InCore!Live
         /\ \A k \in InCore!Live : k \in Nat /\ k - memOffset + 1 \in 1..InCore!Count
            /\ k \in InCore!Position
  <1>1. Len(memVals) \in Nat /\ memOffset \in Nat /\ memOffset <= Len(memVals) /\ memFirst \in Nat
    BY DEF InCore!Careful, InCore!TypeOK
  <1>2. InCore!Count \in Nat /\ \A i \in 1..InCore!Count : memOffset + i - 1 \in InCore!Live
    BY <1>1 DEF InCore!Count, InCore!Live, InCore!Position
  <1>3. \A k \in InCore!Live : k \in Nat /\ k - memOffset + 1 \in 1..InCore!Count
          /\ k \in InCore!Position
    BY <1>1 DEF InCore!Count, InCore!Live, InCore!Position
  <1> DEFINE W == {InCore!Kept(k) : k \in InCore!Live}
  <1>4. \A i \in 1..InCore!Count : InCore!Kept(memOffset + i - 1) \in W
    BY <1>2
  <1>5. Values \in Seq(W) /\ Len(Values) = InCore!Count
    <2> HIDE DEF W
    <2> QED BY <1>2, <1>4 DEF Values
  <1> QED BY <1>1, <1>2, <1>3, <1>5 DEF First

\* Where no value changes, the storage does nothing as its users see it.
LEMMA MemNothingSeen ==
  ASSUME InCore!Careful, InCore!TypeOK, InCore!TypeOK', MemSameValues
  PROVE  UNCHANGED InCore!Promise!vars
  <1>1. InCore!Count' = InCore!Count /\ First' = First
    BY DEF MemSameValues, InCore!Count, First
  <1>2. ASSUME NEW i \in 1..InCore!Count
        PROVE InCore!Kept(memOffset + i - 1)' = InCore!Kept(memOffset + i - 1)
    <2>1. memOffset + i - 1 \in InCore!Live /\ memOffset' = memOffset
      BY LiveAre DEF MemSameValues
    <2> QED BY <2>1 DEF MemSameValues
  <1>3. Values' = Values
    BY <1>1, <1>2 DEF Values
  <1> QED BY <1>1, <1>3 DEF InCore!Promise!vars, Values, First

LEMMA MemSetSeen ==
  ASSUME InCore!Careful, MemIInv, NEW n \in InCore!Live,
           NEW v \in Value, InCore!SetVal(n, v), \A k \in InCore!Position : ~InCore!MustLoad(k)
  PROVE  InCore!Promise!Next
  <1>1. /\ MemIInv' /\ Len(memVals)' = Len(memVals) /\ memOffset' = memOffset /\ memFirst' = memFirst
        /\ \A k \in InCore!Live : InCore!Kept(k)' = IF k = n THEN v ELSE InCore!Kept(k)
    BY MemSetStep
  <1>2. /\ InCore!Count \in Nat /\ memOffset \in Nat /\ Len(Values) = InCore!Count /\ First \in Nat
           /\ DOMAIN Values = 1..InCore!Count
        /\ n \in Nat /\ n - memOffset + 1 \in 1..InCore!Count
        /\ \A i \in 1..InCore!Count : memOffset + i - 1 \in InCore!Live
    BY LiveAre DEF MemIInv, Values
  <1>3. InCore!Count' = InCore!Count /\ First' = First
    BY <1>1 DEF InCore!Count, First
  <1> DEFINE id == memFirst + n
             p == id - First + 1
  <1>4. id \in First..First + InCore!Count - 1 /\ p = n - memOffset + 1 /\ p \in 1..InCore!Count
    <2>1. memFirst \in Nat
      BY DEF MemIInv, InCore!TypeOK
    <2> QED BY <1>2, <2>1 DEF First
  <1>5. Values' = [Values EXCEPT ![p] = v]
    <2>1. Values' = [i \in 1..InCore!Count |-> InCore!Kept(memOffset + i - 1)']
      BY <1>1, <1>3 DEF Values
    <2>2. ASSUME NEW i \in 1..InCore!Count
          PROVE InCore!Kept(memOffset + i - 1)' = IF i = p THEN v ELSE Values[i]
      <3>1. memOffset + i - 1 \in InCore!Live /\ (memOffset + i - 1 = n <=> i = p)
        BY <1>2, <1>4
      <3>2. InCore!Kept(memOffset + i - 1)' = IF memOffset + i - 1 = n THEN v ELSE InCore!Kept(memOffset + i - 1)
        <4> DEFINE j == memOffset + i - 1
        <4>1. j' = j
          BY <1>1
        <4>2. j \in InCore!Live
          BY <3>1
        <4> HIDE DEF j
        <4>3. \A k \in InCore!Live : k = j => InCore!Kept(k)' = IF j = n THEN v ELSE InCore!Kept(j)
          BY <1>1
        <4>4. InCore!Kept(j)' = IF j = n THEN v ELSE InCore!Kept(j)
          BY <4>1, <4>2, <4>3 DEF InCore!Kept, InCore!MustLoad, InCore!FlagOf
        <4> QED BY <4>4 DEF j
      <3>3. Values[i] = InCore!Kept(memOffset + i - 1)
        BY DEF Values
      <3> QED BY <3>1, <3>2, <3>3
    <2> HIDE DEF p
    <2> QED BY <1>2, <2>1, <2>2
  <1> HIDE DEF id
  <1>6. InCore!Promise!SetVal(id, v)
    BY <1>2, <1>3, <1>4, <1>5 DEF InCore!Promise!SetVal, First, Values
  <1> QED BY <1>2, <1>4, <1>6 DEF InCore!Promise!Next, First, Values

LEMMA MemAddSeen ==
  ASSUME InCore!Careful, MemIInv,
           NEW v \in Value, InCore!AddVal(v), \A k \in InCore!Position : ~InCore!MustLoad(k)
  PROVE  InCore!Promise!Next
  <1>1. /\ MemIInv' /\ Len(memVals)' = Len(memVals) + 1 /\ memOffset' = memOffset
           /\ memFirst' = memFirst
        /\ \A k \in InCore!Position : InCore!Kept(k)' = InCore!Kept(k)
        /\ \A k : k = Len(memVals) => InCore!Kept(k)' = v
    BY MemAddStep
  <1>2. /\ InCore!Count \in Nat /\ memOffset \in Nat /\ Len(Values) = InCore!Count
           /\ DOMAIN Values = 1..InCore!Count
        /\ Values \in Seq({InCore!Kept(k) : k \in InCore!Live})
        /\ \A i \in 1..InCore!Count : memOffset + i - 1 \in InCore!Position
    BY LiveAre DEF MemIInv, Values
  <1>3. InCore!Count' = InCore!Count + 1 /\ First' = First
          /\ memOffset + (InCore!Count + 1) - 1 = Len(memVals)
    <2>1. Len(memVals) \in Nat
      BY DEF MemIInv, InCore!TypeOK
    <2> QED BY <1>1, <1>2, <2>1 DEF InCore!Count, First
  <1>4. Values' = [i \in 1..InCore!Count + 1 |-> InCore!Kept(memOffset + i - 1)']
    BY <1>1, <1>3 DEF Values
  <1>5. ASSUME NEW i \in 1..InCore!Count + 1
        PROVE  InCore!Kept(memOffset + i - 1)' = IF i = InCore!Count + 1 THEN v ELSE Values[i]
    <2> DEFINE j == memOffset + i - 1
    <2>1. j' = j
      BY <1>1
    <2>2. i # InCore!Count + 1 => i \in 1..InCore!Count /\ j \in InCore!Position
            /\ Values[i] = InCore!Kept(j)
      BY <1>2 DEF Values
    <2>3. i = InCore!Count + 1 => j = Len(memVals)
      BY <1>3
    <2> HIDE DEF j
    <2>4. \A k : k = j => InCore!Kept(k)' = IF i = InCore!Count + 1 THEN v ELSE Values[i]
      BY <1>1, <2>2, <2>3
    <2>5. InCore!Kept(j)' = IF i = InCore!Count + 1 THEN v ELSE Values[i]
      BY <2>1, <2>4 DEF InCore!Kept, InCore!MustLoad, InCore!FlagOf
    <2> QED BY <2>5 DEF j
  <1>6. Values' = Append(Values, v)
    <2> HIDE DEF Values
    <2>1. Append(Values, v) = [i \in 1..InCore!Count + 1 |-> IF i = InCore!Count + 1 THEN v ELSE Values[i]]
      BY <1>2, Appended
    <2> QED BY <1>4, <1>5, <2>1
  <1>7. InCore!Promise!AddVal(v)
    BY <1>3, <1>6 DEF InCore!Promise!AddVal, First, Values
  <1> QED BY <1>7 DEF InCore!Promise!Next

LEMMA MemDelSeen ==
  ASSUME InCore!Careful, MemIInv, NEW n \in 1..Len(memVals) + 1, InCore!DelVals(n)
  PROVE  [InCore!Promise!Next]_(InCore!Promise!vars)
  <1>1. n \in Nat
    BY DEF MemIInv, InCore!TypeOK
  <1>2. MemIInv' /\ memOffset' \in Nat /\ memOffset' <= Len(memVals') /\ Len(memVals') \in Nat
    <2>1. MemIInv'
      BY <1>1, MemDelStep
    <2>2. InCore!TypeOK'
      BY <2>1 DEF MemIInv
    <2> QED BY <2>1, <2>2 DEF InCore!TypeOK, InCore!Careful
  <1> DEFINE Left == Len(memVals')
  <1>3. PICK f \in Nat : f = memOffset'
    BY <1>2
  <1>4. PICK m \in Nat : /\ m <= InCore!Count /\ m <= n
                         /\ Left = Len(memVals) - (memOffset + m - f)
                         /\ memFirst' + f = memFirst + memOffset + m
                         /\ \A k \in InCore!Live' : InCore!Kept(k)' = InCore!Kept(k + (memOffset + m - f))
    BY <1>1, <1>3, MemDelStep
  <1>5. /\ InCore!Count \in Nat /\ memOffset \in Nat /\ Len(Values) = InCore!Count
           /\ DOMAIN Values = 1..InCore!Count /\ First \in Nat
        /\ Values \in Seq({InCore!Kept(k) : k \in InCore!Live})
           /\ \A i \in 1..InCore!Count : Values[i] = InCore!Kept(memOffset + i - 1)
    BY LiveAre DEF MemIInv, Values
  <1>6. InCore!Count' = InCore!Count - m /\ First' = First + m /\ Left \in Nat
    <2>1. InCore!Count' = Left - f /\ First' = memFirst' + f /\ Left \in Nat
      BY <1>2, <1>3 DEF InCore!Count, First
    <2>2. Len(memVals) \in Nat /\ memFirst \in Nat
      BY DEF MemIInv, InCore!TypeOK
    <2>3. First' = First + m
      BY <1>4, <1>5, <2>1, <2>2 DEF First
    <2> HIDE DEF Left
    <2>4. Left - f = InCore!Count - m
      BY <1>4, <1>5, <2>1, <2>2 DEF InCore!Count
    <2> QED BY <2>1, <2>3, <2>4
  <1>7. ASSUME NEW i \in 1..InCore!Count - m
        PROVE InCore!Kept(f + i - 1)' = Values[m + i] /\ m + i \in 1..InCore!Count
    <2> DEFINE j == f + i - 1
    <2>1. m + i \in 1..InCore!Count /\ j \in Nat /\ j >= f /\ j < f + (InCore!Count - m)
      BY <1>4, <1>5
    <2>2. j \in InCore!Live'
      <3>1. Left = f + (InCore!Count - m)
        <4>1. Len(memVals) \in Nat
          BY DEF MemIInv, InCore!TypeOK
        <4> HIDE DEF Left
        <4> QED BY <1>4, <1>5, <4>1 DEF InCore!Count
      <3>2. j \in 0..Left - 1
        <4> HIDE DEF j, Left
        <4> QED BY <1>4, <1>5, <2>1, <3>1
      <3> HIDE DEF j
      <3> QED BY <1>3, <2>1, <3>2 DEF InCore!Live, InCore!Position
    <2>3. j + (memOffset + m - f) = memOffset + (m + i) - 1
      BY <1>4, <1>5
    <2> HIDE DEF j
    <2>4. InCore!Kept(j)' = InCore!Kept(j + (memOffset + m - f))
      BY <1>4, <2>2
    <2> QED BY <1>5, <2>1, <2>3, <2>4 DEF j
  <1>8. Values' = SubSeq(Values, m + 1, Len(Values))
    <2>1. Values' = [i \in 1..InCore!Count - m |-> InCore!Kept(f + i - 1)']
      BY <1>3, <1>6 DEF Values
    <2> DEFINE W == {InCore!Kept(k) : k \in InCore!Live}
    <2>2. Values \in Seq(W) /\ EndsIn(Values, m, InCore!Count, W)
      BY <1>4, <1>5 DEF EndsIn
    <2> HIDE DEF W, Values
    <2> DEFINE t == CutOff(Values, m, InCore!Count)
    <2>3. t \in Seq(W) /\ Len(t) = InCore!Count - m
            /\ \A i \in 1..InCore!Count - m : t[i] = Values[m + i]
      <3>1. m \in Nat /\ InCore!Count \in Nat /\ m <= InCore!Count
        BY <1>4, <1>5
      <3>2. IsCut(CutOff(Values, m, InCore!Count), Values, m, InCore!Count, W)
        BY <2>2, <3>1, Cut
      <3> QED BY <3>2 DEF IsCut
    <2> HIDE DEF t
    <2>4. t = [i \in 1..InCore!Count - m |-> Values[m + i]]
      BY <1>4, <1>5, <2>3, SMTT(30)
    <2> QED BY <1>5, <1>7, <2>1, <2>4 DEF t, CutOff
  <1>9. CASE m = 0
    <2>1. First' = First /\ SubSeq(Values, m + 1, Len(Values)) = Values
      <3> HIDE DEF Values
      <3> QED BY <1>5, <1>6, <1>9, SubSeqFull
    <2> QED BY <1>8, <2>1 DEF InCore!Promise!vars, First, Values
  <1>10. CASE m # 0
    <2>1. m \in 1..Len(Values)
      BY <1>4, <1>5, <1>10
    <2>2. InCore!Promise!DelVals(m)
      BY <1>4, <1>5, <1>6, <1>8 DEF InCore!Promise!DelVals, First, Values
    <2> QED BY <2>1, <2>2 DEF InCore!Promise!Next, Values
  <1> QED BY <1>9, <1>10

LEMMA MemNextKeeps ==
  ASSUME InCore!Careful, MemIInv, [InCore!Next]_(InCore!vars)
  PROVE  MemIInv' /\ [InCore!Promise!Next]_(InCore!Promise!vars)
  <1>1. ASSUME MemSameValues, MemIInv' PROVE UNCHANGED InCore!Promise!vars
    BY <1>1, MemNothingSeen DEF MemIInv
  <1>2. CASE UNCHANGED InCore!vars
    <2>1. MemIInv' /\ MemSameValues
      BY <1>2 DEF InCore!vars, MemIInv, InCore!TypeOK, Pages, OnceStored, LoadsAlone,
        InCore!CleanOnDisk, MemSameValues, InCore!Position, InCore!Live, InCore!Kept,
                  InCore!MustLoad, InCore!NeedsSaving, InCore!FlagOf
    <2> QED BY <1>1, <2>1
  <1>3. CASE (LoadsFirst => \A n \in InCore!Position : ~InCore!MustLoad(n))
               /\ \E v \in Value : InCore!AddVal(v) \/ \E n \in InCore!Live : InCore!SetVal(n, v)
    <2>1. \A k \in InCore!Position : ~InCore!MustLoad(k)
      BY <1>3 DEF InCore!Careful, MemIInv, LoadsAlone
    <2>2. CASE \E v \in Value : InCore!AddVal(v)
      BY <2>1, <2>2, MemAddStep, MemAddSeen
    <2>3. CASE \E v \in Value, n \in InCore!Live : InCore!SetVal(n, v)
      BY <2>1, <2>3, MemSetStep, MemSetSeen
    <2> QED BY <1>3, <2>2, <2>3
  <1>4. CASE \E n \in InCore!Live : InCore!GetVal(n)
    BY <1>1, <1>4, LoadStep DEF InCore!GetVal
  <1>5. CASE \E n \in 1..Len(memVals) + 1 : InCore!DelVals(n)
    <2>1. PICK n \in 1..Len(memVals) + 1 : InCore!DelVals(n)
      BY <1>5
    <2>2. n \in Nat
      BY DEF MemIInv, InCore!TypeOK
    <2> QED BY <2>1, <2>2, MemDelStep, MemDelSeen
  <1>6. CASE InCore!PartialFlush
    BY <1>1, <1>6, MemFlushStep
  <1>7. CASE InCore!LoadAll
    BY <1>1, <1>7, LoadStep DEF InCore!LoadAll
  <1>8. CASE InCore!CloseAndOpen
    BY <1>1, <1>8, MemCloseStep
  <1> QED BY <1>2, <1>3, <1>4, <1>5, <1>6, <1>7, <1>8 DEF InCore!Next

LEMMA MemInitKeeps ==
  ASSUME InCore!Careful, InCore!Init
  PROVE  MemIInv /\ InCore!Promise!Init
  <1>1. /\ memVals = <<>> /\ memFlags = <<>> /\ memBlobs = <<>> /\ memOffset = 0 /\ memFirst = 0
        /\ InCore!Position = {} /\ InCore!Live = {} /\ InCore!Count = 0
    BY DEF InCore!Init, InCore!Position, InCore!Live, InCore!Count
  <1>2. InCore!TypeOK
    BY <1>1 DEF InCore!TypeOK, InCore!Careful
  <1>3. Pages
    BY <1>1 DEF Pages, InCore!Careful
  <1> QED BY <1>1, <1>2, <1>3 DEF MemIInv, OnceStored, LoadsAlone, InCore!CleanOnDisk,
            InCore!Promise!Init

\* The invariant of TInMemStorage: as many blob pointers as blocks, and what is not new is stored.
THEOREM MemoryIInv == ASSUME InCore!Careful PROVE InCore!Spec => []MemIInv
  <1>1. InCore!Init => MemIInv
    BY MemInitKeeps
  <1>2. MemIInv /\ [InCore!Next]_(InCore!vars) => MemIInv'
    BY MemNextKeeps
  <1> QED BY <1>1, <1>2, PTL DEF InCore!Spec

\* A value that is marked as clean is in the blob of its block as it is, also when it was flushed
\* in part, moved by DelVals or loaded again.
THEOREM MemoryCleanOnDisk == ASSUME InCore!Careful PROVE InCore!Spec => []InCore!CleanOnDisk
  <1>1. MemIInv => InCore!CleanOnDisk
    BY DEF MemIInv
  <1> QED BY <1>1, MemoryIInv, PTL

\* Every block has its blob pointer, and a block that is still to be loaded can be loaded whole.
THEOREM MemoryBlocks == ASSUME InCore!Careful
PROVE InCore!Spec => [](InCore!BlocksHaveBlobs /\ InCore!BlocksWhole)
  <1>1. MemIInv => InCore!BlocksHaveBlobs
    <2> SUFFICES ASSUME MemIInv PROVE InCore!BlocksHaveBlobs
      OBVIOUS
    <2>1. Len(memBlobs) \in Nat /\ DOMAIN memBlobs = 1..Len(memBlobs) /\ Len(memVals) \in Nat
            /\ BlockSize \in Nat \ {0}
      BY DEF MemIInv, InCore!TypeOK, InCore!Careful
    <2>2. ASSUME NEW i \in 1..Len(memBlobs) PROVE \E b \in InCore!Blocks : i = b + 1
      <3> DEFINE b == i - 1
                 n == b * BlockSize
      <3>1. b \in Nat /\ b < Len(memBlobs) /\ i = b + 1
        BY <2>1
      <3> HIDE DEF b
      <3>2. n \in Nat /\ n < Len(memVals) /\ n = b * BlockSize + 0 /\ 0 \in 0..BlockSize - 1
              /\ b \in Int
        BY <2>1, <3>1 DEF MemIInv, Pages
      <3> HIDE DEF n
      <3>3. n \div BlockSize = b
        BY <2>1, <3>2, DivModUnique
      <3>4. n \in InCore!Position /\ InCore!BlockOf(n) = b
        BY <2>1, <3>2, <3>3 DEF InCore!Position, InCore!BlockOf
      <3> QED BY <3>1, <3>4 DEF InCore!Blocks
    <2>3. ASSUME NEW b \in InCore!Blocks PROVE b + 1 \in 1..Len(memBlobs)
      BY <2>1, Where DEF InCore!Blocks, MemIInv
    <2> QED BY <2>1, <2>2, <2>3 DEF InCore!BlocksHaveBlobs
  <1>2. MemIInv => InCore!BlocksWhole
    <2> SUFFICES ASSUME MemIInv, NEW n \in InCore!Live, InCore!MustLoad(n),
                          NEW k \in InCore!Position, InCore!BlockOf(k) = InCore!BlockOf(n)
                 PROVE  ~InCore!NeedsSaving(k)
                          /\ InCore!Place(k) <= Len(memBlobs[InCore!BlockOf(n) + 1])
      BY DEF InCore!BlocksWhole
    <2>1. n \in InCore!Position
      BY DEF InCore!Live
    <2>2. ~InCore!NeedsSaving(k)
      BY <2>1 DEF MemIInv, LoadsAlone
    <2>3. InCore!FlagOf(k) # "new"
      BY <2>2 DEF InCore!NeedsSaving
    <2> QED BY <2>2, <2>3 DEF MemIInv, OnceStored
  <1> QED BY <1>1, <1>2, MemoryIInv, PTL

\* The storage in memory behaves as ValueStore, opened at once or lazily.
THEOREM MemoryKeepsItsPromise == ASSUME InCore!Careful PROVE InCore!Spec => InCore!ImplementsValueStore
  <1>1. InCore!Init => InCore!Promise!Init
    BY MemInitKeeps
  <1>2. MemIInv /\ [InCore!Next]_(InCore!vars) => [InCore!Promise!Next]_(InCore!Promise!vars)
    BY MemNextKeeps
  <1> QED BY <1>1, <1>2, MemoryIInv, PTL DEF InCore!Spec, InCore!ImplementsValueStore,
            InCore!Promise!Spec
============================================================================
