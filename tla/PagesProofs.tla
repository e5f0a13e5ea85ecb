----------------------------- MODULE PagesProofs -----------------------------
(***************************************************************************)
(* Proofs about the paged blob storage (PgBlob), for any blobs, page size, *)
(* cache and number of pages, and about the records that a store keeps on  *)
(* it (PagedStore), for any pointers, names and values.                    *)
(***************************************************************************)
EXTENDS MCPgBlob, FiniteSetTheorems, SequenceTheorems, WellFoundedInduction, TLAPS

LEMMA LeastIs ==
  ASSUME NEW S \in SUBSET Nat, S # {}
  PROVE  \E n \in S : \A m \in S : n <= m
  <1> DEFINE Less == OpToRel(<, Nat)
  <1>1. IsWellFoundedOn(Less, Nat)
    BY NatLessThanWellFounded
  <1>2. \A m, n \in Nat : <<m, n>> \in Less <=> m < n
    BY DEF OpToRel
  <1> HIDE DEF Less
  <1>3. \E n \in S : \A m \in S : ~(<<m, n>> \in Less)
    BY <1>1, WFMin
  <1>4. PICK n \in S : \A m \in S : ~(<<m, n>> \in Less)
    BY <1>3
  <1>5. n \in Nat /\ \A m \in S : m \in Nat /\ ~(m < n)
    BY <1>2, <1>4
  <1> QED BY <1>5

LEMMA ByInduction ==
  ASSUME NEW S, 0 \in S, \A n \in Nat : n \in S => n + 1 \in S
  PROVE  \A n \in Nat : n \in S
  <1> SUFFICES ASSUME Nat \ S # {} PROVE FALSE
    OBVIOUS
  <1>1. PICK n \in Nat \ S : \A m \in Nat \ S : n <= m
    BY LeastIs
  <1>2. n \in Nat /\ n # 0 /\ n \notin S
    BY <1>1
  <1>3. n - 1 \in Nat /\ n - 1 \in S
    BY <1>1, <1>2
  <1> QED BY <1>2, <1>3

\* Half a number, in a form the provers calculate with.
LEMMA HalfIs ==
  ASSUME NEW n \in Nat
  PROVE  /\ n \div 2 \in Nat
         /\ n = 2 * (n \div 2) \/ n = 2 * (n \div 2) + 1
  OBVIOUS

LEMMA FunIsSeq ==
  ASSUME NEW S, NEW n \in Nat, NEW f \in [1..n -> S]
  PROVE  f \in Seq(S) /\ Len(f) = n
  OBVIOUS

LEMMA OtherPair ==
  ASSUME NEW x \in Nat, NEW y \in Nat, x = 2 * y \/ x = 2 * y + 1, NEW i \in Nat, i # y
  PROVE  2 * i # x /\ 2 * i + 1 # x
  <1>1. CASE x = 2 * y
    BY <1>1
  <1>2. CASE x = 2 * y + 1
    BY <1>2
  <1> QED BY <1>1, <1>2

(***************************************************************************)
(* The tree of maxima.                                                     *)
(***************************************************************************)
\* The layer b has the maxima of the pairs of a.
Halves(a, b) ==
  /\ 2 * Len(b) = Len(a) \/ 2 * Len(b) = Len(a) + 1
  /\ \A i \in 0..Len(b) - 1 : b[i + 1] = MaxOfPair(a, i)

TreeOK(ls) ==
  /\ ls \in Seq(Seq(Nat)) /\ Len(ls) >= 1
  /\ \A l \in 1..Len(ls) - 1 : Len(ls[l]) > 1
  /\ \A l \in 1..Len(ls) - 1 : Halves(ls[l], ls[l + 1])
  /\ Len(ls[Len(ls)]) <= 1

\* The numbers of a2 are those of a, but for the one at x.
SameBut(a, a2, x) ==
  /\ a2 \in Seq(Nat) /\ Len(a2) = Len(a) /\ x \in 0..Len(a) - 1
  /\ \A i \in 0..Len(a) - 1 : i # x => a2[i + 1] = a[i + 1]

LEMMA MaxOfPairIs ==
  ASSUME NEW a \in Seq(Nat), NEW i \in Nat, 2 * i < Len(a)
  PROVE  /\ MaxOfPair(a, i) \in Nat
         /\ MaxOfPair(a, i) = a[2 * i + 1] \/ (2 * i + 1 < Len(a) /\ MaxOfPair(a, i) = a[2 * i + 2])
         /\ a[2 * i + 1] <= MaxOfPair(a, i)
         /\ 2 * i + 1 < Len(a) => a[2 * i + 2] <= MaxOfPair(a, i)
  <1>1. Len(a) \in Nat /\ 2 * i + 1 \in 1..Len(a) /\ (2 * i + 1 < Len(a) => 2 * i + 2 \in 1..Len(a))
    OBVIOUS
  <1>2. a[2 * i + 1] \in Nat /\ (2 * i + 1 < Len(a) => a[2 * i + 2] \in Nat)
    BY <1>1, ElementOfSeq
  <1> QED BY <1>1, <1>2 DEF MaxOfPair, Greater

LEMMA ChangedLayer ==
  ASSUME NEW a \in Seq(Nat), NEW a2 \in Seq(Nat), NEW x, SameBut(a, a2, x),
         NEW b \in Seq(Nat), Halves(a, b)
  PROVE  LET b2 == [b EXCEPT ![(x \div 2) + 1] = MaxOfPair(a2, x \div 2)]
         IN  SameBut(b, b2, x \div 2) /\ Halves(a2, b2)
  <1> DEFINE y == x \div 2
             b2 == [b EXCEPT ![y + 1] = MaxOfPair(a2, y)]
  <1>1. /\ x \in Nat /\ x < Len(a) /\ Len(a) \in Nat /\ Len(b) \in Nat /\ Len(a2) = Len(a)
        /\ y \in Nat /\ (x = 2 * y \/ x = 2 * y + 1)
        /\ (2 * Len(b) = Len(a) \/ 2 * Len(b) = Len(a) + 1)
    BY HalfIs, SMTT(30) DEF SameBut, Halves
  <1> HIDE DEF y, b2
  <1>2. y \in 0..Len(b) - 1 /\ y + 1 \in 1..Len(b) /\ 2 * y < Len(a)
    <2>1. 2 * y <= x
      BY <1>1
    <2>2. 2 * y < Len(a)
      BY <1>1, <2>1
    <2> QED BY <1>1, <2>2
  <1>3. MaxOfPair(a2, y) \in Nat
    BY <1>1, <1>2, MaxOfPairIs
  <1>4. b2 \in Seq(Nat) /\ Len(b2) = Len(b) /\ \A j \in 1..Len(b) : b2[j] = IF j = y + 1 THEN MaxOfPair(a2, y) ELSE b[j]
    BY <1>2, <1>3, ExceptSeq DEF b2
  <1>5. ASSUME NEW i \in 0..Len(b) - 1 PROVE i # y => b2[i + 1] = b[i + 1]
    BY <1>1, <1>2, <1>4
  <1>6. ASSUME NEW i \in 0..Len(b) - 1 PROVE b2[i + 1] = MaxOfPair(a2, i)
    <2>1. CASE i = y
      BY <1>1, <1>2, <1>4, <2>1
    <2>2. CASE i # y
      <3>1. b2[i + 1] = b[i + 1] /\ b[i + 1] = MaxOfPair(a, i)
        BY <1>5, <2>2 DEF Halves
      <3>2. i \in Nat /\ i < Len(b)
        BY <1>1
      <3>6. 2 * i < Len(a)
        BY <1>1, <3>2, SMTT(30)
      <3>7. 2 * i # x /\ 2 * i + 1 # x
        BY <1>1, <2>2, <3>2, OtherPair
      <3>8. 2 * i \in 0..Len(a) - 1 /\ (Len(a) > 2 * i + 1 => 2 * i + 1 \in 0..Len(a) - 1)
        <4>1. Len(a) \in Nat /\ i \in Nat
          BY <3>2
        <4>2. 2 * i \in Nat /\ 2 * i + 1 \in Nat
          BY <4>1
        <4> QED BY <3>6, <4>1, <4>2
      <3>3. a2[2 * i + 1] = a[2 * i + 1] /\ (Len(a) > 2 * i + 1 => a2[(2 * i + 1) + 1] = a[(2 * i + 1) + 1])
        BY <3>7, <3>8 DEF SameBut
      <3>4. (2 * i + 1) + 1 = 2 * i + 2
        OBVIOUS
      <3>5. MaxOfPair(a2, i) = MaxOfPair(a, i)
        BY <1>1, <3>3, <3>4 DEF MaxOfPair
      <3> QED BY <3>1, <3>5
    <2> QED BY <2>1, <2>2
  <1>7. SameBut(b, b2, y)
    BY <1>2, <1>4, <1>5 DEF SameBut
  <1>8. Halves(a2, b2)
    BY <1>1, <1>4, <1>6 DEF Halves
  <1> QED BY <1>7, <1>8 DEF b2, y

\* What holds of a tree whose layers are those of another, with the numbers on the way from x to
\* the top taken anew.
LEMMA TreeChanges ==
  ASSUME NEW ls, TreeOK(ls), NEW ns \in [DOMAIN ls -> Seq(Nat)], NEW x,
         \A l \in DOMAIN ls : SameBut(ls[l], ns[l], x[l]),
         \A l \in 1..Len(ls) - 1 : Halves(ns[l], ns[l + 1])
  PROVE  TreeOK(ns) /\ Len(ns) = Len(ls)
  <1>1. Len(ls) \in Nat /\ Len(ls) >= 1 /\ DOMAIN ls = 1..Len(ls)
    BY DEF TreeOK
  <1>2. \A l \in 1..Len(ls) : ns[l] \in Seq(Nat) /\ Len(ns[l]) = Len(ls[l])
    BY <1>1 DEF SameBut
  <1>3. ns \in Seq(Seq(Nat)) /\ Len(ns) = Len(ls)
    BY <1>1
  <1> QED BY <1>1, <1>2, <1>3 DEF TreeOK

LEMMA ChangeValIs ==
  ASSUME NEW ls, TreeOK(ls), NEW n \in 0..Len(ls[1]) - 1, NEW val \in Nat
  PROVE  /\ TreeOK(ChangeVal(ls, n, val)) /\ Len(ChangeVal(ls, n, val)) = Len(ls)
         /\ ChangeVal(ls, n, val)[1] = [ls[1] EXCEPT ![n + 1] = val]
  <1> DEFINE First == [index |-> n, layer |-> [ls[1] EXCEPT ![n + 1] = val]]
             Raised(a, i, l) == [ls[l] EXCEPT ![(i \div 2) + 1] = MaxOfPair(a, i \div 2)]
             Above(u, l) == [index |-> u.index \div 2, layer |-> Raised(u.layer, u.index, l)]
             Body(u, l) == IF l = 1 THEN First ELSE Above(u[l - 1], l)
             Walks(u) == u = [l \in DOMAIN ls |-> Body(u, l)]
             w == CHOOSE u : Walks(u)
             ns == [l \in DOMAIN ls |-> w[l].layer]
             x == [l \in DOMAIN ls |-> w[l].index]
  <1>1. Len(ls) \in Nat /\ Len(ls) >= 1 /\ DOMAIN ls = 1..Len(ls) /\ \A l \in 1..Len(ls) : ls[l] \in Seq(Nat)
    BY DEF TreeOK
  <1>2. ChangeVal(ls, n, val) = ns
    BY DEF ChangeVal
  <1> HIDE DEF First, Above, Raised
  <1>3. \E u : Walks(u)
    <2> DEFINE S == {k \in Nat : \E u : \A l \in 1..k : u[l] = Body(u, l)}
    <2>1. 0 \in S
      OBVIOUS
    <2>2. ASSUME NEW k \in Nat, k \in S PROVE k + 1 \in S
      <3>1. PICK u : \A l \in 1..k : u[l] = Body(u, l)
        BY <2>2
      <3> DEFINE v == [l \in 1..k + 1 |-> IF l = k + 1 THEN Body(u, l) ELSE u[l]]
      <3>2. \A l \in 1..k + 1 : l # 1 => l - 1 \in 1..k + 1 /\ l - 1 # k + 1
        OBVIOUS
      <3>3. \A l \in 1..k + 1 : v[l] = Body(u, l)
        BY <3>1
      <3>4. \A l \in 1..k + 1 : Body(v, l) = Body(u, l)
        BY <3>2
      <3>5. \A l \in 1..k + 1 : v[l] = Body(v, l)
        BY <3>3, <3>4
      <3> HIDE DEF v, Body
      <3> QED BY <3>5
    <2>3. Len(ls) \in S
      <3> HIDE DEF S
      <3> QED BY <1>1, <2>1, <2>2, ByInduction
    <2>4. PICK u : \A l \in 1..Len(ls) : u[l] = Body(u, l)
      BY <2>3
    <2> DEFINE v == [l \in 1..Len(ls) |-> u[l]]
    <2>5. \A l \in 1..Len(ls) : l # 1 => l - 1 \in 1..Len(ls)
      BY <1>1
    <2>6. \A l \in 1..Len(ls) : Body(v, l) = Body(u, l)
      BY <2>5
    <2>7. v = [l \in 1..Len(ls) |-> Body(v, l)]
      <3> HIDE DEF Body
      <3> QED BY <2>4, <2>6
    <2> HIDE DEF v, Body
    <2> QED BY <1>1, <2>7
  <1>4. Walks(w)
    <2> HIDE DEF Walks
    <2> QED BY <1>3
  <1> HIDE DEF w
  <1>5. w[1] = First /\ \A l \in 1..Len(ls) - 1 : w[l + 1] = Above(w[l], l + 1)
    <2>1. \A l \in 1..Len(ls) : w[l] = Body(w, l)
      <3> HIDE DEF Body
      <3> QED BY <1>1, <1>4
    <2>2. \A l \in 1..Len(ls) - 1 : l + 1 \in 1..Len(ls) /\ l + 1 # 1 /\ (l + 1) - 1 = l
      BY <1>1
    <2>3. 1 \in 1..Len(ls)
      BY <1>1
    <2> QED BY <2>1, <2>2, <2>3
  <1> HIDE DEF Body, Walks
  <1>6. /\ SameBut(ls[1], w[1].layer, w[1].index)
        /\ w[1].layer = [ls[1] EXCEPT ![n + 1] = val]
    <2>1. n + 1 \in 1..Len(ls[1]) /\ ls[1] \in Seq(Nat) /\ Len(ls[1]) \in Nat
      BY <1>1
    <2>2. w[1].layer = [ls[1] EXCEPT ![n + 1] = val] /\ w[1].index = n
      BY <1>5 DEF First
    <2> DEFINE a == [ls[1] EXCEPT ![n + 1] = val]
    <2>3. a \in Seq(Nat) /\ Len(a) = Len(ls[1]) /\ \A j \in 1..Len(ls[1]) : a[j] = IF j = n + 1 THEN val ELSE ls[1][j]
      BY <2>1, ExceptSeq
    <2> HIDE DEF a
    <2>4. SameBut(ls[1], a, n)
      BY <2>1, <2>3 DEF SameBut
    <2> QED BY <2>2, <2>4 DEF a
  <1>7. \A l \in 1..Len(ls) : SameBut(ls[l], w[l].layer, w[l].index)
    <2> DEFINE S == {k \in Nat : k + 1 <= Len(ls) => SameBut(ls[k + 1], w[k + 1].layer, w[k + 1].index)}
    <2>1. 0 \in S
      BY <1>6
    <2>2. ASSUME NEW k \in Nat, k \in S PROVE k + 1 \in S
      <3>1. SUFFICES ASSUME k + 2 <= Len(ls)
                     PROVE  SameBut(ls[(k + 1) + 1], w[(k + 1) + 1].layer, w[(k + 1) + 1].index)
        OBVIOUS
      <3>2. k + 1 \in 1..Len(ls) - 1 /\ k + 1 \in 1..Len(ls) /\ (k + 1) + 1 \in 1..Len(ls)
        BY <1>1, <3>1
      <3>3. SameBut(ls[k + 1], w[k + 1].layer, w[k + 1].index)
        BY <2>2, <3>2
      <3>4. Halves(ls[k + 1], ls[(k + 1) + 1]) /\ ls[k + 1] \in Seq(Nat) /\ ls[(k + 1) + 1] \in Seq(Nat)
        BY <1>1, <3>2 DEF TreeOK
      <3>5. w[(k + 1) + 1] = Above(w[k + 1], (k + 1) + 1)
        BY <1>5, <3>2
      <3>6. w[k + 1].layer \in Seq(Nat)
        BY <3>3 DEF SameBut
      <3>7. SameBut(ls[(k + 1) + 1], Raised(w[k + 1].layer, w[k + 1].index, (k + 1) + 1), w[k + 1].index \div 2)
        BY <3>3, <3>4, <3>6, ChangedLayer DEF Raised
      <3> QED BY <3>5, <3>7 DEF Above
    <2> HIDE DEF S
    <2>3. \A k \in Nat : k \in S
      BY <2>1, <2>2, ByInduction
    <2>4. ASSUME NEW l \in 1..Len(ls) PROVE SameBut(ls[l], w[l].layer, w[l].index)
      <3>1. l - 1 \in Nat /\ (l - 1) + 1 = l
        BY <1>1
      <3>2. l - 1 \in S
        BY <2>3, <3>1
      <3> QED BY <1>1, <3>1, <3>2 DEF S
    <2> QED BY <2>4
  <1>8. ASSUME NEW l \in 1..Len(ls) - 1 PROVE Halves(w[l].layer, w[l + 1].layer)
    <2>1. l \in 1..Len(ls) /\ l + 1 \in 1..Len(ls)
      BY <1>1
    <2>2. SameBut(ls[l], w[l].layer, w[l].index)
      BY <1>7, <2>1
    <2>3. Halves(ls[l], ls[l + 1]) /\ ls[l] \in Seq(Nat) /\ ls[l + 1] \in Seq(Nat) /\ w[l].layer \in Seq(Nat)
      BY <1>1, <2>1, <2>2 DEF TreeOK, SameBut
    <2>4. w[l + 1] = Above(w[l], l + 1)
      BY <1>5
    <2>5. w[l + 1].layer = Raised(w[l].layer, w[l].index, l + 1)
      BY <2>4 DEF Above
    <2>6. Halves(w[l].layer, Raised(w[l].layer, w[l].index, l + 1))
      BY <2>2, <2>3, ChangedLayer DEF Raised
    <2> QED BY <2>5, <2>6
  <1>9. /\ ns \in [DOMAIN ls -> Seq(Nat)] /\ \A l \in DOMAIN ls : ns[l] = w[l].layer /\ x[l] = w[l].index
        /\ \A l \in 1..Len(ls) - 1 : l \in DOMAIN ls /\ l + 1 \in DOMAIN ls
        /\ 1 \in DOMAIN ls
    BY <1>1, <1>7 DEF SameBut
  <1> HIDE DEF ns, x
  <1>10. /\ \A l \in DOMAIN ls : SameBut(ls[l], ns[l], x[l])
         /\ \A l \in 1..Len(ls) - 1 : Halves(ns[l], ns[l + 1])
    BY <1>1, <1>7, <1>8, <1>9
  <1>11. TreeOK(ns) /\ Len(ns) = Len(ls)
    BY <1>9, <1>10, TreeChanges
  <1> QED BY <1>2, <1>6, <1>9, <1>11

\* val was added at the end of a, or the last number of a was raised to it, or nothing was done.
Grown(a, a2, x, val, done) ==
  IF done THEN a2 = a
  ELSE /\ x \in Nat /\ a2 \in Seq(Nat) /\ Len(a2) = x + 1 /\ a2[x + 1] = val
       /\ \A i \in 0..x - 1 : a2[i + 1] = a[i + 1]
       /\ Len(a) = x \/ (Len(a) = x + 1 /\ a[x + 1] <= val)

LEMMA PairBefore ==
  ASSUME NEW a \in Seq(Nat), NEW a2 \in Seq(Nat), NEW x \in Nat, Len(a) >= x, Len(a2) >= x,
         \A i \in 0..x - 1 : a2[i + 1] = a[i + 1], NEW i \in Nat, 2 * i + 1 < x
  PROVE  MaxOfPair(a2, i) = MaxOfPair(a, i)
  <1>1. Len(a) \in Nat /\ Len(a2) \in Nat /\ 2 * i \in Nat
    OBVIOUS
  <1>2. 2 * i \in 0..x - 1 /\ 2 * i + 1 \in 0..x - 1 /\ (2 * i + 1) + 1 = 2 * i + 2
    BY <1>1
  <1>3. a2[2 * i + 1] = a[2 * i + 1] /\ a2[2 * i + 2] = a[2 * i + 2]
    BY <1>2
  <1>4. Len(a) > 2 * i + 1 /\ Len(a2) > 2 * i + 1
    BY <1>1
  <1> QED BY <1>3, <1>4 DEF MaxOfPair

\* The number of the parent, by what is known of the sizes of two layers.
LEMMA ParentIs ==
  ASSUME NEW x \in Nat, NEW y \in Nat, x = 2 * y \/ x = 2 * y + 1, NEW la \in Nat, NEW lb \in Nat,
         2 * lb = la \/ 2 * lb = la + 1, la = x \/ la = x + 1
  PROVE  /\ lb <= y => x = 2 * y /\ la = x /\ lb = y
         /\ lb > y => lb = y + 1 /\ (x = 2 * y => la = x + 1)
  <1>1. CASE x = 2 * y
    BY <1>1
  <1>2. CASE x = 2 * y + 1
    BY <1>2
  <1> QED BY <1>1, <1>2

LEMMA AddToLayerIs ==
  ASSUME NEW a \in Seq(Nat), NEW b \in Seq(Nat), Halves(a, b), NEW val \in Nat,
         NEW a2, NEW x, Grown(a, a2, x, val, FALSE)
  PROVE  LET b2 == AddToLayer(b, x \div 2, val)
         IN  Halves(a2, b2) /\ Grown(b, b2, x \div 2, val, b2 = b)
  <1> DEFINE y == x \div 2
             b2 == AddToLayer(b, y, val)
  <1>1. /\ x \in Nat /\ a2 \in Seq(Nat) /\ Len(a2) = x + 1 /\ a2[x + 1] = val
        /\ \A i \in 0..x - 1 : a2[i + 1] = a[i + 1]
        /\ Len(a) = x \/ (Len(a) = x + 1 /\ a[x + 1] <= val)
    BY DEF Grown
  <1>2. y \in Nat /\ (x = 2 * y \/ x = 2 * y + 1)
    BY <1>1, HalfIs
  <1>3. Len(a) \in Nat /\ Len(b) \in Nat /\ (2 * Len(b) = Len(a) \/ 2 * Len(b) = Len(a) + 1)
    BY DEF Halves
  <1> HIDE DEF y, b2
  <1>4. /\ Len(b) <= y => x = 2 * y /\ Len(a) = x /\ Len(b) = y
        /\ Len(b) > y => Len(b) = y + 1 /\ (x = 2 * y => Len(a) = x + 1)
    <2>1. Len(a) = x \/ Len(a) = x + 1
      BY <1>1
    <2> DEFINE la == Len(a)
               lb == Len(b)
    <2>2. la \in Nat /\ lb \in Nat /\ (2 * lb = la \/ 2 * lb = la + 1) /\ (la = x \/ la = x + 1) /\ x \in Nat
      BY <1>1, <1>3, <2>1
    <2> HIDE DEF la, lb
    <2>3. /\ lb <= y => x = 2 * y /\ la = x /\ lb = y
          /\ lb > y => lb = y + 1 /\ (x = 2 * y => la = x + 1)
      BY <1>2, <2>2, ParentIs
    <2> QED BY <2>3 DEF la, lb
  <1>5. ASSUME NEW i \in 0..y - 1, i < Len(b) PROVE b[i + 1] = MaxOfPair(a2, i)
    <2>1. i \in Nat /\ i < y
      BY <1>2
    <2>2. i \in 0..Len(b) - 1
      BY <1>3, <1>5, <2>1
    <2>3. b[i + 1] = MaxOfPair(a, i)
      BY <2>2 DEF Halves
    <2>4. 2 * i + 1 < x
      BY <1>1, <1>2, <2>1
    <2>5. Len(a) >= x /\ Len(a2) >= x
      BY <1>1, <1>3
    <2> QED BY <1>1, <2>1, <2>3, <2>4, <2>5, PairBefore
  <1>6. CASE Len(b) <= y
    <2>1. /\ b2 = Append(b, val) /\ b2 \in Seq(Nat) /\ Len(b2) = y + 1 /\ b2[y + 1] = val
          /\ \A i \in 0..y - 1 : b2[i + 1] = b[i + 1]
      BY <1>2, <1>3, <1>4, <1>6 DEF b2, AddToLayer
    <2>2. b2 # b
      BY <1>4, <1>6, <2>1, <1>2
    <2>3. Grown(b, b2, y, val, b2 = b)
      BY <1>2, <1>4, <1>6, <2>1, <2>2 DEF Grown
    <2>4. 2 * Len(b2) = Len(a2) + 1
      BY <1>1, <1>2, <1>4, <1>6, <2>1
    <2>5. MaxOfPair(a2, y) = val
      <3>1. ~(Len(a2) > 2 * y + 1) /\ 2 * y + 1 = x + 1
        BY <1>1, <1>2, <1>4, <1>6
      <3> QED BY <1>1, <3>1 DEF MaxOfPair
    <2>6. ASSUME NEW i \in 0..Len(b2) - 1 PROVE b2[i + 1] = MaxOfPair(a2, i)
      <3>1. i = y \/ (i \in 0..y - 1 /\ i < Len(b))
        BY <1>2, <1>3, <1>4, <1>6, <2>1
      <3> QED BY <1>5, <2>1, <2>5, <3>1
    <2> QED BY <2>3, <2>4, <2>6 DEF Halves, b2, y
  <1>7. CASE Len(b) > y
    <2>1. Len(b) = y + 1 /\ y \in 0..Len(b) - 1 /\ y + 1 \in 1..Len(b) /\ b[y + 1] \in Nat
      BY <1>2, <1>3, <1>4, <1>7
    <2>2. b[y + 1] = MaxOfPair(a, y)
      BY <2>1 DEF Halves
    <2>3. MaxOfPair(a2, y) = IF b[y + 1] < val THEN val ELSE b[y + 1]
      <3>1. CASE x = 2 * y
        <4>1. ~(Len(a2) > 2 * y + 1) /\ 2 * y + 1 = x + 1 /\ Len(a) = x + 1 /\ ~(Len(a) > 2 * y + 1)
          BY <1>1, <1>2, <1>4, <1>7, <3>1
        <4>2. MaxOfPair(a2, y) = val
          BY <1>1, <4>1 DEF MaxOfPair
        <4>3. b[y + 1] = a[x + 1] /\ a[x + 1] <= val
          BY <1>1, <2>2, <4>1 DEF MaxOfPair
        <4> QED BY <2>1, <4>2, <4>3
      <3>2. CASE x = 2 * y + 1
        <4>1. /\ Len(a2) > 2 * y + 1 /\ 2 * y + 2 = x + 1 /\ 2 * y \in 0..x - 1 /\ 2 * y + 1 \in 1..Len(a)
              /\ Len(a) > 2 * y + 1 <=> Len(a) = x + 1
          BY <1>1, <1>2, <1>3, <3>2, SMTT(30)
        <4>2. a2[2 * y + 1] = a[2 * y + 1] /\ a[2 * y + 1] \in Nat
          BY <1>1, <4>1, SMTT(30)
        <4>3. MaxOfPair(a2, y) = IF a[2 * y + 1] >= val THEN a[2 * y + 1] ELSE val
          BY <1>1, <4>1, <4>2 DEF MaxOfPair, Greater
        <4>4. CASE Len(a) = x
          <5>1. b[y + 1] = a[2 * y + 1]
            BY <1>1, <2>2, <4>1, <4>4 DEF MaxOfPair
          <5> QED BY <4>2, <4>3, <5>1
        <4>5. CASE Len(a) = x + 1
          <5>1. a[x + 1] <= val /\ a[x + 1] \in Nat
            BY <1>1, <1>3, <4>5
          <5>2. b[y + 1] = IF a[2 * y + 1] >= a[x + 1] THEN a[2 * y + 1] ELSE a[x + 1]
            BY <2>2, <4>1, <4>5 DEF MaxOfPair, Greater
          <5> QED BY <4>2, <4>3, <5>1, <5>2
        <4> QED BY <1>1, <4>4, <4>5
      <3> QED BY <1>2, <3>1, <3>2
    <2>4. 2 * Len(b) = Len(a2) \/ 2 * Len(b) = Len(a2) + 1
      BY <1>1, <1>2, <2>1
    <2>5. CASE b[y + 1] < val
      <3>1. b2 = [b EXCEPT ![y + 1] = val]
        BY <1>7, <1>2, <1>3, <2>5 DEF b2, AddToLayer
      <3>2. /\ b2 \in Seq(Nat) /\ Len(b2) = y + 1
            /\ \A j \in 1..Len(b) : b2[j] = IF j = y + 1 THEN val ELSE b[j]
        BY <2>1, <3>1, ExceptSeq
      <3>3. b2[y + 1] = val /\ \A i \in 0..y - 1 : b2[i + 1] = b[i + 1]
        BY <1>2, <2>1, <3>2
      <3>4. b2 # b
        BY <2>1, <2>5, <3>3
      <3>5. b[y + 1] <= val
        BY <2>1, <2>5
      <3>6. Grown(b, b2, y, val, b2 = b)
        BY <1>2, <2>1, <3>2, <3>3, <3>4, <3>5 DEF Grown
      <3>7. ASSUME NEW i \in 0..Len(b2) - 1 PROVE b2[i + 1] = MaxOfPair(a2, i)
        <4>1. i = y \/ (i \in 0..y - 1 /\ i < Len(b))
          BY <1>2, <2>1, <3>2
        <4> QED BY <1>5, <2>3, <2>5, <3>3, <4>1
      <3>8. 2 * Len(b2) = Len(a2) \/ 2 * Len(b2) = Len(a2) + 1
        BY <2>1, <2>4, <3>2
      <3> QED BY <3>6, <3>7, <3>8 DEF Halves, b2, y
    <2>6. CASE ~(b[y + 1] < val)
      <3>1. b2 = b
        BY <1>7, <1>2, <1>3, <2>6 DEF b2, AddToLayer
      <3>2. Grown(b, b2, y, val, b2 = b)
        BY <3>1 DEF Grown
      <3>3. ASSUME NEW i \in 0..Len(b) - 1 PROVE b[i + 1] = MaxOfPair(a2, i)
        <4>1. i = y \/ (i \in 0..y - 1 /\ i < Len(b))
          BY <1>2, <2>1
        <4> QED BY <1>5, <2>3, <2>6, <4>1
      <3> QED BY <2>4, <3>1, <3>2, <3>3 DEF Halves, b2, y
    <2> QED BY <2>5, <2>6
  <1> QED BY <1>2, <1>3, <1>6, <1>7

LEMMA AddValIs ==
  ASSUME NEW ls, TreeOK(ls), NEW val \in Nat
  PROVE  TreeOK(AddVal(ls, val)) /\ AddVal(ls, val)[1] = Append(ls[1], val)
  <1> DEFINE First == [index |-> Len(ls[1]), layer |-> Append(ls[1], val), done |-> ls[1] = <<>>]
             Layer(u, l) == IF u.done THEN ls[l] ELSE AddToLayer(ls[l], u.index \div 2, val)
             Above(u, l) == [index |-> u.index \div 2, layer |-> Layer(u, l), done |-> Layer(u, l) = ls[l]]
             Body(u, l) == IF l = 1 THEN First ELSE Above(u[l - 1], l)
             Walks(u) == u = [l \in DOMAIN ls |-> Body(u, l)]
             w == CHOOSE u : Walks(u)
             ns == [l \in DOMAIN ls |-> w[l].layer]
             top == w[Len(ls)]
             IsGrown(u, l) == Grown(ls[l], u.layer, u.index, val, u.done) /\ u.done \in BOOLEAN
  <1>1. Len(ls) \in Nat /\ Len(ls) >= 1 /\ DOMAIN ls = 1..Len(ls) /\ \A l \in 1..Len(ls) : ls[l] \in Seq(Nat)
    BY DEF TreeOK
  <1>2. AddVal(ls, val) = IF ~top.done /\ top.index = 1 THEN Append(ns, <<MaxOfPair(top.layer, 0)>>) ELSE ns
    BY DEF AddVal
  <1> HIDE DEF First, Above, Layer
  <1>3. \E u : Walks(u)
    <2> DEFINE S == {k \in Nat : \E u : \A l \in 1..k : u[l] = Body(u, l)}
    <2>1. 0 \in S
      OBVIOUS
    <2>2. ASSUME NEW k \in Nat, k \in S PROVE k + 1 \in S
      <3>1. PICK u : \A l \in 1..k : u[l] = Body(u, l)
        BY <2>2
      <3> DEFINE v == [l \in 1..k + 1 |-> IF l = k + 1 THEN Body(u, l) ELSE u[l]]
      <3>2. \A l \in 1..k + 1 : l # 1 => l - 1 \in 1..k + 1 /\ l - 1 # k + 1
        OBVIOUS
      <3>3. \A l \in 1..k + 1 : v[l] = Body(u, l)
        BY <3>1
      <3>4. \A l \in 1..k + 1 : Body(v, l) = Body(u, l)
        BY <3>2
      <3>5. \A l \in 1..k + 1 : v[l] = Body(v, l)
        BY <3>3, <3>4
      <3> HIDE DEF v, Body
      <3> QED BY <3>5
    <2>3. Len(ls) \in S
      <3> HIDE DEF S
      <3> QED BY <1>1, <2>1, <2>2, ByInduction
    <2>4. PICK u : \A l \in 1..Len(ls) : u[l] = Body(u, l)
      BY <2>3
    <2> DEFINE v == [l \in 1..Len(ls) |-> u[l]]
    <2>5. \A l \in 1..Len(ls) : l # 1 => l - 1 \in 1..Len(ls)
      BY <1>1
    <2>6. \A l \in 1..Len(ls) : Body(v, l) = Body(u, l)
      BY <2>5
    <2>7. v = [l \in 1..Len(ls) |-> Body(v, l)]
      <3> HIDE DEF Body
      <3> QED BY <2>4, <2>6
    <2> HIDE DEF v, Body
    <2> QED BY <1>1, <2>7
  <1>4. Walks(w)
    <2> HIDE DEF Walks
    <2> QED BY <1>3
  <1> HIDE DEF w
  <1>5. w[1] = First /\ \A l \in 1..Len(ls) - 1 : w[l + 1] = Above(w[l], l + 1)
    <2>1. \A l \in 1..Len(ls) : w[l] = Body(w, l)
      <3> HIDE DEF Body
      <3> QED BY <1>1, <1>4
    <2>2. \A l \in 1..Len(ls) - 1 : l + 1 \in 1..Len(ls) /\ l + 1 # 1 /\ (l + 1) - 1 = l
      BY <1>1
    <2>3. 1 \in 1..Len(ls)
      BY <1>1
    <2> QED BY <2>1, <2>2, <2>3
  <1> HIDE DEF Body, Walks
  <1>6. w[1].layer = Append(ls[1], val) /\ w[1].index = Len(ls[1]) /\ w[1].done = (ls[1] = <<>>)
    BY <1>5 DEF First
  <1>7. /\ ns[1] = Append(ls[1], val) /\ \A l \in 1..Len(ls) : ns[l] = w[l].layer
        /\ ns = [l \in 1..Len(ls) |-> ns[l]]
    BY <1>1, <1>6
  <1> HIDE DEF ns
  <1>8. Append(ls[1], val) \in Seq(Nat) /\ Len(Append(ls[1], val)) = Len(ls[1]) + 1 /\ Len(ls[1]) \in Nat
    BY <1>1
  <1>9. CASE ls[1] = <<>>
    <2>1. Len(ls[1]) = 0
      BY <1>9
    <2>2. Len(ls) = 1
      BY <1>1, <2>1 DEF TreeOK
    <2>3. top.done
      BY <1>6, <1>9, <2>2
    <2>4. AddVal(ls, val) = ns
      BY <1>2, <2>3
    <2>5. ns \in [1..1 -> Seq(Nat)] /\ Len(ns[1]) = 1
      <3>1. 1..1 = {1}
        OBVIOUS
      <3>2. Len(ns[1]) = 1 /\ ns[1] \in Seq(Nat)
        BY <1>7, <1>8, <2>1
      <3> QED BY <1>7, <2>2, <3>1, <3>2
    <2>6. ns \in Seq(Seq(Nat)) /\ Len(ns) = 1
      BY <2>5, FunIsSeq
    <2>7. TreeOK(ns)
      <3>0. Len(ns) = 1 /\ Len(ns[1]) = 1
        BY <2>5, <2>6
      <3>1. Len(ns) >= 1 /\ Len(ns[Len(ns)]) <= 1
        BY <3>0
      <3>2. 1..Len(ns) - 1 = {}
        BY <2>6
      <3> QED BY <2>6, <3>1, <3>2 DEF TreeOK
    <2> QED BY <1>7, <2>4, <2>7
  <1>10. CASE ls[1] # <<>>
    <2>1. IsGrown(w[1], 1)
      <3> DEFINE a == ls[1]
                 a2 == Append(a, val)
      <3>1. /\ a2 \in Seq(Nat) /\ Len(a2) = Len(a) + 1 /\ a2[Len(a) + 1] = val
            /\ \A i \in 1..Len(a) : a2[i] = a[i]
        BY <1>1
      <3>2. Grown(a, a2, Len(a), val, FALSE)
        <4> HIDE DEF a, a2
        <4>1. Len(a) \in Nat
          BY <1>1 DEF a
        <4>2. \A i \in 0..Len(a) - 1 : i + 1 \in 1..Len(a)
          BY <4>1
        <4> QED BY <3>1, <4>1, <4>2 DEF Grown
      <3> QED BY <1>6, <1>10, <3>2
    <2>2. ASSUME NEW l \in 1..Len(ls) - 1, IsGrown(w[l], l)
          PROVE  IsGrown(w[l + 1], l + 1) /\ Halves(w[l].layer, w[l + 1].layer)
      <3>1. Halves(ls[l], ls[l + 1]) /\ ls[l] \in Seq(Nat) /\ ls[l + 1] \in Seq(Nat)
        BY <1>1 DEF TreeOK
      <3>2. w[l + 1] = Above(w[l], l + 1)
        BY <1>5
      <3>3. /\ w[l + 1].layer = Layer(w[l], l + 1) /\ w[l + 1].index = w[l].index \div 2
            /\ w[l + 1].done = (Layer(w[l], l + 1) = ls[l + 1])
        BY <3>2 DEF Above
      <3>4. CASE w[l].done
        <4>1. Layer(w[l], l + 1) = ls[l + 1]
          BY <3>4 DEF Layer
        <4>2. w[l].layer = ls[l]
          BY <2>2, <3>4 DEF Grown
        <4> QED BY <3>1, <3>3, <4>1, <4>2 DEF Grown
      <3>5. CASE ~w[l].done
        <4>1. Layer(w[l], l + 1) = AddToLayer(ls[l + 1], w[l].index \div 2, val)
          BY <3>5 DEF Layer
        <4>2. Grown(ls[l], w[l].layer, w[l].index, val, FALSE)
          BY <2>2, <3>5
        <4> DEFINE b2 == AddToLayer(ls[l + 1], w[l].index \div 2, val)
        <4>3. Halves(w[l].layer, b2) /\ Grown(ls[l + 1], b2, w[l].index \div 2, val, b2 = ls[l + 1])
          BY <3>1, <4>2, AddToLayerIs
        <4> HIDE DEF b2
        <4> QED BY <3>3, <4>1, <4>3 DEF b2
      <3> QED BY <3>4, <3>5
    <2> HIDE DEF IsGrown
    <2>3. \A l \in 1..Len(ls) : IsGrown(w[l], l)
      <3> DEFINE S == {k \in Nat : k + 1 <= Len(ls) => IsGrown(w[k + 1], k + 1)}
      <3>1. 0 \in S
        BY <2>1
      <3>2. ASSUME NEW k \in Nat, k \in S PROVE k + 1 \in S
        <4>1. SUFFICES ASSUME (k + 1) + 1 <= Len(ls) PROVE IsGrown(w[(k + 1) + 1], (k + 1) + 1)
          OBVIOUS
        <4>2. k + 1 \in 1..Len(ls) - 1
          BY <1>1, <4>1
        <4>3. IsGrown(w[k + 1], k + 1)
          BY <1>1, <3>2, <4>2
        <4> QED BY <2>2, <4>2, <4>3
      <3> HIDE DEF S
      <3>3. \A k \in Nat : k \in S
        BY <3>1, <3>2, ByInduction
      <3>4. ASSUME NEW l \in 1..Len(ls) PROVE IsGrown(w[l], l)
        <4>1. l - 1 \in Nat /\ (l - 1) + 1 = l
          BY <1>1
        <4>2. l - 1 \in S
          BY <3>3, <4>1
        <4> QED BY <1>1, <4>1, <4>2 DEF S
      <3> QED BY <3>4
    <2>4. \A l \in 1..Len(ls) - 1 : Halves(ns[l], ns[l + 1])
      <3>1. ASSUME NEW l \in 1..Len(ls) - 1 PROVE Halves(ns[l], ns[l + 1])
        <4>1. l \in 1..Len(ls) /\ l + 1 \in 1..Len(ls)
          BY <1>1
        <4> QED BY <1>7, <2>2, <2>3, <4>1
      <3> QED BY <3>1
    <2>5. \A l \in 1..Len(ls) : ns[l] \in Seq(Nat) /\ Len(ns[l]) >= Len(ls[l]) /\ Len(ns[l]) \in Nat
      <3>1. ASSUME NEW l \in 1..Len(ls)
            PROVE  ns[l] \in Seq(Nat) /\ Len(ns[l]) >= Len(ls[l]) /\ Len(ns[l]) \in Nat
        <4>1. Grown(ls[l], ns[l], w[l].index, val, w[l].done) /\ ls[l] \in Seq(Nat) /\ Len(ls[l]) \in Nat
          BY <1>1, <1>7, <2>3 DEF IsGrown
        <4>2. CASE w[l].done
          BY <4>1, <4>2 DEF Grown
        <4>3. CASE ~w[l].done
          BY <4>1, <4>3 DEF Grown
        <4> QED BY <4>2, <4>3
      <3> QED BY <3>1
    <2>6. ns \in Seq(Seq(Nat)) /\ Len(ns) = Len(ls)
      <3>1. ns \in [1..Len(ls) -> Seq(Nat)]
        BY <2>5, <1>7
      <3> QED BY <1>1, <3>1, FunIsSeq
    <2>7. \A l \in 1..Len(ls) - 1 : Len(ns[l]) > 1
      <3>1. ASSUME NEW l \in 1..Len(ls) - 1 PROVE Len(ns[l]) > 1
        <4>1. l \in 1..Len(ls) /\ Len(ls[l]) > 1 /\ Len(ls[l]) \in Nat
          BY <1>1 DEF TreeOK
        <4>2. Len(ns[l]) >= Len(ls[l]) /\ Len(ns[l]) \in Nat
          BY <2>5, <4>1
        <4> QED BY <4>1, <4>2
      <3> QED BY <3>1
    <2>8. /\ Grown(ls[Len(ls)], top.layer, top.index, val, top.done) /\ ns[Len(ls)] = top.layer
          /\ Len(ls[Len(ls)]) \in Nat /\ Len(ls[Len(ls)]) <= 1 /\ top.layer \in Seq(Nat)
      BY <1>1, <1>7, <2>3, <2>5 DEF IsGrown, TreeOK
    <2> HIDE DEF top
    <2>9. CASE ~top.done /\ top.index = 1
      <3>1. Len(top.layer) = 2 /\ Len(top.layer) > 1
        BY <2>8, <2>9 DEF Grown
      <3> DEFINE m == MaxOfPair(top.layer, 0)
                 t == Append(ns, <<m>>)
      <3>2. m \in Nat
        <4>1. 2 * 0 < Len(top.layer) /\ 0 \in Nat
          BY <3>1
        <4> QED BY <2>8, <4>1, MaxOfPairIs
      <3> HIDE DEF m
      <3>3. <<m>> \in Seq(Nat) /\ Len(<<m>>) = 1 /\ <<m>>[1] = m
        BY <3>2
      <3>4. /\ t \in Seq(Seq(Nat)) /\ Len(t) = Len(ls) + 1 /\ t[Len(ls) + 1] = <<m>>
            /\ \A l \in 1..Len(ls) : t[l] = ns[l]
        BY <1>1, <2>6, <3>3
      <3> HIDE DEF t
      <3>5. Halves(t[Len(ls)], t[Len(ls) + 1])
        <4>1. t[Len(ls)] = top.layer
          BY <1>1, <2>8, <3>4
        <4>2. \A i \in 0..Len(<<m>>) - 1 : i = 0
          BY <3>3
        <4>3. Halves(top.layer, <<m>>)
          BY <3>1, <3>3, <4>2 DEF Halves, m
        <4> QED BY <3>4, <4>1, <4>3
      <3>6. \A l \in 1..Len(ls) : Len(t[l]) > 1 /\ Halves(t[l], t[l + 1])
        <4>1. Len(ls) \in Nat /\ Len(ls) \in 1..Len(ls)
          BY <1>1
        <4>2. Len(t[Len(ls)]) > 1
          <5>1. t[Len(ls)] = top.layer
            BY <2>8, <3>4, <4>1
          <5> QED BY <3>1, <5>1
        <4>3. \A l \in 1..Len(ls) : l = Len(ls) \/ (l \in 1..Len(ls) - 1 /\ l + 1 \in 1..Len(ls))
          BY <4>1
        <4>4. \A l \in 1..Len(ls) - 1 : l \in 1..Len(ls)
          BY <4>1
        <4>5. \A l \in 1..Len(ls) - 1 : l + 1 \in 1..Len(ls)
          BY <4>1
        <4>6. \A l \in 1..Len(ls) - 1 : t[l] = ns[l] /\ t[l + 1] = ns[l + 1]
          BY <3>4, <4>4, <4>5
        <4>7. \A l \in 1..Len(ls) - 1 : Len(t[l]) > 1 /\ Halves(t[l], t[l + 1])
          BY <2>4, <2>7, <4>6
        <4> QED BY <3>5, <4>2, <4>3, <4>7
      <3>7. TreeOK(t)
        <4>1. Len(t) - 1 = Len(ls) /\ Len(t) >= 1 /\ t[Len(t)] = <<m>>
          BY <1>1, <3>4
        <4> QED BY <3>3, <3>4, <3>6, <4>1 DEF TreeOK
      <3>8. t[1] = Append(ls[1], val)
        <4>1. 1 \in 1..Len(ls)
          BY <1>1
        <4> QED BY <1>7, <3>4, <4>1
      <3>9. AddVal(ls, val) = t
        BY <1>2, <2>9 DEF t, m
      <3> QED BY <3>7, <3>8, <3>9
    <2>10. CASE ~(~top.done /\ top.index = 1)
      <3>1. Len(ns[Len(ls)]) <= 1
        <4>1. CASE top.done
          BY <2>8, <4>1 DEF Grown
        <4>2. CASE ~top.done
          <5>1. /\ top.index \in Nat /\ Len(top.layer) = top.index + 1 /\ top.index # 1
                /\ Len(ls[Len(ls)]) = top.index \/ Len(ls[Len(ls)]) = top.index + 1
            BY <2>8, <2>10, <4>2 DEF Grown
          <5> QED BY <2>8, <5>1
        <4> QED BY <4>1, <4>2
      <3>2. TreeOK(ns)
        BY <1>1, <2>4, <2>6, <2>7, <3>1 DEF TreeOK
      <3> QED BY <1>2, <1>7, <2>10, <3>2
    <2> QED BY <2>9, <2>10
  <1> QED BY <1>9, <1>10

LEMMA OneIs ==
  ASSUME NEW n \in Nat, n <= 1, n # 0 \/ n >= 1
  PROVE  n = 1
  OBVIOUS

\* Layers counted from the top.
LEMMA FromTop ==
  ASSUME NEW n \in Nat, NEW k \in Nat, k + 1 <= n - 1
  PROVE  /\ n - (k + 1) \in 1..n - 1 /\ n - (k + 1) \in 1..n /\ (n - (k + 1)) + 1 = n - k
         /\ k <= n - 1 /\ n - k \in 1..n
  OBVIOUS

LEMMA MaxIs ==
  ASSUME NEW ls, TreeOK(ls), ls[1] # <<>>
  PROVE  /\ GetIndexOfMax(ls) \in 0..Len(ls[1]) - 1
         /\ Len(ls[Len(ls)]) = 1
         /\ \A i \in 0..Len(ls[1]) - 1 : ls[1][i + 1] <= ls[1][GetIndexOfMax(ls) + 1]
  <1> DEFINE len == Len(ls)
             target == ls[len][1]
             Child(i, h) == IF ls[len - h][2 * i + 1] = target THEN 2 * i ELSE 2 * i + 1
             Body(u, h) == IF h = 0 THEN 0 ELSE Child(u[h - 1], h)
             Walks(u) == u = [h \in 0..len - 1 |-> Body(u, h)]
             w == CHOOSE u : Walks(u)
             Found(h) == w[h] \in 0..Len(ls[len - h]) - 1 /\ ls[len - h][w[h] + 1] = target
  <1>1. len \in Nat /\ len >= 1 /\ DOMAIN ls = 1..len /\ \A l \in 1..len : ls[l] \in Seq(Nat)
    BY DEF TreeOK
  <1>2. GetIndexOfMax(ls) = w[len - 1]
    BY DEF GetIndexOfMax
  <1> HIDE DEF Child
  <1>3. \E u : Walks(u)
    <2> DEFINE S == {k \in Nat : \E u : \A h \in 0..k : u[h] = Body(u, h)}
    <2>1. 0 \in S
      <3> DEFINE u == [h \in 0..0 |-> 0]
      <3>1. \A h \in 0..0 : h = 0 /\ u[h] = 0
        OBVIOUS
      <3>2. \A h \in 0..0 : u[h] = Body(u, h)
        BY <3>1
      <3> HIDE DEF u, Body
      <3> QED BY <3>2
    <2>2. ASSUME NEW k \in Nat, k \in S PROVE k + 1 \in S
      <3>1. PICK u : \A h \in 0..k : u[h] = Body(u, h)
        BY <2>2
      <3> DEFINE v == [h \in 0..k + 1 |-> IF h = k + 1 THEN Body(u, h) ELSE u[h]]
      <3>2. \A h \in 0..k + 1 : h # 0 => h - 1 \in 0..k + 1 /\ h - 1 # k + 1
        OBVIOUS
      <3>3. \A h \in 0..k + 1 : v[h] = Body(u, h)
        BY <3>1
      <3>4. \A h \in 0..k + 1 : Body(v, h) = Body(u, h)
        BY <3>2
      <3>5. \A h \in 0..k + 1 : v[h] = Body(v, h)
        BY <3>3, <3>4
      <3> HIDE DEF v, Body
      <3> QED BY <3>5
    <2>3. len - 1 \in S
      <3> HIDE DEF S
      <3>1. len - 1 \in Nat
        BY <1>1
      <3> QED BY <3>1, <2>1, <2>2, ByInduction
    <2>4. PICK u : \A h \in 0..len - 1 : u[h] = Body(u, h)
      BY <2>3
    <2> DEFINE v == [h \in 0..len - 1 |-> u[h]]
    <2>5. \A h \in 0..len - 1 : h # 0 => h - 1 \in 0..len - 1
      BY <1>1
    <2>6. \A h \in 0..len - 1 : Body(v, h) = Body(u, h)
      BY <2>5
    <2>7. v = [h \in 0..len - 1 |-> Body(v, h)]
      <3> HIDE DEF Body
      <3> QED BY <2>4, <2>6
    <2> HIDE DEF v, Body
    <2> QED BY <1>1, <2>7
  <1>4. Walks(w)
    <2> HIDE DEF Walks
    <2> QED BY <1>3
  <1> HIDE DEF w
  <1>5. w[0] = 0 /\ \A h \in Nat : h + 1 <= len - 1 => w[h + 1] = Child(w[h], h + 1)
    <2>1. \A h \in 0..len - 1 : w[h] = Body(w, h)
      <3> HIDE DEF Body
      <3> QED BY <1>4
    <2>2. \A h \in Nat : h + 1 <= len - 1 => h + 1 \in 0..len - 1 /\ h + 1 # 0 /\ (h + 1) - 1 = h
      BY <1>1
    <2>3. 0 \in 0..len - 1
      BY <1>1
    <2> QED BY <2>1, <2>2, <2>3
  <1> HIDE DEF Body, Walks
  <1>6. Len(ls[len]) = 1 /\ target \in Nat
    <2>1. Len(ls[1]) \in Nat /\ Len(ls[1]) >= 1 /\ ls[1] \in Seq(Nat)
      <3>1. 1 \in 1..len
        BY <1>1
      <3>2. ls[1] \in Seq(Nat)
        BY <1>1, <3>1
      <3> QED BY <3>2
    <2>2. Len(ls[len]) \in Nat /\ Len(ls[len]) <= 1 /\ ls[len] \in Seq(Nat)
      BY <1>1 DEF TreeOK
    <2>3. ASSUME len = 1 PROVE Len(ls[len]) = 1
      <3>1. Len(ls[len]) >= 1
        BY <2>1, <2>3
      <3> QED BY <2>2, <3>1, OneIs
    <2>4. ASSUME len # 1 PROVE Len(ls[len]) = 1
      <3>1. len - 1 \in 1..len - 1 /\ len - 1 \in 1..len /\ (len - 1) + 1 = len
        BY <1>1, <2>4
      <3>2. Len(ls[len - 1]) > 1 /\ Halves(ls[len - 1], ls[(len - 1) + 1])
        BY <3>1 DEF TreeOK
      <3>3. Len(ls[len - 1]) \in Nat
        BY <1>1, <3>1
      <3>4. Len(ls[len]) # 0
        <4>1. 2 * Len(ls[len]) = Len(ls[len - 1]) \/ 2 * Len(ls[len]) = Len(ls[len - 1]) + 1
          BY <3>1, <3>2 DEF Halves
        <4> HIDE DEF len
        <4> QED BY <2>2, <3>2, <3>3, <4>1
      <3> QED BY <2>2, <3>4, OneIs
    <2>5. Len(ls[len]) = 1
      BY <2>3, <2>4
    <2>6. 1 \in 1..Len(ls[len])
      BY <2>5
    <2> QED BY <2>2, <2>5, <2>6, ElementOfSeq
  <1> HIDE DEF target
  <1>7. \A k \in Nat : k <= len - 1 => Found(k)
    <2> DEFINE S == {k \in Nat : k <= len - 1 => Found(k)}
    <2>1. 0 \in S
      <3>1. len - 0 = len /\ w[0] + 1 = 1
        BY <1>1, <1>5
      <3> QED BY <1>5, <1>6, <3>1 DEF target
    <2>2. ASSUME NEW k \in Nat, k \in S PROVE k + 1 \in S
      <3>1. SUFFICES ASSUME k + 1 <= len - 1 PROVE Found(k + 1)
        OBVIOUS
      <3> DEFINE i == w[k]
                 a == ls[len - (k + 1)]
                 b == ls[len - k]
                 j == w[k + 1]
      <3>2. len - (k + 1) \in 1..len - 1 /\ len - (k + 1) \in 1..len /\ (len - (k + 1)) + 1 = len - k /\ k <= len - 1 /\ len - k \in 1..len
        <4>1. len \in Nat
          BY <1>1
        <4> HIDE DEF len
        <4> QED BY <3>1, <4>1, FromTop
      <3>3. Halves(a, b) /\ a \in Seq(Nat) /\ b \in Seq(Nat)
        BY <1>1, <3>2 DEF TreeOK
      <3>4. i \in 0..Len(b) - 1 /\ b[i + 1] = target
        BY <2>2, <3>2
      <3>5. j = IF a[2 * i + 1] = target THEN 2 * i ELSE 2 * i + 1
        BY <1>5, <3>1 DEF Child
      <3> HIDE DEF i, a, b, j
      <3>6. i \in Nat /\ i < Len(b) /\ Len(a) \in Nat /\ Len(b) \in Nat
        BY <3>3, <3>4
      <3>7. 2 * i < Len(a)
        BY <3>3, <3>6 DEF Halves
      <3>8. MaxOfPair(a, i) = target
        BY <3>3, <3>4 DEF Halves
      <3>9. a[2 * i + 1] = target \/ (2 * i + 1 < Len(a) /\ a[2 * i + 2] = target)
        BY <3>3, <3>6, <3>7, <3>8, MaxOfPairIs
      <3>10. j \in 0..Len(a) - 1 /\ a[j + 1] = target
        <4>1. 2 * i \in 0..Len(a) - 1
          BY <3>6, <3>7
        <4>2. CASE a[2 * i + 1] = target
          BY <3>5, <4>1, <4>2
        <4>3. CASE a[2 * i + 1] # target
          <5>1. j = 2 * i + 1 /\ j + 1 = 2 * i + 2 /\ 2 * i + 1 < Len(a)
            BY <3>5, <3>6, <3>9, <4>3
          <5>2. j \in 0..Len(a) - 1
            BY <3>6, <5>1
          <5> QED BY <3>9, <4>3, <5>1, <5>2
        <4> QED BY <4>2, <4>3
      <3> QED BY <3>10 DEF a, j
    <2> HIDE DEF S, Found
    <2>3. \A k \in Nat : k \in S
      BY <2>1, <2>2, ByInduction
    <2> QED BY <2>3 DEF S
  <1>8. \A k \in Nat : k <= len - 1 => \A i \in 0..Len(ls[len - k]) - 1 : ls[len - k][i + 1] <= target
    <2> DEFINE S == {k \in Nat : k <= len - 1 => \A i \in 0..Len(ls[len - k]) - 1 : ls[len - k][i + 1] <= target}
    <2>1. 0 \in S
      <3>1. len - 0 = len
        BY <1>1
      <3>2. \A i \in 0..Len(ls[len]) - 1 : i = 0
        BY <1>6
      <3> QED BY <1>6, <3>1, <3>2 DEF target
    <2>2. ASSUME NEW k \in Nat, k \in S PROVE k + 1 \in S
      <3>1. SUFFICES ASSUME k + 1 <= len - 1, NEW i \in 0..Len(ls[len - (k + 1)]) - 1
                     PROVE  ls[len - (k + 1)][i + 1] <= target
        OBVIOUS
      <3> DEFINE a == ls[len - (k + 1)]
                 b == ls[len - k]
                 j == i \div 2
      <3>2. len - (k + 1) \in 1..len - 1 /\ len - (k + 1) \in 1..len /\ (len - (k + 1)) + 1 = len - k /\ k <= len - 1 /\ len - k \in 1..len
        <4>1. len \in Nat
          BY <1>1
        <4> HIDE DEF len
        <4> QED BY <3>1, <4>1, FromTop
      <3>3. Halves(a, b) /\ a \in Seq(Nat) /\ b \in Seq(Nat)
        BY <1>1, <3>2 DEF TreeOK
      <3>4. \A n \in 0..Len(b) - 1 : b[n + 1] <= target
        BY <2>2, <3>2
      <3>5. i \in Nat /\ i < Len(a) /\ Len(a) \in Nat /\ Len(b) \in Nat
        BY <3>3
      <3>6. j \in Nat /\ (i = 2 * j \/ i = 2 * j + 1)
        BY <3>5, HalfIs
      <3> HIDE DEF a, b, j
      <3>7. 2 * j <= i
        BY <3>5, <3>6
      <3>8. 2 * j < Len(a)
        BY <3>5, <3>6, <3>7
      <3>9. j \in 0..Len(b) - 1
        BY <3>3, <3>5, <3>6, <3>8 DEF Halves
      <3>10. b[j + 1] = MaxOfPair(a, j) /\ b[j + 1] <= target
        BY <3>3, <3>4, <3>9 DEF Halves
      <3>11. /\ MaxOfPair(a, j) \in Nat /\ a[2 * j + 1] <= MaxOfPair(a, j)
             /\ 2 * j + 1 < Len(a) => a[2 * j + 2] <= MaxOfPair(a, j)
        BY <3>3, <3>6, <3>8, MaxOfPairIs
      <3>12. a[i + 1] <= MaxOfPair(a, j)
        <4>1. CASE i = 2 * j
          BY <3>11, <4>1
        <4>2. CASE i = 2 * j + 1
          <5>1. i + 1 = 2 * j + 2 /\ 2 * j + 1 < Len(a)
            BY <3>5, <3>6, <4>2
          <5> QED BY <3>11, <5>1
        <4> QED BY <3>6, <4>1, <4>2
      <3>13. a[i + 1] \in Nat
        BY <3>3, <3>5
      <3> QED BY <1>6, <3>10, <3>11, <3>12, <3>13 DEF a
    <2> HIDE DEF S
    <2>3. \A k \in Nat : k \in S
      BY <2>1, <2>2, ByInduction
    <2> QED BY <2>3 DEF S
  <1>9. len - 1 \in Nat /\ len - (len - 1) = 1 /\ len - 1 <= len - 1
    BY <1>1
  <1>10. Found(len - 1)
    <2> HIDE DEF Found
    <2> QED BY <1>7, <1>9
  <1>11. \A i \in 0..Len(ls[1]) - 1 : ls[1][i + 1] <= target
    BY <1>8, <1>9
  <1> QED BY <1>2, <1>6, <1>9, <1>10, <1>11
(***************************************************************************)
(* One page.                                                               *)
(***************************************************************************)
ItemRec == [off : Offset, len : 0..PageSize]
PageRec == [dirty : BOOLEAN, items : Seq(ItemRec), end : 0..PageSize, bytes : [Offset -> Data \cup {Free}]]
Live(pg) == {n \in 1..Len(pg.items) : pg.items[n].len # 0}
Covers(it, o) == it.off <= o /\ o < it.off + it.len
ApartFrom(it, jt) == it.off + it.len <= jt.off \/ jt.off + jt.len <= it.off

\* A sound page, byte by byte.
Packs(pg) ==
  /\ \A n \in Live(pg) : pg.end <= pg.items[n].off /\ pg.items[n].off + pg.items[n].len <= PageSize
  /\ \A o \in pg.end..PageSize - 1 : \E n \in Live(pg) : Covers(pg.items[n], o)
  /\ \A m, n \in Live(pg) : m # n => ApartFrom(pg.items[m], pg.items[n])
PageOK(pg) ==
  /\ pg \in PageRec
  /\ Len(pg.items) <= pg.end
  /\ Packs(pg)
  /\ Live(pg) = {} => pg.items = <<>>

\* What is known of the parts of a page, and of an item.
LEMMA PageParts ==
  ASSUME NEW pg \in PageRec
  PROVE  /\ pg.dirty \in BOOLEAN /\ pg.items \in Seq(ItemRec) /\ Len(pg.items) \in Nat
         /\ pg.end \in Nat /\ pg.end <= PageSize /\ PageSize \in Nat
         /\ pg.bytes \in [Offset -> Data \cup {Free}]
         /\ \A n \in 1..Len(pg.items) : /\ pg.items[n] \in ItemRec
                                        /\ pg.items[n].off \in Nat /\ pg.items[n].off < PageSize
                                        /\ pg.items[n].len \in Nat /\ pg.items[n].len <= PageSize
  <1>1. pg.dirty \in BOOLEAN /\ pg.items \in Seq(ItemRec) /\ pg.end \in 0..PageSize /\ PageSize \in Nat
        /\ pg.bytes \in [Offset -> Data \cup {Free}]
    BY PgBlobAssumption DEF PageRec
  <1>2. ASSUME NEW n \in 1..Len(pg.items)
        PROVE  /\ pg.items[n] \in ItemRec
               /\ pg.items[n].off \in Nat /\ pg.items[n].off < PageSize
               /\ pg.items[n].len \in Nat /\ pg.items[n].len <= PageSize
    <2>1. pg.items[n] \in ItemRec
      BY <1>1, ElementOfSeq
    <2> QED BY <1>1, <2>1, SMTT(30) DEF ItemRec, Offset
  <1>3. Len(pg.items) \in Nat /\ pg.end \in Nat /\ pg.end <= PageSize
    BY <1>1
  <1> QED BY <1>1, <1>2, <1>3

LEMMA SizeIs ==
  ASSUME NEW d \in Data
  PROVE  Size[d] \in Nat /\ Size[d] >= 1 /\ Size[d] <= PageSize - 1 /\ PageSize \in Nat
  BY PgBlobAssumption

LEMMA SpanIs ==
  ASSUME NEW from \in Nat, NEW len \in Nat, NEW o \in from..from + len - 1
  PROVE  o \in Nat /\ from <= o /\ o < from + len
  OBVIOUS

LEMMA OKIsSound ==
  ASSUME NEW pg, PageOK(pg)
  PROVE  PageSound(pg)
  <1> DEFINE live == {i \in DOMAIN pg.items : pg.items[i].len # 0}
             span(i) == pg.items[i].off..pg.items[i].off + pg.items[i].len - 1
  <1>1. pg \in PageRec /\ live = Live(pg)
    BY PageParts DEF PageOK, Live
  <1>2. /\ pg.end \in Nat /\ PageSize \in Nat /\ Len(pg.items) \in Nat
        /\ \A n \in live : pg.items[n].off \in Nat /\ pg.items[n].len \in Nat
    BY <1>1, PageParts DEF Live
  <1> HIDE DEF live
  <1>3. UNION {span(i) : i \in live} = pg.end..PageSize - 1
    <2>1. ASSUME NEW i \in live, NEW o \in span(i) PROVE o \in pg.end..PageSize - 1
      <3>1. pg.end <= pg.items[i].off /\ pg.items[i].off + pg.items[i].len <= PageSize
        BY <1>1 DEF PageOK, Packs
      <3> QED BY <1>2, <3>1, SMTT(30)
    <2>2. ASSUME NEW o \in pg.end..PageSize - 1 PROVE \E i \in live : o \in span(i)
      <3>1. PICK i \in live : Covers(pg.items[i], o)
        BY <1>1 DEF PageOK, Packs
      <3>2. o \in Nat
        BY <1>2
      <3>3. o \in span(i)
        BY <1>2, <3>1, <3>2 DEF Covers
      <3> QED BY <3>3
    <2> HIDE DEF span
    <2> QED BY <2>1, <2>2
  <1>4. ASSUME NEW i \in live, NEW j \in live, i # j PROVE span(i) \cap span(j) = {}
    <2>1. ApartFrom(pg.items[i], pg.items[j])
      BY <1>1, <1>4 DEF PageOK, Packs
    <2>2. SUFFICES ASSUME NEW o \in span(i), o \in span(j) PROVE FALSE
      OBVIOUS
    <2>3. /\ pg.items[i].off \in Nat /\ pg.items[i].len \in Nat /\ pg.items[j].off \in Nat /\ pg.items[j].len \in Nat
          /\ o \in Nat
      BY <1>2
    <2>4. /\ pg.items[i].off <= o /\ o < pg.items[i].off + pg.items[i].len
          /\ pg.items[j].off <= o /\ o < pg.items[j].off + pg.items[j].len
      BY <2>2, <2>3, SpanIs
    <2> HIDE DEF span
    <2> QED BY <2>1, <2>3, <2>4 DEF ApartFrom
  <1>5. GetFreeMem(pg) >= 0 /\ (live = {} => pg.items = <<>>)
    BY <1>1, <1>2 DEF PageOK, GetFreeMem
  <1> HIDE DEF span
  <1> QED BY <1>3, <1>4, <1>5 DEF PageSound, live, span

LEMMA InitPageOK ==
  /\ PageOK(InitPage)
  /\ \A i \in Nat : GetItem(InitPage, i) = NoData
  <1>1. PageSize \in Nat /\ <<>> \in Seq(ItemRec) /\ Len(<<>>) = 0
    BY PgBlobAssumption
  <1>2. InitPage \in PageRec
    BY <1>1 DEF InitPage, PageRec, Offset
  <1>3. InitPage.items = <<>> /\ InitPage.end = PageSize
    BY DEF InitPage
  <1>4. Live(InitPage) = {}
    BY <1>1, <1>3 DEF Live
  <1>5. PageSize..PageSize - 1 = {}
    BY <1>1
  <1>6. Packs(InitPage)
    BY <1>3, <1>4, <1>5 DEF Packs
  <1>7. ASSUME NEW i \in Nat PROVE GetItem(InitPage, i) = NoData
    <2>1. ~(i < Len(InitPage.items))
      BY <1>1, <1>3
    <2> QED BY <2>1 DEF GetItem
  <1> QED BY <1>1, <1>2, <1>3, <1>6, <1>7 DEF PageOK

(***************************************************************************)
(* What an item holds.                                                     *)
(***************************************************************************)
Holds(pg, i, d) ==
  /\ i < Len(pg.items) /\ Size[d] = pg.items[i + 1].len
  /\ \A k \in 0..Size[d] - 1 : pg.bytes[pg.items[i + 1].off + k] = d

LEMMA GetItemIs ==
  ASSUME NEW pg \in PageRec, NEW i \in Nat
  PROVE  /\ \A d \in Data : Holds(pg, i, d) <=> GetItem(pg, i) = d
         /\ GetItem(pg, i) \in Data \cup {NoData}
  <1> DEFINE whole(d) == /\ i < Len(pg.items) /\ Size[d] = Item(pg, i).len
                         /\ \A o \in Item(pg, i).off..Item(pg, i).off + Size[d] - 1 : pg.bytes[o] = d
  <1>1. ASSUME NEW d \in Data PROVE Holds(pg, i, d) <=> whole(d)
    <2>1. SUFFICES ASSUME i < Len(pg.items) PROVE Holds(pg, i, d) <=> whole(d)
      BY DEF Holds
    <2> DEFINE off == pg.items[i + 1].off
    <2>2. i + 1 \in 1..Len(pg.items) /\ Size[d] \in Nat
      BY <2>1, PageParts, SizeIs
    <2>3. off \in Nat
      BY <2>2, PageParts
    <2> HIDE DEF off
    <2>4. \A k \in 0..Size[d] - 1 : off + k \in off..off + Size[d] - 1
      BY <2>2, <2>3
    <2>5. \A o \in off..off + Size[d] - 1 : o - off \in 0..Size[d] - 1 /\ off + (o - off) = o
      BY <2>2, <2>3
    <2>6. (\A k \in 0..Size[d] - 1 : pg.bytes[off + k] = d) <=> (\A o \in off..off + Size[d] - 1 : pg.bytes[o] = d)
      BY <2>4, <2>5
    <2> QED BY <2>6 DEF off, Holds, Item
  <1>2. ASSUME NEW d \in Data, NEW e \in Data, Holds(pg, i, d), Holds(pg, i, e) PROVE d = e
    <2>1. 0 \in 0..Size[d] - 1 /\ 0 \in 0..Size[e] - 1
      BY SizeIs
    <2> QED BY <1>2, <2>1 DEF Holds
  <1>3. GetItem(pg, i) = IF \E d \in Data : whole(d) THEN CHOOSE d \in Data : whole(d) ELSE NoData
    BY DEF GetItem
  <1> HIDE DEF whole
  <1>4. CASE \E d \in Data : whole(d)
    <2>1. GetItem(pg, i) \in Data /\ whole(GetItem(pg, i))
      BY <1>3, <1>4
    <2> QED BY <1>1, <1>2, <2>1
  <1>5. CASE ~\E d \in Data : whole(d)
    BY <1>1, <1>3, <1>5, PgBlobAssumption
  <1> QED BY <1>4, <1>5

LEMMA SameItemIs ==
  ASSUME NEW pg \in PageRec, NEW qg \in PageRec, NEW i \in Nat, NEW j \in Nat,
         \A d \in Data : Holds(pg, i, d) <=> Holds(qg, j, d)
  PROVE  GetItem(pg, i) = GetItem(qg, j)
  <1>1. CASE GetItem(pg, i) \in Data
    BY <1>1, GetItemIs
  <1>2. CASE GetItem(pg, i) \notin Data
    <2>1. GetItem(pg, i) = NoData
      BY <1>2, GetItemIs
    <2>2. ~(GetItem(qg, j) \in Data)
      BY <1>2, GetItemIs
    <2> QED BY <2>1, <2>2, GetItemIs
  <1> QED BY <1>1, <1>2

\* An item holds the same when its bytes are the same, wherever they are.
LEMMA MovedItemIs ==
  ASSUME NEW pg \in PageRec, NEW qg \in PageRec, NEW i \in Nat,
         i < Len(pg.items), i < Len(qg.items), qg.items[i + 1].len = pg.items[i + 1].len,
         \A k \in Nat : k < pg.items[i + 1].len =>
            qg.bytes[qg.items[i + 1].off + k] = pg.bytes[pg.items[i + 1].off + k]
  PROVE  GetItem(pg, i) = GetItem(qg, i)
  <1>1. ASSUME NEW d \in Data PROVE Holds(pg, i, d) <=> Holds(qg, i, d)
    <2>1. Size[d] \in Nat
      BY SizeIs
    <2>2. \A k \in 0..Size[d] - 1 : k \in Nat /\ k < Size[d]
      BY <2>1
    <2> QED BY <2>2 DEF Holds
  <1> QED BY <1>1, SameItemIs

\* A deleted item, and one that is not in the table, hold nothing.
LEMMA NoItemIs ==
  ASSUME NEW pg \in PageRec, NEW i \in Nat, ~(i < Len(pg.items)) \/ pg.items[i + 1].len = 0
  PROVE  GetItem(pg, i) = NoData
  <1>1. \A d \in Data : ~Holds(pg, i, d)
    BY SizeIs DEF Holds
  <1> QED BY <1>1, GetItemIs
(***************************************************************************)
(* Storing an item, in a new entry of the table or in one that was deleted.*)
(***************************************************************************)
Stored(pg, i, d) == IF i < Len(pg.items) THEN ChangeItem(pg, i, d) ELSE AddItem(pg, d)

LEMMA StoredParts ==
  ASSUME NEW pg, PageOK(pg), NEW d \in Data, CanStoreBf(pg, d), NEW i \in 0..Len(pg.items)
  PROVE  LET qg == Stored(pg, i, d)
         IN  /\ qg \in PageRec /\ qg.dirty = TRUE
             /\ qg.end = pg.end - Size[d] /\ Len(qg.items) <= qg.end
             /\ i < Len(qg.items) /\ Len(pg.items) <= Len(qg.items)
             /\ \A n \in 1..Len(qg.items) : n <= Len(pg.items) \/ n = i + 1
             /\ qg.items[i + 1] = Record(pg, d)
             /\ \A n \in 1..Len(pg.items) : n # i + 1 => qg.items[n] = pg.items[n]
             /\ \A o \in Offset : qg.bytes[o] = IF qg.end <= o /\ o < pg.end THEN d ELSE pg.bytes[o]
  <1> DEFINE qg == Stored(pg, i, d)
             len == Len(pg.items)
             to == pg.end - Size[d]
  <1>1. /\ pg \in PageRec /\ pg.items \in Seq(ItemRec) /\ len \in Nat /\ pg.end \in Nat /\ pg.end <= PageSize
        /\ PageSize \in Nat /\ pg.bytes \in [Offset -> Data \cup {Free}] /\ len <= pg.end
    BY PageParts DEF PageOK
  <1>2. Size[d] \in Nat /\ Size[d] >= 1 /\ Size[d] <= PageSize - 1
    BY SizeIs
  <1>3. to \in Nat /\ to >= len + 1 /\ to < PageSize
    <2>1. pg.end - len >= Size[d] + 1
      BY DEF CanStoreBf, GetFreeMem
    <2> QED BY <1>1, <1>2, <2>1, SMTT(30)
  <1>4. Record(pg, d) \in ItemRec
    BY <1>1, <1>2, <1>3 DEF Record, ItemRec, Offset
  <1>5. PutBytes(pg, d) \in [Offset -> Data \cup {Free}]
        /\ \A o \in Offset : PutBytes(pg, d)[o] = IF to <= o /\ o < pg.end THEN d ELSE pg.bytes[o]
    <2>1. \A o \in Offset : o \in to..pg.end - 1 <=> to <= o /\ o < pg.end
      BY <1>1, <1>3 DEF Offset
    <2> QED BY <1>1, <2>1 DEF PutBytes
  <1>6. CASE i < len
    <2>1. i + 1 \in 1..len
      BY <1>1, <1>6
    <2> DEFINE new == [pg.items EXCEPT ![i + 1] = Record(pg, d)]
    <2>2. new \in Seq(ItemRec) /\ Len(new) = len /\ \A n \in 1..len : new[n] = IF n = i + 1 THEN Record(pg, d) ELSE pg.items[n]
      BY <1>1, <1>4, <2>1, ExceptSeq
    <2>3. qg = [dirty |-> TRUE, items |-> new, end |-> to, bytes |-> PutBytes(pg, d)]
      BY <1>6 DEF Stored, ChangeItem
    <2> HIDE DEF new, qg, len
    <2>4. /\ qg.dirty = TRUE /\ qg.items = new /\ qg.end = to /\ qg.bytes = PutBytes(pg, d)
          /\ qg \in PageRec
      BY <1>1, <1>3, <1>5, <2>2, <2>3 DEF PageRec
    <2> QED BY <1>1, <1>3, <1>5, <1>6, <2>1, <2>2, <2>4, SMTT(30) DEF qg, len
  <1>7. CASE ~(i < len)
    <2>1. i = len
      BY <1>1, <1>7
    <2> DEFINE new == Append(pg.items, Record(pg, d))
    <2>2. /\ new \in Seq(ItemRec) /\ Len(new) = len + 1 /\ new[len + 1] = Record(pg, d)
          /\ \A n \in 1..len : new[n] = pg.items[n]
      BY <1>1, <1>4, AppendProperties
    <2>3. qg = [dirty |-> TRUE, items |-> new, end |-> to, bytes |-> PutBytes(pg, d)]
      BY <1>7 DEF Stored, AddItem
    <2> HIDE DEF new, qg, len
    <2>4. /\ qg.dirty = TRUE /\ qg.items = new /\ qg.end = to /\ qg.bytes = PutBytes(pg, d)
          /\ qg \in PageRec
      BY <1>1, <1>3, <1>5, <2>2, <2>3 DEF PageRec
    <2> QED BY <1>1, <1>3, <1>5, <2>1, <2>2, <2>4 DEF qg, len
  <1> QED BY <1>6, <1>7

LEMMA StoredIs ==
  ASSUME NEW pg, PageOK(pg), NEW d \in Data, CanStoreBf(pg, d),
         NEW i \in 0..Len(pg.items), i + 1 \notin Live(pg)
  PROVE  LET qg == Stored(pg, i, d)
         IN  /\ PageOK(qg) /\ qg.dirty = TRUE
             /\ GetItem(qg, i) = d
             /\ \A j \in Nat : j # i => GetItem(qg, j) = GetItem(pg, j)
  <1> DEFINE qg == Stored(pg, i, d)
             len == Len(pg.items)
             size == Size[d]
  <1>1. /\ qg \in PageRec /\ qg.dirty = TRUE
        /\ qg.end = pg.end - size /\ Len(qg.items) <= qg.end
        /\ i < Len(qg.items) /\ len <= Len(qg.items)
        /\ \A n \in 1..Len(qg.items) : n <= len \/ n = i + 1
        /\ qg.items[i + 1] = Record(pg, d)
        /\ \A n \in 1..len : n # i + 1 => qg.items[n] = pg.items[n]
        /\ \A o \in Offset : qg.bytes[o] = IF qg.end <= o /\ o < pg.end THEN d ELSE pg.bytes[o]
    BY StoredParts
  <1> HIDE DEF qg, len, size
  <1>2. /\ pg \in PageRec /\ len \in Nat /\ pg.end \in Nat /\ pg.end <= PageSize /\ PageSize \in Nat
        /\ Len(qg.items) \in Nat /\ qg.end \in Nat /\ i \in Nat
        /\ size \in Nat /\ size >= 1 /\ i + 1 \in 1..Len(qg.items)
    BY <1>1, PageParts, SizeIs DEF PageOK, len, size
  <1>3. /\ Record(pg, d).off = qg.end /\ Record(pg, d).len = size
        /\ qg.end + size = pg.end
    BY <1>1, <1>2 DEF Record, size
  <1>4. Live(qg) = Live(pg) \cup {i + 1} /\ i + 1 \notin Live(pg)
    <2>1. i + 1 \notin Live(pg)
      OBVIOUS
    <2>2. i + 1 \in Live(qg)
      BY <1>1, <1>2, <1>3 DEF Live
    <2>3. ASSUME NEW n \in 1..Len(qg.items), n # i + 1 PROVE n \in 1..len /\ qg.items[n] = pg.items[n]
      BY <1>1, <1>2, <2>3
    <2>4. ASSUME NEW n \in 1..len PROVE n \in 1..Len(qg.items)
      BY <1>1, <1>2
    <2>5. \A n : n \in Live(qg) => n \in Live(pg) \cup {i + 1}
      BY <2>3 DEF Live, len
    <2>6. ASSUME NEW n \in Live(pg) PROVE n \in Live(qg)
      <3>1. n \in 1..len /\ n # i + 1 /\ pg.items[n].len # 0
        BY <2>1 DEF Live, len
      <3>2. qg.items[n] = pg.items[n] /\ n \in 1..Len(qg.items)
        BY <2>3, <2>4, <3>1
      <3> QED BY <3>1, <3>2 DEF Live
    <2> QED BY <2>1, <2>2, <2>5, <2>6
  <1>5. ASSUME NEW n \in Live(pg)
        PROVE  /\ qg.items[n] = pg.items[n] /\ n # i + 1 /\ n \in 1..len
               /\ pg.items[n].off \in Nat /\ pg.items[n].len \in Nat
               /\ pg.end <= pg.items[n].off /\ pg.items[n].off + pg.items[n].len <= PageSize
    <2>1. n \in 1..len /\ n # i + 1
      BY <1>4 DEF Live, len
    <2>2. pg.items[n].off \in Nat /\ pg.items[n].len \in Nat
      BY <1>2, <2>1, PageParts DEF len
    <2> QED BY <1>1, <2>1, <2>2 DEF PageOK, Packs
  <1>6. Packs(qg)
    <2>1. ASSUME NEW n \in Live(qg)
          PROVE  qg.end <= qg.items[n].off /\ qg.items[n].off + qg.items[n].len <= PageSize
      <3>1. CASE n = i + 1
        BY <1>1, <1>2, <1>3, <3>1, SMTT(30)
      <3>2. CASE n \in Live(pg)
        <4>1. /\ qg.items[n] = pg.items[n] /\ pg.items[n].off \in Nat
              /\ pg.end <= pg.items[n].off /\ pg.items[n].off + pg.items[n].len <= PageSize
          BY <1>5, <3>2
        <4>2. qg.end <= pg.end
          BY <1>2, <1>3
        <4> QED BY <1>2, <4>1, <4>2
      <3> QED BY <1>4, <3>1, <3>2
    <2>2. ASSUME NEW o \in qg.end..PageSize - 1 PROVE \E n \in Live(qg) : Covers(qg.items[n], o)
      <3>1. o \in Nat /\ qg.end <= o /\ o <= PageSize - 1
        BY <1>2
      <3>2. CASE o < pg.end
        <4>1. Covers(qg.items[i + 1], o)
          BY <1>1, <1>2, <1>3, <3>1, <3>2 DEF Covers
        <4> QED BY <1>4, <4>1
      <3>3. CASE ~(o < pg.end)
        <4>1. o \in pg.end..PageSize - 1
          BY <1>2, <3>1, <3>3
        <4>2. PICK n \in Live(pg) : Covers(pg.items[n], o)
          BY <4>1 DEF PageOK, Packs
        <4> QED BY <1>4, <1>5, <4>2
      <3> QED BY <3>2, <3>3
    <2>3. ASSUME NEW m \in Live(qg), NEW n \in Live(qg), m # n PROVE ApartFrom(qg.items[m], qg.items[n])
      <3>1. CASE m = i + 1
        <4>1. n \in Live(pg)
          BY <1>4, <2>3, <3>1
        <4>2. qg.items[n] = pg.items[n] /\ pg.items[n].off \in Nat /\ pg.end <= pg.items[n].off
          BY <1>5, <4>1
        <4>3. qg.items[m].off = qg.end /\ qg.items[m].len = size
          BY <1>1, <1>3, <3>1
        <4> QED BY <1>2, <1>3, <4>2, <4>3 DEF ApartFrom
      <3>2. CASE n = i + 1
        <4>1. m \in Live(pg)
          BY <1>4, <2>3, <3>2
        <4>2. qg.items[m] = pg.items[m] /\ pg.items[m].off \in Nat /\ pg.end <= pg.items[m].off
          BY <1>5, <4>1
        <4>3. qg.items[n].off = qg.end /\ qg.items[n].len = size
          BY <1>1, <1>3, <3>2
        <4> QED BY <1>2, <1>3, <4>2, <4>3 DEF ApartFrom
      <3>3. CASE m \in Live(pg) /\ n \in Live(pg)
        BY <1>5, <2>3, <3>3 DEF PageOK, Packs
      <3> QED BY <1>4, <3>1, <3>2, <3>3
    <2> QED BY <2>1, <2>2, <2>3 DEF Packs
  <1>7. PageOK(qg)
    BY <1>1, <1>4, <1>6 DEF PageOK
  <1>8. GetItem(qg, i) = d
    <2>1. ASSUME NEW k \in 0..size - 1 PROVE qg.bytes[qg.end + k] = d
      <3>1. qg.end + k \in Offset /\ qg.end <= qg.end + k /\ qg.end + k < pg.end
        BY <1>2, <1>3 DEF Offset
      <3> QED BY <1>1, <3>1
    <2>2. Holds(qg, i, d)
      BY <1>1, <1>3, <2>1 DEF Holds, size
    <2> QED BY <1>1, <1>2, <2>2, GetItemIs
  <1>9. ASSUME NEW j \in Nat, j # i PROVE GetItem(qg, j) = GetItem(pg, j)
    <2>1. CASE ~(j + 1 \in Live(pg))
      <3>1. ~(j + 1 \in Live(qg))
        BY <1>2, <1>4, <1>9, <2>1
      <3>2. ~(j < Len(pg.items)) \/ pg.items[j + 1].len = 0
        BY <1>2, <2>1 DEF Live, len
      <3>3. ~(j < Len(qg.items)) \/ qg.items[j + 1].len = 0
        BY <1>2, <3>1 DEF Live
      <3>4. GetItem(pg, j) = NoData
        BY <1>2, <3>2, NoItemIs
      <3>5. GetItem(qg, j) = NoData
        BY <1>1, <3>3, NoItemIs
      <3> QED BY <3>4, <3>5
    <2>2. CASE j + 1 \in Live(pg)
      <3>1. qg.items[j + 1] = pg.items[j + 1] /\ j < len /\ j < Len(qg.items)
        BY <1>1, <1>2, <1>5, <2>2
      <3> DEFINE off == pg.items[j + 1].off
                 n == pg.items[j + 1].len
      <3>2. off \in Nat /\ n \in Nat /\ pg.end <= off /\ off + n <= PageSize
        BY <1>5, <2>2
      <3> HIDE DEF off, n
      <3>3. ASSUME NEW k \in Nat, k < n PROVE qg.bytes[off + k] = pg.bytes[off + k]
        <4>1. off + k \in Offset /\ ~(off + k < pg.end)
          BY <1>2, <3>2, <3>3 DEF Offset
        <4> QED BY <1>1, <4>1
      <3>4. /\ qg.items[j + 1].off = off /\ qg.items[j + 1].len = n
            /\ pg.items[j + 1].off = off /\ pg.items[j + 1].len = n
            /\ j < Len(pg.items)
        BY <3>1 DEF off, n, len
      <3>5. GetItem(pg, j) = GetItem(qg, j)
        <4>1. \A k \in Nat : k < pg.items[j + 1].len =>
                 qg.bytes[qg.items[j + 1].off + k] = pg.bytes[pg.items[j + 1].off + k]
          BY <3>3, <3>4
        <4>2. j < Len(qg.items) /\ qg.items[j + 1].len = pg.items[j + 1].len
          BY <3>1, <3>4
        <4> QED BY <1>1, <1>2, <3>4, <4>1, <4>2, MovedItemIs
      <3> QED BY <3>5
    <2> QED BY <2>1, <2>2
  <1> QED BY <1>1, <1>7, <1>8, <1>9 DEF qg
(***************************************************************************)
(* Deleting an item: the bytes stored before it close the gap.             *)
(***************************************************************************)
\* What is known of an item of a sound page, next to the one that is deleted.
LEMMA NextToGap ==
  ASSUME NEW pg, PageOK(pg), NEW g \in Live(pg), NEW n \in Live(pg)
  PROVE  LET it == pg.items[n]
             gap == pg.items[g]
         IN  /\ it.off \in Nat /\ it.len \in Nat /\ it.len >= 1 /\ gap.off \in Nat /\ gap.len \in Nat /\ gap.len >= 1
             /\ pg.end <= it.off /\ it.off + it.len <= PageSize
             /\ pg.end <= gap.off /\ gap.off + gap.len <= PageSize
             /\ Below(it, gap) <=> it.off < gap.off
             /\ Below(it, gap) => n # g /\ it.off + it.len <= gap.off
             /\ n # g /\ ~Below(it, gap) => gap.off + gap.len <= it.off
  <1> DEFINE it == pg.items[n]
             gap == pg.items[g]
  <1>1. /\ pg \in PageRec /\ n \in 1..Len(pg.items) /\ g \in 1..Len(pg.items)
        /\ it.len # 0 /\ gap.len # 0
    BY DEF Live, PageOK
  <1>2. /\ it.off \in Nat /\ it.len \in Nat /\ gap.off \in Nat /\ gap.len \in Nat
    BY <1>1, PageParts
  <1>3. it.len >= 1 /\ gap.len >= 1
    BY <1>1, <1>2
  <1>4. /\ pg.end <= it.off /\ it.off + it.len <= PageSize
        /\ pg.end <= gap.off /\ gap.off + gap.len <= PageSize
    BY DEF PageOK, Packs
  <1>5. n # g => it.off + it.len <= gap.off \/ gap.off + gap.len <= it.off
    BY DEF PageOK, Packs, ApartFrom
  <1>6. Below(it, gap) <=> it.off < gap.off
    BY <1>1 DEF Below
  <1>7. n = g => ~(it.off < gap.off)
    BY <1>2
  <1> HIDE DEF it, gap
  <1>8. Below(it, gap) => n # g /\ it.off + it.len <= gap.off
    BY <1>2, <1>3, <1>5, <1>6, <1>7
  <1>9. n # g /\ ~Below(it, gap) => gap.off + gap.len <= it.off
    BY <1>2, <1>3, <1>5, <1>6
  <1> QED BY <1>2, <1>3, <1>4, <1>6, <1>8, <1>9 DEF it, gap

\* The lengths of the items below the gap add up to the bytes between it and the free space.
LEMMA LenBelowIs ==
  ASSUME NEW pg, PageOK(pg), NEW g \in Live(pg)
  PROVE  LenBelow(pg, pg.items[g]) = pg.items[g].off - pg.end
  <1> DEFINE gap == pg.items[g]
             len == Len(pg.items)
             Len0(it) == IF Below(it, gap) THEN it.len ELSE 0
             Body(f, n) == IF n = 0 THEN 0 ELSE f[n - 1] + Len0(pg.items[n])
             Sums(f) == f = [n \in 0..len |-> Body(f, n)]
             sum == CHOOSE f : Sums(f)
             Upto(n) == {o \in pg.end..gap.off - 1 : \E m \in 1..n : Below(pg.items[m], gap) /\ Covers(pg.items[m], o)}
  <1>1. /\ pg \in PageRec /\ len \in Nat /\ pg.end \in Nat /\ g \in 1..len
        /\ gap.off \in Nat /\ pg.end <= gap.off
    BY PageParts, NextToGap DEF PageOK, Live
  <1>2. LenBelow(pg, gap) = sum[len]
    BY DEF LenBelow
  <1> HIDE DEF Len0, gap
  <1>3. \E f : Sums(f)
    <2> DEFINE S == {k \in Nat : \E f : \A n \in 0..k : f[n] = Body(f, n)}
    <2>1. 0 \in S
      <3> DEFINE f == [n \in 0..0 |-> 0]
      <3>1. \A n \in 0..0 : n = 0 /\ f[n] = 0
        OBVIOUS
      <3>2. \A n \in 0..0 : f[n] = Body(f, n)
        BY <3>1
      <3> HIDE DEF f, Body
      <3> QED BY <3>2
    <2>2. ASSUME NEW k \in Nat, k \in S PROVE k + 1 \in S
      <3>1. PICK f : \A n \in 0..k : f[n] = Body(f, n)
        BY <2>2
      <3> DEFINE v == [n \in 0..k + 1 |-> IF n = k + 1 THEN Body(f, n) ELSE f[n]]
      <3>2. \A n \in 0..k + 1 : n # 0 => n - 1 \in 0..k + 1 /\ n - 1 # k + 1
        OBVIOUS
      <3>3. \A n \in 0..k + 1 : v[n] = Body(f, n)
        BY <3>1
      <3>4. \A n \in 0..k + 1 : Body(v, n) = Body(f, n)
        BY <3>2
      <3>5. \A n \in 0..k + 1 : v[n] = Body(v, n)
        BY <3>3, <3>4
      <3> HIDE DEF v, Body
      <3> QED BY <3>5
    <2>3. len \in S
      <3> HIDE DEF S
      <3> QED BY <1>1, <2>1, <2>2, ByInduction
    <2>4. PICK f : \A n \in 0..len : f[n] = Body(f, n)
      BY <2>3
    <2> DEFINE v == [n \in 0..len |-> f[n]]
    <2>5. \A n \in 0..len : n # 0 => n - 1 \in 0..len
      BY <1>1
    <2>6. \A n \in 0..len : Body(v, n) = Body(f, n)
      BY <2>5
    <2>7. v = [n \in 0..len |-> Body(v, n)]
      <3> HIDE DEF Body
      <3> QED BY <2>4, <2>6
    <2> HIDE DEF v, Body
    <2> QED BY <2>7
  <1>4. Sums(sum)
    <2> HIDE DEF Sums
    <2> QED BY <1>3
  <1> HIDE DEF sum
  <1>5. sum[0] = 0 /\ \A n \in Nat : n + 1 <= len => sum[n + 1] = sum[n] + Len0(pg.items[n + 1])
    <2>1. \A n \in 0..len : sum[n] = Body(sum, n)
      <3> HIDE DEF Body
      <3> QED BY <1>4
    <2>2. \A n \in Nat : n + 1 <= len => n + 1 \in 0..len /\ n + 1 # 0 /\ (n + 1) - 1 = n
      BY <1>1
    <2>3. 0 \in 0..len
      BY <1>1
    <2> QED BY <2>1, <2>2, <2>3
  <1> HIDE DEF Body, Sums
  <1>6. ASSUME NEW n \in 1..len, Below(pg.items[n], gap)
        PROVE  /\ pg.items[n].off \in Nat /\ pg.items[n].len \in Nat /\ n \in Live(pg)
               /\ pg.end <= pg.items[n].off /\ pg.items[n].off + pg.items[n].len <= gap.off
    <2>1. n \in Live(pg)
      BY <1>6 DEF Live, Below, len
    <2> QED BY <1>6, <2>1, NextToGap DEF gap
  <1>7. \A n \in Nat : IsFiniteSet(Upto(n))
    <2>1. pg.end \in Int /\ gap.off - 1 \in Int
      BY <1>1
    <2>2. IsFiniteSet(pg.end..gap.off - 1)
      BY <2>1, FS_Interval
    <2> QED BY <2>2, FS_Subset
  <1>8. \A n \in Nat : n <= len => sum[n] = Cardinality(Upto(n))
    <2> DEFINE S == {n \in Nat : n <= len => sum[n] = Cardinality(Upto(n))}
    <2>1. 0 \in S
      <3>1. Upto(0) = {}
        OBVIOUS
      <3> QED BY <1>5, <3>1, FS_EmptySet
    <2>2. ASSUME NEW n \in Nat, n \in S PROVE n + 1 \in S
      <3>1. SUFFICES ASSUME n + 1 <= len PROVE sum[n + 1] = Cardinality(Upto(n + 1))
        OBVIOUS
      <3> DEFINE it == pg.items[n + 1]
                 span == it.off..it.off + it.len - 1
      <3>2. sum[n] = Cardinality(Upto(n)) /\ n + 1 \in 1..len /\ n <= len
        BY <1>1, <2>2, <3>1
      <3>3. \A m \in 1..n + 1 : m \in 1..n \/ m = n + 1
        OBVIOUS
      <3>4. \A m \in 1..n : m \in 1..n + 1 /\ m # n + 1 /\ m \in 1..len
        BY <1>1, <3>1
      <3>5. CASE ~Below(it, gap)
        <4>1. Upto(n + 1) = Upto(n)
          BY <3>3, <3>4, <3>5
        <4>2. Cardinality(Upto(n)) \in Nat
          BY <1>7, FS_CardinalityType
        <4>3. sum[n + 1] = sum[n] + 0
          BY <1>5, <3>1, <3>5 DEF Len0
        <4> HIDE DEF Upto
        <4> QED BY <3>2, <4>1, <4>2, <4>3
      <3>6. CASE Below(it, gap)
        <4>1. /\ it.off \in Nat /\ it.len \in Nat /\ n + 1 \in Live(pg)
              /\ pg.end <= it.off /\ it.off + it.len <= gap.off
          BY <1>6, <3>2, <3>6
        <4>2. span \subseteq pg.end..gap.off - 1
          <5> HIDE DEF it
          <5> QED BY <1>1, <4>1
        <4>3. \A o \in pg.end..gap.off - 1 : o \in span <=> Covers(it, o)
          <5> HIDE DEF it
          <5> QED BY <1>1, <4>1 DEF Covers
        <4>4. Upto(n + 1) = Upto(n) \cup span
          <5>1. ASSUME NEW o \in Upto(n + 1) PROVE o \in Upto(n) \cup span
            <6>1. PICK m \in 1..n + 1 : Below(pg.items[m], gap) /\ Covers(pg.items[m], o)
              OBVIOUS
            <6> HIDE DEF span
            <6> QED BY <3>3, <4>3, <6>1
          <5>2. ASSUME NEW o \in Upto(n) PROVE o \in Upto(n + 1)
            BY <3>4
          <5>3. ASSUME NEW o \in span PROVE o \in Upto(n + 1)
            <6>1. o \in pg.end..gap.off - 1 /\ Covers(it, o)
              <7> HIDE DEF span
              <7> QED BY <4>2, <4>3
            <6>2. n + 1 \in 1..n + 1
              OBVIOUS
            <6> HIDE DEF span
            <6> QED BY <3>6, <6>1, <6>2
          <5> HIDE DEF span, Upto
          <5> QED BY <5>1, <5>2, <5>3
        <4>5. Upto(n) \cap span = {}
          <5>1. SUFFICES ASSUME NEW o \in Upto(n), o \in span PROVE FALSE
            OBVIOUS
          <5>2. PICK m \in 1..n : Below(pg.items[m], gap) /\ Covers(pg.items[m], o)
            OBVIOUS
          <5>3. Covers(it, o)
            <6> HIDE DEF span, it
            <6> QED BY <4>3, <5>1
          <5>4. /\ pg.items[m].off \in Nat /\ pg.items[m].len \in Nat /\ m \in Live(pg) /\ m # n + 1
            BY <1>6, <3>4, <5>2
          <5>5. ApartFrom(pg.items[m], it)
            BY <4>1, <5>4 DEF PageOK, Packs
          <5>6. o \in Nat
            BY <1>1
          <5> HIDE DEF it
          <5> QED BY <4>1, <5>2, <5>3, <5>4, <5>5, <5>6 DEF Covers, ApartFrom
        <4>6. IsFiniteSet(span) /\ Cardinality(span) = it.len
          <5>1. it.off \in Int /\ it.off + it.len - 1 \in Int
            BY <4>1
          <5>2. IsFiniteSet(span) /\ Cardinality(span) = IF it.off > it.off + it.len - 1 THEN 0 ELSE (it.off + it.len - 1) - it.off + 1
            BY <5>1, FS_Interval
          <5> HIDE DEF it, span
          <5> QED BY <4>1, <5>2
        <4>7. Cardinality(Upto(n + 1)) = Cardinality(Upto(n)) + it.len
          <5>1. IsFiniteSet(Upto(n)) /\ Cardinality(Upto(n)) \in Nat
            BY <1>7, FS_CardinalityType
          <5> HIDE DEF span, Upto, it
          <5>2. Cardinality(Upto(n + 1)) = Cardinality(Upto(n)) + Cardinality(span) - Cardinality({})
            BY <4>4, <4>5, <4>6, <5>1, FS_Union
          <5> QED BY <4>1, <4>6, <5>1, <5>2, FS_EmptySet
        <4>8. sum[n + 1] = sum[n] + it.len
          BY <1>5, <3>1, <3>6 DEF Len0
        <4> HIDE DEF Upto, it, span
        <4> QED BY <3>2, <4>7, <4>8
      <3> QED BY <3>5, <3>6
    <2> HIDE DEF S
    <2>3. \A n \in Nat : n \in S
      BY <2>1, <2>2, ByInduction
    <2> QED BY <2>3 DEF S
  <1>9. Upto(len) = pg.end..gap.off - 1
    <2>1. ASSUME NEW o \in pg.end..gap.off - 1
          PROVE  \E m \in 1..len : Below(pg.items[m], gap) /\ Covers(pg.items[m], o)
      <3>1. gap.off < PageSize /\ PageSize \in Nat
        BY <1>1, PageParts DEF gap, len
      <3>2. o \in Nat /\ o < gap.off /\ o \in pg.end..PageSize - 1
        BY <1>1, <3>1
      <3>3. PICK m \in Live(pg) : Covers(pg.items[m], o)
        BY <3>2 DEF PageOK, Packs
      <3>4. m \in 1..len /\ pg.items[m].off \in Nat /\ (Below(pg.items[m], gap) <=> pg.items[m].off < gap.off)
        BY NextToGap DEF Live, gap, len
      <3>5. pg.items[m].off <= o
        BY <3>3 DEF Covers
      <3>6. pg.items[m].off < gap.off
        BY <1>1, <3>2, <3>4, <3>5
      <3> QED BY <3>3, <3>4, <3>6
    <2> QED BY <2>1
  <1>10. Cardinality(pg.end..gap.off - 1) = gap.off - pg.end
    <2>1. Cardinality(pg.end..gap.off - 1) = IF pg.end > gap.off - 1 THEN 0 ELSE (gap.off - 1) - pg.end + 1
      <3>1. pg.end \in Int /\ gap.off - 1 \in Int
        BY <1>1
      <3> QED BY <3>1, FS_Interval
    <2> QED BY <1>1, <2>1
  <1> HIDE DEF Upto
  <1> QED BY <1>1, <1>2, <1>8, <1>9, <1>10 DEF gap
LEMMA ShiftedFits ==
  ASSUME NEW a \in Nat, NEW b \in Nat, NEW c \in Nat, NEW d \in Nat, NEW e \in Nat, a + b <= c, c + d <= e
  PROVE  (a + d) + b <= e
  OBVIOUS

LEMMA ShiftedCovers ==
  ASSUME NEW a \in Nat, NEW b \in Nat, NEW d \in Nat, NEW o \in Nat
  PROVE  a <= o - d /\ o - d < a + b => a + d <= o /\ o < (a + d) + b
  OBVIOUS

LEMMA StaysBelow ==
  ASSUME NEW a \in Nat, NEW b \in Nat, NEW c \in Nat, NEW o \in Nat
  PROVE  o < a + b /\ a + b <= c => o < c
  OBVIOUS

LEMMA BetweenIs ==
  ASSUME NEW from \in Nat, NEW top \in Nat, NEW o \in Nat
  PROVE  o \in from..top - 1 <=> o >= from /\ o < top
  OBVIOUS

\* The page with the gap closed and the item deleted, before it is looked at for items left.
Closed(pg, i) ==
  LET packed == Packed(pg, Item(pg, i))
  IN [packed EXCEPT !.items = [packed.items EXCEPT ![i + 1] = Deleted]]

LEMMA ClosedParts ==
  ASSUME NEW pg, PageOK(pg), NEW i \in Nat, i + 1 \in Live(pg)
  PROVE  LET qg == Closed(pg, i)
             gap == pg.items[i + 1]
         IN  /\ DeleteItem(pg, i) = IF Live(qg) = {} THEN InitPage ELSE qg
             /\ qg \in PageRec /\ qg.dirty = TRUE /\ qg.end = pg.end + gap.len /\ Len(qg.items) = Len(pg.items)
             /\ qg.items[i + 1].len = 0
             /\ \A n \in 1..Len(pg.items) : n # i + 1 =>
                  /\ qg.items[n].len = pg.items[n].len
                  /\ qg.items[n].off = IF Below(pg.items[n], gap) THEN pg.items[n].off + gap.len ELSE pg.items[n].off
             /\ \A o \in Offset : o >= qg.end =>
                  qg.bytes[o] = IF o < gap.off + gap.len THEN pg.bytes[o - gap.len] ELSE pg.bytes[o]
  <1> DEFINE gap == pg.items[i + 1]
             len == Len(pg.items)
             to == pg.end + gap.len
             Shifted(n) == [pg.items[n] EXCEPT !.off = @ + gap.len]
             moved == [n \in DOMAIN pg.items |-> IF Below(pg.items[n], gap) THEN Shifted(n) ELSE pg.items[n]]
             bytes == [o \in Offset |-> CASE o < to -> Free
                                          [] o \in to..to + LenBelow(pg, gap) - 1 -> pg.bytes[o - gap.len]
                                          [] OTHER -> pg.bytes[o]]
             items == [moved EXCEPT ![i + 1] = Deleted]
             qg == Closed(pg, i)
  <1>1. /\ pg \in PageRec /\ len \in Nat /\ pg.end \in Nat /\ PageSize \in Nat /\ i + 1 \in 1..len
        /\ DOMAIN pg.items = 1..len /\ pg.bytes \in [Offset -> Data \cup {Free}]
        /\ gap.off \in Nat /\ gap.len \in Nat /\ gap.len >= 1
        /\ pg.end <= gap.off /\ gap.off + gap.len <= PageSize
    BY PageParts, NextToGap, SMTT(30) DEF PageOK, Live
  <1>2. LenBelow(pg, gap) = gap.off - pg.end
    BY LenBelowIs
  <1>3. Item(pg, i) = gap
    BY DEF Item
  <1>4. Packed(pg, gap) = [dirty |-> TRUE, items |-> moved, end |-> to, bytes |-> bytes]
    BY DEF Packed
  <1> HIDE DEF gap, bytes, moved
  <1>5. qg = [dirty |-> TRUE, items |-> items, end |-> to, bytes |-> bytes]
    <2>1. Packed(pg, gap).items = moved
      BY <1>4
    <2>2. qg = [Packed(pg, gap) EXCEPT !.items = items]
      BY <1>3, <2>1 DEF Closed
    <2> DEFINE yes == TRUE
    <2>3. Packed(pg, gap) = [dirty |-> yes, items |-> moved, end |-> to, bytes |-> bytes]
      BY <1>4
    <2> HIDE DEF qg, items, to, yes
    <2>4. [[dirty |-> yes, items |-> moved, end |-> to, bytes |-> bytes] EXCEPT !.items = items]
            = [dirty |-> yes, items |-> items, end |-> to, bytes |-> bytes]
      OBVIOUS
    <2> QED BY <2>2, <2>3, <2>4 DEF yes
  <1> HIDE DEF items
  <1>6. qg.dirty = TRUE /\ qg.items = items /\ qg.end = to /\ qg.bytes = bytes
    BY <1>5
  <1>7. to \in Nat /\ to <= PageSize
    BY <1>1
  <1>8. ASSUME NEW n \in 1..len
        PROVE  /\ moved[n] \in ItemRec /\ moved[n].len = pg.items[n].len
               /\ moved[n].off = IF Below(pg.items[n], gap) THEN pg.items[n].off + gap.len ELSE pg.items[n].off
    <2>1. /\ pg.items[n] \in ItemRec /\ pg.items[n].off \in Nat
      BY <1>1, PageParts DEF len
    <2>2. pg.items[n] = [off |-> pg.items[n].off, len |-> pg.items[n].len] /\ pg.items[n].len \in 0..PageSize
      BY <2>1 DEF ItemRec
    <2>3. moved[n] = IF Below(pg.items[n], gap) THEN Shifted(n) ELSE pg.items[n]
      BY <1>1 DEF moved
    <2>4. Shifted(n) = [off |-> pg.items[n].off + gap.len, len |-> pg.items[n].len]
      BY <2>2
    <2> HIDE DEF Shifted
    <2>5. CASE Below(pg.items[n], gap)
      <3>1. pg.items[n].off + gap.len \in Offset
        <4>1. pg.items[n].off < gap.off
          BY <2>5 DEF Below
        <4> QED BY <1>1, <2>1, <4>1 DEF Offset
      <3>2. moved[n] = [off |-> pg.items[n].off + gap.len, len |-> pg.items[n].len]
        BY <2>3, <2>4, <2>5
      <3> QED BY <2>2, <2>5, <3>1, <3>2 DEF ItemRec
    <2>6. CASE ~Below(pg.items[n], gap)
      BY <2>1, <2>3, <2>6
    <2> QED BY <2>5, <2>6
  <1>9. Deleted \in ItemRec /\ Deleted.len = 0
    <2>1. 0 \in Offset /\ 0 \in 0..PageSize
      BY <1>1 DEF Offset
    <2> QED BY <2>1 DEF Deleted, ItemRec
  <1>10. moved \in Seq(ItemRec) /\ Len(moved) = len
    <2>1. moved \in [1..len -> ItemRec]
      <3>1. moved = [n \in 1..len |-> moved[n]]
        BY <1>1 DEF moved
      <3> QED BY <1>8, <3>1
    <2> QED BY <1>1, <2>1, FunIsSeq
  <1>11. /\ items \in Seq(ItemRec) /\ Len(items) = len
         /\ \A n \in 1..len : items[n] = IF n = i + 1 THEN Deleted ELSE moved[n]
    BY <1>1, <1>9, <1>10, ExceptSeq DEF items
  <1>12. ASSUME NEW o \in Offset
         PROVE  /\ bytes[o] \in Data \cup {Free}
                /\ o >= to => bytes[o] = IF o < gap.off + gap.len THEN pg.bytes[o - gap.len] ELSE pg.bytes[o]
    <2>1. o \in Nat /\ o < PageSize
      BY <1>1 DEF Offset
    <2>2. to + LenBelow(pg, gap) = gap.off + gap.len
      BY <1>1, <1>2
    <2>3. o \in to..to + LenBelow(pg, gap) - 1 <=> o >= to /\ o < gap.off + gap.len
      <3>1. gap.off + gap.len \in Nat
        BY <1>1
      <3> HIDE DEF to
      <3>2. o \in to..(gap.off + gap.len) - 1 <=> o >= to /\ o < gap.off + gap.len
        BY <1>7, <2>1, <3>1, BetweenIs
      <3>3. to + LenBelow(pg, gap) - 1 = (gap.off + gap.len) - 1
        BY <1>1, <1>2, <1>7 DEF to
      <3> QED BY <3>2, <3>3
    <2>4. bytes[o] = CASE o < to -> Free
                       [] o >= to /\ o < gap.off + gap.len -> pg.bytes[o - gap.len]
                       [] OTHER -> pg.bytes[o]
      BY <2>3 DEF bytes
    <2>5. CASE o < to
      <3>1. ~(o >= to)
        BY <1>7, <2>1, <2>5
      <3> QED BY <2>4, <2>5, <3>1
    <2>6. CASE o >= to /\ o < gap.off + gap.len
      <3>1. ~(o < to) /\ o - gap.len \in Offset
        BY <1>1, <1>7, <2>1, <2>6 DEF Offset
      <3>2. bytes[o] = pg.bytes[o - gap.len]
        BY <2>4, <2>6, <3>1
      <3> QED BY <1>1, <2>6, <3>1, <3>2
    <2>7. CASE ~(o < to) /\ ~(o >= to /\ o < gap.off + gap.len)
      <3>1. bytes[o] = pg.bytes[o]
        BY <2>4, <2>7
      <3>2. ~(o < gap.off + gap.len)
        BY <1>7, <2>1, <2>7
      <3> QED BY <1>1, <3>1, <3>2
    <2> QED BY <2>5, <2>6, <2>7
  <1>13. bytes \in [Offset -> Data \cup {Free}]
    <2>1. bytes = [o \in Offset |-> bytes[o]]
      BY DEF bytes
    <2> QED BY <1>12, <2>1
  <1>14. qg \in PageRec
    <2> HIDE DEF qg, to
    <2> QED BY <1>5, <1>7, <1>11, <1>13 DEF PageRec
  <1>15. DeleteItem(pg, i) = IF Live(qg) = {} THEN InitPage ELSE qg
    <2>1. DeleteItem(pg, i) = IF AllDeleted([Packed(pg, gap).items EXCEPT ![i + 1] = Deleted]) THEN InitPage ELSE qg
      BY <1>3 DEF DeleteItem, Closed
    <2>2. [Packed(pg, gap).items EXCEPT ![i + 1] = Deleted] = items
      BY <1>4 DEF items
    <2>3. AllDeleted(items) <=> Live(qg) = {}
      <3>1. DOMAIN items = 1..Len(items)
        BY <1>11
      <3> HIDE DEF qg
      <3> QED BY <1>6, <3>1 DEF AllDeleted, Live
    <2> HIDE DEF qg
    <2> QED BY <2>1, <2>2, <2>3
  <1> HIDE DEF qg
  <1>16. ASSUME NEW n \in 1..len, n # i + 1
         PROVE  /\ qg.items[n].len = pg.items[n].len
                /\ qg.items[n].off = IF Below(pg.items[n], gap) THEN pg.items[n].off + gap.len ELSE pg.items[n].off
    BY <1>6, <1>8, <1>11, <1>16
  <1>17. qg.items[i + 1].len = 0
    BY <1>1, <1>6, <1>9, <1>11
  <1> QED BY <1>6, <1>11, <1>12, <1>14, <1>15, <1>16, <1>17 DEF qg, gap, len

\* Where an item goes when the gap is closed, in numbers.
MovedBy(off, len, gap, by, to) == \/ off + len <= gap /\ to = off + by
                                  \/ gap + by <= off /\ to = off

LEMMA MovedApart ==
  ASSUME NEW off \in Nat, NEW len \in Nat, NEW to, NEW off2 \in Nat, NEW len2 \in Nat, NEW to2,
         NEW gap \in Nat, NEW by \in Nat, MovedBy(off, len, gap, by, to), MovedBy(off2, len2, gap, by, to2),
         off + len <= off2 \/ off2 + len2 <= off
  PROVE  to + len <= to2 \/ to2 + len2 <= to
  BY DEF MovedBy

LEMMA DeleteItemIs ==
  ASSUME NEW pg, PageOK(pg), NEW i \in Nat, i + 1 \in Live(pg)
  PROVE  LET now == DeleteItem(pg, i)
         IN  /\ PageOK(now) /\ now.dirty = TRUE
             /\ GetFreeMem(now) >= GetFreeMem(pg) + pg.items[i + 1].len
             /\ now.items = <<>> \/ (i < Len(now.items) /\ now.items[i + 1].len = 0)
             /\ GetItem(now, i) = NoData
             /\ \A j \in Nat : j # i => GetItem(now, j) = GetItem(pg, j)
  <1> DEFINE qg == Closed(pg, i)
             gap == pg.items[i + 1]
             len == Len(pg.items)
             now == DeleteItem(pg, i)
  <1>1. /\ now = IF Live(qg) = {} THEN InitPage ELSE qg
        /\ qg \in PageRec /\ qg.dirty = TRUE /\ qg.end = pg.end + gap.len /\ Len(qg.items) = len
        /\ qg.items[i + 1].len = 0
        /\ \A n \in 1..len : n # i + 1 =>
             /\ qg.items[n].len = pg.items[n].len
             /\ qg.items[n].off = IF Below(pg.items[n], gap) THEN pg.items[n].off + gap.len ELSE pg.items[n].off
        /\ \A o \in Offset : o >= qg.end =>
             qg.bytes[o] = IF o < gap.off + gap.len THEN pg.bytes[o - gap.len] ELSE pg.bytes[o]
    BY ClosedParts
  <1>2. /\ pg \in PageRec /\ len \in Nat /\ pg.end \in Nat /\ PageSize \in Nat /\ i + 1 \in 1..len
        /\ gap.off \in Nat /\ gap.len \in Nat /\ gap.len >= 1 /\ len <= pg.end
        /\ pg.end <= gap.off /\ gap.off + gap.len <= PageSize
    BY PageParts, NextToGap DEF PageOK, Live
  <1> HIDE DEF qg, now
  <1>3. \A n : n \in Live(qg) <=> n \in Live(pg) /\ n # i + 1
    BY <1>1 DEF Live
  <1>4. ASSUME NEW n \in Live(pg), n # i + 1
        PROVE  /\ n \in 1..len
               /\ pg.items[n].off \in Nat /\ pg.items[n].len \in Nat /\ pg.items[n].len >= 1
               /\ pg.end <= pg.items[n].off /\ pg.items[n].off + pg.items[n].len <= PageSize
               /\ qg.items[n].len = pg.items[n].len
               /\ MovedBy(pg.items[n].off, pg.items[n].len, gap.off, gap.len, qg.items[n].off)
    <2>1. n \in 1..len
      BY DEF Live
    <2>2. /\ pg.items[n].off \in Nat /\ pg.items[n].len \in Nat /\ pg.items[n].len >= 1
          /\ pg.end <= pg.items[n].off /\ pg.items[n].off + pg.items[n].len <= PageSize
          /\ Below(pg.items[n], gap) => pg.items[n].off + pg.items[n].len <= gap.off
          /\ ~Below(pg.items[n], gap) => gap.off + gap.len <= pg.items[n].off
      BY <1>4, NextToGap
    <2>3. /\ qg.items[n].len = pg.items[n].len
          /\ qg.items[n].off = IF Below(pg.items[n], gap) THEN pg.items[n].off + gap.len ELSE pg.items[n].off
      BY <1>1, <1>4, <2>1
    <2> HIDE DEF gap
    <2> QED BY <2>1, <2>2, <2>3 DEF MovedBy
  <1> HIDE DEF gap
  <1>5. Packs(qg)
    <2>1. ASSUME NEW n \in Live(qg)
          PROVE  qg.end <= qg.items[n].off /\ qg.items[n].off + qg.items[n].len <= PageSize
      <3>1. n \in Live(pg) /\ n # i + 1
        BY <1>3
      <3>2. /\ pg.items[n].off \in Nat /\ pg.items[n].len \in Nat
            /\ pg.end <= pg.items[n].off /\ pg.items[n].off + pg.items[n].len <= PageSize
            /\ qg.items[n].len = pg.items[n].len
            /\ MovedBy(pg.items[n].off, pg.items[n].len, gap.off, gap.len, qg.items[n].off)
        BY <1>4, <3>1
      <3>3. pg.end + gap.len <= qg.items[n].off /\ qg.items[n].off + pg.items[n].len <= PageSize
        <4>1. CASE pg.items[n].off + pg.items[n].len <= gap.off /\ qg.items[n].off = pg.items[n].off + gap.len
          <5>1. pg.end + gap.len <= pg.items[n].off + gap.len
            BY <1>2, <3>2
          <5>2. (pg.items[n].off + gap.len) + pg.items[n].len <= PageSize
            <6>1. /\ pg.items[n].off \in Nat /\ pg.items[n].len \in Nat /\ gap.off \in Nat /\ gap.len \in Nat
                  /\ PageSize \in Nat /\ gap.off + gap.len <= PageSize
              BY <1>2, <3>2
            <6>2. pg.items[n].off + pg.items[n].len <= gap.off
              BY <4>1
            <6> HIDE DEF gap
            <6> QED BY <6>1, <6>2, ShiftedFits
          <5> QED BY <3>2, <4>1, <5>1, <5>2
        <4>2. CASE gap.off + gap.len <= pg.items[n].off /\ qg.items[n].off = pg.items[n].off
          BY <1>2, <3>2, <4>2
        <4> QED BY <3>2, <4>1, <4>2 DEF MovedBy
      <3> QED BY <1>1, <3>2, <3>3
    <2>2. ASSUME NEW o \in qg.end..PageSize - 1 PROVE \E n \in Live(qg) : Covers(qg.items[n], o)
      <3>1. o \in Nat /\ qg.end <= o /\ o <= PageSize - 1 /\ qg.end = pg.end + gap.len
        BY <1>1, <1>2
      <3>2. CASE o < gap.off + gap.len
        <4>1. o - gap.len \in pg.end..PageSize - 1 /\ o - gap.len < gap.off /\ o - gap.len \in Nat
          BY <1>2, <3>1, <3>2
        <4>2. PICK n \in Live(pg) : Covers(pg.items[n], o - gap.len)
          BY <4>1 DEF PageOK, Packs
        <4>3. pg.items[n].off <= o - gap.len /\ o - gap.len < pg.items[n].off + pg.items[n].len
          BY <4>2 DEF Covers
        <4>4. n # i + 1
          BY <1>2, <4>1, <4>3 DEF gap
        <4>5. Covers(qg.items[n], o)
          <5>1. /\ pg.items[n].off \in Nat /\ pg.items[n].len \in Nat /\ qg.items[n].len = pg.items[n].len
                /\ MovedBy(pg.items[n].off, pg.items[n].len, gap.off, gap.len, qg.items[n].off)
            BY <1>4, <4>4
          <5>2. qg.items[n].off <= o /\ o < qg.items[n].off + pg.items[n].len
            <6>1. CASE pg.items[n].off + pg.items[n].len <= gap.off /\ qg.items[n].off = pg.items[n].off + gap.len
              <7>1. pg.items[n].off + gap.len <= o /\ o < (pg.items[n].off + gap.len) + pg.items[n].len
                BY <1>2, <3>1, <4>3, <5>1, ShiftedCovers
              <7> QED BY <6>1, <7>1
            <6>2. CASE gap.off + gap.len <= pg.items[n].off
              BY <1>2, <3>1, <3>2, <4>3, <5>1, <6>2
            <6> QED BY <5>1, <6>1, <6>2 DEF MovedBy
          <5> QED BY <5>1, <5>2 DEF Covers
        <4> QED BY <1>3, <4>4, <4>5
      <3>3. CASE ~(o < gap.off + gap.len)
        <4>1. o \in pg.end..PageSize - 1
          BY <1>2, <3>1
        <4>2. PICK n \in Live(pg) : Covers(pg.items[n], o)
          BY <4>1 DEF PageOK, Packs
        <4>3. pg.items[n].off <= o /\ o < pg.items[n].off + pg.items[n].len
          BY <4>2 DEF Covers
        <4>4. n # i + 1
          BY <1>2, <3>1, <3>3, <4>3 DEF gap
        <4>5. Covers(qg.items[n], o)
          <5>1. /\ pg.items[n].off \in Nat /\ pg.items[n].len \in Nat /\ qg.items[n].len = pg.items[n].len
                /\ MovedBy(pg.items[n].off, pg.items[n].len, gap.off, gap.len, qg.items[n].off)
            BY <1>4, <4>4
          <5>2. qg.items[n].off <= o /\ o < qg.items[n].off + pg.items[n].len
            <6>1. CASE pg.items[n].off + pg.items[n].len <= gap.off
              <7>1. o < gap.off
                BY <1>2, <3>1, <4>3, <5>1, <6>1, StaysBelow
              <7> QED BY <1>2, <3>1, <3>3, <7>1
            <6>2. CASE gap.off + gap.len <= pg.items[n].off /\ qg.items[n].off = pg.items[n].off
              BY <1>2, <3>1, <4>3, <5>1, <6>2
            <6> QED BY <5>1, <6>1, <6>2 DEF MovedBy
          <5> QED BY <5>1, <5>2 DEF Covers
        <4> QED BY <1>3, <4>4, <4>5
      <3> QED BY <3>2, <3>3
    <2>3. ASSUME NEW m \in Live(qg), NEW n \in Live(qg), m # n PROVE ApartFrom(qg.items[m], qg.items[n])
      <3>1. m \in Live(pg) /\ m # i + 1 /\ n \in Live(pg) /\ n # i + 1
        BY <1>3
      <3>2. ApartFrom(pg.items[m], pg.items[n])
        BY <2>3, <3>1 DEF PageOK, Packs
      <3>3. /\ pg.items[m].off \in Nat /\ pg.items[m].len \in Nat /\ qg.items[m].len = pg.items[m].len
            /\ MovedBy(pg.items[m].off, pg.items[m].len, gap.off, gap.len, qg.items[m].off)
        BY <1>4, <3>1
      <3>4. /\ pg.items[n].off \in Nat /\ pg.items[n].len \in Nat /\ qg.items[n].len = pg.items[n].len
            /\ MovedBy(pg.items[n].off, pg.items[n].len, gap.off, gap.len, qg.items[n].off)
        BY <1>4, <3>1
      <3>5. \/ pg.items[m].off + pg.items[m].len <= pg.items[n].off
            \/ pg.items[n].off + pg.items[n].len <= pg.items[m].off
        BY <3>2 DEF ApartFrom
      <3>6. \/ qg.items[m].off + pg.items[m].len <= qg.items[n].off
            \/ qg.items[n].off + pg.items[n].len <= qg.items[m].off
        BY <1>2, <3>3, <3>4, <3>5, MovedApart
      <3> QED BY <3>3, <3>4, <3>6 DEF ApartFrom
    <2> QED BY <2>1, <2>2, <2>3 DEF Packs
  <1>6. ASSUME NEW j \in Nat, j # i PROVE GetItem(qg, j) = GetItem(pg, j)
    <2>1. CASE ~(j + 1 \in Live(pg))
      <3>1. ~(j + 1 \in Live(qg))
        BY <1>3, <2>1
      <3>2. ~(j < Len(pg.items)) \/ pg.items[j + 1].len = 0
        BY <1>2, <2>1 DEF Live, len
      <3>3. ~(j < Len(qg.items)) \/ qg.items[j + 1].len = 0
        BY <1>1, <1>2, <3>1 DEF Live
      <3>4. GetItem(pg, j) = NoData
        BY <1>2, <3>2, NoItemIs
      <3>5. GetItem(qg, j) = NoData
        BY <1>1, <3>3, NoItemIs
      <3> QED BY <3>4, <3>5
    <2>2. CASE j + 1 \in Live(pg)
      <3> DEFINE off == pg.items[j + 1].off
                 n == pg.items[j + 1].len
                 qoff == qg.items[j + 1].off
      <3>1. /\ j + 1 \in 1..len /\ off \in Nat /\ n \in Nat /\ pg.end <= off /\ off + n <= PageSize
            /\ qg.items[j + 1].len = n
            /\ \/ off + n <= gap.off /\ qoff = off + gap.len
               \/ gap.off + gap.len <= off /\ qoff = off
        BY <1>4, <1>6, <2>2 DEF MovedBy
      <3>2. qg.end = pg.end + gap.len
        BY <1>1
      <3> HIDE DEF off, n, qoff
      <3>3. ASSUME NEW k \in Nat, k < n PROVE qg.bytes[qoff + k] = pg.bytes[off + k]
        <4>1. CASE off + n <= gap.off /\ qoff = off + gap.len
          <5>1. qoff + k \in Offset /\ qoff + k >= qg.end /\ qoff + k < gap.off + gap.len /\ (qoff + k) - gap.len = off + k
            <6>1. qoff + k = off + k + gap.len /\ qoff + k \in Nat
              BY <1>2, <3>1, <3>3, <4>1, SMTT(30)
            <6>2. off + k < gap.off /\ off + k \in Nat
              BY <1>2, <3>1, <3>3, <4>1
            <6>3. qoff + k < gap.off + gap.len
              BY <1>2, <6>1, <6>2
            <6>4. qoff + k >= qg.end
              BY <1>2, <3>1, <3>2, <3>3, <6>1
            <6>5. qoff + k <= PageSize - 1
              BY <1>2, <6>1, <6>3
            <6> QED BY <1>2, <6>1, <6>2, <6>3, <6>4, <6>5 DEF Offset
          <5>2. qg.bytes[qoff + k] = pg.bytes[(qoff + k) - gap.len]
            BY <1>1, <5>1
          <5> QED BY <5>1, <5>2
        <4>2. CASE gap.off + gap.len <= off /\ qoff = off
          <5>1. qoff + k \in Offset /\ qoff + k >= qg.end /\ ~(qoff + k < gap.off + gap.len) /\ qoff + k = off + k
            <6>1. qoff + k = off + k /\ qoff + k \in Nat /\ off + k < off + n
              BY <3>1, <3>3, <4>2
            <6>2. qoff + k >= gap.off + gap.len
              BY <1>2, <3>1, <4>2, <6>1
            <6>3. qoff + k >= qg.end
              BY <1>2, <3>2, <6>1, <6>2
            <6>4. qoff + k <= PageSize - 1
              BY <1>2, <3>1, <6>1
            <6>5. ~(qoff + k < gap.off + gap.len)
              BY <1>2, <6>1, <6>2
            <6> QED BY <1>2, <6>1, <6>3, <6>4, <6>5 DEF Offset
          <5>2. qg.bytes[qoff + k] = pg.bytes[qoff + k]
            BY <1>1, <5>1
          <5> QED BY <5>1, <5>2
        <4> QED BY <3>1, <4>1, <4>2
      <3>4. /\ \A k \in Nat : k < pg.items[j + 1].len =>
                  qg.bytes[qg.items[j + 1].off + k] = pg.bytes[pg.items[j + 1].off + k]
            /\ qg.items[j + 1].len = pg.items[j + 1].len
        BY <3>1, <3>3 DEF off, n, qoff
      <3>5. j < Len(pg.items) /\ j < Len(qg.items)
        BY <1>1, <1>2, <3>1 DEF len
      <3> QED BY <1>1, <1>2, <3>4, <3>5, MovedItemIs
    <2> QED BY <2>1, <2>2
  <1>7. GetItem(qg, i) = NoData
    BY <1>1, NoItemIs
  <1>8. CASE Live(qg) = {}
    <2>1. now = InitPage
      BY <1>1, <1>8
    <2>2. now.items = <<>> /\ now.dirty = TRUE /\ GetFreeMem(now) = PageSize
      BY <1>2, <2>1 DEF InitPage, GetFreeMem
    <2>3. GetFreeMem(now) >= GetFreeMem(pg) + gap.len
      <3>1. pg.end + gap.len <= PageSize /\ GetFreeMem(pg) = pg.end - len /\ pg.end - len <= pg.end
        BY <1>2 DEF GetFreeMem
      <3> QED BY <1>2, <2>2, <3>1
    <2>4. ASSUME NEW j \in Nat PROVE GetItem(now, j) = NoData /\ (j # i => GetItem(pg, j) = NoData)
      <3>1. ~(j + 1 \in Live(qg))
        BY <1>8
      <3>2. ~(j < Len(qg.items)) \/ qg.items[j + 1].len = 0
        BY <1>1, <1>2, <3>1 DEF Live
      <3>3. GetItem(qg, j) = NoData
        BY <1>1, <3>2, NoItemIs
      <3> QED BY <1>6, <2>1, <3>3, InitPageOK
    <2> QED BY <2>1, <2>2, <2>3, <2>4, InitPageOK DEF now, gap
  <1>9. CASE Live(qg) # {}
    <2>1. now = qg
      BY <1>1, <1>9
    <2>2. PageOK(qg)
      <3>1. Len(qg.items) <= qg.end
        BY <1>1, <1>2
      <3> QED BY <1>1, <1>5, <1>9, <3>1 DEF PageOK
    <2>3. GetFreeMem(now) >= GetFreeMem(pg) + gap.len
      <3>1. GetFreeMem(now) = (pg.end + gap.len) - len /\ GetFreeMem(pg) = pg.end - len
        BY <1>1, <2>1 DEF GetFreeMem
      <3> QED BY <1>2, <3>1
    <2>4. i < Len(now.items)
      BY <1>1, <1>2, <2>1
    <2> QED BY <1>1, <1>6, <1>7, <2>1, <2>2, <2>3, <2>4 DEF now, gap
  <1> QED BY <1>8, <1>9
(***************************************************************************)
(* Overwriting an item in place.                                           *)
(***************************************************************************)
Overwritten(pg, i, d) ==
  [pg EXCEPT !.dirty = TRUE,
             !.bytes = [o \in Offset |-> IF o \in Item(pg, i).off..Item(pg, i).off + Item(pg, i).len - 1 THEN d ELSE @[o]]]

Fits(pg, i, d) == Size[d] = pg.items[i + 1].len

LEMMA OverwrittenIs ==
  ASSUME NEW pg, PageOK(pg), NEW i \in Nat, i + 1 \in Live(pg), NEW d \in Data, Fits(pg, i, d)
  PROVE  LET now == Overwritten(pg, i, d)
         IN  /\ PageOK(now) /\ now.dirty = TRUE /\ GetFreeMem(now) = GetFreeMem(pg)
             /\ GetItem(now, i) = d
             /\ \A j \in Nat : j # i => GetItem(now, j) = GetItem(pg, j)
  <1> DEFINE it == pg.items[i + 1]
             now == Overwritten(pg, i, d)
             bytes == [o \in Offset |-> IF o \in it.off..it.off + it.len - 1 THEN d ELSE pg.bytes[o]]
             yes == TRUE
  <1>1. /\ pg \in PageRec /\ i + 1 \in 1..Len(pg.items) /\ it.off \in Nat /\ it.len \in Nat /\ it.len >= 1
        /\ PageSize \in Nat /\ it.off + it.len <= PageSize /\ Len(pg.items) \in Nat
        /\ pg.items \in Seq(ItemRec) /\ pg.end \in 0..PageSize /\ pg.bytes \in [Offset -> Data \cup {Free}]
    BY PageParts, NextToGap DEF PageOK, Live, PageRec
  <1>2. pg = [dirty |-> pg.dirty, items |-> pg.items, end |-> pg.end, bytes |-> pg.bytes]
    BY <1>1 DEF PageRec
  <1>3. now = [pg EXCEPT !.dirty = yes, !.bytes = bytes]
    BY DEF Overwritten, Item
  <1> HIDE DEF it, now, bytes, yes
  <1>4. /\ now.items = pg.items /\ now.end = pg.end /\ now.bytes = bytes /\ now.dirty = yes
        /\ now = [dirty |-> yes, items |-> pg.items, end |-> pg.end, bytes |-> bytes]
    BY <1>2, <1>3
  <1>5. ASSUME NEW o \in Offset
        PROVE  bytes[o] = IF it.off <= o /\ o < it.off + it.len THEN d ELSE pg.bytes[o]
    <2>1. o \in Nat
      BY DEF Offset
    <2>2. o \in it.off..it.off + it.len - 1 <=> it.off <= o /\ o < it.off + it.len
      BY <1>1, <2>1
    <2> QED BY <2>2 DEF bytes
  <1>6. bytes \in [Offset -> Data \cup {Free}]
    BY <1>1 DEF bytes
  <1>7. now \in PageRec /\ now.dirty = TRUE
    BY <1>1, <1>4, <1>6 DEF PageRec, yes
  <1>8. PageOK(now)
    <2>1. Live(now) = Live(pg)
      BY <1>4 DEF Live
    <2>2. Packs(now)
      BY <1>4, <2>1 DEF PageOK, Packs
    <2> QED BY <1>4, <1>7, <2>1, <2>2 DEF PageOK
  <1>9. GetItem(now, i) = d
    <2>1. ASSUME NEW k \in 0..Size[d] - 1 PROVE now.bytes[now.items[i + 1].off + k] = d
      <3>1. k \in Nat /\ k < it.len
        BY <1>1 DEF it, Fits
      <3>2. it.off + k \in Offset /\ it.off <= it.off + k /\ it.off + k < it.off + it.len
        BY <1>1, <3>1 DEF Offset
      <3>3. bytes[it.off + k] = d
        BY <1>5, <3>2
      <3> QED BY <1>4, <3>3 DEF it
    <2>2. Holds(now, i, d)
      BY <1>1, <1>4, <2>1 DEF Holds, Fits
    <2> QED BY <1>7, <2>2, GetItemIs
  <1>10. ASSUME NEW j \in Nat, j # i PROVE GetItem(now, j) = GetItem(pg, j)
    <2>1. CASE ~(j + 1 \in Live(pg))
      <3>1. ~(j < Len(pg.items)) \/ pg.items[j + 1].len = 0
        BY <1>1, <2>1 DEF Live
      <3> QED BY <1>1, <1>4, <1>7, <3>1, NoItemIs
    <2>2. CASE j + 1 \in Live(pg)
      <3> DEFINE off == pg.items[j + 1].off
                 n == pg.items[j + 1].len
      <3>1. j + 1 \in 1..Len(pg.items) /\ j < Len(pg.items)
        BY <1>1, <2>2 DEF Live
      <3>2. /\ off \in Nat /\ n \in Nat /\ off < PageSize
            /\ off + n <= it.off \/ it.off + it.len <= off
        <4>1. j + 1 # i + 1
          BY <1>10
        <4>2. ApartFrom(pg.items[j + 1], pg.items[i + 1])
          BY <2>2, <4>1 DEF PageOK, Packs
        <4> QED BY <1>1, <3>1, <4>2, PageParts DEF ApartFrom, it
      <3>3. off + n <= PageSize
        BY <2>2 DEF PageOK, Packs
      <3> HIDE DEF off, n
      <3>4. ASSUME NEW k \in Nat, k < n PROVE bytes[off + k] = pg.bytes[off + k]
        <4>1. off + k \in Offset
          BY <1>1, <3>2, <3>3, <3>4 DEF Offset
        <4>2. ~(it.off <= off + k /\ off + k < it.off + it.len)
          BY <1>1, <3>2, <3>4
        <4> QED BY <1>5, <4>1, <4>2
      <3>5. \A k \in Nat : k < pg.items[j + 1].len =>
              now.bytes[now.items[j + 1].off + k] = pg.bytes[pg.items[j + 1].off + k]
        BY <1>4, <3>4 DEF off, n
      <3>6. j < Len(now.items) /\ now.items[j + 1].len = pg.items[j + 1].len
        BY <1>4, <3>1
      <3> QED BY <1>1, <1>7, <3>1, <3>5, <3>6, MovedItemIs
    <2> QED BY <2>1, <2>2
  <1> QED BY <1>4, <1>7, <1>8, <1>9, <1>10 DEF now, GetFreeMem

\* Pages that differ in their flag only.
SameData(pg, qg) == pg.items = qg.items /\ pg.end = qg.end /\ pg.bytes = qg.bytes

LEMMA SameDataIs ==
  ASSUME NEW pg, PageOK(pg), NEW qg \in PageRec, SameData(pg, qg)
  PROVE  PageOK(qg) /\ GetFreeMem(qg) = GetFreeMem(pg) /\ \A i \in Nat : GetItem(qg, i) = GetItem(pg, i)
  <1>1. Live(qg) = Live(pg)
    BY DEF Live, SameData
  <1>2. Packs(qg)
    BY <1>1 DEF PageOK, Packs, SameData
  <1>3. PageOK(qg)
    BY <1>1, <1>2 DEF PageOK, SameData
  <1>4. ASSUME NEW i \in Nat PROVE GetItem(qg, i) = GetItem(pg, i)
    <2>1. \A d \in Data : Holds(qg, i, d) <=> Holds(pg, i, d)
      BY DEF Holds, SameData
    <2>2. pg \in PageRec
      BY DEF PageOK
    <2> QED BY <2>1, <2>2, SameItemIs
  <1> QED BY <1>3, <1>4 DEF GetFreeMem, SameData

\* A page with its flag turned.
LEMMA FlagTurned ==
  ASSUME NEW pg, PageOK(pg), NEW flag \in BOOLEAN
  PROVE  /\ PageOK([pg EXCEPT !.dirty = flag]) /\ SameData(pg, [pg EXCEPT !.dirty = flag])
         /\ [pg EXCEPT !.dirty = flag].dirty = flag
  <1> DEFINE qg == [pg EXCEPT !.dirty = flag]
  <1>1. pg \in PageRec
    BY DEF PageOK
  <1>2. pg = [dirty |-> pg.dirty, items |-> pg.items, end |-> pg.end, bytes |-> pg.bytes]
    BY <1>1 DEF PageRec
  <1>3. qg = [dirty |-> flag, items |-> pg.items, end |-> pg.end, bytes |-> pg.bytes]
    BY <1>2
  <1>4. qg \in PageRec
    BY <1>1, <1>3 DEF PageRec
  <1>5. SameData(pg, qg) /\ qg.dirty = flag
    BY <1>3 DEF SameData
  <1> HIDE DEF qg
  <1> QED BY <1>4, <1>5, SameDataIs DEF qg
(***************************************************************************)
(* The list of the pages in the cache, by their use.                       *)
(***************************************************************************)
Lists(list, S) ==
  /\ list \in Seq(Nat)
  /\ \A m, n \in 1..Len(list) : list[m] = list[n] => m = n
  /\ \A pt : pt \in S <=> \E n \in 1..Len(list) : list[n] = pt

LEMMA ListedCount ==
  ASSUME NEW list, NEW S, Lists(list, S)
  PROVE  IsFiniteSet(S) /\ Cardinality(S) = Len(list)
  <1>1. Len(list) \in Nat /\ list \in Seq(Nat)
    BY DEF Lists
  <1> DEFINE f == [n \in 1..Len(list) |-> list[n]]
  <1>2. f \in Bijection(1..Len(list), S)
    <2>1. f \in [1..Len(list) -> S]
      BY DEF Lists
    <2>2. \A m, n \in 1..Len(list) : f[m] = f[n] => m = n
      BY DEF Lists
    <2>3. \A pt \in S : \E n \in 1..Len(list) : f[n] = pt
      BY DEF Lists
    <2> HIDE DEF f
    <2> QED BY <2>1, <2>2, <2>3 DEF Bijection, Injection, Surjection, IsInjective
  <1>3. ExistsBijection(1..Len(list), S)
    BY <1>2 DEF ExistsBijection
  <1>4. IsFiniteSet(1..Len(list)) /\ Cardinality(1..Len(list)) = Len(list)
    <2>1. 1 \in Int /\ Len(list) \in Int
      BY <1>1
    <2>2. Cardinality(1..Len(list)) = IF 1 > Len(list) THEN 0 ELSE Len(list) - 1 + 1
      BY <2>1, FS_Interval
    <2>3. IsFiniteSet(1..Len(list))
      BY <2>1, FS_Interval
    <2>4. Cardinality(1..Len(list)) = Len(list)
      BY <1>1, <2>2
    <2> QED BY <2>3, <2>4
  <1> QED BY <1>3, <1>4, FS_Bijection

LEMMA UnlistedIs ==
  ASSUME NEW list, NEW S, Lists(list, S), NEW pt \in S
  PROVE  Lists(Unlisted(list, pt), S \ {pt}) /\ Len(Unlisted(list, pt)) = Len(list) - 1
  <1> DEFINE at == CHOOSE n \in DOMAIN list : list[n] = pt
             len == Len(list)
             low == SubSeq(list, 1, at - 1)
             high == SubSeq(list, at + 1, len)
             new == low \o high
  <1>1. len \in Nat /\ DOMAIN list = 1..len /\ list \in Seq(Nat)
    BY DEF Lists
  <1>2. at \in 1..len /\ list[at] = pt
    BY <1>1 DEF Lists
  <1>3. Unlisted(list, pt) = new
    BY DEF Unlisted, RemoveAt
  <1> HIDE DEF at
  <1>4. \A n \in 1..len : list[n] \in Nat
    BY <1>1, ElementOfSeq
  <1>5. low \in Seq(Nat) /\ Len(low) = at - 1 /\ \A n \in 1..at - 1 : low[n] = list[n]
    <2>1. 1 \in Int /\ at - 1 \in Int /\ \A n \in 1..at - 1 : list[n] \in Nat
      BY <1>1, <1>2, <1>4
    <2>2. /\ low \in Seq(Nat) /\ Len(low) = IF 1 <= at - 1 THEN (at - 1) - 1 + 1 ELSE 0
          /\ \A n \in 1..(at - 1) - 1 + 1 : low[n] = list[1 + n - 1]
      BY <2>1, SubSeqProperties
    <2>3. (at - 1) - 1 + 1 = at - 1 /\ \A n \in 1..at - 1 : 1 + n - 1 = n
      BY <1>2
    <2> HIDE DEF low
    <2> QED BY <1>2, <2>2, <2>3
  <1>6. high \in Seq(Nat) /\ Len(high) = len - at /\ \A n \in 1..len - at : high[n] = list[at + n]
    <2>1. at + 1 \in Int /\ len \in Int /\ \A n \in at + 1..len : list[n] \in Nat
      BY <1>1, <1>2, <1>4
    <2>2. /\ high \in Seq(Nat) /\ Len(high) = IF at + 1 <= len THEN len - (at + 1) + 1 ELSE 0
          /\ \A n \in 1..len - (at + 1) + 1 : high[n] = list[(at + 1) + n - 1]
      BY <2>1, SubSeqProperties
    <2>3. len - (at + 1) + 1 = len - at /\ \A n \in 1..len - at : (at + 1) + n - 1 = at + n
      BY <1>1, <1>2
    <2>4. at \in Nat /\ len \in Nat /\ at <= len
      BY <1>1, <1>2
    <2> HIDE DEF high, len
    <2>5. Len(high) = len - at
      BY <2>2, <2>3, <2>4
    <2>6. \A n \in 1..len - at : high[n] = list[at + n]
      BY <2>2, <2>3
    <2> QED BY <2>2, <2>5, <2>6
  <1> HIDE DEF low, high
  <1>7. /\ new \in Seq(Nat) /\ Len(new) = len - 1
        /\ \A n \in 1..len - 1 : new[n] = IF n < at THEN list[n] ELSE list[n + 1]
    <2>1. /\ new \in Seq(Nat) /\ Len(new) = Len(low) + Len(high)
          /\ \A n \in 1..Len(low) + Len(high) : new[n] = IF n <= Len(low) THEN low[n] ELSE high[n - Len(low)]
      BY <1>5, <1>6, ConcatProperties
    <2>2. Len(low) + Len(high) = len - 1
      BY <1>1, <1>2, <1>5, <1>6
    <2> HIDE DEF new
    <2>3. ASSUME NEW n \in 1..len - 1 PROVE new[n] = IF n < at THEN list[n] ELSE list[n + 1]
      <3>1. new[n] = IF n <= at - 1 THEN low[n] ELSE high[n - (at - 1)]
        BY <1>5, <2>1, <2>2
      <3>2. CASE n < at
        <4>1. n <= at - 1 /\ n \in 1..at - 1
          BY <1>1, <1>2, <3>2
        <4> QED BY <1>5, <3>1, <3>2, <4>1
      <3>3. CASE ~(n < at)
        <4>1. ~(n <= at - 1) /\ n - (at - 1) \in 1..len - at /\ at + (n - (at - 1)) = n + 1
          BY <1>1, <1>2, <3>3
        <4> QED BY <1>6, <3>1, <3>3, <4>1
      <3> QED BY <3>2, <3>3
    <2> QED BY <2>1, <2>2, <2>3
  <1> HIDE DEF new, len
  <1>8. ASSUME NEW n \in 1..len - 1
        PROVE  \E m \in 1..len : m # at /\ new[n] = list[m] /\ m = IF n < at THEN n ELSE n + 1
    <2>1. CASE n < at
      <3>1. n \in 1..len /\ n # at
        BY <1>1, <1>2, <2>1
      <3> QED BY <1>7, <2>1, <3>1
    <2>2. CASE ~(n < at)
      <3>1. n + 1 \in 1..len /\ n + 1 # at
        BY <1>1, <1>2, <2>2
      <3> QED BY <1>7, <2>2, <3>1
    <2> QED BY <2>1, <2>2
  <1>9. ASSUME NEW m \in 1..len - 1, NEW n \in 1..len - 1, new[m] = new[n] PROVE m = n
    <2>1. PICK i \in 1..len : i # at /\ new[m] = list[i] /\ i = IF m < at THEN m ELSE m + 1
      BY <1>8
    <2>2. PICK j \in 1..len : j # at /\ new[n] = list[j] /\ j = IF n < at THEN n ELSE n + 1
      BY <1>8
    <2>3. i = j
      BY <1>9, <2>1, <2>2 DEF Lists, len
    <2> QED BY <1>1, <1>2, <2>1, <2>2, <2>3
  <1>10. ASSUME NEW q PROVE q \in S \ {pt} <=> \E n \in 1..len - 1 : new[n] = q
    <2>1. ASSUME q \in S \ {pt} PROVE \E n \in 1..len - 1 : new[n] = q
      <3>1. PICK m \in 1..len : list[m] = q
        BY <2>1 DEF Lists, len
      <3>2. m # at
        BY <1>2, <2>1, <3>1
      <3>3. CASE m < at
        <4>1. m \in 1..len - 1
          BY <1>1, <1>2, <3>3
        <4> QED BY <1>7, <3>1, <3>3, <4>1
      <3>4. CASE ~(m < at)
        <4>1. m - 1 \in 1..len - 1 /\ ~(m - 1 < at) /\ (m - 1) + 1 = m
          BY <1>1, <1>2, <3>2, <3>4
        <4> QED BY <1>7, <3>1, <4>1
      <3> QED BY <3>3, <3>4
    <2>2. ASSUME NEW n \in 1..len - 1, new[n] = q PROVE q \in S \ {pt}
      <3>1. PICK m \in 1..len : m # at /\ new[n] = list[m]
        BY <1>8
      <3>2. q \in S
        BY <2>2, <3>1 DEF Lists, len
      <3>3. q # pt
        BY <1>2, <2>2, <3>1 DEF Lists, len
      <3> QED BY <3>2, <3>3
    <2> QED BY <2>1, <2>2
  <1> QED BY <1>3, <1>7, <1>9, <1>10 DEF Lists, len

LEMMA ListedFirst ==
  ASSUME NEW list, NEW S, Lists(list, S), NEW pt \in Nat, pt \notin S
  PROVE  Lists(<<pt>> \o list, S \cup {pt}) /\ Len(<<pt>> \o list) = Len(list) + 1
  <1> DEFINE new == <<pt>> \o list
             len == Len(list)
  <1>1. len \in Nat /\ list \in Seq(Nat) /\ <<pt>> \in Seq(Nat) /\ Len(<<pt>>) = 1 /\ <<pt>>[1] = pt
    BY DEF Lists
  <1>2. /\ new \in Seq(Nat) /\ Len(new) = 1 + len
        /\ \A n \in 1..1 + len : new[n] = IF n <= 1 THEN <<pt>>[n] ELSE list[n - 1]
    BY <1>1, ConcatProperties
  <1> HIDE DEF new, len
  <1>3. Len(new) = len + 1
    BY <1>1, <1>2
  <1>4. ASSUME NEW n \in 1..len + 1
        PROVE  \/ n = 1 /\ new[n] = pt
               \/ n # 1 /\ n - 1 \in 1..len /\ new[n] = list[n - 1]
    <2>1. n \in 1..1 + len
      BY <1>1
    <2>2. CASE n = 1
      <3>1. new[1] = <<pt>>[1]
        <4>1. 1 \in 1..1 + len /\ 1 <= 1
          BY <1>1
        <4> QED BY <1>2, <4>1
      <3>2. new[1] = pt
        BY <3>1
      <3>3. n = 1 /\ new[n] = pt
        BY <2>2, <3>2
      <3> QED BY <3>3
    <2>3. CASE n # 1
      <3>1. ~(n <= 1) /\ n - 1 \in 1..len
        BY <1>1, <2>3
      <3> QED BY <1>2, <2>1, <2>3, <3>1
    <2> QED BY <2>2, <2>3
  <1>5. \A n \in 1..len : list[n] \in S
    BY DEF Lists, len
  <1>6. ASSUME NEW m \in 1..len + 1, NEW n \in 1..len + 1, new[m] = new[n] PROVE m = n
    <2>1. CASE m = 1 \/ n = 1
      BY <1>4, <1>5, <1>6, <2>1
    <2>2. CASE m # 1 /\ n # 1
      <3>1. m - 1 \in 1..len /\ n - 1 \in 1..len /\ list[m - 1] = list[n - 1]
        BY <1>4, <1>6, <2>2
      <3>2. m - 1 = n - 1
        BY <3>1 DEF Lists, len
      <3> QED BY <1>1, <3>2
    <2> QED BY <2>1, <2>2
  <1>7. ASSUME NEW q PROVE q \in S \cup {pt} <=> \E n \in 1..len + 1 : new[n] = q
    <2>1. ASSUME q \in S PROVE \E n \in 1..len + 1 : new[n] = q
      <3>1. PICK n \in 1..len : list[n] = q
        BY <2>1 DEF Lists, len
      <3>2. n + 1 \in 1..len + 1 /\ n + 1 # 1 /\ (n + 1) - 1 = n
        BY <1>1
      <3>3. new[n + 1] = list[n]
        BY <1>4, <3>2
      <3> QED BY <3>1, <3>2, <3>3
    <2>2. 1 \in 1..len + 1 /\ new[1] = pt
      BY <1>1, <1>4
    <2>3. ASSUME NEW n \in 1..len + 1 PROVE new[n] \in S \cup {pt}
      BY <1>4, <1>5
    <2> QED BY <2>1, <2>2, <2>3
  <1> QED BY <1>2, <1>3, <1>6, <1>7 DEF Lists, new, len

LEMMA ListedLast ==
  ASSUME NEW list, NEW S, Lists(list, S), NEW pt \in Nat, pt \notin S
  PROVE  Lists(Append(list, pt), S \cup {pt}) /\ Len(Append(list, pt)) = Len(list) + 1
  <1> DEFINE new == Append(list, pt)
             len == Len(list)
  <1>1. len \in Nat /\ list \in Seq(Nat)
    BY DEF Lists
  <1>2. /\ new \in Seq(Nat) /\ Len(new) = len + 1 /\ new[len + 1] = pt
        /\ \A n \in 1..len : new[n] = list[n]
    BY <1>1, AppendProperties
  <1> HIDE DEF new, len
  <1>3. \A n \in 1..len + 1 : n = len + 1 \/ n \in 1..len
    BY <1>1
  <1>4. \A n \in 1..len : n \in 1..len + 1 /\ n # len + 1 /\ list[n] \in S
    BY <1>1 DEF Lists, len
  <1>5. ASSUME NEW m \in 1..len + 1, NEW n \in 1..len + 1, new[m] = new[n] PROVE m = n
    <2>1. CASE m \in 1..len /\ n \in 1..len
      BY <1>2, <1>5, <2>1 DEF Lists, len
    <2>2. CASE m = len + 1 \/ n = len + 1
      BY <1>2, <1>3, <1>4, <1>5, <2>2
    <2> QED BY <1>3, <2>1, <2>2
  <1>6. ASSUME NEW q PROVE q \in S \cup {pt} <=> \E n \in 1..len + 1 : new[n] = q
    <2>1. ASSUME q \in S PROVE \E n \in 1..len + 1 : new[n] = q
      <3>1. PICK n \in 1..len : list[n] = q
        BY <2>1 DEF Lists, len
      <3> QED BY <1>2, <1>4, <3>1
    <2>2. len + 1 \in 1..len + 1
      BY <1>1
    <2>3. ASSUME NEW n \in 1..len + 1 PROVE new[n] \in S \cup {pt}
      BY <1>2, <1>3, <1>4
    <2> QED BY <1>2, <2>1, <2>2, <2>3
  <1> QED BY <1>2, <1>5, <1>6 DEF Lists, new, len

LEMMA FrontListed ==
  ASSUME NEW list, NEW S, Lists(list, S), list # <<>>
  PROVE  Lists(Front(list), S \ {Last(list)}) /\ Len(Front(list)) = Len(list) - 1 /\ Last(list) \in S
  <1> DEFINE new == SubSeq(list, 1, Len(list) - 1)
             len == Len(list)
  <1>1. len \in Nat /\ len >= 1 /\ list \in Seq(Nat)
    BY DEF Lists
  <1>2. \A n \in 1..len : list[n] \in Nat
    BY <1>1, ElementOfSeq
  <1>3. new \in Seq(Nat) /\ Len(new) = len - 1 /\ \A n \in 1..len - 1 : new[n] = list[n]
    <2>1. 1 \in Int /\ len - 1 \in Int /\ \A n \in 1..len - 1 : list[n] \in Nat
      BY <1>1, <1>2
    <2>2. /\ new \in Seq(Nat) /\ Len(new) = IF 1 <= len - 1 THEN (len - 1) - 1 + 1 ELSE 0
          /\ \A n \in 1..(len - 1) - 1 + 1 : new[n] = list[1 + n - 1]
      BY <2>1, SubSeqProperties
    <2>3. (len - 1) - 1 + 1 = len - 1 /\ \A n \in 1..len - 1 : 1 + n - 1 = n
      BY <1>1
    <2> HIDE DEF new, len
    <2> QED BY <1>1, <2>2, <2>3
  <1>4. Front(list) = new /\ Last(list) = list[len]
    BY DEF Front, Last
  <1> HIDE DEF new, len
  <1>5. len \in 1..len /\ \A n \in 1..len : n = len \/ n \in 1..len - 1
    BY <1>1
  <1>6. \A n \in 1..len - 1 : n \in 1..len /\ n # len
    BY <1>1
  <1>7. ASSUME NEW q PROVE q \in S \ {list[len]} <=> \E n \in 1..len - 1 : new[n] = q
    <2>1. ASSUME q \in S, q # list[len] PROVE \E n \in 1..len - 1 : new[n] = q
      <3>1. PICK n \in 1..len : list[n] = q
        BY <2>1 DEF Lists, len
      <3> QED BY <1>3, <1>5, <2>1, <3>1
    <2>2. ASSUME NEW n \in 1..len - 1 PROVE new[n] \in S /\ new[n] # list[len]
      BY <1>3, <1>5, <1>6 DEF Lists, len
    <2> QED BY <2>1, <2>2
  <1>8. ASSUME NEW m \in 1..len - 1, NEW n \in 1..len - 1, new[m] = new[n] PROVE m = n
    BY <1>3, <1>6, <1>8 DEF Lists, len
  <1>9. list[len] \in S
    BY <1>5 DEF Lists, len
  <1> QED BY <1>3, <1>4, <1>7, <1>8, <1>9 DEF Lists, len
(***************************************************************************)
(* The files and the cache.                                                *)
(***************************************************************************)
FilesOK(s) ==
  /\ s = [disk |-> s.disk, cache |-> s.cache, lru |-> s.lru]
  /\ s.disk \in Seq(PageRec) /\ \A n \in 1..Len(s.disk) : PageOK(s.disk[n])
  /\ s.cache = [pt \in DOMAIN s.cache |-> s.cache[pt]]
  /\ \A pt \in DOMAIN s.cache : pt \in 0..Len(s.disk) - 1 /\ PageOK(s.cache[pt])
  /\ \A pt \in DOMAIN s.cache : ~s.cache[pt].dirty => SameData(s.cache[pt], s.disk[pt + 1])
  /\ Lists(s.lru, DOMAIN s.cache) /\ Len(s.lru) <= MxLoadedPages

\* A page as it is now, and files with the same pages.
PageOf(s, pt) == IF pt \in DOMAIN s.cache THEN s.cache[pt] ELSE s.disk[pt + 1]
SamePages(s, t) ==
  /\ Len(t.disk) = Len(s.disk)
  /\ \A pt \in 0..Len(s.disk) - 1 : SameData(PageOf(s, pt), PageOf(t, pt))

LEMMA FilesParts ==
  ASSUME NEW s, FilesOK(s)
  PROVE  /\ Len(s.disk) \in Nat /\ Len(s.lru) \in Nat
         /\ \A pt \in 0..Len(s.disk) - 1 : pt \in Nat /\ pt + 1 \in 1..Len(s.disk) /\ PageOK(s.disk[pt + 1])
         /\ \A pt \in 0..Len(s.disk) - 1 : PageOK(PageOf(s, pt))
  <1>1. Len(s.disk) \in Nat /\ Len(s.lru) \in Nat
    BY DEF FilesOK, Lists
  <1>2. \A pt \in 0..Len(s.disk) - 1 : pt \in Nat /\ pt + 1 \in 1..Len(s.disk)
    BY <1>1
  <1>3. \A pt \in 0..Len(s.disk) - 1 : PageOK(s.disk[pt + 1])
    BY <1>2 DEF FilesOK
  <1>4. \A pt \in 0..Len(s.disk) - 1 : PageOK(PageOf(s, pt))
    BY <1>3 DEF PageOf, FilesOK
  <1> QED BY <1>1, <1>2, <1>3, <1>4

LEMMA SameDataTwice ==
  ASSUME NEW a, NEW b, NEW c, SameData(a, b), SameData(b, c)
  PROVE  SameData(a, c) /\ SameData(b, a)
  BY DEF SameData

LEMMA EvictIs ==
  ASSUME NEW s, FilesOK(s)
  PROVE  /\ FilesOK(Evict(s)) /\ SamePages(s, Evict(s))
         /\ Len(Evict(s).lru) < MxLoadedPages
         /\ DOMAIN Evict(s).cache \subseteq DOMAIN s.cache
  <1> DEFINE t == Evict(s)
             v == Last(s.lru)
             len == Len(s.disk)
             disk2 == IF ShouldSave(s.cache[v]) THEN [s.disk EXCEPT ![v + 1] = s.cache[v]] ELSE s.disk
             cache2 == [pt \in DOMAIN s.cache \ {v} |-> s.cache[pt]]
  <1>1. /\ MxLoadedPages \in Nat /\ MxLoadedPages # 0 /\ len \in Nat /\ Len(s.lru) \in Nat
        /\ Len(s.lru) <= MxLoadedPages /\ Cardinality(DOMAIN s.cache) = Len(s.lru)
    BY FilesParts, ListedCount, PgBlobAssumption DEF FilesOK
  <1>2. CASE Cardinality(DOMAIN s.cache) < MxLoadedPages
    <2>1. t = s
      BY <1>2 DEF Evict
    <2> QED BY <1>1, <1>2, <2>1 DEF SamePages, SameData
  <1>3. CASE ~(Cardinality(DOMAIN s.cache) < MxLoadedPages)
    <2>1. Len(s.lru) = MxLoadedPages
      BY <1>1, <1>3
    <2>2. s.lru # <<>>
      <3>1. Len(s.lru) # 0
        BY <1>1, <2>1
      <3> QED BY <3>1
    <2>3. /\ Lists(Front(s.lru), DOMAIN s.cache \ {v}) /\ Len(Front(s.lru)) = Len(s.lru) - 1
          /\ v \in DOMAIN s.cache
      BY <2>2, FrontListed DEF FilesOK
    <2>4. t = [disk |-> disk2, cache |-> cache2, lru |-> Front(s.lru)]
      BY <1>3 DEF Evict
    <2> HIDE DEF v, t
    <2>5. /\ v \in 0..len - 1 /\ v \in Nat /\ v + 1 \in 1..len /\ PageOK(s.cache[v]) /\ s.cache[v] \in PageRec
          /\ s.disk \in Seq(PageRec)
      BY <2>3, FilesParts DEF FilesOK, PageOK
    <2>6. /\ disk2 \in Seq(PageRec) /\ Len(disk2) = len
          /\ \A n \in 1..len : n # v + 1 => disk2[n] = s.disk[n]
          /\ PageOK(disk2[v + 1]) /\ SameData(s.cache[v], disk2[v + 1])
      <3>1. CASE ShouldSave(s.cache[v])
        <4>1. disk2 = [s.disk EXCEPT ![v + 1] = s.cache[v]]
          BY <3>1
        <4> HIDE DEF disk2
        <4>2. /\ disk2 \in Seq(PageRec) /\ Len(disk2) = len
              /\ \A n \in 1..len : disk2[n] = IF n = v + 1 THEN s.cache[v] ELSE s.disk[n]
          BY <2>5, <4>1, ExceptSeq
        <4> QED BY <2>5, <4>2 DEF SameData
      <3>2. CASE ~ShouldSave(s.cache[v])
        <4>1. disk2 = s.disk
          BY <3>2
        <4>2. SameData(s.cache[v], s.disk[v + 1]) /\ PageOK(s.disk[v + 1])
          BY <2>3, <2>5, <3>2 DEF FilesOK, ShouldSave
        <4> HIDE DEF disk2
        <4> QED BY <2>5, <4>1, <4>2
      <3> QED BY <3>1, <3>2
    <2> HIDE DEF disk2
    <2>7. /\ t.disk = disk2 /\ t.cache = cache2 /\ t.lru = Front(s.lru)
          /\ t = [disk |-> t.disk, cache |-> t.cache, lru |-> t.lru]
      BY <2>4
    <2>8. DOMAIN cache2 = DOMAIN s.cache \ {v} /\ \A pt \in DOMAIN s.cache \ {v} : cache2[pt] = s.cache[pt]
      OBVIOUS
    <2> HIDE DEF cache2
    <2>9. \A pt \in DOMAIN s.cache : pt \in 0..len - 1 /\ pt \in Nat /\ pt + 1 \in 1..len /\ PageOK(s.cache[pt])
      BY FilesParts DEF FilesOK
    <2>10. \A pt \in Nat : pt # v => pt + 1 # v + 1
      BY <2>5
    <2>11. FilesOK(t)
      <3>1. ASSUME NEW n \in 1..len PROVE PageOK(disk2[n])
        BY <2>6 DEF FilesOK
      <3>2. cache2 = [pt \in DOMAIN cache2 |-> cache2[pt]]
        BY DEF cache2
      <3>3. ASSUME NEW pt \in DOMAIN cache2
            PROVE  /\ pt \in 0..len - 1 /\ PageOK(cache2[pt])
                   /\ ~cache2[pt].dirty => SameData(cache2[pt], disk2[pt + 1])
        <4>1. pt \in DOMAIN s.cache /\ pt # v /\ cache2[pt] = s.cache[pt]
          BY <2>8
        <4>2. disk2[pt + 1] = s.disk[pt + 1]
          BY <2>6, <2>9, <2>10, <4>1
        <4> QED BY <2>9, <4>1, <4>2 DEF FilesOK
      <3>4. Lists(Front(s.lru), DOMAIN cache2) /\ Len(Front(s.lru)) <= MxLoadedPages
        BY <1>1, <2>1, <2>3, <2>8
      <3> QED BY <2>6, <2>7, <3>1, <3>2, <3>3, <3>4 DEF FilesOK
    <2>12. SamePages(s, t)
      <3>1. ASSUME NEW pt \in 0..len - 1 PROVE SameData(PageOf(s, pt), PageOf(t, pt))
        <4>1. pt \in Nat /\ pt + 1 \in 1..len
          BY <1>1
        <4>2. CASE pt = v
          <5>1. PageOf(s, pt) = s.cache[v] /\ PageOf(t, pt) = disk2[v + 1]
            BY <2>3, <2>7, <2>8, <4>2 DEF PageOf
          <5> QED BY <2>6, <5>1
        <4>3. CASE pt # v
          <5>1. PageOf(t, pt) = PageOf(s, pt)
            BY <2>6, <2>7, <2>8, <2>10, <4>1, <4>3 DEF PageOf
          <5> QED BY <5>1 DEF SameData
        <4> QED BY <4>2, <4>3
      <3> QED BY <2>6, <2>7, <3>1 DEF SamePages
    <2>13. Len(t.lru) < MxLoadedPages
      BY <1>1, <2>1, <2>3, <2>7
    <2> QED BY <2>7, <2>8, <2>11, <2>12, <2>13 DEF t
  <1> QED BY <1>2, <1>3

LEMMA EnterIs ==
  ASSUME NEW s, FilesOK(s), Len(s.lru) < MxLoadedPages, NEW pt \in 0..Len(s.disk) - 1, pt \notin DOMAIN s.cache,
         NEW pg, PageOK(pg), ~pg.dirty => SameData(pg, s.disk[pt + 1])
  PROVE  LET t == Enter(s, pt, pg)
         IN  /\ FilesOK(t) /\ t.disk = s.disk
             /\ DOMAIN t.cache = DOMAIN s.cache \cup {pt} /\ t.cache[pt] = pg
             /\ \A q : q # pt => PageOf(t, q) = PageOf(s, q)
  <1> DEFINE t == Enter(s, pt, pg)
             cache2 == [q \in DOMAIN s.cache \cup {pt} |-> IF q = pt THEN pg ELSE s.cache[q]]
             list == <<pt>> \o s.lru
  <1>1. t = [disk |-> s.disk, cache |-> cache2, lru |-> list]
    BY DEF Enter
  <1>2. /\ DOMAIN cache2 = DOMAIN s.cache \cup {pt} /\ cache2[pt] = pg
        /\ \A q \in DOMAIN s.cache : q # pt => cache2[q] = s.cache[q]
        /\ cache2 = [q \in DOMAIN cache2 |-> cache2[q]]
    OBVIOUS
  <1>3. pt \in Nat /\ Len(s.lru) \in Nat /\ MxLoadedPages \in Nat
    BY FilesParts, PgBlobAssumption
  <1>4. Lists(list, DOMAIN s.cache \cup {pt}) /\ Len(list) = Len(s.lru) + 1
    BY <1>3, ListedFirst DEF FilesOK
  <1> HIDE DEF t, cache2, list
  <1>5. t.disk = s.disk /\ t.cache = cache2 /\ t.lru = list /\ t = [disk |-> t.disk, cache |-> t.cache, lru |-> t.lru]
    BY <1>1
  <1>6. ASSUME NEW q \in DOMAIN cache2
        PROVE  /\ q \in 0..Len(s.disk) - 1 /\ PageOK(cache2[q])
               /\ ~cache2[q].dirty => SameData(cache2[q], s.disk[q + 1])
    <2>1. CASE q = pt
      BY <1>2, <2>1
    <2>2. CASE q # pt
      BY <1>2, <2>2 DEF FilesOK
    <2> QED BY <2>1, <2>2
  <1>7. Len(list) <= MxLoadedPages
    BY <1>3, <1>4
  <1>8. FilesOK(t)
    BY <1>2, <1>4, <1>5, <1>6, <1>7 DEF FilesOK
  <1>9. \A q : q # pt => PageOf(t, q) = PageOf(s, q)
    BY <1>2, <1>5 DEF PageOf
  <1> QED BY <1>2, <1>5, <1>8, <1>9 DEF t

LEMMA RelistedIs ==
  ASSUME NEW s, FilesOK(s), NEW pt \in DOMAIN s.cache
  PROVE  /\ FilesOK(ToStart(s, pt)) /\ ToStart(s, pt).disk = s.disk /\ ToStart(s, pt).cache = s.cache
         /\ FilesOK(ToEnd(s, pt)) /\ ToEnd(s, pt).disk = s.disk /\ ToEnd(s, pt).cache = s.cache
  <1> DEFINE less == Unlisted(s.lru, pt)
             rest == DOMAIN s.cache \ {pt}
             first == <<pt>> \o less
             last == Append(less, pt)
  <1>1. s = [disk |-> s.disk, cache |-> s.cache, lru |-> s.lru] /\ pt \in Nat /\ Len(s.lru) \in Nat
        /\ MxLoadedPages \in Nat /\ Len(s.lru) <= MxLoadedPages
    BY FilesParts, PgBlobAssumption DEF FilesOK
  <1>2. Lists(less, rest) /\ Len(less) = Len(s.lru) - 1
    BY UnlistedIs DEF FilesOK
  <1>3. rest \cup {pt} = DOMAIN s.cache /\ pt \notin rest
    OBVIOUS
  <1>4. ToStart(s, pt) = [s EXCEPT !.lru = first] /\ ToEnd(s, pt) = [s EXCEPT !.lru = last]
    BY DEF ToStart, ToEnd
  <1> HIDE DEF less, rest
  <1>5. /\ Lists(first, DOMAIN s.cache) /\ Len(first) = Len(less) + 1
        /\ Lists(last, DOMAIN s.cache) /\ Len(last) = Len(less) + 1
    BY <1>1, <1>2, <1>3, ListedFirst, ListedLast
  <1> HIDE DEF first, last
  <1>6. Len(first) <= MxLoadedPages /\ Len(last) <= MxLoadedPages
    BY <1>1, <1>2, <1>5
  <1>7. /\ ToStart(s, pt) = [disk |-> s.disk, cache |-> s.cache, lru |-> first]
        /\ ToEnd(s, pt) = [disk |-> s.disk, cache |-> s.cache, lru |-> last]
    BY <1>1, <1>4
  <1>8. ASSUME NEW t, NEW list, t = [disk |-> s.disk, cache |-> s.cache, lru |-> list],
               Lists(list, DOMAIN s.cache), Len(list) <= MxLoadedPages
        PROVE  FilesOK(t) /\ t.disk = s.disk /\ t.cache = s.cache
    <2>1. t.disk = s.disk /\ t.cache = s.cache /\ t.lru = list
      BY <1>8
    <2> QED BY <1>8, <2>1 DEF FilesOK
  <1> QED BY <1>5, <1>6, <1>7, <1>8

LEMMA LoadPageIs ==
  ASSUME NEW s, FilesOK(s), NEW pt \in 0..Len(s.disk) - 1
  PROVE  /\ FilesOK(LoadPage(s, pt)) /\ SamePages(s, LoadPage(s, pt))
         /\ pt \in DOMAIN LoadPage(s, pt).cache
  <1>1. CASE pt \in DOMAIN s.cache
    <2>1. LoadPage(s, pt) = ToStart(s, pt)
      BY <1>1 DEF LoadPage
    <2> QED BY <1>1, <2>1, RelistedIs DEF SamePages, SameData, PageOf
  <1>2. CASE pt \notin DOMAIN s.cache
    <2> DEFINE e == Evict(s)
               old == e.disk[pt + 1]
               pg == [old EXCEPT !.dirty = ~old.dirty]
               t == Enter(e, pt, pg)
    <2>1. LoadPage(s, pt) = t
      BY <1>2 DEF LoadPage
    <2>2. /\ FilesOK(e) /\ SamePages(s, e) /\ Len(e.lru) < MxLoadedPages /\ pt \notin DOMAIN e.cache
          /\ Len(e.disk) = Len(s.disk)
      BY <1>2, EvictIs DEF SamePages
    <2> HIDE DEF e
    <2>3. PageOK(old) /\ (~old.dirty) \in BOOLEAN
      BY <2>2, FilesParts
    <2> HIDE DEF old
    <2>4. PageOK(pg) /\ SameData(old, pg)
      BY <2>3, FlagTurned
    <2> HIDE DEF pg
    <2>5. SameData(pg, old)
      BY <2>4 DEF SameData
    <2>6. /\ FilesOK(t) /\ t.disk = e.disk
          /\ DOMAIN t.cache = DOMAIN e.cache \cup {pt} /\ t.cache[pt] = pg
          /\ \A q : q # pt => PageOf(t, q) = PageOf(e, q)
      BY <2>2, <2>4, <2>5, EnterIs DEF old
    <2> HIDE DEF t
    <2>7. PageOf(e, pt) = old /\ PageOf(t, pt) = pg
      BY <2>2, <2>6 DEF PageOf, old
    <2>8. ASSUME NEW q \in 0..Len(s.disk) - 1 PROVE SameData(PageOf(s, q), PageOf(t, q))
      <3>1. SameData(PageOf(s, q), PageOf(e, q))
        BY <2>2 DEF SamePages
      <3>2. SameData(PageOf(e, q), PageOf(t, q))
        <4>1. CASE q = pt
          BY <2>4, <2>7, <4>1
        <4>2. CASE q # pt
          BY <2>6, <4>2 DEF SameData
        <4> QED BY <4>1, <4>2
      <3> QED BY <3>1, <3>2, SameDataTwice
    <2>9. SamePages(s, t)
      BY <2>2, <2>6, <2>8 DEF SamePages
    <2> QED BY <2>1, <2>6, <2>9
  <1> QED BY <1>1, <1>2

LEMMA CreateNewPageIs ==
  ASSUME NEW s, FilesOK(s)
  PROVE  LET t == CreateNewPage(s)
             pt == Len(s.disk)
         IN  /\ FilesOK(t) /\ Len(t.disk) = pt + 1
             /\ pt \in DOMAIN t.cache /\ t.cache[pt] = InitPage
             /\ \A q \in 0..pt - 1 : SameData(PageOf(s, q), PageOf(t, q))
  <1> DEFINE pt == Len(s.disk)
             e == Evict(s)
             clean == [InitPage EXCEPT !.dirty = FALSE]
             longer == Append(e.disk, clean)
             f == [e EXCEPT !.disk = longer]
             t == Enter(f, pt, InitPage)
  <1>1. CreateNewPage(s) = t
    BY DEF CreateNewPage
  <1>2. /\ FilesOK(e) /\ SamePages(s, e) /\ Len(e.lru) < MxLoadedPages /\ Len(e.disk) = pt /\ pt \in Nat
    BY EvictIs, FilesParts DEF SamePages
  <1>3. PageOK(clean) /\ clean \in PageRec
    BY InitPageOK, FlagTurned DEF PageOK
  <1>4. PageOK(InitPage) /\ InitPage.dirty = TRUE
    BY InitPageOK DEF InitPage
  <1> HIDE DEF e, clean, pt
  <1>5. /\ longer \in Seq(PageRec) /\ Len(longer) = pt + 1 /\ longer[pt + 1] = clean
        /\ \A n \in 1..pt : longer[n] = e.disk[n]
    BY <1>2, <1>3, AppendProperties DEF FilesOK
  <1> HIDE DEF longer
  <1>6. f = [disk |-> longer, cache |-> e.cache, lru |-> e.lru]
    <2>1. e = [disk |-> e.disk, cache |-> e.cache, lru |-> e.lru]
      BY <1>2 DEF FilesOK
    <2> QED BY <2>1
  <1> HIDE DEF f
  <1>7. f.disk = longer /\ f.cache = e.cache /\ f.lru = e.lru
    BY <1>6
  <1>8. \A q \in DOMAIN e.cache : q \in 0..pt - 1 /\ q \in 0..(pt + 1) - 1 /\ q + 1 \in 1..pt /\ q # pt
    BY <1>2 DEF FilesOK
  <1>9. FilesOK(f)
    <2>1. \A n \in 1..pt + 1 : PageOK(longer[n])
      <3>1. \A n \in 1..pt + 1 : n = pt + 1 \/ n \in 1..pt
        BY <1>2
      <3> QED BY <1>2, <1>3, <1>5, <3>1 DEF FilesOK
    <2>2. ASSUME NEW q \in DOMAIN e.cache
          PROVE  /\ q \in 0..Len(longer) - 1 /\ PageOK(e.cache[q])
                 /\ ~e.cache[q].dirty => SameData(e.cache[q], longer[q + 1])
      <3>1. longer[q + 1] = e.disk[q + 1]
        BY <1>5, <1>8
      <3>2. PageOK(e.cache[q]) /\ (~e.cache[q].dirty => SameData(e.cache[q], e.disk[q + 1]))
        BY <1>2 DEF FilesOK
      <3> QED BY <1>5, <1>8, <3>1, <3>2
    <2>3. e.cache = [q \in DOMAIN e.cache |-> e.cache[q]] /\ Lists(e.lru, DOMAIN e.cache) /\ Len(e.lru) <= MxLoadedPages
      BY <1>2 DEF FilesOK
    <2> QED BY <1>5, <1>6, <1>7, <2>1, <2>2, <2>3 DEF FilesOK
  <1>10. pt \in 0..Len(f.disk) - 1 /\ pt \notin DOMAIN f.cache /\ Len(f.lru) < MxLoadedPages
    BY <1>2, <1>5, <1>7, <1>8
  <1>11. /\ FilesOK(t) /\ t.disk = f.disk
         /\ DOMAIN t.cache = DOMAIN f.cache \cup {pt} /\ t.cache[pt] = InitPage
         /\ \A q : q # pt => PageOf(t, q) = PageOf(f, q)
    BY <1>4, <1>9, <1>10, EnterIs
  <1> HIDE DEF t
  <1>12. ASSUME NEW q \in 0..pt - 1 PROVE SameData(PageOf(s, q), PageOf(t, q))
    <2>1. q # pt /\ q + 1 \in 1..pt
      BY <1>2
    <2>2. PageOf(t, q) = PageOf(e, q)
      BY <1>5, <1>7, <1>11, <2>1 DEF PageOf
    <2> QED BY <1>2, <2>2 DEF SamePages, pt
  <1> QED BY <1>1, <1>5, <1>7, <1>11, <1>12 DEF pt

LEMMA WriteIs ==
  ASSUME NEW s, FilesOK(s), NEW pt \in DOMAIN s.cache, NEW pg, PageOK(pg), ShouldSave(pg)
  PROVE  LET t == Write(s, pt, pg)
         IN  /\ FilesOK(t) /\ t.disk = s.disk /\ PageOf(t, pt) = pg
             /\ DOMAIN t.cache = DOMAIN s.cache /\ t.cache[pt] = pg
             /\ \A q : q # pt => PageOf(t, q) = PageOf(s, q)
  <1> DEFINE t == Write(s, pt, pg)
             cache2 == [s.cache EXCEPT ![pt] = pg]
  <1>1. s = [disk |-> s.disk, cache |-> s.cache, lru |-> s.lru] /\ s.cache = [q \in DOMAIN s.cache |-> s.cache[q]]
    BY DEF FilesOK
  <1>2. t = [s EXCEPT !.cache = cache2]
    BY DEF Write
  <1>3. /\ DOMAIN cache2 = DOMAIN s.cache /\ cache2[pt] = pg
        /\ \A q \in DOMAIN s.cache : q # pt => cache2[q] = s.cache[q]
        /\ cache2 = [q \in DOMAIN cache2 |-> cache2[q]]
    BY <1>1
  <1> HIDE DEF t, cache2
  <1>4. t = [disk |-> s.disk, cache |-> cache2, lru |-> s.lru]
    BY <1>1, <1>2
  <1>5. t.disk = s.disk /\ t.cache = cache2 /\ t.lru = s.lru
    BY <1>4
  <1>6. ASSUME NEW q \in DOMAIN cache2
        PROVE  /\ q \in 0..Len(s.disk) - 1 /\ PageOK(cache2[q])
               /\ ~cache2[q].dirty => SameData(cache2[q], s.disk[q + 1])
    <2>1. CASE q = pt
      BY <1>3, <2>1 DEF FilesOK, ShouldSave
    <2>2. CASE q # pt
      BY <1>3, <2>2 DEF FilesOK
    <2> QED BY <2>1, <2>2
  <1>7. FilesOK(t)
    BY <1>3, <1>4, <1>5, <1>6 DEF FilesOK
  <1>8. PageOf(t, pt) = pg /\ \A q : q # pt => PageOf(t, q) = PageOf(s, q)
    BY <1>3, <1>5 DEF PageOf
  <1> QED BY <1>3, <1>5, <1>7, <1>8 DEF t
(***************************************************************************)
(* The invariant: files, free-space map and blobs agree.                   *)
(***************************************************************************)
Agree(s, ls, bs) ==
  /\ FilesOK(s) /\ Len(s.disk) <= MaxPages
  /\ bs \in [Ptr -> Data \cup {NoData}]
  /\ \A p \in Ptr : bs[p] = IF p[1] < Len(s.disk) THEN GetItem(PageOf(s, p[1]), p[2]) ELSE NoData
  /\ TreeOK(ls) /\ Len(ls[1]) = Len(s.disk)
  /\ \A pt \in 0..Len(s.disk) - 1 : ls[1][pt + 1] = GetFreeMem(PageOf(s, pt))

IInv ==
  /\ Agree(files, layers, blobs)
  /\ ~MainDirtyP => main = layers

LEMMA FreeMemIs ==
  ASSUME NEW pg, PageOK(pg)
  PROVE  GetFreeMem(pg) \in Nat
  <1>1. pg.end \in Nat /\ Len(pg.items) \in Nat /\ Len(pg.items) <= pg.end
    BY PageParts DEF PageOK
  <1> QED BY <1>1 DEF GetFreeMem

LEMMA PtrIs ==
  ASSUME NEW p \in Ptr
  PROVE  p = <<p[1], p[2]>> /\ p[1] \in Nat /\ p[1] < MaxPages /\ p[2] \in Nat /\ p[2] < PageSize
  BY PgBlobAssumption DEF Ptr, Page

LEMMA IsPtr ==
  ASSUME NEW pt \in Nat, pt < MaxPages, NEW i \in Nat, i < PageSize
  PROVE  <<pt, i>> \in Ptr
  BY PgBlobAssumption DEF Ptr, Page

\* Pages that moved between the cache and the files change nothing else.
LEMMA AgreeMoved ==
  ASSUME NEW s, NEW t, NEW ls, NEW bs, Agree(s, ls, bs), FilesOK(t), SamePages(s, t)
  PROVE  Agree(t, ls, bs)
  <1>1. FilesOK(s) /\ Len(t.disk) = Len(s.disk) /\ Len(s.disk) \in Nat
    BY FilesParts DEF Agree, SamePages
  <1>2. ASSUME NEW pt \in 0..Len(s.disk) - 1
        PROVE  /\ GetFreeMem(PageOf(t, pt)) = GetFreeMem(PageOf(s, pt))
               /\ \A i \in Nat : GetItem(PageOf(t, pt), i) = GetItem(PageOf(s, pt), i)
    <2>1. PageOK(PageOf(s, pt)) /\ PageOK(PageOf(t, pt)) /\ SameData(PageOf(s, pt), PageOf(t, pt))
      BY <1>1, FilesParts DEF SamePages
    <2>2. PageOf(t, pt) \in PageRec
      BY <2>1 DEF PageOK
    <2> QED BY <2>1, <2>2, SameDataIs
  <1>3. ASSUME NEW p \in Ptr
        PROVE  bs[p] = IF p[1] < Len(t.disk) THEN GetItem(PageOf(t, p[1]), p[2]) ELSE NoData
    <2>1. p[1] \in Nat /\ p[2] \in Nat
      BY PtrIs
    <2>2. p[1] < Len(s.disk) => p[1] \in 0..Len(s.disk) - 1
      BY <1>1, <2>1
    <2>3. bs[p] = IF p[1] < Len(s.disk) THEN GetItem(PageOf(s, p[1]), p[2]) ELSE NoData
      BY DEF Agree
    <2> QED BY <1>1, <1>2, <2>1, <2>2, <2>3
  <1> QED BY <1>1, <1>2, <1>3 DEF Agree

\* A page is written anew: its place in the tree and what is under its pointers follow.
LEMMA AgreeWritten ==
  ASSUME NEW s, NEW ls, NEW bs, Agree(s, ls, bs), NEW pt \in DOMAIN s.cache,
         NEW pg, PageOK(pg), ShouldSave(pg),
         NEW bs2 \in [Ptr -> Data \cup {NoData}],
         \A p \in Ptr : bs2[p] = IF p[1] = pt THEN GetItem(pg, p[2]) ELSE bs[p]
  PROVE  Agree(Write(s, pt, pg), ChangeVal(ls, pt, GetFreeMem(pg)), bs2)
  <1> DEFINE t == Write(s, pt, pg)
             ls2 == ChangeVal(ls, pt, GetFreeMem(pg))
  <1>1. /\ FilesOK(t) /\ t.disk = s.disk /\ PageOf(t, pt) = pg
        /\ \A q : q # pt => PageOf(t, q) = PageOf(s, q)
    <2>1. FilesOK(s)
      BY DEF Agree
    <2> QED BY <2>1, WriteIs
  <1>2. /\ FilesOK(s) /\ Len(s.disk) \in Nat /\ pt \in 0..Len(s.disk) - 1 /\ pt \in Nat /\ Len(ls[1]) = Len(s.disk)
        /\ TreeOK(ls) /\ Len(s.disk) <= MaxPages /\ GetFreeMem(pg) \in Nat
    BY FilesParts, FreeMemIs DEF Agree, FilesOK
  <1>3. TreeOK(ls2) /\ ls2[1] = [ls[1] EXCEPT ![pt + 1] = GetFreeMem(pg)]
    BY <1>2, ChangeValIs
  <1>4. ls[1] \in Seq(Nat)
    <2>1. ls \in Seq(Seq(Nat)) /\ Len(ls) >= 1 /\ Len(ls) \in Nat
      BY <1>2 DEF TreeOK
    <2>2. 1 \in 1..Len(ls)
      BY <2>1
    <2> QED BY <2>1, <2>2, ElementOfSeq
  <1> HIDE DEF t, ls2
  <1>5. Len(ls2[1]) = Len(s.disk) /\ \A n \in 1..Len(s.disk) : ls2[1][n] = IF n = pt + 1 THEN GetFreeMem(pg) ELSE ls[1][n]
    <2>1. pt + 1 \in 1..Len(ls[1])
      BY <1>2
    <2> QED BY <1>2, <1>3, <1>4, <2>1, ExceptSeq
  <1>6. ASSUME NEW q \in 0..Len(s.disk) - 1 PROVE ls2[1][q + 1] = GetFreeMem(PageOf(t, q))
    <2>1. q + 1 \in 1..Len(s.disk) /\ q \in Nat
      BY <1>2
    <2>2. CASE q = pt
      BY <1>1, <1>5, <2>1, <2>2
    <2>3. CASE q # pt
      <3>1. q + 1 # pt + 1
        BY <1>2, <2>1, <2>3
      <3>2. ls2[1][q + 1] = ls[1][q + 1]
        BY <1>5, <2>1, <3>1
      <3> QED BY <1>1, <2>3, <3>2 DEF Agree
    <2> QED BY <2>2, <2>3
  <1>7. ASSUME NEW p \in Ptr
        PROVE  bs2[p] = IF p[1] < Len(t.disk) THEN GetItem(PageOf(t, p[1]), p[2]) ELSE NoData
    <2>1. CASE p[1] = pt
      <3>1. pt < Len(t.disk)
        BY <1>1, <1>2
      <3> QED BY <1>1, <2>1, <3>1
    <2>2. CASE p[1] # pt
      BY <1>1, <2>2 DEF Agree
    <2> QED BY <2>1, <2>2
  <1> QED BY <1>1, <1>2, <1>3, <1>5, <1>6, <1>7 DEF Agree, t, ls2

\* A new page with one blob.
LEMMA AgreeAdded ==
  ASSUME NEW s, NEW ls, NEW bs, Agree(s, ls, bs), NEW d \in Data, Len(s.disk) < MaxPages
  PROVE  LET now == AddItem(InitPage, d)
             p == <<Len(s.disk), 0>>
         IN  /\ Agree(Write(CreateNewPage(s), Len(s.disk), now), AddVal(ls, GetFreeMem(now)), [bs EXCEPT ![p] = d])
             /\ p \in Ptr /\ bs[p] = NoData
  <1> DEFINE pt == Len(s.disk)
             now == AddItem(InitPage, d)
             p0 == <<pt, 0>>
             bs2 == [bs EXCEPT ![p0] = d]
             c == CreateNewPage(s)
             t == Write(c, pt, now)
             ls2 == AddVal(ls, GetFreeMem(now))
  <1>1. /\ FilesOK(s) /\ pt \in Nat /\ pt < MaxPages /\ Len(ls[1]) = pt /\ TreeOK(ls) /\ MaxPages \in Nat
        /\ bs \in [Ptr -> Data \cup {NoData}]
    BY FilesParts, PgBlobAssumption DEF Agree
  <1>2. /\ PageOK(now) /\ now.dirty = TRUE /\ GetItem(now, 0) = d /\ \A j \in Nat : j # 0 => GetItem(now, j) = NoData
    <2>1. /\ PageSize \in Nat /\ Size[d] \in Nat /\ Size[d] <= PageSize - 1 /\ Len(<<>>) = 0
      BY SizeIs
    <2>2. InitPage.items = <<>> /\ InitPage.end = PageSize
      BY DEF InitPage
    <2>3. CanStoreBf(InitPage, d) /\ 0 \in 0..Len(InitPage.items) /\ ~(0 < Len(InitPage.items))
      BY <2>1, <2>2 DEF CanStoreBf, GetFreeMem
    <2>4. Stored(InitPage, 0, d) = now
      BY <2>3 DEF Stored
    <2>5. 0 + 1 \notin Live(InitPage)
      BY <2>2, <2>1 DEF Live
    <2>6. /\ PageOK(Stored(InitPage, 0, d)) /\ Stored(InitPage, 0, d).dirty = TRUE
          /\ GetItem(Stored(InitPage, 0, d), 0) = d
          /\ \A j \in Nat : j # 0 => GetItem(Stored(InitPage, 0, d), j) = GetItem(InitPage, j)
      BY <2>3, <2>5, InitPageOK, StoredIs
    <2> HIDE DEF now
    <2> QED BY <2>4, <2>6, InitPageOK
  <1>3. GetFreeMem(now) \in Nat
    BY <1>2, FreeMemIs
  <1> HIDE DEF now
  <1>4. /\ FilesOK(c) /\ Len(c.disk) = pt + 1 /\ pt \in DOMAIN c.cache
        /\ \A q \in 0..pt - 1 : SameData(PageOf(s, q), PageOf(c, q))
    BY <1>1, CreateNewPageIs
  <1> HIDE DEF c
  <1>5. /\ FilesOK(t) /\ t.disk = c.disk /\ PageOf(t, pt) = now
        /\ \A q : q # pt => PageOf(t, q) = PageOf(c, q)
    <2>1. PageOK(now) /\ ShouldSave(now)
      BY <1>2 DEF ShouldSave
    <2>2. FilesOK(c) /\ pt \in DOMAIN c.cache
      BY <1>4
    <2> HIDE DEF pt
    <2> QED BY <2>1, <2>2, WriteIs
  <1> HIDE DEF t
  <1>6. TreeOK(ls2) /\ ls2[1] = Append(ls[1], GetFreeMem(now))
    BY <1>1, <1>3, AddValIs
  <1>7. ls[1] \in Seq(Nat)
    <2>1. ls \in Seq(Seq(Nat)) /\ Len(ls) >= 1 /\ Len(ls) \in Nat
      BY <1>1 DEF TreeOK
    <2>2. 1 \in 1..Len(ls)
      BY <2>1
    <2> QED BY <2>1, <2>2, ElementOfSeq
  <1> HIDE DEF ls2
  <1>8. Len(ls2[1]) = pt + 1 /\ ls2[1][pt + 1] = GetFreeMem(now) /\ \A n \in 1..pt : ls2[1][n] = ls[1][n]
    BY <1>1, <1>3, <1>6, <1>7, AppendProperties
  <1>9. ASSUME NEW q \in 0..pt - 1
        PROVE  /\ GetFreeMem(PageOf(t, q)) = GetFreeMem(PageOf(s, q))
               /\ \A i \in Nat : GetItem(PageOf(t, q), i) = GetItem(PageOf(s, q), i)
    <2>1. q # pt /\ q \in 0..Len(c.disk) - 1
      BY <1>1, <1>4
    <2>2. PageOf(t, q) = PageOf(c, q) /\ SameData(PageOf(s, q), PageOf(c, q))
      BY <1>4, <1>5, <2>1
    <2>3. PageOK(PageOf(s, q)) /\ PageOK(PageOf(c, q))
      BY <1>1, <1>4, <2>1, FilesParts
    <2>4. PageOf(c, q) \in PageRec
      BY <2>3 DEF PageOK
    <2> QED BY <2>2, <2>3, <2>4, SameDataIs
  <1>10. ASSUME NEW q \in 0..(pt + 1) - 1 PROVE ls2[1][q + 1] = GetFreeMem(PageOf(t, q))
    <2>1. CASE q = pt
      BY <1>5, <1>8, <2>1
    <2>2. CASE q # pt
      <3>1. q \in 0..pt - 1 /\ q + 1 \in 1..pt
        BY <1>1, <2>2
      <3> QED BY <1>8, <1>9, <3>1 DEF Agree, pt
    <2> QED BY <2>1, <2>2
  <1>11. p0 \in Ptr /\ bs[p0] = NoData
    <2>1. PageSize \in Nat /\ 0 < PageSize
      BY SizeIs
    <2>2. p0 \in Ptr
      BY <1>1, <2>1, IsPtr
    <2>3. ~(p0[1] < pt)
      BY <1>1
    <2> QED BY <2>2, <2>3 DEF Agree, pt
  <1>12. bs2 \in [Ptr -> Data \cup {NoData}] /\ \A p \in Ptr : bs2[p] = IF p = p0 THEN d ELSE bs[p]
    BY <1>1
  <1>13. ASSUME NEW p \in Ptr
         PROVE  bs2[p] = IF p[1] < pt + 1 THEN GetItem(PageOf(t, p[1]), p[2]) ELSE NoData
    <2>1. p = <<p[1], p[2]>> /\ p[1] \in Nat /\ p[2] \in Nat
      BY PtrIs
    <2>2. bs[p] = IF p[1] < pt THEN GetItem(PageOf(s, p[1]), p[2]) ELSE NoData
      BY DEF Agree, pt
    <2>3. p = p0 <=> p[1] = pt /\ p[2] = 0
      BY <2>1
    <2> HIDE DEF bs2, p0, pt
    <2>4. CASE p[1] = pt
      <3>1. p[1] < pt + 1 /\ ~(p[1] < pt)
        BY <1>1, <2>4
      <3>2. GetItem(PageOf(t, p[1]), p[2]) = GetItem(now, p[2])
        BY <1>5, <2>4
      <3>3. CASE p[2] = 0
        BY <1>2, <1>12, <2>3, <2>4, <3>1, <3>2, <3>3
      <3>4. CASE p[2] # 0
        BY <1>2, <1>12, <2>1, <2>2, <2>3, <3>1, <3>2, <3>4
      <3> QED BY <3>3, <3>4
    <2>5. CASE p[1] < pt
      <3>1. p[1] # pt /\ p[1] \in 0..pt - 1 /\ p[1] < pt + 1
        BY <1>1, <2>1, <2>5
      <3>2. GetItem(PageOf(t, p[1]), p[2]) = GetItem(PageOf(s, p[1]), p[2])
        BY <1>9, <2>1, <3>1
      <3> QED BY <1>12, <2>2, <2>3, <2>5, <3>1, <3>2
    <2>6. CASE ~(p[1] < pt + 1)
      <3>1. ~(p[1] < pt) /\ p[1] # pt
        BY <1>1, <2>1, <2>6
      <3> QED BY <1>12, <2>2, <2>3, <2>6, <3>1
    <2> QED BY <1>1, <2>1, <2>4, <2>5, <2>6
  <1>14. Agree(t, ls2, bs2)
    <2> HIDE DEF bs2, p0
    <2>1. pt + 1 <= MaxPages
      BY <1>1
    <2> HIDE DEF pt
    <2> QED BY <1>4, <1>5, <1>6, <1>8, <1>10, <1>12, <1>13, <2>1 DEF Agree
  <1> QED BY <1>11, <1>14 DEF t, c, now, ls2

\* The step to files s, when s are files.
LEMMA BecomesIs ==
  ASSUME NEW s, FilesOK(s), Becomes(s)
  PROVE  files' = s
  <1>1. s = [disk |-> s.disk, cache |-> s.cache, lru |-> s.lru]
    BY DEF FilesOK
  <1>2. disk' = s.disk /\ cache' = s.cache /\ lru' = s.lru
    BY DEF Becomes
  <1> QED BY <1>1, <1>2 DEF files
(***************************************************************************)
(* The steps.                                                              *)
(***************************************************************************)
\* What is under the pointers of a page in the cache.
LEMMA ShownIs ==
  ASSUME NEW s, NEW ls, NEW bs, Agree(s, ls, bs), NEW pt \in DOMAIN s.cache
  PROVE  /\ \A p \in Ptr : p[1] = pt => bs[p] = GetItem(s.cache[pt], p[2])
         /\ PageOK(s.cache[pt]) /\ pt \in Nat /\ pt < MaxPages /\ pt + 1 \in 1..Len(ls[1])
         /\ ls[1][pt + 1] = GetFreeMem(s.cache[pt])
  <1>1. FilesOK(s) /\ pt \in 0..Len(s.disk) - 1 /\ PageOf(s, pt) = s.cache[pt] /\ PageOK(s.cache[pt])
    BY DEF Agree, FilesOK, PageOf
  <1>2. Len(s.disk) \in Nat /\ Len(s.disk) <= MaxPages /\ MaxPages \in Nat /\ Len(ls[1]) = Len(s.disk)
    BY <1>1, FilesParts, PgBlobAssumption DEF Agree
  <1>3. pt \in Nat /\ pt < Len(s.disk) /\ pt < MaxPages /\ pt + 1 \in 1..Len(ls[1])
    BY <1>1, <1>2
  <1> QED BY <1>1, <1>3 DEF Agree

\* A pointer with a blob points to an item of its page.
LEMMA HeldIs ==
  ASSUME NEW pg, PageOK(pg), NEW i \in Nat, GetItem(pg, i) # NoData
  PROVE  i + 1 \in Live(pg) /\ i < Len(pg.items)
  <1>1. pg \in PageRec /\ Len(pg.items) \in Nat
    BY PageParts DEF PageOK
  <1>2. i < Len(pg.items) /\ pg.items[i + 1].len # 0
    BY <1>1, NoItemIs
  <1> QED BY <1>1, <1>2 DEF Live

LEMMA PutIntoIs ==
  ASSUME NEW s, Agree(s, layers, blobs), NEW pt \in DOMAIN s.cache, NEW d \in Data,
         CanStoreBf(s.cache[pt], d), PutInto(s, pt, d)
  PROVE  IInv' /\ \E p \in Ptr : blobs[p] = NoData /\ blobs' = [blobs EXCEPT ![p] = d]
  <1> DEFINE pg == s.cache[pt]
             reused == DeletedItems(pg) # {}
             at == IF reused THEN Min(DeletedItems(pg)) ELSE Len(pg.items)
  <1>1. /\ PageOK(pg) /\ pt \in Nat /\ pt < MaxPages
        /\ \A p \in Ptr : p[1] = pt => blobs[p] = GetItem(pg, p[2])
        /\ blobs \in [Ptr -> Data \cup {NoData}]
    BY ShownIs DEF Agree
  <1>2. Len(pg.items) \in Nat /\ pg \in PageRec /\ pg.end \in Nat /\ pg.end <= PageSize /\ PageSize \in Nat
    BY <1>1, PageParts DEF PageOK
  <1>3. at \in 0..Len(pg.items) /\ (at < Len(pg.items) <=> reused) /\ (reused => pg.items[at + 1].len = 0)
    <2>1. CASE reused
      <3>1. DeletedItems(pg) \in SUBSET Nat
        BY <1>2 DEF DeletedItems
      <3>2. \E n \in DeletedItems(pg) : \A m \in DeletedItems(pg) : n <= m
        BY <2>1, <3>1, LeastIs
      <3>3. Min(DeletedItems(pg)) \in DeletedItems(pg)
        BY <3>2 DEF Min
      <3>4. at \in DeletedItems(pg)
        BY <2>1, <3>3
      <3> HIDE DEF at
      <3> QED BY <1>2, <2>1, <3>4 DEF DeletedItems, Item
    <2>2. CASE ~reused
      BY <1>2, <2>2
    <2> QED BY <2>1, <2>2
  <1>4. \E i \in 0..Len(pg.items) :
          /\ i + 1 \notin Live(pg)
          /\ Becomes(Write(s, pt, Stored(pg, i, d)))
          /\ layers' = ChangeVal(layers, pt, GetFreeMem(Stored(pg, i, d))) /\ MainDirtyP' = TRUE
          /\ blobs' = [blobs EXCEPT ![<<pt, i>>] = d]
    <2>1. /\ Becomes(Write(s, pt, Stored(pg, at, d)))
          /\ layers' = ChangeVal(layers, pt, GetFreeMem(Stored(pg, at, d))) /\ MainDirtyP' = TRUE
          /\ blobs' = [blobs EXCEPT ![<<pt, at>>] = d]
      BY <1>3 DEF PutInto, MainChanges, Returns, Stored
    <2>2. at + 1 \notin Live(pg)
      <3> HIDE DEF at
      <3> QED BY <1>2, <1>3 DEF Live
    <2> HIDE DEF at, pg
    <2> QED BY <1>3, <2>1, <2>2
  <1> HIDE DEF at
  <1>4a. PICK i \in 0..Len(pg.items) :
          /\ i + 1 \notin Live(pg)
          /\ Becomes(Write(s, pt, Stored(pg, i, d)))
          /\ layers' = ChangeVal(layers, pt, GetFreeMem(Stored(pg, i, d))) /\ MainDirtyP' = TRUE
          /\ blobs' = [blobs EXCEPT ![<<pt, i>>] = d]
    BY <1>4
  <1> DEFINE now == Stored(pg, i, d)
             p0 == <<pt, i>>
             bs2 == [blobs EXCEPT ![p0] = d]
  <1>5. /\ PageOK(now) /\ now.dirty = TRUE
        /\ GetItem(now, i) = d
        /\ \A j \in Nat : j # i => GetItem(now, j) = GetItem(pg, j)
    <2> HIDE DEF pg
    <2>1. CanStoreBf(pg, d)
      BY DEF pg
    <2>2. PageOK(pg)
      BY <1>1
    <2>3. i + 1 \notin Live(pg)
      BY <1>4a
    <2> QED BY <2>1, <2>2, <2>3, StoredIs
  <1>6. i \in Nat /\ i < PageSize
    <2>1. Size[d] \in Nat /\ Size[d] >= 1 /\ pg.end - Len(pg.items) >= Size[d] + 1
      BY SizeIs DEF CanStoreBf, GetFreeMem
    <2> HIDE DEF pg
    <2> QED BY <1>2, <1>4a, <2>1
  <1>7. p0 \in Ptr
    BY <1>1, <1>6, IsPtr
  <1>8. blobs[p0] = NoData
    <2>1. blobs[p0] = GetItem(pg, i)
      BY <1>1, <1>7
    <2>2. ~(i < Len(pg.items)) \/ pg.items[i + 1].len = 0
      BY <1>2, <1>6, <1>4a DEF Live
    <2> QED BY <1>2, <1>6, <2>1, <2>2, NoItemIs
  <1> HIDE DEF now
  <1>9. bs2 \in [Ptr -> Data \cup {NoData}] /\ \A p \in Ptr : bs2[p] = IF p = p0 THEN d ELSE blobs[p]
    BY <1>1, <1>7
  <1>10. ASSUME NEW p \in Ptr PROVE bs2[p] = IF p[1] = pt THEN GetItem(now, p[2]) ELSE blobs[p]
    <2>1. p = <<p[1], p[2]>> /\ p[1] \in Nat /\ p[2] \in Nat
      BY PtrIs
    <2>2. p = p0 <=> p[1] = pt /\ p[2] = i
      BY <2>1
    <2> HIDE DEF bs2, p0
    <2>3. CASE p[1] = pt
      BY <1>1, <1>5, <1>9, <2>1, <2>2, <2>3
    <2>4. CASE p[1] # pt
      BY <1>9, <2>2, <2>4
    <2> QED BY <2>3, <2>4
  <1>11. Agree(Write(s, pt, now), ChangeVal(layers, pt, GetFreeMem(now)), bs2)
    <2>1. PageOK(now) /\ ShouldSave(now)
      BY <1>5 DEF ShouldSave
    <2> HIDE DEF pg, bs2
    <2> QED BY <1>9, <1>10, <2>1, AgreeWritten
  <1>12. files' = Write(s, pt, now)
    <2>1. Becomes(Write(s, pt, now))
      BY <1>4a DEF now
    <2>2. FilesOK(Write(s, pt, now))
      BY <1>11 DEF Agree
    <2> HIDE DEF now
    <2> QED BY <2>1, <2>2, BecomesIs
  <1>13. IInv'
    <2>1. layers' = ChangeVal(layers, pt, GetFreeMem(now)) /\ MainDirtyP' = TRUE /\ blobs' = bs2
      BY <1>4a DEF now
    <2> HIDE DEF now, bs2
    <2> QED BY <1>11, <1>12, <2>1 DEF IInv
  <1> QED BY <1>4a, <1>7, <1>8, <1>13

LEMMA PutIs ==
  ASSUME IInv, NEW d \in Data, Put(d)
  PROVE  IInv' /\ \E p \in Ptr : blobs[p] = NoData /\ blobs' = [blobs EXCEPT ![p] = d]
  <1>1. Agree(files, layers, blobs) /\ files.disk = disk /\ files.cache = cache /\ files.lru = lru
    BY DEF IInv, files
  <1>2. FilesOK(files) /\ TreeOK(layers) /\ Len(layers[1]) = Len(disk) /\ Len(disk) \in Nat
    BY <1>1, FilesParts DEF Agree
  <1>3. CASE Roomy(d) # {}
    <2> DEFINE n == Min(Roomy(d))
    <2>1. Lists(lru, DOMAIN cache)
      BY <1>1, <1>2 DEF FilesOK
    <2>2. DOMAIN lru = 1..Len(lru) /\ Len(lru) \in Nat
      BY <2>1 DEF Lists
    <2>3. Roomy(d) \in SUBSET Nat
      BY <2>2 DEF Roomy
    <2>4. \E m \in Roomy(d) : \A k \in Roomy(d) : m <= k
      BY <1>3, <2>3, LeastIs
    <2>5. n \in Roomy(d)
      BY <2>4 DEF Min
    <2> HIDE DEF n
    <2>6. n \in 1..Len(lru) /\ CanStoreBf(cache[lru[n]], d)
      BY <2>2, <2>5 DEF Roomy
    <2>7. lru[n] \in DOMAIN cache
      BY <2>1, <2>6 DEF Lists
    <2>8. PutInto(files, lru[n], d)
      BY <1>3 DEF Put, n
    <2> QED BY <1>1, <2>6, <2>7, <2>8, PutIntoIs
  <1>4. CASE Roomy(d) = {} /\ HasFreePage(Size[d] + 1)
    <2> DEFINE pt == GetIndexOfMax(layers)
               s == LoadPage(files, pt)
    <2>1. layers[1] # <<>> /\ layers[1][pt + 1] >= Size[d] + 1
      BY <1>4 DEF HasFreePage
    <2>2. pt \in 0..Len(disk) - 1
      BY <1>2, <2>1, MaxIs
    <2>3. PutInto(s, pt, d)
      BY <1>4 DEF Put
    <2> HIDE DEF pt
    <2>4. FilesOK(s) /\ SamePages(files, s) /\ pt \in DOMAIN s.cache
      BY <1>1, <1>2, <2>2, LoadPageIs
    <2> HIDE DEF s
    <2>5. Agree(s, layers, blobs)
      BY <1>1, <2>4, AgreeMoved
    <2>6. CanStoreBf(s.cache[pt], d)
      BY <2>1, <2>4, <2>5, ShownIs DEF CanStoreBf
    <2> QED BY <2>3, <2>4, <2>5, <2>6, PutIntoIs
  <1>5. CASE Roomy(d) = {} /\ ~HasFreePage(Size[d] + 1)
    <2> DEFINE now == AddItem(InitPage, d)
               p0 == <<Len(disk), 0>>
               t == Write(CreateNewPage(files), Len(disk), now)
               ls2 == AddVal(layers, GetFreeMem(now))
               bs2 == [blobs EXCEPT ![p0] = d]
    <2>1. NewPage(files, layers, d) /\ Returns(Len(disk), 0, d)
      BY <1>5 DEF Put
    <2>2. Len(disk) < MaxPages /\ Becomes(t) /\ layers' = ls2 /\ MainDirtyP' = TRUE /\ blobs' = bs2
      BY <1>1, <2>1 DEF NewPage, MainChanges, Returns
    <2>3. Agree(t, ls2, bs2) /\ p0 \in Ptr /\ blobs[p0] = NoData
      BY <1>1, <2>2, AgreeAdded
    <2> HIDE DEF now, t, ls2
    <2>4. files' = t
      BY <2>2, <2>3, BecomesIs DEF Agree
    <2>5. IInv'
      BY <2>2, <2>3, <2>4 DEF IInv
    <2> QED BY <2>2, <2>3, <2>5
  <1> QED BY <1>3, <1>4, <1>5

LEMMA GetIs ==
  ASSUME IInv, NEW p \in Held, Get(p)
  PROVE  IInv' /\ blobs' = blobs
  <1> DEFINE s == LoadPage(files, p[1])
  <1>1. Agree(files, layers, blobs) /\ files.disk = disk /\ FilesOK(files)
    BY DEF IInv, files, Agree
  <1>2. p \in Ptr /\ p[1] \in 0..Len(disk) - 1
    <2>1. p \in Ptr /\ blobs[p] # NoData
      BY DEF Held
    <2>2. p[1] \in Nat /\ p[1] < Len(disk) /\ Len(disk) \in Nat
      BY <1>1, <2>1, PtrIs, FilesParts DEF Agree
    <2> QED BY <2>1, <2>2
  <1>3. FilesOK(s) /\ SamePages(files, s)
    BY <1>1, <1>2, LoadPageIs
  <1>4. Becomes(s) /\ UNCHANGED <<layers, MainDirtyP, main, blobs>>
    BY DEF Get, free
  <1> HIDE DEF s
  <1>5. Agree(s, layers, blobs)
    BY <1>1, <1>3, AgreeMoved
  <1>6. files' = s
    BY <1>3, <1>4, BecomesIs
  <1> QED BY <1>4, <1>5, <1>6 DEF IInv

\* A page is written anew without a change of its free bytes: the tree stays.
LEMMA AgreeKept ==
  ASSUME NEW s, NEW ls, NEW bs, Agree(s, ls, bs), NEW pt \in DOMAIN s.cache,
         NEW pg, PageOK(pg), ShouldSave(pg), GetFreeMem(pg) = GetFreeMem(s.cache[pt]),
         NEW bs2 \in [Ptr -> Data \cup {NoData}],
         \A p \in Ptr : bs2[p] = IF p[1] = pt THEN GetItem(pg, p[2]) ELSE bs[p]
  PROVE  Agree(Write(s, pt, pg), ls, bs2)
  <1> DEFINE t == Write(s, pt, pg)
  <1>1. FilesOK(s) /\ PageOf(s, pt) = s.cache[pt] /\ pt \in 0..Len(s.disk) - 1 /\ Len(s.disk) \in Nat
    BY FilesParts DEF Agree, FilesOK, PageOf
  <1>2. /\ FilesOK(t) /\ t.disk = s.disk /\ PageOf(t, pt) = pg
        /\ \A q : q # pt => PageOf(t, q) = PageOf(s, q)
    BY <1>1, WriteIs
  <1> HIDE DEF t
  <1>3. ASSUME NEW q \in 0..Len(s.disk) - 1 PROVE ls[1][q + 1] = GetFreeMem(PageOf(t, q))
    <2>1. ls[1][q + 1] = GetFreeMem(PageOf(s, q))
      BY DEF Agree
    <2>2. CASE q = pt
      BY <1>1, <1>2, <2>1, <2>2
    <2>3. CASE q # pt
      BY <1>2, <2>1, <2>3
    <2> QED BY <2>2, <2>3
  <1>4. ASSUME NEW p \in Ptr
        PROVE  bs2[p] = IF p[1] < Len(t.disk) THEN GetItem(PageOf(t, p[1]), p[2]) ELSE NoData
    <2>1. CASE p[1] = pt
      <3>1. pt < Len(t.disk)
        BY <1>1, <1>2
      <3> QED BY <1>2, <2>1, <3>1
    <2>2. CASE p[1] # pt
      BY <1>2, <2>2 DEF Agree
    <2> QED BY <2>1, <2>2
  <1> QED BY <1>2, <1>3, <1>4 DEF Agree, t

\* The page of a pointer with a blob, once it is loaded.
LEMMA LoadedIs ==
  ASSUME IInv, NEW p \in Held
  PROVE  LET s == LoadPage(files, p[1])
             pg == s.cache[p[1]]
         IN  /\ p \in Ptr /\ p = <<p[1], p[2]>> /\ p[1] \in Nat /\ p[1] < MaxPages /\ p[2] \in Nat /\ p[2] < PageSize
             /\ Agree(s, layers, blobs) /\ Len(s.disk) = Len(disk) /\ p[1] \in DOMAIN s.cache
             /\ PageOK(pg) /\ p[2] + 1 \in Live(pg) /\ p[2] < Len(pg.items)
             /\ \A q \in Ptr : q[1] = p[1] => blobs[q] = GetItem(pg, q[2])
  <1> DEFINE s == LoadPage(files, p[1])
             pg == s.cache[p[1]]
  <1>1. Agree(files, layers, blobs) /\ files.disk = disk /\ FilesOK(files)
    BY DEF IInv, files, Agree
  <1>2. /\ p \in Ptr /\ p = <<p[1], p[2]>> /\ p[1] \in Nat /\ p[1] < MaxPages /\ p[2] \in Nat /\ p[2] < PageSize
        /\ blobs[p] # NoData
    BY PtrIs DEF Held
  <1>3. p[1] \in 0..Len(disk) - 1
    <2>1. p[1] < Len(disk) /\ Len(disk) \in Nat
      BY <1>1, <1>2, FilesParts DEF Agree
    <2> QED BY <1>2, <2>1
  <1>4. FilesOK(s) /\ SamePages(files, s) /\ p[1] \in DOMAIN s.cache
    BY <1>1, <1>3, LoadPageIs
  <1> HIDE DEF s
  <1>5. Agree(s, layers, blobs) /\ Len(s.disk) = Len(disk)
    BY <1>1, <1>4, AgreeMoved DEF SamePages
  <1>6. PageOK(pg) /\ \A q \in Ptr : q[1] = p[1] => blobs[q] = GetItem(pg, q[2])
    BY <1>4, <1>5, ShownIs
  <1> HIDE DEF pg
  <1>7. GetItem(pg, p[2]) # NoData
    BY <1>2, <1>6
  <1>8. p[2] + 1 \in Live(pg) /\ p[2] < Len(pg.items)
    BY <1>2, <1>6, <1>7, HeldIs
  <1> QED BY <1>2, <1>4, <1>5, <1>6, <1>8 DEF s, pg

\* A page becomes another one in the cache, and the free-space map follows.
LEMMA WriteStepIs ==
  ASSUME NEW s, Agree(s, layers, blobs), NEW pt \in DOMAIN s.cache, NEW pg, PageOK(pg), ShouldSave(pg),
         Becomes(Write(s, pt, pg)), MainChanges(ChangeVal(layers, pt, GetFreeMem(pg))),
         blobs' \in [Ptr -> Data \cup {NoData}],
         \A p \in Ptr : blobs'[p] = IF p[1] = pt THEN GetItem(pg, p[2]) ELSE blobs[p]
  PROVE  IInv'
  <1>1. \E bs2 \in [Ptr -> Data \cup {NoData}] :
          blobs' = bs2 /\ \A p \in Ptr : bs2[p] = IF p[1] = pt THEN GetItem(pg, p[2]) ELSE blobs[p]
    OBVIOUS
  <1>2. PICK bs2 \in [Ptr -> Data \cup {NoData}] :
          blobs' = bs2 /\ \A p \in Ptr : bs2[p] = IF p[1] = pt THEN GetItem(pg, p[2]) ELSE blobs[p]
    BY <1>1
  <1>4. Agree(Write(s, pt, pg), ChangeVal(layers, pt, GetFreeMem(pg)), bs2)
    BY <1>2, AgreeWritten
  <1>5. files' = Write(s, pt, pg)
    <2>1. FilesOK(Write(s, pt, pg))
      BY <1>4 DEF Agree
    <2> QED BY <2>1, BecomesIs
  <1> QED BY <1>2, <1>4, <1>5 DEF IInv, MainChanges

\* What is under the pointers when one page has one item anew, and one no more.
Shows(bs, pt, pg) == \A r \in Ptr : r[1] = pt => bs[r] = GetItem(pg, r[2])
HasMoved(old, pg, i, at, d) ==
  /\ GetItem(pg, at) = d
  /\ at # i => GetItem(pg, i) = NoData
  /\ \A j \in Nat : j # i /\ j # at => GetItem(pg, j) = GetItem(old, j)

SamePage(p, q) == p[1] = q[1]
Replaced(bs, p, q, d) == [bs EXCEPT ![p] = NoData, ![q] = d]

LEMMA MovedOneIs ==
  ASSUME NEW bs \in [Ptr -> Data \cup {NoData}], NEW p \in Ptr, NEW q \in Ptr, SamePage(p, q), NEW d \in Data,
         NEW pg, NEW old, Shows(bs, p[1], old), HasMoved(old, pg, p[2], q[2], d)
  PROVE  LET bs2 == Replaced(bs, p, q, d)
         IN  /\ bs2 \in [Ptr -> Data \cup {NoData}]
             /\ \A r \in Ptr : bs2[r] = IF r[1] = p[1] THEN GetItem(pg, r[2]) ELSE bs[r]
  <1> DEFINE bs2 == Replaced(bs, p, q, d)
  <1>1. /\ bs2 \in [Ptr -> Data \cup {NoData}]
        /\ \A r \in Ptr : bs2[r] = IF r = q THEN d ELSE IF r = p THEN NoData ELSE bs[r]
    BY DEF Replaced
  <1> HIDE DEF bs2
  <1>2. ASSUME NEW r \in Ptr PROVE bs2[r] = IF r[1] = p[1] THEN GetItem(pg, r[2]) ELSE bs[r]
    <2>1. /\ r = <<r[1], r[2]>> /\ p = <<p[1], p[2]>> /\ q = <<q[1], q[2]>> /\ r[2] \in Nat
      BY PtrIs
    <2>2. CASE r = q
      BY <1>1, <2>2 DEF HasMoved, SamePage
    <2>3. CASE r = p /\ r # q
      <3>1. q[2] # p[2]
        BY <2>1, <2>3 DEF SamePage
      <3> QED BY <1>1, <2>3, <3>1 DEF HasMoved
    <2>4. CASE r # p /\ r # q /\ r[1] = p[1]
      <3>1. r[2] # p[2] /\ r[2] # q[2]
        BY <2>1, <2>4 DEF SamePage
      <3>2. GetItem(pg, r[2]) = GetItem(old, r[2])
        BY <2>1, <3>1 DEF HasMoved
      <3>3. bs[r] = GetItem(old, r[2])
        BY <2>4 DEF Shows
      <3> QED BY <1>1, <2>4, <3>2, <3>3
    <2>5. CASE r # p /\ r # q /\ r[1] # p[1]
      BY <1>1, <2>5
    <2> QED BY <2>2, <2>3, <2>4, <2>5
  <1> QED BY <1>1, <1>2 DEF bs2

\* The first two arms of Put(Bf, Pt): the item is overwritten, and the item moves in its page.
LEMMA OverwriteIs ==
  ASSUME NEW s, Agree(s, layers, blobs), NEW p \in Ptr, p[1] \in DOMAIN s.cache, NEW d \in Data,
         p[2] + 1 \in Live(s.cache[p[1]]), Item(s.cache[p[1]], p[2]).len = Size[d],
         Overwrite(s, p, d), ~MainDirtyP => main = layers
  PROVE  IInv' /\ blobs' = [blobs EXCEPT ![p] = NoData, ![p] = d]
  <1> DEFINE pg == s.cache[p[1]]
             now == Overwritten(pg, p[2], d)
             bs2 == [blobs EXCEPT ![p] = NoData, ![p] = d]
  <1>1. /\ PageOK(pg) /\ p[2] \in Nat /\ p = <<p[1], p[2]>> /\ blobs \in [Ptr -> Data \cup {NoData}]
        /\ \A r \in Ptr : r[1] = p[1] => blobs[r] = GetItem(pg, r[2])
    BY ShownIs, PtrIs, SMTT(30) DEF Agree
  <1>2. /\ Becomes(Write(s, p[1], now)) /\ UNCHANGED <<layers, MainDirtyP, main>>
        /\ blobs' = [blobs EXCEPT ![p] = d]
    BY <1>1 DEF Overwrite, Overwritten, free, Returns
  <1>3. blobs' = bs2
    BY <1>1, <1>2
  <1>4. Fits(pg, p[2], d)
    BY DEF Item, Fits
  <1>5. p[2] + 1 \in Live(pg)
    OBVIOUS
  <1> HIDE DEF pg
  <1>6. /\ PageOK(now) /\ now.dirty = TRUE /\ GetFreeMem(now) = GetFreeMem(pg)
        /\ GetItem(now, p[2]) = d
        /\ \A j \in Nat : j # p[2] => GetItem(now, j) = GetItem(pg, j)
    <2>1. PICK i \in Nat : i = p[2]
      BY <1>1
    <2>2. i + 1 \in Live(pg) /\ Fits(pg, i, d)
      BY <1>4, <1>5, <2>1
    <2>3. /\ PageOK(Overwritten(pg, i, d)) /\ Overwritten(pg, i, d).dirty = TRUE
          /\ GetFreeMem(Overwritten(pg, i, d)) = GetFreeMem(pg)
          /\ GetItem(Overwritten(pg, i, d), i) = d
          /\ \A j \in Nat : j # i => GetItem(Overwritten(pg, i, d), j) = GetItem(pg, j)
      <3>1. PageOK(pg)
        BY <1>1
      <3> HIDE DEF now, bs2
      <3> QED BY <2>2, <3>1, OverwrittenIs, ZenonT(40)
    <2> QED BY <2>1, <2>3
  <1> HIDE DEF now
  <1>7. /\ bs2 \in [Ptr -> Data \cup {NoData}]
        /\ \A r \in Ptr : bs2[r] = IF r[1] = p[1] THEN GetItem(now, r[2]) ELSE blobs[r]
    <2>1. Shows(blobs, p[1], pg) /\ HasMoved(pg, now, p[2], p[2], d) /\ SamePage(p, p)
      BY <1>1, <1>6 DEF Shows, HasMoved, SamePage
    <2> HIDE DEF bs2
    <2>2. PICK q \in Ptr : q = p /\ SamePage(p, q)
      BY <2>1
    <2>3. HasMoved(pg, now, p[2], q[2], d)
      BY <2>1, <2>2
    <2>4. LET bs3 == Replaced(blobs, p, q, d)
          IN  /\ bs3 \in [Ptr -> Data \cup {NoData}]
              /\ \A r \in Ptr : bs3[r] = IF r[1] = p[1] THEN GetItem(now, r[2]) ELSE blobs[r]
      <3>1. blobs \in [Ptr -> Data \cup {NoData}] /\ Shows(blobs, p[1], pg)
        BY <1>1, <2>1
      <3> QED BY <2>2, <2>3, <3>1, MovedOneIs
    <2> QED BY <2>2, <2>4 DEF bs2, Replaced
  <1> HIDE DEF bs2
  <1>8. Agree(Write(s, p[1], now), layers, bs2)
    <2>1. ShouldSave(now) /\ GetFreeMem(now) = GetFreeMem(s.cache[p[1]])
      BY <1>6 DEF ShouldSave, pg
    <2> QED BY <1>6, <1>7, <2>1, AgreeKept
  <1>9. files' = Write(s, p[1], now)
    BY <1>2, <1>8, BecomesIs DEF Agree
  <1> QED BY <1>2, <1>3, <1>8, <1>9 DEF IInv, bs2

Restores(s, p, d) ==
  LET without == DeleteItem(s.cache[p[1]], p[2])
      stays == StaysAt(without, p[2])
      now == IF stays THEN ChangeItem(without, p[2], d) ELSE AddItem(without, d)
  IN /\ Becomes(Write(s, p[1], now)) /\ MainChanges(ChangeVal(layers, p[1], GetFreeMem(now)))
     /\ blobs' = [blobs EXCEPT ![p] = NoData, ![<<p[1], IF stays THEN p[2] ELSE 0>>] = d]

LEMMA RestoredIs ==
  ASSUME NEW s, Agree(s, layers, blobs), NEW p \in Ptr, p[1] \in DOMAIN s.cache, NEW d \in Data,
         p[2] + 1 \in Live(s.cache[p[1]]),
         Item(s.cache[p[1]], p[2]).len + GetFreeMem(s.cache[p[1]]) >= Size[d] + 1,
         Restores(s, p, d)
  PROVE  IInv' /\ \E q \in Ptr : (q = p \/ blobs[q] = NoData) /\ blobs' = [blobs EXCEPT ![p] = NoData, ![q] = d]
  <1> DEFINE pt == p[1]
             i == p[2]
             pg == s.cache[pt]
             without == DeleteItem(pg, i)
             at == IF i < Len(without.items) THEN i ELSE 0
             now == Stored(without, at, d)
             q == <<pt, at>>
             bs2 == [blobs EXCEPT ![p] = NoData, ![q] = d]
  <1>1. /\ PageOK(pg) /\ pt \in Nat /\ pt < MaxPages /\ i \in Nat /\ i < PageSize /\ p = <<pt, i>>
        /\ blobs \in [Ptr -> Data \cup {NoData}]
        /\ \A r \in Ptr : r[1] = pt => blobs[r] = GetItem(pg, r[2])
        /\ i + 1 \in Live(pg) /\ pg.items[i + 1].len + GetFreeMem(pg) >= Size[d] + 1
    <2>1. PageOK(pg) /\ pt \in Nat /\ pt < MaxPages /\ \A r \in Ptr : r[1] = pt => blobs[r] = GetItem(pg, r[2])
      BY ShownIs
    <2>2. i \in Nat /\ i < PageSize /\ p = <<pt, i>>
      BY PtrIs
    <2>3. blobs \in [Ptr -> Data \cup {NoData}]
      BY DEF Agree
    <2> QED BY <2>1, <2>2, <2>3 DEF Item
  <1> HIDE DEF pg
  <1>2. /\ PageOK(without) /\ GetFreeMem(without) >= GetFreeMem(pg) + pg.items[i + 1].len
        /\ without.items = <<>> \/ (i < Len(without.items) /\ without.items[i + 1].len = 0)
        /\ GetItem(without, i) = NoData
        /\ \A j \in Nat : j # i => GetItem(without, j) = GetItem(pg, j)
    BY <1>1, DeleteItemIs
  <1> HIDE DEF without
  <1>3. Len(<<>>) = 0 /\ Len(without.items) \in Nat /\ without \in PageRec
    BY <1>2, PageParts DEF PageOK
  <1>4. /\ at \in Nat /\ at < PageSize /\ at + 1 \notin Live(without) /\ at <= Len(without.items)
        /\ at < Len(without.items) <=> i < Len(without.items)
        /\ ~(i < Len(without.items)) => without.items = <<>>
    <2>1. CASE i < Len(without.items)
      BY <1>1, <1>2, <1>3, <2>1 DEF Live
    <2>2. CASE ~(i < Len(without.items))
      <3>1. without.items = <<>> /\ Len(without.items) = 0
        BY <1>2, <1>3, <2>2
      <3>2. at = 0
        BY <2>2
      <3> HIDE DEF at
      <3>3. Live(without) = {}
        BY <3>1 DEF Live
      <3>4. ~(at < Len(without.items)) /\ at <= Len(without.items) /\ at < PageSize /\ at \in Nat
        <4>1. i \in Nat /\ i < PageSize /\ PageSize \in Nat
          BY <1>1, SizeIs
        <4> HIDE DEF i
        <4> QED BY <3>1, <3>2, <4>1
      <3>5. at + 1 \notin Live(without)
        BY <3>3
      <3> QED BY <2>2, <3>1, <3>4, <3>5
    <2> QED BY <2>1, <2>2
  <1>5. CanStoreBf(without, d)
    <2>1. pg.items[i + 1].len \in Nat /\ GetFreeMem(pg) \in Nat /\ GetFreeMem(without) \in Nat /\ Size[d] \in Nat
      <3>1. i + 1 \in 1..Len(pg.items) /\ pg \in PageRec
        BY <1>1 DEF Live, PageOK
      <3>2. pg.items[i + 1].len \in Nat
        BY <3>1, PageParts
      <3> QED BY <1>1, <1>2, <3>2, FreeMemIs, SizeIs
    <2> QED BY <1>1, <1>2, <2>1, SMTT(30) DEF CanStoreBf
  <1>6. /\ PageOK(now) /\ now.dirty = TRUE /\ GetItem(now, at) = d
        /\ \A j \in Nat : j # at => GetItem(now, j) = GetItem(without, j)
    <2> HIDE DEF at
    <2>1. PICK a \in 0..Len(without.items) : a = at
      BY <1>3, <1>4
    <2>2. a + 1 \notin Live(without)
      BY <1>4, <2>1
    <2>3. /\ PageOK(Stored(without, a, d)) /\ Stored(without, a, d).dirty = TRUE /\ GetItem(Stored(without, a, d), a) = d
          /\ \A j \in Nat : j # a => GetItem(Stored(without, a, d), j) = GetItem(without, j)
      BY <1>2, <1>5, <2>2, StoredIs, ZenonT(40)
    <2> QED BY <2>1, <2>3
  <1>7. /\ Becomes(Write(s, pt, now)) /\ MainChanges(ChangeVal(layers, pt, GetFreeMem(now)))
        /\ blobs' = bs2
    BY <1>4 DEF Restores, StaysAt, Stored, pg, without
  <1>8. q \in Ptr
    BY <1>1, <1>4, IsPtr
  <1>9. q = p \/ blobs[q] = NoData
    <2>1. CASE i < Len(without.items)
      BY <1>1, <2>1
    <2>2. CASE ~(i < Len(without.items)) /\ i # 0
      <3>1. at = 0 /\ ~(0 < Len(without.items))
        BY <1>3, <1>4, <2>2
      <3>2. GetItem(without, 0) = NoData
        BY <1>3, <3>1, NoItemIs
      <3>3. GetItem(pg, 0) = NoData
        BY <1>2, <2>2, <3>2
      <3> QED BY <1>1, <1>8, <3>1, <3>3
    <2>3. CASE i = 0
      BY <1>1, <2>3
    <2> QED BY <2>1, <2>2, <2>3
  <1>10. /\ bs2 \in [Ptr -> Data \cup {NoData}]
         /\ \A r \in Ptr : bs2[r] = IF r[1] = pt THEN GetItem(now, r[2]) ELSE blobs[r]
    <2>1. q[1] = p[1] /\ q[2] = at
      OBVIOUS
    <2> HIDE DEF now, at, q
    <2>2. Shows(blobs, p[1], pg)
      BY <1>1 DEF Shows
    <2>3. HasMoved(pg, now, p[2], q[2], d)
      BY <1>1, <1>2, <1>6, <2>1 DEF HasMoved
    <2>4. q \in Ptr /\ SamePage(p, q)
      BY <1>8, <2>1 DEF SamePage
    <2>5. blobs \in [Ptr -> Data \cup {NoData}]
      BY <1>1
    <2>6. PICK x \in Ptr : x = q /\ SamePage(p, x)
      BY <2>4
    <2>7. HasMoved(pg, now, p[2], x[2], d)
      BY <2>3, <2>6
    <2> HIDE DEF pt, i, bs2
    <2>8. LET bs3 == Replaced(blobs, p, x, d)
          IN  /\ bs3 \in [Ptr -> Data \cup {NoData}]
              /\ \A r \in Ptr : bs3[r] = IF r[1] = p[1] THEN GetItem(now, r[2]) ELSE blobs[r]
      <3>1. SamePage(p, x)
        BY <2>6
      <3> QED BY <2>2, <2>5, <2>7, <3>1, MovedOneIs
    <2> QED BY <2>6, <2>8 DEF pt, bs2, Replaced
  <1> HIDE DEF now, bs2
  <1>11. IInv'
    <2>1. ShouldSave(now)
      BY <1>6 DEF ShouldSave
    <2> HIDE DEF q, at
    <2>2. /\ blobs' \in [Ptr -> Data \cup {NoData}]
          /\ \A r \in Ptr : blobs'[r] = IF r[1] = pt THEN GetItem(now, r[2]) ELSE blobs[r]
      BY <1>7, <1>10
    <2> QED BY <1>6, <1>7, <2>1, <2>2, WriteStepIs
  <1> QED BY <1>7, <1>8, <1>9, <1>11 DEF bs2
LEMMA PutExistingIs ==
  ASSUME IInv, NEW p \in Held, NEW d \in Data, PutExisting(p, d)
  PROVE  IInv' /\ \E q \in Ptr : (q = p \/ blobs[q] = NoData) /\ blobs' = [blobs EXCEPT ![p] = NoData, ![q] = d]
  <1> DEFINE s == LoadPage(files, p[1])
             pg == s.cache[p[1]]
             without == DeleteItem(pg, p[2])
  <1>1. /\ p \in Ptr /\ p = <<p[1], p[2]>> /\ p[1] \in Nat /\ p[1] < MaxPages /\ p[2] \in Nat
        /\ Agree(s, layers, blobs) /\ Len(s.disk) = Len(disk) /\ p[1] \in DOMAIN s.cache
        /\ PageOK(pg) /\ p[2] + 1 \in Live(pg) /\ p[2] < Len(pg.items)
        /\ \A q \in Ptr : q[1] = p[1] => blobs[q] = GetItem(pg, q[2])
    BY LoadedIs
  <1>2. Item(pg, p[2]).len = pg.items[p[2] + 1].len
    BY DEF Item
  <1>6. /\ GetFreeMem(pg) \in Nat /\ Size[d] \in Nat /\ Item(pg, p[2]).len \in Nat
        /\ Item(pg, p[2]).len + GetFreeMem(pg) >= Size[d] + 1 \/ Item(pg, p[2]).len + GetFreeMem(pg) < Size[d] + 1
    <2>1. GetFreeMem(pg) \in Nat /\ Size[d] \in Nat
      BY <1>1, FreeMemIs, SizeIs
    <2>2. pg.items[p[2] + 1].len \in Nat
      <3>1. pg \in PageRec /\ p[2] + 1 \in 1..Len(pg.items)
        BY <1>1 DEF PageOK, Live
      <3> HIDE DEF pg
      <3> QED BY <3>1, PageParts
    <2> HIDE DEF pg
    <2> QED BY <1>2, <2>1, <2>2
  <1>3. CASE Item(pg, p[2]).len = Size[d]
    <2>1. Overwrite(s, p, d)
      BY <1>3 DEF PutExisting
    <2>2. IInv' /\ blobs' = [blobs EXCEPT ![p] = NoData, ![p] = d]
      <3> HIDE DEF s
      <3> QED BY <1>1, <1>3, <2>1, OverwriteIs DEF IInv
    <2> QED BY <1>1, <2>2
  <1>4. CASE Item(pg, p[2]).len # Size[d] /\ Item(pg, p[2]).len + GetFreeMem(pg) >= Size[d] + 1
    <2>1. Restores(s, p, d)
      <3>1. ~(Item(pg, p[2]).len = Size[d]) /\ Item(pg, p[2]).len + GetFreeMem(pg) >= Size[d] + 1
        BY <1>4
      <3>2. ~(Item(pg, p[2]).len # Size[d] /\ Item(pg, p[2]).len + GetFreeMem(pg) < Size[d] + 1)
        <4>1. GetFreeMem(pg) \in Nat /\ Size[d] \in Nat /\ Item(pg, p[2]).len \in Nat
          BY <1>6
        <4> HIDE DEF pg
        <4> QED BY <3>1, <4>1
      <3> HIDE DEF pg, without
      <3> QED BY <3>1, <3>2 DEF PutExisting, Restores, pg, without
    <2> HIDE DEF s
    <2>2. Item(s.cache[p[1]], p[2]).len + GetFreeMem(s.cache[p[1]]) >= Size[d] + 1
      BY <1>4
    <2>3. Agree(s, layers, blobs) /\ p \in Ptr /\ p[1] \in DOMAIN s.cache /\ p[2] + 1 \in Live(s.cache[p[1]])
      BY <1>1
    <2> HIDE DEF pg, without
    <2> QED BY <2>1, <2>2, <2>3, RestoredIs
  <1>5. CASE Item(pg, p[2]).len # Size[d] /\ Item(pg, p[2]).len + GetFreeMem(pg) < Size[d] + 1
    <2> DEFINE t == Write(s, p[1], without)
               ls == ChangeVal(layers, p[1], GetFreeMem(without))
               q == <<Len(disk), 0>>
               bs == [blobs EXCEPT ![p] = NoData]
               now == AddItem(InitPage, d)
               u == Write(CreateNewPage(t), Len(t.disk), now)
               ls2 == AddVal(ls, GetFreeMem(now))
               bs2 == [bs EXCEPT ![q] = d]
    <2>1. NewPage(t, ls, d) /\ blobs' = [blobs EXCEPT ![p] = NoData, ![q] = d]
      BY <1>5 DEF PutExisting
    <2>2. Len(t.disk) < MaxPages /\ Becomes(u) /\ layers' = ls2 /\ MainDirtyP' = TRUE
      BY <2>1 DEF NewPage, MainChanges
    <2> HIDE DEF s, pg
    <2>3. /\ PageOK(without) /\ ShouldSave(without) /\ GetItem(without, p[2]) = NoData
          /\ \A j \in Nat : j # p[2] => GetItem(without, j) = GetItem(pg, j)
      BY <1>1, DeleteItemIs DEF ShouldSave
    <2> HIDE DEF without
    <2>4. bs \in [Ptr -> Data \cup {NoData}] /\ \A r \in Ptr : bs[r] = IF r = p THEN NoData ELSE blobs[r]
      BY <1>1 DEF Agree
    <2>5. blobs' = bs2
      BY <2>1
    <2> HIDE DEF bs
    <2>6. ASSUME NEW r \in Ptr PROVE bs[r] = IF r[1] = p[1] THEN GetItem(without, r[2]) ELSE blobs[r]
      <3>1. r = <<r[1], r[2]>> /\ r[2] \in Nat
        BY PtrIs
      <3>2. CASE r = p
        BY <2>3, <2>4, <3>2
      <3>3. CASE r # p /\ r[1] = p[1]
        <4>1. r[2] # p[2]
          BY <1>1, <3>1, <3>3
        <4> QED BY <1>1, <2>3, <2>4, <3>1, <3>3, <4>1
      <3>4. CASE r # p /\ r[1] # p[1]
        BY <2>4, <3>4
      <3> QED BY <3>2, <3>3, <3>4
    <2>7. Agree(t, ls, bs)
      BY <1>1, <2>3, <2>4, <2>6, AgreeWritten
    <2>8. Len(t.disk) = Len(disk)
      <3>1. FilesOK(s)
        BY <1>1 DEF Agree
      <3> QED BY <1>1, <2>3, <3>1, WriteIs
    <2> HIDE DEF t, ls
    <2>9. Agree(u, ls2, bs2) /\ q \in Ptr /\ bs[q] = NoData
      <3> HIDE DEF u, ls2, bs2, q
      <3>1. LET p0 == <<Len(t.disk), 0>>
            IN  Agree(u, ls2, [bs EXCEPT ![p0] = d]) /\ p0 \in Ptr /\ bs[p0] = NoData
        BY <2>2, <2>7, AgreeAdded DEF u, ls2, now
      <3>2. <<Len(t.disk), 0>> = q
        BY <2>8 DEF q
      <3> QED BY <3>1, <3>2 DEF bs2
    <2> HIDE DEF now, u, ls2
    <2>10. files' = u
      BY <2>2, <2>9, BecomesIs DEF Agree
    <2>11. IInv'
      <3> HIDE DEF bs2
      <3> QED BY <2>2, <2>5, <2>9, <2>10 DEF IInv
    <2>12. q = p \/ blobs[q] = NoData
      BY <2>4, <2>9
    <2> QED BY <2>1, <2>9, <2>11, <2>12
  <1> QED BY <1>3, <1>4, <1>5, <1>6

LEMMA DelIs ==
  ASSUME IInv, NEW p \in Held, Del(p)
  PROVE  IInv' /\ blobs' = [blobs EXCEPT ![p] = NoData]
  <1> DEFINE s == LoadPage(files, p[1])
             pg == s.cache[p[1]]
             now == DeleteItem(pg, p[2])
             t == Write(s, p[1], now)
             u == IF now.items = <<>> THEN ToEnd(t, p[1]) ELSE t
             ls == ChangeVal(layers, p[1], GetFreeMem(now))
             bs == [blobs EXCEPT ![p] = NoData]
  <1>1. /\ p \in Ptr /\ p = <<p[1], p[2]>> /\ p[2] \in Nat
        /\ Agree(s, layers, blobs) /\ p[1] \in DOMAIN s.cache
        /\ PageOK(pg) /\ p[2] + 1 \in Live(pg)
        /\ \A q \in Ptr : q[1] = p[1] => blobs[q] = GetItem(pg, q[2])
    BY LoadedIs
  <1>2. Becomes(u) /\ layers' = ls /\ MainDirtyP' = TRUE /\ blobs' = bs
    <2>1. <<p[1], p[2]>> = p
      BY <1>1
    <2>2. Returns(p[1], p[2], NoData) /\ MainChanges(ls) /\ Becomes(u)
      BY DEF Del, FreeAfterDel
    <2> HIDE DEF u, ls
    <2> QED BY <2>1, <2>2 DEF MainChanges, Returns
  <1> HIDE DEF s, pg
  <1>3. /\ PageOK(now) /\ ShouldSave(now) /\ GetItem(now, p[2]) = NoData
        /\ \A j \in Nat : j # p[2] => GetItem(now, j) = GetItem(pg, j)
    BY <1>1, DeleteItemIs DEF ShouldSave
  <1> HIDE DEF now
  <1>4. bs \in [Ptr -> Data \cup {NoData}] /\ \A r \in Ptr : bs[r] = IF r = p THEN NoData ELSE blobs[r]
    BY <1>1 DEF Agree
  <1> HIDE DEF bs
  <1>5. ASSUME NEW r \in Ptr PROVE bs[r] = IF r[1] = p[1] THEN GetItem(now, r[2]) ELSE blobs[r]
    <2>1. r = <<r[1], r[2]>> /\ r[2] \in Nat
      BY PtrIs
    <2>2. CASE r = p
      BY <1>3, <1>4, <2>2
    <2>3. CASE r # p /\ r[1] = p[1]
      <3>1. r[2] # p[2]
        BY <1>1, <2>1, <2>3
      <3> QED BY <1>1, <1>3, <1>4, <2>1, <2>3, <3>1
    <2>4. CASE r # p /\ r[1] # p[1]
      BY <1>4, <2>4
    <2> QED BY <2>2, <2>3, <2>4
  <1>6. Agree(t, ls, bs)
    BY <1>1, <1>3, <1>4, <1>5, AgreeWritten
  <1>7. FilesOK(t) /\ p[1] \in DOMAIN t.cache
    <2>1. FilesOK(s)
      BY <1>1 DEF Agree
    <2> QED BY <1>1, <1>3, <2>1, WriteIs
  <1> HIDE DEF t, ls
  <1>8. Agree(u, ls, bs)
    <2>1. CASE now.items = <<>>
      <3>1. FilesOK(ToEnd(t, p[1])) /\ ToEnd(t, p[1]).disk = t.disk /\ ToEnd(t, p[1]).cache = t.cache
        BY <1>7, RelistedIs
      <3>2. SamePages(t, ToEnd(t, p[1]))
        BY <3>1 DEF SamePages, SameData, PageOf
      <3>3. Agree(ToEnd(t, p[1]), ls, bs)
        BY <1>6, <3>1, <3>2, AgreeMoved
      <3> QED BY <2>1, <3>3
    <2>2. CASE now.items # <<>>
      BY <1>6, <2>2
    <2> QED BY <2>1, <2>2
  <1> HIDE DEF u
  <1>9. files' = u
    BY <1>2, <1>8, BecomesIs DEF Agree
  <1> QED BY <1>2, <1>8, <1>9 DEF IInv, bs
\* Pages of the cache are written to the files, and the cache stays or is emptied.
LEMMA SavedIs ==
  ASSUME NEW s, FilesOK(s), NEW pts \in SUBSET DOMAIN s.cache
  PROVE  LET disk2 == [n \in DOMAIN s.disk |-> IF n - 1 \in pts THEN s.cache[n - 1] ELSE s.disk[n]]
             t == [disk |-> disk2, cache |-> s.cache, lru |-> s.lru]
             u == [disk |-> disk2, cache |-> <<>>, lru |-> <<>>]
         IN  /\ FilesOK(t) /\ SamePages(s, t)
             /\ (\A pt \in DOMAIN s.cache : ShouldSave(s.cache[pt]) => pt \in pts) => FilesOK(u) /\ SamePages(s, u)
  <1> DEFINE disk2 == [n \in DOMAIN s.disk |-> IF n - 1 \in pts THEN s.cache[n - 1] ELSE s.disk[n]]
             t == [disk |-> disk2, cache |-> s.cache, lru |-> s.lru]
             u == [disk |-> disk2, cache |-> <<>>, lru |-> <<>>]
  <1>1. /\ Len(s.disk) \in Nat /\ DOMAIN s.disk = 1..Len(s.disk) /\ s.disk \in Seq(PageRec)
        /\ \A n \in 1..Len(s.disk) : PageOK(s.disk[n])
        /\ s.cache = [pt \in DOMAIN s.cache |-> s.cache[pt]]
        /\ \A pt \in DOMAIN s.cache : pt \in 0..Len(s.disk) - 1 /\ PageOK(s.cache[pt])
        /\ \A pt \in DOMAIN s.cache : ~s.cache[pt].dirty => SameData(s.cache[pt], s.disk[pt + 1])
        /\ Lists(s.lru, DOMAIN s.cache) /\ Len(s.lru) <= MxLoadedPages
    BY DEF FilesOK
  <1>2. ASSUME NEW n \in 1..Len(s.disk)
        PROVE  disk2[n] = (IF n - 1 \in pts THEN s.cache[n - 1] ELSE s.disk[n]) /\ PageOK(disk2[n])
    BY <1>1
  <1>3. disk2 \in Seq(PageRec) /\ Len(disk2) = Len(s.disk)
    <2>1. \A n \in 1..Len(s.disk) : disk2[n] \in PageRec
      BY <1>2 DEF PageOK
    <2>2. disk2 = [n \in 1..Len(s.disk) |-> disk2[n]]
      BY <1>1
    <2> HIDE DEF disk2
    <2>3. disk2 \in [1..Len(s.disk) -> PageRec]
      BY <2>1, <2>2
    <2> QED BY <1>1, <2>3, FunIsSeq
  <1> HIDE DEF disk2
  <1>4. ASSUME NEW pt \in 0..Len(s.disk) - 1
        PROVE  /\ disk2[pt + 1] = IF pt \in pts THEN s.cache[pt] ELSE s.disk[pt + 1]
               /\ pt \in Nat /\ pt + 1 \in 1..Len(s.disk)
    <2>1. pt + 1 \in 1..Len(s.disk) /\ (pt + 1) - 1 = pt /\ pt \in Nat
      BY <1>1
    <2> QED BY <1>2, <2>1
  <1>5. FilesOK(t)
    <2>1. t.disk = disk2 /\ t.cache = s.cache /\ t.lru = s.lru
      OBVIOUS
    <2>2. ASSUME NEW pt \in DOMAIN s.cache, ~s.cache[pt].dirty PROVE SameData(s.cache[pt], disk2[pt + 1])
      <3>1. pt \in 0..Len(s.disk) - 1 /\ SameData(s.cache[pt], s.disk[pt + 1])
        BY <1>1, <2>2
      <3>2. SameData(s.cache[pt], s.cache[pt])
        BY DEF SameData
      <3> QED BY <1>4, <3>1, <3>2
    <2> QED BY <1>1, <1>2, <1>3, <2>1, <2>2 DEF FilesOK
  <1>6. SamePages(s, t)
    <2>1. t.disk = disk2 /\ t.cache = s.cache
      OBVIOUS
    <2>2. ASSUME NEW pt \in 0..Len(s.disk) - 1 PROVE SameData(PageOf(s, pt), PageOf(t, pt))
      <3>1. pt \notin DOMAIN s.cache => disk2[pt + 1] = s.disk[pt + 1]
        BY <1>4
      <3> QED BY <2>1, <3>1 DEF PageOf, SameData
    <2> QED BY <1>3, <2>1, <2>2 DEF SamePages
  <1>7. ASSUME \A pt \in DOMAIN s.cache : ShouldSave(s.cache[pt]) => pt \in pts
        PROVE  FilesOK(u) /\ SamePages(s, u)
    <2>1. u.disk = disk2 /\ u.cache = <<>> /\ u.lru = <<>> /\ u = [disk |-> u.disk, cache |-> u.cache, lru |-> u.lru]
      OBVIOUS
    <2>2. DOMAIN u.cache = {} /\ Len(u.lru) = 0
      BY <2>1
    <2>3. u.cache = [pt \in DOMAIN u.cache |-> u.cache[pt]]
      BY <2>1
    <2>4. Lists(u.lru, DOMAIN u.cache) /\ Len(u.lru) <= MxLoadedPages
      <3>1. u.lru \in Seq(Nat) /\ 1..Len(u.lru) = {} /\ MxLoadedPages \in Nat
        BY <2>1, <2>2, PgBlobAssumption
      <3> QED BY <2>2, <3>1 DEF Lists
    <2> HIDE DEF u
    <2>5. FilesOK(u)
      BY <1>2, <1>3, <2>1, <2>2, <2>3, <2>4 DEF FilesOK
    <2>6. ASSUME NEW pt \in 0..Len(s.disk) - 1 PROVE SameData(PageOf(s, pt), PageOf(u, pt))
      <3>1. PageOf(u, pt) = disk2[pt + 1]
        BY <2>1, <2>2 DEF PageOf
      <3>2. CASE pt \in pts
        BY <1>4, <3>1, <3>2 DEF PageOf, SameData
      <3>3. CASE pt \notin pts /\ pt \in DOMAIN s.cache
        <4>1. ~s.cache[pt].dirty
          BY <1>7, <3>3 DEF ShouldSave
        <4> QED BY <1>1, <1>4, <3>1, <3>3, <4>1 DEF PageOf
      <3>4. CASE pt \notin pts /\ pt \notin DOMAIN s.cache
        BY <1>4, <3>1, <3>4 DEF PageOf, SameData
      <3> QED BY <3>2, <3>3, <3>4
    <2> QED BY <1>3, <2>1, <2>5, <2>6 DEF SamePages
  <1> QED BY <1>5, <1>6, <1>7 DEF disk2

LEMMA PartialFlushIs ==
  ASSUME IInv, PartialFlush
  PROVE  IInv' /\ blobs' = blobs
  <1>1. Agree(files, layers, blobs) /\ files.disk = disk /\ files.cache = cache /\ files.lru = lru
    BY DEF IInv, files
  <1>2. PICK pts \in SUBSET {pt \in DOMAIN cache : ShouldSave(cache[pt])} :
          /\ disk' = [n \in DOMAIN disk |-> IF n - 1 \in pts THEN cache[n - 1] ELSE disk[n]]
          /\ UNCHANGED <<cache, lru, layers, MainDirtyP, main, blobs>>
    BY DEF PartialFlush, free
  <1> DEFINE disk2 == [n \in DOMAIN disk |-> IF n - 1 \in pts THEN cache[n - 1] ELSE disk[n]]
             t == [disk |-> disk2, cache |-> cache, lru |-> lru]
  <1>3. FilesOK(t) /\ SamePages(files, t)
    <2>1. FilesOK(files) /\ pts \in SUBSET DOMAIN files.cache
      BY <1>1, <1>2 DEF Agree
    <2>2. LET d2 == [n \in DOMAIN files.disk |-> IF n - 1 \in pts THEN files.cache[n - 1] ELSE files.disk[n]]
              t2 == [disk |-> d2, cache |-> files.cache, lru |-> files.lru]
          IN  FilesOK(t2) /\ SamePages(files, t2)
      BY <2>1, SavedIs
    <2> QED BY <1>1, <2>2
  <1>4. files' = t
    BY <1>2 DEF files
  <1> HIDE DEF t
  <1>5. Agree(t, layers, blobs)
    BY <1>1, <1>3, AgreeMoved
  <1> QED BY <1>2, <1>4, <1>5 DEF IInv

LEMMA CloseAndOpenIs ==
  ASSUME IInv, CloseAndOpen
  PROVE  IInv' /\ blobs' = blobs
  <1>1. Agree(files, layers, blobs) /\ files.disk = disk /\ files.cache = cache /\ files.lru = lru
    BY DEF IInv, files
  <1> DEFINE pts == {pt \in DOMAIN cache : ShouldSave(cache[pt])}
             disk2 == [n \in DOMAIN disk |-> IF n - 1 \in pts THEN cache[n - 1] ELSE disk[n]]
             u == [disk |-> disk2, cache |-> <<>>, lru |-> <<>>]
  <1>2. /\ disk' = disk2 /\ cache' = <<>> /\ lru' = <<>> /\ blobs' = blobs
        /\ layers' = layers /\ main' = layers'
    BY DEF CloseAndOpen, IInv
  <1>3. FilesOK(u) /\ SamePages(files, u)
    <2>1. FilesOK(files) /\ pts \in SUBSET DOMAIN files.cache
          /\ \A pt \in DOMAIN files.cache : ShouldSave(files.cache[pt]) => pt \in pts
      BY <1>1 DEF Agree
    <2> HIDE DEF pts
    <2>2. LET d2 == [n \in DOMAIN files.disk |-> IF n - 1 \in pts THEN files.cache[n - 1] ELSE files.disk[n]]
              u2 == [disk |-> d2, cache |-> <<>>, lru |-> <<>>]
          IN  FilesOK(u2) /\ SamePages(files, u2)
      BY <2>1, SavedIs
    <2> QED BY <1>1, <2>2
  <1>4. files' = u
    BY <1>2 DEF files
  <1> HIDE DEF u
  <1>5. Agree(u, layers, blobs)
    BY <1>1, <1>3, AgreeMoved
  <1> QED BY <1>2, <1>4, <1>5 DEF IInv

LEMMA InitIs ==
  ASSUME Init
  PROVE  IInv
  <1>1. /\ files.disk = <<>> /\ files.cache = <<>> /\ files.lru = <<>> /\ layers = <<<<>>>> /\ main = layers
        /\ blobs = [p \in Ptr |-> NoData]
        /\ files = [disk |-> files.disk, cache |-> files.cache, lru |-> files.lru]
    BY DEF Init, files
  <1>2. /\ DOMAIN files.cache = {} /\ Len(files.disk) = 0 /\ Len(files.lru) = 0
        /\ files.disk \in Seq(PageRec) /\ files.lru \in Seq(Nat)
        /\ files.cache = [pt \in DOMAIN files.cache |-> files.cache[pt]]
    BY <1>1
  <1>3. 1..0 = {} /\ 0..0 - 1 = {} /\ MxLoadedPages \in Nat /\ MaxPages \in Nat
    BY PgBlobAssumption
  <1>4. Lists(files.lru, DOMAIN files.cache)
    BY <1>2, <1>3 DEF Lists
  <1>5. FilesOK(files)
    BY <1>1, <1>2, <1>3, <1>4 DEF FilesOK
  <1>6. TreeOK(layers) /\ Len(layers[1]) = 0
    <2>1. layers[1] = <<>> /\ Len(layers) = 1 /\ layers \in Seq(Seq(Nat))
      BY <1>1
    <2> QED BY <2>1 DEF TreeOK
  <1>7. ASSUME NEW p \in Ptr PROVE blobs[p] = NoData /\ ~(p[1] < 0)
    BY <1>1, PtrIs
  <1>8. blobs \in [Ptr -> Data \cup {NoData}]
    BY <1>1
  <1>9. Agree(files, layers, blobs)
    BY <1>2, <1>3, <1>5, <1>6, <1>7, <1>8 DEF Agree
  <1> QED BY <1>1, <1>9 DEF IInv
\* The invariant is inductive; and what a step does to the blobs.
LEMMA StepIs ==
  ASSUME IInv, [Next]_vars
  PROVE  IInv' /\ [Promise!Next]_blobs /\ PutsApart
  <1>1. blobs \in [Ptr -> Data \cup {NoData}] /\ NoData \notin Data
    BY PgBlobAssumption DEF IInv, Agree
  <1>2. ASSUME NEW d \in Data, Put(d)
        PROVE  IInv' /\ Promise!Next /\ Held' # Held
    <2>1. IInv' /\ \E p \in Ptr : blobs[p] = NoData /\ blobs' = [blobs EXCEPT ![p] = d]
      BY <1>2, PutIs
    <2>2. PICK p \in Ptr : blobs[p] = NoData /\ blobs' = [blobs EXCEPT ![p] = d]
      BY <2>1
    <2>3. Promise!Put(p, d)
      BY <2>2 DEF Promise!Put, Promise!Stored
    <2>4. p \notin Held /\ p \in Held'
      BY <1>1, <2>2 DEF Held
    <2> QED BY <2>1, <2>3, <2>4 DEF Promise!Next
  <1>3. ASSUME NEW p \in Held, NEW d \in Data, PutExisting(p, d)
        PROVE  IInv' /\ Promise!Next
    <2>1. IInv' /\ \E q \in Ptr : (q = p \/ blobs[q] = NoData) /\ blobs' = [blobs EXCEPT ![p] = NoData, ![q] = d]
      BY <1>3, PutExistingIs
    <2>2. PICK q \in Ptr : (q = p \/ blobs[q] = NoData) /\ blobs' = [blobs EXCEPT ![p] = NoData, ![q] = d]
      BY <2>1
    <2>3. p \in Ptr /\ blobs[p] # NoData
      BY DEF Held
    <2>4. Promise!Update(p, q, d)
      BY <2>2, <2>3 DEF Promise!Update, Promise!Stored
    <2> QED BY <2>1, <2>3, <2>4 DEF Promise!Next
  <1>4. ASSUME NEW p \in Held, Get(p)
        PROVE  IInv' /\ blobs' = blobs
    BY <1>4, GetIs
  <1>5. ASSUME NEW p \in Held, Del(p)
        PROVE  IInv' /\ Promise!Next
    <2>1. IInv' /\ blobs' = [blobs EXCEPT ![p] = NoData]
      BY <1>5, DelIs
    <2>2. p \in Ptr /\ Promise!Del(p)
      BY <2>1 DEF Held, Promise!Del, Promise!Stored
    <2> QED BY <2>1, <2>2 DEF Promise!Next
  <1>6. ASSUME UNCHANGED vars PROVE IInv' /\ blobs' = blobs
    BY <1>6 DEF vars, free, files, IInv
  <1>7. IInv' /\ [Promise!Next]_blobs
    BY <1>2, <1>3, <1>4, <1>5, <1>6, PartialFlushIs, CloseAndOpenIs DEF Next
  <1>8. PutsApart
    BY <1>2 DEF PutsApart
  <1> QED BY <1>7, <1>8

LEMMA InvIs == Spec => []IInv
  <1>1. Init => IInv
    BY InitIs
  <1>2. IInv /\ [Next]_vars => IInv'
    BY StepIs
  <1> QED BY <1>1, <1>2, PTL DEF Spec

LEMMA PageNowIs ==
  ASSUME NEW pt
  PROVE  PageNow(pt) = PageOf(files, pt)
  BY DEF PageNow, PageOf, files

\* What the invariant says of the shape of the state.
LEMMA ShapeIs ==
  ASSUME IInv
  PROVE  TypeOK
  <1>1. FilesOK(files) /\ files.disk = disk /\ files.cache = cache /\ files.lru = lru /\ Len(disk) <= MaxPages
    BY DEF IInv, Agree, files
  <1>2. DOMAIN disk = 1..Len(disk) /\ Len(disk) \in Nat /\ MaxPages \in Nat
    BY <1>1, FilesParts, PgBlobAssumption DEF FilesOK
  <1>3. ASSUME NEW pg \in Range(disk) \cup Range(cache) PROVE PageOK(pg)
    <2>1. CASE pg \in Range(disk)
      BY <1>1, <1>2, <2>1 DEF FilesOK, Range
    <2>2. CASE pg \in Range(cache)
      BY <1>1, <2>2 DEF FilesOK, Range
    <2> QED BY <2>1, <2>2
  <1>4. ASSUME NEW pg \in Range(disk) \cup Range(cache)
        PROVE  /\ pg.end \in 0..PageSize /\ pg.dirty \in BOOLEAN /\ pg.bytes \in [Offset -> Data \cup {Free}]
               /\ \A it \in Range(pg.items) : it.off \in Offset /\ it.len \in 0..PageSize
    <2>1. pg \in PageRec
      BY <1>3 DEF PageOK
    <2>2. /\ pg.end \in 0..PageSize /\ pg.dirty \in BOOLEAN /\ pg.bytes \in [Offset -> Data \cup {Free}]
          /\ pg.items \in Seq(ItemRec)
      BY <2>1 DEF PageRec
    <2>3. ASSUME NEW it \in Range(pg.items) PROVE it \in ItemRec
      <3>1. DOMAIN pg.items = 1..Len(pg.items)
        BY <2>2
      <3>2. PICK n \in 1..Len(pg.items) : it = pg.items[n]
        BY <3>1 DEF Range
      <3> QED BY <2>2, <3>2, ElementOfSeq
    <2> QED BY <2>2, <2>3 DEF ItemRec
  <1>5. Lists(lru, DOMAIN cache) /\ Len(lru) <= MxLoadedPages
    BY <1>1 DEF FilesOK
  <1>6. Len(lru) = Cardinality(DOMAIN cache)
    BY <1>5, ListedCount
  <1>7. Range(lru) = DOMAIN cache
    <2>1. DOMAIN lru = 1..Len(lru)
      BY <1>5 DEF Lists
    <2>2. ASSUME NEW pt PROVE pt \in Range(lru) <=> pt \in DOMAIN cache
      BY <1>5, <2>1 DEF Lists, Range
    <2> QED BY <2>2
  <1>8. DOMAIN cache \subseteq Page
    BY <1>1, <1>2 DEF FilesOK, Page
  <1> QED BY <1>1, <1>4, <1>5, <1>6, <1>7, <1>8 DEF TypeOK

\* Pages are sound in the files and in the cache, a clean page of the cache is the page of the
\* files, and what is read through a pointer is what was stored there: whatever is put, moved in
\* its page or to another one, deleted, evicted, flushed in part or opened again.
THEOREM PagesStaySound == Spec => []PagesSound
  <1>1. IInv => PagesSound
    <2> SUFFICES ASSUME IInv PROVE PagesSound
      OBVIOUS
    <2>1. /\ FilesOK(files) /\ files.disk = disk /\ files.cache = cache /\ Len(disk) \in Nat
          /\ \A p \in Ptr : blobs[p] = IF p[1] < Len(disk) THEN GetItem(PageOf(files, p[1]), p[2]) ELSE NoData
      BY FilesParts DEF IInv, Agree, files
    <2>2. ASSUME NEW pg \in Range(disk) \cup Range(cache) PROVE PageSound(pg)
      <3>1. DOMAIN disk = 1..Len(disk)
        BY <2>1 DEF FilesOK
      <3>2. PageOK(pg)
        BY <2>1, <3>1 DEF FilesOK, Range
      <3> QED BY <3>2, OKIsSound
    <2>3. ASSUME NEW pt \in DOMAIN cache, ~cache[pt].dirty
          PROVE  [disk[pt + 1] EXCEPT !.dirty = FALSE] = cache[pt]
      <3> DEFINE pg == cache[pt]
                 qg == disk[pt + 1]
                 no == FALSE
      <3>1. PageOK(pg) /\ PageOK(qg) /\ SameData(pg, qg)
        BY <2>1, <2>3, FilesParts DEF FilesOK
      <3>2. pg \in PageRec /\ qg \in PageRec /\ pg.dirty = no
        <4>1. pg \in PageRec /\ qg \in PageRec
          BY <3>1 DEF PageOK
        <4>2. pg.dirty \in BOOLEAN
          BY <4>1 DEF PageRec
        <4> QED BY <2>3, <4>1, <4>2
      <3> HIDE DEF no, pg, qg
      <3>3. /\ pg = [dirty |-> pg.dirty, items |-> pg.items, end |-> pg.end, bytes |-> pg.bytes]
            /\ qg = [dirty |-> qg.dirty, items |-> qg.items, end |-> qg.end, bytes |-> qg.bytes]
        BY <3>2 DEF PageRec
      <3>4. [qg EXCEPT !.dirty = no] = [dirty |-> no, items |-> qg.items, end |-> qg.end, bytes |-> qg.bytes]
        BY <3>3
      <3>5. [qg EXCEPT !.dirty = no] = pg
        BY <3>1, <3>2, <3>3, <3>4 DEF SameData
      <3> QED BY <3>5 DEF no, pg, qg
    <2>4. \A p \in Ptr : blobs[p] = Contents(p)
      BY <2>1, PageNowIs DEF Contents
    <2> QED BY <2>2, <2>3, <2>4, ShapeIs DEF PagesSound
  <1> QED BY <1>1, InvIs, PTL

\* The free-space map has the free bytes of every page, its maxima are maxima, and the descent
\* finds the emptiest page, whatever was added to the tree and changed in it; and a map that is
\* not marked as changed is the one in the file.
THEOREM FreeSpaceStaysKnown == Spec => []FreeSpaceKnown
  <1>1. IInv => FreeSpaceKnown
    <2> SUFFICES ASSUME IInv PROVE FreeSpaceKnown
      OBVIOUS
    <2>1. /\ TreeOK(layers) /\ Len(layers[1]) = Len(disk) /\ Len(disk) \in Nat /\ disk \in Seq(PageRec)
          /\ \A pt \in 0..Len(disk) - 1 : layers[1][pt + 1] = GetFreeMem(PageNow(pt))
      BY FilesParts, PageNowIs DEF IInv, Agree, FilesOK, files
    <2>2. Len(layers) \in Nat /\ layers \in Seq(Seq(Nat))
      BY <2>1 DEF TreeOK
    <2>3. ASSUME NEW l \in 2..Len(layers), NEW i \in Page, i < Len(layers[l])
          PROVE  layers[l][i + 1] = MaxOfPair(layers[l - 1], i)
      <3>1. l - 1 \in 1..Len(layers) - 1 /\ (l - 1) + 1 = l /\ l \in 1..Len(layers)
        BY <2>2
      <3>2. Halves(layers[l - 1], layers[l])
        BY <2>1, <3>1 DEF TreeOK
      <3>3. Len(layers[l]) \in Nat
        BY <2>2, <3>1, ElementOfSeq, LenProperties
      <3>4. i \in 0..Len(layers[l]) - 1
        BY <2>3, <3>3, PgBlobAssumption DEF Page
      <3> QED BY <3>2, <3>4 DEF Halves
    <2>4. ASSUME disk # <<>>
          PROVE  /\ Len(layers[Len(layers)]) = 1
                 /\ \A pt \in 0..Len(disk) - 1 : layers[1][pt + 1] <= layers[1][GetIndexOfMax(layers) + 1]
      <3>1. layers[1] # <<>>
        <4>1. Len(disk) # 0
          BY <2>1, <2>4, EmptySeq
        <4> QED BY <2>1, <4>1
      <3> QED BY <2>1, <3>1, MaxIs
    <2> QED BY <2>1, <2>3, <2>4 DEF FreeSpaceKnown, IInv
  <1> QED BY <1>1, InvIs, PTL

\* To the stores above, the paged storage behaves as BlobStore: a pointer that is given out is not
\* in use, and an operation changes what is under its own pointer only.
THEOREM BlobsAreKept == Spec => KeepsBlobs
  <1>1. Init => Promise!Init
    BY DEF Init, Promise!Init
  <1>2. IInv /\ [Next]_vars => [Promise!Next]_blobs /\ [PutsApart]_vars
    BY StepIs
  <1> QED BY <1>1, <1>2, InvIs, PTL DEF Spec, KeepsBlobs, Promise!Spec

(***************************************************************************)
(* The other kind of store, on paged blob storage (PagedStore): for any         *)
(* pointers, names and values, and any number of records.                  *)
(***************************************************************************)
HeldAt(b) == {p \in RecPtr : b[p] # NoData}

\* RecordsAreReached without the memo, said of any map h of records, primary map n,
\* blobs b, counter c and torn names t, with their types.
Reached(h, n, b, c, t) ==
  /\ c \in Nat /\ DOMAIN h \subseteq Nat
  /\ b \in [RecPtr -> Records!Rec \cup {NoData}]
  /\ h \in [DOMAIN h -> RecPtr] /\ n \in [DOMAIN n -> DOMAIN h]
  /\ \A r \in DOMAIN h : r < c /\ b[h[r]] # NoData
  /\ \A p \in RecPtr : b[p] # NoData => \E r \in DOMAIN h : h[r] = p
  /\ \A r, s \in DOMAIN h : h[r] = h[s] => r = s
  /\ \A x \in DOMAIN n : b[h[n[x]]].name = x
  /\ \A r \in DOMAIN h : b[h[r]].name \in t \/ (b[h[r]].name \in DOMAIN n /\ n[b[h[r]].name] = r)

\* A clean store is the one in its file.
PagedFileMatches ==
  ~MetaDirtyP => saved = [pts |-> RecIdBlobPtH, primary |-> PrimaryIdH, counter |-> RecIdCounter]

MemoType == memo \in [valid : BOOLEAN, rec : Nat, pt : RecPtr \cup {NoRecPtr}]

PagedIInv == /\ Reached(RecIdBlobPtH, PrimaryIdH, recBlob, RecIdCounter, torn)
             /\ MemoType /\ Records!MemoIsFresh /\ PagedFileMatches /\ MetaDirtyP \in BOOLEAN

(***************************************************************************)
(* A new record, a record rewritten and perhaps moved, a record deleted.   *)
(***************************************************************************)
\* In the primary map m that comes of n only name leads to record r, unless it is torn, and what
\* else m has is of n, which may have lost the name gone.
Entries(m, n, ids, r, name, gone, t) ==
  /\ m \in [DOMAIN m -> ids]
  /\ \A x \in DOMAIN m : IF m[x] = r THEN x = name ELSE x \in DOMAIN n /\ m[x] = n[x]
  /\ \A x \in DOMAIN n \ {gone, name} : x \in DOMAIN m /\ m[x] = n[x]
  /\ name \in t \/ (name \in DOMAIN m /\ m[name] = r)

LEMMA CreatedIsReached ==
  ASSUME NoData \notin Records!Rec, NEW h, NEW n, NEW b, NEW c, NEW t, Reached(h, n, b, c, t),
         NEW rec \in Records!Rec, rec.name \notin DOMAIN n, NEW p \in RecPtr, b[p] = NoData,
         NEW m, NEW t2, t \subseteq t2, Entries(m, n, DOMAIN h \cup {c}, c, rec.name, rec.name, t2)
  PROVE  Reached(Records!Mapped(h, c, p), m, [b EXCEPT ![p] = rec], c + 1, t2)
  <1> DEFINE h2 == Records!Mapped(h, c, p)
             b2 == [b EXCEPT ![p] = rec]
  <1>a. /\ c \in Nat /\ c \notin DOMAIN h /\ DOMAIN h \subseteq Nat /\ b \in [RecPtr -> Records!Rec \cup {NoData}]
        /\ h \in [DOMAIN h -> RecPtr] /\ n \in [DOMAIN n -> DOMAIN h]
    BY DEF Reached
  <1>b. \A r \in DOMAIN h : h[r] \in RecPtr /\ h[r] # p /\ b[h[r]] # NoData /\ r < c
    BY <1>a DEF Reached
  <1>c. rec # NoData
    OBVIOUS
  <1>1. DOMAIN h2 = DOMAIN h \cup {c} /\ h2[c] = p /\ \A r \in DOMAIN h : h2[r] = h[r]
    BY <1>a DEF Records!Mapped
  <1>2. /\ m \in [DOMAIN m -> DOMAIN h \cup {c}]
        /\ \A x \in DOMAIN m : IF m[x] = c THEN x = rec.name ELSE x \in DOMAIN n /\ m[x] = n[x]
        /\ \A x \in DOMAIN n : x \in DOMAIN m /\ m[x] = n[x]
        /\ rec.name \in t2 \/ (rec.name \in DOMAIN m /\ m[rec.name] = c)
    BY DEF Entries
  <1>3. b2 \in [RecPtr -> Records!Rec \cup {NoData}] /\ b2[p] = rec /\ \A q \in RecPtr \ {p} : b2[q] = b[q]
    BY <1>a
  <1>4. h2 \in [DOMAIN h2 -> RecPtr] /\ m \in [DOMAIN m -> DOMAIN h2]
    BY <1>a, <1>1, <1>2 DEF Records!Mapped
  <1>5. c + 1 \in Nat /\ DOMAIN h2 \subseteq Nat /\ \A r \in DOMAIN h2 : r < c + 1 /\ b2[h2[r]] # NoData
    BY <1>a, <1>b, <1>c, <1>1, <1>3
  <1>6. \A q \in RecPtr : b2[q] # NoData => \E r \in DOMAIN h2 : h2[r] = q
    BY <1>1, <1>3 DEF Reached
  <1>7. \A r, s \in DOMAIN h2 : h2[r] = h2[s] => r = s
    BY <1>b, <1>1 DEF Reached
  <1>8. \A x \in DOMAIN m : b2[h2[m[x]]].name = x
    <2>1. ASSUME NEW x \in DOMAIN m, m[x] # c PROVE b2[h2[m[x]]].name = x
      <3>1. x \in DOMAIN n /\ m[x] = n[x]
        BY <1>2, <2>1
      <3>2. n[x] \in DOMAIN h /\ b[h[n[x]]].name = x
        BY <3>1 DEF Reached
      <3>3. h2[n[x]] = h[n[x]] /\ b2[h[n[x]]] = b[h[n[x]]]
        BY <1>b, <1>1, <1>3, <3>2
      <3> QED BY <3>1, <3>2, <3>3
    <2> QED BY <1>1, <1>2, <1>3, <2>1
  <1>9. \A r \in DOMAIN h2 : b2[h2[r]].name \in t2 \/ (b2[h2[r]].name \in DOMAIN m /\ m[b2[h2[r]].name] = r)
    <2>1. ASSUME NEW r \in DOMAIN h
          PROVE  b2[h2[r]].name \in t2 \/ (b2[h2[r]].name \in DOMAIN m /\ m[b2[h2[r]].name] = r)
      <3>1. b2[h2[r]] = b[h[r]]
        BY <1>b, <1>1, <1>3, <2>1
      <3>2. b[h[r]].name \in t \/ (b[h[r]].name \in DOMAIN n /\ n[b[h[r]].name] = r)
        BY <2>1 DEF Reached
      <3> QED BY <1>2, <3>1, <3>2
    <2> QED BY <1>1, <1>2, <1>3, <2>1
  <1> HIDE DEF h2, b2
  <1> QED BY <1>3, <1>4, <1>5, <1>6, <1>7, <1>8, <1>9 DEF Reached, h2, b2

LEMMA RewrittenIsReached ==
  ASSUME NoData \notin Records!Rec, NEW h, NEW n, NEW b, NEW c, NEW t, Reached(h, n, b, c, t),
         NEW r \in DOMAIN h, NEW rec \in Records!Rec, NEW q \in RecPtr, q = h[r] \/ b[q] = NoData,
         NEW m, NEW t2, t \subseteq t2, Entries(m, n, DOMAIN h, r, rec.name, b[h[r]].name, t2),
         rec.name \in DOMAIN n /\ n[rec.name] # r => rec.name \in t2
  PROVE  Reached(Records!Mapped(h, r, q), m, [b EXCEPT ![h[r]] = NoData, ![q] = rec], c, t2)
  <1> DEFINE p == h[r]
             h2 == Records!Mapped(h, r, q)
             b2 == [b EXCEPT ![p] = NoData, ![q] = rec]
  <1>a. /\ c \in Nat /\ DOMAIN h \subseteq Nat /\ b \in [RecPtr -> Records!Rec \cup {NoData}] /\ p \in RecPtr
        /\ h \in [DOMAIN h -> RecPtr] /\ n \in [DOMAIN n -> DOMAIN h]
    BY DEF Reached
  <1>b. rec # NoData
    OBVIOUS
  <1>c. /\ m \in [DOMAIN m -> DOMAIN h]
        /\ \A x \in DOMAIN m : IF m[x] = r THEN x = rec.name ELSE x \in DOMAIN n /\ m[x] = n[x]
        /\ \A x \in DOMAIN n \ {b[p].name, rec.name} : x \in DOMAIN m /\ m[x] = n[x]
        /\ rec.name \in t2 \/ (rec.name \in DOMAIN m /\ m[rec.name] = r)
    BY DEF Entries
  <1>1. DOMAIN h2 = DOMAIN h /\ h2[r] = q /\ (\A s \in DOMAIN h \ {r} : h2[s] = h[s])
    BY <1>a, ZenonT(40) DEF Records!Mapped
  <1>2. b2 \in [RecPtr -> Records!Rec \cup {NoData}]
    BY <1>a
  <1>3. b2[q] = rec /\ \A o \in RecPtr \ {p, q} : b2[o] = b[o]
    BY <1>a
  <1>4. p # q => b2[p] = NoData
    BY <1>a
  <1>5. h2 \in [DOMAIN h2 -> RecPtr]
    BY <1>a, <1>1 DEF Records!Mapped
  <1>6. \A s \in DOMAIN h \ {r} : h[s] \in RecPtr \ {p, q} /\ b[h[s]] # NoData /\ b[h[s]] \in Records!Rec
    BY <1>a DEF Reached
  <1>7. \A s \in DOMAIN h \ {r} : b2[h2[s]] = b[h[s]]
    BY <1>1, <1>3, <1>6
  <1>8. b2[h2[r]] = rec
    BY <1>1, <1>3
  <1> HIDE DEF h2, b2, p
  <1>9. \A s \in DOMAIN h2 : s < c /\ b2[h2[s]] # NoData
    BY <1>b, <1>1, <1>6, <1>7, <1>8 DEF Reached
  <1>10. \A o \in RecPtr : b2[o] # NoData => \E s \in DOMAIN h2 : h2[s] = o
    <2> SUFFICES ASSUME NEW o \in RecPtr, b2[o] # NoData, o # q PROVE \E s \in DOMAIN h2 : h2[s] = o
      BY <1>1
    <2>1. o # p /\ b[o] # NoData
      BY <1>3, <1>4
    <2>2. PICK s \in DOMAIN h : h[s] = o
      BY <2>1 DEF Reached
    <2>3. s # r
      BY <2>1, <2>2 DEF p
    <2> QED BY <1>1, <2>2, <2>3
  <1>11. \A s, u \in DOMAIN h2 : h2[s] = h2[u] => s = u
    BY <1>1, <1>6 DEF Reached
  <1>12. \A s \in DOMAIN h \ {r} : b[h[s]].name \in t2 \/ (b[h[s]].name \in DOMAIN m /\ m[b[h[s]].name] = s)
    <2> SUFFICES ASSUME NEW s \in DOMAIN h \ {r}, b[h[s]].name \notin t2
                 PROVE  b[h[s]].name \in DOMAIN m /\ m[b[h[s]].name] = s
      OBVIOUS
    <2>1. b[h[s]].name \in DOMAIN n /\ n[b[h[s]].name] = s
      BY DEF Reached
    <2>2. b[h[s]].name # rec.name
      BY <2>1
    <2>3. b[h[s]].name # b[p].name
      <3>1. b[p].name \in t \/ n[b[p].name] = r
        BY DEF Reached, p
      <3> QED BY <2>1, <3>1
    <2> QED BY <1>c, <2>1, <2>2, <2>3
  <1>13. \A s \in DOMAIN h2 : b2[h2[s]].name \in t2 \/ (b2[h2[s]].name \in DOMAIN m /\ m[b2[h2[s]].name] = s)
    BY <1>c, <1>1, <1>7, <1>8, <1>12
  <1>14. \A x \in DOMAIN m : b2[h2[m[x]]].name = x
    <2>1. ASSUME NEW x \in DOMAIN m, m[x] # r PROVE b2[h2[m[x]]].name = x
      <3>1. x \in DOMAIN n /\ m[x] = n[x]
        BY <1>c, <2>1
      <3>2. n[x] \in DOMAIN h /\ b[h[n[x]]].name = x
        BY <3>1 DEF Reached
      <3> QED BY <1>7, <2>1, <3>1, <3>2
    <2> QED BY <1>c, <1>8, <2>1
  <1>15. m \in [DOMAIN m -> DOMAIN h2] /\ DOMAIN h2 \subseteq Nat
    BY <1>a, <1>c, <1>1
  <1> QED BY <1>a, <1>2, <1>5, <1>9, <1>10, <1>11, <1>13, <1>14, <1>15 DEF Reached, h2, b2, p

LEMMA DeletedIsReached ==
  ASSUME NEW h, NEW n, NEW b, NEW c, NEW t, Reached(h, n, b, c, t), NEW r \in DOMAIN h
  PROVE  Reached(Records!Without(h, {r}), Records!Without(n, {b[h[r]].name}), [b EXCEPT ![h[r]] = NoData], c, t)
  <1> DEFINE p == h[r]
             h2 == Records!Without(h, {r})
             n2 == Records!Without(n, {b[p].name})
             b2 == [b EXCEPT ![p] = NoData]
  <1>a. /\ c \in Nat /\ DOMAIN h \subseteq Nat /\ b \in [RecPtr -> Records!Rec \cup {NoData}] /\ p \in RecPtr
        /\ h \in [DOMAIN h -> RecPtr] /\ n \in [DOMAIN n -> DOMAIN h]
    BY DEF Reached
  <1>1. DOMAIN h2 = DOMAIN h \ {r} /\ (\A s \in DOMAIN h2 : h2[s] = h[s])
    BY DEF Records!Without
  <1>2. DOMAIN n2 = DOMAIN n \ {b[p].name} /\ (\A x \in DOMAIN n2 : n2[x] = n[x])
    BY DEF Records!Without
  <1>3. b2 \in [RecPtr -> Records!Rec \cup {NoData}] /\ b2[p] = NoData /\ \A o \in RecPtr \ {p} : b2[o] = b[o]
    BY <1>a
  <1>4. \A s \in DOMAIN h2 : h[s] \in RecPtr \ {p} /\ b[h[s]] # NoData /\ b2[h2[s]] = b[h[s]]
    BY <1>a, <1>1, <1>3 DEF Reached
  <1>5. \A x \in DOMAIN n2 : n[x] \in DOMAIN h /\ n[x] # r /\ b[h[n[x]]].name = x
    BY <1>a, <1>2 DEF Reached
  <1>6. h2 \in [DOMAIN h2 -> RecPtr] /\ n2 \in [DOMAIN n2 -> DOMAIN h2]
    <2>1. h2 \in [DOMAIN h2 -> RecPtr]
      BY <1>1, <1>4 DEF Records!Without
    <2>2. \A x \in DOMAIN n2 : n2[x] \in DOMAIN h2
      BY <1>1, <1>2, <1>5
    <2> QED BY <2>1, <2>2 DEF Records!Without
  <1> HIDE DEF h2, n2, b2
  <1>7. \A o \in RecPtr : b2[o] # NoData => \E s \in DOMAIN h2 : h2[s] = o
    <2> SUFFICES ASSUME NEW o \in RecPtr, b2[o] # NoData PROVE \E s \in DOMAIN h2 : h2[s] = o
      OBVIOUS
    <2>1. o # p /\ b[o] # NoData
      BY <1>3
    <2>2. PICK s \in DOMAIN h : h[s] = o
      BY <2>1 DEF Reached
    <2> QED BY <1>1, <2>1, <2>2
  <1>8. \A s \in DOMAIN h2 : s < c /\ b2[h2[s]] # NoData
    BY <1>1, <1>4 DEF Reached
  <1>9. \A s, u \in DOMAIN h2 : h2[s] = h2[u] => s = u
    BY <1>1 DEF Reached
  <1>10. \A x \in DOMAIN n2 : b2[h2[n2[x]]].name = x
    BY <1>1, <1>2, <1>4, <1>5
  <1>11. \A s \in DOMAIN h2 : b2[h2[s]].name \in t \/ (b2[h2[s]].name \in DOMAIN n2 /\ n2[b2[h2[s]].name] = s)
    <2> SUFFICES ASSUME NEW s \in DOMAIN h2, b[h[s]].name \notin t
                 PROVE  b[h[s]].name \in DOMAIN n2 /\ n2[b[h[s]].name] = s
      BY <1>4
    <2>1. b[h[s]].name \in DOMAIN n /\ n[b[h[s]].name] = s /\ s # r
      BY <1>1 DEF Reached
    <2>2. b[p].name \in t \/ n[b[p].name] = r
      BY DEF Reached
    <2> QED BY <1>2, <2>1, <2>2
  <1> QED BY <1>a, <1>1, <1>3, <1>6, <1>7, <1>8, <1>9, <1>10, <1>11 DEF Reached, h2, n2, b2

(***************************************************************************)
(* The steps.  An update that names the primary field must not move the    *)
(* record: see UpdateRec.                                                  *)
(***************************************************************************)
LEMMA FreshMemo == MemoType' /\ ~memo'.valid => Records!MemoIsFresh'
  BY DEF Records!MemoIsFresh

LEMMA BumpedIsNone == \A m : Records!Bumped(m) = Records!NoMemo /\ Records!NoMemo.valid = FALSE
                             /\ Records!NoMemo \in [valid : BOOLEAN, rec : Nat, pt : RecPtr \cup {NoRecPtr}]
  BY DEF Records!Bumped, Records!NoMemo

\* Reading a record primes the memo with the place it is at.
LEMMA PrimedIsThere ==
  ASSUME NEW m \in [valid : BOOLEAN, rec : Nat, pt : RecPtr \cup {NoRecPtr}], NEW r \in Records!Ids,
         m.valid => m.rec \in Records!Ids /\ RecIdBlobPtH[m.rec] = m.pt,
         Reached(RecIdBlobPtH, PrimaryIdH, recBlob, RecIdCounter, torn)
  PROVE  /\ Records!Primed(m, r) = [valid |-> TRUE, rec |-> r, pt |-> RecIdBlobPtH[r]]
         /\ Records!Primed(m, r) \in [valid : BOOLEAN, rec : Nat, pt : RecPtr \cup {NoRecPtr}]
  <1>1. Records!Found(m, r) = RecIdBlobPtH[r]
    BY DEF Records!Found
  <1>2. r \in Nat /\ RecIdBlobPtH[r] \in RecPtr
    BY DEF Reached, Records!Ids
  <1> QED BY <1>1, <1>2 DEF Records!Primed

\* The ways in which the primary map changes; h[r] = p.
LEMMA EntriesOfNew ==
  ASSUME NEW h, NEW n, NEW b, NEW c, NEW t, Reached(h, n, b, c, t), NEW name, name \notin DOMAIN n, NEW t2
  PROVE  /\ Entries(Records!Mapped(n, name, c), n, DOMAIN h \cup {c}, c, name, name, t2)
         /\ name \in t2 => Entries(n, n, DOMAIN h \cup {c}, c, name, name, t2)
  <1>1. c \notin DOMAIN h /\ n \in [DOMAIN n -> DOMAIN h]
    BY DEF Reached
  <1> DEFINE m == Records!Mapped(n, name, c)
  <1>2. DOMAIN m = DOMAIN n \cup {name} /\ m[name] = c /\ \A x \in DOMAIN n : m[x] = n[x]
    BY DEF Records!Mapped
  <1>3. m \in [DOMAIN m -> DOMAIN h \cup {c}]
    BY <1>1 DEF Records!Mapped
  <1> HIDE DEF m
  <1>4. \A x \in DOMAIN n : n[x] # c
    BY <1>1
  <1>5. Entries(m, n, DOMAIN h \cup {c}, c, name, name, t2)
    BY <1>2, <1>3, <1>4 DEF Entries
  <1>6. name \in t2 => Entries(n, n, DOMAIN h \cup {c}, c, name, name, t2)
    BY <1>1, <1>4 DEF Entries
  <1> QED BY <1>5, <1>6 DEF m

LEMMA EntriesOfOld ==
  ASSUME NEW h, NEW n, NEW b, NEW c, NEW t, Reached(h, n, b, c, t), NEW r \in DOMAIN h, NEW name, NEW t2
  PROVE  LET old == b[h[r]].name
             rest == Records!Without(n, {old})
         IN /\ Entries(Records!Mapped(rest, name, r), n, DOMAIN h, r, name, old, t2)
            /\ name \in t2 => Entries(rest, n, DOMAIN h, r, name, old, t2)
            /\ t \subseteq t2 => Entries(n, n, DOMAIN h, r, old, old, t2)
  <1> DEFINE old == b[h[r]].name
             rest == Records!Without(n, {old})
             m == Records!Mapped(rest, name, r)
  <1>1. n \in [DOMAIN n -> DOMAIN h] /\ \A x \in DOMAIN n : n[x] = r => x = old
    BY DEF Reached
  <1>2. old \in t \/ (old \in DOMAIN n /\ n[old] = r)
    BY DEF Reached
  <1> HIDE DEF old
  <1>3. /\ DOMAIN rest = DOMAIN n \ {old} /\ \A x \in DOMAIN rest : rest[x] = n[x] /\ n[x] # r
        /\ rest \in [DOMAIN rest -> DOMAIN h]
    BY <1>1 DEF Records!Without
  <1> HIDE DEF rest
  <1>4. /\ DOMAIN m = DOMAIN rest \cup {name} /\ m[name] = r
        /\ \A x \in DOMAIN rest : x # name => m[x] = rest[x]
    BY DEF Records!Mapped
  <1>5. m \in [DOMAIN m -> DOMAIN h]
    BY <1>3 DEF Records!Mapped
  <1> HIDE DEF m
  <1>6. Entries(m, n, DOMAIN h, r, name, old, t2)
    BY <1>3, <1>4, <1>5 DEF Entries
  <1>7. name \in t2 => Entries(rest, n, DOMAIN h, r, name, old, t2)
    BY <1>3 DEF Entries
  <1>8. t \subseteq t2 => Entries(n, n, DOMAIN h, r, old, old, t2)
    BY <1>1, <1>2 DEF Entries
  <1> QED BY <1>6, <1>7, <1>8 DEF m, rest, old

LEMMA PagedCreateKeeps ==
  ASSUME NoData \notin Records!Rec, PagedIInv, NEW rec \in Records!Rec,
         Records!Create(rec) \/ Records!CreateHalf(rec)
  PROVE  PagedIInv'
  <1>1. PICK p \in RecPtr : recBlob[p] = NoData /\ recBlob' = [recBlob EXCEPT ![p] = rec]
                       /\ RecIdBlobPtH' = Records!Mapped(RecIdBlobPtH, RecIdCounter, p)
    BY DEF Records!Create, Records!CreateHalf, Records!PutNew, Records!DataBlob!Put, Records!DataBlob!Stored
  <1>2. Reached(RecIdBlobPtH, PrimaryIdH, recBlob, RecIdCounter, torn) /\ rec.name \notin DOMAIN PrimaryIdH
    BY DEF PagedIInv, Records!Create, Records!CreateHalf
  <1>3. RecIdCounter' = RecIdCounter + 1 /\ memo' = Records!NoMemo /\ MetaDirtyP' = TRUE
    BY BumpedIsNone DEF Records!Create, Records!CreateHalf, Records!NewId
  <1>4. torn \subseteq torn' /\ Entries(PrimaryIdH', PrimaryIdH, DOMAIN RecIdBlobPtH \cup {RecIdCounter},
                                       RecIdCounter, rec.name, rec.name, torn')
    <2>1. CASE Records!Create(rec)
      <3>1. UNCHANGED torn /\ PrimaryIdH' = Records!Mapped(PrimaryIdH, rec.name, RecIdCounter)
        BY <2>1 DEF Records!Create
      <3> QED BY <1>2, <3>1, EntriesOfNew
    <2>2. CASE Records!CreateHalf(rec)
      <3>1. UNCHANGED PrimaryIdH /\ torn' = torn \cup {rec.name}
        BY <2>2 DEF Records!CreateHalf
      <3>2. rec.name \in torn' /\ torn \subseteq torn'
        BY <3>1
      <3>3. Entries(PrimaryIdH, PrimaryIdH, DOMAIN RecIdBlobPtH \cup {RecIdCounter},
                    RecIdCounter, rec.name, rec.name, torn')
        BY <1>2, <3>2, EntriesOfNew
      <3> QED BY <3>1, <3>2, <3>3
    <2> QED BY <2>1, <2>2
  <1>5. Reached(RecIdBlobPtH, PrimaryIdH, recBlob, RecIdCounter, torn)'
    BY <1>1, <1>2, <1>3, <1>4, CreatedIsReached
  <1> QED BY <1>3, <1>5, BumpedIsNone DEF PagedIInv, MemoType, Records!MemoIsFresh, PagedFileMatches

LEMMA CreateNothingKeeps == PagedIInv /\ Records!CreateNothing => PagedIInv'
  <1> SUFFICES ASSUME PagedIInv, Records!CreateNothing PROVE PagedIInv'
    OBVIOUS
  <1>1. /\ RecIdCounter' = RecIdCounter + 1 /\ memo' = Records!NoMemo /\ MetaDirtyP' = TRUE
        /\ UNCHANGED <<recBlob, RecIdBlobPtH, PrimaryIdH, torn>>
    BY BumpedIsNone DEF Records!CreateNothing, Records!NewId
  <1>2. Reached(RecIdBlobPtH, PrimaryIdH, recBlob, RecIdCounter, torn)'
    BY <1>1 DEF PagedIInv, Reached
  <1> QED BY <1>1, <1>2, BumpedIsNone DEF PagedIInv, MemoType, Records!MemoIsFresh, PagedFileMatches

\* What an update does to the record, with what it does to the primary map.
LEMMA UpdateIsReached ==
  ASSUME NoData \notin Records!Rec, Reached(RecIdBlobPtH, PrimaryIdH, recBlob, RecIdCounter, torn),
         NEW r \in DOMAIN RecIdBlobPtH, NEW rec \in Records!Rec,
         NEW q \in RecPtr, q = RecIdBlobPtH[r] \/ recBlob[q] = NoData,
         recBlob' = [recBlob EXCEPT ![RecIdBlobPtH[r]] = NoData, ![q] = rec],
         RecIdBlobPtH' = Records!Mapped(RecIdBlobPtH, r, q), UNCHANGED RecIdCounter,
         torn \subseteq torn', rec.name \in DOMAIN PrimaryIdH /\ PrimaryIdH[rec.name] # r => rec.name \in torn',
         Entries(PrimaryIdH', PrimaryIdH, DOMAIN RecIdBlobPtH, r, rec.name, recBlob[RecIdBlobPtH[r]].name, torn')
  PROVE  Reached(RecIdBlobPtH, PrimaryIdH, recBlob, RecIdCounter, torn)'
  <1> DEFINE m == PrimaryIdH'
             t2 == torn'
  <1>1. torn \subseteq t2 /\ (rec.name \in DOMAIN PrimaryIdH /\ PrimaryIdH[rec.name] # r => rec.name \in t2)
    OBVIOUS
  <1>2. Entries(m, PrimaryIdH, DOMAIN RecIdBlobPtH, r, rec.name, recBlob[RecIdBlobPtH[r]].name, t2)
    OBVIOUS
  <1> HIDE DEF m, t2
  <1>3. Reached(Records!Mapped(RecIdBlobPtH, r, q), m,
                [recBlob EXCEPT ![RecIdBlobPtH[r]] = NoData, ![q] = rec], RecIdCounter, t2)
    BY <1>1, <1>2, RewrittenIsReached
  <1> QED BY <1>3 DEF m, t2

\* An update that keeps the name disturbs no entry.
LEMMA NameKept ==
  ASSUME Reached(RecIdBlobPtH, PrimaryIdH, recBlob, RecIdCounter, torn), NEW r \in DOMAIN RecIdBlobPtH,
         UNCHANGED <<PrimaryIdH, torn>>
  PROVE  LET name == recBlob[RecIdBlobPtH[r]].name
         IN /\ torn \subseteq torn' /\ (name \in DOMAIN PrimaryIdH /\ PrimaryIdH[name] # r => name \in torn')
            /\ Entries(PrimaryIdH', PrimaryIdH, DOMAIN RecIdBlobPtH, r, name, name, torn')
  <1>1. Entries(PrimaryIdH, PrimaryIdH, DOMAIN RecIdBlobPtH, r,
                recBlob[RecIdBlobPtH[r]].name, recBlob[RecIdBlobPtH[r]].name, torn)
    BY EntriesOfOld
  <1>2. recBlob[RecIdBlobPtH[r]].name \in torn \/ PrimaryIdH[recBlob[RecIdBlobPtH[r]].name] = r
    BY DEF Reached
  <1> QED BY <1>1, <1>2

\* A setter of the primary field gives the record a name that no other record has.
LEMMA NameSet ==
  ASSUME Reached(RecIdBlobPtH, PrimaryIdH, recBlob, RecIdCounter, torn), NEW r \in DOMAIN RecIdBlobPtH,
         NEW rec, Records!SetsName(r, rec)
  PROVE  /\ torn \subseteq torn' /\ (rec.name \in DOMAIN PrimaryIdH /\ PrimaryIdH[rec.name] # r => rec.name \in torn')
         /\ Entries(PrimaryIdH', PrimaryIdH, DOMAIN RecIdBlobPtH, r, rec.name, recBlob[RecIdBlobPtH[r]].name, torn')
  <1>1. /\ UNCHANGED torn /\ (rec.name \in DOMAIN PrimaryIdH => PrimaryIdH[rec.name] = r)
        /\ PrimaryIdH' = Records!Mapped(Records!Without(PrimaryIdH, {recBlob[RecIdBlobPtH[r]].name}), rec.name, r)
    BY DEF Records!SetsName, Records!NameDeleted
  <1>2. Entries(Records!Mapped(Records!Without(PrimaryIdH, {recBlob[RecIdBlobPtH[r]].name}), rec.name, r),
                PrimaryIdH, DOMAIN RecIdBlobPtH, r, rec.name, recBlob[RecIdBlobPtH[r]].name, torn)
    BY EntriesOfOld
  <1> QED BY <1>1, <1>2

LEMMA UpdateRecKeeps ==
  ASSUME NoData \notin Records!Rec, PagedIInv, NEW r \in Records!Ids, NEW val \in Val, Records!UpdateRec(r, val)
  PROVE  PagedIInv'
  <1> DEFINE p == RecIdBlobPtH[r]
             rec == [recBlob[p] EXCEPT !.val = val]
  <1>a. Reached(RecIdBlobPtH, PrimaryIdH, recBlob, RecIdCounter, torn) /\ r \in DOMAIN RecIdBlobPtH
    BY DEF PagedIInv, Records!Ids
  <1>b. p \in RecPtr /\ recBlob[p] \in Records!Rec
    BY <1>a DEF Reached
  <1>c. rec \in Records!Rec /\ rec.name = recBlob[p].name
    BY <1>b DEF Records!Rec
  <1>1. PICK q \in RecPtr : /\ q = p \/ recBlob[q] = NoData
                        /\ recBlob' = [recBlob EXCEPT ![p] = NoData, ![q] = rec]
                        /\ RecIdBlobPtH' = Records!Mapped(RecIdBlobPtH, r, q)
    BY DEF Records!UpdateRec, Records!DataBlob!Update, Records!DataBlob!Stored
  <1>2. UNCHANGED <<PrimaryIdH, RecIdCounter, torn>> /\ memo' = Records!NoMemo /\ MetaDirtyP' = TRUE
    BY BumpedIsNone DEF Records!UpdateRec
  <1> HIDE DEF rec
  <1>3. /\ torn \subseteq torn' /\ (rec.name \in DOMAIN PrimaryIdH /\ PrimaryIdH[rec.name] # r => rec.name \in torn')
        /\ Entries(PrimaryIdH', PrimaryIdH, DOMAIN RecIdBlobPtH, r, rec.name, recBlob[p].name, torn')
    BY <1>a, <1>c, <1>2, NameKept
  <1>4. Reached(RecIdBlobPtH, PrimaryIdH, recBlob, RecIdCounter, torn)'
    BY <1>a, <1>c, <1>1, <1>2, <1>3, UpdateIsReached
  <1> QED BY <1>2, <1>4, BumpedIsNone DEF PagedIInv, MemoType, Records!MemoIsFresh, PagedFileMatches

\* What UpdateRec with the primary field does however it ends.
LEMMA RewriteIs ==
  ASSUME ~MayMove, PagedIInv, NEW r \in Records!Ids, NEW rec, Records!Rewrite(r, rec)
  PROVE  /\ recBlob' = [recBlob EXCEPT ![RecIdBlobPtH[r]] = NoData, ![RecIdBlobPtH[r]] = rec]
         /\ RecIdBlobPtH' = Records!Mapped(RecIdBlobPtH, r, RecIdBlobPtH[r])
         /\ UNCHANGED RecIdCounter /\ MetaDirtyP' = TRUE
         /\ memo' = [valid |-> TRUE, rec |-> r, pt |-> RecIdBlobPtH[r]]
         /\ RecIdBlobPtH'[r] = RecIdBlobPtH[r] /\ recBlob'[RecIdBlobPtH[r]] = rec
         /\ MemoType' /\ Records!MemoIsFresh'
  <1> DEFINE p == RecIdBlobPtH[r]
  <1>a. /\ p \in RecPtr /\ recBlob \in [RecPtr -> Records!Rec \cup {NoData}]
        /\ r \in Nat /\ r \in DOMAIN RecIdBlobPtH /\ Reached(RecIdBlobPtH, PrimaryIdH, recBlob, RecIdCounter, torn)
    BY DEF PagedIInv, Reached, Records!Ids
  <1>1. /\ recBlob' = [recBlob EXCEPT ![p] = NoData, ![p] = rec]
        /\ RecIdBlobPtH' = Records!Mapped(RecIdBlobPtH, r, p)
        /\ UNCHANGED RecIdCounter /\ MetaDirtyP' = TRUE
        /\ memo' = Records!Primed(Records!NoMemo, r)
    BY BumpedIsNone DEF Records!Rewrite, Records!DataBlob!Update
  <1>2. Records!Primed(Records!NoMemo, r) = [valid |-> TRUE, rec |-> r, pt |-> p]
    BY <1>a, BumpedIsNone, PrimedIsThere
  <1>3. r \in DOMAIN RecIdBlobPtH' /\ RecIdBlobPtH'[r] = p /\ recBlob'[p] = rec
    BY <1>1, <1>a DEF Records!Mapped
  <1>4. MemoType' /\ Records!MemoIsFresh'
    BY <1>a, <1>1, <1>2, <1>3 DEF MemoType, Records!MemoIsFresh, Records!Ids
  <1> QED BY <1>1, <1>2, <1>3, <1>4

LEMMA UpdateNamedKeeps ==
  ASSUME NoData \notin Records!Rec, ~MayMove, PagedIInv, NEW r \in Records!Ids, NEW rec \in Records!Rec,
         Records!UpdateNamed(r, rec)
  PROVE  PagedIInv'
  <1> DEFINE p == RecIdBlobPtH[r]
             m == Records!Mapped(Records!Without(PrimaryIdH, {recBlob[p].name}), rec.name, r)
  <1>a. Reached(RecIdBlobPtH, PrimaryIdH, recBlob, RecIdCounter, torn) /\ r \in DOMAIN RecIdBlobPtH /\ p \in RecPtr
    BY DEF PagedIInv, Records!Ids, Reached
  <1>b. rec # NoData
    OBVIOUS
  <1>1. Records!Rewrite(r, rec)
    BY DEF Records!UpdateNamed
  <1>2. /\ recBlob' = [recBlob EXCEPT ![p] = NoData, ![p] = rec]
        /\ RecIdBlobPtH' = Records!Mapped(RecIdBlobPtH, r, p)
        /\ UNCHANGED RecIdCounter /\ MetaDirtyP' = TRUE /\ MemoType' /\ Records!MemoIsFresh'
    BY <1>1, RewriteIs
  <1>3. /\ memo' = [valid |-> TRUE, rec |-> r, pt |-> p]
        /\ RecIdBlobPtH'[r] = p /\ recBlob'[p] = rec
    BY <1>1, RewriteIs
  <1>4. Records!NameRead(memo', r, RecIdBlobPtH'[r], recBlob') = {rec.name}
    BY <1>b, <1>3 DEF Records!NameRead
  <1>5. PrimaryIdH' = m
    BY <1>4 DEF Records!UpdateNamed, Records!NameDeleted
  <1>6. torn' = IF rec.name \in DOMAIN PrimaryIdH /\ PrimaryIdH[rec.name] # r
                THEN torn \cup {rec.name} ELSE torn
    BY DEF Records!UpdateNamed
  <1>7. torn \subseteq torn' /\ (rec.name \in DOMAIN PrimaryIdH /\ PrimaryIdH[rec.name] # r => rec.name \in torn')
    BY <1>6
  <1>8. Entries(m, PrimaryIdH, DOMAIN RecIdBlobPtH, r, rec.name, recBlob[p].name, torn')
    BY <1>a, EntriesOfOld
  <1> HIDE DEF m
  <1>9. Entries(PrimaryIdH', PrimaryIdH, DOMAIN RecIdBlobPtH, r, rec.name, recBlob[p].name, torn')
    BY <1>5, <1>8
  <1>10. Reached(RecIdBlobPtH, PrimaryIdH, recBlob, RecIdCounter, torn)'
    BY <1>a, <1>2, <1>7, <1>9, UpdateIsReached
  <1> QED BY <1>2, <1>10 DEF PagedIInv, PagedFileMatches

\* What an exception leaves is a record again, which its name need not lead to.
LEMMA UpdateTornKeeps ==
  ASSUME NoData \notin Records!Rec, ~MayMove, PagedIInv, NEW r \in Records!Ids, NEW rec \in Records!Rec,
         Records!UpdateTorn(r, rec)
  PROVE  PagedIInv'
  <1> DEFINE p == RecIdBlobPtH[r]
             old == recBlob[p]
             rest == Records!Without(PrimaryIdH, {recBlob[p].name})
  <1>a. Reached(RecIdBlobPtH, PrimaryIdH, recBlob, RecIdCounter, torn) /\ r \in DOMAIN RecIdBlobPtH /\ p \in RecPtr
    BY DEF PagedIInv, Records!Ids, Reached
  <1>b. old \in Records!Rec
    BY <1>a DEF Reached
  <1>1. PICK to \in [name : {old.name, rec.name}, val : {old.val, rec.val}] :
          /\ Records!Rewrite(r, to)
          /\ PrimaryIdH' = rest
          /\ torn' = torn \cup {to.name}
    BY DEF Records!UpdateTorn, Records!NameDeleted
  <1>2. to \in Records!Rec
    BY <1>b DEF Records!Rec
  <1>3. /\ recBlob' = [recBlob EXCEPT ![p] = NoData, ![p] = to]
        /\ RecIdBlobPtH' = Records!Mapped(RecIdBlobPtH, r, p)
        /\ UNCHANGED RecIdCounter /\ MetaDirtyP' = TRUE /\ MemoType' /\ Records!MemoIsFresh'
    BY <1>1, RewriteIs
  <1>4. torn \subseteq torn' /\ to.name \in torn'
    BY <1>1
  <1>5. Entries(rest, PrimaryIdH, DOMAIN RecIdBlobPtH, r, to.name, recBlob[p].name, torn')
    BY <1>a, <1>4, EntriesOfOld
  <1> HIDE DEF rest
  <1>6. Entries(PrimaryIdH', PrimaryIdH, DOMAIN RecIdBlobPtH, r, to.name, recBlob[p].name, torn')
    BY <1>1, <1>5
  <1>7. Reached(RecIdBlobPtH, PrimaryIdH, recBlob, RecIdCounter, torn)'
    BY <1>a, <1>2, <1>3, <1>4, <1>6, UpdateIsReached
  <1> QED BY <1>3, <1>7 DEF PagedIInv, PagedFileMatches

\* What the setters do to the primary map fits the record they write.
LEMMA SettersEntries ==
  ASSUME PagedIInv, NEW r \in Records!Ids, NEW rec \in Records!Rec,
         Records!SetsValue(r, rec) \/ Records!SetsName(r, rec)
  PROVE  /\ torn \subseteq torn' /\ (rec.name \in DOMAIN PrimaryIdH /\ PrimaryIdH[rec.name] # r => rec.name \in torn')
         /\ Entries(PrimaryIdH', PrimaryIdH, DOMAIN RecIdBlobPtH, r, rec.name, recBlob[RecIdBlobPtH[r]].name, torn')
  <1>1. Reached(RecIdBlobPtH, PrimaryIdH, recBlob, RecIdCounter, torn) /\ r \in DOMAIN RecIdBlobPtH
    BY DEF PagedIInv, Records!Ids
  <1>2. CASE Records!SetsValue(r, rec)
    <2>1. rec.name = recBlob[RecIdBlobPtH[r]].name /\ UNCHANGED <<PrimaryIdH, torn>>
      BY <1>2 DEF Records!SetsValue
    <2> QED BY <1>1, <2>1, NameKept
  <1>3. CASE Records!SetsName(r, rec)
    BY <1>1, <1>3, NameSet
  <1> QED BY <1>2, <1>3

LEMMA PagedSetFieldKeeps ==
  ASSUME NoData \notin Records!Rec, PagedIInv, NEW r \in Records!Ids, NEW rec \in Records!Rec, Records!SetField(r, rec)
  PROVE  PagedIInv'
  <1> DEFINE p == RecIdBlobPtH[r]
  <1>a. Reached(RecIdBlobPtH, PrimaryIdH, recBlob, RecIdCounter, torn) /\ r \in DOMAIN RecIdBlobPtH
    BY DEF PagedIInv, Records!Ids
  <1>1. PICK q \in RecPtr : /\ q = p \/ recBlob[q] = NoData
                        /\ recBlob' = [recBlob EXCEPT ![p] = NoData, ![q] = rec]
                        /\ RecIdBlobPtH' = Records!Mapped(RecIdBlobPtH, r, q)
    BY DEF Records!SetField, Records!DataBlob!Update, Records!DataBlob!Stored
  <1>2. Records!SetsValue(r, rec) \/ Records!SetsName(r, rec)
    BY DEF Records!SetField
  <1>3. UNCHANGED RecIdCounter /\ memo' = Records!NoMemo /\ MetaDirtyP' = TRUE
    BY BumpedIsNone DEF Records!SetField, Records!AfterPut
  <1>4. Reached(RecIdBlobPtH, PrimaryIdH, recBlob, RecIdCounter, torn)'
    BY <1>a, <1>1, <1>2, <1>3, SettersEntries, UpdateIsReached
  <1> QED BY <1>3, <1>4, BumpedIsNone DEF PagedIInv, MemoType, Records!MemoIsFresh, PagedFileMatches

LEMMA SetFieldInPlaceKeeps ==
  ASSUME NoData \notin Records!Rec, PagedIInv, NEW r \in Records!Ids, NEW rec \in Records!Rec,
         Records!SetFieldInPlace(r, rec)
  PROVE  PagedIInv'
  <1> DEFINE p == RecIdBlobPtH[r]
  <1>a. /\ Reached(RecIdBlobPtH, PrimaryIdH, recBlob, RecIdCounter, torn) /\ r \in DOMAIN RecIdBlobPtH
        /\ p \in RecPtr /\ recBlob \in [RecPtr -> Records!Rec \cup {NoData}]
        /\ RecIdBlobPtH \in [DOMAIN RecIdBlobPtH -> RecPtr]
    BY DEF PagedIInv, Records!Ids, Reached
  <1>1. /\ recBlob' = [recBlob EXCEPT ![p] = rec] /\ UNCHANGED <<RecIdBlobPtH, RecIdCounter, saved>>
        /\ memo' = Records!NoMemo \/ memo' = Records!Primed(Records!NoMemo, r)
    BY BumpedIsNone DEF Records!SetFieldInPlace
  <1>2. Records!SetsValue(r, rec) \/ Records!SetsName(r, rec)
    BY DEF Records!SetFieldInPlace
  <1>3. /\ recBlob' = [recBlob EXCEPT ![p] = NoData, ![p] = rec]
        /\ RecIdBlobPtH' = Records!Mapped(RecIdBlobPtH, r, p)
    <2>1. RecIdBlobPtH = Records!Mapped(RecIdBlobPtH, r, p)
      BY <1>a DEF Records!Mapped
    <2>2. [recBlob EXCEPT ![p] = rec] = [recBlob EXCEPT ![p] = NoData, ![p] = rec]
      BY <1>a
    <2> QED BY <1>1, <2>1, <2>2
  <1>4. Reached(RecIdBlobPtH, PrimaryIdH, recBlob, RecIdCounter, torn)'
    BY <1>a, <1>1, <1>2, <1>3, SettersEntries, UpdateIsReached
  <1>5. MemoType' /\ Records!MemoIsFresh'
    <2>1. CASE memo' = Records!NoMemo
      BY <2>1, BumpedIsNone DEF MemoType, Records!MemoIsFresh
    <2>2. CASE memo' = Records!Primed(Records!NoMemo, r)
      <3>1. /\ memo' = [valid |-> TRUE, rec |-> r, pt |-> p]
            /\ memo' \in [valid : BOOLEAN, rec : Nat, pt : RecPtr \cup {NoRecPtr}]
        BY <1>a, <2>2, BumpedIsNone, PrimedIsThere
      <3> QED BY <1>a, <1>1, <3>1 DEF MemoType, Records!MemoIsFresh, Records!Ids
    <2> QED BY <1>1, <2>1, <2>2
  <1>6. PagedFileMatches' /\ MetaDirtyP' \in BOOLEAN
    <2>1. CASE Records!SetsValue(r, rec) /\ UNCHANGED MetaDirtyP
      BY <1>1, <2>1 DEF PagedIInv, PagedFileMatches, Records!SetsValue
    <2>2. CASE MetaDirtyP' = TRUE
      BY <2>2 DEF PagedFileMatches
    <2> QED BY <2>1, <2>2 DEF Records!SetFieldInPlace
  <1> QED BY <1>4, <1>5, <1>6 DEF PagedIInv

LEMMA DeleteRecKeeps ==
  ASSUME PagedIInv, NEW r \in Records!Ids, Records!DeleteRec(r)
  PROVE  PagedIInv'
  <1>1. Reached(RecIdBlobPtH, PrimaryIdH, recBlob, RecIdCounter, torn)'
    BY DeletedIsReached DEF PagedIInv, Records!Ids, Records!DeleteRec, Records!NameDeleted, Records!DataBlob!Del
  <1>2. memo' = Records!NoMemo /\ MetaDirtyP' = TRUE
    BY BumpedIsNone DEF Records!DeleteRec
  <1> QED BY <1>1, <1>2, BumpedIsNone DEF PagedIInv, MemoType, Records!MemoIsFresh, PagedFileMatches

LEMMA OtherStepsKeep ==
  ASSUME PagedIInv, Records!CloseAndOpen \/ (\E r \in Records!Ids : Records!GetField(r)) \/ UNCHANGED Records!vars
  PROVE  PagedIInv'
  <1>1. ASSUME Records!CloseAndOpen PROVE PagedIInv'
    <2>1. UNCHANGED <<recBlob, RecIdBlobPtH, PrimaryIdH, RecIdCounter, torn>>
      BY <1>1 DEF Records!CloseAndOpen, PagedIInv, PagedFileMatches
    <2>2. saved' = [pts |-> RecIdBlobPtH, primary |-> PrimaryIdH, counter |-> RecIdCounter]
      BY <1>1 DEF Records!CloseAndOpen, PagedIInv, PagedFileMatches
    <2>3. memo' = Records!NoMemo /\ MetaDirtyP' = FALSE
      BY <1>1 DEF Records!CloseAndOpen
    <2> QED BY <2>1, <2>2, <2>3, BumpedIsNone DEF PagedIInv, MemoType, Records!MemoIsFresh, PagedFileMatches
  <1>2. ASSUME NEW r \in Records!Ids, Records!GetField(r) PROVE PagedIInv'
    <2>1. /\ UNCHANGED <<recBlob, RecIdBlobPtH, PrimaryIdH, RecIdCounter, MetaDirtyP, saved, torn>>
          /\ memo' = Records!Primed(memo, r)
      BY <1>2 DEF Records!GetField, Records!meta
    <2>2. /\ memo' = [valid |-> TRUE, rec |-> r, pt |-> RecIdBlobPtH[r]]
          /\ memo' \in [valid : BOOLEAN, rec : Nat, pt : RecPtr \cup {NoRecPtr}]
      BY <2>1, PrimedIsThere DEF PagedIInv, MemoType, Records!MemoIsFresh
    <2> QED BY <2>1, <2>2 DEF PagedIInv, MemoType, Records!MemoIsFresh, PagedFileMatches, Records!Ids
  <1>3. ASSUME UNCHANGED Records!vars PROVE PagedIInv'
    BY <1>3 DEF Records!vars, Records!meta, PagedIInv, Reached, MemoType, Records!MemoIsFresh, PagedFileMatches, Records!Ids
  <1> QED BY <1>1, <1>2, <1>3

(***************************************************************************)
(* The theorems.                                                           *)
(***************************************************************************)
LEMMA PagedInit == Records!Init => PagedIInv
  <1> SUFFICES ASSUME Records!Init PROVE PagedIInv
    OBVIOUS
  <1>1. recBlob \in [RecPtr -> Records!Rec \cup {NoData}] /\ \A p \in RecPtr : recBlob[p] = NoData
      BY DEF Records!Init, Records!DataBlob!Init
  <1>2. /\ DOMAIN RecIdBlobPtH = {} /\ DOMAIN PrimaryIdH = {}
        /\ RecIdBlobPtH \in [DOMAIN RecIdBlobPtH -> RecPtr]
        /\ PrimaryIdH \in [DOMAIN PrimaryIdH -> DOMAIN RecIdBlobPtH]
      BY DEF Records!Init
  <1>3. RecIdCounter = 0 /\ memo = Records!NoMemo /\ MetaDirtyP = TRUE
      BY DEF Records!Init
  <1>4. Reached(RecIdBlobPtH, PrimaryIdH, recBlob, RecIdCounter, torn)
      BY <1>1, <1>2, <1>3 DEF Reached
  <1> QED BY <1>3, <1>4, BumpedIsNone DEF PagedIInv, MemoType, Records!MemoIsFresh, PagedFileMatches

LEMMA PagedNext ==
  ASSUME NoData \notin Records!Rec, ~MayMove, PagedIInv, [Records!Next]_(Records!vars)
  PROVE  PagedIInv'
  BY PagedCreateKeeps, CreateNothingKeeps, UpdateRecKeeps, UpdateNamedKeeps, UpdateTornKeeps, PagedSetFieldKeeps, SetFieldInPlaceKeeps,
     DeleteRecKeeps, OtherStepsKeep DEF Records!Next

LEMMA PagedReached == PagedIInv => Records!RecordsAreReached
  <1> SUFFICES ASSUME PagedIInv PROVE Records!RecordsAreReached
    OBVIOUS
  <1>1. {RecIdBlobPtH[r] : r \in Records!Ids} = Records!DataBlob!Stored
    BY DEF PagedIInv, Reached, Records!Ids, Records!DataBlob!Stored
  <1> QED BY <1>1 DEF PagedIInv, Reached, Records!Ids, Records!RecordsAreReached

\* TStorePbBlobT: as long as no update that names the primary field moves a record, the
\* memo of GetPgBf never leads to another place than the record's, every record is found
\* by its id, every blob is of one record, a primary value leads to a record that has it,
\* and to every record that has it unless an update took the value from another record or
\* an exception tore its record: through moves, reuse of pointers, deletions, half-made
\* records, updates that throw in the middle, closing and opening.
THEOREM RecordsStayReached ==
  ASSUME NoData \notin Records!Rec, ~MayMove
  PROVE  Records!Spec => []Records!RecordsAreReached
  BY PagedInit, PagedNext, PagedReached, PTL DEF Records!Spec

\* The same of the store of the checked instance, which stands still while the pages below
\* another one are looked at.
THEOREM RunRecordsReached ==
  ASSUME NoData \notin Records!Rec, ~MayMove
  PROVE  MCSpec => []RecordsReached
  <1>1. MCInit => PagedIInv
    BY PagedInit DEF MCInit
  <1>2. PagedIInv /\ [MCNext]_<<vars, recs, kind>> => PagedIInv'
    <2> SUFFICES ASSUME PagedIInv, [MCNext]_<<vars, recs, kind>> PROVE PagedIInv'
      OBVIOUS
    <2>1. [Records!Next]_(Records!vars)
      BY DEF MCNext, recs, Records!vars, Records!meta
    <2> QED BY <2>1, PagedNext
  <1>3. PagedIInv => RecordsReached
    BY PagedReached DEF RecordsReached
  <1> QED BY <1>1, <1>2, <1>3, PTL DEF MCSpec
=============================================================================
