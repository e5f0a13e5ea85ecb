----------------------------- MODULE JoinsProofs -----------------------------
(***************************************************************************)
(* Proofs about joins, for any number of records, any frequencies and each *)
(* pair of forms: used carefully, a join and its inverse are one relation. *)
(*                                                                         *)
(* W tells how often a pair is joined as one side sees it, in either form. *)
(* Every call changes what the two sides say of some pairs, and nothing    *)
(* else; what it says of a pair is proved of any two states.               *)
(***************************************************************************)
EXTENDS Joins, FiniteSetTheorems, WellFoundedInduction, TLAPS

LEMMA LeastIs ==
  ASSUME NEW S \in SUBSET Nat, S # {}
  PROVE  \E n \in S : \A m \in S : n <= m
  <1> DEFINE Less == OpToRel(<, Nat)
  <1>1. IsWellFoundedOn(Less, Nat)
    BY NatLessThanWellFounded
  <1>2. \A m, n \in Nat : <<m, n>> \in Less <=> m < n
    BY DEF OpToRel
  <1> HIDE DEF Less
  <1>3. \E n \in S : \A m \in S : ~(<<m, n>> \in Less)
    BY <1>1, WFMin
  <1>4. PICK n \in S : \A m \in S : ~(<<m, n>> \in Less)
    BY <1>3
  <1>5. n \in Nat /\ \A m \in S : m \in Nat /\ ~(m < n)
    BY <1>2, <1>4
  <1> QED BY <1>5

LEMMA ByInduction ==
  ASSUME NEW S, 0 \in S, \A n \in Nat : n \in S => n + 1 \in S
  PROVE  \A n \in Nat : n \in S
  <1> SUFFICES ASSUME Nat \ S # {} PROVE FALSE
    OBVIOUS
  <1>1. PICK n \in Nat \ S : \A m \in Nat \ S : n <= m
    BY LeastIs
  <1>2. n \in Nat /\ n # 0 /\ n \notin S
    BY <1>1
  <1>3. n - 1 \in Nat /\ n - 1 \in S
    BY <1>1, <1>2
  <1> QED BY <1>2, <1>3

LEMMA OtherIs ==
  ASSUME NEW s \in Side
  PROVE  /\ Other[s] \in Side /\ Other[s] # s /\ Other[Other[s]] = s
         /\ \A t \in Side : t = s \/ t = Other[s]
  <1>1. Other["J"] = "K" /\ Other["K"] = "J" /\ (s = "J" \/ s = "K") /\ "J" # "K"
    BY DEF Other, Side
  <1> QED BY <1>1 DEF Side

LEMMA FormIs ==
  ASSUME NEW s \in Side
  PROVE  /\ Form[s] = "index" \/ Form[s] = "field"
         /\ ~(Form[s] = "index" /\ Form[s] = "field")
         /\ HasFq[s] \in BOOLEAN
  BY ConstantsOK

LEMMA IdIs ==
  ASSUME NEW r \in RecId
  PROVE  r \in Nat /\ r # None /\ r < MaxRecs
  BY ConstantsOK DEF RecId, None

(***************************************************************************)
(* What one side says of a pair, and the primitive changes.                *)
(***************************************************************************)
JoinRec == [idx : [Side -> [RecId \X RecId -> Int]],
            fld : [Side -> [RecId -> RecId \cup {None}]],
            fq  : [Side -> [RecId -> 0..MaxJoinFq]]]

W(j, s, r, q) ==
  IF Form[s] = "index" THEN j.idx[s][<<r, q>>]
  ELSE IF j.fld[s][r] # q THEN 0
       ELSE IF HasFq[s] THEN j.fq[s][r] ELSE 1

\* A field that is set has a frequency, if it has a place for one; a field join has no items.
WF(j) ==
  /\ j \in JoinRec
  /\ \A s \in Side, r \in RecId : /\ Form[s] = "field" /\ HasFq[s] /\ j.fld[s][r] # None => j.fq[s][r] # 0
                                  /\ Form[s] = "field" => \A q \in RecId : j.idx[s][<<r, q>>] = 0

\* k says of every other pair what j says.
But(j, k, s, r, q) ==
  \A t \in Side, x, y \in RecId : ~(t = s /\ x = r /\ y = q) => W(k, t, x, y) = W(j, t, x, y)

LEMMA PartsAre ==
  ASSUME NEW j \in JoinRec, NEW s \in Side, NEW r \in RecId
  PROVE  /\ j = [idx |-> j.idx, fld |-> j.fld, fq |-> j.fq]
         /\ j.idx \in [Side -> [RecId \X RecId -> Int]] /\ j.fld \in [Side -> [RecId -> RecId \cup {None}]]
         /\ j.fq \in [Side -> [RecId -> 0..MaxJoinFq]]
         /\ j.fld[s][r] \in RecId \cup {None} /\ j.fq[s][r] \in 0..MaxJoinFq
         /\ \A q \in RecId : j.idx[s][<<r, q>>] \in Int
  <1>1. /\ j = [idx |-> j.idx, fld |-> j.fld, fq |-> j.fq]
        /\ j.idx \in [Side -> [RecId \X RecId -> Int]] /\ j.fld \in [Side -> [RecId -> RecId \cup {None}]]
        /\ j.fq \in [Side -> [RecId -> 0..MaxJoinFq]]
    BY DEF JoinRec
  <1>2. j.fld[s] \in [RecId -> RecId \cup {None}] /\ j.fq[s] \in [RecId -> 0..MaxJoinFq] /\ j.idx[s] \in [RecId \X RecId -> Int]
    BY <1>1
  <1>3. \A q \in RecId : <<r, q>> \in RecId \X RecId
    OBVIOUS
  <1>4. \A q \in RecId : j.idx[s][<<r, q>>] \in Int
    BY <1>2, <1>3
  <1> QED BY <1>1, <1>2, <1>4

LEMMA WIs ==
  ASSUME NEW j, WF(j), NEW s \in Side, NEW r \in RecId, NEW q \in RecId
  PROVE  /\ W(j, s, r, q) \in Int
         /\ Form[s] = "field" => /\ W(j, s, r, q) >= 0
                                 /\ W(j, s, r, q) > 0 <=> j.fld[s][r] = q
                                 /\ j.fld[s][r] = q => W(j, s, r, q) = IF HasFq[s] THEN j.fq[s][r] ELSE 1
         /\ q \in JoinedWith(j, s, r) <=> W(j, s, r, q) > 0
         /\ W(j, s, r, q) > 0 => JoinFq(j, s, r, q) = W(j, s, r, q)
  <1>1. /\ j.fld[s][r] \in RecId \cup {None} /\ j.fq[s][r] \in Nat /\ j.idx[s][<<r, q>>] \in Int
    <2>1. j \in JoinRec
      BY DEF WF
    <2>2. MaxJoinFq \in Nat
      BY ConstantsOK
    <2> QED BY <2>1, <2>2, PartsAre
  <1>2. q # None
    BY IdIs
  <1>3. CASE Form[s] = "index"
    BY <1>1, <1>3 DEF W, JoinedWith, JoinFq
  <1>4. CASE Form[s] = "field"
    <2>1. Form[s] # "index" /\ (HasFq[s] /\ j.fld[s][r] # None => j.fq[s][r] # 0)
      BY <1>4 DEF WF
    <2>2. CASE j.fld[s][r] = q
      <3>1. W(j, s, r, q) = IF HasFq[s] THEN j.fq[s][r] ELSE 1
        BY <2>1, <2>2 DEF W
      <3>2. q \in JoinedWith(j, s, r)
        BY <1>2, <2>1, <2>2 DEF JoinedWith
      <3>3. JoinFq(j, s, r, q) = IF HasFq[s] THEN j.fq[s][r] ELSE 1
        BY <1>4, <2>1 DEF JoinFq
      <3> QED BY <1>1, <1>2, <1>4, <2>1, <2>2, <3>1, <3>2, <3>3
    <2>3. CASE j.fld[s][r] # q
      <3>1. W(j, s, r, q) = 0 /\ q \notin JoinedWith(j, s, r)
        BY <2>1, <2>3 DEF W, JoinedWith
      <3> QED BY <1>4, <2>3, <3>1
    <2> QED BY <2>2, <2>3
  <1> QED BY <1>3, <1>4, FormIs

LEMMA IndexSetIs ==
  ASSUME NEW j, WF(j), NEW s \in Side, Form[s] = "index", NEW r \in RecId, NEW q \in RecId, NEW v \in Int
  PROVE  LET k == [j EXCEPT !.idx[s][<<r, q>>] = v]
         IN WF(k) /\ W(k, s, r, q) = v /\ But(j, k, s, r, q)
  <1> DEFINE k == [j EXCEPT !.idx[s][<<r, q>>] = v]
  <1>1. /\ j \in JoinRec /\ j = [idx |-> j.idx, fld |-> j.fld, fq |-> j.fq]
        /\ j.idx \in [Side -> [RecId \X RecId -> Int]]
    BY PartsAre DEF WF
  <1>2. /\ k.fld = j.fld /\ k.fq = j.fq
        /\ k.idx = [j.idx EXCEPT ![s][<<r, q>>] = v]
        /\ k \in JoinRec
    BY <1>1 DEF JoinRec
  <1>3. /\ k.idx[s][<<r, q>>] = v
        /\ \A t \in Side, x, y \in RecId : ~(t = s /\ x = r /\ y = q) => k.idx[t][<<x, y>>] = j.idx[t][<<x, y>>]
    BY <1>1, <1>2
  <1> HIDE DEF k
  <1>4. WF(k)
    <2>1. \A t \in Side, x \in RecId : /\ Form[t] = "field" /\ HasFq[t] /\ k.fld[t][x] # None => k.fq[t][x] # 0
                                       /\ Form[t] = "field" => \A y \in RecId : k.idx[t][<<x, y>>] = 0
      BY <1>2, <1>3, FormIs DEF WF
    <2> QED BY <1>2, <2>1 DEF WF
  <1>5. W(k, s, r, q) = v /\ But(j, k, s, r, q)
    BY <1>2, <1>3 DEF W, But
  <1> QED BY <1>4, <1>5 DEF k

LEMMA SetFieldIs ==
  ASSUME NEW j, WF(j), NEW s \in Side, Form[s] = "field", NEW r \in RecId, NEW q \in RecId \cup {None},
         NEW n \in 0..MaxJoinFq, q # None => n # 0
  PROVE  LET k == SetField(j, s, r, q, n)
         IN /\ WF(k) /\ k.fld[s][r] = q
            /\ \A y \in RecId : W(k, s, r, y) = IF y # q THEN 0 ELSE IF HasFq[s] THEN n ELSE 1
            /\ \A t \in Side, x, y \in RecId : ~(t = s /\ x = r) => W(k, t, x, y) = W(j, t, x, y)
  <1> DEFINE k == SetField(j, s, r, q, n)
             f == IF HasFq[s] THEN n ELSE 0
  <1>1. /\ j \in JoinRec /\ j = [idx |-> j.idx, fld |-> j.fld, fq |-> j.fq]
        /\ j.fld \in [Side -> [RecId -> RecId \cup {None}]] /\ j.fq \in [Side -> [RecId -> 0..MaxJoinFq]]
    BY PartsAre DEF WF
  <1>2. f \in 0..MaxJoinFq
    BY ConstantsOK
  <1>3. /\ k.idx = j.idx
        /\ k.fld = [j.fld EXCEPT ![s][r] = q]
        /\ k.fq = [j.fq EXCEPT ![s][r] = f]
        /\ k \in JoinRec
    <2>1. k = [[j EXCEPT !.fld = [j.fld EXCEPT ![s][r] = q]] EXCEPT !.fq = [j.fq EXCEPT ![s][r] = f]]
      BY <1>1 DEF SetField
    <2> HIDE DEF k, f
    <2>2. [j.fld EXCEPT ![s][r] = q] \in [Side -> [RecId -> RecId \cup {None}]]
      BY <1>1
    <2>3. [j.fq EXCEPT ![s][r] = f] \in [Side -> [RecId -> 0..MaxJoinFq]]
      BY <1>1, <1>2
    <2> QED BY <1>1, <2>1, <2>2, <2>3 DEF JoinRec
  <1> HIDE DEF k, f
  <1>4. /\ k.fld[s][r] = q /\ k.fq[s][r] = f
        /\ \A t \in Side, x \in RecId : ~(t = s /\ x = r) => k.fld[t][x] = j.fld[t][x] /\ k.fq[t][x] = j.fq[t][x]
    BY <1>1, <1>3
  <1>5. WF(k)
    <2>1. \A t \in Side, x \in RecId : /\ Form[t] = "field" /\ HasFq[t] /\ k.fld[t][x] # None => k.fq[t][x] # 0
                                       /\ Form[t] = "field" => \A y \in RecId : k.idx[t][<<x, y>>] = 0
      BY <1>3, <1>4 DEF WF, f
    <2> QED BY <1>3, <2>1 DEF WF
  <1>6. \A y \in RecId : W(k, s, r, y) = IF y # q THEN 0 ELSE IF HasFq[s] THEN n ELSE 1
    BY <1>4 DEF W, f
  <1>7. \A t \in Side, x, y \in RecId : ~(t = s /\ x = r) => W(k, t, x, y) = W(j, t, x, y)
    BY <1>3, <1>4 DEF W
  <1> QED BY <1>4, <1>5, <1>6, <1>7 DEF k

(***************************************************************************)
(* Both sides of a pair.                                                   *)
(***************************************************************************)
Knows == ~BothFields \/ \A t \in Side : HasFq[t]

\* What the sides say of a pair fits together.
Pair(j, s, r, q) ==
  /\ W(j, s, r, q) >= 0 /\ W(j, Other[s], q, r) >= 0
  /\ W(j, s, r, q) > 0 <=> W(j, Other[s], q, r) > 0
  /\ Knows => W(j, s, r, q) = W(j, Other[s], q, r)

\* Both sides say the same of a pair as before, or no longer anything.
Same(j, k, s, r, q) == W(k, s, r, q) = W(j, s, r, q) /\ W(k, Other[s], q, r) = W(j, Other[s], q, r)
Gone(k, s, r, q) == W(k, s, r, q) = 0 /\ W(k, Other[s], q, r) = 0

\* A frequency with which a pair may be deleted, and one that leaves nothing of it.
Whole(j, s, r, q, n) == n = All \/ n = W(j, s, r, q) \/ BothFields
Fits(j, s, r, q, n) == Whole(j, s, r, q, n) \/ (BothLists /\ n \in Nat /\ n <= W(j, s, r, q))

LEMMA PairOther ==
  ASSUME NEW j, NEW s \in Side, NEW r, NEW q
  PROVE  Pair(j, Other[s], q, r) <=> Pair(j, s, r, q)
  BY OtherIs DEF Pair

LEMMA SamePair ==
  ASSUME NEW j, NEW k, NEW s, NEW r, NEW q, Same(j, k, s, r, q)
  PROVE  Pair(k, s, r, q) <=> Pair(j, s, r, q)
  BY DEF Same, Pair

LEMMA DelSideIs ==
  ASSUME NEW j, WF(j), NEW s \in Side, NEW r \in RecId, NEW q \in RecId, W(j, s, r, q) > 0,
         NEW n, Form[s] = "index" /\ n # All => n \in Int
  PROVE  LET k == DelSide(j, s, r, q, n)
         IN /\ WF(k) /\ But(j, k, s, r, q)
            /\ W(k, s, r, q) = IF Form[s] = "field" \/ n = All THEN 0 ELSE W(j, s, r, q) - n
  <1> DEFINE k == DelSide(j, s, r, q, n)
  <1>1. CASE Form[s] = "index"
    <2> DEFINE v == IF n = All THEN 0 ELSE j.idx[s][<<r, q>>] - n
    <2>1. W(j, s, r, q) = j.idx[s][<<r, q>>] /\ j.idx[s][<<r, q>>] \in Int
      BY <1>1, WIs DEF W
    <2>2. v \in Int
      BY <1>1, <2>1
    <2>3. k = [j EXCEPT !.idx[s][<<r, q>>] = v]
      <3>1. j \in JoinRec
        BY DEF WF
      <3>2. k = [j EXCEPT !.idx[s][<<r, q>>] = IF n = All THEN 0 ELSE @ - n]
        BY <1>1 DEF DelSide, DeleteJoin
      <3>3. j = [idx |-> j.idx, fld |-> j.fld, fq |-> j.fq] /\ j.idx \in [Side -> [RecId \X RecId -> Int]]
        BY <3>1, PartsAre
      <3> HIDE DEF k
      <3> QED BY <3>2, <3>3
    <2>4. v = IF Form[s] = "field" \/ n = All THEN 0 ELSE W(j, s, r, q) - n
      BY <1>1, <2>1, FormIs
    <2> HIDE DEF k, v
    <2>5. WF(k) /\ W(k, s, r, q) = v /\ But(j, k, s, r, q)
      BY <1>1, <2>2, <2>3, IndexSetIs
    <2> QED BY <2>4, <2>5 DEF k
  <1>2. CASE Form[s] = "field"
    <2>1. k = SetField(j, s, r, None, 0) /\ Form[s] # "index"
      BY <1>2 DEF DelSide, ClearField
    <2>2. None \in RecId \cup {None} /\ 0 \in 0..MaxJoinFq
      BY ConstantsOK
    <2> HIDE DEF k
    <2>3. /\ WF(k) /\ \A y \in RecId : y # None => W(k, s, r, y) = 0
          /\ \A t \in Side, x, y \in RecId : ~(t = s /\ x = r) => W(k, t, x, y) = W(j, t, x, y)
      BY <1>2, <2>1, <2>2, SetFieldIs
    <2>4. \A y \in RecId : y # None
      BY IdIs
    <2>5. \A y \in RecId : y # q => W(j, s, r, y) = 0
      <3>1. j.fld[s][r] = q
        BY <1>2, WIs
      <3> QED BY <2>1, <3>1 DEF W
    <2>6. But(j, k, s, r, q)
      BY <2>3, <2>4, <2>5 DEF But
    <2> QED BY <1>2, <2>3, <2>4, <2>6 DEF k
  <1> QED BY <1>1, <1>2, FormIs

LEMMA DelJoinIs ==
  ASSUME NEW j, WF(j), NEW s \in Side, NEW r \in RecId, NEW q \in RecId, q \in RecIds(Other[s]),
         Pair(j, s, r, q), W(j, s, r, q) > 0, NEW n, Fits(j, s, r, q, n)
  PROVE  LET k == DelJoin(j, s, r, q, n)
         IN /\ WF(k) /\ \A x, y \in RecId : ~(x = r /\ y = q) => Same(j, k, s, x, y)
            /\ Pair(k, s, r, q) /\ W(k, s, r, q) <= W(j, s, r, q)
            /\ Whole(j, s, r, q, n) => Gone(k, s, r, q)
  <1> DEFINE o == Other[s]
             own == DelSide(j, s, r, q, n)
             k == DelJoin(j, s, r, q, n)
             v == W(j, s, r, q)
             w == W(j, o, q, r)
  <1>1. o \in Side /\ o # s
    BY OtherIs
  <1>2. k = DelSide(own, o, q, r, n)
    BY DEF DelJoin
  <1>3. v \in Int /\ w \in Int /\ v > 0 /\ w > 0 /\ (Knows => v = w)
    BY <1>1, WIs DEF Pair
  <1>4. ~BothFields /\ n # All => n \in Int
    BY <1>3 DEF Fits, Whole
  <1>5. Form[s] = "index" \/ Form[o] = "index" => ~BothFields
    BY <1>1, FormIs DEF BothFields
  <1> HIDE DEF k, own
  <1>6. /\ WF(own) /\ But(j, own, s, r, q)
        /\ W(own, s, r, q) = IF Form[s] = "field" \/ n = All THEN 0 ELSE v - n
    BY <1>3, <1>4, <1>5, DelSideIs DEF own
  <1>7. W(own, o, q, r) = w
    BY <1>1, <1>6 DEF But
  <1>8. /\ WF(k) /\ But(own, k, o, q, r)
        /\ W(k, o, q, r) = IF Form[o] = "field" \/ n = All THEN 0 ELSE w - n
    <2>1. W(own, o, q, r) > 0
      BY <1>3, <1>7
    <2> HIDE DEF o
    <2> QED BY <1>1, <1>2, <1>4, <1>5, <1>6, <1>7, <2>1, DelSideIs
  <1>9. W(k, s, r, q) = W(own, s, r, q)
    BY <1>1, <1>8 DEF But
  <1>10. \A x, y \in RecId : ~(x = r /\ y = q) => Same(j, k, s, x, y)
    BY <1>1, <1>6, <1>8 DEF But, Same
  <1>11. /\ BothFields => Form[s] = "field" /\ Form[o] = "field"
         /\ BothLists => Form[s] = "index" /\ Form[o] = "index" /\ Knows
         /\ ~BothFields => Knows
    BY <1>1, FormIs DEF BothFields, BothLists, Knows
  <1>12. /\ Form[s] = "index" <=> ~(Form[s] = "field")
         /\ Form[o] = "index" <=> ~(Form[o] = "field")
    BY <1>1, FormIs
  <1> HIDE DEF o
  <1>13. Whole(j, s, r, q, n) => W(k, s, r, q) = 0 /\ W(k, o, q, r) = 0
    BY <1>3, <1>6, <1>8, <1>9, <1>11, <1>12 DEF Whole
  <1>14. /\ W(k, s, r, q) \in Int /\ W(k, o, q, r) \in Int
         /\ W(k, s, r, q) >= 0 /\ W(k, o, q, r) >= 0 /\ W(k, s, r, q) <= v
         /\ W(k, s, r, q) > 0 <=> W(k, o, q, r) > 0
         /\ Knows => W(k, s, r, q) = W(k, o, q, r)
    <2>1. CASE Whole(j, s, r, q, n)
      BY <1>3, <1>13, <2>1
    <2>2. CASE BothLists /\ n \in Nat /\ n <= v /\ n # All
      <3>1. W(k, s, r, q) = v - n /\ W(k, o, q, r) = w - n /\ v = w
        BY <1>3, <1>6, <1>8, <1>9, <1>11, <1>12, <2>2
      <3> HIDE DEF v, w
      <3> QED BY <1>3, <2>2, <3>1
    <2> QED BY <2>1, <2>2 DEF Fits, Whole
  <1> QED BY <1>8, <1>10, <1>13, <1>14 DEF Pair, Gone, o, k

\* What a join with frequency n adds to what a side says.
Added(j, s, r, q, n) == IF Form[s] = "index" THEN W(j, s, r, q) + n ELSE IF HasFq[s] THEN n ELSE 1

\* The records that are joined exist.
Exist(j, s, r, q) == W(j, s, r, q) > 0 => r \in RecIds(s) /\ q \in RecIds(Other[s])

LEMMA SameSame ==
  ASSUME NEW i, NEW j, NEW k, NEW s, NEW r, NEW q, Same(i, j, s, r, q), Same(j, k, s, r, q)
  PROVE  Same(i, k, s, r, q)
  BY DEF Same

LEMMA GoneIs ==
  ASSUME NEW j, NEW k, NEW s \in Side, NEW r, NEW q
  PROVE  /\ Gone(j, s, r, q) => Pair(j, s, r, q)
         /\ Gone(j, s, r, q) /\ Same(j, k, s, r, q) => Gone(k, s, r, q)
         /\ Gone(j, Other[s], q, r) <=> Gone(j, s, r, q)
         /\ Same(j, k, Other[s], q, r) <=> Same(j, k, s, r, q)
         /\ Gone(j, s, r, q) => Exist(j, s, r, q)
  BY OtherIs DEF Gone, Same, Pair, Exist

LEMMA AddSideIs ==
  ASSUME NEW j, WF(j), NEW s \in Side, NEW r \in RecId, NEW q \in RecId, NEW n \in 1..MaxJoinFq,
         \A y \in RecId : y # q => Pair(j, s, r, y) /\ (Form[s] = "field" => Exist(j, s, r, y))
  PROVE  LET k == AddSide(j, s, r, q, n)
         IN /\ WF(k) /\ W(k, s, r, q) = Added(j, s, r, q, n) /\ W(k, Other[s], q, r) = W(j, Other[s], q, r)
            /\ \A x, y \in RecId : ~(x = r /\ y = q) =>
                 IF Form[s] = "field" /\ x = r THEN Gone(k, s, x, y) ELSE Same(j, k, s, x, y)
  <1> DEFINE k == AddSide(j, s, r, q, n)
             o == Other[s]
             old == j.fld[s][r]
             before == IF HasFq[s] THEN j.fq[s][r] ELSE 1
             free == IF old \in {None, q} THEN j ELSE DelJoin(j, s, r, old, before)
  <1>1. /\ o \in Side /\ o # s /\ n \in Int /\ n # 0 /\ n \in 0..MaxJoinFq /\ q # None
        /\ j \in JoinRec
    BY OtherIs, IdIs, ConstantsOK DEF WF
  <1>2. CASE Form[s] = "index"
    <2> DEFINE v == j.idx[s][<<r, q>>] + n
    <2>1. W(j, s, r, q) = j.idx[s][<<r, q>>] /\ j.idx[s][<<r, q>>] \in Int
      BY <1>2, WIs DEF W
    <2>2. v \in Int /\ v = Added(j, s, r, q, n)
      BY <1>1, <1>2, <2>1 DEF Added
    <2>3. k = [j EXCEPT !.idx[s][<<r, q>>] = v]
      <3>1. k = [j EXCEPT !.idx[s][<<r, q>>] = @ + n]
        BY <1>2 DEF AddSide, IndexJoin
      <3>2. j = [idx |-> j.idx, fld |-> j.fld, fq |-> j.fq] /\ j.idx \in [Side -> [RecId \X RecId -> Int]]
        BY <1>1, PartsAre
      <3> HIDE DEF k
      <3> QED BY <3>1, <3>2
    <2>4. v \in Int
      BY <2>2
    <2>5. Form[s] # "field"
      BY <1>2
    <2> HIDE DEF k, v, o
    <2>6. WF(k) /\ W(k, s, r, q) = v /\ But(j, k, s, r, q)
      BY <1>2, <2>3, <2>4, IndexSetIs
    <2>7. W(k, o, q, r) = W(j, o, q, r)
      BY <1>1, <2>6 DEF But
    <2>8. \A x, y \in RecId : ~(x = r /\ y = q) => Same(j, k, s, x, y)
      BY <1>1, <2>6 DEF But, Same, o
    <2> QED BY <2>2, <2>5, <2>6, <2>7, <2>8 DEF k, o
  <1>3. CASE Form[s] = "field"
    <2>1. k = SetField(free, s, r, q, n) /\ Form[s] # "index"
      BY <1>3 DEF AddSide
    <2>2. \A y \in RecId : y # old => W(j, s, r, y) = 0
      BY <2>1 DEF W
    <2>3. /\ WF(free)
          /\ \A x, y \in RecId : x # r \/ y = q => Same(j, free, s, x, y)
          /\ \A y \in RecId : y # q => W(free, o, y, r) = 0
      <3>1. CASE old \in {None, q}
        <4>1. free = j
          BY <3>1
        <4>2. \A y \in RecId : y # q => y # old
          BY <3>1, IdIs
        <4>3. \A y \in RecId : y # q => W(j, o, y, r) = 0
          <5>1. SUFFICES ASSUME NEW y \in RecId, y # q PROVE W(j, o, y, r) = 0
            OBVIOUS
          <5>2. Pair(j, s, r, y) /\ W(j, s, r, y) = 0 /\ W(j, o, y, r) \in Int
            BY <1>1, <2>2, <4>2, <5>1, WIs
          <5> QED BY <5>2 DEF Pair
        <4> HIDE DEF free
        <4> QED BY <4>1, <4>3 DEF Same
      <3>2. CASE old \notin {None, q}
        <4>1. old \in RecId /\ free = DelJoin(j, s, r, old, before) /\ old # q
          BY <1>1, <3>2, PartsAre
        <4>2. Pair(j, s, r, old) /\ Exist(j, s, r, old)
          BY <1>3, <4>1
        <4>3. W(j, s, r, old) > 0 /\ W(j, s, r, old) = before
          BY <1>3, <4>1, WIs
        <4> HIDE DEF free, old, before
        <4>4. Fits(j, s, r, old, before) /\ Whole(j, s, r, old, before)
          BY <4>3 DEF Fits, Whole
        <4>5. old \in RecIds(Other[s])
          BY <4>2, <4>3 DEF Exist
        <4>6. /\ WF(free) /\ \A x, y \in RecId : ~(x = r /\ y = old) => Same(j, free, s, x, y)
              /\ Gone(free, s, r, old)
          BY <4>1, <4>2, <4>3, <4>4, <4>5, DelJoinIs
        <4>7. \A y \in RecId : y # q => W(free, o, y, r) = 0
          <5>1. SUFFICES ASSUME NEW y \in RecId, y # q, y # old PROVE W(free, o, y, r) = 0
            BY <4>6 DEF Gone
          <5>2. Pair(j, s, r, y) /\ W(j, s, r, y) = 0 /\ W(j, o, y, r) \in Int
            BY <1>1, <2>2, <5>1, WIs
          <5>3. W(j, o, y, r) = 0
            BY <5>2 DEF Pair
          <5> QED BY <4>6, <5>1, <5>3 DEF Same
        <4> QED BY <4>1, <4>6, <4>7
      <3> QED BY <3>1, <3>2
    <2> HIDE DEF k, free, old, before, o
    <2>4. /\ WF(k)
          /\ \A y \in RecId : W(k, s, r, y) = IF y # q THEN 0 ELSE IF HasFq[s] THEN n ELSE 1
          /\ \A t \in Side, x, y \in RecId : ~(t = s /\ x = r) => W(k, t, x, y) = W(free, t, x, y)
      BY <1>1, <1>3, <2>1, <2>3, SetFieldIs
    <2>5. W(k, s, r, q) = Added(j, s, r, q, n)
      BY <2>1, <2>4 DEF Added
    <2>6. \A x, y \in RecId : W(k, o, y, x) = W(free, o, y, x)
      BY <1>1, <2>4
    <2>7. W(k, o, q, r) = W(j, o, q, r)
      BY <2>3, <2>6 DEF Same, o
    <2>8. \A y \in RecId : y # q => Gone(k, s, r, y)
      BY <2>3, <2>4, <2>6 DEF Gone, o
    <2>9. \A x, y \in RecId : x # r => Same(j, k, s, x, y)
      BY <2>3, <2>4, <2>6 DEF Same, o
    <2> QED BY <1>3, <2>4, <2>5, <2>7, <2>8, <2>9 DEF k, o
  <1> QED BY <1>2, <1>3, FormIs

\* With what a pair may be joined so that both sides can tell it.
Told(j, s, r, q, n) ==
  BothLists \/ BothFields \/ (W(j, s, r, q) = 0 /\ \A t \in Side : Form[t] = "field" => HasFq[t] \/ n = 1)

\* What gives way to the pair <<r, q>>.
Yields(s, r, q, x, y) == (Form[s] = "field" /\ x = r) \/ (Form[Other[s]] = "field" /\ y = q)

LEMMA AddJoinToIs ==
  ASSUME NEW j, WF(j), NEW s \in Side, NEW r \in RecId, NEW q \in RecId, NEW n \in 1..MaxJoinFq,
         \A x, y \in RecId : Pair(j, s, x, y) /\ (Yields(s, r, q, x, y) => Exist(j, s, x, y)),
         Told(j, s, r, q, n)
  PROVE  LET k == AddJoinTo(j, s, r, q, n)
         IN /\ WF(k) /\ Pair(k, s, r, q) /\ W(k, s, r, q) > 0
            /\ W(k, s, r, q) <= W(j, s, r, q) + n /\ W(k, Other[s], q, r) <= W(j, Other[s], q, r) + n
            /\ \A x, y \in RecId : ~(x = r /\ y = q) =>
                 IF Yields(s, r, q, x, y) THEN Gone(k, s, x, y) ELSE Same(j, k, s, x, y)
  <1> DEFINE o == Other[s]
             i == AddSide(j, s, r, q, n)
             k == AddJoinTo(j, s, r, q, n)
             v == W(j, s, r, q)
             w == W(j, o, q, r)
  <1>1. /\ o \in Side /\ o # s /\ Other[o] = s /\ n \in Int /\ n > 0
    BY OtherIs, ConstantsOK
  <1>2. k = AddSide(i, o, q, r, n)
    BY DEF AddJoinTo
  <1> HIDE DEF k, i
  <1>3. /\ WF(i) /\ W(i, s, r, q) = Added(j, s, r, q, n) /\ W(i, o, q, r) = w
        /\ \A x, y \in RecId : ~(x = r /\ y = q) =>
             IF Form[s] = "field" /\ x = r THEN Gone(i, s, x, y) ELSE Same(j, i, s, x, y)
    <2>1. \A y \in RecId : y # q => Pair(j, s, r, y) /\ (Form[s] = "field" => Exist(j, s, r, y))
      BY DEF Yields
    <2> QED BY <2>1, AddSideIs DEF i
  <1>4. ASSUME NEW x \in RecId, x # r PROVE Pair(i, o, q, x) /\ (Form[o] = "field" => Exist(i, o, q, x))
    <2>1. Same(j, i, s, x, q)
      BY <1>3, <1>4
    <2>2. Pair(j, s, x, q) /\ (Form[o] = "field" => Exist(j, s, x, q))
      BY <1>4 DEF Yields
    <2>3. Pair(i, s, x, q)
      BY <2>1, <2>2, SamePair
    <2>4. Pair(i, o, q, x)
      BY <2>3, PairOther
    <2>5. Form[o] = "field" => Exist(i, o, q, x)
      BY <1>1, <2>1, <2>2 DEF Exist, Same, Pair
    <2> QED BY <2>4, <2>5
  <1>5. /\ WF(k) /\ W(k, o, q, r) = Added(i, o, q, r, n) /\ W(k, s, r, q) = W(i, s, r, q)
        /\ \A y, x \in RecId : ~(y = q /\ x = r) =>
             IF Form[o] = "field" /\ y = q THEN Gone(k, o, y, x) ELSE Same(i, k, o, y, x)
    <2> HIDE DEF o
    <2>1. \A y \in RecId : y # r => Pair(i, o, q, y) /\ (Form[o] = "field" => Exist(i, o, q, y))
      BY <1>4
    <2>2. WF(i)
      BY <1>3
    <2> QED BY <1>1, <1>2, <2>1, <2>2, AddSideIs
  <1>6. \A x, y \in RecId : ~(x = r /\ y = q) =>
             IF Yields(s, r, q, x, y) THEN Gone(k, s, x, y) ELSE Same(j, k, s, x, y)
    <2>1. SUFFICES ASSUME NEW x \in RecId, NEW y \in RecId, ~(x = r /\ y = q)
                   PROVE  IF Yields(s, r, q, x, y) THEN Gone(k, s, x, y) ELSE Same(j, k, s, x, y)
      OBVIOUS
    <2>2. IF Form[s] = "field" /\ x = r THEN Gone(i, s, x, y) ELSE Same(j, i, s, x, y)
      BY <1>3, <2>1
    <2>3. IF Form[o] = "field" /\ y = q THEN Gone(k, s, x, y) ELSE Same(i, k, s, x, y)
      BY <1>5, <2>1, GoneIs
    <2> QED BY <2>2, <2>3, SameSame, GoneIs DEF Yields
  <1>7. v \in Int /\ w \in Int /\ Pair(j, s, r, q)
    BY <1>1, WIs
  <1>8. /\ v >= 0 /\ w >= 0 /\ (v > 0 <=> w > 0) /\ (Knows => v = w)
    BY <1>7 DEF Pair
  <1>9. /\ W(k, s, r, q) = IF Form[s] = "index" THEN v + n ELSE IF HasFq[s] THEN n ELSE 1
        /\ W(k, o, q, r) = IF Form[o] = "index" THEN w + n ELSE IF HasFq[o] THEN n ELSE 1
    BY <1>3, <1>5 DEF Added
  <1>10. /\ BothLists => Form[s] = "index" /\ Form[o] = "index" /\ Knows
         /\ BothFields => ~(Form[s] = "index") /\ ~(Form[o] = "index")
         /\ BothFields /\ Knows => HasFq[s] /\ HasFq[o]
         /\ ~BothFields => Knows
         /\ HasFq[s] \in BOOLEAN /\ HasFq[o] \in BOOLEAN
         /\ ~(Form[s] = "index") => Form[s] = "field"
         /\ ~(Form[o] = "index") => Form[o] = "field"
    BY <1>1, FormIs DEF BothFields, BothLists, Knows
  <1>11. /\ W(k, s, r, q) > 0 /\ W(k, o, q, r) > 0
         /\ W(k, s, r, q) <= v + n /\ W(k, o, q, r) <= w + n
         /\ Knows => W(k, s, r, q) = W(k, o, q, r)
    <2>1. CASE BothLists
      <3>1. W(k, s, r, q) = v + n /\ W(k, o, q, r) = w + n /\ v = w
        BY <1>8, <1>9, <1>10, <2>1
      <3> HIDE DEF v, w, o
      <3> QED BY <1>1, <1>7, <1>8, <3>1
    <2>2. CASE BothFields
      <3>1. /\ W(k, s, r, q) = IF HasFq[s] THEN n ELSE 1
            /\ W(k, o, q, r) = IF HasFq[o] THEN n ELSE 1
            /\ Knows => HasFq[s] /\ HasFq[o]
        BY <1>9, <1>10, <2>2
      <3>2. /\ W(k, s, r, q) = n \/ W(k, s, r, q) = 1
            /\ W(k, o, q, r) = n \/ W(k, o, q, r) = 1
            /\ Knows => W(k, s, r, q) = W(k, o, q, r)
        BY <3>1
      <3> HIDE DEF v, w, o
      <3> QED BY <1>1, <1>7, <1>8, <3>2
    <2>3. CASE ~BothLists /\ ~BothFields
      <3>1. v = 0 /\ (Form[s] = "field" => HasFq[s] \/ n = 1) /\ (Form[o] = "field" => HasFq[o] \/ n = 1)
        BY <1>1, <2>3 DEF Told
      <3>2. w = 0
        BY <1>7, <1>8, <3>1
      <3>3. W(k, s, r, q) = n /\ W(k, o, q, r) = n
        <4>1. v + n = n /\ w + n = n
          BY <1>1, <3>1, <3>2
        <4> HIDE DEF v, w, o
        <4> QED BY <1>9, <1>10, <3>1, <4>1
      <3> HIDE DEF v, w, o
      <3> QED BY <1>1, <1>7, <1>8, <3>3
    <2> QED BY <2>1, <2>2, <2>3
  <1> QED
    <2>1. W(k, s, r, q) \in Int /\ W(k, o, q, r) \in Int
      BY <1>1, <1>5, WIs
    <2>2. Pair(k, s, r, q)
      BY <1>11, <2>1 DEF Pair
    <2> QED BY <1>5, <1>6, <1>11, <2>2 DEF k

\* The loops of the code are recursive functions, which exist: one lemma for each of them.
AfterEach(j, s, r, fqs, qs, len) ==
  CHOOSE f : f = [n \in 0..len |-> IF n = 0 THEN Merged(j, s, r) ELSE DelJoin(f[n - 1], s, r, qs[n], fqs[qs[n]])]
LEMMA EachStep ==
  ASSUME NEW j, NEW s, NEW r, NEW fqs, NEW qs, NEW len \in Nat
  PROVE  LET after == AfterEach(j, s, r, fqs, qs, len)
         IN /\ after[0] = Merged(j, s, r)
            /\ \A m \in Nat : m + 1 <= len => after[m + 1] = DelJoin(after[m], s, r, qs[m + 1], fqs[qs[m + 1]])
  <1> DEFINE Body(f, n) == IF n = 0 THEN Merged(j, s, r) ELSE DelJoin(f[n - 1], s, r, qs[n], fqs[qs[n]])
             Is(f) == f = [n \in 0..len |-> Body(f, n)]
             after == AfterEach(j, s, r, fqs, qs, len)
             S == {k \in Nat : \E f : \A n \in 0..k : f[n] = Body(f, n)}
  <1>1. 0 \in S
    <2> DEFINE f == [n \in 0..0 |-> Merged(j, s, r)]
    <2>1. \A n \in 0..0 : n = 0 /\ f[n] = Merged(j, s, r)
      OBVIOUS
    <2>2. \A n \in 0..0 : f[n] = Body(f, n)
      BY <2>1
    <2> HIDE DEF f, Body
    <2> QED BY <2>2
  <1>2. ASSUME NEW k \in Nat, k \in S PROVE k + 1 \in S
    <2>1. PICK f : \A n \in 0..k : f[n] = Body(f, n)
      BY <1>2
    <2> DEFINE v == [n \in 0..k + 1 |-> IF n = k + 1 THEN Body(f, n) ELSE f[n]]
    <2>2. \A n \in 0..k + 1 : n # 0 => n - 1 \in 0..k + 1 /\ n - 1 # k + 1
      OBVIOUS
    <2>3. \A n \in 0..k + 1 : v[n] = Body(f, n)
      <3> HIDE DEF Body
      <3> QED BY <2>1
    <2>4. \A n \in 0..k + 1 : n # 0 => v[n - 1] = f[n - 1]
      <3> HIDE DEF Body
      <3> QED BY <2>2
    <2> HIDE DEF v
    <2>5. \A n \in 0..k + 1 : Body(v, n) = Body(f, n)
      BY <2>4
    <2>6. \A n \in 0..k + 1 : v[n] = Body(v, n)
      BY <2>3, <2>5
    <2> HIDE DEF Body
    <2> QED BY <2>6
  <1>3. len \in S
    <2> HIDE DEF S
    <2> QED BY <1>1, <1>2, ByInduction
  <1>4. \E f : Is(f)
    <2>1. PICK f : \A n \in 0..len : f[n] = Body(f, n)
      BY <1>3
    <2> DEFINE v == [n \in 0..len |-> f[n]]
    <2>2. \A n \in 0..len : n # 0 => n - 1 \in 0..len /\ v[n - 1] = f[n - 1]
      OBVIOUS
    <2>3. v = [n \in 0..len |-> Body(f, n)]
      <3> HIDE DEF Body
      <3> QED BY <2>1
    <2> HIDE DEF v
    <2>4. \A n \in 0..len : Body(v, n) = Body(f, n)
      BY <2>2
    <2> HIDE DEF Body
    <2>5. v = [n \in 0..len |-> Body(v, n)]
      BY <2>3, <2>4
    <2> QED BY <2>5
  <1>5. Is(after)
    <2>1. after = CHOOSE f : Is(f)
      BY DEF AfterEach
    <2> HIDE DEF Is, after
    <2> QED BY <1>4, <2>1
  <1> HIDE DEF after
  <1>6. \A n \in 0..len : after[n] = Body(after, n)
    <2> HIDE DEF Body
    <2> QED BY <1>5
  <1>7. 0 \in 0..len /\ \A m \in Nat : m + 1 <= len => m + 1 \in 0..len /\ m + 1 # 0 /\ (m + 1) - 1 = m
    OBVIOUS
  <1>8. after[0] = Merged(j, s, r)
    BY <1>6, <1>7
  <1>9. ASSUME NEW m \in Nat, m + 1 <= len
        PROVE  after[m + 1] = DelJoin(after[m], s, r, qs[m + 1], fqs[qs[m + 1]])
    <2>1. after[m + 1] = Body(after, m + 1) /\ m + 1 # 0 /\ (m + 1) - 1 = m
      <3> HIDE DEF Body
      <3> QED BY <1>6, <1>7, <1>9
    <2> QED BY <2>1
  <1> QED BY <1>8, <1>9 DEF after

\* The records that are added with another.
AfterAdd(j, s, r, qs, qn, len) ==
  CHOOSE f : f = [n \in 0..len |-> IF n = 0 THEN j
                                   ELSE IF qs[n] = Mx THEN f[n - 1]
                                   ELSE AddJoinTo(f[n - 1], s, r, qs[n], qn[n])]
LEMMA AddStep ==
  ASSUME NEW j, NEW s, NEW r, NEW qs, NEW qn, NEW len \in Nat
  PROVE  LET after == AfterAdd(j, s, r, qs, qn, len)
         IN /\ after[0] = j
            /\ \A m \in Nat : m + 1 <= len =>
                 after[m + 1] = IF qs[m + 1] = Mx THEN after[m] ELSE AddJoinTo(after[m], s, r, qs[m + 1], qn[m + 1])
  <1> DEFINE Body(f, n) == IF n = 0 THEN j
                           ELSE IF qs[n] = Mx THEN f[n - 1]
                           ELSE AddJoinTo(f[n - 1], s, r, qs[n], qn[n])
             Is(f) == f = [n \in 0..len |-> Body(f, n)]
             after == AfterAdd(j, s, r, qs, qn, len)
             S == {k \in Nat : \E f : \A n \in 0..k : f[n] = Body(f, n)}
  <1>1. 0 \in S
    <2> DEFINE f == [n \in 0..0 |-> j]
    <2>1. \A n \in 0..0 : n = 0 /\ f[n] = j
      OBVIOUS
    <2>2. \A n \in 0..0 : f[n] = Body(f, n)
      BY <2>1
    <2> HIDE DEF f, Body
    <2> QED BY <2>2
  <1>2. ASSUME NEW k \in Nat, k \in S PROVE k + 1 \in S
    <2>1. PICK f : \A n \in 0..k : f[n] = Body(f, n)
      BY <1>2
    <2> DEFINE v == [n \in 0..k + 1 |-> IF n = k + 1 THEN Body(f, n) ELSE f[n]]
    <2>2. \A n \in 0..k + 1 : n # 0 => n - 1 \in 0..k + 1 /\ n - 1 # k + 1
      OBVIOUS
    <2>3. \A n \in 0..k + 1 : v[n] = Body(f, n)
      <3> HIDE DEF Body
      <3> QED BY <2>1
    <2>4. \A n \in 0..k + 1 : n # 0 => v[n - 1] = f[n - 1]
      <3> HIDE DEF Body
      <3> QED BY <2>2
    <2> HIDE DEF v
    <2>5. \A n \in 0..k + 1 : Body(v, n) = Body(f, n)
      BY <2>4
    <2>6. \A n \in 0..k + 1 : v[n] = Body(v, n)
      BY <2>3, <2>5
    <2> HIDE DEF Body
    <2> QED BY <2>6
  <1>3. len \in S
    <2> HIDE DEF S
    <2> QED BY <1>1, <1>2, ByInduction
  <1>4. \E f : Is(f)
    <2>1. PICK f : \A n \in 0..len : f[n] = Body(f, n)
      BY <1>3
    <2> DEFINE v == [n \in 0..len |-> f[n]]
    <2>2. \A n \in 0..len : n # 0 => n - 1 \in 0..len /\ v[n - 1] = f[n - 1]
      OBVIOUS
    <2>3. v = [n \in 0..len |-> Body(f, n)]
      <3> HIDE DEF Body
      <3> QED BY <2>1
    <2> HIDE DEF v
    <2>4. \A n \in 0..len : Body(v, n) = Body(f, n)
      BY <2>2
    <2> HIDE DEF Body
    <2>5. v = [n \in 0..len |-> Body(v, n)]
      BY <2>3, <2>4
    <2> QED BY <2>5
  <1>5. Is(after)
    <2>1. after = CHOOSE f : Is(f)
      BY DEF AfterAdd
    <2> HIDE DEF Is, after
    <2> QED BY <1>4, <2>1
  <1> HIDE DEF after
  <1>6. \A n \in 0..len : after[n] = Body(after, n)
    <2> HIDE DEF Body
    <2> QED BY <1>5
  <1>7. 0 \in 0..len /\ \A m \in Nat : m + 1 <= len => m + 1 \in 0..len /\ m + 1 # 0 /\ (m + 1) - 1 = m
    OBVIOUS
  <1>8. after[0] = j
    BY <1>6, <1>7
  <1>9. ASSUME NEW m \in Nat, m + 1 <= len
        PROVE  after[m + 1] = IF qs[m + 1] = Mx THEN after[m] ELSE AddJoinTo(after[m], s, r, qs[m + 1], qn[m + 1])
    <2>1. after[m + 1] = Body(after, m + 1) /\ m + 1 # 0 /\ (m + 1) - 1 = m
      <3> HIDE DEF Body
      <3> QED BY <1>6, <1>7, <1>9
    <2> QED BY <2>1
  <1> QED BY <1>8, <1>9 DEF after

\* The records that are deleted, with the joins of each.
AfterRecs(j, s, from, len) ==
  CHOOSE f : f = [n \in 0..len |-> IF n = 0 THEN j ELSE DelJoinsOf(f[n - 1], s, from + n - 1)]
LEMMA RecsStep ==
  ASSUME NEW j, NEW s, NEW from, NEW len \in Nat
  PROVE  LET after == AfterRecs(j, s, from, len)
         IN /\ after[0] = j
            /\ \A m \in Nat : m + 1 <= len => after[m + 1] = DelJoinsOf(after[m], s, from + (m + 1) - 1)
  <1> DEFINE Body(f, n) == IF n = 0 THEN j ELSE DelJoinsOf(f[n - 1], s, from + n - 1)
             Is(f) == f = [n \in 0..len |-> Body(f, n)]
             after == AfterRecs(j, s, from, len)
             S == {k \in Nat : \E f : \A n \in 0..k : f[n] = Body(f, n)}
  <1>1. 0 \in S
    <2> DEFINE f == [n \in 0..0 |-> j]
    <2>1. \A n \in 0..0 : n = 0 /\ f[n] = j
      OBVIOUS
    <2>2. \A n \in 0..0 : f[n] = Body(f, n)
      BY <2>1
    <2> HIDE DEF f, Body
    <2> QED BY <2>2
  <1>2. ASSUME NEW k \in Nat, k \in S PROVE k + 1 \in S
    <2>1. PICK f : \A n \in 0..k : f[n] = Body(f, n)
      BY <1>2
    <2> DEFINE v == [n \in 0..k + 1 |-> IF n = k + 1 THEN Body(f, n) ELSE f[n]]
    <2>2. \A n \in 0..k + 1 : n # 0 => n - 1 \in 0..k + 1 /\ n - 1 # k + 1
      OBVIOUS
    <2>3. \A n \in 0..k + 1 : v[n] = Body(f, n)
      <3> HIDE DEF Body
      <3> QED BY <2>1
    <2>4. \A n \in 0..k + 1 : n # 0 => v[n - 1] = f[n - 1]
      <3> HIDE DEF Body
      <3> QED BY <2>2
    <2> HIDE DEF v
    <2>5. \A n \in 0..k + 1 : Body(v, n) = Body(f, n)
      BY <2>4
    <2>6. \A n \in 0..k + 1 : v[n] = Body(v, n)
      BY <2>3, <2>5
    <2> HIDE DEF Body
    <2> QED BY <2>6
  <1>3. len \in S
    <2> HIDE DEF S
    <2> QED BY <1>1, <1>2, ByInduction
  <1>4. \E f : Is(f)
    <2>1. PICK f : \A n \in 0..len : f[n] = Body(f, n)
      BY <1>3
    <2> DEFINE v == [n \in 0..len |-> f[n]]
    <2>2. \A n \in 0..len : n # 0 => n - 1 \in 0..len /\ v[n - 1] = f[n - 1]
      OBVIOUS
    <2>3. v = [n \in 0..len |-> Body(f, n)]
      <3> HIDE DEF Body
      <3> QED BY <2>1
    <2> HIDE DEF v
    <2>4. \A n \in 0..len : Body(v, n) = Body(f, n)
      BY <2>2
    <2> HIDE DEF Body
    <2>5. v = [n \in 0..len |-> Body(v, n)]
      BY <2>3, <2>4
    <2> QED BY <2>5
  <1>5. Is(after)
    <2>1. after = CHOOSE f : Is(f)
      BY DEF AfterRecs
    <2> HIDE DEF Is, after
    <2> QED BY <1>4, <2>1
  <1> HIDE DEF after
  <1>6. \A n \in 0..len : after[n] = Body(after, n)
    <2> HIDE DEF Body
    <2> QED BY <1>5
  <1>7. 0 \in 0..len /\ \A m \in Nat : m + 1 <= len => m + 1 \in 0..len /\ m + 1 # 0 /\ (m + 1) - 1 = m
    OBVIOUS
  <1>8. after[0] = j
    BY <1>6, <1>7
  <1>9. ASSUME NEW m \in Nat, m + 1 <= len
        PROVE  after[m + 1] = DelJoinsOf(after[m], s, from + (m + 1) - 1)
    <2>1. after[m + 1] = Body(after, m + 1) /\ m + 1 # 0 /\ (m + 1) - 1 = m
      <3> HIDE DEF Body
      <3> QED BY <1>6, <1>7, <1>9
    <2> QED BY <2>1
  <1> QED BY <1>8, <1>9 DEF after

\* All records, with the joins of each by their frequencies.
AfterAllRecs(j, s, from, len) ==
  CHOOSE f : f = [n \in 0..len |-> IF n = 0 THEN j ELSE DelJoinsByFq(f[n - 1], s, from + n - 1)]
LEMMA AllRecsStep ==
  ASSUME NEW j, NEW s, NEW from, NEW len \in Nat
  PROVE  LET after == AfterAllRecs(j, s, from, len)
         IN /\ after[0] = j
            /\ \A m \in Nat : m + 1 <= len => after[m + 1] = DelJoinsByFq(after[m], s, from + (m + 1) - 1)
  <1> DEFINE Body(f, n) == IF n = 0 THEN j ELSE DelJoinsByFq(f[n - 1], s, from + n - 1)
             Is(f) == f = [n \in 0..len |-> Body(f, n)]
             after == AfterAllRecs(j, s, from, len)
             S == {k \in Nat : \E f : \A n \in 0..k : f[n] = Body(f, n)}
  <1>1. 0 \in S
    <2> DEFINE f == [n \in 0..0 |-> j]
    <2>1. \A n \in 0..0 : n = 0 /\ f[n] = j
      OBVIOUS
    <2>2. \A n \in 0..0 : f[n] = Body(f, n)
      BY <2>1
    <2> HIDE DEF f, Body
    <2> QED BY <2>2
  <1>2. ASSUME NEW k \in Nat, k \in S PROVE k + 1 \in S
    <2>1. PICK f : \A n \in 0..k : f[n] = Body(f, n)
      BY <1>2
    <2> DEFINE v == [n \in 0..k + 1 |-> IF n = k + 1 THEN Body(f, n) ELSE f[n]]
    <2>2. \A n \in 0..k + 1 : n # 0 => n - 1 \in 0..k + 1 /\ n - 1 # k + 1
      OBVIOUS
    <2>3. \A n \in 0..k + 1 : v[n] = Body(f, n)
      <3> HIDE DEF Body
      <3> QED BY <2>1
    <2>4. \A n \in 0..k + 1 : n # 0 => v[n - 1] = f[n - 1]
      <3> HIDE DEF Body
      <3> QED BY <2>2
    <2> HIDE DEF v
    <2>5. \A n \in 0..k + 1 : Body(v, n) = Body(f, n)
      BY <2>4
    <2>6. \A n \in 0..k + 1 : v[n] = Body(v, n)
      BY <2>3, <2>5
    <2> HIDE DEF Body
    <2> QED BY <2>6
  <1>3. len \in S
    <2> HIDE DEF S
    <2> QED BY <1>1, <1>2, ByInduction
  <1>4. \E f : Is(f)
    <2>1. PICK f : \A n \in 0..len : f[n] = Body(f, n)
      BY <1>3
    <2> DEFINE v == [n \in 0..len |-> f[n]]
    <2>2. \A n \in 0..len : n # 0 => n - 1 \in 0..len /\ v[n - 1] = f[n - 1]
      OBVIOUS
    <2>3. v = [n \in 0..len |-> Body(f, n)]
      <3> HIDE DEF Body
      <3> QED BY <2>1
    <2> HIDE DEF v
    <2>4. \A n \in 0..len : Body(v, n) = Body(f, n)
      BY <2>2
    <2> HIDE DEF Body
    <2>5. v = [n \in 0..len |-> Body(v, n)]
      BY <2>3, <2>4
    <2> QED BY <2>5
  <1>5. Is(after)
    <2>1. after = CHOOSE f : Is(f)
      BY DEF AfterAllRecs
    <2> HIDE DEF Is, after
    <2> QED BY <1>4, <2>1
  <1> HIDE DEF after
  <1>6. \A n \in 0..len : after[n] = Body(after, n)
    <2> HIDE DEF Body
    <2> QED BY <1>5
  <1>7. 0 \in 0..len /\ \A m \in Nat : m + 1 <= len => m + 1 \in 0..len /\ m + 1 # 0 /\ (m + 1) - 1 = m
    OBVIOUS
  <1>8. after[0] = j
    BY <1>6, <1>7
  <1>9. ASSUME NEW m \in Nat, m + 1 <= len
        PROVE  after[m + 1] = DelJoinsByFq(after[m], s, from + (m + 1) - 1)
    <2>1. after[m + 1] = Body(after, m + 1) /\ m + 1 # 0 /\ (m + 1) - 1 = m
      <3> HIDE DEF Body
      <3> QED BY <1>6, <1>7, <1>9
    <2> QED BY <2>1
  <1> QED BY <1>8, <1>9 DEF after

(***************************************************************************)
(* The joins of a record, one after the other.                             *)
(***************************************************************************)
LEMMA SeqIs ==
  ASSUME NEW S, IsFiniteSet(S)
  PROVE  LET qs == SetToSeq(S)
         IN /\ Len(qs) \in Nat /\ \A n \in 1..Len(qs) : qs[n] \in S
            /\ \A m, n \in 1..Len(qs) : qs[m] = qs[n] => m = n
            /\ \A x \in S : \E n \in 1..Len(qs) : qs[n] = x
  <1> DEFINE N == Cardinality(S)
             qs == SetToSeq(S)
  <1>1. N \in Nat /\ ExistsBijection(1..N, S)
    BY FS_CardinalityType
  <1>2. PICK f \in [1..N -> S] : \A x, y \in 1..N : f[x] = f[y] => x = y
    BY <1>1 DEF ExistsBijection, Bijection, Injection, IsInjective
  <1>3. qs \in [1..N -> S] /\ \A x, y \in 1..N : qs[x] = qs[y] => x = y
    <2> DEFINE F == [1..N -> S]
    <2>1. f \in F /\ IsInjective(f)
      BY <1>2 DEF IsInjective
    <2>2. qs = CHOOSE g \in F : IsInjective(g)
      BY DEF SetToSeq
    <2>3. qs \in F /\ IsInjective(qs)
      <3> HIDE DEF qs, F
      <3> QED BY <2>1, <2>2
    <2> QED BY <2>3 DEF IsInjective
  <1> HIDE DEF qs, N
  <1>4. qs \in Seq(S) /\ Len(qs) = N
    BY <1>1, <1>3
  <1>5. qs \in Injection(1..N, S)
    BY <1>3 DEF Injection, IsInjective
  <1>6. qs \in Surjection(1..N, S)
    <2>1. IsFiniteSet(1..N) /\ Cardinality(1..N) = N
      BY <1>1, FS_Interval
    <2> QED BY <1>5, <2>1, FS_Injection DEF N
  <1>7. \A x \in S : \E n \in 1..N : qs[n] = x
    BY <1>6 DEF Surjection
  <1> QED BY <1>1, <1>3, <1>4, <1>7 DEF qs

\* No list has anything to be dropped when it is merged.
LEMMA MergedIs ==
  ASSUME NEW j, WF(j), NEW s \in Side, NEW r, \A x, y \in RecId : Pair(j, s, x, y)
  PROVE  Merged(j, s, r) = j
  <1>1. j \in JoinRec
    BY DEF WF
  <1>2. j = [idx |-> j.idx, fld |-> j.fld, fq |-> j.fq] /\ j.idx \in [Side -> [RecId \X RecId -> Int]]
    BY <1>1 DEF JoinRec
  <1> DEFINE items == [p \in RecId \X RecId |-> IF p[1] = r /\ j.idx[s][p] < 0 THEN 0 ELSE j.idx[s][p]]
  <1>3. j.idx[s] \in [RecId \X RecId -> Int]
    BY <1>2
  <1>4. ASSUME NEW p \in RecId \X RecId PROVE ~(j.idx[s][p] < 0)
    <2>1. PICK x \in RecId, y \in RecId : p = <<x, y>>
      OBVIOUS
    <2>2. j.idx[s][<<x, y>>] >= 0
      <3>1. CASE Form[s] = "index"
        BY <3>1 DEF Pair, W
      <3>2. CASE Form[s] = "field"
        BY <3>2 DEF WF
      <3> QED BY <3>1, <3>2, FormIs
    <2>3. j.idx[s][<<x, y>>] \in Int
      BY <1>3
    <2> QED BY <2>1, <2>2, <2>3
  <1>5. items = j.idx[s]
    BY <1>3, <1>4
  <1>6. Merged(j, s, r) = [j EXCEPT !.idx = [j.idx EXCEPT ![s] = items]]
    BY <1>1, <1>2 DEF Merged
  <1>7. [j.idx EXCEPT ![s] = items] = j.idx
    BY <1>2, <1>5
  <1> HIDE DEF items
  <1> QED BY <1>2, <1>6, <1>7

\* After the first n of the records joined with r, these are gone and the others are as before.
LEMMA DelEachIs ==
  ASSUME NEW j, WF(j), NEW s \in Side, NEW r \in RecId, NEW fqs,
         \A x, y \in RecId : Pair(j, s, x, y) /\ Exist(j, s, x, y),
         \A y \in RecId : W(j, s, r, y) > 0 => Whole(j, s, r, y, fqs[y])
  PROVE  LET k == DelEach(j, s, r, fqs)
         IN WF(k) /\ \A x, y \in RecId : IF x = r THEN Gone(k, s, x, y) ELSE Same(j, k, s, x, y)
  <1> DEFINE S == JoinedWith(j, s, r)
             qs == SetToSeq(S)
             len == Len(qs)
             after == AfterEach(j, s, r, fqs, qs, len)
  <1>1. \A y \in RecId : y \in S <=> W(j, s, r, y) > 0
    BY WIs
  <1>2. S \subseteq RecId /\ IsFiniteSet(S)
    <2>1. S \subseteq RecId
      <3>1. j.fld[s][r] \in RecId \cup {None}
        BY PartsAre DEF WF
      <3> QED BY <3>1 DEF JoinedWith
    <2>2. IsFiniteSet(RecId)
      BY FS_Interval, ConstantsOK DEF RecId
    <2> QED BY <2>1, <2>2, FS_Subset
  <1> HIDE DEF S
  <1>3. /\ len \in Nat /\ \A n \in 1..len : qs[n] \in S
        /\ \A m, n \in 1..len : qs[m] = qs[n] => m = n
        /\ \A x \in S : \E n \in 1..len : qs[n] = x
    BY <1>2, SeqIs
  <1>4. DelEach(j, s, r, fqs) = after[len]
    BY DEF DelEach, S, AfterEach
  <1> HIDE DEF qs, len
  <1>5. /\ after[0] = Merged(j, s, r)
        /\ \A m \in Nat : m + 1 <= len => after[m + 1] = DelJoin(after[m], s, r, qs[m + 1], fqs[qs[m + 1]])
    BY <1>3, EachStep
  <1> HIDE DEF after
  <1>6. after[0] = j
    BY <1>5, MergedIs
  <1> DEFINE Done(n) == {qs[m] : m \in 1..n}
             OK(n) == /\ WF(after[n])
                      /\ \A x, y \in RecId : IF x = r /\ y \in Done(n) THEN Gone(after[n], s, x, y)
                                                                    ELSE Same(j, after[n], s, x, y)
             T == {n \in Nat : n <= len => OK(n)}
  <1>7. 0 \in T
    <2>1. Done(0) = {}
      OBVIOUS
    <2> HIDE DEF Done
    <2> QED BY <1>6, <2>1 DEF Same
  <1>8. ASSUME NEW n \in Nat, n \in T PROVE n + 1 \in T
    <2>1. SUFFICES ASSUME n + 1 <= len PROVE OK(n + 1)
      OBVIOUS
    <2> DEFINE q == qs[n + 1]
               i == after[n]
               k == after[n + 1]
    <2>2. OK(n) /\ n + 1 \in 1..len /\ q \in S /\ q \in RecId
      <3>1. n <= len /\ n + 1 \in 1..len
        BY <1>3, <2>1
      <3> HIDE DEF OK
      <3> QED BY <1>2, <1>3, <1>8, <3>1
    <2>3. q \notin Done(n)
      BY <1>3, <2>1
    <2>4. Done(n + 1) = Done(n) \cup {q}
      <3>1. \A m \in 1..n + 1 : m \in 1..n \/ m = n + 1
        OBVIOUS
      <3>2. \A m \in 1..n : m \in 1..n + 1
        OBVIOUS
      <3>3. n + 1 \in 1..n + 1
        OBVIOUS
      <3> QED BY <3>1, <3>2, <3>3
    <2>5. WF(i) /\ Same(j, i, s, r, q)
      BY <2>2, <2>3
    <2>6. W(j, s, r, q) > 0 /\ Pair(j, s, r, q) /\ Exist(j, s, r, q) /\ Whole(j, s, r, q, fqs[q])
      BY <1>1, <2>2
    <2>7. W(i, s, r, q) > 0 /\ Pair(i, s, r, q) /\ q \in RecIds(Other[s]) /\ Whole(i, s, r, q, fqs[q])
      BY <2>5, <2>6, SamePair DEF Same, Exist, Whole
    <2>8. k = DelJoin(i, s, r, q, fqs[q])
      BY <1>5, <2>1
    <2> DEFINE f == fqs[q]
    <2>9. W(i, s, r, q) > 0 /\ Pair(i, s, r, q) /\ q \in RecIds(Other[s]) /\ Whole(i, s, r, q, f) /\ Fits(i, s, r, q, f)
      BY <2>7 DEF Fits
    <2>10. k = DelJoin(i, s, r, q, f)
      BY <2>8
    <2>11. \A x, y \in RecId : IF x = r /\ y \in Done(n) THEN Gone(i, s, x, y) ELSE Same(j, i, s, x, y)
      BY <2>2
    <2> HIDE DEF q, i, k, f, Done
    <2>12. /\ WF(k) /\ \A x, y \in RecId : ~(x = r /\ y = q) => Same(i, k, s, x, y)
           /\ Gone(k, s, r, q)
      BY <2>2, <2>5, <2>9, <2>10, DelJoinIs
    <2>13. \A x, y \in RecId : IF x = r /\ y \in Done(n + 1) THEN Gone(k, s, x, y) ELSE Same(j, k, s, x, y)
      BY <2>3, <2>4, <2>11, <2>12, SameSame, GoneIs
    <2> QED BY <2>12, <2>13 DEF k
  <1>9. OK(len)
    <2> HIDE DEF T
    <2>1. len \in T
      BY <1>3, <1>7, <1>8, ByInduction
    <2> HIDE DEF OK
    <2> QED BY <1>3, <2>1 DEF T
  <1>10. \A y \in RecId : IF y \in Done(len) THEN y \in S ELSE y \notin S
    BY <1>3
  <1> DEFINE k == after[len]
  <1>11. WF(k) /\ \A x, y \in RecId : IF x = r /\ y \in Done(len) THEN Gone(k, s, x, y) ELSE Same(j, k, s, x, y)
    BY <1>9
  <1> HIDE DEF k, Done
  <1>12. ASSUME NEW y \in RecId PROVE Gone(k, s, r, y)
    <2>1. CASE y \in S
      BY <1>10, <1>11, <2>1
    <2>2. CASE y \notin S
      <3>1. Same(j, k, s, r, y) /\ Pair(j, s, r, y) /\ W(j, s, r, y) \in Int /\ ~(W(j, s, r, y) > 0)
        BY <1>1, <1>10, <1>11, <2>2, WIs
      <3>2. W(j, Other[s], y, r) \in Int
        BY OtherIs, WIs
      <3> QED BY <3>1, <3>2 DEF Same, Gone, Pair
    <2> QED BY <2>1, <2>2
  <1>13. \A x, y \in RecId : IF x = r THEN Gone(k, s, x, y) ELSE Same(j, k, s, x, y)
    BY <1>11, <1>12
  <1> QED BY <1>4, <1>11, <1>13 DEF k

LEMMA KeptPair ==
  ASSUME NEW j, NEW k, NEW s \in Side, NEW x, NEW y, Pair(j, s, x, y), Exist(j, s, x, y),
         Gone(k, s, x, y) \/ Same(j, k, s, x, y)
  PROVE  Pair(k, s, x, y) /\ Exist(k, s, x, y)
  BY GoneIs, SamePair DEF Same, Exist

LEMMA DelJoinsIs ==
  ASSUME NEW j, WF(j), NEW s \in Side, NEW r \in RecId,
         \A x, y \in RecId : Pair(j, s, x, y) /\ Exist(j, s, x, y),
         NEW k, k = DelJoinsOf(j, s, r) \/ k = DelJoinsByFq(j, s, r)
  PROVE  WF(k) /\ \A x, y \in RecId : IF x = r THEN Gone(k, s, x, y) ELSE Same(j, k, s, x, y)
  <1>1. CASE k = DelJoinsOf(j, s, r)
    <2> DEFINE fqs == [q \in RecId |-> All]
    <2>1. k = DelEach(j, s, r, fqs)
      BY <1>1 DEF DelJoinsOf
    <2>2. \A y \in RecId : W(j, s, r, y) > 0 => Whole(j, s, r, y, fqs[y])
      BY DEF Whole
    <2> HIDE DEF fqs
    <2> QED BY <2>1, <2>2, DelEachIs
  <1>2. CASE k = DelJoinsByFq(j, s, r)
    <2> DEFINE fqs == [q \in JoinedWith(j, s, r) |-> JoinFq(j, s, r, q)]
    <2>1. k = DelEach(j, s, r, fqs)
      BY <1>2 DEF DelJoinsByFq
    <2>2. ASSUME NEW y \in RecId, W(j, s, r, y) > 0 PROVE Whole(j, s, r, y, fqs[y])
      <3>1. y \in JoinedWith(j, s, r) /\ JoinFq(j, s, r, y) = W(j, s, r, y)
        BY <2>2, WIs
      <3>2. fqs[y] = W(j, s, r, y)
        BY <3>1
      <3> HIDE DEF fqs
      <3> QED BY <3>2 DEF Whole
    <2> HIDE DEF fqs
    <2> QED BY <2>1, <2>2, DelEachIs
  <1> QED BY <1>1, <1>2

LEMMA RecsIs ==
  ASSUME NEW j, WF(j), NEW s \in Side, NEW from \in Nat, NEW len \in Nat, from + len <= MaxRecs,
         \A x, y \in RecId : Pair(j, s, x, y) /\ Exist(j, s, x, y)
  PROVE  LET k == AfterRecs(j, s, from, len)[len]
         IN WF(k) /\ \A x, y \in RecId : IF x \in from..from + len - 1 THEN Gone(k, s, x, y) ELSE Same(j, k, s, x, y)
  <1> DEFINE after == AfterRecs(j, s, from, len)
             OK(n) == /\ WF(after[n])
                      /\ \A x, y \in RecId : IF x \in from..from + n - 1 THEN Gone(after[n], s, x, y)
                                                                       ELSE Same(j, after[n], s, x, y)
             T == {n \in Nat : n <= len => OK(n)}
  <1>1. /\ after[0] = j
        /\ \A m \in Nat : m + 1 <= len => after[m + 1] = DelJoinsOf(after[m], s, from + (m + 1) - 1)
    BY RecsStep
  <1> HIDE DEF after
  <1>2. 0 \in T
    <2>1. \A x \in RecId : x \notin from..from + 0 - 1
      OBVIOUS
    <2> QED BY <1>1, <2>1 DEF Same
  <1>3. ASSUME NEW n \in Nat, n \in T PROVE n + 1 \in T
    <2>1. SUFFICES ASSUME n + 1 <= len PROVE OK(n + 1)
      OBVIOUS
    <2> DEFINE r == from + (n + 1) - 1
               i == after[n]
               k == after[n + 1]
    <2>2. r = from + n /\ r \in RecId
      BY <2>1, ConstantsOK DEF RecId
    <2>3. k = DelJoinsOf(i, s, r)
      BY <1>1, <2>1
    <2>4. OK(n)
      <3> HIDE DEF OK
      <3> QED BY <1>3, <2>1
    <2>5. WF(i) /\ \A x, y \in RecId : Pair(i, s, x, y) /\ Exist(i, s, x, y)
      BY <2>4, KeptPair
    <2>6. \A x \in RecId : /\ x \in from..from + (n + 1) - 1 <=> x \in from..from + n - 1 \/ x = r
                           /\ x = r => x \notin from..from + n - 1
      BY <2>2, IdIs
    <2>7. \A x, y \in RecId : IF x \in from..from + n - 1 THEN Gone(i, s, x, y) ELSE Same(j, i, s, x, y)
      BY <2>4
    <2> HIDE DEF r, i, k
    <2>8. WF(k) /\ \A x, y \in RecId : IF x = r THEN Gone(k, s, x, y) ELSE Same(i, k, s, x, y)
      BY <2>2, <2>3, <2>5, DelJoinsIs
    <2>9. \A x, y \in RecId : IF x \in from..from + (n + 1) - 1 THEN Gone(k, s, x, y) ELSE Same(j, k, s, x, y)
      BY <2>6, <2>7, <2>8, SameSame, GoneIs
    <2> QED BY <2>8, <2>9 DEF k
  <1>4. OK(len)
    <2> HIDE DEF T
    <2>1. len \in T
      BY <1>2, <1>3, ByInduction
    <2> HIDE DEF OK
    <2> QED BY <2>1 DEF T
  <1> QED BY <1>4 DEF after

LEMMA AllRecsIs ==
  ASSUME NEW j, WF(j), NEW s \in Side, NEW from \in Nat, NEW len \in Nat, from + len <= MaxRecs,
         \A x, y \in RecId : Pair(j, s, x, y) /\ Exist(j, s, x, y)
  PROVE  LET k == AfterAllRecs(j, s, from, len)[len]
         IN WF(k) /\ \A x, y \in RecId : IF x \in from..from + len - 1 THEN Gone(k, s, x, y) ELSE Same(j, k, s, x, y)
  <1> DEFINE after == AfterAllRecs(j, s, from, len)
             OK(n) == /\ WF(after[n])
                      /\ \A x, y \in RecId : IF x \in from..from + n - 1 THEN Gone(after[n], s, x, y)
                                                                       ELSE Same(j, after[n], s, x, y)
             T == {n \in Nat : n <= len => OK(n)}
  <1>1. /\ after[0] = j
        /\ \A m \in Nat : m + 1 <= len => after[m + 1] = DelJoinsByFq(after[m], s, from + (m + 1) - 1)
    BY AllRecsStep
  <1> HIDE DEF after
  <1>2. 0 \in T
    <2>1. \A x \in RecId : x \notin from..from + 0 - 1
      OBVIOUS
    <2> QED BY <1>1, <2>1 DEF Same
  <1>3. ASSUME NEW n \in Nat, n \in T PROVE n + 1 \in T
    <2>1. SUFFICES ASSUME n + 1 <= len PROVE OK(n + 1)
      OBVIOUS
    <2> DEFINE r == from + (n + 1) - 1
               i == after[n]
               k == after[n + 1]
    <2>2. r = from + n /\ r \in RecId
      BY <2>1, ConstantsOK DEF RecId
    <2>3. k = DelJoinsByFq(i, s, r)
      BY <1>1, <2>1
    <2>4. OK(n)
      <3> HIDE DEF OK
      <3> QED BY <1>3, <2>1
    <2>5. WF(i) /\ \A x, y \in RecId : Pair(i, s, x, y) /\ Exist(i, s, x, y)
      BY <2>4, KeptPair
    <2>6. \A x \in RecId : /\ x \in from..from + (n + 1) - 1 <=> x \in from..from + n - 1 \/ x = r
                           /\ x = r => x \notin from..from + n - 1
      BY <2>2, IdIs
    <2>7. \A x, y \in RecId : IF x \in from..from + n - 1 THEN Gone(i, s, x, y) ELSE Same(j, i, s, x, y)
      BY <2>4
    <2> HIDE DEF r, i, k
    <2>8. WF(k) /\ \A x, y \in RecId : IF x = r THEN Gone(k, s, x, y) ELSE Same(i, k, s, x, y)
      BY <2>2, <2>3, <2>5, DelJoinsIs
    <2>9. \A x, y \in RecId : IF x \in from..from + (n + 1) - 1 THEN Gone(k, s, x, y) ELSE Same(j, k, s, x, y)
      BY <2>6, <2>7, <2>8, SameSame, GoneIs
    <2> QED BY <2>8, <2>9 DEF k
  <1>4. OK(len)
    <2> HIDE DEF T
    <2>1. len \in T
      BY <1>2, <1>3, ByInduction
    <2> HIDE DEF OK
    <2> QED BY <2>1 DEF T
  <1> QED BY <1>4 DEF after

Nesting(qs, n) == {y \in RecId : \E i \in 1..n : qs[i] = y}

\* A record r that is new, joined with others in turn: it is joined with each, and a field of
\* theirs gives up the record it pointed to.
LEMMA AddIs ==
  ASSUME NEW j, WF(j), NEW s \in Side, NEW r \in RecId, NEW qs, NEW qn, NEW len \in Nat,
         \A i \in 1..len : qs[i] \in RecId \cup {Mx} /\ qn[i] \in 1..MaxJoinFq,
         Form[s] = "field" => len <= 1,
         BothLists \/ BothFields \/ \A t \in Side, i \in 1..len : Form[t] = "field" => HasFq[t] \/ qn[i] = 1,
         BothLists \/ BothFields \/ \A h, i \in 1..len : qs[h] = qs[i] => h = i \/ qs[i] = Mx,
         \A x, y \in RecId : Pair(j, s, x, y) /\ Exist(j, s, x, y) /\ (x = r => Gone(j, s, x, y))
  PROVE  LET k == AfterAdd(j, s, r, qs, qn, len)[len]
         IN /\ WF(k)
            /\ \A x, y \in RecId :
                 IF x = r /\ y \in Nesting(qs, len) THEN Pair(k, s, x, y) /\ W(k, s, x, y) > 0
                 ELSE IF y \in Nesting(qs, len) /\ Form[Other[s]] = "field" THEN Gone(k, s, x, y)
                 ELSE Same(j, k, s, x, y)
  <1> DEFINE after == AfterAdd(j, s, r, qs, qn, len)
             o == Other[s]
             Fine(k, x, y) == Pair(k, s, x, y) /\ W(k, s, x, y) > 0
             Is(k, T, x, y) == IF x = r /\ y \in T THEN Fine(k, x, y)
                               ELSE IF y \in T /\ Form[o] = "field" THEN Gone(k, s, x, y)
                               ELSE Same(j, k, s, x, y)
             OK(n) == WF(after[n]) /\ \A x, y \in RecId : Is(after[n], Nesting(qs, n), x, y)
             T == {n \in Nat : n <= len => OK(n)}
  <1>1. /\ after[0] = j
        /\ \A m \in Nat : m + 1 <= len =>
             after[m + 1] = IF qs[m + 1] = Mx THEN after[m] ELSE AddJoinTo(after[m], s, r, qs[m + 1], qn[m + 1])
    <2>1. after[0] = j
      BY AddStep
    <2>2. \A m \in Nat : m + 1 <= len =>
             after[m + 1] = IF qs[m + 1] = Mx THEN after[m] ELSE AddJoinTo(after[m], s, r, qs[m + 1], qn[m + 1])
      BY AddStep
    <2> QED BY <2>1, <2>2
  <1>0. o \in Side /\ o # s /\ Mx \notin RecId
    BY OtherIs, ConstantsOK DEF Mx, RecId
  <1> HIDE DEF after, Fine
  <1>2. 0 \in T
    <2>1. Nesting(qs, 0) = {}
      BY DEF Nesting
    <2>2. \A x, y \in RecId : Is(j, Nesting(qs, 0), x, y)
      BY <2>1 DEF Same
    <2> HIDE DEF Is
    <2> QED BY <1>1, <2>2
  <1>3. ASSUME NEW n \in Nat, n \in T PROVE n + 1 \in T
    <2>1. SUFFICES ASSUME n + 1 <= len PROVE OK(n + 1)
      OBVIOUS
    <2> DEFINE p == qs[n + 1]
               i == after[n]
               k == after[n + 1]
               f == qn[n + 1]
               A == Nesting(qs, n)
               B == Nesting(qs, n + 1)
    <2>2. /\ p \in RecId \cup {Mx} /\ f \in 1..MaxJoinFq /\ n + 1 \in 1..len
          /\ k = IF p = Mx THEN i ELSE AddJoinTo(i, s, r, p, f)
      BY <1>1, <2>1
    <2>3. WF(i) /\ \A x, y \in RecId : Is(i, A, x, y)
      <3>1. OK(n)
        <4> HIDE DEF OK
        <4> QED BY <1>3, <2>1
      <3> HIDE DEF Is
      <3> QED BY <3>1
    <2>4. A \subseteq RecId /\ B = (IF p = Mx THEN A ELSE A \cup {p}) /\ (n = 0 => A = {})
      <3>1. \A h : h \in 1..n + 1 <=> h \in 1..n \/ h = n + 1
        OBVIOUS
      <3>2. \A y : y \in B <=> y \in RecId /\ (\E h \in 1..n + 1 : qs[h] = y)
        BY DEF Nesting
      <3>3. \A y : y \in A <=> y \in RecId /\ (\E h \in 1..n : qs[h] = y)
        BY DEF Nesting
      <3>4. \A y : y \in B <=> y \in A \/ (y = p /\ y \in RecId)
        <4> HIDE DEF A, B
        <4> QED BY <3>1, <3>2, <3>3
      <3>5. A \subseteq RecId /\ (n = 0 => A = {})
        <4>1. n = 0 => 1..n = {}
          OBVIOUS
        <4> HIDE DEF A, B
        <4> QED BY <3>3, <4>1
      <3> HIDE DEF A, B
      <3>6. CASE p = Mx
        <4>1. \A y : y \in B <=> y \in A
          BY <1>0, <3>4, <3>6
        <4>2. B = A
          BY <4>1
        <4> QED BY <3>5, <3>6, <4>2
      <3>7. CASE p # Mx
        <4>1. \A y : y \in B <=> y \in A \cup {p}
          BY <2>2, <3>4, <3>7
        <4>2. B = A \cup {p}
          BY <4>1
        <4> QED BY <3>5, <3>7, <4>2
      <3> QED BY <3>6, <3>7
    <2>5. p \in A => BothLists \/ BothFields
      <3>1. SUFFICES ASSUME p \in A, ~BothLists, ~BothFields PROVE FALSE
        OBVIOUS
      <3>2. PICK h \in 1..n : qs[h] = p
        BY <3>1 DEF Nesting
      <3>3. h \in 1..len /\ h # n + 1
        BY <2>1
      <3>4. p # Mx
        BY <1>0, <2>4, <3>1
      <3> QED BY <2>2, <3>1, <3>2, <3>3, <3>4
    <2>6. Form[s] = "field" => n = 0
      BY <2>1
    <2>7. /\ BothLists => Form[s] # "field" /\ Form[o] # "field"
          /\ BothFields => Form[s] = "field"
      BY <1>0, FormIs DEF BothLists, BothFields
    <2>8. Told(j, s, r, p, f) \/ ~(p \in RecId)
      BY <2>2 DEF Told, Gone
    <2> HIDE DEF p, i, k, f, A, B
    <2>9. CASE p = Mx
      <3>1. k = i /\ B = A
        BY <2>2, <2>4, <2>9
      <3> HIDE DEF Is
      <3> QED BY <2>3, <3>1 DEF k, B
    <2>10. CASE p # Mx
      <3>1. p \in RecId /\ k = AddJoinTo(i, s, r, p, f) /\ B = A \cup {p}
        BY <2>2, <2>4, <2>10
      <3>2. p \in A => BothLists
        BY <2>4, <2>5, <2>6, <2>7
      <3>3. \A x, y \in RecId : Pair(i, s, x, y)
        BY <2>3, SamePair, GoneIs DEF Fine
      <3>4. ASSUME NEW x \in RecId, NEW y \in RecId, Yields(s, r, p, x, y) PROVE Exist(i, s, x, y)
        <4>1. CASE Form[s] = "field" /\ x = r
          <5>1. Same(j, i, s, x, y) /\ Gone(j, s, x, y)
            BY <2>3, <2>4, <2>6, <4>1
          <5> QED BY <5>1, GoneIs
        <4>2. CASE Form[o] = "field" /\ y = p
          <5>1. p \notin A
            BY <2>7, <3>2, <4>2
          <5>2. Same(j, i, s, x, y) /\ Exist(j, s, x, y)
            BY <2>3, <4>2, <5>1
          <5> QED BY <5>2 DEF Same, Exist
        <4> QED BY <3>4, <4>1, <4>2 DEF Yields
      <3>5. Told(i, s, r, p, f)
        <4>1. CASE p \in A
          BY <3>2, <4>1 DEF Told
        <4>2. CASE p \notin A
          <5>1. Same(j, i, s, r, p)
            BY <2>3, <3>1, <4>2
          <5> QED BY <2>8, <3>1, <5>1 DEF Told, Same
        <4> QED BY <4>1, <4>2
      <3>6. /\ WF(k) /\ Pair(k, s, r, p) /\ W(k, s, r, p) > 0
            /\ \A x, y \in RecId : ~(x = r /\ y = p) =>
                 IF Yields(s, r, p, x, y) THEN Gone(k, s, x, y) ELSE Same(i, k, s, x, y)
        <4> HIDE DEF Is
        <4> QED BY <2>2, <2>3, <3>1, <3>3, <3>4, <3>5, AddJoinToIs
      <3>7. ASSUME NEW x \in RecId, NEW y \in RecId PROVE Is(k, B, x, y)
        <4>1. Is(i, A, x, y)
          BY <2>3
        <4>2. CASE x = r /\ y = p
          BY <3>1, <3>6, <4>2 DEF Fine
        <4>3. CASE x = r /\ y # p /\ y \in A
          <5>1. ~Yields(s, r, p, x, y)
            BY <2>4, <2>6, <4>3 DEF Yields
          <5>2. Same(i, k, s, x, y) /\ Fine(i, x, y)
            BY <3>6, <4>1, <4>3, <5>1
          <5>3. Fine(k, x, y)
            BY <5>2, SamePair DEF Fine, Same
          <5> QED BY <3>1, <4>3, <5>3
        <4>4. CASE x = r /\ y # p /\ y \notin A
          <5>1. Same(j, i, s, x, y) /\ Gone(j, s, x, y) /\ y \notin B
            BY <3>1, <4>1, <4>4
          <5>2. Gone(i, s, x, y)
            BY <5>1, GoneIs
          <5>3. Gone(k, s, x, y)
            BY <3>6, <4>4, <5>2, GoneIs
          <5>4. Same(j, k, s, x, y)
            BY <5>1, <5>3 DEF Same, Gone
          <5> QED BY <5>1, <5>4
        <4>5. CASE x # r /\ y \in B /\ Form[o] = "field"
          <5>1. Gone(k, s, x, y)
            <6>1. CASE y = p
              <7>1. Yields(s, r, p, x, y)
                BY <4>5, <6>1 DEF Yields
              <7> QED BY <3>6, <4>5, <7>1
            <6>2. CASE y # p
              <7>1. y \in A
                BY <3>1, <4>5, <6>2
              <7>2. Gone(i, s, x, y)
                BY <4>1, <4>5, <7>1
              <7> QED BY <3>6, <4>5, <7>2, GoneIs
            <6> QED BY <6>1, <6>2
          <5> QED BY <4>5, <5>1
        <4>6. CASE x # r /\ ~(y \in B /\ Form[o] = "field")
          <5>1. ~Yields(s, r, p, x, y)
            BY <3>1, <4>6 DEF Yields
          <5>2. Same(i, k, s, x, y)
            BY <3>6, <4>6, <5>1
          <5>3. Same(j, i, s, x, y)
            BY <3>1, <4>1, <4>6
          <5>4. Same(j, k, s, x, y)
            BY <5>2, <5>3, SameSame
          <5> QED BY <4>6, <5>4
        <4> QED BY <4>2, <4>3, <4>4, <4>5, <4>6
      <3> HIDE DEF Is
      <3> QED BY <3>6, <3>7 DEF k, B
    <2> QED BY <2>9, <2>10
  <1>4. OK(len)
    <2> HIDE DEF T
    <2>1. len \in T
      BY <1>2, <1>3, ByInduction
    <2> HIDE DEF OK
    <2> QED BY <2>1 DEF T
  <1> QED BY <1>4 DEF after, Fine

(***************************************************************************)
(* The invariant.                                                          *)
(***************************************************************************)
RecsOK ==
  /\ recs \in [Side -> [first : 0..MaxRecs, next : 0..MaxRecs]]
  /\ \A s \in Side : recs[s].first <= recs[s].next
Fit(j) == \A s \in Side, x, y \in RecId : Pair(j, s, x, y) /\ Exist(j, s, x, y) /\ W(j, s, x, y) <= MaxJoinFq
LostOK == lost \in [Side -> SUBSET RecId] /\ \A s \in Side : lost[s] \subseteq RecIds(s)
IInv == RecsOK /\ WF(joins) /\ Fit(joins) /\ LostOK

LEMMA RecsAre ==
  ASSUME RecsOK, NEW s \in Side
  PROVE  /\ recs[s].first \in Nat /\ recs[s].next \in Nat
         /\ recs[s].first <= recs[s].next /\ recs[s].next <= MaxRecs
         /\ \A x \in RecId : x \in RecIds(s) <=> recs[s].first <= x /\ x < recs[s].next
         /\ Cardinality(RecIds(s)) = recs[s].next - recs[s].first
         /\ recs[s].next < MaxRecs => recs[s].next \in RecId
  <1>1. recs[s] \in [first : 0..MaxRecs, next : 0..MaxRecs] /\ recs[s].first <= recs[s].next /\ MaxRecs \in Nat
    BY ConstantsOK DEF RecsOK
  <1>2. recs[s].first \in 0..MaxRecs /\ recs[s].next \in 0..MaxRecs
    BY <1>1
  <1> DEFINE a == recs[s].first
             b == recs[s].next
  <1>3. a \in Nat /\ b \in Nat /\ a <= b /\ b <= MaxRecs
    BY <1>1, <1>2
  <1> HIDE DEF a, b
  <1>4. Cardinality(a..b - 1) = b - a
    <2>1. Cardinality(a..b - 1) = IF a > b - 1 THEN 0 ELSE (b - 1) - a + 1
      BY <1>3, FS_Interval
    <2> QED BY <1>3, <2>1
  <1>5. RecIds(s) = a..b - 1
    BY DEF RecIds, a, b
  <1>6. \A x \in RecId : x \in a..b - 1 <=> a <= x /\ x < b
    BY <1>3, IdIs
  <1>7. b < MaxRecs => b \in RecId
    BY <1>1, <1>3 DEF RecId
  <1> QED BY <1>3, <1>4, <1>5, <1>6, <1>7 DEF a, b

\* What one side says of all pairs is said of both.
LEMMA FromSide ==
  ASSUME NEW k, NEW s \in Side,
         \A x, y \in RecId : /\ Pair(k, s, x, y) /\ Exist(k, s, x, y)
                             /\ W(k, s, x, y) <= MaxJoinFq /\ W(k, Other[s], y, x) <= MaxJoinFq
  PROVE  Fit(k)
  <1>1. SUFFICES ASSUME NEW t \in Side, NEW x \in RecId, NEW y \in RecId
                 PROVE  Pair(k, t, x, y) /\ Exist(k, t, x, y) /\ W(k, t, x, y) <= MaxJoinFq
    BY DEF Fit
  <1>2. CASE t = s
    BY <1>2
  <1>3. CASE t = Other[s]
    <2>1. Pair(k, s, y, x) /\ Exist(k, s, y, x) /\ W(k, t, x, y) <= MaxJoinFq
      BY <1>3
    <2>2. Pair(k, t, x, y)
      BY <1>3, <2>1, PairOther
    <2>3. Exist(k, t, x, y)
      BY <1>3, <2>1, OtherIs DEF Exist, Pair
    <2> QED BY <2>1, <2>2, <2>3
  <1> QED BY <1>2, <1>3, OtherIs

LEMMA BoundedIs ==
  ASSUME NEW k, WF(k), FqsBounded(k), NEW s \in Side, NEW x \in RecId, NEW y \in RecId, MaxJoinFq # 0
  PROVE  W(k, s, x, y) <= MaxJoinFq
  <1>1. MaxJoinFq \in Nat /\ MaxJoinFq >= 1 /\ <<x, y>> \in RecId \X RecId
    BY ConstantsOK
  <1>2. k.idx[s][<<x, y>>] \in -MaxJoinFq..MaxJoinFq
    BY <1>1 DEF FqsBounded
  <1>3. k.fq[s][x] \in 0..MaxJoinFq
    BY PartsAre DEF WF
  <1> QED BY <1>1, <1>2, <1>3 DEF W

LEMMA LostDropped ==
  ASSUME LostOK, NEW s \in Side, NEW D, lost' = [lost EXCEPT ![s] = @ \ D],
         \A t \in Side : \A x \in RecIds(t) : x \in RecId /\ (t = s => x \notin D) => x \in RecIds(t)'
  PROVE  LostOK'
  <1>1. lost \in [Side -> SUBSET RecId] /\ \A t \in Side : lost[t] \subseteq RecIds(t)
    BY DEF LostOK
  <1>2. lost' \in [Side -> SUBSET RecId]
    BY <1>1
  <1>3. \A t \in Side : lost'[t] = IF t = s THEN lost[t] \ D ELSE lost[t]
    BY <1>1
  <1>4. ASSUME NEW t \in Side, NEW x \in lost'[t] PROVE x \in RecIds(t)'
    <2>1. x \in lost[t] /\ (t = s => x \notin D)
      BY <1>3, <1>4
    <2>2. x \in RecIds(t) /\ x \in RecId
      BY <1>1, <2>1
    <2> QED BY <2>1, <2>2
  <1> QED BY <1>2, <1>4 DEF LostOK

(***************************************************************************)
(* What the steps do to the links, as one side sees them.                  *)
(***************************************************************************)
On(j, s, x, y) == W(j, s, x, y) > 0

Kept(j, k, s) == \A x, y \in RecId : On(k, s, x, y) <=> On(j, s, x, y)
Dropped(j, k, s) == \E D \in SUBSET RecId : \A x, y \in RecId : On(k, s, x, y) <=> (On(j, s, x, y) /\ x \notin D)
CutOff(j, k, s) ==
  \E r, q \in RecId : \A x, y \in RecId : On(k, s, x, y) <=> (On(j, s, x, y) /\ ~(x = r /\ y = q))
GivesWay(s, r, S, x, y) ==
  \E z \in S : (Form[s] = "field" /\ x = r /\ y # z) \/ (Form[Other[s]] = "field" /\ y = z /\ x # r)
Linked(j, k, s) ==
  \E r \in RecId, S \in SUBSET RecId :
    /\ Form[s] = "field" => \A y, z \in S : y = z
    /\ \A x, y \in RecId : On(k, s, x, y) <=> ((x = r /\ y \in S) \/ (On(j, s, x, y) /\ ~GivesWay(s, r, S, x, y)))
Shape(j, k) == \E s \in Side : Kept(j, k, s) \/ Dropped(j, k, s) \/ CutOff(j, k, s) \/ Linked(j, k, s)

LEMMA MergeStep ==
  ASSUME IInv, NEW s \in Side, NEW r \in RecId, DoJoin(s, r)
  PROVE  IInv' /\ Shape(joins, joins')
  <1>1. joins' = joins /\ recs' = recs /\ lost' = lost
    BY MergedIs DEF DoJoin, IInv, Fit
  <1>2. Kept(joins, joins', s)
    BY <1>1 DEF Kept
  <1> QED BY <1>1, <1>2 DEF Shape, IInv, RecsOK, Fit, Exist, LostOK, RecIds

LEMMA DelJoinsStep ==
  ASSUME IInv, NEW s \in Side, NEW r \in RecId, DelJoins(s, r)
  PROVE  IInv' /\ Shape(joins, joins')
  <1>1. WF(joins) /\ \A x, y \in RecId : /\ Pair(joins, s, x, y) /\ Exist(joins, s, x, y)
                                     /\ W(joins, s, x, y) <= MaxJoinFq /\ W(joins, Other[s], y, x) <= MaxJoinFq
    BY OtherIs DEF IInv, Fit
  <1>2. joins' = DelJoinsOf(joins, s, r) /\ recs' = recs
    BY DEF DelJoins
  <1>3. WF(joins') /\ \A x, y \in RecId : IF x = r THEN Gone(joins', s, x, y) ELSE Same(joins, joins', s, x, y)
    BY <1>1, <1>2, DelJoinsIs
  <1>4. \A x, y \in RecId : /\ Pair(joins', s, x, y) /\ Exist(joins', s, x, y)
                            /\ W(joins', s, x, y) <= MaxJoinFq /\ W(joins', Other[s], y, x) <= MaxJoinFq
    BY <1>1, <1>3, KeptPair, ConstantsOK DEF Gone, Same
  <1>5. Fit(joins')
    BY <1>4, FromSide
  <1>6. \A x, y \in RecId : On(joins', s, x, y) <=> (On(joins, s, x, y) /\ x \notin {r})
    BY <1>3 DEF On, Gone, Same
  <1>7. Shape(joins, joins')
    BY <1>6 DEF Shape, Dropped
  <1>8. LostOK'
    <2>1. LostOK /\ lost' = [lost EXCEPT ![s] = @ \ {r}]
      BY DEF DelJoins, IInv
    <2>2. \A t \in Side : RecIds(t)' = RecIds(t)
      BY <1>2 DEF RecIds
    <2> QED BY <2>1, <2>2, LostDropped
  <1> QED BY <1>2, <1>3, <1>5, <1>7, <1>8 DEF IInv, RecsOK, Fit, Exist, RecIds

LEMMA AddJoinStep ==
  ASSUME IInv, Careful, NEW s \in Side, NEW r \in RecId, NEW q \in RecId, NEW n \in Fqs, AddJoin(s, r, q, n)
  PROVE  IInv' /\ Shape(joins, joins')
  <1> DEFINE k == AddJoinTo(joins, s, r, q, n)
  <1>1. WF(joins) /\ \A x, y \in RecId : Pair(joins, s, x, y) /\ Exist(joins, s, x, y)
    BY DEF IInv, Fit
  <1>2. /\ joins' = k /\ recs' = recs /\ lost' = lost /\ FqsBounded(k)
        /\ r \in RecIds(s) /\ q \in RecIds(Other[s]) /\ (Again \/ q \notin JoinedWith(joins, s, r))
    BY DEF AddJoin
  <1>3. n \in 1..MaxJoinFq /\ MaxJoinFq # 0
    BY ConstantsOK
  <1>4. Told(joins, s, r, q, n)
    <2>1. SUFFICES ASSUME ~BothLists, ~BothFields
                   PROVE  W(joins, s, r, q) = 0 /\ \A t \in Side : Form[t] = "field" => HasFq[t] \/ n = 1
      BY DEF Told
    <2>2. ~Again /\ \A t \in Side : Form[t] = "field" => HasFq[t] \/ Fqs \subseteq {1}
      BY <2>1 DEF Careful
    <2>3. ~(W(joins, s, r, q) > 0) /\ W(joins, s, r, q) \in Int /\ W(joins, s, r, q) >= 0
      BY <1>1, <1>2, <2>2, WIs DEF Pair
    <2> QED BY <2>2, <2>3
  <1> HIDE DEF k
  <1>5. /\ WF(k) /\ Pair(k, s, r, q) /\ W(k, s, r, q) > 0
        /\ \A x, y \in RecId : ~(x = r /\ y = q) =>
             IF Yields(s, r, q, x, y) THEN Gone(k, s, x, y) ELSE Same(joins, k, s, x, y)
    BY <1>1, <1>3, <1>4, AddJoinToIs DEF k
  <1>6. \A x, y \in RecId : Pair(k, s, x, y) /\ Exist(k, s, x, y)
    BY <1>1, <1>2, <1>5, KeptPair DEF Exist
  <1>7. \A x, y \in RecId : W(k, s, x, y) <= MaxJoinFq /\ W(k, Other[s], y, x) <= MaxJoinFq
    BY <1>2, <1>3, <1>5, BoundedIs, OtherIs
  <1>8. Fit(k)
    BY <1>6, <1>7, FromSide
  <1>9. \A x, y \in RecId : On(k, s, x, y) <=>
             ((x = r /\ y \in {q}) \/ (On(joins, s, x, y) /\ ~GivesWay(s, r, {q}, x, y)))
    BY <1>5 DEF On, Gone, Same, Yields, GivesWay
  <1>10. Linked(joins, k, s)
    <2>1. {q} \in SUBSET RecId /\ \A y, z \in {q} : y = z
      OBVIOUS
    <2> QED BY <1>9, <2>1 DEF Linked
  <1>11. Shape(joins, joins')
    BY <1>2, <1>10 DEF Shape
  <1> QED BY <1>2, <1>5, <1>8, <1>11 DEF IInv, RecsOK, Fit, Exist, LostOK, RecIds

LEMMA DeletedIs ==
  ASSUME IInv, Careful, NEW s \in Side, NEW r \in RecId, NEW q \in RecId, NEW n \in DelFqs, DeleteJoinOf(s, r, q, n)
  PROVE  /\ WF(joins') /\ \A x, y \in RecId : ~(x = r /\ y = q) => Same(joins, joins', s, x, y)
         /\ Pair(joins', s, r, q) /\ On(joins, s, r, q)
  <1>1. WF(joins) /\ Pair(joins, s, r, q)
    BY DEF IInv, Fit
  <1>2. /\ joins' = DelJoin(joins, s, r, q, n) /\ q \in RecIds(Other[s]) /\ (Unjoined \/ q \in JoinedWith(joins, s, r))
    BY DEF DeleteJoinOf
  <1>3. W(joins, s, r, q) > 0 /\ W(joins, s, r, q) \in Int
    BY <1>1, <1>2, WIs DEF Careful
  <1>4. Fits(joins, s, r, q, n)
    <2>1. CASE BothFields
      BY <2>1 DEF Fits, Whole
    <2>2. CASE BothLists
      <3>1. n = 1 \/ n = All
        BY <2>2 DEF Careful
      <3> QED BY <1>3, <2>2, <3>1 DEF Fits, Whole
    <2>3. CASE ~BothFields /\ ~BothLists
      BY <2>3 DEF Careful, Fits, Whole
    <2> QED BY <2>1, <2>2, <2>3
  <1> QED BY <1>1, <1>2, <1>3, <1>4, DelJoinIs DEF On

LEMMA DeleteJoinStep ==
  ASSUME IInv, Careful, NEW s \in Side, NEW r \in RecId, NEW q \in RecId, NEW n \in DelFqs, DeleteJoinOf(s, r, q, n)
  PROVE  IInv' /\ Shape(joins, joins')
  <1>1. WF(joins) /\ \A x, y \in RecId : Pair(joins, s, x, y) /\ Exist(joins, s, x, y)
    BY DEF IInv, Fit
  <1>2. recs' = recs /\ lost' = lost /\ FqsBounded(joins')
    BY DEF DeleteJoinOf
  <1>3. /\ WF(joins') /\ \A x, y \in RecId : ~(x = r /\ y = q) => Same(joins, joins', s, x, y)
        /\ Pair(joins', s, r, q) /\ On(joins, s, r, q)
    BY DeletedIs
  <1>4. \A x, y \in RecId : Pair(joins', s, x, y) /\ Exist(joins', s, x, y)
    BY <1>1, <1>3, KeptPair DEF Exist, On
  <1>5. MaxJoinFq # 0
    <2>1. W(joins, s, r, q) > 0 /\ W(joins, s, r, q) <= MaxJoinFq /\ W(joins, s, r, q) \in Int
      BY <1>1, <1>3, WIs DEF IInv, Fit, On
    <2> QED BY <2>1
  <1>6. \A x, y \in RecId : W(joins', s, x, y) <= MaxJoinFq /\ W(joins', Other[s], y, x) <= MaxJoinFq
    BY <1>2, <1>3, <1>5, BoundedIs, OtherIs
  <1>7. Fit(joins')
    BY <1>4, <1>6, FromSide
  <1>8. Kept(joins, joins', s) \/ CutOff(joins, joins', s)
    <2>1. CASE On(joins', s, r, q)
      BY <1>3, <2>1 DEF Kept, On, Same
    <2>2. CASE ~On(joins', s, r, q)
      <3>1. \A x, y \in RecId : On(joins', s, x, y) <=> (On(joins, s, x, y) /\ ~(x = r /\ y = q))
        BY <1>3, <2>2 DEF On, Same
      <3> QED BY <3>1 DEF CutOff
    <2> QED BY <2>1, <2>2
  <1>9. Shape(joins, joins')
    BY <1>8 DEF Shape
  <1> QED BY <1>2, <1>3, <1>7, <1>9 DEF IInv, RecsOK, Fit, Exist, LostOK, RecIds

LEMMA FromSideNext ==
  ASSUME NEW s \in Side,
         \A x, y \in RecId : /\ Pair(joins', s, x, y)
                             /\ W(joins', s, x, y) <= MaxJoinFq /\ W(joins', Other[s], y, x) <= MaxJoinFq
                             /\ W(joins', s, x, y) > 0 => x \in RecIds(s)' /\ y \in RecIds(Other[s])'
  PROVE  Fit(joins)'
  <1>1. SUFFICES ASSUME NEW t \in Side, NEW x \in RecId, NEW y \in RecId
                 PROVE  /\ Pair(joins', t, x, y) /\ W(joins', t, x, y) <= MaxJoinFq
                        /\ W(joins', t, x, y) > 0 => x \in RecIds(t)' /\ y \in RecIds(Other[t])'
    BY DEF Fit, Exist
  <1>2. CASE t = s
    BY <1>2
  <1>3. CASE t = Other[s]
    <2>1. /\ Pair(joins', s, y, x) /\ W(joins', t, x, y) <= MaxJoinFq
          /\ W(joins', s, y, x) > 0 => y \in RecIds(s)' /\ x \in RecIds(t)'
      BY <1>3
    <2>2. Pair(joins', t, x, y)
      BY <1>3, <2>1, PairOther
    <2>3. W(joins', t, x, y) > 0 => W(joins', s, y, x) > 0
      BY <1>3, <2>1 DEF Pair
    <2>4. Other[t] = s
      BY <1>3, OtherIs
    <2> QED BY <2>1, <2>2, <2>3, <2>4
  <1> QED BY <1>2, <1>3, OtherIs

\* The first n records of a store are deleted, with their joins.
LEMMA DeletedRecs ==
  ASSUME IInv, NEW s \in Side, NEW n \in 1..Cardinality(RecIds(s)),
         recs' = [recs EXCEPT ![s].first = recs[s].first + n], WF(joins'),
         lost' = [lost EXCEPT ![s] = @ \ (recs[s].first..recs[s].first + n - 1)],
         \A x, y \in RecId : IF x \in recs[s].first..recs[s].first + n - 1
                          THEN Gone(joins', s, x, y) ELSE Same(joins, joins', s, x, y)
  PROVE  IInv' /\ Shape(joins, joins')
  <1> DEFINE a == recs[s].first
             b == recs[s].next
             o == Other[s]
             D == {x \in RecId : x \in a..a + n - 1}
  <1>1. /\ a \in Nat /\ b \in Nat /\ a <= b /\ b <= MaxRecs /\ n \in Nat /\ a + n <= b
    BY RecsAre DEF IInv
  <1>2. o \in Side /\ o # s
    BY OtherIs
  <1>3. recs \in [Side -> [first : 0..MaxRecs, next : 0..MaxRecs]]
    BY DEF IInv, RecsOK
  <1>4. /\ recs'[s].first = a + n /\ recs'[s].next = b /\ recs'[o] = recs[o]
        /\ recs' \in [Side -> [first : 0..MaxRecs, next : 0..MaxRecs]]
    <2>1. a + n \in 0..MaxRecs
      BY <1>1, ConstantsOK
    <2>2. recs[s] \in [first : 0..MaxRecs, next : 0..MaxRecs]
      BY <1>3
    <2>3. [recs[s] EXCEPT !.first = a + n] \in [first : 0..MaxRecs, next : 0..MaxRecs]
      BY <2>1, <2>2
    <2>4. recs' = [recs EXCEPT ![s] = [recs[s] EXCEPT !.first = a + n]]
      BY <1>3
    <2>5. recs'[s] = [recs[s] EXCEPT !.first = a + n]
      BY <1>3, <2>4
    <2> HIDE DEF a, b, o
    <2>6. recs'[s].first = a + n /\ recs'[s].next = recs[s].next
      BY <2>2, <2>5
    <2> QED BY <1>2, <1>3, <2>3, <2>4, <2>6 DEF b
  <1>5. RecsOK'
    <2>1. \A t \in Side : recs'[t].first <= recs'[t].next
      BY <1>1, <1>4, OtherIs DEF IInv, RecsOK
    <2> QED BY <1>4, <2>1 DEF RecsOK
  <1>6. \A x, y \in RecId : /\ Pair(joins, s, x, y) /\ Exist(joins, s, x, y)
                            /\ W(joins, s, x, y) <= MaxJoinFq /\ W(joins, o, y, x) <= MaxJoinFq
    BY <1>2 DEF IInv, Fit
  <1>7. \A x \in RecId : x \in RecIds(s) <=> a <= x /\ x < b
    BY RecsAre DEF IInv
  <1>8. \A x \in RecId : x \in RecIds(s)' <=> a + n <= x /\ x < b
    BY <1>1, <1>4, IdIs DEF RecIds
  <1>9. RecIds(o)' = RecIds(o)
    BY <1>4 DEF RecIds
  <1>10. \A x \in RecId : x \in RecIds(s) /\ x \notin a..a + n - 1 => x \in RecIds(s)'
    BY <1>1, <1>7, <1>8, IdIs
  <1>11. ASSUME NEW x \in RecId, NEW y \in RecId
         PROVE  /\ Pair(joins', s, x, y)
                /\ W(joins', s, x, y) <= MaxJoinFq /\ W(joins', o, y, x) <= MaxJoinFq
                /\ W(joins', s, x, y) > 0 => x \in RecIds(s)' /\ y \in RecIds(o)'
    <2>1. CASE x \in a..a + n - 1
      <3>1. Gone(joins', s, x, y)
        BY <2>1
      <3>2. Pair(joins', s, x, y)
        BY <3>1, GoneIs
      <3> QED BY <3>1, <3>2, ConstantsOK DEF Gone
    <2>2. CASE x \notin a..a + n - 1
      <3>1. Same(joins, joins', s, x, y)
        BY <2>2
      <3> QED BY <1>6, <1>9, <1>10, <2>2, <3>1, SamePair DEF Same, Exist
    <2> QED BY <2>1, <2>2
  <1>12. Fit(joins)'
    BY <1>11, FromSideNext
  <1>13. \A x, y \in RecId : On(joins', s, x, y) <=> (On(joins, s, x, y) /\ x \notin D)
    <2>1. \A x \in RecId : x \in D <=> x \in a..a + n - 1
      OBVIOUS
    <2> HIDE DEF D
    <2> QED BY <2>1 DEF On, Gone, Same
  <1>14. Shape(joins, joins')
    <2>1. D \in SUBSET RecId
      OBVIOUS
    <2> HIDE DEF D
    <2> QED BY <1>13, <2>1 DEF Shape, Dropped
  <1>15. LostOK'
    <2>1. \A t \in Side : \A x \in RecIds(t) : x \in RecId /\ (t = s => x \notin a..a + n - 1) => x \in RecIds(t)'
      BY <1>9, <1>10, OtherIs
    <2> DEFINE E == a..a + n - 1
    <2>2. lost \in [Side -> SUBSET RecId] /\ \A t \in Side : lost[t] \subseteq RecIds(t)
      BY DEF IInv, LostOK
    <2>3. lost' = [lost EXCEPT ![s] = @ \ E]
      OBVIOUS
    <2> HIDE DEF E
    <2>4. /\ lost' \in [Side -> SUBSET RecId]
          /\ \A t \in Side : \A x \in lost'[t] : x \in lost[t] /\ (t = s => x \notin E)
      BY <2>2, <2>3
    <2>5. \A t \in Side : \A x \in lost'[t] : x \in RecIds(t)'
      BY <2>1, <2>2, <2>4 DEF E
    <2> QED BY <2>4, <2>5 DEF LostOK
  <1> QED BY <1>5, <1>12, <1>14, <1>15 DEF IInv

LEMMA DeleteRecsStep ==
  ASSUME IInv, NEW s \in Side, NEW n, DeleteRecs(s, n) \/ (DeleteAllRecs(s) /\ n = Cardinality(RecIds(s)))
  PROVE  IInv' /\ Shape(joins, joins')
  <1> DEFINE from == recs[s].first
  <1>1. WF(joins) /\ \A x, y \in RecId : Pair(joins, s, x, y) /\ Exist(joins, s, x, y)
    BY DEF IInv, Fit
  <1>2. /\ from \in Nat /\ recs[s].next \in Nat /\ from <= recs[s].next /\ recs[s].next <= MaxRecs
        /\ Cardinality(RecIds(s)) = recs[s].next - from
    BY RecsAre DEF IInv
  <1>3. n \in 1..Cardinality(RecIds(s))
    <2>1. CASE DeleteRecs(s, n)
      BY <2>1 DEF DeleteRecs
    <2>2. CASE DeleteAllRecs(s) /\ n = Cardinality(RecIds(s))
      <3>1. RecIds(s) # {}
        BY <2>2 DEF DeleteAllRecs
      <3>2. recs[s].next # from
        BY <1>2, <3>1 DEF RecIds
      <3> QED BY <1>2, <2>2, <3>2
    <2> QED BY <2>1, <2>2
  <1>4. n \in Nat /\ from + n <= MaxRecs /\ from + n <= recs[s].next
    BY <1>2, <1>3, ConstantsOK
  <1>5. recs' = [recs EXCEPT ![s].first = from + n]
    <2>1. CASE DeleteRecs(s, n)
      BY <2>1 DEF DeleteRecs, IInv, RecsOK
    <2>2. CASE DeleteAllRecs(s) /\ n = Cardinality(RecIds(s))
      <3>1. recs' = [recs EXCEPT ![s].first = recs[s].next]
        BY <2>2 DEF DeleteAllRecs
      <3>2. recs[s].next = from + n
        BY <1>2, <2>2
      <3> QED BY <3>1, <3>2
    <2> QED BY <2>1, <2>2
  <1>6. joins' = AfterRecs(joins, s, from, n)[n] \/ joins' = AfterAllRecs(joins, s, from, n)[n]
    <2>1. CASE DeleteRecs(s, n)
      BY <2>1 DEF DeleteRecs, AfterRecs
    <2>2. CASE DeleteAllRecs(s) /\ n = Cardinality(RecIds(s))
      BY <2>2 DEF DeleteAllRecs, AfterAllRecs
    <2> QED BY <2>1, <2>2
  <1>7. /\ WF(joins')
        /\ \A x, y \in RecId : IF x \in from..from + n - 1 THEN Gone(joins', s, x, y) ELSE Same(joins, joins', s, x, y)
    <2> HIDE DEF from
    <2> QED BY <1>1, <1>2, <1>4, <1>6, RecsIs, AllRecsIs
  <1>8. lost' = [lost EXCEPT ![s] = @ \ (from..from + n - 1)]
    <2>1. CASE DeleteRecs(s, n)
      BY <2>1 DEF DeleteRecs
    <2>2. CASE DeleteAllRecs(s) /\ n = Cardinality(RecIds(s))
      <3>1. lost' = [lost EXCEPT ![s] = @ \ RecIds(s)]
        BY <2>2 DEF DeleteAllRecs
      <3>2. recs[s].next = from + n
        BY <1>2, <2>2
      <3>3. RecIds(s) = from..from + n - 1
        <4> DEFINE last == recs[s].next
        <4>1. RecIds(s) = from..last - 1
          BY DEF RecIds
        <4>2. last = from + n /\ from \in Nat /\ n \in Nat
          BY <1>2, <1>4, <3>2
        <4> HIDE DEF from, last
        <4>3. last - 1 = from + n - 1
          BY <4>2
        <4> QED BY <4>1, <4>3
      <3> QED BY <3>1, <3>3
    <2> QED BY <2>1, <2>2
  <1> QED BY <1>3, <1>5, <1>7, <1>8, DeletedRecs

LEMMA InitIs ==
  ASSUME JoinsInit
  PROVE  IInv /\ \A s \in Side, x, y \in RecId : ~On(joins, s, x, y)
  <1>1. MaxRecs \in Nat /\ MaxJoinFq \in Nat
    BY ConstantsOK
  <1>2. RecsOK
    BY <1>1 DEF JoinsInit, RecsOK
  <1>3. /\ joins.idx = [s \in Side |-> [p \in RecId \X RecId |-> 0]]
        /\ joins.fld = [s \in Side |-> [r \in RecId |-> None]]
        /\ joins.fq = [s \in Side |-> [r \in RecId |-> 0]]
        /\ joins = [idx |-> joins.idx, fld |-> joins.fld, fq |-> joins.fq]
    BY DEF JoinsInit
  <1>4. joins \in JoinRec
    <2>1. joins.idx \in [Side -> [RecId \X RecId -> Int]]
      BY <1>3
    <2>2. joins.fld \in [Side -> [RecId -> RecId \cup {None}]]
      BY <1>3
    <2>3. 0 \in 0..MaxJoinFq
      BY <1>1
    <2>4. joins.fq \in [Side -> [RecId -> 0..MaxJoinFq]]
      BY <1>3, <2>3
    <2>5. \E a, b, c : joins = [idx |-> a, fld |-> b, fq |-> c]
      BY DEF JoinsInit
    <2> QED BY <2>1, <2>2, <2>4, <2>5 DEF JoinRec
  <1>5. \A s \in Side, r, q \in RecId : joins.idx[s][<<r, q>>] = 0 /\ joins.fld[s][r] = None
    BY <1>3
  <1>6. WF(joins)
    BY <1>4, <1>5 DEF WF
  <1>7. \A s \in Side, x, y \in RecId : W(joins, s, x, y) = 0
    BY <1>5, IdIs DEF W
  <1>8. Fit(joins)
    BY <1>1, <1>7, OtherIs DEF Fit, Pair, Exist
  <1>9. LostOK
    BY DEF JoinsInit, LostOK
  <1> QED BY <1>2, <1>6, <1>7, <1>8, <1>9 DEF IInv, On

LEMMA ClearIs ==
  ASSUME NEW j, WF(j), NEW s \in Side, Form[s] = "field", NEW r \in RecId, \A y \in RecId : Gone(j, s, r, y)
  PROVE  LET k == ClearField(j, s, r) IN WF(k) /\ \A x, y \in RecId : Same(j, k, s, x, y)
  <1> DEFINE k == SetField(j, s, r, None, 0)
  <1>1. None \in RecId \cup {None} /\ 0 \in 0..MaxJoinFq
    BY ConstantsOK
  <1>2. /\ WF(k) /\ \A y \in RecId : y # None => W(k, s, r, y) = 0
        /\ \A t \in Side, x, y \in RecId : ~(t = s /\ x = r) => W(k, t, x, y) = W(j, t, x, y)
    BY <1>1, SetFieldIs
  <1> HIDE DEF k
  <1>3. \A x, y \in RecId : Same(j, k, s, x, y)
    BY <1>2, OtherIs, IdIs DEF Same, Gone
  <1>4. ClearField(j, s, r) = k
    BY DEF ClearField, k
  <1> QED BY <1>2, <1>3, <1>4

LEMMA AddRecStep ==
  ASSUME IInv, Careful, NEW s \in Side, NEW qn \in BoundedSeq(Fqs, 2), NEW k \in 0..Len(qn),
         NEW qs \in [1..Len(qn) -> RecId \cup {Mx}], AddRec(s, k, qs, qn)
  PROVE  IInv' /\ Shape(joins, joins')
  <1> DEFINE o == Other[s]
             r == recs[s].next
             q == recs[o].next
             len == Len(qn)
             null == IF Form[s] = "field" THEN ClearField(joins, s, r) ELSE joins
             S == Nesting(qs, len)
  <1>1. o \in Side /\ o # s /\ Other[o] = s
    BY OtherIs
  <1>2. /\ len \in Nat /\ k \in Nat /\ \A i \in 1..len : qn[i] \in Fqs /\ qs[i] \in RecId \cup {Mx}
    <2>1. qn \in Seq(Fqs)
      <3>1. BoundedSeq(Fqs, 2) = UNION {[1..m -> Fqs] : m \in 0..2}
        BY DEF BoundedSeq, SeqOf
      <3>2. PICK m \in 0..2 : qn \in [1..m -> Fqs]
        BY <3>1
      <3> QED BY <3>2
    <2> QED BY <2>1
  <1>3. /\ r < MaxRecs /\ q + k <= MaxRecs /\ (Form[s] = "field" => len <= 1)
        /\ recs' = [recs EXCEPT ![s].next = @ + 1, ![o].next = @ + k]
        /\ joins' = AfterAdd(null, s, r, qs, qn, len)[len]
        /\ FqsBounded(joins')
        /\ Again \/ \A h, i \in 1..len : qs[h] = qs[i] => h = i \/ qs[i] = Mx
        /\ lost' = lost \/ lost' = [lost EXCEPT ![s] = @ \cup {r}]
    BY DEF AddRec, AfterAdd
  <1>4. /\ r \in RecId /\ q \in Nat /\ recs[s].first \in Nat /\ recs[o].first \in Nat
        /\ recs[s].first <= r /\ recs[o].first <= q
    BY <1>1, <1>3, RecsAre DEF IInv
  <1>5. \A x, y \in RecId : /\ Pair(joins, s, x, y) /\ Exist(joins, s, x, y)
                            /\ W(joins, s, x, y) <= MaxJoinFq /\ W(joins, o, y, x) <= MaxJoinFq
    BY <1>1 DEF IInv, Fit
  <1>6. /\ \A x \in RecId : x \in RecIds(s) <=> recs[s].first <= x /\ x < r
        /\ \A y \in RecId : y \in RecIds(o) <=> recs[o].first <= y /\ y < q
    BY <1>1, RecsAre DEF IInv
  <1>7. \A y \in S : y \in RecIds(o) \/ y \in q..q + k - 1
    <2>1. Range(qs) \ (RecIds(o) \cup {Mx}) = q..(q + k - 1)
      BY DEF AddRec, Nested
    <2>2. ASSUME NEW y \in S PROVE y \in Range(qs) /\ y # Mx
      <3>1. PICK i \in 1..len : qs[i] = y
        BY <2>2 DEF Nesting
      <3>2. i \in DOMAIN qs
        OBVIOUS
      <3>3. y \in Range(qs)
        BY <3>1, <3>2 DEF Range
      <3>4. Mx \notin RecId /\ y \in RecId
        BY <2>2, ConstantsOK DEF Mx, RecId, Nesting
      <3> QED BY <3>3, <3>4
    <2> HIDE DEF S
    <2> QED BY <2>1, <2>2
  <1>8. ASSUME NEW y \in RecId PROVE Gone(joins, s, r, y)
    <2>1. r \notin RecIds(s)
      BY <1>4, <1>6, IdIs
    <2>2. ~(W(joins, s, r, y) > 0) /\ Pair(joins, s, r, y)
      BY <1>4, <1>5, <2>1 DEF Exist
    <2>3. W(joins, s, r, y) \in Int /\ W(joins, o, y, r) \in Int
      BY <1>1, <1>4, WIs DEF IInv
    <2> QED BY <2>2, <2>3 DEF Pair, Gone
  <1>9. WF(null) /\ \A x, y \in RecId : Same(joins, null, s, x, y)
    <2>1. CASE Form[s] = "field"
      <3>1. null = ClearField(joins, s, r) /\ WF(joins)
        BY <2>1 DEF IInv
      <3> HIDE DEF null, r
      <3> QED BY <1>4, <1>8, <2>1, <3>1, ClearIs
    <2>2. CASE Form[s] # "field"
      <3>1. null = joins /\ WF(joins)
        BY <2>2 DEF IInv
      <3> HIDE DEF null
      <3> QED BY <3>1 DEF Same
    <2> QED BY <2>1, <2>2
  <1>10. \A x, y \in RecId : Pair(null, s, x, y) /\ Exist(null, s, x, y) /\ (x = r => Gone(null, s, x, y))
    <2> HIDE DEF null, r
    <2> QED BY <1>5, <1>8, <1>9, KeptPair, GoneIs
  <1>11. /\ \A i \in 1..len : qs[i] \in RecId \cup {Mx} /\ qn[i] \in 1..MaxJoinFq
         /\ BothLists \/ BothFields \/ \A t \in Side, i \in 1..len : Form[t] = "field" => HasFq[t] \/ qn[i] = 1
         /\ BothLists \/ BothFields \/ \A h, i \in 1..len : qs[h] = qs[i] => h = i \/ qs[i] = Mx
    BY <1>2, <1>3, ConstantsOK DEF Careful
  <1>12. /\ WF(joins')
         /\ \A x, y \in RecId :
              IF x = r /\ y \in S THEN Pair(joins', s, x, y) /\ W(joins', s, x, y) > 0
              ELSE IF y \in S /\ Form[Other[s]] = "field" THEN Gone(joins', s, x, y)
              ELSE Same(null, joins', s, x, y)
    <2> DEFINE i == AfterAdd(null, s, r, qs, qn, len)[len]
    <2>1. len \in Nat /\ r \in RecId /\ (Form[s] = "field" => len <= 1)
      BY <1>2, <1>3, <1>4
    <2>2. joins' = i
      BY <1>3
    <2> HIDE DEF null, r, len
    <2>3. WF(i)
      BY <1>9, <1>10, <1>11, <2>1, AddIs
    <2>4. \A x, y \in RecId :
              IF x = r /\ y \in Nesting(qs, len) THEN Pair(i, s, x, y) /\ W(i, s, x, y) > 0
              ELSE IF y \in Nesting(qs, len) /\ Form[Other[s]] = "field" THEN Gone(i, s, x, y)
              ELSE Same(null, i, s, x, y)
      BY <1>9, <1>10, <1>11, <2>1, AddIs
    <2> HIDE DEF i
    <2> QED BY <2>2, <2>3, <2>4
  <1>13. \A x, y \in RecId : IF x = r /\ y \in S THEN Pair(joins', s, x, y) /\ W(joins', s, x, y) > 0
                             ELSE IF y \in S /\ Form[o] = "field" THEN Gone(joins', s, x, y)
                             ELSE Same(joins, joins', s, x, y)
    <2> HIDE DEF null, r, S
    <2> QED BY <1>9, <1>12, SameSame
  <1>14. /\ recs' \in [Side -> [first : 0..MaxRecs, next : 0..MaxRecs]]
         /\ recs'[s].first = recs[s].first /\ recs'[o].first = recs[o].first
         /\ recs'[s].next = r + 1 /\ recs'[o].next = q + k
    <2>1. recs \in [Side -> [first : 0..MaxRecs, next : 0..MaxRecs]]
      BY DEF IInv, RecsOK
    <2> DEFINE a == [recs[s] EXCEPT !.next = r + 1]
               b == [recs[o] EXCEPT !.next = q + k]
    <2>2. /\ recs[s] \in [first : 0..MaxRecs, next : 0..MaxRecs]
          /\ recs[o] \in [first : 0..MaxRecs, next : 0..MaxRecs]
      BY <1>1, <2>1
    <2>3. r + 1 \in 0..MaxRecs /\ q + k \in 0..MaxRecs
      BY <1>2, <1>3, <1>4, ConstantsOK, IdIs, SMTT(30)
    <2>4. recs' = [[recs EXCEPT ![s] = a] EXCEPT ![o] = b]
      BY <1>1, <1>3, <2>1
    <2> HIDE DEF r, q
    <2>5. /\ a \in [first : 0..MaxRecs, next : 0..MaxRecs] /\ a.first = recs[s].first /\ a.next = r + 1
          /\ b \in [first : 0..MaxRecs, next : 0..MaxRecs] /\ b.first = recs[o].first /\ b.next = q + k
      BY <2>2, <2>3
    <2> HIDE DEF a, b
    <2>6. recs'[s] = a /\ recs'[o] = b /\ recs' \in [Side -> [first : 0..MaxRecs, next : 0..MaxRecs]]
      BY <1>1, <2>1, <2>4, <2>5
    <2> QED BY <2>5, <2>6
  <1>15. RecsOK'
    <2>1. recs[s].first <= r + 1 /\ recs[o].first <= q + k
      <3>1. r \in Nat
        BY <1>4, IdIs
      <3> DEFINE a == recs[s].first
                 b == recs[o].first
      <3>2. a \in Nat /\ b \in Nat /\ a <= r /\ b <= q /\ q \in Nat /\ k \in Nat
        BY <1>2, <1>4
      <3> HIDE DEF a, b, r, q
      <3> QED BY <3>1, <3>2 DEF a, b
    <2> HIDE DEF r, q
    <2>2. recs'[s].first <= recs'[s].next /\ recs'[o].first <= recs'[o].next
      BY <1>14, <2>1
    <2> QED BY <1>14, <2>2, OtherIs DEF RecsOK
  <1>16. /\ \A x \in RecId : x \in RecIds(s) \/ x = r => x \in RecIds(s)'
         /\ \A y \in RecId : y \in RecIds(o) \/ y \in q..q + k - 1 => y \in RecIds(o)'
    <2>1. /\ RecIds(s)' = recs[s].first..(r + 1) - 1
          /\ RecIds(o)' = recs[o].first..(q + k) - 1
      BY <1>14 DEF RecIds
    <2> HIDE DEF r, q
    <2>2. r \in Nat
      BY <1>4, IdIs
    <2> QED BY <1>2, <1>4, <1>6, <2>1, <2>2, IdIs
  <1>17. ASSUME NEW x \in RecId, NEW y \in RecId
         PROVE  /\ Pair(joins', s, x, y)
                /\ W(joins', s, x, y) <= MaxJoinFq /\ W(joins', o, y, x) <= MaxJoinFq
                /\ W(joins', s, x, y) > 0 => x \in RecIds(s)' /\ y \in RecIds(o)'
    <2>1. CASE x = r /\ y \in S
      <3>1. x \in RecIds(s)' /\ y \in RecIds(o)'
        <4> HIDE DEF S
        <4> QED BY <1>7, <1>16, <2>1
      <3>2. MaxJoinFq # 0
        <4>1. PICK i \in 1..len : qs[i] = y
          BY <2>1 DEF Nesting
        <4>2. qn[i] \in 1..MaxJoinFq
          BY <1>11
        <4> QED BY <4>2
      <3>3. W(joins', s, x, y) <= MaxJoinFq /\ W(joins', o, y, x) <= MaxJoinFq
        <4> HIDE DEF o
        <4> QED BY <1>1, <1>3, <1>12, <3>2, BoundedIs
      <3> QED BY <1>13, <2>1, <3>1, <3>3
    <2>2. CASE ~(x = r /\ y \in S) /\ Gone(joins', s, x, y)
      <3>1. Pair(joins', s, x, y)
        BY <2>2, GoneIs
      <3> QED BY <2>2, <3>1, ConstantsOK DEF Gone
    <2>3. CASE Same(joins, joins', s, x, y)
      BY <1>5, <1>16, <2>3, SamePair DEF Same, Exist
    <2> HIDE DEF S, r
    <2> QED BY <1>13, <2>1, <2>2, <2>3
  <1>18. Fit(joins)'
    BY <1>17, FromSideNext
  <1>19. ASSUME NEW x \in RecId, NEW y \in RecId
         PROVE  On(joins', s, x, y) <=> ((x = r /\ y \in S) \/ (On(joins, s, x, y) /\ ~GivesWay(s, r, S, x, y)))
    <2> HIDE DEF S, r
    <2>1. CASE x = r /\ y \in S
      BY <1>13, <2>1 DEF On
    <2>2. CASE x # r /\ y \in S /\ Form[o] = "field"
      <3>1. ~On(joins', s, x, y)
        BY <1>13, <2>2 DEF On, Gone
      <3>2. GivesWay(s, r, S, x, y)
        BY <2>2 DEF GivesWay
      <3> QED BY <2>2, <3>1, <3>2
    <2>3. CASE ~(x = r /\ y \in S) /\ ~(y \in S /\ Form[o] = "field")
      <3>1. On(joins', s, x, y) <=> On(joins, s, x, y)
        BY <1>13, <2>3 DEF On, Same
      <3>2. On(joins, s, x, y) => x # r
        BY <1>8 DEF On, Gone
      <3>3. x # r => ~GivesWay(s, r, S, x, y)
        BY <2>3 DEF GivesWay
      <3> QED BY <2>3, <3>1, <3>2, <3>3
    <2> QED BY <2>1, <2>2, <2>3
  <1>20. Form[s] = "field" => \A y, z \in S : y = z
    <2>1. SUFFICES ASSUME len <= 1, NEW y \in S, NEW z \in S PROVE y = z
      BY <1>3
    <2>2. PICK h \in 1..len : qs[h] = y
      BY DEF Nesting
    <2>3. PICK i \in 1..len : qs[i] = z
      BY DEF Nesting
    <2>4. h = i
      <3> HIDE DEF len, S
      <3> QED BY <1>2, <2>1
    <2> QED BY <2>2, <2>3, <2>4
  <1>21. Shape(joins, joins')
    <2>1. S \in SUBSET RecId
      BY DEF Nesting
    <2> HIDE DEF S, r
    <2>2. Linked(joins, joins', s)
      BY <1>4, <1>19, <1>20, <2>1 DEF Linked
    <2> QED BY <2>2 DEF Shape
  <1>22. LostOK'
    <2>1. LostOK /\ \A t \in Side : \A x \in RecIds(t) : x \in RecId => x \in RecIds(t)'
      BY <1>16, OtherIs DEF IInv
    <2>2. r \in RecId /\ r \in RecIds(s)'
      BY <1>4, <1>16
    <2> HIDE DEF r
    <2>3. /\ lost' \in [Side -> SUBSET RecId]
          /\ \A t \in Side : \A x \in lost'[t] : x \in lost[t] \/ (t = s /\ x = r)
      BY <1>3, <2>1, <2>2 DEF LostOK
    <2>4. \A t \in Side : \A x \in lost[t] : x \in RecId /\ x \in RecIds(t)
      BY <2>1 DEF LostOK
    <2> QED BY <2>1, <2>2, <2>3, <2>4 DEF LostOK
  <1> QED BY <1>12, <1>15, <1>18, <1>21, <1>22 DEF IInv

LEMMA StepIs ==
  ASSUME IInv, Careful, JoinsNext
  PROVE  IInv' /\ Shape(joins, joins')
  <1>1. PICK s \in Side :
          \/ \E r \in RecId : DoJoin(s, r) \/ DelJoins(s, r)
          \/ \E r, q \in RecId : \/ \E n \in Fqs : AddJoin(s, r, q, n)
                                 \/ \E n \in DelFqs : DeleteJoinOf(s, r, q, n)
          \/ \E qn \in BoundedSeq(Fqs, 2) :
               \E k \in 0..Len(qn), qs \in [1..Len(qn) -> RecId \cup {Mx}] : AddRec(s, k, qs, qn)
          \/ \E n \in 1..MaxRecs : DeleteRecs(s, n)
          \/ DeleteAllRecs(s)
    BY DEF JoinsNext
  <1>2. CASE \E r \in RecId : DoJoin(s, r) \/ DelJoins(s, r)
    BY <1>2, MergeStep, DelJoinsStep
  <1>3. CASE \E r, q \in RecId, n \in Fqs : AddJoin(s, r, q, n)
    BY <1>3, AddJoinStep
  <1>4. CASE \E r, q \in RecId, n \in DelFqs : DeleteJoinOf(s, r, q, n)
    BY <1>4, DeleteJoinStep
  <1>5. CASE \E qn \in BoundedSeq(Fqs, 2) :
               \E k \in 0..Len(qn), qs \in [1..Len(qn) -> RecId \cup {Mx}] : AddRec(s, k, qs, qn)
    BY <1>5, AddRecStep
  <1>6. CASE \E n \in 1..MaxRecs : DeleteRecs(s, n)
    BY <1>6, DeleteRecsStep
  <1>7. CASE DeleteAllRecs(s)
    BY <1>7, DeleteRecsStep
  <1> QED BY <1>1, <1>2, <1>3, <1>4, <1>5, <1>6, <1>7

LEMMA Stutters ==
  ASSUME IInv, UNCHANGED joinsVars
  PROVE  IInv'
  BY DEF IInv, RecsOK, Fit, Exist, LostOK, RecIds, joinsVars

LEMMA InvIs == ASSUME Careful PROVE JoinsSpec => []IInv
  <1>1. JoinsInit => IInv
    BY InitIs
  <1>2. IInv /\ [JoinsNext]_joinsVars => IInv'
    BY StepIs, Stutters
  <1> QED BY <1>1, <1>2, PTL DEF JoinsSpec

(***************************************************************************)
(* What the invariant says of the two sides.                               *)
(***************************************************************************)
LEMMA TypeIs ==
  ASSUME IInv
  PROVE  JoinsTypeOK
  <1>1. /\ joins = [idx |-> joins.idx, fld |-> joins.fld, fq |-> joins.fq]
        /\ joins.idx \in [Side -> [RecId \X RecId -> Int]] /\ joins.fld \in [Side -> [RecId -> RecId \cup {None}]]
        /\ joins.fq \in [Side -> [RecId -> 0..MaxJoinFq]]
    BY DEF IInv, WF, JoinRec
  <1>2. MaxJoinFq \in Nat
    BY ConstantsOK
  <1>3. ASSUME NEW s \in Side, NEW x \in RecId, NEW y \in RecId
        PROVE  joins.idx[s][<<x, y>>] \in -MaxJoinFq..MaxJoinFq
    <2>1. CASE Form[s] = "field"
      <3>1. joins.idx[s][<<x, y>>] = 0
        BY <2>1 DEF IInv, WF
      <3> QED BY <1>2, <3>1
    <2>2. CASE Form[s] = "index"
      <3>1. joins.idx[s][<<x, y>>] = W(joins, s, x, y)
        BY <2>2 DEF W
      <3>2. W(joins, s, x, y) \in Int /\ W(joins, s, x, y) >= 0 /\ W(joins, s, x, y) <= MaxJoinFq
        BY WIs DEF IInv, Fit, Pair
      <3> QED BY <1>2, <3>1, <3>2
    <2> QED BY <2>1, <2>2, FormIs
  <1>4. joins.idx \in [Side -> [RecId \X RecId -> -MaxJoinFq..MaxJoinFq]]
    <2>1. \A s \in Side : joins.idx[s] \in [RecId \X RecId -> -MaxJoinFq..MaxJoinFq]
      <3>1. SUFFICES ASSUME NEW s \in Side PROVE joins.idx[s] \in [RecId \X RecId -> -MaxJoinFq..MaxJoinFq]
        OBVIOUS
      <3>2. \A p \in RecId \X RecId : joins.idx[s][p] \in -MaxJoinFq..MaxJoinFq
        BY <1>3
      <3>3. joins.idx[s] \in [RecId \X RecId -> Int]
        BY <1>1
      <3> DEFINE f == joins.idx[s]
                 R == -MaxJoinFq..MaxJoinFq
      <3> HIDE DEF f, R
      <3>4. f \in [RecId \X RecId -> R]
        BY <3>2, <3>3 DEF f, R
      <3> QED BY <3>4 DEF f, R
    <2> QED BY <1>1, <2>1
  <1>5. joins \in [idx : [Side -> [RecId \X RecId -> -MaxJoinFq..MaxJoinFq]],
                   fld : [Side -> [RecId -> RecId \cup {None}]],
                   fq  : [Side -> [RecId -> 0..MaxJoinFq]]]
    BY <1>1, <1>4
  <1> QED BY <1>5 DEF JoinsTypeOK, IInv, RecsOK, LostOK

LEMMA JoinedIs ==
  ASSUME IInv, NEW s \in Side, NEW x \in RecId, NEW y \in RecId
  PROVE  /\ y \in JoinedWith(joins, s, x) <=> On(joins, s, x, y)
         /\ On(joins, Other[s], y, x) <=> On(joins, s, x, y)
         /\ On(joins, s, x, y) => JoinFq(joins, s, x, y) = W(joins, s, x, y)
  BY WIs DEF IInv, Fit, Pair, On

LEMMA SidesAre ==
  ASSUME IInv
  PROVE  SidesAgree /\ NoDangling
  <1>1. "J" \in Side /\ "K" \in Side /\ Other["J"] = "K" /\ Other["K"] = "J"
    BY DEF Side, Other
  <1>2. Symmetric
    BY <1>1, JoinedIs DEF Symmetric
  <1>3. SameFrequency
    <2>1. SUFFICES ASSUME NEW a \in RecId, NEW b \in RecId, b \in JoinedWith(joins, "J", a), a \in JoinedWith(joins, "K", b),
                          \A s \in Side : Form[s] = "index" \/ HasFq[s]
                   PROVE  JoinFq(joins, "J", a, b) = JoinFq(joins, "K", b, a)
      BY DEF SameFrequency
    <2>2. Knows
      BY <1>1, <2>1, FormIs DEF Knows, BothFields
    <2>3. W(joins, "J", a, b) = W(joins, "K", b, a)
      BY <1>1, <2>2 DEF IInv, Fit, Pair
    <2> QED BY <1>1, <2>1, <2>3, JoinedIs
  <1>4. NoDangling
    <2>1. SUFFICES ASSUME NEW s \in Side, NEW r \in RecId, NEW q \in JoinedWith(joins, s, r)
                   PROVE  q \in RecIds(Other[s]) /\ r \in RecIds(s)
      BY DEF NoDangling, IInv, LostOK
    <2>2. q \in RecId
      <3>1. joins.fld[s][r] \in RecId \cup {None}
        BY PartsAre DEF IInv, WF
      <3> QED BY <2>1, <3>1, FormIs DEF JoinedWith
    <2>3. On(joins, s, r, q)
      BY <2>1, <2>2, JoinedIs
    <2> QED BY <2>2, <2>3 DEF On, IInv, Fit, Exist
  <1> QED BY <1>2, <1>3, <1>4, TypeIs DEF SidesAgree

\* For any number of records, any frequencies and each pair of forms, used with care: a
\* record is joined with another exactly when the other is joined with it, as often as
\* far as both sides know, and neither names a record that is gone. A join with the id of
\* no record, which a refused nested record leaves, is told by neither side.
THEOREM SidesStayOne == ASSUME Careful PROVE JoinsSpec => [](SidesAgree /\ NoDangling)
  <1>1. JoinsSpec => []IInv
    BY InvIs
  <1>2. IInv => SidesAgree /\ NoDangling
    BY SidesAre
  <1> QED BY <1>1, <1>2, PTL

(***************************************************************************)
(* The two sides implement one relation.                                   *)
(***************************************************************************)
Pairs(j) == {p \in RecId \X RecId : On(j, "J", p[1], p[2])}

Fitting(j) == WF(j) /\ \A s \in Side, x, y \in RecId : Pair(j, s, x, y)

\* The relation as one side gives it, and as the model reads it.
Seen(s, x, y) == IF s = "J" THEN <<x, y>> ELSE <<y, x>>

LEMMA SeenIs ==
  ASSUME NEW j, Fitting(j), NEW s \in Side
  PROVE  /\ JoinedPairs(j) = Pairs(j)
         /\ \A x, y \in RecId : Seen(s, x, y) \in Pairs(j) <=> On(j, s, x, y)
  <1>1. "J" \in Side /\ "K" \in Side /\ Other["J"] = "K" /\ Other["K"] = "J" /\ (s = "J" \/ s = "K") /\ "K" # "J"
    BY DEF Side, Other
  <1>2. \A x, y \in RecId : y \in JoinedWith(j, "J", x) <=> On(j, "J", x, y)
    BY <1>1, WIs DEF Fitting, On
  <1>3. \A x, y \in RecId : On(j, "J", x, y) <=> On(j, "K", y, x)
    BY <1>1 DEF Fitting, Pair, On
  <1>4. JoinedPairs(j) = Pairs(j)
    <2>1. \A x \in RecId : JoinedWith(j, "J", x) \subseteq RecId
      <3>1. SUFFICES ASSUME NEW x \in RecId PROVE JoinedWith(j, "J", x) \subseteq RecId
        OBVIOUS
      <3>2. j.fld["J"][x] \in RecId \cup {None}
        BY <1>1, PartsAre DEF Fitting, WF
      <3> QED BY <3>2 DEF JoinedWith
    <2>2. \A p : p \in JoinedPairs(j) <=> \E x \in RecId : \E y \in JoinedWith(j, "J", x) : p = <<x, y>>
      <3>1. \A p : p \in JoinedPairs(j) <=> \E x \in RecId : p \in {x} \X JoinedWith(j, "J", x)
        BY DEF JoinedPairs
      <3>2. \A p, x : p \in {x} \X JoinedWith(j, "J", x) <=> \E y \in JoinedWith(j, "J", x) : p = <<x, y>>
        OBVIOUS
      <3> QED BY <3>1, <3>2
    <2>3. \A p : p \in Pairs(j) <=> \E x, y \in RecId : p = <<x, y>> /\ On(j, "J", x, y)
      BY DEF Pairs
    <2>4. \A p : p \in JoinedPairs(j) <=> p \in Pairs(j)
      BY <1>2, <2>1, <2>2, <2>3
    <2> QED BY <2>4
  <1>5. \A x, y \in RecId : <<x, y>> \in Pairs(j) <=> On(j, "J", x, y)
    BY DEF Pairs
  <1>6. \A x, y \in RecId : Seen(s, x, y) \in Pairs(j) <=> On(j, s, x, y)
    <2>1. CASE s = "J"
      BY <1>5, <2>1 DEF Seen
    <2>2. CASE s = "K"
      BY <1>1, <1>3, <1>5, <2>2 DEF Seen
    <2> QED BY <1>1, <2>1, <2>2
  <1> QED BY <1>4, <1>6

LEMMA SeenAll ==
  ASSUME NEW s \in Side, NEW p \in RecId \X RecId
  PROVE  \E x, y \in RecId : p = Seen(s, x, y)
  <1>1. PICK x \in RecId, y \in RecId : p = <<x, y>>
    OBVIOUS
  <1>2. p = Seen(s, x, y) \/ p = Seen(s, y, x)
    BY <1>1 DEF Seen
  <1> QED BY <1>2

\* A change of one of the four shapes is a step of the relation.
LEMMA ShapeIs ==
  ASSUME Fitting(joins), Fitting(joins'), Shape(joins, joins')
  PROVE  [AsLinks!Next]_(AsLinks!vars)
  <1> DEFINE L == Pairs(joins)
             M == Pairs(joins')
  <1>1. PICK s \in Side : \/ Kept(joins, joins', s) \/ Dropped(joins, joins', s)
                          \/ CutOff(joins, joins', s) \/ Linked(joins, joins', s)
    BY DEF Shape
  <1>2. JoinedPairs(joins) = L /\ JoinedPairs(joins') = M
    BY <1>1, SeenIs
  <1>3. \A x, y \in RecId : /\ Seen(s, x, y) \in L <=> On(joins, s, x, y)
                            /\ Seen(s, x, y) \in M <=> On(joins', s, x, y)
    BY SeenIs
  <1>4. L \in SUBSET (RecId \X RecId) /\ M \in SUBSET (RecId \X RecId) /\ \A x, y \in RecId : Seen(s, x, y) \in RecId \X RecId
    BY DEF Pairs, Seen
  <1>5. (s = "J" \/ s = "K") /\ "J" # "K" /\ Other["J"] = "K" /\ Other["K"] = "J"
    BY DEF Side, Other
  <1> HIDE DEF L, M
  <1>6. CASE Kept(joins, joins', s)
    <2>1. M = L
      <3>1. \A x, y \in RecId : Seen(s, x, y) \in M <=> Seen(s, x, y) \in L
        BY <1>3, <1>6 DEF Kept
      <3>2. \A p \in RecId \X RecId : p \in M <=> p \in L
        BY <3>1, SeenAll
      <3> QED BY <1>4, <3>2
    <2> QED BY <1>2, <2>1 DEF AsLinks!vars
  <1>7. CASE Dropped(joins, joins', s)
    <2>1. PICK D \in SUBSET RecId : \A x, y \in RecId : On(joins', s, x, y) <=> (On(joins, s, x, y) /\ x \notin D)
      BY <1>7 DEF Dropped
    <2>2. CASE s = "J"
      <3> DEFINE N == {l \in L : l[1] \notin D}
      <3>1. \A x, y \in RecId : Seen(s, x, y) \in N <=> Seen(s, x, y) \in L /\ x \notin D
        BY <2>2 DEF Seen
      <3>2. N \in SUBSET (RecId \X RecId)
        BY <1>4
      <3> HIDE DEF N
      <3>3. M = N
        <4>1. \A x, y \in RecId : Seen(s, x, y) \in M <=> Seen(s, x, y) \in N
          BY <1>3, <2>1, <3>1
        <4>2. M \in SUBSET (RecId \X RecId)
          BY <1>4
        <4>3. \A p \in RecId \X RecId : p \in M <=> p \in N
          BY <4>1, SeenAll
        <4> QED BY <3>2, <4>2, <4>3
      <3>4. AsLinks!DropA(D)
        BY <1>2, <3>3 DEF AsLinks!DropA, N
      <3> QED BY <3>4 DEF AsLinks!Next
    <2>3. CASE s = "K"
      <3> DEFINE N == {l \in L : l[2] \notin D}
      <3>1. \A x, y \in RecId : Seen(s, x, y) \in N <=> Seen(s, x, y) \in L /\ x \notin D
        BY <1>5, <2>3 DEF Seen
      <3>2. N \in SUBSET (RecId \X RecId)
        BY <1>4
      <3> HIDE DEF N
      <3>3. M = N
        <4>1. \A x, y \in RecId : Seen(s, x, y) \in M <=> Seen(s, x, y) \in N
          BY <1>3, <2>1, <3>1
        <4>2. M \in SUBSET (RecId \X RecId)
          BY <1>4
        <4>3. \A p \in RecId \X RecId : p \in M <=> p \in N
          BY <4>1, SeenAll
        <4> QED BY <3>2, <4>2, <4>3
      <3>4. AsLinks!DropB(D)
        BY <1>2, <3>3 DEF AsLinks!DropB, N
      <3> QED BY <3>4 DEF AsLinks!Next
    <2> QED BY <1>5, <2>2, <2>3
  <1>8. CASE CutOff(joins, joins', s)
    <2>1. PICK r \in RecId, q \in RecId :
             \A x, y \in RecId : On(joins', s, x, y) <=> (On(joins, s, x, y) /\ ~(x = r /\ y = q))
      BY <1>8 DEF CutOff
    <2> DEFINE N == L \ {Seen(s, r, q)}
    <2>2. \A x, y \in RecId : Seen(s, x, y) \in N <=> Seen(s, x, y) \in L /\ ~(x = r /\ y = q)
      BY DEF Seen
    <2>3. N \in SUBSET (RecId \X RecId)
      BY <1>4
    <2> HIDE DEF N
    <2>4. M = N
      <3>1. \A x, y \in RecId : Seen(s, x, y) \in M <=> Seen(s, x, y) \in N
        BY <1>3, <2>1, <2>2
      <3>2. \A p \in RecId \X RecId : p \in M <=> p \in N
        BY <3>1, SeenAll
      <3> QED BY <1>4, <2>3, <3>2
    <2>5. AsLinks!Cut(Seen(s, r, q))
      BY <1>2, <2>4 DEF AsLinks!Cut, N
    <2>6. Seen(s, r, q) \in RecId \X RecId
      BY <1>4
    <2> QED BY <2>5, <2>6 DEF AsLinks!Next
  <1>9. CASE Linked(joins, joins', s)
    <2>1. PICK r \in RecId, S \in SUBSET RecId :
            /\ Form[s] = "field" => \A y, z \in S : y = z
            /\ \A x, y \in RecId : On(joins', s, x, y) <=>
                 ((x = r /\ y \in S) \/ (On(joins, s, x, y) /\ ~GivesWay(s, r, S, x, y)))
      BY <1>9 DEF Linked
    <2>2. CASE s = "J"
      <3> DEFINE P == {r} \X S
                 F == {l \in L : \E p \in P : \/ Form["J"] = "field" /\ l[1] = p[1] /\ l[2] # p[2]
                                              \/ Form["K"] = "field" /\ l[2] = p[2] /\ l[1] # p[1]}
                 N == (L \ F) \cup P
      <3>1. \A x, y \in RecId : Seen(s, x, y) \in P <=> x = r /\ y \in S
        BY <2>2 DEF Seen
      <3>2. \A x, y \in RecId : Seen(s, x, y) \in F <=> Seen(s, x, y) \in L /\ GivesWay(s, r, S, x, y)
        <4>1. ASSUME NEW l
              PROVE  (\E p \in P : \/ Form["J"] = "field" /\ l[1] = p[1] /\ l[2] # p[2]
                                   \/ Form["K"] = "field" /\ l[2] = p[2] /\ l[1] # p[1])
                       <=> \E z \in S : (Form["J"] = "field" /\ l[1] = r /\ l[2] # z) \/ (Form["K"] = "field" /\ l[2] = z /\ l[1] # r)
          <5>1. \A z \in S : <<r, z>> \in P /\ <<r, z>>[1] = r /\ <<r, z>>[2] = z
            OBVIOUS
          <5>2. \A p \in P : p[1] = r /\ p[2] \in S
            OBVIOUS
          <5> HIDE DEF P
          <5> QED BY <5>1, <5>2
        <4>2. \A l : l \in F <=> l \in L /\ \E z \in S : (Form["J"] = "field" /\ l[1] = r /\ l[2] # z) \/ (Form["K"] = "field" /\ l[2] = z /\ l[1] # r)
          <5> HIDE DEF P
          <5> QED BY <4>1
        <4>3. \A x, y \in RecId : Seen(s, x, y)[1] = x /\ Seen(s, x, y)[2] = y
          BY <1>5, <2>2 DEF Seen
        <4> HIDE DEF P, F
        <4> QED BY <1>5, <2>2, <4>2, <4>3 DEF GivesWay
      <3>3. N \in SUBSET (RecId \X RecId)
        BY <1>4
      <3>4. \A x, y \in RecId : Seen(s, x, y) \in N <=>
              ((x = r /\ y \in S) \/ (Seen(s, x, y) \in L /\ ~GivesWay(s, r, S, x, y)))
        <4> HIDE DEF F, P
        <4> QED BY <3>1, <3>2
      <3>5. \A l, m \in P : (Form["J"] = "field" /\ l[1] = m[1]) \/ (Form["K"] = "field" /\ l[2] = m[2]) => l = m
        BY <2>1, <2>2
      <3> HIDE DEF N, P, F
      <3>6. M = N
        <4>1. \A x, y \in RecId : Seen(s, x, y) \in M <=> Seen(s, x, y) \in N
          BY <1>3, <2>1, <3>4
        <4>2. M \in SUBSET (RecId \X RecId)
          BY <1>4
        <4>3. \A p \in RecId \X RecId : p \in M <=> p \in N
          BY <4>1, SeenAll
        <4> QED BY <3>3, <4>2, <4>3
      <3>7. AsLinks!Link(P)
        BY <1>2, <3>5, <3>6 DEF AsLinks!Link, AsLinks!Fit, AsLinks!Displaced, N, F
      <3> QED BY <3>7 DEF AsLinks!Next, P
    <2>3. CASE s = "K"
      <3> DEFINE P == S \X {r}
                 F == {l \in L : \E p \in P : \/ Form["J"] = "field" /\ l[1] = p[1] /\ l[2] # p[2]
                                              \/ Form["K"] = "field" /\ l[2] = p[2] /\ l[1] # p[1]}
                 N == (L \ F) \cup P
      <3>1. \A x, y \in RecId : Seen(s, x, y) \in P <=> x = r /\ y \in S
        BY <1>5, <2>3 DEF Seen
      <3>2. \A x, y \in RecId : Seen(s, x, y) \in F <=> Seen(s, x, y) \in L /\ GivesWay(s, r, S, x, y)
        <4>1. ASSUME NEW l
              PROVE  (\E p \in P : \/ Form["J"] = "field" /\ l[1] = p[1] /\ l[2] # p[2]
                                   \/ Form["K"] = "field" /\ l[2] = p[2] /\ l[1] # p[1])
                       <=> \E z \in S : (Form["J"] = "field" /\ l[1] = z /\ l[2] # r) \/ (Form["K"] = "field" /\ l[2] = r /\ l[1] # z)
          <5>1. \A z \in S : <<z, r>> \in P /\ <<z, r>>[1] = z /\ <<z, r>>[2] = r
            OBVIOUS
          <5>2. \A p \in P : p[2] = r /\ p[1] \in S
            OBVIOUS
          <5> HIDE DEF P
          <5> QED BY <5>1, <5>2
        <4>2. \A l : l \in F <=> l \in L /\ \E z \in S : (Form["J"] = "field" /\ l[1] = z /\ l[2] # r) \/ (Form["K"] = "field" /\ l[2] = r /\ l[1] # z)
          <5> HIDE DEF P
          <5> QED BY <4>1
        <4>3. \A x, y \in RecId : Seen(s, x, y)[1] = y /\ Seen(s, x, y)[2] = x
          BY <1>5, <2>3 DEF Seen
        <4> HIDE DEF P, F
        <4> QED BY <1>5, <2>3, <4>2, <4>3 DEF GivesWay
      <3>3. N \in SUBSET (RecId \X RecId)
        BY <1>4
      <3>4. \A x, y \in RecId : Seen(s, x, y) \in N <=>
              ((x = r /\ y \in S) \/ (Seen(s, x, y) \in L /\ ~GivesWay(s, r, S, x, y)))
        <4> HIDE DEF F, P
        <4> QED BY <3>1, <3>2
      <3>5. \A l, m \in P : (Form["J"] = "field" /\ l[1] = m[1]) \/ (Form["K"] = "field" /\ l[2] = m[2]) => l = m
        BY <2>1, <2>3
      <3> HIDE DEF N, P, F
      <3>6. M = N
        <4>1. \A x, y \in RecId : Seen(s, x, y) \in M <=> Seen(s, x, y) \in N
          BY <1>3, <2>1, <3>4
        <4>2. M \in SUBSET (RecId \X RecId)
          BY <1>4
        <4>3. \A p \in RecId \X RecId : p \in M <=> p \in N
          BY <4>1, SeenAll
        <4> QED BY <3>3, <4>2, <4>3
      <3>7. AsLinks!Link(P)
        BY <1>2, <3>5, <3>6 DEF AsLinks!Link, AsLinks!Fit, AsLinks!Displaced, N, F
      <3> QED BY <3>7 DEF AsLinks!Next, P
    <2> QED BY <1>5, <2>2, <2>3
  <1> QED BY <1>1, <1>6, <1>7, <1>8, <1>9

LEMMA FirstIsLinks ==
  ASSUME JoinsInit
  PROVE  IInv /\ AsLinks!Init
  <1> SUFFICES JoinedPairs(joins) = {}
    BY InitIs DEF AsLinks!Init
  <1>2. IInv /\ \A x, y \in RecId : ~On(joins, "J", x, y)
    BY InitIs DEF Side
  <1>3. Fitting(joins) /\ "J" \in Side
    BY <1>2 DEF IInv, Fit, Fitting, Side
  <1> QED BY <1>2, <1>3, SeenIs DEF Pairs

LEMMA StepIsLinks ==
  ASSUME Careful, IInv, [JoinsNext]_joinsVars
  PROVE  IInv' /\ [AsLinks!Next]_(AsLinks!vars)
  <1>1. IInv'
    BY StepIs, Stutters
  <1>2. CASE JoinsNext
    <2>1. Fitting(joins) /\ Fitting(joins')
      BY <1>1 DEF IInv, Fit, Fitting
    <2>2. Shape(joins, joins')
      BY <1>1, <1>2, StepIs
    <2> QED BY <1>1, <2>1, <2>2, ShapeIs
  <1>3. CASE UNCHANGED joinsVars
    BY <1>1, <1>3 DEF joinsVars, AsLinks!vars, JoinedPairs, JoinedWith
  <1> QED BY <1>1, <1>2, <1>3

\* Used with care, a join and its inverse are one relation between the records, whatever
\* their forms: every call extends it, cuts one pair of it, or takes deleted records out.
THEOREM JoinsAreLinks == ASSUME Careful PROVE JoinsSpec => ImplementsLinks
  <1>1. JoinsSpec => []IInv
    BY InvIs
  <1> QED BY <1>1, FirstIsLinks, StepIsLinks, PTL DEF JoinsSpec, ImplementsLinks, AsLinks!Spec

LEMMA OnePairIsCut ==
  ASSUME Careful, IInv
  PROVE  CutsOneStep
  <1>1. SUFFICES ASSUME NEW s \in Side, NEW r \in RecId, NEW q \in RecId, NEW n \in DelFqs, DeleteJoinOf(s, r, q, n),
                        NEW x \in RecId, NEW y \in RecId, y \in JoinedWith(joins, s, x), <<x, y>> # <<r, q>>
                 PROVE  y \in JoinedWith(joins', s, x)
    BY DEF CutsOneStep
  <1>3. WF(joins') /\ Same(joins, joins', s, x, y)
    BY <1>1, DeletedIs
  <1>4. W(joins, s, x, y) > 0
    BY <1>1, WIs DEF IInv
  <1>5. W(joins', s, x, y) > 0
    BY <1>3, <1>4 DEF Same
  <1> QED BY <1>3, <1>5, WIs

\* Taking a pair apart leaves every other pair as it was, though the other side is cleared
\* whatever it points to and a field join is cleared with any frequency.
THEOREM OnlyOneIsCut == ASSUME Careful PROVE JoinsSpec => CutsOne
  <1>1. JoinsSpec => []IInv
    BY InvIs
  <1>2. IInv => CutsOneStep
    BY OnePairIsCut
  <1> QED BY <1>1, <1>2, PTL DEF JoinsSpec, CutsOne
=============================================================================
