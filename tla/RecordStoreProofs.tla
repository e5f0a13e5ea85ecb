--------------------------- MODULE RecordStoreProofs ---------------------------
(***************************************************************************)
(* Proofs about record stores, for any fields, keys, values and JSON       *)
(* records: used carefully, a store keeps its two storages, its index, its *)
(* primary map and its codebook in step.                                   *)
(*                                                                         *)
(* The two storages are seen as one function from ids to records, Recs.    *)
(* Every operation adds a record, changes one, or drops the first ones;    *)
(* what that means for the storages, for the index and for the primary map *)
(* is proved once each, of any functions.                                  *)
(*                                                                         *)
(* At the end, the storages of the checked instance, by what StorageProofs *)
(* shows of them, and the time window over the records of a store          *)
(* (WinBuf).                                                               *)
(***************************************************************************)
EXTENDS MCRecordStore, FiniteSetTheorems, TLAPS

\* A part of a record, and a storage of such parts.
Part(fields) == [fields -> Value \cup {Null}]
Storage(fields) == [first : Nat, vals : Seq(Part(fields))]

(***************************************************************************)
(* The storages.                                                           *)
(***************************************************************************)
LEMMA IdsAre ==
  ASSUME NEW F, NEW st \in Storage(F), NEW r
  PROVE  /\ st.first \in Nat /\ st.vals \in Seq(Part(F)) /\ Len(st.vals) \in Nat
         /\ r \in IdsOf(st) <=> r \in Int /\ st.first <= r /\ r < st.first + Len(st.vals)
         /\ r \in IdsOf(st) => r - st.first + 1 \in 1..Len(st.vals)
  <1>1. st.first \in Nat /\ st.vals \in Seq(Part(F))
    BY DEF Storage
  <1>2. Len(st.vals) \in Nat
    BY <1>1
  <1> QED BY <1>1, <1>2 DEF IdsOf

LEMMA AddValFacts ==
  ASSUME NEW F, NEW st \in Storage(F), NEW p \in Part(F)
  PROVE  /\ AddVal(st, p) \in Storage(F)
         /\ AddVal(st, p).first = st.first /\ Len(AddVal(st, p).vals) = Len(st.vals) + 1
         /\ IdsOf(AddVal(st, p)) = IdsOf(st) \cup {NextId(st)} /\ NextId(st) \notin IdsOf(st)
         /\ GetVal(AddVal(st, p), NextId(st)) = p
         /\ \A r \in IdsOf(st) : GetVal(AddVal(st, p), r) = GetVal(st, r)
  <1> DEFINE a == AddVal(st, p)
  <1>1. a.first = st.first /\ a.vals = Append(st.vals, p)
    BY DEF AddVal
  <1>2. st.first \in Nat /\ st.vals \in Seq(Part(F)) /\ Len(st.vals) \in Nat
    BY IdsAre
  <1>3. /\ Append(st.vals, p) \in Seq(Part(F)) /\ Len(Append(st.vals, p)) = Len(st.vals) + 1
        /\ Append(st.vals, p)[Len(st.vals) + 1] = p
        /\ \A n \in 1..Len(st.vals) : Append(st.vals, p)[n] = st.vals[n]
    BY <1>2
  <1>4. a \in Storage(F)
    BY <1>2, <1>3 DEF AddVal, Storage
  <1>5. ASSUME NEW r PROVE r \in IdsOf(a) <=> r \in IdsOf(st) \/ r = NextId(st)
    <2>1. r \in IdsOf(a) <=> r \in Int /\ st.first <= r /\ r < st.first + (Len(st.vals) + 1)
      BY <1>1, <1>3, <1>4, IdsAre
    <2> QED BY <1>2, <2>1, IdsAre DEF NextId
  <1>6. NextId(st) \notin IdsOf(st)
    BY <1>2, IdsAre DEF NextId
  <1>7. GetVal(a, NextId(st)) = p
    <2>1. NextId(st) - st.first + 1 = Len(st.vals) + 1
      BY <1>2 DEF NextId
    <2> QED BY <1>1, <1>3, <2>1 DEF GetVal
  <1>8. ASSUME NEW r \in IdsOf(st) PROVE GetVal(a, r) = GetVal(st, r)
    BY <1>1, <1>3, IdsAre DEF GetVal
  <1> QED BY <1>1, <1>3, <1>4, <1>5, <1>6, <1>7, <1>8

LEMMA SetValFacts ==
  ASSUME NEW F, NEW st \in Storage(F), NEW p \in Part(F), NEW r \in IdsOf(st)
  PROVE  /\ SetVal(st, r, p) \in Storage(F)
         /\ SetVal(st, r, p).first = st.first /\ Len(SetVal(st, r, p).vals) = Len(st.vals)
         /\ IdsOf(SetVal(st, r, p)) = IdsOf(st)
         /\ GetVal(SetVal(st, r, p), r) = p
         /\ \A s \in IdsOf(st) \ {r} : GetVal(SetVal(st, r, p), s) = GetVal(st, s)
  <1> DEFINE i == r - st.first + 1
             v == [st.vals EXCEPT ![i] = p]
             a == SetVal(st, r, p)
  <1>1. a.first = st.first /\ a.vals = v
    BY DEF SetVal
  <1>2. /\ st.first \in Nat /\ st.vals \in Seq(Part(F)) /\ Len(st.vals) \in Nat
        /\ r \in Int /\ i \in 1..Len(st.vals)
    BY IdsAre
  <1>3. v \in Seq(Part(F)) /\ Len(v) = Len(st.vals) /\ v[i] = p
    BY <1>2
  <1>4. \A n \in 1..Len(st.vals) : n # i => v[n] = st.vals[n]
    BY <1>2
  <1>5. a \in Storage(F)
    BY <1>2, <1>3 DEF SetVal, Storage
  <1>6. IdsOf(a) = IdsOf(st)
    BY <1>1, <1>3 DEF IdsOf
  <1>7. ASSUME NEW s \in IdsOf(st) \ {r} PROVE GetVal(a, s) = GetVal(st, s)
    <2>1. s \in Int /\ s # r /\ s - st.first + 1 \in 1..Len(st.vals)
      BY IdsAre
    <2>2. s - st.first + 1 # i
      BY <1>2, <2>1
    <2> QED BY <1>1, <1>4, <2>1, <2>2 DEF GetVal
  <1> QED BY <1>1, <1>3, <1>5, <1>6, <1>7 DEF GetVal

LEMMA DelValsFacts ==
  ASSUME NEW F, NEW st \in Storage(F), NEW n \in Nat, n <= Len(st.vals)
  PROVE  /\ DelVals(st, n) \in Storage(F)
         /\ DelVals(st, n).first = st.first + n /\ Len(DelVals(st, n).vals) = Len(st.vals) - n
         /\ IdsOf(DelVals(st, n)) = IdsOf(st) \ (st.first..st.first + n - 1)
         /\ \A r \in IdsOf(DelVals(st, n)) : GetVal(DelVals(st, n), r) = GetVal(st, r)
  <1> DEFINE v == SubSeq(st.vals, n + 1, Len(st.vals))
             a == DelVals(st, n)
  <1>1. st.first \in Nat /\ st.vals \in Seq(Part(F)) /\ Len(st.vals) \in Nat
    BY IdsAre
  <1>2. a = [first |-> st.first + n, vals |-> v]
    BY <1>1 DEF DelVals, Lesser
  <1>3. /\ v \in Seq(Part(F)) /\ Len(v) = Len(st.vals) - n
        /\ \A i \in 1..Len(st.vals) - n : v[i] = st.vals[n + i]
    BY <1>1
  <1>4. a \in Storage(F) /\ a.first = st.first + n /\ a.vals = v
    <2> HIDE DEF v
    <2> QED BY <1>1, <1>2, <1>3 DEF Storage
  <1>5. ASSUME NEW r PROVE r \in IdsOf(a) <=> r \in IdsOf(st) /\ r \notin st.first..st.first + n - 1
    <2>1. r \in IdsOf(a) <=> r \in Int /\ st.first + n <= r /\ r < (st.first + n) + (Len(st.vals) - n)
      BY <1>3, <1>4, IdsAre
    <2> QED BY <1>1, <2>1, IdsAre
  <1>6. ASSUME NEW r \in IdsOf(a) PROVE GetVal(a, r) = GetVal(st, r)
    <2> HIDE DEF a, v
    <2>1. /\ r \in Int /\ r - (st.first + n) + 1 \in 1..Len(st.vals) - n
      BY <1>1, <1>3, <1>4, <1>6, IdsAre
    <2>2. n + (r - (st.first + n) + 1) = r - st.first + 1
      BY <1>1, <2>1
    <2>3. GetVal(a, r) = v[r - (st.first + n) + 1] /\ GetVal(st, r) = st.vals[r - st.first + 1]
      BY <1>4 DEF GetVal
    <2>4. v[r - (st.first + n) + 1] = st.vals[n + (r - (st.first + n) + 1)]
      BY <1>3, <2>1
    <2> QED BY <2>2, <2>3, <2>4
  <1> QED BY <1>3, <1>4, <1>5, <1>6

(***************************************************************************)
(* The two storages as one function from ids to records.                   *)
(***************************************************************************)
RecsOf(dc, dm) ==
  [r \in IdsOf(IF DataMemP THEN dm ELSE dc) |->
     [f \in Field |-> IF f \in Disk THEN GetVal(dc, r)[f] ELSE GetVal(dm, r)[f]]]
Aligned(dc, dm) ==
  /\ dc \in Storage(Disk) /\ dm \in Storage(Memory)
  /\ DataCacheP /\ DataMemP => dc.first = dm.first /\ Len(dc.vals) = Len(dm.vals)

\* A record from its two parts, and records with one more, another, or some less.
Cut(x, fields) == [f \in fields |-> x[f]]
Joined(d, m) == [f \in Field |-> IF f \in Disk THEN d[f] ELSE m[f]]
With(V, n, x) == [r \in DOMAIN V \cup {n} |-> IF r = n THEN x ELSE V[r]]
Changed(V, r, x) == [V EXCEPT ![r] = x]
Without(V, gone) == [r \in DOMAIN V \ gone |-> V[r]]

LEMMA SameIds ==
  ASSUME NEW dc, NEW dm, Aligned(dc, dm)
  PROVE  /\ DataCacheP => DOMAIN RecsOf(dc, dm) = IdsOf(dc)
         /\ DataMemP => DOMAIN RecsOf(dc, dm) = IdsOf(dm)
  BY DEF Aligned, RecsOf, IdsOf

\* Where storages have the same ids, and one value or its neighbour in both, they have the same records.
LEMMA SameRecs ==
  ASSUME NEW dc, NEW dm, NEW r \in DOMAIN RecsOf(dc, dm),
         NEW dc2, NEW dm2, NEW s \in DOMAIN RecsOf(dc2, dm2),
         DataCacheP => GetVal(dc2, s) = GetVal(dc, r), DataMemP => GetVal(dm2, s) = GetVal(dm, r)
  PROVE  RecsOf(dc2, dm2)[s] = RecsOf(dc, dm)[r]
  BY DEF RecsOf, Field, DataCacheP, DataMemP

\* AddRec stores a part in each storage there is.
LEMMA RecordAdded ==
  ASSUME Field # {}, NEW dc, NEW dm, Aligned(dc, dm), NEW d \in Part(Disk), NEW m \in Part(Memory),
         NEW dc2, DataCacheP => dc2 = AddVal(dc, d), ~DataCacheP => dc2 = dc,
         NEW dm2, DataMemP => dm2 = AddVal(dm, m), ~DataMemP => dm2 = dm
  PROVE  LET n == NextId(IF DataMemP THEN dm ELSE dc)
         IN /\ Aligned(dc2, dm2) /\ n \notin DOMAIN RecsOf(dc, dm)
            /\ IdsOf(dc2) \subseteq IdsOf(dc) \cup {NextId(dc)}
            /\ IdsOf(dm2) \subseteq IdsOf(dm) \cup {NextId(dm)}
            /\ RecsOf(dc2, dm2) = With(RecsOf(dc, dm), n, Joined(d, m))
  <1> DEFINE n == NextId(IF DataMemP THEN dm ELSE dc)
             V == RecsOf(dc, dm)
             W == RecsOf(dc2, dm2)
  <1>1. /\ Aligned(dc2, dm2)
        /\ DataCacheP => n = NextId(dc) /\ IdsOf(dc2) = IdsOf(dc) \cup {n} /\ n \notin IdsOf(dc)
                         /\ GetVal(dc2, n) = d /\ \A r \in IdsOf(dc) : GetVal(dc2, r) = GetVal(dc, r)
        /\ DataMemP => n = NextId(dm) /\ IdsOf(dm2) = IdsOf(dm) \cup {n} /\ n \notin IdsOf(dm)
                       /\ GetVal(dm2, n) = m /\ \A r \in IdsOf(dm) : GetVal(dm2, r) = GetVal(dm, r)
    BY AddValFacts DEF Aligned, NextId
  <1>2. DataCacheP \/ DataMemP
    BY DEF DataCacheP, DataMemP, Field
  <1>3. DOMAIN W = DOMAIN V \cup {n} /\ n \notin DOMAIN V
    BY <1>1, <1>2, SameIds
  <1>4. ASSUME NEW r \in DOMAIN V PROVE W[r] = V[r]
    BY <1>1, <1>3, SameIds, SameRecs
  <1>5. W[n] = [f \in Field |-> IF f \in Disk THEN d[f] ELSE m[f]]
    BY <1>1, <1>3 DEF RecsOf, Field, DataCacheP, DataMemP
  <1>6. W = [r \in DOMAIN W |-> W[r]]
    BY DEF RecsOf
  <1> HIDE DEF V, W, n
  <1>7. W = [r \in DOMAIN V \cup {n} |-> IF r = n THEN [f \in Field |-> IF f \in Disk THEN d[f] ELSE m[f]] ELSE V[r]]
    BY <1>3, <1>4, <1>5, <1>6
  <1>8. /\ IdsOf(dc2) \subseteq IdsOf(dc) \cup {NextId(dc)}
        /\ IdsOf(dm2) \subseteq IdsOf(dm) \cup {NextId(dm)}
    BY <1>1
  <1> QED BY <1>1, <1>3, <1>7, <1>8 DEF V, W, n, With, Joined

\* An update writes one record in one storage or both.
LEMMA RecordChanged ==
  ASSUME NEW dc, NEW dm, Aligned(dc, dm), NEW r \in DOMAIN RecsOf(dc, dm),
         NEW x \in [Field -> Value \cup {Null}],
         NEW dc2, NEW dm2,
         DataCacheP => \/ dc2 = SetVal(dc, r, Cut(x, Disk))
                       \/ dc2 = dc /\ \A f \in Disk : x[f] = GetVal(dc, r)[f],
         DataMemP => \/ dm2 = SetVal(dm, r, Cut(x, Memory))
                     \/ dm2 = dm /\ \A f \in Memory : x[f] = GetVal(dm, r)[f],
         ~DataCacheP => dc2 = dc, ~DataMemP => dm2 = dm
  PROVE  /\ Aligned(dc2, dm2) /\ RecsOf(dc2, dm2) = Changed(RecsOf(dc, dm), r, x)
         /\ IdsOf(dc2) = IdsOf(dc) /\ IdsOf(dm2) = IdsOf(dm)
  <1> DEFINE V == RecsOf(dc, dm)
             W == RecsOf(dc2, dm2)
             d == Cut(x, Disk)
             m == Cut(x, Memory)
  <1>0. /\ d \in Part(Disk) /\ \A f \in Disk : d[f] = x[f]
        /\ m \in Part(Memory) /\ \A f \in Memory : m[f] = x[f]
    BY DEF Part, Field, Cut
  <1>1. DataCacheP => /\ dc2 \in Storage(Disk) /\ dc2.first = dc.first /\ Len(dc2.vals) = Len(dc.vals)
                      /\ \A f \in Disk : GetVal(dc2, r)[f] = x[f]
                      /\ \A s \in IdsOf(dc) \ {r} : GetVal(dc2, s) = GetVal(dc, s)
    BY <1>0, SetValFacts, SameIds DEF Aligned
  <1>2. DataMemP => /\ dm2 \in Storage(Memory) /\ dm2.first = dm.first /\ Len(dm2.vals) = Len(dm.vals)
                    /\ \A f \in Memory : GetVal(dm2, r)[f] = x[f]
                    /\ \A s \in IdsOf(dm) \ {r} : GetVal(dm2, s) = GetVal(dm, s)
    BY <1>0, SetValFacts, SameIds DEF Aligned
  <1>3. Aligned(dc2, dm2)
    BY <1>1, <1>2 DEF Aligned
  <1>4. DOMAIN W = DOMAIN V
    BY <1>1, <1>2 DEF RecsOf, IdsOf, Aligned
  <1>5. ASSUME NEW s \in DOMAIN V, s # r PROVE W[s] = V[s]
    BY <1>1, <1>2, <1>4, <1>5, SameIds, SameRecs
  <1>6. W[r] = x
    <2>1. W[r] = [f \in Field |-> x[f]]
      BY <1>1, <1>2, <1>4 DEF RecsOf, Field, DataCacheP, DataMemP
    <2> QED BY <2>1
  <1>7. W = [s \in DOMAIN W |-> W[s]] /\ V = [s \in DOMAIN V |-> V[s]]
    BY DEF RecsOf
  <1> HIDE DEF V, W
  <1>8. W = [V EXCEPT ![r] = x]
    BY <1>4, <1>5, <1>6, <1>7
  <1>9. IdsOf(dc2) = IdsOf(dc) /\ IdsOf(dm2) = IdsOf(dm)
    BY <1>1, <1>2 DEF IdsOf
  <1> QED BY <1>3, <1>8, <1>9 DEF V, W, Changed

\* Both storages forget their first n values.
LEMMA RecordsDropped ==
  ASSUME NEW dc, NEW dm, Aligned(dc, dm), NEW n \in Nat,
         NEW dc2, NEW dm2,
         IF DataCacheP THEN n <= Len(dc.vals) /\ dc2 = DelVals(dc, n) ELSE dc2 \in Storage(Disk),
         IF DataMemP THEN n <= Len(dm.vals) /\ dm2 = DelVals(dm, n) ELSE dm2 \in Storage(Memory),
         ~DataCacheP /\ ~DataMemP => IdsOf(dc) = {} /\ dc2 = dc
  PROVE  LET main == IF DataMemP THEN dm ELSE dc
         IN /\ Aligned(dc2, dm2)
            /\ RecsOf(dc2, dm2) = Without(RecsOf(dc, dm), main.first..main.first + n - 1)
  <1> DEFINE V == RecsOf(dc, dm)
             W == RecsOf(dc2, dm2)
             main == IF DataMemP THEN dm ELSE dc
             gone == main.first..main.first + n - 1
  <1>1. DataCacheP => /\ dc2 \in Storage(Disk) /\ dc2.first = dc.first + n /\ Len(dc2.vals) = Len(dc.vals) - n
                      /\ IdsOf(dc2) = IdsOf(dc) \ (dc.first..dc.first + n - 1)
                      /\ \A r \in IdsOf(dc2) : GetVal(dc2, r) = GetVal(dc, r)
    <2>1. DataCacheP => dc \in Storage(Disk) /\ n <= Len(dc.vals) /\ dc2 = DelVals(dc, n)
      BY DEF Aligned
    <2>2. dc \in Storage(Disk) /\ n <= Len(dc.vals) =>
            /\ DelVals(dc, n) \in Storage(Disk) /\ DelVals(dc, n).first = dc.first + n
            /\ Len(DelVals(dc, n).vals) = Len(dc.vals) - n
            /\ IdsOf(DelVals(dc, n)) = IdsOf(dc) \ (dc.first..dc.first + n - 1)
            /\ \A r \in IdsOf(DelVals(dc, n)) : GetVal(DelVals(dc, n), r) = GetVal(dc, r)
      BY DelValsFacts
    <2> QED BY <2>1, <2>2
  <1>2. DataMemP => /\ dm2 \in Storage(Memory) /\ dm2.first = dm.first + n /\ Len(dm2.vals) = Len(dm.vals) - n
                    /\ IdsOf(dm2) = IdsOf(dm) \ (dm.first..dm.first + n - 1)
                    /\ \A r \in IdsOf(dm2) : GetVal(dm2, r) = GetVal(dm, r)
    <2>1. DataMemP => dm \in Storage(Memory) /\ n <= Len(dm.vals) /\ dm2 = DelVals(dm, n)
      BY DEF Aligned
    <2>2. dm \in Storage(Memory) /\ n <= Len(dm.vals) =>
            /\ DelVals(dm, n) \in Storage(Memory) /\ DelVals(dm, n).first = dm.first + n
            /\ Len(DelVals(dm, n).vals) = Len(dm.vals) - n
            /\ IdsOf(DelVals(dm, n)) = IdsOf(dm) \ (dm.first..dm.first + n - 1)
            /\ \A r \in IdsOf(DelVals(dm, n)) : GetVal(DelVals(dm, n), r) = GetVal(dm, r)
      BY DelValsFacts
    <2> QED BY <2>1, <2>2
  <1>3. Aligned(dc2, dm2)
    BY <1>1, <1>2 DEF Aligned
  <1>4. DOMAIN W = DOMAIN V \ gone
    <2>1. CASE DataMemP
      BY <1>2, <2>1 DEF RecsOf
    <2>2. CASE DataCacheP /\ ~DataMemP
      BY <1>1, <2>2 DEF RecsOf
    <2>3. CASE ~DataCacheP /\ ~DataMemP
      BY <2>3 DEF RecsOf
    <2> QED BY <2>1, <2>2, <2>3
  <1>5. ASSUME NEW r \in DOMAIN W PROVE W[r] = V[r]
    <2>1. r \in DOMAIN V
      BY <1>4
    <2> QED BY <1>1, <1>2, <1>3, <2>1, SameIds, SameRecs
  <1>6. W = [r \in DOMAIN W |-> W[r]]
    BY DEF RecsOf
  <1> HIDE DEF V, W, gone
  <1>7. W = [r \in DOMAIN V \ gone |-> V[r]]
    BY <1>4, <1>5, <1>6
  <1> QED BY <1>3, <1>7 DEF V, W, gone, Without

(***************************************************************************)
(* The index of any records V.  The fields of a record that is being added *)
(* are None until they are indexed: no item is about None.                 *)
(***************************************************************************)
Has(V, item) == item[3] \in DOMAIN V /\ V[item[3]][Keys[item[1]]] = item[2]
Exact(idx, V) ==
  idx \in [Item -> Nat] /\ \A item \in Item : idx[item] = IF Has(V, item) THEN 1 ELSE 0

LEMMA ItemIs ==
  ASSUME NEW item \in Item
  PROVE  /\ item[1] \in DOMAIN Keys /\ item[2] \in Value /\ item[3] \in Id
         /\ item[2] # None /\ Keys[item[1]] \in Field
  BY StoreAssumption DEF Item

\* Each key on a field that may change is told what it was and what it is.
LEMMA IndexedExact ==
  ASSUME NEW V, NEW idx, Exact(idx, V), NEW r \in DOMAIN V, NEW x, NEW was, NEW is,
         \A k \in DOMAIN Keys : \/ was[k] = V[r][Keys[k]] /\ is[k] = x[Keys[k]]
                                \/ was[k] = None /\ is[k] = None /\ V[r][Keys[k]] = x[Keys[k]]
  PROVE  Exact(Indexed(idx, r, was, is), Changed(V, r, x))
  <1> DEFINE W == Changed(V, r, x)
             new == Indexed(idx, r, was, is)
  <1>1. DOMAIN new = Item /\ DOMAIN W = DOMAIN V /\ W[r] = x /\ \A s \in DOMAIN V : s # r => W[s] = V[s]
    BY DEF Indexed, Changed
  <1>2. ASSUME NEW item \in Item PROVE new[item] = IF Has(W, item) THEN 1 ELSE 0
    <2>1. idx[item] = IF Has(V, item) THEN 1 ELSE 0
      BY DEF Exact
    <2>2. CASE item[3] # r
      <3>1. new[item] = idx[item]
        BY <2>2 DEF Indexed
      <3>2. Has(W, item) <=> Has(V, item)
        BY <1>1, <2>2 DEF Has
      <3> QED BY <2>1, <3>1, <3>2
    <2>3. CASE item[3] = r
      <3> DEFINE k == item[1]
                 was1 == item[2] = was[k] /\ was[k] # is[k]
                 is1 == item[2] = is[k] /\ was[k] # is[k]
      <3>1. new[item] = (IF is1 THEN (IF was1 THEN Less(idx[item]) ELSE idx[item]) + 1
                         ELSE (IF was1 THEN Less(idx[item]) ELSE idx[item]))
        BY <2>3 DEF Indexed
      <3>2. k \in DOMAIN Keys /\ item[2] # None
        BY ItemIs
      <3>3. Has(V, item) <=> V[r][Keys[k]] = item[2]
        BY <2>3 DEF Has
      <3>4. Has(W, item) <=> x[Keys[k]] = item[2]
        BY <1>1, <2>3 DEF Has
      <3>5. Less(0) = 0 /\ Less(1) = 0
        BY DEF Less
      <3> HIDE DEF new, W, k
      <3> QED BY <2>1, <3>1, <3>2, <3>3, <3>4, <3>5
    <2> QED BY <2>2, <2>3
  <1>3. new \in [Item -> Nat]
    <2>1. \A item \in Item : new[item] \in Nat
      BY <1>2
    <2> QED BY <1>1, <2>1 DEF Indexed
  <1> QED BY <1>2, <1>3 DEF Exact

Recs == RecsOf(DataCache, DataMem)

LEMMA RecsAre ==
  Ids = DOMAIN Recs /\ \A r \in Ids, f \in Field : GetField(r, f) = Recs[r][f]
  BY DEF Ids, Main, Recs, RecsOf, GetField

\* Records leave the index: the keys that are not deindexed one by one were purged of them.
LEMMA DeindexedExact ==
  ASSUME NEW idx, Exact(idx, Recs), NEW gone \in SUBSET Ids, NEW keys, NEW purged \in [Item -> Nat],
         \A item \in Item :
           purged[item] = IF item[1] \in keys THEN idx[item]
                          ELSE IF Has(Without(Recs, gone), item) THEN 1 ELSE 0
  PROVE  Exact(Deindexed(purged, gone, keys), Without(Recs, gone))
  <1> DEFINE W == Without(Recs, gone)
             new == Deindexed(purged, gone, keys)
  <1>1. ASSUME NEW item \in Item PROVE new[item] = IF Has(W, item) THEN 1 ELSE 0
    <2>1. idx[item] = IF Has(Recs, item) THEN 1 ELSE 0
      BY DEF Exact
    <2>2. Has(W, item) <=> Has(Recs, item) /\ item[3] \notin gone
      BY DEF Has, Without
    <2>3. item[3] \in gone => (Has(Recs, item) <=> GetField(item[3], Keys[item[1]]) = item[2])
      BY RecsAre, ItemIs DEF Has
    <2>4. new[item] = IF item[1] \in keys /\ item[3] \in gone /\ GetField(item[3], Keys[item[1]]) = item[2]
                      THEN Less(purged[item]) ELSE purged[item]
      BY DEF Deindexed
    <2>5. Less(1) = 0
      BY DEF Less
    <2> HIDE DEF W, new
    <2>6. CASE item[1] \in keys
      BY <2>1, <2>2, <2>3, <2>4, <2>5, <2>6
    <2>7. CASE item[1] \notin keys
      BY <2>4, <2>7 DEF W
    <2> QED BY <2>6, <2>7
  <1>2. new \in [Item -> Nat]
    <2>1. \A item \in Item : new[item] \in Nat
      BY <1>1
    <2> QED BY <2>1 DEF Deindexed
  <1> QED BY <1>1, <1>2 DEF Exact

\* A new record: the part on disk is indexed first, then the part in memory.
LEMMA AddedExact ==
  ASSUME NEW V, NEW idx, Exact(idx, V), NEW n, n \notin DOMAIN V, NEW d, DOMAIN d = Disk,
         NEW m, DOMAIN m = Memory, NEW withDisk,
         withDisk = IF DataCacheP THEN IndexRec(idx, n, d) ELSE idx
  PROVE  Exact(IF DataMemP THEN IndexRec(withDisk, n, m) ELSE withDisk,
               With(V, n, Joined(d, m)))
  <1> DEFINE Rec(x) == With(V, n, x)
             x0 == [f \in Field |-> None]
             x1 == [f \in Field |-> IF f \in Disk THEN d[f] ELSE None]
             x2 == Joined(d, m)
  <1>1. Exact(idx, Rec(x0))
    <2>1. ASSUME NEW item \in Item PROVE Has(Rec(x0), item) <=> Has(V, item)
      <3>1. x0[Keys[item[1]]] # item[2]
        BY ItemIs
      <3> HIDE DEF x0
      <3> QED BY <3>1 DEF Has, With
    <2> QED BY <2>1 DEF Exact
  <1>2. ASSUME NEW x, NEW y PROVE n \in DOMAIN Rec(x) /\ Rec(x)[n] = x /\ Changed(Rec(x), n, y) = Rec(y)
    BY DEF With, Changed
  <1>3. \A k \in DOMAIN Keys : Keys[k] \in Field /\ Nothing[k] = None
    BY StoreAssumption DEF Nothing
  <1>4. Exact(withDisk, Rec(x1))
    <2>1. CASE DataCacheP
      <3> DEFINE is == KeysOf(d, DOMAIN d)
      <3>1. \A k \in DOMAIN Keys : \/ Nothing[k] = x0[Keys[k]] /\ is[k] = x1[Keys[k]]
                                   \/ Nothing[k] = None /\ is[k] = None /\ x0[Keys[k]] = x1[Keys[k]]
        BY <1>3 DEF KeysOf
      <3> HIDE DEF x0, x1, is, Rec
      <3>2. Exact(Indexed(idx, n, Nothing, is), Changed(Rec(x0), n, x1))
        BY <1>1, <1>2, <3>1, IndexedExact
      <3> QED BY <1>2, <2>1, <3>2 DEF IndexRec, is
    <2>2. CASE ~DataCacheP
      <3>1. x1 = x0
        BY <2>2 DEF DataCacheP
      <3> QED BY <1>1, <2>2, <3>1
    <2> QED BY <2>1, <2>2
  <1>5. CASE DataMemP
    <2> DEFINE is == KeysOf(m, DOMAIN m)
    <2>1. \A k \in DOMAIN Keys : \/ Nothing[k] = x1[Keys[k]] /\ is[k] = x2[Keys[k]]
                                 \/ Nothing[k] = None /\ is[k] = None /\ x1[Keys[k]] = x2[Keys[k]]
      BY <1>3, StoreAssumption DEF KeysOf, Field, Joined
    <2> HIDE DEF x1, x2, is, Rec
    <2>2. Exact(Indexed(withDisk, n, Nothing, is), Changed(Rec(x1), n, x2))
      BY <1>2, <1>4, <2>1, IndexedExact
    <2>3. Exact(IndexRec(withDisk, n, m), Rec(x2))
      BY <1>2, <2>2 DEF IndexRec, is
    <2> QED BY <1>5, <2>3 DEF Rec, x2
  <1>6. CASE ~DataMemP
    <2>1. x1 = x2
      BY <1>6 DEF DataMemP, Field, Joined
    <2> QED BY <1>4, <1>6, <2>1
  <1> QED BY <1>5, <1>6

(***************************************************************************)
(* The primary map of any records V, and their codebook.                   *)
(***************************************************************************)
Leads(map, V) ==
  /\ map \in [DOMAIN map -> Id] /\ DOMAIN map \subseteq Value
  /\ IsPrimaryField => /\ DOMAIN map = {V[r][PrimaryField] : r \in DOMAIN V}
                       /\ \A r \in DOMAIN V : map[V[r][PrimaryField]] = r

LEMMA LeadsAdded ==
  ASSUME NEW V, NEW map, Leads(map, V), NEW n \in Id, n \notin DOMAIN V, NEW x,
         IsPrimaryField => x[PrimaryField] \in Value \ DOMAIN map
  PROVE  Leads(IF IsPrimaryField THEN Mapped(map, x[PrimaryField], n) ELSE map,
               With(V, n, x))
  <1>1. CASE ~IsPrimaryField
    BY <1>1 DEF Leads
  <1>2. CASE IsPrimaryField
    <2> DEFINE new == Mapped(map, x[PrimaryField], n)
               W == With(V, n, x)
    <2>1. /\ DOMAIN new = DOMAIN map \cup {x[PrimaryField]} /\ new[x[PrimaryField]] = n
          /\ \A v \in DOMAIN map : new[v] = map[v]
      BY <1>2 DEF Mapped
    <2>2. DOMAIN W = DOMAIN V \cup {n} /\ W[n] = x /\ \A r \in DOMAIN V : W[r] = V[r]
      BY DEF With
    <2>3. new \in [DOMAIN new -> Id] /\ DOMAIN new \subseteq Value
      <3>1. \A v \in DOMAIN new : new[v] \in Id
        BY <2>1 DEF Leads
      <3> QED BY <1>2, <2>1, <3>1 DEF Leads, Mapped
    <2>4. \A s \in DOMAIN V : map[V[s][PrimaryField]] = s /\ V[s][PrimaryField] \in DOMAIN map
      BY <1>2 DEF Leads
    <2>5. \A v \in DOMAIN map : \E s \in DOMAIN V : v = V[s][PrimaryField]
      BY <1>2 DEF Leads
    <2> HIDE DEF new, W
    <2>6. DOMAIN new = {W[s][PrimaryField] : s \in DOMAIN W}
      <3>1. ASSUME NEW s \in DOMAIN W PROVE W[s][PrimaryField] \in DOMAIN new
        BY <2>1, <2>2, <2>4
      <3>2. ASSUME NEW v \in DOMAIN new PROVE \E s \in DOMAIN W : v = W[s][PrimaryField]
        BY <2>1, <2>2, <2>5
      <3> QED BY <3>1, <3>2
    <2>7. \A s \in DOMAIN W : new[W[s][PrimaryField]] = s
      BY <2>1, <2>2, <2>4
    <2>8. Leads(new, W)
      BY <2>3, <2>6, <2>7 DEF Leads
    <2> QED BY <1>2, <2>8 DEF new, W
  <1> QED BY <1>1, <1>2

LEMMA LeadsKept ==
  ASSUME NEW V, NEW map, Leads(map, V), NEW r \in DOMAIN V, NEW x,
         IsPrimaryField => x[PrimaryField] = V[r][PrimaryField]
  PROVE  Leads(map, Changed(V, r, x))
  <1>1. CASE ~IsPrimaryField
    BY <1>1 DEF Leads
  <1>2. CASE IsPrimaryField
    <2>1. \A s \in DOMAIN V : Changed(V, r, x)[s][PrimaryField] = V[s][PrimaryField]
      BY <1>2 DEF Changed
    <2> QED BY <1>2, <2>1 DEF Leads, Changed
  <1> QED BY <1>1, <1>2

LEMMA LeadsChanged ==
  ASSUME IsPrimaryField, NEW V, NEW map, Leads(map, V), NEW r \in DOMAIN V \cap Id, NEW x,
         x[PrimaryField] \in Value,
         x[PrimaryField] \in DOMAIN map => map[x[PrimaryField]] = r
  PROVE  Leads(Mapped(Unmapped(map, {V[r][PrimaryField]}), x[PrimaryField], r), Changed(V, r, x))
  <1> DEFINE W == Changed(V, r, x)
             rest == Unmapped(map, {V[r][PrimaryField]})
             new == Mapped(rest, x[PrimaryField], r)
  <1>1. /\ DOMAIN rest = DOMAIN map \ {V[r][PrimaryField]}
        /\ \A v \in DOMAIN rest : rest[v] = map[v]
    BY DEF Unmapped
  <1>2. /\ DOMAIN new = DOMAIN rest \cup {x[PrimaryField]}
        /\ new[x[PrimaryField]] = r /\ \A v \in DOMAIN rest : v # x[PrimaryField] => new[v] = rest[v]
    BY DEF Mapped
  <1>3. /\ DOMAIN W = DOMAIN V /\ W[r] = x /\ \A s \in DOMAIN V : s # r => W[s] = V[s]
    BY DEF Changed
  <1>4. \A s \in DOMAIN V : map[V[s][PrimaryField]] = s /\ V[s][PrimaryField] \in DOMAIN map
    BY DEF Leads
  <1>5. \A v \in DOMAIN map : v = V[map[v]][PrimaryField] /\ map[v] \in DOMAIN V
    BY DEF Leads
  <1>6. new \in [DOMAIN new -> Id] /\ DOMAIN new \subseteq Value
    <2>1. \A v \in DOMAIN new : new[v] \in Id
      BY <1>1, <1>2 DEF Leads
    <2> QED BY <1>1, <1>2, <2>1 DEF Leads, Mapped
  <1> HIDE DEF new, rest, W
  <1>7. DOMAIN new = {W[s][PrimaryField] : s \in DOMAIN W}
    <2>1. ASSUME NEW s \in DOMAIN W PROVE W[s][PrimaryField] \in DOMAIN new
      BY <1>1, <1>2, <1>3, <1>4
    <2>2. ASSUME NEW v \in DOMAIN new PROVE \E s \in DOMAIN W : v = W[s][PrimaryField]
      BY <1>1, <1>2, <1>3, <1>5
    <2> QED BY <2>1, <2>2
  <1>8. ASSUME NEW s \in DOMAIN W PROVE new[W[s][PrimaryField]] = s
    <2>1. CASE s = r
      BY <1>2, <1>3, <2>1
    <2>2. CASE s # r
      BY <1>1, <1>2, <1>3, <1>4, <2>2
    <2> QED BY <2>1, <2>2
  <1>9. Leads(new, W)
    BY <1>6, <1>7, <1>8 DEF Leads
  <1> QED BY <1>9 DEF new, rest, W

LEMMA LeadsDropped ==
  ASSUME NEW V, NEW map, Leads(map, V), NEW gone \in SUBSET DOMAIN V
  PROVE  Leads(IF IsPrimaryField THEN Unmapped(map, {V[r][PrimaryField] : r \in gone}) ELSE map,
               Without(V, gone))
  <1>1. CASE ~IsPrimaryField
    BY <1>1 DEF Leads
  <1>2. CASE IsPrimaryField
    <2> DEFINE new == Unmapped(map, {V[r][PrimaryField] : r \in gone})
               W == Without(V, gone)
    <2>1. /\ DOMAIN new = DOMAIN map \ {V[r][PrimaryField] : r \in gone}
          /\ \A v \in DOMAIN new : new[v] = map[v]
      BY DEF Unmapped
    <2>2. DOMAIN W = DOMAIN V \ gone /\ \A r \in DOMAIN W : W[r] = V[r]
      BY DEF Without
    <2>3. \A s \in DOMAIN V : map[V[s][PrimaryField]] = s /\ V[s][PrimaryField] \in DOMAIN map
      BY <1>2 DEF Leads
    <2>4. \A v \in DOMAIN map : v = V[map[v]][PrimaryField] /\ map[v] \in DOMAIN V
      BY <1>2 DEF Leads
    <2>5. new \in [DOMAIN new -> Id] /\ DOMAIN new \subseteq Value
      BY <2>1 DEF Leads, Unmapped
    <2> HIDE DEF new, W
    <2>6. DOMAIN new = {W[s][PrimaryField] : s \in DOMAIN W}
      <3>1. ASSUME NEW s \in DOMAIN W PROVE W[s][PrimaryField] \in DOMAIN new
        <4>1. ASSUME NEW r \in gone PROVE V[r][PrimaryField] # V[s][PrimaryField]
          BY <2>2, <2>3
        <4> QED BY <2>1, <2>2, <2>3, <4>1
      <3>2. ASSUME NEW v \in DOMAIN new PROVE \E s \in DOMAIN W : v = W[s][PrimaryField]
        BY <2>1, <2>2, <2>4
      <3> QED BY <3>1, <3>2
    <2>7. \A s \in DOMAIN W : new[W[s][PrimaryField]] = s
      BY <2>1, <2>2, <2>3, <2>6
    <2>8. Leads(new, W)
      BY <2>5, <2>6, <2>7 DEF Leads
    <2> QED BY <1>2, <2>8 DEF new, W
  <1> QED BY <1>1, <1>2

\* Every string of a codebook field is in the book.
InBook(book, V) ==
  book \subseteq Value /\ \A r \in DOMAIN V, f \in Codebook : V[r][f] \in book \cup {Null}

(***************************************************************************)
(* The inductive invariant.  Beyond the properties, it says what they rest *)
(* on: what kind of things the parts are, and that a metadata file that    *)
(* will not be written again is the one there should be.                   *)
(***************************************************************************)
Current == [primary |-> PrimaryIdH, codebook |-> CodebookH]
FileMatches == MetaDirtyP \in BOOLEAN /\ (~MetaDirtyP => saved = Current)
IInv ==
  /\ Aligned(DataCache, DataMem)
  /\ IdsOf(DataCache) \subseteq Id /\ IdsOf(DataMem) \subseteq Id
  /\ Field = {} => IdsOf(DataCache) = {}
  /\ Exact(index, Recs) /\ Leads(PrimaryIdH, Recs) /\ InBook(CodebookH, Recs)
  /\ FileMatches

LEMMA RecsIn ==
  ASSUME NEW dc, NEW dm, Aligned(dc, dm), NEW r \in DOMAIN RecsOf(dc, dm)
  PROVE  /\ RecsOf(dc, dm)[r] \in [Field -> Value \cup {Null}]
         /\ DataCacheP => GetVal(dc, r) \in Part(Disk) /\ \A f \in Disk : GetVal(dc, r)[f] = RecsOf(dc, dm)[r][f]
         /\ DataMemP => GetVal(dm, r) \in Part(Memory) /\ \A f \in Memory : GetVal(dm, r)[f] = RecsOf(dc, dm)[r][f]
  <1>1. ASSUME NEW F, NEW st \in Storage(F), r \in IdsOf(st) PROVE GetVal(st, r) \in Part(F)
    <2>1. st.vals \in Seq(Part(F)) /\ r - st.first + 1 \in 1..Len(st.vals)
      BY <1>1, IdsAre
    <2> QED BY <2>1 DEF GetVal
  <1>2. DataCacheP => GetVal(dc, r) \in Part(Disk)
    BY <1>1, SameIds DEF Aligned
  <1>3. DataMemP => GetVal(dm, r) \in Part(Memory)
    BY <1>1, SameIds DEF Aligned
  <1>4. RecsOf(dc, dm)[r] = [f \in Field |-> IF f \in Disk THEN GetVal(dc, r)[f] ELSE GetVal(dm, r)[f]]
    BY DEF RecsOf
  <1>5. \A f \in Field : RecsOf(dc, dm)[r][f] \in Value \cup {Null}
    BY <1>2, <1>3, <1>4 DEF Part, Field, DataCacheP, DataMemP
  <1>6. Disk \subseteq Field /\ Memory \subseteq Field /\ Disk \cap Memory = {}
    BY StoreAssumption DEF Field
  <1> QED BY <1>2, <1>3, <1>4, <1>5, <1>6

LEMMA InitIInv == Init => IInv
  <1> SUFFICES ASSUME Init PROVE IInv
    OBVIOUS
  <1>1. /\ DataCache \in Storage(Disk) /\ DataMem \in Storage(Memory)
        /\ DataCache.first = 0 /\ DataMem.first = 0 /\ Len(DataCache.vals) = 0 /\ Len(DataMem.vals) = 0
    BY DEF Init, Storage
  <1>2. IdsOf(DataCache) = {} /\ IdsOf(DataMem) = {}
    BY <1>1 DEF IdsOf
  <1>3. DOMAIN Recs = {}
    BY <1>2 DEF Recs, RecsOf
  <1>4. Exact(index, Recs)
    <2>1. \A item \in Item : index[item] = 0
      BY DEF Init
    <2>2. \A item \in Item : ~Has(Recs, item)
      BY <1>3 DEF Has
    <2>3. index \in [Item -> Nat]
      BY DEF Init
    <2> QED BY <2>1, <2>2, <2>3 DEF Exact
  <1>5. DOMAIN PrimaryIdH = {} /\ CodebookH = {}
    BY DEF Init
  <1>6. Leads(PrimaryIdH, Recs)
    <2>1. PrimaryIdH = [v \in DOMAIN PrimaryIdH |-> PrimaryIdH[v]]
      BY DEF Init
    <2>2. PrimaryIdH \in [DOMAIN PrimaryIdH -> Id]
      BY <1>5, <2>1
    <2> QED BY <1>3, <1>5, <2>2 DEF Leads
  <1>7. InBook(CodebookH, Recs)
    BY <1>3, <1>5 DEF InBook
  <1> QED BY <1>1, <1>2, <1>4, <1>6, <1>7 DEF IInv, Aligned, FileMatches, Init

LEMMA IInvImplies == IInv => PartsAligned /\ IndexExact /\ MetaExact
  <1> SUFFICES ASSUME IInv PROVE PartsAligned /\ IndexExact /\ MetaExact
    OBVIOUS
  <1>1. TypeOK
    <2>1. ASSUME NEW F, NEW st \in Storage(F), NEW part \in Range(st.vals) PROVE part \in Part(F)
      <3>1. st.vals \in Seq(Part(F))
        BY DEF Storage
      <3> QED BY <2>1, <3>1 DEF Range
    <2>2. /\ \A part \in Range(DataCache.vals) : part \in [Disk -> Value \cup {Null}]
          /\ \A part \in Range(DataMem.vals) : part \in [Memory -> Value \cup {Null}]
      BY <2>1 DEF IInv, Aligned, Part
    <2>3. Range(PrimaryIdH) \subseteq Id /\ DOMAIN PrimaryIdH \subseteq Value
      BY DEF IInv, Leads, Range
    <2> QED BY <2>2, <2>3 DEF TypeOK, IInv, Exact, InBook, FileMatches
  <1>2. IdsAligned
    BY DEF IdsAligned, IInv, Aligned
  <1>3. IndexExact
    BY RecsAre, ItemIs DEF IndexExact, IInv, Exact, Has
  <1>4. PrimaryExact
    <2>1. IsPrimaryField => PrimaryField \in Field
      BY StoreAssumption DEF IsPrimaryField
    <2> QED BY <2>1, RecsAre DEF PrimaryExact, IInv, Leads
  <1>5. CodebookComplete
    BY RecsAre, StoreAssumption DEF CodebookComplete, IInv, InBook
  <1> QED BY <1>1, <1>2, <1>3, <1>4, <1>5 DEF PartsAligned, MetaExact

(***************************************************************************)
(* Adding a record.                                                        *)
(***************************************************************************)
LEMMA CreateKeeps ==
  ASSUME IInv, Careful, NEW json \in Json, IsPrimaryField => Given(json, PrimaryField) \in Value,
         IsPrimaryField => Given(json, PrimaryField) \notin DOMAIN PrimaryIdH,
         NextId(DataCache) \in Id, NextId(DataMem) \in Id, Create(json)
  PROVE  IInv'
  <1> DEFINE d == Serialize(json, Disk)
             m == Serialize(json, Memory)
             x == Joined(d, m)
             n == NextId(Main)
             new == With(Recs, n, x)
  <1>1. /\ IsPrimaryField => PrimaryField \in DOMAIN json /\ Given(json, PrimaryField) = json[PrimaryField]
        /\ IsPrimaryField => PrimaryField \in Field
    BY StoreAssumption DEF Given, IsPrimaryField
  <1>2. Serializes(json, Field) /\ Serializes(json, Disk) /\ Serializes(json, Memory)
    BY <1>1 DEF Careful, Serializes, Field
  <1>3. \A f \in Field : Given(json, f) \in Value \cup {Null}
    BY <1>2 DEF Serializes, Fits
  <1>4. d \in Part(Disk) /\ m \in Part(Memory) /\ DOMAIN d = Disk /\ DOMAIN m = Memory
    BY <1>3 DEF Serialize, Part, Field
  <1>5. x = [f \in Field |-> Given(json, f)]
    BY DEF Serialize, Field, Joined
  <1>6. Aligned(DataCache, DataMem)
    BY DEF IInv
  <1>7. DataCacheP /\ DataMemP => NextId(DataCache) = NextId(DataMem)
    BY <1>6 DEF Aligned, NextId
  <1>8. n \in Id
    BY DEF Main
  <1>9. \A f \in Field : f \in Codebook => x[f] \in CodebookH' \cup {Null}
    <2>1. CodebookH' = CodebookH \cup Coded(json, Field)
      BY <1>2 DEF Create
    <2>2. ASSUME NEW f \in Field, f \in Codebook PROVE Given(json, f) \in Coded(json, Field) \cup {Null}
      BY <1>3, <2>2 DEF Given, Coded
    <2> QED BY <1>5, <2>1, <2>2
  <1>10. CodebookH' \subseteq Value /\ CodebookH \subseteq CodebookH'
    BY DEF Create, Coded, IInv, InBook
  <1>11. FileMatches'
    BY DEF Create, FileMatches
  <1>12. CASE Field # {}
    <2>1. /\ DataCacheP => DataCache' = AddVal(DataCache, d)
          /\ ~DataCacheP => DataCache' = DataCache
          /\ DataMemP => DataMem' = AddVal(DataMem, m)
          /\ ~DataMemP => DataMem' = DataMem
      BY <1>2 DEF Create
    <2>2. /\ Aligned(DataCache', DataMem') /\ n \notin DOMAIN Recs
          /\ IdsOf(DataCache') \subseteq IdsOf(DataCache) \cup {NextId(DataCache)}
          /\ IdsOf(DataMem') \subseteq IdsOf(DataMem) \cup {NextId(DataMem)}
          /\ RecsOf(DataCache', DataMem') = new
      <3> HIDE DEF d, m
      <3> QED BY <1>4, <1>6, <1>12, <2>1, RecordAdded DEF Recs, Main
    <2>3. Recs' = new
      BY <2>2 DEF Recs
    <2>4. Exact(index', new)
      <3> DEFINE withDisk == IF DataCacheP THEN IndexRec(index, n, d) ELSE index
      <3>1. index' = IF DataMemP THEN IndexRec(withDisk, n, m) ELSE withDisk
        BY <1>2, <1>7 DEF Create, Main
      <3>2. Exact(index, Recs)
        BY DEF IInv
      <3> HIDE DEF d, m
      <3> QED BY <1>4, <2>2, <3>1, <3>2, AddedExact
    <2>5. Leads(PrimaryIdH', new)
      <3>1. PrimaryIdH' = IF IsPrimaryField THEN Mapped(PrimaryIdH, x[PrimaryField], n) ELSE PrimaryIdH
        BY <1>1, <1>2, <1>5, <1>7 DEF Create
      <3>2. IsPrimaryField => x[PrimaryField] \in Value \ DOMAIN PrimaryIdH
        BY <1>1, <1>5
      <3>3. Leads(PrimaryIdH, Recs)
        BY DEF IInv
      <3> HIDE DEF x
      <3> QED BY <1>8, <2>2, <3>1, <3>2, <3>3, LeadsAdded
    <2>6. InBook(CodebookH', new)
      <3>1. InBook(CodebookH, Recs) /\ Codebook \subseteq Field
        BY StoreAssumption DEF IInv
      <3>2. DOMAIN new = DOMAIN Recs \cup {n} /\ new[n] = x /\ \A r \in DOMAIN Recs : new[r] = Recs[r]
        <4>1. n \notin DOMAIN Recs
          BY <2>2
        <4> HIDE DEF x, n
        <4> QED BY <4>1 DEF With
      <3> HIDE DEF x, new
      <3> QED BY <1>9, <1>10, <3>1, <3>2 DEF InBook
    <2>7. IdsOf(DataCache') \subseteq Id /\ IdsOf(DataMem') \subseteq Id
      BY <2>2 DEF IInv
    <2> QED BY <1>11, <1>12, <2>2, <2>3, <2>4, <2>5, <2>6, <2>7 DEF IInv
  <1>13. CASE Field = {}
    <2>1. ~DataCacheP /\ ~DataMemP /\ ~IsPrimaryField /\ Codebook = {}
      BY <1>1, <1>13, StoreAssumption DEF DataCacheP, DataMemP, Field
    <2>2. DataCache' = DataCache /\ DataMem' = DataMem /\ index' = index /\ PrimaryIdH' = PrimaryIdH
      BY <2>1 DEF Create
    <2>3. Recs' = Recs
      BY <2>2 DEF Recs
    <2> QED BY <1>10, <1>11, <2>1, <2>2, <2>3 DEF IInv, InBook
  <1> QED BY <1>12, <1>13

(***************************************************************************)
(* Changing a record.                                                      *)
(***************************************************************************)
LEMMA ChangeKeeps ==
  ASSUME IInv, NEW r \in Ids, NEW x \in [Field -> Value \cup {Null}], NEW was, NEW is,
         DataCacheP => \/ DataCache' = SetVal(DataCache, r, Cut(x, Disk))
                       \/ DataCache' = DataCache /\ \A f \in Disk : x[f] = Recs[r][f],
         DataMemP => \/ DataMem' = SetVal(DataMem, r, Cut(x, Memory))
                     \/ DataMem' = DataMem /\ \A f \in Memory : x[f] = Recs[r][f],
         ~DataCacheP => DataCache' = DataCache, ~DataMemP => DataMem' = DataMem,
         index' = Indexed(index, r, was, is),
         \A k \in DOMAIN Keys : \/ was[k] = Recs[r][Keys[k]] /\ is[k] = x[Keys[k]]
                                \/ was[k] = None /\ is[k] = None /\ Recs[r][Keys[k]] = x[Keys[k]],
         \/ PrimaryIdH' = PrimaryIdH /\ (IsPrimaryField => x[PrimaryField] = Recs[r][PrimaryField])
         \/ /\ IsPrimaryField /\ x[PrimaryField] \in Value /\ ~TakenByOther(r, x[PrimaryField])
            /\ PrimaryIdH' = Mapped(DelPrimaryFields({r}), x[PrimaryField], r),
         CodebookH \subseteq CodebookH', CodebookH' \subseteq Value,
         \A f \in Codebook : x[f] \in CodebookH' \cup {Null, Recs[r][f]},
         FileMatches'
  PROVE  IInv'
  <1>1. /\ Aligned(DataCache, DataMem) /\ Exact(index, Recs) /\ Leads(PrimaryIdH, Recs)
        /\ InBook(CodebookH, Recs) /\ r \in DOMAIN Recs /\ DOMAIN Recs = Ids /\ Ids \subseteq Id
    BY RecsAre DEF IInv, Ids, Main
  <1>2. /\ DataCacheP => \A f \in Disk : Recs[r][f] = GetVal(DataCache, r)[f]
        /\ DataMemP => \A f \in Memory : Recs[r][f] = GetVal(DataMem, r)[f]
    BY <1>1, RecsIn DEF Recs
  <1>3. /\ Aligned(DataCache', DataMem') /\ RecsOf(DataCache', DataMem') = Changed(Recs, r, x)
        /\ IdsOf(DataCache') = IdsOf(DataCache) /\ IdsOf(DataMem') = IdsOf(DataMem)
    BY <1>1, <1>2, RecordChanged DEF Recs
  <1>4. Recs' = Changed(Recs, r, x)
    BY <1>3 DEF Recs
  <1>5. Exact(index', Changed(Recs, r, x))
    BY <1>1, IndexedExact
  <1>6. Leads(PrimaryIdH', Changed(Recs, r, x))
    <2>1. ASSUME PrimaryIdH' = PrimaryIdH, IsPrimaryField => x[PrimaryField] = Recs[r][PrimaryField]
          PROVE  Leads(PrimaryIdH', Changed(Recs, r, x))
      BY <1>1, <2>1, LeadsKept
    <2>2. ASSUME IsPrimaryField, x[PrimaryField] \in Value, ~TakenByOther(r, x[PrimaryField]),
                 PrimaryIdH' = Mapped(DelPrimaryFields({r}), x[PrimaryField], r)
          PROVE  Leads(PrimaryIdH', Changed(Recs, r, x))
      <3>1. DelPrimaryFields({r}) = Unmapped(PrimaryIdH, {Recs[r][PrimaryField]})
        <4>1. PrimaryField \in Field
          BY <2>2, StoreAssumption DEF IsPrimaryField
        <4>2. {GetField(s, PrimaryField) : s \in {r}} = {Recs[r][PrimaryField]}
          BY <4>1, RecsAre
        <4> QED BY <2>2, <4>2 DEF DelPrimaryFields
      <3>2. x[PrimaryField] \in DOMAIN PrimaryIdH => PrimaryIdH[x[PrimaryField]] = r
        BY <2>2 DEF TakenByOther
      <3> QED BY <1>1, <2>2, <3>1, <3>2, LeadsChanged
    <2> QED BY <2>1, <2>2
  <1>7. InBook(CodebookH', Changed(Recs, r, x))
    <2>1. \A s \in DOMAIN Recs : Changed(Recs, r, x)[s] = IF s = r THEN x ELSE Recs[s]
      BY DEF Changed
    <2>2. DOMAIN Changed(Recs, r, x) = DOMAIN Recs
      BY DEF Changed
    <2> QED BY <1>1, <2>1, <2>2 DEF InBook
  <1> QED BY <1>3, <1>4, <1>5, <1>6, <1>7 DEF IInv

LEMMA UpdateKeeps ==
  ASSUME IInv, Careful, NEW json \in Json, NEW r \in Ids,
         PrimaryField \in DOMAIN json => ~TakenByOther(r, json[PrimaryField]),
         UpdateRec(r, json)
  PROVE  IInv'
  <1> DEFINE given == DOMAIN json
             x == [f \in Field |-> IF f \in given THEN json[f] ELSE Recs[r][f]]
  <1>1. given \subseteq Field /\ (\A f \in given : json[f] \in Value \cup {Null}) /\ Field = Disk \cup Memory
    BY StoreAssumption DEF Careful, Updates, Fits, Given, Field
  <1>2. Updates(json, Disk) /\ Updates(json, Memory)
    BY DEF Careful, Updates, Field
  <1>3. /\ DataCache' = IF given \cap Disk = {} THEN DataCache
                        ELSE SetVal(DataCache, r, SerializeUpdate(GetVal(DataCache, r), json))
        /\ DataMem' = IF given \cap Memory = {} THEN DataMem
                      ELSE SetVal(DataMem, r, SerializeUpdate(GetVal(DataMem, r), json))
        /\ index' = UpdateRecIndex(index, r, json, given)
        /\ PrimaryIdH' = IF PrimaryField \in given THEN Mapped(DelPrimaryFields({r}), json[PrimaryField], r)
                         ELSE PrimaryIdH
        /\ CodebookH' = CodebookH \cup Coded(json, given)
        /\ FileMatches'
    <2>1. (given \cap Disk) \cup (given \cap Memory) = given
      BY <1>1
    <2> QED BY <1>2, <2>1 DEF UpdateRec, FileMatches
  <1>4. /\ r \in DOMAIN Recs /\ Recs[r] \in [Field -> Value \cup {Null}]
        /\ DataCacheP => GetVal(DataCache, r) \in Part(Disk) /\ \A f \in Disk : GetVal(DataCache, r)[f] = Recs[r][f]
        /\ DataMemP => GetVal(DataMem, r) \in Part(Memory) /\ \A f \in Memory : GetVal(DataMem, r)[f] = Recs[r][f]
    BY RecsAre, RecsIn DEF IInv, Recs
  <1>5. x \in [Field -> Value \cup {Null}]
    BY <1>1, <1>4
  <1>6. /\ DataCacheP => SerializeUpdate(GetVal(DataCache, r), json) = Cut(x, Disk)
        /\ DataMemP => SerializeUpdate(GetVal(DataMem, r), json) = Cut(x, Memory)
    BY <1>1, <1>4 DEF SerializeUpdate, Cut, Part
  <1>7. /\ given \cap Disk = {} => \A f \in Disk : x[f] = Recs[r][f]
        /\ given \cap Memory = {} => \A f \in Memory : x[f] = Recs[r][f]
        /\ \A f \in Field \ given : x[f] = Recs[r][f]
        /\ \A f \in given : x[f] = json[f]
    BY <1>1
  <1> HIDE DEF x
  <1>8. /\ DataCacheP => \/ DataCache' = SetVal(DataCache, r, Cut(x, Disk))
                         \/ DataCache' = DataCache /\ \A f \in Disk : x[f] = Recs[r][f]
        /\ DataMemP => \/ DataMem' = SetVal(DataMem, r, Cut(x, Memory))
                       \/ DataMem' = DataMem /\ \A f \in Memory : x[f] = Recs[r][f]
        /\ ~DataCacheP => DataCache' = DataCache
        /\ ~DataMemP => DataMem' = DataMem
    BY <1>3, <1>6, <1>7 DEF DataCacheP, DataMemP
  <1> DEFINE was == StoredAt(r, given)
             is == KeysOf(json, given)
  <1>9. \A k \in DOMAIN Keys : \/ was[k] = Recs[r][Keys[k]] /\ is[k] = x[Keys[k]]
                               \/ was[k] = None /\ is[k] = None /\ Recs[r][Keys[k]] = x[Keys[k]]
    <2>1. \A k \in DOMAIN Keys : Keys[k] \in Field
      BY StoreAssumption
    <2> QED BY <1>7, <2>1, RecsAre DEF StoredAt, KeysOf
  <1>10. index' = Indexed(index, r, was, is)
    BY <1>3 DEF UpdateRecIndex
  <1>11. \/ PrimaryIdH' = PrimaryIdH /\ (IsPrimaryField => x[PrimaryField] = Recs[r][PrimaryField])
         \/ /\ IsPrimaryField /\ x[PrimaryField] \in Value /\ ~TakenByOther(r, x[PrimaryField])
            /\ PrimaryIdH' = Mapped(DelPrimaryFields({r}), x[PrimaryField], r)
    <2>1. CASE PrimaryField \in given
      <3>1. IsPrimaryField /\ PrimaryField \notin Nullable
        BY <1>1, <2>1, StoreAssumption DEF IsPrimaryField
      <3>2. json[PrimaryField] \in Value
        BY <1>1, <2>1, <3>1 DEF Careful, Updates, Fits, Given
      <3> QED BY <1>3, <1>7, <2>1, <3>1, <3>2
    <2>2. CASE PrimaryField \notin given
      BY <1>3, <1>7, <2>2, StoreAssumption DEF IsPrimaryField
    <2> QED BY <2>1, <2>2
  <1>12. /\ CodebookH \subseteq CodebookH' /\ CodebookH' \subseteq Value
         /\ \A f \in Codebook : x[f] \in CodebookH' \cup {Null, Recs[r][f]}
    <2>1. CodebookH' = CodebookH \cup Coded(json, given) /\ CodebookH \subseteq Value
      BY <1>3 DEF IInv, InBook
    <2>2. ASSUME NEW f \in Codebook, f \in given PROVE json[f] \in Coded(json, given) \cup {Null}
      BY <1>1, <2>2 DEF Coded
    <2>3. \A f \in Codebook : f \in Field
      BY StoreAssumption
    <2> QED BY <1>7, <2>1, <2>2, <2>3 DEF Coded
  <1> HIDE DEF was, is
  <1> QED BY <1>3, <1>5, <1>8, <1>9, <1>10, <1>11, <1>12, ChangeKeeps

LEMMA SetFieldKeeps ==
  ASSUME IInv, Careful, NEW r \in Ids, NEW f \in Settable, NEW v \in Value \cup {Null},
         v = Null => f \in Nullable, SetField(r, f, v)
  PROVE  IInv'
  <1> DEFINE x == [Recs[r] EXCEPT ![f] = v]
             was == [k \in DOMAIN Keys |-> IF k \in FieldIdToKeyN(f) THEN GetField(r, f) ELSE None]
             is == [k \in DOMAIN Keys |-> IF k \in FieldIdToKeyN(f) THEN v ELSE None]
  <1>1. /\ f \in Field /\ Field = Disk \cup Memory /\ Disk \cap Memory = {}
        /\ (f = PrimaryField => IsPrimaryField /\ v \in Value)
    BY StoreAssumption DEF IsPrimaryField, Field
  <1>2. /\ r \in DOMAIN Recs /\ Recs[r] \in [Field -> Value \cup {Null}]
        /\ DataCacheP => GetVal(DataCache, r) \in Part(Disk) /\ \A g \in Disk : GetVal(DataCache, r)[g] = Recs[r][g]
        /\ DataMemP => GetVal(DataMem, r) \in Part(Memory) /\ \A g \in Memory : GetVal(DataMem, r)[g] = Recs[r][g]
    BY RecsAre, RecsIn DEF IInv, Recs
  <1>3. x \in [Field -> Value \cup {Null}] /\ x[f] = v /\ \A g \in Field : g # f => x[g] = Recs[r][g]
    BY <1>1, <1>2
  <1> HIDE DEF x
  <1>4. /\ DataCacheP => \/ DataCache' = SetVal(DataCache, r, Cut(x, Disk))
                         \/ DataCache' = DataCache /\ \A g \in Disk : x[g] = Recs[r][g]
        /\ DataMemP => \/ DataMem' = SetVal(DataMem, r, Cut(x, Memory))
                       \/ DataMem' = DataMem /\ \A g \in Memory : x[g] = Recs[r][g]
        /\ ~DataCacheP => DataCache' = DataCache
        /\ ~DataMemP => DataMem' = DataMem
    <2>1. CASE f \in Disk
      <3>1. DataCacheP
        BY <2>1 DEF DataCacheP
      <3>2. [GetVal(DataCache, r) EXCEPT ![f] = v] = Cut(x, Disk)
        BY <1>1, <1>2, <1>3, <2>1, <3>1 DEF Cut, Part
      <3>3. DataCache' = SetVal(DataCache, r, [GetVal(DataCache, r) EXCEPT ![f] = v]) /\ DataMem' = DataMem
        BY <2>1 DEF SetField
      <3> QED BY <1>1, <1>3, <2>1, <3>1, <3>2, <3>3
    <2>2. CASE f \notin Disk
      <3>1. DataMemP /\ f \in Memory
        BY <1>1, <2>2 DEF DataMemP
      <3>2. [GetVal(DataMem, r) EXCEPT ![f] = v] = Cut(x, Memory)
        BY <1>1, <1>2, <1>3, <3>1 DEF Cut, Part
      <3>3. DataMem' = SetVal(DataMem, r, [GetVal(DataMem, r) EXCEPT ![f] = v]) /\ DataCache' = DataCache
        BY <2>2 DEF SetField
      <3> QED BY <1>1, <1>3, <2>2, <3>1, <3>2, <3>3
    <2> QED BY <2>1, <2>2
  <1>5. \A k \in DOMAIN Keys : \/ was[k] = Recs[r][Keys[k]] /\ is[k] = x[Keys[k]]
                               \/ was[k] = None /\ is[k] = None /\ Recs[r][Keys[k]] = x[Keys[k]]
    <2>1. ASSUME NEW k \in DOMAIN Keys PROVE k \in FieldIdToKeyN(f) <=> Keys[k] = f
      <3>1. DOMAIN Keys = 1..Len(Keys) /\ Len(Keys) \in Nat
        BY StoreAssumption
      <3>2. ASSUME Keys[k] = f, NEW n \in k + 1..Len(Keys) PROVE Keys[n] # f
        <4>1. n \in DOMAIN Keys /\ n # k
          BY <3>1
        <4> QED BY <3>2, <4>1 DEF Careful
      <3> QED BY <3>2 DEF FieldIdToKeyN
    <2>2. \A k \in DOMAIN Keys : Keys[k] \in Field
      BY StoreAssumption
    <2>3. GetField(r, f) = Recs[r][f]
      BY <1>1, RecsAre
    <2> QED BY <1>3, <2>1, <2>2, <2>3
  <1>6. index' = Indexed(index, r, was, is)
    BY DEF SetField, UpdateFieldIndex
  <1>7. \/ PrimaryIdH' = PrimaryIdH /\ (IsPrimaryField => x[PrimaryField] = Recs[r][PrimaryField])
        \/ /\ IsPrimaryField /\ x[PrimaryField] \in Value /\ ~TakenByOther(r, x[PrimaryField])
           /\ PrimaryIdH' = Mapped(DelPrimaryFields({r}), x[PrimaryField], r)
    BY <1>1, <1>3, StoreAssumption DEF SetField, IsPrimaryField
  <1>8. CodebookH' = CodebookH \cup ({v} \cap Value \cap {w \in Value : f \in Codebook})
    BY DEF SetField
  <1>9. /\ CodebookH \subseteq CodebookH' /\ CodebookH' \subseteq Value
        /\ \A g \in Codebook : x[g] \in CodebookH' \cup {Null, Recs[r][g]}
    <2>1. \A g \in Codebook : g \in Field
      BY StoreAssumption
    <2> QED BY <1>3, <1>8, <2>1 DEF IInv, InBook
  <1>10. FileMatches'
    <2>1. MetaDirtyP' = TRUE
      BY <1>1, StoreAssumption DEF SetField, DirtiesMeta, IInv, FileMatches
    <2> QED BY <2>1 DEF FileMatches
  <1> HIDE DEF was, is
  <1> QED BY <1>3, <1>4, <1>5, <1>6, <1>7, <1>9, <1>10, ChangeKeeps

(***************************************************************************)
(* Deleting records: the storages can only forget the first ones.          *)
(***************************************************************************)
LEMMA IntervalSize ==
  ASSUME NEW a \in Nat, NEW k \in Nat
  PROVE  Cardinality(a..a + k - 1) = k
  <1> DEFINE b == a + k - 1
  <1>1. b \in Int /\ (IF a > b THEN 0 ELSE b - a + 1) = k
    OBVIOUS
  <1> HIDE DEF b
  <1>2. Cardinality(a..b) = IF a > b THEN 0 ELSE b - a + 1
    BY <1>1, FS_Interval
  <1>3. Cardinality(a..b) = k
    BY <1>1, <1>2
  <1> QED BY <1>3 DEF b

LEMMA MainIs ==
  ASSUME IInv, NEW n \in Nat, n <= Cardinality(Ids)
  PROVE  /\ Cardinality(Ids) = Len(Main.vals) /\ n <= Len(Main.vals) /\ Ids = DOMAIN Recs
         /\ FirstIds(n) \in SUBSET Ids /\ Cardinality(FirstIds(n)) = n
         /\ n = Cardinality(Ids) => FirstIds(n) = Ids
         /\ Field = {} => n = 0
  <1>1. Main.first \in Nat /\ Len(Main.vals) \in Nat
    BY IdsAre DEF IInv, Aligned, Main
  <1>2. Ids = Main.first..Main.first + Len(Main.vals) - 1
    BY DEF Ids, IdsOf
  <1>3. Cardinality(Ids) = Len(Main.vals)
    BY <1>1, <1>2, IntervalSize
  <1>4. FirstIds(n) \in SUBSET Ids
    BY <1>1, <1>2, <1>3 DEF FirstIds
  <1>5. Cardinality(FirstIds(n)) = n
    BY <1>1, IntervalSize DEF FirstIds
  <1>6. n = Cardinality(Ids) => FirstIds(n) = Ids
    BY <1>2, <1>3 DEF FirstIds
  <1>7. Field = {} => n = 0
    <2>1. Field = {} => Ids = {}
      BY DEF IInv, Ids, Main, DataMemP, Field
    <2> QED BY <2>1, FS_EmptySet
  <1> QED BY <1>3, <1>4, <1>5, <1>6, <1>7, RecsAre

LEMMA DropKeeps ==
  ASSUME IInv, NEW n \in Nat, n <= Cardinality(Ids),
         DataCacheP => DataCache' = DelVals(DataCache, n), DataMemP => DataMem' = DelVals(DataMem, n),
         ~DataCacheP => DataCache' = DataCache \/ DataCache' = DelVals(DataCache, Len(DataCache.vals)),
         ~DataMemP => DataMem' = DataMem \/ DataMem' = DelVals(DataMem, Len(DataMem.vals)),
         Field = {} => DataCache' = DataCache,
         Exact(index', Without(Recs, FirstIds(n))), Leads(PrimaryIdH', Without(Recs, FirstIds(n))),
         CodebookH' = CodebookH, FileMatches'
  PROVE  IInv'
  <1>1. Aligned(DataCache, DataMem) /\ DataCache \in Storage(Disk) /\ DataMem \in Storage(Memory)
    BY DEF IInv, Aligned
  <1>2. /\ DataCacheP => n <= Len(DataCache.vals)
        /\ DataMemP => n <= Len(DataMem.vals)
    BY <1>1, MainIs DEF Main, Aligned
  <1>3. ASSUME NEW F, NEW st \in Storage(F)
        PROVE  /\ DelVals(st, Len(st.vals)) \in Storage(F) /\ IdsOf(DelVals(st, Len(st.vals))) \subseteq IdsOf(st)
               /\ n <= Len(st.vals) => IdsOf(DelVals(st, n)) \subseteq IdsOf(st)
    <2>1. Len(st.vals) \in Nat /\ Len(st.vals) <= Len(st.vals)
      BY IdsAre
    <2> QED BY <2>1, DelValsFacts
  <1>4. IdsOf(DataCache') \subseteq IdsOf(DataCache) /\ IdsOf(DataMem') \subseteq IdsOf(DataMem)
    BY <1>1, <1>2, <1>3
  <1>5. /\ ~DataCacheP => DataCache' \in Storage(Disk)
        /\ ~DataMemP => DataMem' \in Storage(Memory)
        /\ ~DataCacheP /\ ~DataMemP => IdsOf(DataCache) = {} /\ DataCache' = DataCache
    BY <1>1, <1>3 DEF DataCacheP, DataMemP, Field, IInv
  <1>6. /\ Aligned(DataCache', DataMem')
        /\ RecsOf(DataCache', DataMem') = Without(Recs, FirstIds(n))
    BY <1>1, <1>2, <1>5, RecordsDropped DEF Recs, FirstIds, Main
  <1>7. Recs' = Without(Recs, FirstIds(n))
    BY <1>6 DEF Recs
  <1>8. InBook(CodebookH', Without(Recs, FirstIds(n)))
    BY DEF IInv, InBook, Without
  <1> QED BY <1>4, <1>6, <1>7, <1>8 DEF IInv

LEMMA UnmappedLeads ==
  ASSUME IInv, NEW n \in Nat, n <= Cardinality(Ids)
  PROVE  Leads(DelPrimaryFields(FirstIds(n)), Without(Recs, FirstIds(n)))
  <1> DEFINE gone == FirstIds(n)
  <1>1. gone \in SUBSET DOMAIN Recs /\ DOMAIN Recs = Ids /\ Leads(PrimaryIdH, Recs)
    BY MainIs DEF IInv
  <1>2. IsPrimaryField => \A r \in gone : GetField(r, PrimaryField) = Recs[r][PrimaryField]
    BY <1>1, RecsAre, StoreAssumption DEF IsPrimaryField
  <1> HIDE DEF gone
  <1>3. IsPrimaryField => {GetField(r, PrimaryField) : r \in gone} = {Recs[r][PrimaryField] : r \in gone}
    BY <1>2
  <1>4. DelPrimaryFields(gone) =
          IF IsPrimaryField THEN Unmapped(PrimaryIdH, {Recs[r][PrimaryField] : r \in gone}) ELSE PrimaryIdH
    BY <1>3 DEF DelPrimaryFields
  <1>5. Leads(DelPrimaryFields(gone), Without(Recs, gone))
    BY <1>1, <1>4, LeadsDropped
  <1> QED BY <1>5 DEF gone

LEMMA AllDeindexed ==
  ASSUME IInv, NEW gone \in SUBSET Ids
  PROVE  Exact(Deindexed(index, gone, DOMAIN Keys), Without(Recs, gone))
  <1>1. Exact(index, Recs) /\ index \in [Item -> Nat]
    BY DEF IInv, Exact
  <1>2. \A item \in Item : item[1] \in DOMAIN Keys
    BY ItemIs
  <1> QED BY <1>1, <1>2, DeindexedExact

LEMMA DeleteKeeps ==
  ASSUME IInv, NEW n \in Nat, NEW m \in Nat, m <= Cardinality(Ids), DeleteRecs(n, m)
  PROVE  IInv'
  <1>1. FirstIds(m) \in SUBSET Ids /\ (Field = {} => m = 0) /\ m > 0
    BY MainIs DEF DeleteRecs
  <1>2. Exact(index', Without(Recs, FirstIds(m)))
    BY <1>1, AllDeindexed DEF DeleteRecs
  <1>3. Leads(PrimaryIdH', Without(Recs, FirstIds(m)))
    BY UnmappedLeads DEF DeleteRecs
  <1>4. FileMatches'
    BY DEF DeleteRecs, DelPrimaryFields, IInv, FileMatches, Current
  <1>5. /\ DataCacheP => DataCache' = DelVals(DataCache, m)
        /\ DataMemP => DataMem' = DelVals(DataMem, m)
        /\ ~DataCacheP => DataCache' = DataCache
        /\ ~DataMemP => DataMem' = DataMem
        /\ CodebookH' = CodebookH
    BY DEF DeleteRecs, Drop
  <1>6. Field # {}
    BY <1>1
  <1> QED BY <1>2, <1>3, <1>4, <1>5, <1>6, DropKeeps

LEMMA IdsCounted == IInv => Cardinality(Ids) \in Nat
  BY MainIs, IdsAre, IntervalSize DEF IInv, Aligned, Main, Ids, IdsOf

LEMMA DeleteAllKeeps ==
  ASSUME IInv, DeleteAllRecs
  PROVE  IInv'
  <1> DEFINE n == Cardinality(Ids)
  <1>1. n \in Nat /\ n <= Cardinality(Ids)
    BY IdsCounted
  <1>2. n = Len(Main.vals) /\ FirstIds(n) = Ids /\ Ids = DOMAIN Recs
    BY <1>1, MainIs
  <1>3. Field # {}
    BY DEF DeleteAllRecs, IInv, Ids, Main, DataMemP, Field
  <1>4. Exact(index', Without(Recs, FirstIds(n)))
    BY <1>2, AllDeindexed DEF DeleteAllRecs
  <1>5. Leads(PrimaryIdH', Without(Recs, FirstIds(n)))
    <2>1. DOMAIN Without(Recs, FirstIds(n)) = {}
      BY <1>2 DEF Without
    <2>2. DOMAIN PrimaryIdH' = {} /\ PrimaryIdH' = [v \in DOMAIN PrimaryIdH' |-> PrimaryIdH'[v]]
      BY DEF DeleteAllRecs
    <2>3. PrimaryIdH' \in [DOMAIN PrimaryIdH' -> Id]
      BY <2>2
    <2> QED BY <2>1, <2>2, <2>3 DEF Leads
  <1>6. /\ DataCache' = DelVals(DataCache, Len(DataCache.vals))
        /\ DataMem' = DelVals(DataMem, Len(DataMem.vals))
        /\ CodebookH' = CodebookH /\ FileMatches'
    BY DEF DeleteAllRecs, FileMatches
  <1>7. /\ DataCacheP => n = Len(DataCache.vals)
        /\ DataMemP => n = Len(DataMem.vals)
    BY <1>2 DEF Main, IInv, Aligned
  <1> HIDE DEF n
  <1> QED BY <1>1, <1>3, <1>4, <1>5, <1>6, <1>7, DropKeeps

\* The lists of the inverted index are purged of the batch, the other keys are deindexed record by
\* record; what is dropped below the records that stay is of records that go.
LEMMA BatchKeeps ==
  ASSUME IInv, NEW named \in SUBSET Id, NEW n \in 0..Cardinality(Ids), named \cap Ids = FirstIds(n),
         BatchDeleteRecs(named)
  PROVE  IInv'
  <1> DEFINE gone == FirstIds(n)
  <1>1. n \in Nat /\ n <= Cardinality(Ids)
    BY IdsCounted
  <1>2. gone \in SUBSET Ids /\ Cardinality(gone) = n /\ (Field = {} => n = 0) /\ Ids = DOMAIN Recs
    BY <1>1, MainIs
  <1>3. Exact(index, Recs) /\ Leads(PrimaryIdH, Recs)
    BY DEF IInv
  <1>4. Exact(index', Without(Recs, gone))
    <2>1. PICK mayDropBelow \in BOOLEAN :
            index' = Deindexed(Purged(index, named, mayDropBelow), gone, DOMAIN Keys \ GixKeys)
      BY DEF BatchDeleteRecs
    <2> DEFINE purged == Purged(index, named, mayDropBelow)
               keys == DOMAIN Keys \ GixKeys
               below(r) == \A k \in Ids \ named : r < k
    <2>2. ASSUME NEW item \in Item
          PROVE  /\ purged[item] \in Nat
                 /\ purged[item] = IF item[1] \in keys THEN index[item]
                                   ELSE IF Has(Without(Recs, gone), item) THEN 1 ELSE 0
      <3>1. index[item] = IF Has(Recs, item) THEN 1 ELSE 0
        BY <1>3 DEF Exact
      <3>2. purged[item] = IF item[1] \in GixKeys /\ (item[3] \in named \/ (mayDropBelow /\ below(item[3])))
                           THEN 0 ELSE index[item]
        BY DEF Purged
      <3>3. Has(Without(Recs, gone), item) <=> Has(Recs, item) /\ item[3] \notin gone
        BY DEF Has, Without
      <3>4. item[3] \in gone <=> item[3] \in Ids /\ item[3] \in named
        OBVIOUS
      <3>5. Has(Recs, item) => item[3] \in Ids
        BY <1>2 DEF Has
      <3>6. item[3] \in Ids /\ item[3] \notin named => ~below(item[3])
        <4>1. item[3] \in Nat
          BY ItemIs, StoreAssumption DEF Id
        <4>2. ~(item[3] < item[3])
          BY <4>1
        <4> QED BY <4>2
      <3>7. item[1] \in DOMAIN Keys
        BY ItemIs
      <3> HIDE DEF purged, below, gone
      <3> QED BY <3>1, <3>2, <3>3, <3>4, <3>5, <3>6, <3>7
    <2>3. purged \in [Item -> Nat]
      BY <2>2 DEF Purged
    <2> HIDE DEF gone, purged, keys
    <2>4. Exact(Deindexed(purged, gone, keys), Without(Recs, gone))
      BY <1>2, <1>3, <2>2, <2>3, DeindexedExact
    <2> QED BY <2>1, <2>4 DEF purged, keys
  <1>5. Leads(PrimaryIdH', Without(Recs, gone))
    BY <1>1, UnmappedLeads DEF BatchDeleteRecs
  <1>6. FileMatches'
    <2>1. /\ MetaDirtyP' = (MetaDirtyP \/ (gone # {} /\ IsPrimaryField)) /\ saved' = saved
          /\ PrimaryIdH' = DelPrimaryFields(gone) /\ CodebookH' = CodebookH
      BY DEF BatchDeleteRecs
    <2>2. ASSUME gone = {} PROVE DelPrimaryFields(gone) = PrimaryIdH
      <3>1. PrimaryIdH = [v \in DOMAIN PrimaryIdH |-> PrimaryIdH[v]]
        BY <1>3 DEF Leads
      <3>2. {GetField(r, PrimaryField) : r \in gone} = {}
        BY <2>2
      <3>3. DOMAIN PrimaryIdH \ {} = DOMAIN PrimaryIdH
        OBVIOUS
      <3> QED BY <3>1, <3>2, <3>3 DEF DelPrimaryFields, Unmapped
    <2>3. ~IsPrimaryField => DelPrimaryFields(gone) = PrimaryIdH
      BY DEF DelPrimaryFields
    <2>4. FileMatches
      BY DEF IInv
    <2> HIDE DEF gone
    <2> QED BY <2>1, <2>2, <2>3, <2>4 DEF FileMatches, Current
  <1>7. /\ DataCacheP => DataCache' = DelVals(DataCache, n)
        /\ DataMemP => DataMem' = DelVals(DataMem, n)
        /\ ~DataCacheP => DataCache' = DataCache
        /\ ~DataMemP => DataMem' = DataMem
        /\ CodebookH' = CodebookH
    BY <1>2 DEF BatchDeleteRecs, Drop
  <1>8. Field = {} => DataCache' = DataCache
    BY <1>7 DEF DataCacheP, Field
  <1> QED BY <1>1, <1>4, <1>5, <1>6, <1>7, <1>8, DropKeeps

LEMMA CloseAndOpenKeeps ==
  ASSUME IInv, CloseAndOpen
  PROVE  IInv'
  <1>1. saved' = Current
    BY DEF CloseAndOpen, Current, IInv, FileMatches
  <1>2. /\ PrimaryIdH' = PrimaryIdH /\ CodebookH' = CodebookH
        /\ DataCache' = DataCache /\ DataMem' = DataMem /\ index' = index /\ MetaDirtyP' = FALSE
    BY <1>1 DEF CloseAndOpen, Current
  <1>3. Recs' = Recs
    BY <1>2 DEF Recs
  <1>4. FileMatches'
    BY <1>1, <1>2 DEF FileMatches, Current
  <1> QED BY <1>2, <1>3, <1>4 DEF IInv

(***************************************************************************)
(* Every step.                                                             *)
(***************************************************************************)
LEMMA AddRecKeeps ==
  ASSUME IInv, Careful, NEW json \in Json, AddRec(json)
  PROVE  IInv'
  <1>1. Leads(PrimaryIdH, Recs) /\ DOMAIN Recs = Ids
    BY RecsAre DEF IInv
  <1>2. CASE \E r \in Id : Names(json, r)
    <2>1. PICK r \in Id : Names(json, r) /\ UpdateRec(r, json)
      BY <1>2 DEF AddRec
    <2>2. r \in Ids /\ ~TakenByOther(r, json[PrimaryField])
      BY <1>1, <2>1 DEF Names, Leads, TakenByOther
    <2> QED BY <2>1, <2>2, UpdateKeeps
  <1>3. CASE ~\E r \in Id : Names(json, r)
    <2>1. /\ IsPrimaryField => Given(json, PrimaryField) \in Value
          /\ NextId(DataCache) \in Id /\ NextId(DataMem) \in Id /\ Create(json)
      BY <1>3 DEF AddRec
    <2>2. ASSUME IsPrimaryField, Given(json, PrimaryField) \in DOMAIN PrimaryIdH PROVE FALSE
      <3>1. PrimaryField \in DOMAIN json /\ Given(json, PrimaryField) = json[PrimaryField]
        BY <2>1, <2>2, StoreAssumption DEF Given
      <3>2. PrimaryIdH[json[PrimaryField]] \in Id
        BY <1>1, <2>2, <3>1 DEF Leads
      <3> QED BY <1>3, <2>2, <3>1, <3>2 DEF Names
    <2> QED BY <2>1, <2>2, CreateKeeps
  <1> QED BY <1>2, <1>3

LEMMA NextKeeps == Careful /\ IInv /\ [Next]_vars => IInv'
  <1> SUFFICES ASSUME Careful, IInv, [Next]_vars PROVE IInv'
    OBVIOUS
  <1>1. ASSUME NEW json \in Json, AddRec(json) PROVE IInv'
    BY <1>1, AddRecKeeps
  <1>2. ASSUME NEW json \in Json, NEW r \in Ids,
               PrimaryField \in DOMAIN json /\ ~MayTake => ~TakenByOther(r, json[PrimaryField]), UpdateRec(r, json)
        PROVE  IInv'
    <2>1. PrimaryField \in DOMAIN json => ~TakenByOther(r, json[PrimaryField])
      BY <1>2 DEF Careful
    <2> QED BY <1>2, <2>1, UpdateKeeps
  <1>3. ASSUME NEW r \in Ids, NEW f \in Settable, NEW v \in Value \cup {Null},
               v = Null => f \in Nullable, SetField(r, f, v)
        PROVE  IInv'
    BY <1>3, SetFieldKeeps
  <1>4. ASSUME NEW n \in 1..MaxRecs, Ids # {}, DeleteFirstRecs(n) PROVE IInv'
    <2> DEFINE m == Lesser(n, Cardinality(Ids))
    <2>1. m \in Nat /\ m <= Cardinality(Ids)
      BY IdsCounted DEF Lesser
    <2>2. DeleteRecs(m, m)
      BY <1>4 DEF DeleteFirstRecs
    <2> HIDE DEF m
    <2> QED BY <2>1, <2>2, DeleteKeeps
  <1>5. ASSUME GarbageCollect PROVE IInv'
    <2>1. PICK m \in 1..Cardinality(Ids) : DeleteRecs(Cardinality(Ids) - WindowSize, m)
      BY <1>5 DEF GarbageCollect
    <2>2. Cardinality(Ids) \in Nat /\ m \in Nat /\ m <= Cardinality(Ids)
      BY IdsCounted
    <2>3. DeleteRecs(m, m)
      BY <2>1, <2>2 DEF DeleteRecs
    <2> QED BY <2>2, <2>3, DeleteKeeps
  <1>6. ASSUME DeleteAllRecs PROVE IInv'
    BY <1>6, DeleteAllKeeps
  <1>7. ASSUME NEW named \in SUBSET Id, AnyBatch \/ \E n \in 0..Cardinality(Ids) : named \cap Ids = FirstIds(n),
               BatchDeleteRecs(named)
        PROVE  IInv'
    <2>1. PICK n \in 0..Cardinality(Ids) : named \cap Ids = FirstIds(n)
      BY <1>7 DEF Careful
    <2> QED BY <1>7, <2>1, BatchKeeps
  <1>8. ASSUME CloseAndOpen PROVE IInv'
    BY <1>8, CloseAndOpenKeeps
  <1>9. ASSUME UNCHANGED vars PROVE IInv'
    BY <1>9 DEF vars, meta, IInv, Recs, FileMatches, Current
  <1> QED BY <1>1, <1>2, <1>3, <1>4, <1>5, <1>6, <1>7, <1>8, <1>9 DEF Next

THEOREM StoreIInv == ASSUME Careful PROVE Spec => []IInv
  <1>1. Init => IInv
    BY InitIInv
  <1>2. IInv /\ [Next]_vars => IInv'
    BY NextKeeps
  <1> QED BY <1>1, <1>2, PTL DEF Spec

(***************************************************************************)
(* What a step does to the storages: to each at most one of its operations *)
(* and, if that overwrites a value, to the same record.                    *)
(***************************************************************************)
Stepped(F, st, st2, r) ==
  \/ st2 = st
  \/ \E p \in Part(F) : st2 = AddVal(st, p) \/ (r \in IdsOf(st) /\ st2 = SetVal(st, r, p))
  \/ \E n \in 1..Len(st.vals) : st2 = DelVals(st, n)

LEMMA SteppedKeeps ==
  ASSUME NEW F, NEW st \in Storage(F), NEW st2, NEW r, Stepped(F, st, st2, r)
  PROVE  /\ st2.first >= st.first /\ NextId(st2) >= NextId(st)
         /\ \A s \in IdsOf(st) \cap IdsOf(st2) : s # r => GetVal(st2, s) = GetVal(st, s)
  <1>0. st.first \in Nat /\ Len(st.vals) \in Nat
    BY IdsAre
  <1>1. CASE st2 = st
    BY <1>0, <1>1 DEF NextId
  <1>2. ASSUME NEW p \in Part(F), st2 = AddVal(st, p)
        PROVE  /\ st2.first >= st.first /\ NextId(st2) >= NextId(st)
               /\ \A s \in IdsOf(st) \cap IdsOf(st2) : s # r => GetVal(st2, s) = GetVal(st, s)
    BY <1>0, <1>2, AddValFacts DEF NextId
  <1>3. ASSUME NEW p \in Part(F), r \in IdsOf(st), st2 = SetVal(st, r, p)
        PROVE  /\ st2.first >= st.first /\ NextId(st2) >= NextId(st)
               /\ \A s \in IdsOf(st) \cap IdsOf(st2) : s # r => GetVal(st2, s) = GetVal(st, s)
    BY <1>0, <1>3, SetValFacts DEF NextId
  <1>4. ASSUME NEW n \in 1..Len(st.vals), st2 = DelVals(st, n)
        PROVE  /\ st2.first >= st.first /\ NextId(st2) >= NextId(st)
               /\ \A s \in IdsOf(st) \cap IdsOf(st2) : s # r => GetVal(st2, s) = GetVal(st, s)
    <2>1. n \in Nat /\ n <= Len(st.vals)
      BY <1>0
    <2>2. /\ st2.first = st.first + n /\ Len(st2.vals) = Len(st.vals) - n
          /\ \A s \in IdsOf(st2) : GetVal(st2, s) = GetVal(st, s)
      BY <1>4, <2>1, DelValsFacts
    <2> QED BY <1>0, <2>1, <2>2 DEF NextId
  <1> QED BY <1>1, <1>2, <1>3, <1>4 DEF Stepped

LEMMA DropSteps ==
  ASSUME IInv, NEW n \in 1..Cardinality(Ids), Drop(n), NEW r
  PROVE  Stepped(Disk, DataCache, DataCache', r) /\ Stepped(Memory, DataMem, DataMem', r)
  <1>1. n \in Nat /\ n <= Cardinality(Ids)
    BY IdsCounted
  <1>2. n <= Len(Main.vals)
    BY <1>1, MainIs
  <1>3. /\ DataCacheP => n <= Len(DataCache.vals) /\ Len(DataCache.vals) \in Nat
        /\ DataMemP => n <= Len(DataMem.vals) /\ Len(DataMem.vals) \in Nat
    BY <1>2, IdsAre DEF Main, IInv, Aligned
  <1>4. /\ DataCacheP => n \in 1..Len(DataCache.vals)
        /\ DataMemP => n \in 1..Len(DataMem.vals)
    BY <1>3
  <1> QED BY <1>4 DEF Drop, Stepped

LEMMA EmptiedSteps ==
  ASSUME NEW F, NEW st \in Storage(F), NEW st2, st2 = DelVals(st, Len(st.vals)), NEW r
  PROVE  Stepped(F, st, st2, r)
  <1>1. Len(st.vals) \in Nat /\ st.first \in Nat /\ st.vals \in Seq(Part(F))
    BY IdsAre
  <1>2. CASE Len(st.vals) = 0
    <2>1. st2 = [first |-> st.first, vals |-> <<>>]
      BY <1>1, <1>2 DEF DelVals, Lesser
    <2>2. st = [first |-> st.first, vals |-> <<>>]
      BY <1>1, <1>2 DEF Storage
    <2> QED BY <2>1, <2>2 DEF Stepped
  <1>3. CASE Len(st.vals) # 0
    <2>1. Len(st.vals) \in 1..Len(st.vals)
      BY <1>1, <1>3
    <2> QED BY <2>1 DEF Stepped
  <1> QED BY <1>2, <1>3

LEMMA UpdateSteps ==
  ASSUME IInv, NEW json \in Json, NEW r \in Ids, UpdateRec(r, json)
  PROVE  Stepped(Disk, DataCache, DataCache', r) /\ Stepped(Memory, DataMem, DataMem', r)
  <1>1. ASSUME NEW F \in SUBSET Field, NEW p \in Part(F), Updates(json, F)
        PROVE  SerializeUpdate(p, json) \in Part(F)
    <2>1. \A f \in F \cap DOMAIN json : json[f] \in Value \cup {Null}
      BY <1>1 DEF Updates, Fits, Given
    <2> QED BY <2>1 DEF SerializeUpdate, Part
  <1>2. /\ r \in DOMAIN Recs /\ DOMAIN Recs = Ids /\ Disk \subseteq Field /\ Memory \subseteq Field
        /\ DataCacheP => GetVal(DataCache, r) \in Part(Disk) /\ r \in IdsOf(DataCache)
        /\ DataMemP => GetVal(DataMem, r) \in Part(Memory) /\ r \in IdsOf(DataMem)
    BY RecsAre, RecsIn, SameIds DEF IInv, Recs, Field
  <1>3. \/ DataCache' = DataCache
        \/ /\ Updates(json, Disk) /\ DataCacheP
           /\ DataCache' = SetVal(DataCache, r, SerializeUpdate(GetVal(DataCache, r), json))
    BY DEF UpdateRec, DataCacheP
  <1>4. \/ DataMem' = DataMem
        \/ /\ Updates(json, Memory) /\ DataMemP
           /\ DataMem' = SetVal(DataMem, r, SerializeUpdate(GetVal(DataMem, r), json))
    BY DEF UpdateRec, DataMemP
  <1> QED BY <1>1, <1>2, <1>3, <1>4 DEF Stepped

LEMMA NextSteps ==
  ASSUME IInv, Next
  PROVE  \E r : Stepped(Disk, DataCache, DataCache', r) /\ Stepped(Memory, DataMem, DataMem', r)
  <1> DEFINE Goal == \E r : Stepped(Disk, DataCache, DataCache', r) /\ Stepped(Memory, DataMem, DataMem', r)
  <1>1. ASSUME NEW json \in Json, AddRec(json) PROVE Goal
    <2>1. ASSUME NEW r \in Id, Names(json, r), UpdateRec(r, json) PROVE Goal
      <3>1. r \in Ids
        BY <2>1, RecsAre DEF Names, IInv, Leads
      <3> QED BY <2>1, <3>1, UpdateSteps
    <2>2. ASSUME Create(json) PROVE Goal
      <3>1. ASSUME NEW F \in SUBSET Field, Serializes(json, F) PROVE Serialize(json, F) \in Part(F)
        BY <3>1 DEF Serializes, Serialize, Fits, Part
      <3>2. \/ DataCache' = DataCache
            \/ Serializes(json, Disk) /\ DataCache' = AddVal(DataCache, Serialize(json, Disk))
        BY <2>2 DEF Create
      <3>3. \/ DataMem' = DataMem
            \/ Serializes(json, Memory) /\ DataMem' = AddVal(DataMem, Serialize(json, Memory))
        BY <2>2 DEF Create
      <3>4. Disk \subseteq Field /\ Memory \subseteq Field
        BY DEF Field
      <3> QED BY <3>1, <3>2, <3>3, <3>4 DEF Stepped
    <2> QED BY <1>1, <2>1, <2>2 DEF AddRec
  <1>2. ASSUME NEW json \in Json, NEW r \in Ids, UpdateRec(r, json) PROVE Goal
    BY <1>2, UpdateSteps
  <1>3. ASSUME NEW r \in Ids, NEW f \in Settable, NEW v \in Value \cup {Null}, SetField(r, f, v) PROVE Goal
    <2>1. ASSUME NEW F, NEW p \in Part(F) PROVE [p EXCEPT ![f] = v] \in Part(F)
      BY DEF Part
    <2>2. /\ f \in Disk => DataCacheP
          /\ f \notin Disk => DataMemP
      BY StoreAssumption DEF DataCacheP, DataMemP, Field
    <2>3. /\ DataCacheP => GetVal(DataCache, r) \in Part(Disk) /\ r \in IdsOf(DataCache)
          /\ DataMemP => GetVal(DataMem, r) \in Part(Memory) /\ r \in IdsOf(DataMem)
      BY RecsAre, RecsIn, SameIds DEF IInv, Recs
    <2>4. /\ DataCacheP => [GetVal(DataCache, r) EXCEPT ![f] = v] \in Part(Disk)
          /\ DataMemP => [GetVal(DataMem, r) EXCEPT ![f] = v] \in Part(Memory)
      BY <2>1, <2>3
    <2>5. \/ /\ DataCacheP /\ DataMem' = DataMem
             /\ DataCache' = SetVal(DataCache, r, [GetVal(DataCache, r) EXCEPT ![f] = v])
          \/ /\ DataMemP /\ DataCache' = DataCache
             /\ DataMem' = SetVal(DataMem, r, [GetVal(DataMem, r) EXCEPT ![f] = v])
      BY <1>3, <2>2 DEF SetField
    <2> QED BY <2>3, <2>4, <2>5 DEF Stepped
  <1>4. ASSUME NEW n \in 1..Cardinality(Ids), Drop(n) PROVE Goal
    BY <1>4, DropSteps
  <1>5. ASSUME NEW n \in Nat, n > 0, n <= Cardinality(Ids), Drop(n) PROVE Goal
    <2>1. n \in 1..Cardinality(Ids)
      BY <1>5, IdsCounted
    <2> QED BY <1>5, <2>1, DropSteps
  <1>6. ASSUME NEW n \in 1..MaxRecs, Ids # {}, DeleteFirstRecs(n) PROVE Goal
    <2> DEFINE m == Lesser(n, Cardinality(Ids))
    <2>1. m \in Nat /\ m <= Cardinality(Ids)
      BY IdsCounted DEF Lesser
    <2>2. m > 0 /\ Drop(m)
      BY <1>6 DEF DeleteFirstRecs, DeleteRecs
    <2> HIDE DEF m
    <2> QED BY <1>5, <2>1, <2>2
  <1>7. ASSUME GarbageCollect PROVE Goal
    BY <1>4, <1>7 DEF GarbageCollect, DeleteRecs
  <1>8. ASSUME DeleteAllRecs PROVE Goal
    BY <1>8, EmptiedSteps DEF DeleteAllRecs, IInv, Aligned
  <1>9. ASSUME NEW named \in SUBSET Id, BatchDeleteRecs(named) PROVE Goal
    <2> DEFINE m == Cardinality(named \cap Ids)
    <2>1. Drop(m)
      BY <1>9 DEF BatchDeleteRecs
    <2>2. m \in Nat /\ m <= Cardinality(Ids)
      <3>1. Main.first \in Nat /\ Len(Main.vals) \in Nat
        BY IdsAre DEF IInv, Aligned, Main
      <3>2. IsFiniteSet(Ids)
        BY <3>1, FS_Interval, SMTT(30) DEF Ids, IdsOf
      <3> QED BY <3>2, FS_Subset, FS_CardinalityType
    <2> HIDE DEF m
    <2>3. CASE m = 0
      <3>1. ASSUME NEW F, NEW st \in Storage(F), NEW r PROVE Stepped(F, st, DelVals(st, 0), r)
        <4>1. st.first \in Nat /\ st.vals \in Seq(Part(F)) /\ Len(st.vals) \in Nat
          BY IdsAre
        <4>2. DelVals(st, 0) = [first |-> st.first, vals |-> st.vals]
          <5>1. SubSeq(st.vals, 1, Len(st.vals)) = st.vals /\ st.first + 0 = st.first /\ 0 + 1 = 1
            BY <4>1
          <5>2. Lesser(0, Len(st.vals)) = 0
            BY <4>1 DEF Lesser
          <5> QED BY <5>1, <5>2 DEF DelVals
        <4>3. st = [first |-> st.first, vals |-> st.vals]
          BY DEF Storage
        <4> QED BY <4>2, <4>3 DEF Stepped
      <3>2. \A F, st, r : Stepped(F, st, st, r)
        BY DEF Stepped
      <3> QED BY <2>1, <2>3, <3>1, <3>2 DEF Drop, IInv, Aligned
    <2>4. CASE m # 0
      BY <1>5, <2>1, <2>2, <2>4
    <2> QED BY <2>3, <2>4
  <1>10. ASSUME CloseAndOpen PROVE Goal
    BY <1>10 DEF CloseAndOpen, Stepped
  <1> HIDE DEF Goal
  <1>11. Goal
    BY <1>1, <1>2, <1>3, <1>6, <1>7, <1>8, <1>9, <1>10 DEF Next
  <1> QED BY <1>11 DEF Goal

\* As the steps of ValueStore.
LEMMA SteppedIsPromised ==
  ASSUME NEW F, NEW st \in Storage(F), NEW st2, NEW r, Stepped(F, st, st2, r)
  PROVE  \/ st2 = st
         \/ st2.first = st.first /\ \E p \in Part(F) : st2.vals = Append(st.vals, p)
         \/ /\ st2.first = st.first
            /\ \E id \in IdsOf(st), p \in Part(F) : st2.vals = [st.vals EXCEPT ![id - st.first + 1] = p]
         \/ \E n \in 1..Len(st.vals) : /\ n <= Len(st.vals) /\ st2.first = st.first + n
                                       /\ st2.vals = SubSeq(st.vals, n + 1, Len(st.vals))
  <1>1. ASSUME NEW p \in Part(F), st2 = AddVal(st, p)
        PROVE  st2.first = st.first /\ st2.vals = Append(st.vals, p)
    BY <1>1 DEF AddVal
  <1>2. ASSUME NEW p \in Part(F), st2 = SetVal(st, r, p)
        PROVE  st2.first = st.first /\ st2.vals = [st.vals EXCEPT ![r - st.first + 1] = p]
    BY <1>2 DEF SetVal
  <1>3. ASSUME NEW n \in 1..Len(st.vals), st2 = DelVals(st, n)
        PROVE  n <= Len(st.vals) /\ st2.first = st.first + n /\ st2.vals = SubSeq(st.vals, n + 1, Len(st.vals))
    <2>1. Lesser(n, Len(st.vals)) = n /\ n <= Len(st.vals)
      BY IdsAre DEF Lesser
    <2> QED BY <1>3, <2>1 DEF DelVals
  <1> QED BY <1>1, <1>2, <1>3 DEF Stepped

LEMMA NextPromised ==
  ASSUME IInv, [Next]_vars
  PROVE  /\ [DiskStorage!Next]_<<DataCache.first, DataCache.vals>>
         /\ [MemStorage!Next]_<<DataMem.first, DataMem.vals>>
  <1>1. DataCache \in Storage(Disk) /\ DataMem \in Storage(Memory)
    BY DEF IInv, Aligned
  <1>2. CASE UNCHANGED vars
    BY <1>2 DEF vars
  <1>3. CASE Next
    <2>1. PICK r : Stepped(Disk, DataCache, DataCache', r) /\ Stepped(Memory, DataMem, DataMem', r)
      BY <1>3, NextSteps
    <2>2. [DiskStorage!Next]_<<DataCache.first, DataCache.vals>>
      <3>1. \/ DataCache' = DataCache
            \/ DataCache'.first = DataCache.first /\ \E p \in Part(Disk) : DataCache'.vals = Append(DataCache.vals, p)
            \/ /\ DataCache'.first = DataCache.first
               /\ \E id \in IdsOf(DataCache), p \in Part(Disk) :
                    DataCache'.vals = [DataCache.vals EXCEPT ![id - DataCache.first + 1] = p]
            \/ \E n \in 1..Len(DataCache.vals) : /\ n <= Len(DataCache.vals) /\ DataCache'.first = DataCache.first + n
                                              /\ DataCache'.vals = SubSeq(DataCache.vals, n + 1, Len(DataCache.vals))
        BY <1>1, <2>1, SteppedIsPromised
      <3> QED BY <3>1 DEF DiskStorage!Next, DiskStorage!AddVal, DiskStorage!SetVal, DiskStorage!DelVals, Part, IdsOf
    <2>3. [MemStorage!Next]_<<DataMem.first, DataMem.vals>>
      <3>1. \/ DataMem' = DataMem
            \/ DataMem'.first = DataMem.first /\ \E p \in Part(Memory) : DataMem'.vals = Append(DataMem.vals, p)
            \/ /\ DataMem'.first = DataMem.first
               /\ \E id \in IdsOf(DataMem), p \in Part(Memory) :
                    DataMem'.vals = [DataMem.vals EXCEPT ![id - DataMem.first + 1] = p]
            \/ \E n \in 1..Len(DataMem.vals) : /\ n <= Len(DataMem.vals) /\ DataMem'.first = DataMem.first + n
                                              /\ DataMem'.vals = SubSeq(DataMem.vals, n + 1, Len(DataMem.vals))
        BY <1>1, <2>1, SteppedIsPromised
      <3> QED BY <3>1 DEF MemStorage!Next, MemStorage!AddVal, MemStorage!SetVal, MemStorage!DelVals, Part, IdsOf
    <2> QED BY <2>2, <2>3
  <1> QED BY <1>2, <1>3

LEMMA OneChanges ==
  ASSUME IInv, IInv', [Next]_vars
  PROVE  \/ UNCHANGED vars
         \/ /\ NextId(Main)' >= NextId(Main) /\ Main.first' >= Main.first
            /\ \A r, s \in Ids : /\ r \in Ids' /\ (\E f \in Field : GetField(r, f)' # GetField(r, f))
                                 /\ s \in Ids' /\ (\E f \in Field : GetField(s, f)' # GetField(s, f))
                                 => r = s
  <1>1. CASE UNCHANGED vars
    BY <1>1
  <1>2. CASE Next
    <2>1. PICK k : Stepped(Disk, DataCache, DataCache', k) /\ Stepped(Memory, DataMem, DataMem', k)
      BY <1>2, NextSteps
    <2>2. /\ Aligned(DataCache, DataMem) /\ DataCache \in Storage(Disk) /\ DataMem \in Storage(Memory)
          /\ Aligned(DataCache', DataMem')
      BY DEF IInv, Aligned
    <2>3. /\ DataCache'.first >= DataCache.first /\ NextId(DataCache') >= NextId(DataCache)
          /\ \A s \in IdsOf(DataCache) \cap IdsOf(DataCache') : s # k => GetVal(DataCache', s) = GetVal(DataCache, s)
      BY <2>1, <2>2, SteppedKeeps
    <2>4. /\ DataMem'.first >= DataMem.first /\ NextId(DataMem') >= NextId(DataMem)
          /\ \A s \in IdsOf(DataMem) \cap IdsOf(DataMem') : s # k => GetVal(DataMem', s) = GetVal(DataMem, s)
      BY <2>1, <2>2, SteppedKeeps
    <2>5. NextId(Main)' >= NextId(Main) /\ Main.first' >= Main.first
      BY <2>3, <2>4 DEF Main, NextId
    <2>6. ASSUME NEW s \in Ids, s \in Ids', s # k, NEW f \in Field PROVE GetField(s, f)' = GetField(s, f)
      <3>1. /\ s \in DOMAIN RecsOf(DataCache, DataMem) /\ s \in DOMAIN RecsOf(DataCache', DataMem')
        BY <2>6 DEF Ids, Main, RecsOf
      <3>2. /\ DataCacheP => s \in IdsOf(DataCache) \cap IdsOf(DataCache')
            /\ DataMemP => s \in IdsOf(DataMem) \cap IdsOf(DataMem')
        BY <2>2, <3>1, SameIds
      <3>3. (f \in Disk => DataCacheP) /\ (f \notin Disk => DataMemP)
        BY DEF DataCacheP, DataMemP, Field
      <3> QED BY <2>3, <2>4, <2>6, <3>2, <3>3 DEF GetField
    <2> QED BY <2>5, <2>6
  <1> QED BY <1>1, <1>2

(***************************************************************************)
(* The theorems.                                                           *)
(***************************************************************************)
\* TStoreImpl: through adding, updating, setting, every way of deleting, closing and opening, the
\* two storages hold the two parts of the same records, under ids that stay in range.
THEOREM PartsStayAligned ==
  ASSUME Careful
  PROVE  Spec => []PartsAligned
  BY StoreIInv, IInvImplies, PTL

\* TRecIndexer: the index finds every record under the values its fields have, once, and nothing
\* else, though it is only ever told of changes, part by part.
THEOREM IndexStaysExact ==
  ASSUME Careful
  PROVE  Spec => []IndexExact
  BY StoreIInv, IInvImplies, PTL

\* The primary map leads to the records that have its values, and the codebooks have every string
\* the records hold by number, also after the store was closed and opened: every change of a
\* record marks the metadata dirty.
THEOREM MetaStaysExact ==
  ASSUME Careful
  PROVE  Spec => []MetaExact
  BY StoreIInv, IInvImplies, PTL

\* A step changes one record at most and gives out no id again, and uses each storage by one of the
\* operations that ValueStore promises.
THEOREM RecordsAreKept ==
  ASSUME Careful
  PROVE  Spec => KeepsRecords
  <1>1. Spec => RecordsStay
    <2>1. IInv /\ IInv' /\ [Next]_vars
          => [/\ NextId(Main)' >= NextId(Main) /\ Main.first' >= Main.first
              /\ \A r, s \in Ids : /\ r \in Ids' /\ (\E f \in Field : GetField(r, f)' # GetField(r, f))
                                   /\ s \in Ids' /\ (\E f \in Field : GetField(s, f)' # GetField(s, f))
                                   => r = s]_vars
      BY OneChanges
    <2> QED BY <2>1, StoreIInv, PTL DEF Spec, RecordsStay
  <1>2. Spec => UsesStorages
    <2>1. Init => DiskStorage!Init /\ MemStorage!Init
      BY DEF Init, DiskStorage!Init, MemStorage!Init
    <2>2. IInv /\ [Next]_vars
          => [DiskStorage!Next]_(DiskStorage!vars) /\ [MemStorage!Next]_(MemStorage!vars)
      BY NextPromised DEF DiskStorage!vars, MemStorage!vars
    <2> QED BY <2>1, <2>2, StoreIInv, PTL DEF Spec, UsesStorages, DiskStorage!Spec, MemStorage!Spec
  <1> QED BY <1>1, <1>2, PTL DEF KeepsRecords

(***************************************************************************)
(* The storages of the checked instance: what StorageProofs shows of each, *)
(* of whichever was chosen.  The ones that were not stand still.           *)
(***************************************************************************)
StoragesInv ==
  /\ kind \in {"store", "disk", "memory", "lazy"}
  /\ OnDisk!IInv
  /\ IF kind = "lazy" THEN Lazily!MemIInv ELSE Loaded!MemIInv

LEMMA StoragesInit ==
  ASSUME MCInit
  PROVE  /\ StoragesInv
         /\ OnDisk!Promise!Init /\ Loaded!InCore!Promise!Init
  <1>1. OnDisk!Init /\ Loaded!InCore!Init /\ kind \in {"store", "disk", "memory", "lazy"}
    BY DEF MCInit
  <1>2. Lazily!InCore!Init
    BY <1>1 DEF Loaded!InCore!Init, Lazily!InCore!Init
  <1>3. OnDisk!IInv /\ OnDisk!Promise!Init
    BY <1>1, CarefulAssumption, OnDisk!InitKeeps
  <1>4. Loaded!MemIInv /\ Loaded!InCore!Promise!Init
    BY <1>1, CarefulAssumption, Loaded!MemInitKeeps
  <1>5. Lazily!MemIInv
    BY <1>2, CarefulAssumption, Lazily!MemInitKeeps
  <1> QED BY <1>1, <1>3, <1>4, <1>5 DEF StoragesInv

LEMMA StoragesNext ==
  ASSUME StoragesInv, [MCNext]_all
  PROVE  /\ StoragesInv' /\ kind' = kind
         /\ [OnDisk!Promise!Next]_(OnDisk!Promise!vars)
         /\ kind # "lazy" => [Loaded!InCore!Promise!Next]_(Loaded!InCore!Promise!vars)
         /\ kind = "lazy" => [Lazily!InCore!Promise!Next]_(Lazily!InCore!Promise!vars)
  <1>1. kind' = kind /\ OnDisk!IInv
    BY DEF MCNext, all, StoragesInv
  <1>2. [OnDisk!Next]_(OnDisk!vars)
    BY DEF MCNext, all, disk, OnDisk!vars
  <1>3. OnDisk!IInv' /\ [OnDisk!Promise!Next]_(OnDisk!Promise!vars)
    BY <1>1, <1>2, CarefulAssumption, OnDisk!NextKeeps
  <1>4. CASE kind = "lazy"
    <2>1. [Lazily!InCore!Next]_(Lazily!InCore!vars) /\ Lazily!MemIInv
      BY <1>4 DEF MCNext, all, mem, Lazily!InCore!vars, StoragesInv
    <2>2. Lazily!MemIInv' /\ [Lazily!InCore!Promise!Next]_(Lazily!InCore!Promise!vars)
      BY <2>1, CarefulAssumption, Lazily!MemNextKeeps
    <2> QED BY <1>1, <1>3, <1>4, <2>2 DEF StoragesInv
  <1>5. CASE kind # "lazy"
    <2>1. [Loaded!InCore!Next]_(Loaded!InCore!vars) /\ Loaded!MemIInv
      BY <1>5 DEF MCNext, all, mem, Loaded!InCore!vars, StoragesInv
    <2>2. Loaded!MemIInv' /\ [Loaded!InCore!Promise!Next]_(Loaded!InCore!Promise!vars)
      BY <2>1, CarefulAssumption, Loaded!MemNextKeeps
    <2> QED BY <1>1, <1>3, <1>5, <2>2 DEF StoragesInv
  <1> QED BY <1>4, <1>5

LEMMA StoragesInvariant == MCSpec => []StoragesInv
  BY StoragesInit, StoragesNext, PTL DEF MCSpec

\* Whichever storage a field is in, on disk behind a cache, in memory, or in memory opened lazily:
\* what is not marked as changed is on disk as it is (StoreBlock, SaveRec).
THEOREM StoragesStayOnDisk == MCSpec => []CleanOnDisk
  <1>1. StoragesInv => CleanOnDisk
    <2> SUFFICES ASSUME StoragesInv PROVE CleanOnDisk
      OBVIOUS
    <2>1. OnDisk!CleanOnDisk
      BY CarefulAssumption, OnDisk!SoundBlocks DEF StoragesInv
    <2>2. kind # "lazy" => Loaded!InCore!CleanOnDisk
      BY DEF StoragesInv, Loaded!MemIInv
    <2>3. kind = "lazy" => Lazily!InCore!CleanOnDisk
      BY DEF StoragesInv, Lazily!MemIInv
    <2> QED BY <2>1, <2>2, <2>3 DEF CleanOnDisk
  <1> QED BY <1>1, StoragesInvariant, PTL

\* Whichever it is, it keeps the promise of ValueStore that a record store relies on: AddVal,
\* SetVal and DelVals do to the values what they say, and everything else does nothing to them.
THEOREM StoragesKeepTheirPromise == MCSpec => KeepsItsPromise
  <1>1. MCInit => OnDisk!Promise!Init /\ Loaded!InCore!Promise!Init
    BY StoragesInit
  <1>2. StoragesInv /\ [MCNext]_all
          => [CASE kind = "disk" -> [OnDisk!Promise!Next]_(OnDisk!Promise!vars)
                [] kind = "memory" -> [Loaded!InCore!Promise!Next]_(Loaded!InCore!Promise!vars)
                [] kind = "lazy" -> [Lazily!InCore!Promise!Next]_(Lazily!InCore!Promise!vars)
                [] OTHER -> TRUE]_<<disk, mem>>
    BY StoragesNext
  <1> QED BY <1>1, <1>2, StoragesInvariant, PTL DEF MCSpec, KeepsItsPromise

(***************************************************************************)
(* The time window over the records of a store (WinBuf): for any window,   *)
(* delay, retention, times and values.                                     *)
(***************************************************************************)
CONSTANTS WinSizeMSecs, DelayMSecs, KeptFor, Time, Number, Existing, MaxWindowRecs
VARIABLES recs, first, A, B, C, D, InitP, Timestamp, signal, failed, base, hist

Win == INSTANCE WinBuf WITH Value <- Number, WindowSize <- KeptFor, MaxRecs <- MaxWindowRecs

\* The loops of OnTime end at the first id they look for.
LEMMA LeastIdIs ==
  ASSUME NEW S \in SUBSET Nat, S # {}
  PROVE  Win!Least(S) \in S /\ \A n \in S : Win!Least(S) <= n
  <1> DEFINE Earlier == OpToRel(<, Nat)
  <1>1. IsWellFoundedOn(Earlier, Nat)
    BY NatLessThanWellFounded
  <1>2. \A m, n \in Nat : <<m, n>> \in Earlier <=> m < n
    BY DEF OpToRel
  <1> HIDE DEF Earlier
  <1>3. \E n \in S : \A m \in S : ~(<<m, n>> \in Earlier)
    BY <1>1, WFMin
  <1>4. \E n \in S : \A m \in S : n <= m
    <2>1. PICK n \in S : \A m \in S : ~(<<m, n>> \in Earlier)
      BY <1>3
    <2>2. n \in Nat /\ \A m \in S : m \in Nat /\ ~(m < n)
      BY <1>2, <2>1
    <2> QED BY <2>2
  <1> QED BY <1>4 DEF Win!Least


(***************************************************************************)
(* Records in the order of time.  An id splits them at an edge if those    *)
(* before it are the ones with a time before the edge.                     *)
(***************************************************************************)
TimedRec == [tm : Time, val : Number]
Sorted(rs) == \A i, j \in DOMAIN rs : i <= j => rs[i].tm <= rs[j].tm
SplitAt(rs, from, n, edge) ==
  n \in from..Len(rs) /\ \A id \in from..Len(rs) - 1 : id < n <=> Win!Tm(rs, id) < edge
\* What was collected is so old at time t that the store need not have it.
GoneBy(rs, t) == first \in 0..Len(rs) /\ \A id \in 0..first - 1 : Win!Tm(rs, id) < t - KeptFor

LEMMA TmIs ==
  ASSUME Win!ConstantsOK, NEW rs \in Seq(TimedRec), NEW id \in 0..Len(rs) - 1
  PROVE  id + 1 \in DOMAIN rs /\ Win!Tm(rs, id) \in Nat /\ rs[id + 1] \in TimedRec
  <1>1. Len(rs) \in Nat /\ DOMAIN rs = 1..Len(rs) /\ id + 1 \in 1..Len(rs)
    OBVIOUS
  <1>2. rs[id + 1] \in TimedRec
    BY <1>1
  <1> QED BY <1>1, <1>2 DEF Win!Tm, TimedRec, Win!ConstantsOK

LEMMA TmSorted ==
  ASSUME Win!ConstantsOK, NEW rs \in Seq(TimedRec), Sorted(rs), NEW id \in 0..Len(rs) - 1, NEW n \in 0..Len(rs) - 1, id <= n
  PROVE  Win!Tm(rs, id) <= Win!Tm(rs, n)
  BY TmIs DEF Sorted, Win!Tm

\* The loops go over records that were collected as if they were read.
LEMMA NotBeforeSplits ==
  ASSUME Win!ConstantsOK, NEW rs \in Seq(TimedRec), Sorted(rs), NEW t \in Nat, GoneBy(rs, t),
         NEW b \in Nat, NEW from \in b..Len(rs),
         \A id \in b..from - 1 : Win!Tm(rs, id) < t - DelayMSecs - WinSizeMSecs
  PROVE  /\ Win!NotBefore(rs, from, t) \in from..Len(rs) /\ Win!NotBefore(rs, from, t) >= first
         /\ SplitAt(rs, b, Win!NotBefore(rs, from, t), t - DelayMSecs - WinSizeMSecs)
  <1> DEFINE edge == t - DelayMSecs - WinSizeMSecs
             S == {id \in from..Len(rs) + from : ~Win!BeforeBuffer(rs, id, t)}
             n == Win!NotBefore(rs, from, t)
  <1>1. /\ Len(rs) \in Nat /\ from \in Nat /\ from <= Len(rs) /\ first \in Nat /\ first <= Len(rs)
        /\ edge \in Int
    BY DEF GoneBy, Win!ConstantsOK
  <1>2. ASSUME NEW id \in 0..Len(rs) - 1 PROVE Win!BeforeBuffer(rs, id, t) <=> Win!Tm(rs, id) < edge
    <2>1. Win!Tm(rs, id) \in Nat
      BY TmIs
    <2>2. id < first => Win!Tm(rs, id) < edge
      BY <1>1, <2>1 DEF GoneBy, Win!ConstantsOK
    <2> QED BY <1>1, <2>1, <2>2 DEF Win!BeforeBuffer, Win!InStore
  <1>3. ~Win!BeforeBuffer(rs, Len(rs), t)
    BY <1>1 DEF Win!BeforeBuffer, Win!InStore
  <1>4. ASSUME NEW id \in S PROVE id >= first
    BY <1>1 DEF Win!BeforeBuffer
  <1>5. S \in SUBSET Nat /\ Len(rs) \in S
    BY <1>1, <1>3
  <1>6. n \in S /\ \A id \in S : n <= id
    <2> HIDE DEF S
    <2>1. Win!Least(S) \in S /\ \A id \in S : Win!Least(S) <= id
      BY <1>5, LeastIdIs
    <2> QED BY <2>1 DEF Win!NotBefore, S
  <1>7. n \in from..Len(rs) /\ n >= first
    BY <1>1, <1>4, <1>5, <1>6
  <1>8. ASSUME NEW id \in b..Len(rs) - 1 PROVE id < n <=> Win!Tm(rs, id) < edge
    <2>1. id \in 0..Len(rs) - 1 /\ Win!Tm(rs, id) \in Nat
      BY <1>1, TmIs
    <2>2. CASE id < from
      BY <1>1, <1>7, <2>2
    <2>3. CASE from <= id /\ id < n
      <3>1. id \notin S
        BY <1>1, <1>6, <2>3
      <3>2. Win!BeforeBuffer(rs, id, t)
        BY <1>1, <2>1, <2>3, <3>1
      <3> QED BY <1>2, <2>1, <2>3, <3>2
    <2>4. CASE n <= id
      <3>1. n \in 0..Len(rs) - 1
        BY <1>1, <1>7, <2>1, <2>4
      <3>2. ~(Win!Tm(rs, n) < edge)
        BY <1>2, <1>6, <3>1
      <3>3. Win!Tm(rs, n) <= Win!Tm(rs, id) /\ Win!Tm(rs, n) \in Nat
        BY <2>1, <2>4, <3>1, TmSorted, TmIs
      <3> HIDE DEF n, edge
      <3> QED BY <1>1, <2>1, <2>4, <3>1, <3>2, <3>3
    <2> QED BY <1>1, <1>7, <2>1, <2>2, <2>3, <2>4
  <1>9. n \in b..Len(rs)
    BY <1>1, <1>7
  <1> QED BY <1>7, <1>8, <1>9 DEF SplitAt

LEMMA IsAfterSplits ==
  ASSUME Win!ConstantsOK, NEW rs \in Seq(TimedRec), Sorted(rs), NEW t \in Nat, GoneBy(rs, t),
         NEW b \in Nat, NEW from \in b..Len(rs),
         \A id \in b..from - 1 : Win!Tm(rs, id) < t - DelayMSecs + 1
  PROVE  Win!IsAfter(rs, from, t) \in from..Len(rs) /\ SplitAt(rs, b, Win!IsAfter(rs, from, t), t - DelayMSecs + 1)
  <1> DEFINE edge == t - DelayMSecs + 1
             S == {id \in from..Len(rs) + from : Win!AfterBuffer(rs, id, t)}
             n == Win!IsAfter(rs, from, t)
  <1>1. /\ Len(rs) \in Nat /\ from \in Nat /\ from <= Len(rs) /\ first \in Nat /\ first <= Len(rs)
        /\ edge \in Int
    BY DEF GoneBy, Win!ConstantsOK
  <1>2. ASSUME NEW id \in 0..Len(rs) - 1 PROVE Win!AfterBuffer(rs, id, t) <=> ~(Win!Tm(rs, id) < edge)
    <2>1. Win!Tm(rs, id) \in Nat
      BY TmIs
    <2>2. id < first => Win!Tm(rs, id) < edge
      BY <1>1, <2>1 DEF GoneBy, Win!ConstantsOK
    <2>3. Win!Tm(rs, id) > t - DelayMSecs <=> ~(Win!Tm(rs, id) < edge)
      BY <2>1 DEF Win!ConstantsOK
    <2> HIDE DEF edge
    <2> QED BY <1>1, <2>1, <2>2, <2>3 DEF Win!AfterBuffer, Win!InStore
  <1>5. S \in SUBSET Nat /\ Len(rs) \in S
    BY <1>1 DEF Win!AfterBuffer
  <1>6. n \in S /\ \A id \in S : n <= id
    <2> HIDE DEF S
    <2>1. Win!Least(S) \in S /\ \A id \in S : Win!Least(S) <= id
      BY <1>5, LeastIdIs
    <2> QED BY <2>1 DEF Win!IsAfter, S
  <1>7. n \in from..Len(rs)
    BY <1>1, <1>5, <1>6
  <1>8. ASSUME NEW id \in b..Len(rs) - 1 PROVE id < n <=> Win!Tm(rs, id) < edge
    <2>1. id \in 0..Len(rs) - 1 /\ Win!Tm(rs, id) \in Nat
      BY <1>1, TmIs
    <2>2. CASE id < from
      BY <1>1, <1>7, <2>2
    <2>3. CASE from <= id /\ id < n
      <3>1. id \notin S
        BY <1>1, <1>6, <2>3
      <3>2. ~Win!AfterBuffer(rs, id, t)
        BY <1>1, <2>1, <2>3, <3>1
      <3> QED BY <1>2, <2>1, <2>3, <3>2
    <2>4. CASE n <= id
      <3>1. n \in 0..Len(rs) - 1
        BY <1>1, <1>7, <2>1, <2>4
      <3>2. ~(Win!Tm(rs, n) < edge)
        BY <1>2, <1>6, <3>1
      <3>3. Win!Tm(rs, n) <= Win!Tm(rs, id) /\ Win!Tm(rs, n) \in Nat
        BY <2>1, <2>4, <3>1, TmSorted, TmIs
      <3> HIDE DEF n, edge
      <3> QED BY <1>1, <2>1, <2>4, <3>1, <3>2, <3>3
    <2> QED BY <1>1, <1>7, <2>1, <2>2, <2>3, <2>4
  <1>9. n \in b..Len(rs)
    BY <1>1, <1>7
  <1> QED BY <1>7, <1>8, <1>9 DEF SplitAt

(***************************************************************************)
(* The inductive invariant.                                                *)
(***************************************************************************)
LastTm(rs) == rs[Len(rs)].tm
\* The window is split off the records since base at the last time it was told; before it was
\* told any, it is empty.
WindowSplits ==
  IF InitP THEN /\ recs # <<>> /\ Timestamp >= LastTm(recs)
                /\ SplitAt(recs, base, B, Timestamp - DelayMSecs - WinSizeMSecs)
                /\ SplitAt(recs, base, D, Timestamp - DelayMSecs + 1)
  ELSE base <= Len(recs) /\ B = base /\ D = base
WindowIInv ==
  /\ Win!TypeOK /\ Sorted(recs)
  /\ recs = <<>> => first = 0
  /\ recs # <<>> => GoneBy(recs, LastTm(recs))
  /\ WindowSplits
  /\ Win!NothingIsMissing

LEMMA WindowInitIInv ==
  ASSUME Win!ConstantsOK
  PROVE  Win!Init => WindowIInv
  <1> SUFFICES ASSUME Win!Init PROVE WindowIInv
    OBVIOUS
  <1>1. recs \in Seq(TimedRec) /\ Sorted(recs)
    BY DEF Win!Init, TimedRec, Sorted, Win!ConstantsOK
  <1>2. Win!TypeOK
    BY <1>1 DEF Win!Init, Win!TypeOK, TimedRec
  <1>3. recs # <<>> => GoneBy(recs, LastTm(recs))
    BY <1>1 DEF Win!Init, GoneBy
  <1> QED BY <1>1, <1>2, <1>3 DEF Win!Init, WindowIInv, WindowSplits, Win!NothingIsMissing

LEMMA WindowIInvImplies ==
  ASSUME Win!ConstantsOK
  PROVE  WindowIInv => Win!WindowIsExact /\ Win!NothingIsMissing
  <1> SUFFICES ASSUME WindowIInv, InitP, NEW id \in 0..Len(recs) - 1
               PROVE  B <= id /\ id < D <=> base <= id /\ Win!InWindow(id)
    BY DEF WindowIInv, Win!WindowIsExact
  <1>1. /\ recs \in Seq(TimedRec) /\ Len(recs) \in Nat /\ base \in Nat /\ Timestamp \in Nat
        /\ B \in base..Len(recs) /\ D \in base..Len(recs) /\ id \in Nat /\ id < Len(recs)
        /\ DelayMSecs \in Nat /\ WinSizeMSecs \in Nat
    BY DEF WindowIInv, Win!TypeOK, TimedRec, WindowSplits, SplitAt, Win!ConstantsOK
  <1>2. Win!Tm(recs, id) \in Nat
    BY <1>1, TmIs
  <1>3. base <= id => /\ id < B <=> Win!Tm(recs, id) < Timestamp - DelayMSecs - WinSizeMSecs
                      /\ id < D <=> Win!Tm(recs, id) < Timestamp - DelayMSecs + 1
    BY <1>1 DEF WindowIInv, WindowSplits, SplitAt
  <1> QED BY <1>1, <1>2, <1>3 DEF Win!InWindow

\* Time goes on to t, with records rs.  What leaves the window is still in the store, for it was in
\* the window when garbage was collected last.
LEMMA WindowUpdates ==
  ASSUME Win!ConstantsOK, NEW rs \in Seq(TimedRec), rs # <<>>, Sorted(rs), NEW t \in Nat, t >= LastTm(rs), GoneBy(rs, t),
         base \in Nat, B \in base..Len(rs), D \in base..Len(rs), failed = FALSE,
         \A id \in base..B - 1 : Win!Tm(rs, id) < t - DelayMSecs - WinSizeMSecs,
         \A id \in base..D - 1 : Win!Tm(rs, id) < t - DelayMSecs + 1,
         first <= B \/ B = D,
         Win!UpdateTo(rs, t)
  PROVE  /\ InitP' = TRUE /\ Timestamp' = t /\ A' = B /\ C' = D /\ B' \in Nat /\ D' \in Nat
         /\ SplitAt(rs, base, B', t - DelayMSecs - WinSizeMSecs)
         /\ SplitAt(rs, base, D', t - DelayMSecs + 1)
         /\ failed' = FALSE
  <1> DEFINE b == Win!NotBefore(rs, B, t)
             d == Win!IsAfter(rs, D, t)
  <1>1. /\ b \in B..Len(rs) /\ b >= first
        /\ SplitAt(rs, base, b, t - DelayMSecs - WinSizeMSecs)
    BY NotBeforeSplits
  <1>2. d \in D..Len(rs) /\ SplitAt(rs, base, d, t - DelayMSecs + 1)
    BY IsAfterSplits
  <1>3. /\ Len(rs) \in Nat /\ first \in Nat /\ first <= Len(rs) /\ B \in Nat /\ D \in Nat
        /\ b \in Nat /\ d \in Nat
    BY <1>1, <1>2 DEF GoneBy
  <1> HIDE DEF b, d
  <1>4. Win!Readable(rs, D + Win!Skip(b, D), d)
    BY <1>1, <1>2, <1>3 DEF Win!Readable, Win!Skip, Win!InStore
  <1>5. Win!Readable(rs, B, b - Win!Skip(b, D))
    BY <1>1, <1>2, <1>3 DEF Win!Readable, Win!Skip, Win!InStore
  <1>6. /\ InitP' = TRUE /\ Timestamp' = t /\ A' = B /\ C' = D /\ B' = b /\ D' = d
        /\ failed' = FALSE
    BY <1>4, <1>5 DEF Win!UpdateTo, b, d
  <1> QED BY <1>1, <1>2, <1>3, <1>6

LEMMA OldWindow ==
  ASSUME Win!ConstantsOK, WindowIInv, NEW t \in Nat, t >= Timestamp
  PROVE  /\ base \in Nat /\ B \in base..Len(recs) /\ D \in base..Len(recs) /\ failed = FALSE
         /\ \A id \in base..B - 1 : Win!Tm(recs, id) < t - DelayMSecs - WinSizeMSecs
         /\ \A id \in base..D - 1 : Win!Tm(recs, id) < t - DelayMSecs + 1
         /\ first <= B \/ B = D
  <1>1. /\ recs \in Seq(TimedRec) /\ Len(recs) \in Nat /\ base \in Nat /\ Timestamp \in Nat /\ failed = FALSE
        /\ DelayMSecs \in Nat /\ WinSizeMSecs \in Nat /\ KeptFor \in Nat
        /\ KeptFor >= WinSizeMSecs + DelayMSecs
    BY DEF WindowIInv, Win!TypeOK, TimedRec, Win!NothingIsMissing, Win!ConstantsOK
  <1>2. CASE ~InitP
    BY <1>1, <1>2 DEF WindowIInv, WindowSplits, Win!TypeOK
  <1>3. CASE InitP
    <2>1. /\ B \in base..Len(recs) /\ D \in base..Len(recs) /\ GoneBy(recs, LastTm(recs))
          /\ Timestamp >= LastTm(recs) /\ recs # <<>>
      BY <1>3 DEF WindowIInv, WindowSplits, SplitAt
    <2>2. ASSUME NEW id \in base..Len(recs) - 1
          PROVE  /\ Win!Tm(recs, id) \in Nat /\ id \in 0..Len(recs) - 1
                 /\ id < B <=> Win!Tm(recs, id) < Timestamp - DelayMSecs - WinSizeMSecs
                 /\ id < D <=> Win!Tm(recs, id) < Timestamp - DelayMSecs + 1
      <3>1. id \in 0..Len(recs) - 1
        BY <1>1
      <3> QED BY <1>3, <3>1, TmIs, <1>1 DEF WindowIInv, WindowSplits, SplitAt
    <2>3. \A id \in base..B - 1 : id \in base..Len(recs) - 1 /\ id < B
      BY <1>1, <2>1
    <2>4. \A id \in base..D - 1 : id \in base..Len(recs) - 1 /\ id < D
      BY <1>1, <2>1
    <2>5. ASSUME ~(first <= B) PROVE FALSE
      <3>1. first \in 0..Len(recs) /\ LastTm(recs) \in Nat
        <4>1. LastTm(recs) = Win!Tm(recs, Len(recs) - 1) /\ Len(recs) - 1 \in 0..Len(recs) - 1
          BY <1>1, <2>1 DEF LastTm, Win!Tm
        <4> QED BY <1>1, <2>1, <4>1, TmIs DEF GoneBy
      <3>2. B \in base..Len(recs) - 1 /\ B \in 0..first - 1
        BY <1>1, <2>1, <2>5, <3>1
      <3>3. Win!Tm(recs, B) < LastTm(recs) - KeptFor
        BY <2>1, <3>2 DEF GoneBy
      <3>4. Win!Tm(recs, B) < Timestamp - DelayMSecs - WinSizeMSecs
        BY <1>1, <2>1, <2>2, <3>1, <3>2, <3>3
      <3> QED BY <1>1, <2>2, <3>2, <3>4
    <2>6. \A id \in base..B - 1 : Win!Tm(recs, id) < t - DelayMSecs - WinSizeMSecs
      BY <1>1, <2>2, <2>3
    <2>7. \A id \in base..D - 1 : Win!Tm(recs, id) < t - DelayMSecs + 1
      BY <1>1, <2>2, <2>4
    <2> QED BY <1>1, <2>1, <2>5, <2>6, <2>7
  <1> QED BY <1>2, <1>3

\* A record appended is the last one, and the others keep their places.
LEMMA AppendedRec ==
  ASSUME NEW S, NEW rs \in Seq(S), NEW x \in S
  PROVE  /\ Append(rs, x) \in Seq(S) /\ Len(Append(rs, x)) = Len(rs) + 1 /\ Append(rs, x) # <<>>
         /\ \A n \in 1..Len(rs) : Append(rs, x)[n] = rs[n]
         /\ Append(rs, x)[Len(rs) + 1] = x
  OBVIOUS

(***************************************************************************)
(* Every step.                                                             *)
(***************************************************************************)
LEMMA WindowAddRecKeeps ==
  ASSUME Win!ConstantsOK, WindowIInv, NEW t \in Time, NEW v \in Number, Win!AddRec(t, v)
  PROVE  WindowIInv'
  <1> DEFINE rs == Append(recs, [tm |-> t, val |-> v])
  <1>1. /\ recs \in Seq(TimedRec) /\ Len(recs) \in Nat /\ t \in Nat /\ [tm |-> t, val |-> v] \in TimedRec
        /\ Timestamp \in Nat /\ t >= Timestamp /\ (recs # <<>> => t >= LastTm(recs))
        /\ KeptFor \in Nat
    <2>1. Time \subseteq Nat /\ KeptFor \in Nat
      BY DEF Win!ConstantsOK
    <2>2. recs \in Seq(TimedRec) /\ Timestamp \in Nat
      BY DEF WindowIInv, Win!TypeOK, TimedRec
    <2>3. t >= Timestamp /\ (recs # <<>> => t >= LastTm(recs))
      BY DEF Win!AddRec, Win!Reached, LastTm
    <2>4. Len(recs) \in Nat /\ t \in Nat /\ [tm |-> t, val |-> v] \in TimedRec
      BY <2>1, <2>2 DEF TimedRec
    <2> QED BY <2>1, <2>2, <2>3, <2>4
  <1>2. /\ rs \in Seq(TimedRec) /\ Len(rs) = Len(recs) + 1 /\ rs # <<>> /\ LastTm(rs) = t
        /\ \A n \in 1..Len(recs) : rs[n] = recs[n]
        /\ rs[Len(recs) + 1] = [tm |-> t, val |-> v]
    <2>1. /\ rs \in Seq(TimedRec) /\ Len(rs) = Len(recs) + 1 /\ rs # <<>>
          /\ \A n \in 1..Len(recs) : rs[n] = recs[n]
          /\ rs[Len(recs) + 1] = [tm |-> t, val |-> v]
      BY <1>1, AppendedRec
    <2> HIDE DEF rs
    <2>2. LastTm(rs) = rs[Len(recs) + 1].tm
      BY <2>1 DEF LastTm
    <2> QED BY <2>1, <2>2
  <1> HIDE DEF rs
  <1>3. \A id \in 0..Len(recs) - 1 : Win!Tm(rs, id) = Win!Tm(recs, id) /\ Win!Tm(recs, id) \in Nat
    BY <1>1, <1>2, TmIs DEF Win!Tm
  <1>4. Sorted(rs)
    <2>1. \A i \in DOMAIN recs : recs[i].tm <= t /\ recs[i].tm \in Nat
      <3>1. ASSUME NEW i \in DOMAIN recs PROVE recs[i].tm <= t /\ recs[i].tm \in Nat
        <4>1. i \in 1..Len(recs) /\ Len(recs) \in DOMAIN recs /\ i <= Len(recs) /\ recs # <<>>
          BY <1>1
        <4>2. recs[i].tm <= recs[Len(recs)].tm
          BY <4>1 DEF WindowIInv, Sorted
        <4>3. recs[i].tm \in Nat /\ recs[Len(recs)].tm \in Nat
          <5>1. recs[i] \in TimedRec /\ recs[Len(recs)] \in TimedRec
            BY <1>1, <4>1
          <5>2. \A r \in TimedRec : r.tm \in Time
            BY DEF TimedRec
          <5>3. Time \subseteq Nat
            BY DEF Win!ConstantsOK
          <5> QED BY <5>1, <5>2, <5>3
        <4> QED BY <1>1, <4>1, <4>2, <4>3 DEF LastTm
      <3> QED BY <3>1
    <2>2. ASSUME NEW i \in DOMAIN rs, NEW j \in DOMAIN rs, i <= j PROVE rs[i].tm <= rs[j].tm
      <3>1. i \in 1..Len(recs) + 1 /\ j \in 1..Len(recs) + 1
        BY <1>2
      <3>2. CASE j \in 1..Len(recs)
        <4>1. i \in 1..Len(recs)
          BY <1>1, <2>2, <3>1, <3>2
        <4> QED BY <1>1, <1>2, <2>2, <3>2, <4>1 DEF WindowIInv, Sorted
      <3>3. CASE j = Len(recs) + 1
        <4>1. CASE i \in 1..Len(recs)
          BY <1>1, <1>2, <2>1, <3>3, <4>1
        <4>2. CASE i = Len(recs) + 1
          BY <1>1, <1>2, <3>3, <4>2
        <4> QED BY <1>1, <3>1, <4>1, <4>2
      <3> QED BY <1>1, <3>1, <3>2, <3>3
    <2> QED BY <2>2 DEF Sorted
  <1>5. GoneBy(rs, t)
    <2>1. CASE recs = <<>>
      BY <1>1, <1>2, <2>1 DEF WindowIInv, GoneBy
    <2>2. CASE recs # <<>>
      <3>1. GoneBy(recs, LastTm(recs)) /\ LastTm(recs) \in Nat
        <4>1. LastTm(recs) = Win!Tm(recs, Len(recs) - 1) /\ Len(recs) - 1 \in 0..Len(recs) - 1
          BY <1>1, <2>2 DEF LastTm, Win!Tm
        <4> QED BY <1>1, <2>2, <4>1, TmIs DEF WindowIInv
      <3>2. \A id \in 0..first - 1 : id \in 0..Len(recs) - 1
        BY <1>1, <3>1 DEF GoneBy
      <3> QED BY <1>1, <1>2, <1>3, <2>2, <3>1, <3>2 DEF GoneBy
    <2> QED BY <2>1, <2>2
  <1>6. /\ base \in Nat /\ B \in base..Len(rs) /\ D \in base..Len(rs) /\ failed = FALSE
        /\ \A id \in base..B - 1 : Win!Tm(rs, id) < t - DelayMSecs - WinSizeMSecs
        /\ \A id \in base..D - 1 : Win!Tm(rs, id) < t - DelayMSecs + 1
        /\ first <= B \/ B = D
    <2>1. /\ base \in Nat /\ B \in base..Len(recs) /\ D \in base..Len(recs) /\ failed = FALSE
          /\ \A id \in base..B - 1 : Win!Tm(recs, id) < t - DelayMSecs - WinSizeMSecs
          /\ \A id \in base..D - 1 : Win!Tm(recs, id) < t - DelayMSecs + 1
          /\ first <= B \/ B = D
      BY <1>1, OldWindow
    <2>2. /\ \A id \in base..B - 1 : id \in 0..Len(recs) - 1
          /\ \A id \in base..D - 1 : id \in 0..Len(recs) - 1
      BY <1>1, <2>1
    <2>3. B \in base..Len(rs) /\ D \in base..Len(rs)
      BY <1>1, <1>2, <2>1
    <2> QED BY <1>3, <2>1, <2>2, <2>3
  <1>7. Win!UpdateTo(rs, t) /\ recs' = rs /\ first' = first /\ base' = base
    BY DEF Win!AddRec, rs
  <1>8. /\ InitP' = TRUE /\ Timestamp' = t /\ A' = B /\ C' = D /\ B' \in Nat /\ D' \in Nat
        /\ SplitAt(rs, base, B', t - DelayMSecs - WinSizeMSecs)
        /\ SplitAt(rs, base, D', t - DelayMSecs + 1)
        /\ failed' = FALSE
    <2>1. t >= LastTm(rs)
      BY <1>1, <1>2
    <2> QED BY <1>1, <1>2, <1>4, <1>5, <1>6, <1>7, <2>1, WindowUpdates
  <1>9. Win!TypeOK'
    BY <1>1, <1>2, <1>6, <1>7, <1>8 DEF Win!TypeOK, WindowIInv, TimedRec
  <1>10. WindowSplits'
    BY <1>1, <1>2, <1>7, <1>8 DEF WindowSplits
  <1>11. GoneBy(recs, LastTm(recs))'
    BY <1>2, <1>5, <1>7 DEF GoneBy
  <1> QED BY <1>2, <1>4, <1>7, <1>8, <1>9, <1>10, <1>11 DEF WindowIInv, Win!NothingIsMissing

LEMMA WindowOnTimeKeeps ==
  ASSUME Win!ConstantsOK, WindowIInv, NEW t \in Time, Win!OnTime(t)
  PROVE  WindowIInv'
  <1>1. /\ recs \in Seq(TimedRec) /\ recs # <<>> /\ Sorted(recs) /\ t \in Nat /\ t >= Timestamp
        /\ t >= LastTm(recs) /\ Len(recs) \in Nat /\ KeptFor \in Nat
    BY DEF WindowIInv, Win!TypeOK, TimedRec, Win!OnTime, Win!Reached, LastTm, Win!ConstantsOK
  <1>2. GoneBy(recs, t)
    <2>1. GoneBy(recs, LastTm(recs)) /\ LastTm(recs) \in Nat
      <3>1. LastTm(recs) = Win!Tm(recs, Len(recs) - 1) /\ Len(recs) - 1 \in 0..Len(recs) - 1
        BY <1>1 DEF LastTm, Win!Tm
      <3> QED BY <1>1, <3>1, TmIs DEF WindowIInv
    <2>2. \A id \in 0..first - 1 : id \in 0..Len(recs) - 1 /\ Win!Tm(recs, id) \in Nat
      BY <1>1, <2>1, TmIs DEF GoneBy
    <2> QED BY <1>1, <2>1, <2>2 DEF GoneBy
  <1>3. Win!UpdateTo(recs, t) /\ recs' = recs /\ first' = first /\ base' = base
    BY DEF Win!OnTime, Win!store
  <1>4. /\ InitP' = TRUE /\ Timestamp' = t /\ A' = B /\ C' = D /\ B' \in Nat /\ D' \in Nat
        /\ SplitAt(recs, base, B', t - DelayMSecs - WinSizeMSecs)
        /\ SplitAt(recs, base, D', t - DelayMSecs + 1)
        /\ failed' = FALSE
    BY <1>1, <1>2, <1>3, OldWindow, WindowUpdates
  <1>5. Win!TypeOK'
    BY <1>1, <1>3, <1>4 DEF Win!TypeOK, WindowIInv
  <1>6. WindowSplits'
    BY <1>1, <1>3, <1>4 DEF WindowSplits
  <1>7. GoneBy(recs, LastTm(recs))'
    BY <1>1, <1>3 DEF GoneBy, WindowIInv
  <1> QED BY <1>1, <1>3, <1>4, <1>5, <1>6, <1>7 DEF WindowIInv, Win!NothingIsMissing

LEMMA WindowResetKeeps ==
  ASSUME Win!ConstantsOK, WindowIInv, Win!Reset
  PROVE  WindowIInv'
  <1>1. /\ recs' = recs /\ first' = first /\ failed' = failed /\ InitP' = FALSE /\ Timestamp' = 0
        /\ A' = Len(recs) /\ B' = Len(recs) /\ C' = Len(recs) /\ D' = Len(recs) /\ base' = Len(recs)
    BY DEF Win!Reset, Win!store
  <1>2. Len(recs) \in Nat /\ Len(recs) <= Len(recs)
    BY DEF WindowIInv, Win!TypeOK
  <1>3. Win!TypeOK'
    BY <1>1, <1>2 DEF WindowIInv, Win!TypeOK
  <1>4. WindowSplits'
    BY <1>1, <1>2 DEF WindowSplits
  <1>5. (recs # <<>> => GoneBy(recs, LastTm(recs)))'
    BY <1>1 DEF WindowIInv, GoneBy
  <1> QED BY <1>1, <1>3, <1>4, <1>5 DEF WindowIInv, Win!NothingIsMissing

LEMMA WindowCollectKeeps ==
  ASSUME Win!ConstantsOK, WindowIInv, Win!GarbageCollect
  PROVE  WindowIInv'
  <1> DEFINE S == {id \in first..Len(recs) : id = Len(recs) \/ ~Win!Outdated(id)}
             f == Win!Least(S)
  <1>1. /\ recs \in Seq(TimedRec) /\ recs # <<>> /\ Len(recs) \in Nat /\ GoneBy(recs, LastTm(recs))
        /\ first \in 0..Len(recs)
    BY DEF WindowIInv, Win!TypeOK, TimedRec, Win!GarbageCollect, GoneBy
  <1>2. f \in S /\ \A id \in S : f <= id
    <2>1. S \in SUBSET Nat /\ Len(recs) \in S
      BY <1>1
    <2> HIDE DEF S
    <2> QED BY <2>1, LeastIdIs
  <1>3. \A id \in 0..f - 1 : Win!Tm(recs, id) < LastTm(recs) - KeptFor
    <2>1. ASSUME NEW id \in 0..f - 1, id >= first PROVE Win!Outdated(id)
      <3>1. id \notin S /\ id \in first..Len(recs)
        BY <1>1, <1>2, <2>1
      <3> QED BY <3>1
    <2>2. ASSUME NEW id \in 0..f - 1 PROVE Win!Tm(recs, id) < LastTm(recs) - KeptFor
      <3>1. CASE id >= first
        BY <2>1, <3>1 DEF Win!Outdated, LastTm
      <3>2. CASE ~(id >= first)
        <4>1. id \in 0..first - 1
          BY <1>1, <1>2, <3>2
        <4> QED BY <1>1, <4>1 DEF GoneBy
      <3> QED BY <3>1, <3>2
    <2> QED BY <2>2
  <1>4. f \in 0..Len(recs)
    BY <1>1, <1>2
  <1>5. first' = f /\ UNCHANGED <<recs, Win!buffer, signal, failed, base, hist>>
    BY DEF Win!GarbageCollect
  <1> HIDE DEF f
  <1>6. Win!TypeOK'
    BY <1>4, <1>5 DEF WindowIInv, Win!TypeOK, Win!buffer
  <1>7. GoneBy(recs, LastTm(recs))'
    BY <1>3, <1>4, <1>5 DEF GoneBy
  <1>8. WindowSplits'
    BY <1>5 DEF WindowIInv, WindowSplits, Win!buffer
  <1> QED BY <1>1, <1>5, <1>6, <1>7, <1>8 DEF WindowIInv, Win!NothingIsMissing

(***************************************************************************)
(* The theorem.                                                            *)
(***************************************************************************)
\* TWinBuf: for any window, delay and retention that covers both, any times and any interleaving
\* of records, time, resets and garbage collection, the ids B..D-1 are exactly the records of the
\* window, and everything that enters or leaves it is still in the store when it is read.
THEOREM WindowStaysExact == ASSUME Win!ConstantsOK PROVE Win!Spec => [](Win!WindowIsExact /\ Win!NothingIsMissing)
  <1>1. WindowIInv /\ [Win!Next]_(Win!vars) => WindowIInv'
    <2> SUFFICES ASSUME WindowIInv, [Win!Next]_(Win!vars) PROVE WindowIInv'
      OBVIOUS
    <2>1. ASSUME UNCHANGED Win!vars PROVE WindowIInv'
      BY <2>1 DEF Win!vars, Win!store, Win!buffer, WindowIInv, Win!TypeOK, WindowSplits, Win!NothingIsMissing, GoneBy
    <2>2. ASSUME NEW t \in Time, NEW v \in Number, Win!AddRec(t, v) PROVE WindowIInv'
      BY <2>2, WindowAddRecKeeps
    <2>3. ASSUME NEW t \in Time, Win!OnTime(t) PROVE WindowIInv'
      BY <2>3, WindowOnTimeKeeps
    <2> QED BY <2>1, <2>2, <2>3, WindowResetKeeps, WindowCollectKeeps DEF Win!Next
  <1>2. Win!Init => WindowIInv
    BY WindowInitIInv
  <1>3. WindowIInv => Win!WindowIsExact /\ Win!NothingIsMissing
    BY WindowIInvImplies
  <1> QED BY <1>1, <1>2, <1>3, PTL DEF Win!Spec
===============================================================================
