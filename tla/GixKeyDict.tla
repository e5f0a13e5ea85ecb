------------------------------ MODULE GixKeyDict ------------------------------
(***************************************************************************)
(* The key dictionary of the index: TGixKeyDict (glib/base/gix.h).         *)
(*                                                                         *)
(* Keys are in a hash table, or ("sorted") in an array in ascending order, *)
(* with a second hash table, the overlay, for the keys that arrive out of  *)
(* order.  A key deleted from the array leaves a tombstone there.  A key   *)
(* id is a position in the hash table, or in the array and, beyond it, in  *)
(* the overlay; scans of the index collect key ids first and use them      *)
(* later, after the index has changed.                                     *)
(*                                                                         *)
(* DictKey ids count from 1.  The arrays SortedSegV and SortedAddrV are one    *)
(* sequence of pointers, NoDictPt being a tombstone.                          *)
(***************************************************************************)
EXTENDS KeyHash, Integers, FiniteSets

ASSUME KeyAssumption == DictKey \subseteq Int /\ NoKey \notin DictKey /\ NoDictPt \notin DictPt

VARIABLES
  Type,        \* "hash" or "sorted"
  KeyBlobPtH,  \* the hash representation
  SortedKeyV,  \* the sorted representation: keys ...
  SortedPtV,   \* ... their pointers ...
  SortedDels,  \* ... the number of tombstones ...
  OverlayH,    \* ... and what came out of order
  call         \* history: what the last step was asked to do

dictState == <<Type, KeyBlobPtH, SortedKeyV, SortedPtV, SortedDels, OverlayH>>
dictVars == <<dictState, call>>

(***************************************************************************)
(* Looking up.                                                             *)
(***************************************************************************)
\* Mutant of Search: a range of one position is not looked at.
SearchShort(k) ==
  LET find[range \in (1..Len(SortedKeyV) + 1) \X (0..Len(SortedKeyV))] ==
        LET lo == range[1]
            hi == range[2]
            mid == lo + ((hi - lo) \div 2)
        IN IF lo >= hi THEN 0
           ELSE IF SortedKeyV[mid] < k THEN find[<<mid + 1, hi>>]
           ELSE IF k < SortedKeyV[mid] THEN find[<<lo, mid - 1>>]
           ELSE mid
  IN find[<<1, Len(SortedKeyV)>>]

\* The binary search of GetSortedKeyN, and what it returns on an ascending array:
\* the position of the key, 0 (the code: -1) if it is not there.
Search(k) ==
  LET find[range \in (1..Len(SortedKeyV) + 1) \X (0..Len(SortedKeyV))] ==
        LET lo == range[1]
            hi == range[2]
            mid == lo + ((hi - lo) \div 2)
        IN IF lo > hi THEN 0
           ELSE IF SortedKeyV[mid] < k THEN find[<<mid + 1, hi>>]
           ELSE IF k < SortedKeyV[mid] THEN find[<<lo, mid - 1>>]
           ELSE mid
  IN find[<<1, Len(SortedKeyV)>>]
SortedIds(k) == {n \in DOMAIN SortedKeyV : SortedKeyV[n] = k}
GetSortedKeyN(k) == IF SortedIds(k) = {} THEN 0 ELSE CHOOSE n \in SortedIds(k) : TRUE

IsSortedTomb(n) == SortedPtV[n] = NoDictPt
Alive == {n \in DOMAIN SortedKeyV : ~IsSortedTomb(n)}
InArray(k) == GetSortedKeyN(k) # 0 /\ ~IsSortedTomb(GetSortedKeyN(k))

IsKey(k) == IF Type = "hash" THEN k \in HKeys(KeyBlobPtH)
            ELSE k \in HKeys(OverlayH) \/ InArray(k)
GetDat(k) == IF Type = "hash" THEN HGetDat(KeyBlobPtH, k)
             ELSE IF k \in HKeys(OverlayH) THEN HGetDat(OverlayH, k)
             ELSE SortedPtV[GetSortedKeyN(k)]

LenDict == IF Type = "hash" THEN HLen(KeyBlobPtH)
           ELSE Len(SortedKeyV) - SortedDels + HLen(OverlayH)

(***************************************************************************)
(* DictKey ids.                                                                *)
(***************************************************************************)
IsKeyId(id) == IF Type = "hash" THEN id \in HIds(KeyBlobPtH)
               ELSE id \in Alive \/ id - Len(SortedKeyV) \in HIds(OverlayH)
GetKey(id) == IF Type = "hash" THEN KeyBlobPtH.KeyDatV[id].key
              ELSE IF id <= Len(SortedKeyV) THEN SortedKeyV[id]
              ELSE OverlayH.KeyDatV[id - Len(SortedKeyV)].key
GetPt(id) == IF Type = "hash" THEN KeyBlobPtH.KeyDatV[id].pt
             ELSE IF id <= Len(SortedKeyV) THEN SortedPtV[id]
             ELSE OverlayH.KeyDatV[id - Len(SortedKeyV)].pt

\* FNextKeyId; 0 when there is none.
NextKeyId(id) ==
  LET len == Len(SortedKeyV)
      Later == {n \in Alive : n > id}
      over == HNext(OverlayH, IF id <= len THEN 0 ELSE id - len)
  IN IF Type = "hash" THEN HNext(KeyBlobPtH, id)
     ELSE IF Later # {} THEN CHOOSE n \in Later : \A m \in Later : n <= m
     ELSE IF over = 0 THEN 0 ELSE len + over

MaxKeyId == IF Type = "hash" THEN Len(KeyBlobPtH.KeyDatV)
            ELSE Len(SortedKeyV) + Len(OverlayH.KeyDatV)

(***************************************************************************)
(* Changing the dictionary.                                                *)
(***************************************************************************)
\* A key that is nowhere goes to the end of the arrays, if it belongs there.
Extends(k) == SortedKeyV # <<>> => SortedKeyV[Len(SortedKeyV)] < k

AddHash(k, p) ==
  /\ Type = "hash"
  /\ KeyBlobPtH' = HAddDat(KeyBlobPtH, k, p)
  /\ UNCHANGED <<Type, SortedKeyV, SortedPtV, SortedDels, OverlayH>>

\* A key of the array, a deleted one included.
AddInPlace(k, p) ==
  /\ Type = "sorted" /\ k \notin HKeys(OverlayH) /\ GetSortedKeyN(k) # 0
  /\ SortedDels' = SortedDels - (IF IsSortedTomb(GetSortedKeyN(k)) THEN 1 ELSE 0)
  /\ SortedPtV' = [SortedPtV EXCEPT ![GetSortedKeyN(k)] = p]
  /\ UNCHANGED <<Type, KeyBlobPtH, SortedKeyV, OverlayH>>

AddAtEnd(k, p) ==
  /\ Type = "sorted" /\ k \notin HKeys(OverlayH) /\ GetSortedKeyN(k) = 0
  /\ Extends(k)
  /\ SortedKeyV' = Append(SortedKeyV, k)
  /\ SortedPtV' = Append(SortedPtV, p)
  /\ UNCHANGED <<Type, KeyBlobPtH, SortedDels, OverlayH>>

\* Mutant of AddToOverlay: a deleted key of the array counts as absent.
AddToOverlayPastTomb(k, p) ==
  /\ Type = "sorted"
  /\ k \in HKeys(OverlayH) \/ (~InArray(k) /\ ~Extends(k))
  /\ OverlayH' = HAddDat(OverlayH, k, p)
  /\ UNCHANGED <<Type, KeyBlobPtH, SortedKeyV, SortedPtV, SortedDels>>

AddToOverlay(k, p) ==
  /\ Type = "sorted"
  /\ k \in HKeys(OverlayH) \/ (GetSortedKeyN(k) = 0 /\ ~Extends(k))
  /\ OverlayH' = HAddDat(OverlayH, k, p)
  /\ UNCHANGED <<Type, KeyBlobPtH, SortedKeyV, SortedPtV, SortedDels>>

AddDat(k, p) ==
  /\ AddHash(k, p) \/ AddInPlace(k, p) \/ AddAtEnd(k, p) \/ AddToOverlay(k, p)
  /\ call' = [op |-> "add", key |-> k, pt |-> p]

DelHash(k) ==
  /\ Type = "hash"
  /\ KeyBlobPtH' = HDelKey(KeyBlobPtH, k)
  /\ UNCHANGED <<Type, SortedKeyV, SortedPtV, SortedDels, OverlayH>>

DelFromOverlay(k) ==
  /\ Type = "sorted" /\ k \in HKeys(OverlayH)
  /\ OverlayH' = HDelKey(OverlayH, k)
  /\ UNCHANGED <<Type, KeyBlobPtH, SortedKeyV, SortedPtV, SortedDels>>

\* Mutant of DelFromArray: the key is taken out, not replaced by a tombstone.
DelFromArrayShifts(k) ==
  /\ Type = "sorted" /\ k \notin HKeys(OverlayH)
  /\ LET n == GetSortedKeyN(k)
         Out(v) == SubSeq(v, 1, n - 1) \o SubSeq(v, n + 1, Len(v))
     IN SortedKeyV' = Out(SortedKeyV) /\ SortedPtV' = Out(SortedPtV)
  /\ UNCHANGED <<Type, KeyBlobPtH, SortedDels, OverlayH>>

DelFromArray(k) ==
  /\ Type = "sorted" /\ k \notin HKeys(OverlayH)
  /\ SortedPtV' = [SortedPtV EXCEPT ![GetSortedKeyN(k)] = NoDictPt]
  /\ SortedDels' = SortedDels + 1
  /\ UNCHANGED <<Type, KeyBlobPtH, SortedKeyV, OverlayH>>

\* Only keys that are there are deleted.
DelKey(k) ==
  /\ IsKey(k)
  /\ DelHash(k) \/ DelFromOverlay(k) \/ DelFromArray(k)
  /\ call' = [op |-> "del", key |-> k]

\* TGixKeyDict::Clr (KillHash of the storage layers in the tests, and LoadFile).
Clr ==
  /\ KeyBlobPtH' = EmptyHash /\ OverlayH' = EmptyHash
  /\ SortedKeyV' = <<>> /\ SortedPtV' = <<>> /\ SortedDels' = 0
  /\ UNCHANGED Type
  /\ call' = [op |-> "clr"]

\* Sorting: the place that each element of an ascending vector has in this one.
Sorted(v) ==
  CHOOSE from \in [DOMAIN v -> DOMAIN v] :
    /\ \A i \in DOMAIN v : \E n \in DOMAIN v : from[n] = i
    /\ \A m, n \in DOMAIN v : m < n => v[from[m]] <= v[from[n]]

\* THash::Sort asserts that no key has been deleted.
SortByKey(asc) ==
  LET entries == KeyBlobPtH.KeyDatV
      from == Sorted([n \in DOMAIN entries |-> IF asc THEN entries[n].key ELSE -entries[n].key])
  IN /\ Type = "sorted" \/ KeyBlobPtH.FreeV = <<>>
     /\ KeyBlobPtH' = IF Type = "sorted" THEN KeyBlobPtH
                      ELSE [KeyBlobPtH EXCEPT !.KeyDatV =
                              [n \in DOMAIN entries |-> entries[from[n]]]]
     /\ UNCHANGED <<Type, SortedKeyV, SortedPtV, SortedDels, OverlayH>>
     /\ call' = [op |-> "none"]

\* The ids that FFirstKeyId and FNextKeyId go through, and GetKeyV their keys.
ScanV ==
  LET from[id \in 0..MaxKeyId] ==
        LET next == NextKeyId(id)
        IN IF next = 0 THEN <<>> ELSE <<next>> \o from[next]
  IN from[0]
GetKeyV == [n \in DOMAIN ScanV |-> GetKey(ScanV[n])]

\* Mutant of Folded: the overlay is left behind.
FoldedArray ==
  [KeyDatV |-> LET s == SelectSeq(ScanV, LAMBDA id : id <= Len(SortedKeyV))
               IN [n \in DOMAIN s |-> [key |-> GetKey(s[n]), pt |-> GetPt(s[n])]],
   FreeV |-> <<>>]

\* Both representations folded into one hash table: dense, in scan order.
Folded == [KeyDatV |-> [n \in DOMAIN ScanV |-> [key |-> GetKey(ScanV[n]),
                                               pt |-> GetPt(ScanV[n])]],
           FreeV |-> <<>>]

\* ConvertTo; to save with SaveFileAsType and load again comes to the same.
ConvertToSorted ==
  LET from == Sorted(GetKeyV)
      KeyV == [n \in DOMAIN GetKeyV |-> GetKeyV[from[n]]]
  IN /\ Type = "hash" /\ Type' = "sorted"
     /\ SortedKeyV' = KeyV
     /\ SortedPtV' = [n \in DOMAIN KeyV |-> HGetDat(KeyBlobPtH, KeyV[n])]
     /\ SortedDels' = 0 /\ OverlayH' = EmptyHash
     /\ KeyBlobPtH' = EmptyHash

ConvertToHash ==
  /\ Type = "sorted" /\ Type' = "hash"
  /\ KeyBlobPtH' = Folded
  /\ SortedKeyV' = <<>> /\ SortedPtV' = <<>>
  /\ SortedDels' = 0 /\ OverlayH' = EmptyHash

ConvertTo == /\ ConvertToSorted \/ ConvertToHash
             /\ call' = [op |-> "none"]

DictInit ==
  /\ Type \in {"hash", "sorted"}
  /\ KeyBlobPtH = EmptyHash /\ OverlayH = EmptyHash
  /\ SortedKeyV = <<>> /\ SortedPtV = <<>> /\ SortedDels = 0
  /\ call = [op |-> "none"]

DictNext ==
  \/ \E k \in DictKey, p \in DictPt : AddDat(k, p)
  \/ \E k \in DictKey : DelKey(k)
  \/ Clr
  \/ \E asc \in BOOLEAN : SortByKey(asc)
  \/ ConvertTo

DictSpec == DictInit /\ [][DictNext]_dictVars

(***************************************************************************)
(* Properties.                                                             *)
(***************************************************************************)
\* The tombstones are counted by SortedDels, and the representation that is not
\* in use is empty.
DictTypeOK ==
  /\ Type \in {"hash", "sorted"}
  /\ KeyBlobPtH \in Hash /\ OverlayH \in Hash
  /\ SortedKeyV \in Seq(DictKey) /\ SortedPtV \in Seq(DictPt \cup {NoDictPt})
  /\ Len(SortedKeyV) = Len(SortedPtV)
  /\ SortedDels = Cardinality(DOMAIN SortedKeyV \ Alive)
  /\ IF Type = "hash" THEN SortedKeyV = <<>> /\ OverlayH = EmptyHash
     ELSE KeyBlobPtH = EmptyHash

\* No key is in two places: the arrays are strictly ascending, and a key of the
\* array, deleted or not, is never in the overlay as well, where a deletion would
\* bring the other copy back to light (AddDat, DelKey).
OneEntryPerKey ==
  /\ \A n \in DOMAIN SortedKeyV : n > 1 => SortedKeyV[n - 1] < SortedKeyV[n]
  /\ \A k \in HKeys(OverlayH) : GetSortedKeyN(k) = 0
  /\ \A h \in {KeyBlobPtH, OverlayH} : Cardinality(HIds(h)) = Cardinality(HKeys(h))

\* Len(), from which a batch sizes its work and reports its progress, is the number
\* of keys that are there, however they were added, deleted and revived.
LenExact == LenDict = Cardinality({k \in DictKey : IsKey(k)})

\* The binary search finds the position of every key of the array, and none else.
SearchExact == \A k \in DictKey : Search(k) = GetSortedKeyN(k)

\* A scan (FFirstKeyId, FNextKeyId, GetKey, []) meets every key that is there once,
\* with the pointer that a look-up by key returns, and nothing that was deleted.
ScanExact ==
  /\ Len(ScanV) = LenDict
  /\ {<<GetKey(ScanV[n]), GetPt(ScanV[n])>> : n \in DOMAIN ScanV}
       = {<<k, GetDat(k)>> : k \in {j \in DictKey : IsKey(j)}}
  /\ \A n \in DOMAIN ScanV : IsKeyId(ScanV[n])

\* Every way to ask for keys, by key, by position, by number or in a scan, agrees.
LookUpsExact == LenExact /\ SearchExact /\ ScanExact

\* The keys are stored once, in the form the type of the dictionary calls for.
EntriesSound == DictTypeOK /\ OneEntryPerKey

\* The ids of the keys that stay, before and after a step.
IdsKept ==
  \A id \in 1..MaxKeyId :
    IsKeyId(id) /\ ~(call'.op = "del" /\ GetKey(id) = call'.key)
      => IsKeyId(id)' /\ GetKey(id)' = GetKey(id)

\* Deletions and updates leave every other key its id: TBase's deletion sweep and
\* the index statistics collect all ids first, then look each up while they, or the
\* cache they fill, delete keys and move their blobs (qminer_core.cpp DeleteGix).
ScanStable ==
  [][call'.op = "del" \/ (call'.op = "add" /\ IsKey(call'.key)) => IdsKept]_dictVars

\* "Ids stay valid for the lifetime of the loaded gix" (comment on FFirstKeyId).
IdsStayValid == [][call'.op \in {"add", "del"} => IdsKept]_dictVars

\* The dictionary is a map from keys to pointers, in whichever representation.
AsMap == INSTANCE KeyMap WITH
         Key <- DictKey, Ptr <- DictPt, NoPtr <- NoDictPt,
         map <- [k \in DictKey |-> IF IsKey(k) THEN GetDat(k) ELSE NoDictPt]
ImplementsKeyMap == AsMap!Spec
=============================================================================
