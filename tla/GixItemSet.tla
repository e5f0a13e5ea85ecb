----------------------------- MODULE GixItemSet -----------------------------
(***************************************************************************)
(* One item set of the index: TGixItemSet (glib/base/gix.hpp).             *)
(*                                                                         *)
(* Additions and deletions go to the end of a work buffer ItemV; when it   *)
(* is full, or when the set is read or stored, Def() executes the deletes, *)
(* merges the buffer, moves what overlaps the child vectors into them and  *)
(* repairs the children that have become too short or too long.  Children  *)
(* are blobs of their own, loaded when needed, described in the header by  *)
(* their length and by bounds of their items.                              *)
(*                                                                         *)
(* The item set is a record whose fields have the names of the members,    *)
(* and Blobs, the number of its child vectors in the blob base; every      *)
(* member function is an operator on it, every public one an action.  The  *)
(* item handler is TGixDefItemHandler, or, if Summing,                     *)
(* TIndex::TQmGixSumItemHandler (qminer/qminer_core.h, qminer_core.hpp).   *)
(***************************************************************************)
EXTENDS Integers, FiniteSets, Sequences, SequencesExt, FiniteSetsExt

CONSTANTS
  Id,                   \* what items are compared by (record ids)
  Fq,                   \* frequencies of added items
  Summing,              \* the handler sums frequencies
  SplitLen,             \* length of a full work buffer and of a new child
  SplitLenMin,          \* a shorter child is merged with its neighbour ...
  SplitLenMax,          \* ... and a longer one is cut
  FirstChildBeUnfilled, \* the first child may be short
  MaxFq,                \* bound on the frequency of an item
  MaxDel,               \* bound on the items of one DelItemV
  NoVec,                \* a child vector that is not loaded
  NoHeader              \* no header is stored that anybody would still read

ASSUME IdAssumption ==
  Id \subseteq Nat \ {0} /\ IsFiniteSet(Id) /\ Fq \subseteq Int \ {0}
ASSUME SplitAssumption ==
  /\ SplitLen \in Nat \ {0} /\ SplitLenMin \in Nat /\ SplitLenMax \in Nat
  /\ SplitLenMin <= SplitLen /\ SplitLen <= SplitLenMax
ASSUME HandlerAssumption == Summing \in BOOLEAN /\ (~Summing => Fq = {1})

VARIABLES
  set,   \* the item set in memory, and its child vectors in the blob base
  disk,  \* the stored header, or NoHeader once the set in memory is newer
  call   \* history: what the last step was asked to do (read by no action)

vars == <<set, disk, call>>

Item == [id : Id, fq : Int]
ASSUME NoVecAssumption == NoVec \notin Seq(Item)

(***************************************************************************)
(* The item handler.                                                       *)
(***************************************************************************)
IsLt(x, y) == x.id < y.id
IsDeleteMarker(x) == Summing /\ x.fq <= 0

\* The sum of a sequence of numbers; sequences one after the other.
SumUp(f) ==
  LET sum[n \in 0..Len(f)] == IF n = 0 THEN 0 ELSE sum[n-1] + f[n] IN sum[Len(f)]
Chained(f) ==
  LET upTo[n \in 0..Len(f)] == IF n = 0 THEN <<>> ELSE upTo[n-1] \o f[n] IN upTo[Len(f)]

\* The numbers of S in ascending order, and the elements of v at these places.
Ascending(S) ==
  IF S = {} THEN <<>> ELSE Chained([n \in 1..Max(S) |-> IF n \in S THEN <<n>> ELSE <<>>])
PickedFrom(v, places) ==
  LET order == Ascending(places) IN [n \in DOMAIN order |-> v[order[n]]]

IdsIn(v) == {v[n].id : n \in DOMAIN v}
Total(v, i) ==
  IF Summing THEN SumUp([n \in DOMAIN v |-> IF v[n].id = i THEN v[n].fq ELSE 0]) ELSE 1

\* The items of v with these ids, one for each.
Listed(ids, v) == [n \in DOMAIN ids |-> [id |-> ids[n], fq |-> Total(v, ids[n])]]
IsKept(total, isLocal) == total > 0 \/ (isLocal /\ total < 0)

\* Sorted, one item per id.  A local merge keeps negative frequencies, their
\* positive part may be elsewhere in the item set.
Merge(v, isLocal) ==
  Listed(Ascending({i \in IdsIn(v) : IsKept(Total(v, i), isLocal)}), v)

(***************************************************************************)
(* Child vectors.                                                          *)
(***************************************************************************)
SumLen(kids) == SumUp([c \in DOMAIN kids |-> kids[c].Len])
RecalcTotalCnt(s) == Len(s.ItemV) + SumLen(s.ChildInfoV)

\* A child whose data goes straight to the blob base (EnlistChildVector).
Enlisted(v) == [MinItem |-> v[1].id, MaxItem |-> Last(v).id, Len |-> Len(v),
                DirtyP |-> FALSE, Vec |-> NoVec, Disk |-> v]

\* LoadChildVector.
LoadedP(k) == k.Vec # NoVec
Vec(k) == IF LoadedP(k) THEN k.Vec ELSE k.Disk
LoadChild(k) == [k EXCEPT !.Vec = Vec(k), !.DirtyP = LoadedP(k) /\ @]

\* The vectors of the children one after the other.
AllOf(kids) == Chained([c \in DOMAIN kids |-> Vec(kids[c])])

\* A child whose vector has been changed to v; what is stored is out of date.
Changed(k, v) == [k EXCEPT !.Vec = v, !.Len = Len(v), !.DirtyP = TRUE, !.Disk = NoVec]

\* As long as a chunk of SplitLen items is there, it becomes a new last child.
Chunk(v, n) == SubSeq(v, (n-1) * SplitLen + 1, n * SplitLen)
PushChunks(s, chunks) ==
  [s EXCEPT !.ChildInfoV = @ \o [n \in 1..chunks |-> Enlisted(Chunk(s.ItemV, n))],
            !.ItemV = SubSeq(@, chunks * SplitLen + 1, Len(@)),
            !.Blobs = @ + chunks, !.DirtyP = @ \/ chunks > 0]
PushWorkBufferToChildren(s) == PushChunks(s, Len(s.ItemV) \div SplitLen)

\* The child an item of the merged work buffer belongs to: the first one, from
\* that of the first item on, whose MaxItem reaches it; none if it is beyond all.
FirstChild(s) ==
  Max({c \in DOMAIN s.ChildInfoV : c = 1 \/ s.ItemV[1].id >= s.ChildInfoV[c].MinItem})
Takes(s, c, x) ==
  /\ x.id <= s.ChildInfoV[c].MaxItem
  /\ \E f \in {FirstChild(s)} :
       c >= f /\ \A d \in f..c-1 : x.id > s.ChildInfoV[d].MaxItem

\* A child that holds v now, with the bounds of v.
Rebound(k, v) == [Changed(k, v) EXCEPT !.MinItem = v[1].id, !.MaxItem = Last(v).id]

\* Mutant of Injected: MinItem and MaxItem are left alone.
InjectedOldBounds(k, v) == Changed(k, Merge(Vec(k) \o v, FALSE))

\* A child that has taken in the items v.
TakenIn(k, w) == IF w = <<>> THEN Changed(k, w) ELSE Rebound(k, w)
Injected(k, v) == TakenIn(k, Merge(Vec(k) \o v, FALSE))

WithInjected(k, v) == IF v = <<>> THEN k ELSE Injected(k, v)

InjectWorkBufferToChildren(s) ==
  IF s.ChildInfoV = <<>> \/ s.ItemV = <<>> THEN s
  ELSE [s EXCEPT
          !.ChildInfoV = [c \in DOMAIN @ |->
             WithInjected(@[c], PickedFrom(s.ItemV, {n \in DOMAIN s.ItemV :
                                                       Takes(s, c, s.ItemV[n])}))],
          !.ItemV = PickedFrom(@, {n \in DOMAIN @ :
                                     ~\E c \in DOMAIN s.ChildInfoV : Takes(s, c, @[n])}),
          !.DirtyP = @ \/ \E c \in DOMAIN s.ChildInfoV, n \in DOMAIN s.ItemV :
                            Takes(s, c, s.ItemV[n])]

(***************************************************************************)
(* Deletes.                                                                *)
(***************************************************************************)
\* FindChildToDeleteFrom: the first child whose MaxItem reaches i, if its bounds
\* include i.
HoldsDeleted(s, c, i) ==
  /\ s.ChildInfoV[c].MinItem <= i /\ i <= s.ChildInfoV[c].MaxItem
  /\ \A d \in 1..c-1 : i > s.ChildInfoV[d].MaxItem

\* Mutant of Outlives: a marker also deletes what was added after it.
OutlivesNever(s, n) ==
  ~\E d \in s.ItemVDel : s.ItemV[d].id = s.ItemV[n].id

\* Position n of the buffer holds an item that no marker at or after it deletes.
Outlives(s, n) == ~\E d \in s.ItemVDel : d >= n /\ s.ItemV[d].id = s.ItemV[n].id

Without(v, D) == PickedFrom(v, {n \in DOMAIN v : v[n].id \notin D})
WithoutItems(k, D) == IF D = {} THEN k ELSE Changed(k, Without(Vec(k), D))

\* ProcessDeletes.  The bounds of a child are not updated, they may be too wide.
ProcessDeletes(s) ==
  IF s.ItemVDel = {} THEN s
  ELSE [s EXCEPT
          !.ItemV = PickedFrom(@, {n \in DOMAIN @ : Outlives(s, n)}),
          !.ItemVDel = {}, !.DirtyP = TRUE,
          !.ChildInfoV = [c \in DOMAIN @ |->
             WithoutItems(@[c], {i \in {s.ItemV[d].id : d \in s.ItemVDel} :
                                  HoldsDeleted(s, c, i)})]]

(***************************************************************************)
(* Repairing children that are out of shape.                               *)
(***************************************************************************)

NeedsMerge(s, c) ==
  LET k == s.ChildInfoV[c]
  IN /\ k.DirtyP
     /\ k.Len < SplitLenMin \/ k.Len > SplitLenMax
     /\ ~(c = 1 /\ FirstChildBeUnfilled /\ k.Len <= SplitLenMax)

HasOverlappingChildren(s) ==
  \E c \in 2..Len(s.ChildInfoV) : s.ChildInfoV[c].MinItem < s.ChildInfoV[c-1].MaxItem

\* Where the n-th of so many equal pieces of a child ends.
PartEnd(len, parts, n) == (len * n) \div parts

\* SplitOversizedChildren.  The first piece of a child keeps the pointer, the others
\* are stored at once.
Pieces(v, parts) ==
  [n \in 1..parts |-> SubSeq(v, PartEnd(Len(v), parts, n-1) + 1, PartEnd(Len(v), parts, n))]
Cut(k, pieces) ==
  [n \in DOMAIN pieces |-> IF n = 1 THEN Rebound(k, pieces[n]) ELSE Enlisted(pieces[n])]
CutChild(k) == IF k.Len <= SplitLenMax THEN <<k>>
               ELSE Cut(k, Pieces(Vec(k), (k.Len + SplitLen - 1) \div SplitLen))
WithChildren(s, kids) ==
  [s EXCEPT !.ChildInfoV = kids, !.Blobs = @ + Len(kids) - Len(s.ChildInfoV), !.DirtyP = TRUE]
SplitOversizedChildren(s) ==
  WithChildren(s, Chained([c \in DOMAIN s.ChildInfoV |-> CutChild(s.ChildInfoV[c])]))

\* CoalesceUndersizedChildren: empty children go, short neighbours are joined.
DropBlobs(s, n) == [s EXCEPT !.Blobs = @ - n]  \* DeleteChildVector, n times

Joined(l, k) == [Changed(l, Vec(l) \o Vec(k)) EXCEPT !.MaxItem = k.MaxItem]

\* Mutant of Glue: the blob of the right neighbour is not freed.
GlueKeepsBlob(a, k) ==
  [a EXCEPT !.ChildInfoV = Append(Front(@), Joined(Last(@), k))]

Glue(a, k) ==
  DropBlobs([a EXCEPT !.ChildInfoV = Append(Front(@), Joined(Last(@), k))], 1)
JoinChild(a, k) ==
  IF k.Len = 0 THEN DropBlobs(a, 1)
  ELSE IF /\ a.ChildInfoV # <<>> /\ Last(a.ChildInfoV).Len < SplitLenMin
          /\ k.Len < SplitLenMin /\ Last(a.ChildInfoV).Len + k.Len <= SplitLenMax
       THEN Glue(a, k)
       ELSE [a EXCEPT !.ChildInfoV = Append(@, k)]
CoalesceUndersizedChildren(s) ==
  LET joined[c \in 0..Len(s.ChildInfoV)] ==
        IF c = 0 THEN [s EXCEPT !.ChildInfoV = <<>>, !.DirtyP = TRUE]
                 ELSE JoinChild(joined[c-1], s.ChildInfoV[c])
  IN joined[Len(s.ChildInfoV)]

\* The global merge: everything from child f on is merged with the work buffer
\* and written back, SplitLen items to a child as long as more than that remain.
Refilled(s, f, all, kept) ==
  [DropBlobs(s, Len(s.ChildInfoV) - (f+kept-1)) EXCEPT
     !.ChildInfoV = [c \in 1..f+kept-1 |->
                       IF c < f THEN @[c] ELSE Rebound(@[c], Chunk(all, c-f+1))],
     !.ItemV = IF all = <<>> THEN @ ELSE SubSeq(all, kept * SplitLen + 1, Len(all)),
     !.DirtyP = TRUE]
MergedFrom(s, f, all) ==
  Refilled(s, f, all, IF all = <<>> THEN 0
                      ELSE Min({Len(s.ChildInfoV) - f + 1, (Len(all) - 1) \div SplitLen}))
GlobalMerge(s, f) ==
  MergedFrom(s, f, Merge(AllOf(SubSeq(s.ChildInfoV, f, Len(s.ChildInfoV))) \o s.ItemV, FALSE))

Repaired(s, bad) ==
  IF bad = {} THEN s
  ELSE IF HasOverlappingChildren(s) THEN GlobalMerge(s, Min(bad))
  ELSE CoalesceUndersizedChildren(SplitOversizedChildren(s))
Repair(s) == Repaired(s, {c \in DOMAIN s.ChildInfoV : NeedsMerge(s, c)})

(***************************************************************************)
(* Merging the item set.                                                   *)
(***************************************************************************)
DropFront(s, n) ==
  DropBlobs([s EXCEPT !.ChildInfoV = SubSeq(@, n + 1, Len(@))], n)
DropEmptyFront(s) ==
  DropFront(s, Max({n \in 0..Len(s.ChildInfoV) : \A c \in 1..n : s.ChildInfoV[c].Len = 0}))

\* Mutant of ScrubTail: a marker that met nothing to cancel stays in the buffer.
ScrubTailNot(s) == [s EXCEPT !.DeleteMarkerP = FALSE]

\* What the buffer holds lies beyond all children: a marker in it has nothing to
\* wait for.
ScrubTail(s) ==
  [s EXCEPT !.ItemV = IF s.DeleteMarkerP THEN Merge(@, FALSE) ELSE @,
            !.DeleteMarkerP = FALSE]

MergeBuffer(s) == [s EXCEPT !.ItemV = Merge(@, TRUE), !.DirtyP = TRUE]
Counted(s) == [s EXCEPT !.TotalCnt = RecalcTotalCnt(s), !.MergedP = TRUE]

Def(s) ==
  IF s.MergedP THEN s
  ELSE Counted(DropEmptyFront(PushWorkBufferToChildren(Repair(ScrubTail(
         InjectWorkBufferToChildren(MergeBuffer(ProcessDeletes(s))))))))

IsBeyondChildren(s) == \/ s.ChildInfoV = <<>> \/ s.ItemV = <<>>
                       \/ Last(s.ChildInfoV).MaxItem < s.ItemV[1].id
ScrubBeyond(s) == IF IsBeyondChildren(s) THEN [ScrubTail(s) EXCEPT !.MergedP = TRUE] ELSE s

\* The work buffer had this length before.
CountedFrom(s, len) == [s EXCEPT !.TotalCnt = @ - len + Len(s.ItemV)]

DefLocal(s) ==
  IF s.MergedP \/ s.ItemVDel # {} THEN s
  ELSE CountedFrom(ScrubBeyond(MergeBuffer(s)), Len(s.ItemV))

(***************************************************************************)
(* Changing the item set.                                                  *)
(***************************************************************************)
IsFull(s) == Len(s.ItemV) >= SplitLen
MakeRoom(s) == IF IsFull(s) THEN PushWorkBufferToChildren(Def(s)) ELSE s

\* x is larger than all items of a merged set.
InOrder(s, x) ==
  IF s.ItemV # <<>> THEN IsLt(Last(s.ItemV), x)
  ELSE s.ChildInfoV # <<>> => Last(s.ChildInfoV).MaxItem < x.id

Extended(s, x) ==
  [s EXCEPT !.ItemV = Append(@, x), !.DirtyP = TRUE, !.TotalCnt = @ + 1,
            !.MergedP = @ /\ InOrder(s, x) /\ ~IsDeleteMarker(x),
            !.DeleteMarkerP = @ \/ IsDeleteMarker(x)]
Added(s, x) == Extended(MakeRoom(s), x)

\* DelItemV; DelItem is the same with one item.
Marked(s, ids) ==
  [s EXCEPT !.ItemV = @ \o [n \in DOMAIN ids |-> [id |-> ids[n], fq |-> 0]],
            !.ItemVDel = @ \cup (Len(s.ItemV)+1 .. Len(s.ItemV)+Len(ids)),
            !.DirtyP = TRUE, !.TotalCnt = @ + Len(ids), !.MergedP = FALSE]
Deleted(s, D) == Marked(MakeRoom(s), Ascending(D))

\* DelItemsBelow on a merged item set: children are dropped as long as MaxItem or,
\* where the bounds straddle m, their items say that nothing of them remains.
From(v, m) == PickedFrom(v, {n \in DOMAIN v : v[n].id >= m})
Stops(k, m) == /\ k.MaxItem >= m
               /\ k.MinItem < m => Vec(k) = <<>> \/ From(Vec(k), m) # <<>>
FirstCut(k, v) == IF v = Vec(k) THEN LoadChild(k)
                  ELSE [Changed(k, v) EXCEPT !.MinItem = v[1].id]
CutBelow(kids, m) ==
  [c \in DOMAIN kids |-> IF c = 1 /\ kids[c].MinItem < m
                         THEN FirstCut(kids[c], From(Vec(kids[c]), m)) ELSE kids[c]]
Recounted(s, r) ==
  [r EXCEPT !.TotalCnt = s.TotalCnt - (RecalcTotalCnt(s) - RecalcTotalCnt(r)),
            !.DirtyP = @ \/ RecalcTotalCnt(r) < RecalcTotalCnt(s)]
DeletedBelow(s, m) ==
  IF ~s.MergedP \/ s.ItemVDel # {} THEN s
  ELSE Recounted(s, [DropFront(s, Max({n \in 0..Len(s.ChildInfoV) :
                                         \A c \in 1..n : ~Stops(s.ChildInfoV[c], m)}))
                     EXCEPT !.ChildInfoV = CutBelow(@, m), !.ItemV = From(@, m)])

Cleared(s) == [DropBlobs(s, Len(s.ChildInfoV)) EXCEPT
                 !.ChildInfoV = <<>>, !.ItemV = <<>>, !.ItemVDel = {}, !.MergedP = TRUE,
                 !.DeleteMarkerP = FALSE, !.DirtyP = TRUE, !.TotalCnt = 0]

(***************************************************************************)
(* Storing and loading.                                                    *)
(***************************************************************************)

\* Save: the children that have changed, then the header.
SaveChild(k) == IF k.DirtyP /\ LoadedP(k) THEN [k EXCEPT !.DirtyP = FALSE, !.Disk = k.Vec] ELSE k
Saved(s) ==
  [s EXCEPT !.ChildInfoV = [c \in DOMAIN @ |-> SaveChild(@[c])], !.DirtyP = FALSE]

\* The header holds what it takes to find the children; their vectors are blobs
\* of their own, and Disk stands for them.
Header(s) ==
  [ItemV |-> s.ItemV,
   ChildInfoV |-> [c \in DOMAIN s.ChildInfoV |->
                     [s.ChildInfoV[c] EXCEPT !.Vec = NoVec, !.DirtyP = FALSE]]]

Loaded(h, b) ==
  LET s == [ItemV |-> h.ItemV, ItemVDel |-> {}, ChildInfoV |-> h.ChildInfoV,
            TotalCnt |-> 0, MergedP |-> TRUE, DirtyP |-> FALSE,
            DeleteMarkerP |-> FALSE, Blobs |-> b]
  IN [s EXCEPT !.TotalCnt = RecalcTotalCnt(s)]

NewItemSet == [Loaded([ItemV |-> <<>>, ChildInfoV |-> <<>>], 0) EXCEPT !.DirtyP = TRUE]

(***************************************************************************)
(* The frequency of i once everything pending is done: what the last       *)
(* marker in the buffer leaves, and, without a marker, the children.       *)
(***************************************************************************)
TotalOrNone(v, i) == IF i \in IdsIn(v) THEN Total(v, i) ELSE 0
IsMarked(s, i) == \E d \in s.ItemVDel : s.ItemV[d].id = i
Frequency(s, i) ==
  TotalOrNone((IF IsMarked(s, i) THEN <<>> ELSE AllOf(s.ChildInfoV))
              \o PickedFrom(s.ItemV, {n \in DOMAIN s.ItemV : Outlives(s, n)}), i)

(***************************************************************************)
(* The calls TGix makes.                                                   *)
(***************************************************************************)
Becomes(r) == /\ set' = r
              /\ disk' = IF r.DirtyP THEN NoHeader ELSE disk
Asked(c) == call' = c
NoCall == [op |-> "none"]

\* The key has been removed; the next item set under it is a new one.
Forgotten(s) == [NewItemSet EXCEPT !.Blobs = s.Blobs]

AddItem(i, fq) == /\ Summing => Frequency(set, i) + fq \in -MaxFq..MaxFq
                  /\ Becomes(Added(set, [id |-> i, fq |-> fq]))
                  /\ Asked([op |-> "add", id |-> i, fq |-> fq])

DelItemV(D) == /\ Cardinality(D) \in 1..MaxDel
               /\ Becomes(Deleted(set, D))
               /\ Asked([op |-> "del", ids |-> D])

OrForgotten(s) == IF s.TotalCnt = 0 THEN Forgotten(s) ELSE s

DelItemsBelow(m) ==
  /\ Becomes(OrForgotten(DeletedBelow(Def(set), m)))
  /\ Asked([op |-> "del", ids |-> {i \in Id : i < m}])

Clr == Becomes(Cleared(set)) /\ Asked([op |-> "del", ids |-> Id])

GetItemV ==
  /\ Becomes([Def(set) EXCEPT !.ChildInfoV = [c \in DOMAIN @ |-> LoadChild(@[c])]])
  /\ Asked(NoCall)

\* Children whose bounds meet lo..hi-1; the work buffer is always returned.
InRange(k, lo, hi) == k.MaxItem >= lo /\ k.MinItem < hi
GetItemVInRange(lo, hi) ==
  /\ Becomes([Def(set) EXCEPT !.ChildInfoV =
         [c \in DOMAIN @ |-> IF InRange(@[c], lo, hi) THEN LoadChild(@[c]) ELSE @[c]]])
  /\ Asked(NoCall)

RefreshMemUsed == ~set.MergedP /\ Becomes(DefLocal(set)) /\ Asked(NoCall)

\* TGix::StoreItemSet; an item set with nothing in it loses its key.
Stored(s) == set' = s /\ disk' = Header(s)
StoreSet ==
  /\ set.DirtyP
  /\ \E d \in {Def(set)} : IF d.TotalCnt = 0 THEN Becomes(Forgotten(d)) ELSE Stored(Saved(d))
  /\ Asked(NoCall)

\* The item set leaves the cache and is loaded again.
Reload ==
  /\ ~set.DirtyP
  /\ set' = Loaded(disk, set.Blobs)
  /\ UNCHANGED disk
  /\ Asked(NoCall)

Init == set = NewItemSet /\ disk = NoHeader /\ call = NoCall

Next ==
  \/ \E i \in Id, fq \in Fq : AddItem(i, fq)
  \/ \E D \in SUBSET Id : DelItemV(D)
  \/ \E m \in Id : DelItemsBelow(m)
  \/ Clr \/ GetItemV \/ RefreshMemUsed \/ StoreSet \/ Reload
  \/ \E lo, hi \in Id : lo < hi /\ GetItemVInRange(lo, hi)

Spec == Init /\ [][Next]_vars

(***************************************************************************)
(* Properties.                                                             *)
(***************************************************************************)
Child == [MinItem : Id, MaxItem : Id, Len : Nat, DirtyP : BOOLEAN,
          Vec : Seq(Item) \cup {NoVec}, Disk : Seq(Item) \cup {NoVec}]
TypeOK ==
  /\ set.ItemV \in Seq(Item) /\ set.ItemVDel \subseteq DOMAIN set.ItemV
  /\ set.ChildInfoV \in Seq(Child)
  /\ set.TotalCnt \in Nat
  /\ set.MergedP \in BOOLEAN /\ set.DirtyP \in BOOLEAN /\ set.DeleteMarkerP \in BOOLEAN
  /\ set.Blobs \in Nat
  /\ disk # NoHeader => disk.ItemV \in Seq(Item) /\ disk.ChildInfoV \in Seq(Child)

\* What GetItemV returns: the children one after the other, then the buffer.
Items(s) == AllOf(s.ChildInfoV) \o s.ItemV

\* Def() yields the items in order, each once with the frequency that is due to
\* it, and no item whose frequency is not positive: however additions, deletes and
\* negative frequencies came and were packed, none is lost, counted twice or
\* comes back, and no reader meets a ghost.
Due(s, ids) == [n \in DOMAIN ids |-> [id |-> ids[n], fq |-> Frequency(s, ids[n])]]
DefExact ==
  Items(Def(set)) = Due(set, Ascending({i \in Id : Frequency(set, i) > 0}))

\* TotalCnt, which Empty() and with it the removal of the key rest on.
TotalCntExact == set.TotalCnt = RecalcTotalCnt(set)

\* Children are sorted, within their bounds, and one behind the other: the
\* overlap for which Def() keeps its global merge does not occur, and a delete
\* finds its item (the comments at gix.hpp:136 and :823).
ChildrenInOrder ==
  \A c \in DOMAIN set.ChildInfoV :
    LET k == set.ChildInfoV[c]
        v == Vec(k)
    IN /\ k.Len = Len(v)
       /\ \A n \in DOMAIN v : v[n].id \in k.MinItem..k.MaxItem
       /\ \A n \in 2..Len(v) : v[n-1].id < v[n].id
       /\ c > 1 => set.ChildInfoV[c-1].MaxItem < k.MinItem

\* The child vectors in the blob base are as many as there are children: none is
\* leaked by cutting, joining or dropping children, none is freed twice.  A child
\* is in memory, or its blob is up to date.
ChildBlobsExact ==
  /\ set.Blobs = Len(set.ChildInfoV)
  /\ \A c \in DOMAIN set.ChildInfoV :
       LET k == set.ChildInfoV[c]
       IN IF k.DirtyP THEN LoadedP(k) ELSE k.Disk = Vec(k)

\* An item set that is not dirty can leave the cache: it is merged, and the stored
\* header and the child vectors say what it says.
CleanIsStored ==
  ~set.DirtyP => /\ set.MergedP
                 /\ disk = Header(set)
                 /\ \A c \in DOMAIN set.ChildInfoV : ~set.ChildInfoV[c].DirtyP

\* GetItemVInRange skips no child that holds an item of the range.
RangeComplete ==
  \A d \in {Def(set)} : \A lo, hi \in Id : \A c \in DOMAIN d.ChildInfoV :
    ~InRange(d.ChildInfoV[c], lo, hi) =>
       IdsIn(Vec(d.ChildInfoV[c])) \cap lo..hi-1 = {}

\* A merged item set has no empty child, wherever deletes emptied it (the comment
\* at gix.hpp:105).  It fails if SplitLenMin is 0, as it is for keys whose own
\* split length is 1 (gix.h:876): length 0 is not below the minimum then.
NoEmptiedChild ==
  set.MergedP => \A c \in DOMAIN set.ChildInfoV : set.ChildInfoV[c].Len # 0

\* Nor a child longer than SplitLenMax, nor more in the buffer than it may hold:
\* adds, joins and cuts keep within the bounds they are to restore.
InShape ==
  set.MergedP => /\ NoEmptiedChild
                 /\ \A c \in DOMAIN set.ChildInfoV : set.ChildInfoV[c].Len <= SplitLenMax
                 /\ Len(set.ItemV) <= SplitLen

\* A read finds every item: Def(), the count, and the bounds a range is searched by.
ReadsExact == DefExact /\ TotalCntExact /\ RangeComplete

\* Adds, deletes, joins and cuts leave the children what the next of them expects.
ChildrenSound == TypeOK /\ ChildrenInOrder /\ InShape

\* Leaving the cache loses nothing and leaks nothing.
StorageSound == ChildBlobsExact /\ CleanIsStored

\* The item set is a map from items to frequencies, and each call does to it what
\* it is for: an item added is there, also if it was deleted just before, an item
\* deleted is gone, and a read, a store, a load or the cache's packing changes
\* nothing.
Abs == INSTANCE PostingList WITH count <- [i \in Id |-> Frequency(set, i)]
ImplementsPostingList == Abs!Spec
=============================================================================
