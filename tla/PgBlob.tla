------------------------------- MODULE PgBlob -------------------------------
(***************************************************************************)
(* The paged blob storage: TPgBlob with its free-space map TPgBlobFsm      *)
(* (glib/base/pgblob.cpp).  Blobs are items of pages of a fixed size.  A   *)
(* page fills from both ends: its table of items from the front, the bytes *)
(* of the items from the back, packed.  Pages are read into a cache of     *)
(* MxLoadedPages, ordered by use; a changed page is written when it leaves *)
(* the cache.  The free-space map knows the free bytes of every page in a  *)
(* tree of maxima, which finds the emptiest one; it reaches the disk when  *)
(* the storage is closed, and only if it changed.                          *)
(*                                                                         *)
(* Sizes are in units of one entry of the table; the header of a page is   *)
(* left out, and so is the split into files of limited length: pages are   *)
(* numbered as they are created, which is also their place in the tree.    *)
(* Every byte of a blob is written as the blob, a byte that no item holds  *)
(* as Free.                                                                *)
(***************************************************************************)
EXTENDS Naturals, Sequences, FiniteSets, SequencesExt, FiniteSetsExt

CONSTANTS
  Data, Size,       \* blobs, and the length of each
  NoData, Free,
  PageSize,         \* PG_PAGE_SIZE
  Scanned,          \* pages of the cache that Put looks at for room; 5 in the code
  MxLoadedPages,    \* pages the cache may hold, at least 1
  MaxPages          \* bound: pages created

ASSUME PgBlobAssumption ==
  /\ PageSize \in Nat /\ Scanned \in Nat /\ MxLoadedPages \in Nat \ {0} /\ MaxPages \in Nat
  /\ Size \in [Data -> 1..PageSize - 1]   \* callers store no empty blob, and none above GetMxBlobLen
  /\ Free \notin Data /\ NoData \notin Data

VARIABLES
  disk,        \* the pages in the files
  cache,       \* the pages that are loaded ...
  lru,         \* ... and their numbers, the one used last first
  layers,      \* TBinTreeMaxVals: free bytes by page, then the maxima of pairs
  MainDirtyP,
  main,        \* the free-space map in the main file
  blobs        \* history: what the callers stored, by pointer

files == [disk |-> disk, cache |-> cache, lru |-> lru]
free == <<layers, MainDirtyP, main>>
vars == <<disk, cache, lru, free, blobs>>

Offset == 0..PageSize - 1
Page == 0..MaxPages - 1
Ptr == Page \X (0..PageSize - 1)
Greater(a, b) == IF a >= b THEN a ELSE b

(***************************************************************************)
(* One page.  Len = 0 marks an item that was deleted.                      *)
(***************************************************************************)
InitPage == [dirty |-> TRUE, items |-> <<>>, end |-> PageSize, bytes |-> [o \in Offset |-> Free]]
GetFreeMem(pg) == pg.end - Len(pg.items)
CanStoreBf(pg, d) == GetFreeMem(pg) >= Size[d] + 1
Item(pg, i) == pg.items[i + 1]

\* The item and its bytes, put before the end of the free space.
PutBytes(pg, d) == [o \in Offset |-> IF o \in pg.end - Size[d]..pg.end - 1 THEN d ELSE pg.bytes[o]]
Record(pg, d) == [off |-> pg.end - Size[d], len |-> Size[d]]
AddItem(pg, d) == [dirty |-> TRUE, items |-> Append(pg.items, Record(pg, d)),
                   end |-> pg.end - Size[d], bytes |-> PutBytes(pg, d)]
ChangeItem(pg, i, d) == [dirty |-> TRUE, items |-> [pg.items EXCEPT ![i + 1] = Record(pg, d)],
                         end |-> pg.end - Size[d], bytes |-> PutBytes(pg, d)]

\* The items stored before one, and their length together, summed up over the table.
Below(it, gap) == it.off < gap.off /\ it.len # 0
LenBelow(pg, gap) ==
  LET Len0(it) == IF Below(it, gap) THEN it.len ELSE 0
      sum[n \in 0..Len(pg.items)] == IF n = 0 THEN 0 ELSE sum[n - 1] + Len0(pg.items[n])
  IN sum[Len(pg.items)]

\* The page without the bytes of an item: the ones stored before it move up to close the gap.
Packed(pg, gap) ==
  LET to == pg.end + gap.len
  IN [dirty |-> TRUE,
      items |-> [i \in DOMAIN pg.items |->
                   IF Below(pg.items[i], gap) THEN [pg.items[i] EXCEPT !.off = @ + gap.len] ELSE pg.items[i]],
      end |-> to,
      bytes |-> [o \in Offset |-> CASE o < to -> Free
                                    [] o \in to..to + LenBelow(pg, gap) - 1 -> pg.bytes[o - gap.len]
                                    [] OTHER -> pg.bytes[o]]]

\* The offset of a deleted item is not looked at again.
Deleted == [off |-> 0, len |-> 0]
AllDeleted(items) == \A j \in DOMAIN items : items[j].len = 0
\* DeleteItem: a page with no item left starts over, with an empty table.
DeleteItem(pg, i) ==
  LET packed == Packed(pg, Item(pg, i))
      items == [packed.items EXCEPT ![i + 1] = Deleted]
  IN IF AllDeleted(items) THEN InitPage ELSE [packed EXCEPT !.items = items]

\* What GetItem returns: the blob, if the item still has its bytes.
GetItem(pg, i) ==
  LET whole(d) == /\ i < Len(pg.items) /\ Size[d] = Item(pg, i).len
                  /\ \A o \in Item(pg, i).off..Item(pg, i).off + Size[d] - 1 : pg.bytes[o] = d
  IN IF \E d \in Data : whole(d) THEN CHOOSE d \in Data : whole(d) ELSE NoData

(***************************************************************************)
(* The tree of maxima: layers[1] has the pages, layers[l + 1] the maxima   *)
(* of the pairs of layers[l]; the last layer has one number.               *)
(***************************************************************************)
MaxOfPair(layer, i) ==
  IF Len(layer) > 2 * i + 1 THEN Greater(layer[2 * i + 1], layer[2 * i + 2]) ELSE layer[2 * i + 1]

\* Add: up the tree until a maximum is not exceeded; a layer that had one number gets one above it.
AddToLayer(layer, i, val) ==
  IF Len(layer) <= i THEN Append(layer, val)
  ELSE IF layer[i + 1] < val THEN [layer EXCEPT ![i + 1] = val] ELSE layer
AddVal(ls, val) ==
  LET up[l \in DOMAIN ls] ==
        IF l = 1 THEN [index |-> Len(ls[1]), layer |-> Append(ls[1], val), done |-> ls[1] = <<>>]
        ELSE LET i == up[l - 1].index \div 2
                 layer == IF up[l - 1].done THEN ls[l] ELSE AddToLayer(ls[l], i, val)
             IN [index |-> i, layer |-> layer, done |-> layer = ls[l]]
      top == up[Len(ls)]
      added == [l \in DOMAIN ls |-> up[l].layer]
  IN IF ~top.done /\ top.index = 1 THEN Append(added, <<MaxOfPair(top.layer, 0)>>) ELSE added

\* Mutant of ChangeVal: a maximum is only ever raised.
ChangeValUp(ls, n, val) ==
  LET up[l \in DOMAIN ls] ==
        IF l = 1 THEN [index |-> n, layer |-> [ls[1] EXCEPT ![n + 1] = val]]
        ELSE LET i == up[l - 1].index \div 2
             IN [index |-> i,
                 layer |-> [ls[l] EXCEPT ![i + 1] = Greater(@, MaxOfPair(up[l - 1].layer, i))]]
  IN [l \in DOMAIN ls |-> up[l].layer]
\* Change: every maximum above the page is taken anew.
ChangeVal(ls, n, val) ==
  LET up[l \in DOMAIN ls] ==
        IF l = 1 THEN [index |-> n, layer |-> [ls[1] EXCEPT ![n + 1] = val]]
        ELSE LET i == up[l - 1].index \div 2
             IN [index |-> i, layer |-> [ls[l] EXCEPT ![i + 1] = MaxOfPair(up[l - 1].layer, i)]]
  IN [l \in DOMAIN ls |-> up[l].layer]

\* GetIndexOfMax: from the top of the tree down, after the greatest number.
GetIndexOfMax(ls) ==
  LET target == ls[Len(ls)][1]
      down[h \in 0..Len(ls) - 1] ==
        IF h = 0 THEN 0
        ELSE LET child == 2 * down[h - 1]
             IN IF ls[Len(ls) - h][child + 1] = target THEN child ELSE child + 1
  IN down[Len(ls) - 1]

\* FsmGetFreePage.
HasFreePage(required) == layers[1] # <<>> /\ layers[1][GetIndexOfMax(layers) + 1] >= required

(***************************************************************************)
(* The cache.  Its operations take the files and the cache and return them.*)
(***************************************************************************)
Unlisted(list, pt) == RemoveAt(list, CHOOSE n \in DOMAIN list : list[n] = pt)
ToStart(s, pt) == [s EXCEPT !.lru = <<pt>> \o Unlisted(@, pt)]
ToEnd(s, pt) == [s EXCEPT !.lru = Append(Unlisted(@, pt), pt)]

ShouldSave(pg) == pg.dirty
\* Evict: the page used least recently leaves, if there is no room.  Of a page without items
\* only the header is written; what follows it is never read.
Evict(s) ==
  LET v == Last(s.lru)
  IN IF Cardinality(DOMAIN s.cache) < MxLoadedPages THEN s
     ELSE [disk |-> IF ShouldSave(s.cache[v]) THEN [s.disk EXCEPT ![v + 1] = s.cache[v]] ELSE s.disk,
           cache |-> [pt \in DOMAIN s.cache \ {v} |-> s.cache[pt]],
           lru |-> Front(s.lru)]
Enter(s, pt, pg) ==
  [disk |-> s.disk, cache |-> [q \in DOMAIN s.cache \cup {pt} |-> IF q = pt THEN pg ELSE s.cache[q]],
   lru |-> <<pt>> \o s.lru]
\* LoadPage.  The flag of a page in the file is set, for it was dirty when it was written;
\* SetDirty(false) turns it over.
LoadPage(s, pt) ==
  IF pt \in DOMAIN s.cache THEN ToStart(s, pt)
  ELSE LET e == Evict(s) IN Enter(e, pt, [e.disk[pt + 1] EXCEPT !.dirty = ~@])
\* CreateNewPage: an empty page at the end of the file, with a clean flag, and a dirty one in the cache.
CreateNewPage(s) ==
  LET e == Evict(s)
  IN Enter([e EXCEPT !.disk = Append(@, [InitPage EXCEPT !.dirty = FALSE])], Len(s.disk), InitPage)
Write(s, pt, pg) == [s EXCEPT !.cache[pt] = pg]

Becomes(s) == disk' = s.disk /\ cache' = s.cache /\ lru' = s.lru
MainChanges(ls) == layers' = ls /\ MainDirtyP' = TRUE /\ UNCHANGED main
Returns(pt, i, d) == blobs' = [blobs EXCEPT ![<<pt, i>>] = d]

(***************************************************************************)
(* The operations.                                                         *)
(***************************************************************************)
Init ==
  /\ disk = <<>> /\ cache = <<>> /\ lru = <<>>
  /\ layers = <<<<>>>> /\ main = <<<<>>>> /\ MainDirtyP = FALSE
  /\ blobs = [p \in Ptr |-> NoData]

\* Where Put looks at first: which of the last Scanned pages used have room.
Roomy(d) == {n \in DOMAIN lru : n <= Scanned /\ CanStoreBf(cache[lru[n]], d)}
\* Mutant of DeletedItems: the last byte of an item is not counted.
DeletedItemsShort(pg) == {i \in 0..Len(pg.items) - 1 : Item(pg, i).len <= 1}
DeletedItems(pg) == {i \in 0..Len(pg.items) - 1 : Item(pg, i).len = 0}

\* Put into a page that exists, an item that was deleted first of all.
PutInto(s, pt, d) ==
  LET pg == s.cache[pt]
      reused == DeletedItems(pg) # {}
      i == IF reused THEN Min(DeletedItems(pg)) ELSE Len(pg.items)
      now == IF reused THEN ChangeItem(pg, i, d) ELSE AddItem(pg, d)
  IN /\ Becomes(Write(s, pt, now))
     /\ MainChanges(ChangeVal(layers, pt, GetFreeMem(now)))
     /\ Returns(pt, i, d)

\* A new page with one blob, and the free-space map ls with that page.
NewPage(s, ls, d) ==
  LET now == AddItem(InitPage, d)
  IN /\ Len(s.disk) < MaxPages
     /\ Becomes(Write(CreateNewPage(s), Len(s.disk), now))
     /\ MainChanges(AddVal(ls, GetFreeMem(now)))

\* Put(Bf): a page in the cache with room, or the emptiest page, or a new one.
Put(d) ==
  CASE Roomy(d) # {} -> PutInto(files, lru[Min(Roomy(d))], d)
    [] Roomy(d) = {} /\ HasFreePage(Size[d] + 1) ->
         LET pt == GetIndexOfMax(layers) IN PutInto(LoadPage(files, pt), pt, d)
    [] Roomy(d) = {} /\ ~HasFreePage(Size[d] + 1) -> NewPage(files, layers, d) /\ Returns(Len(disk), 0, d)

\* Overwriting an item in place: Put of a blob of the same length, and the fields of fixed length
\* that the store writes through the pointer it got (SetDirty, then Get).
Overwrite(s, p, d) ==
  LET pg == s.cache[p[1]]
      it == Item(pg, p[2])
      now == [pg EXCEPT !.dirty = TRUE, !.bytes = [o \in Offset |-> IF o \in it.off..it.off + it.len - 1 THEN d ELSE @[o]]]
  IN Becomes(Write(s, p[1], now)) /\ UNCHANGED free /\ Returns(p[1], p[2], d)

\* Mutant of StaysAt: the item is patched though its table was emptied.
StaysAtAlways(pg, i) == TRUE
\* Has the page, with the item deleted, still a place for it in its table?
StaysAt(pg, i) == i < Len(pg.items)
\* Put(Bf, Pt): in place, in the same page, or moved to a new page.
PutExisting(p, d) ==
  LET pt == p[1]
      i == p[2]
      s == LoadPage(files, pt)
      pg == s.cache[pt]
      without == DeleteItem(pg, i)
      stays == StaysAt(without, i)
      now == IF stays THEN ChangeItem(without, i, d) ELSE AddItem(without, d)
      Moves(q) == blobs' = [blobs EXCEPT ![p] = NoData, ![q] = d]
      old == Item(pg, i).len
  IN CASE old = Size[d] -> Overwrite(s, p, d)
       [] old # Size[d] /\ old + GetFreeMem(pg) >= Size[d] + 1 ->
            /\ Becomes(Write(s, pt, now))
            /\ MainChanges(ChangeVal(layers, pt, GetFreeMem(now)))
            /\ Moves(<<pt, IF stays THEN i ELSE 0>>)
       [] old # Size[d] /\ old + GetFreeMem(pg) < Size[d] + 1 ->
            /\ NewPage(Write(s, pt, without), ChangeVal(layers, pt, GetFreeMem(without)), d)
            /\ Moves(<<Len(disk), 0>>)

Get(p) == Becomes(LoadPage(files, p[1])) /\ UNCHANGED <<free, blobs>>

FreeAfterDel(pg, now) == GetFreeMem(now)
\* Del: a page that became empty is the next to leave the cache.
Del(p) ==
  LET s == LoadPage(files, p[1])
      pg == s.cache[p[1]]
      now == DeleteItem(pg, p[2])
      t == Write(s, p[1], now)
  IN /\ Becomes(IF now.items = <<>> THEN ToEnd(t, p[1]) ELSE t)
     /\ MainChanges(ChangeVal(layers, p[1], FreeAfterDel(pg, now)))
     /\ Returns(p[1], p[2], NoData)

\* PartialFlush writes changed pages, in the order of the frames they are in, until its time is
\* up.  The order of the frames is left out.  The pages stay dirty.
PartialFlush ==
  \E pts \in SUBSET {pt \in DOMAIN cache : ShouldSave(cache[pt])} :
    /\ pts # {}
    /\ disk' = [n \in DOMAIN disk |-> IF n - 1 \in pts THEN cache[n - 1] ELSE disk[n]]
    /\ UNCHANGED <<cache, lru, free, blobs>>

\* The destructor, and opening the files again.
CloseAndOpen ==
  /\ disk' = [n \in DOMAIN disk |->
                IF n - 1 \in DOMAIN cache /\ ShouldSave(cache[n - 1]) THEN cache[n - 1] ELSE disk[n]]
  /\ main' = IF MainDirtyP THEN layers ELSE main
  /\ layers' = main'
  /\ cache' = <<>> /\ lru' = <<>> /\ MainDirtyP' = FALSE
  /\ UNCHANGED blobs

PageNow(pt) == IF pt \in DOMAIN cache THEN cache[pt] ELSE disk[pt + 1]
\* The pointers the store above holds.
Held == {p \in Ptr : blobs[p] # NoData}

Next ==
  \/ \E d \in Data : Put(d)
  \/ \E p \in Held, d \in Data : PutExisting(p, d)
  \/ \E p \in Held : Get(p) \/ Del(p)
  \/ PartialFlush
  \/ CloseAndOpen

Spec == Init /\ [][Next]_vars

(***************************************************************************)
(* Properties.                                                             *)
(***************************************************************************)
\* The shape of the state; the pages in the cache are the ones in the list, within its limit.
TypeOK ==
  /\ \A pg \in Range(disk) \cup Range(cache) :
       /\ pg.end \in 0..PageSize /\ pg.dirty \in BOOLEAN /\ pg.bytes \in [Offset -> Data \cup {Free}]
       /\ \A it \in Range(pg.items) : it.off \in Offset /\ it.len \in 0..PageSize
  /\ DOMAIN cache \subseteq Page /\ Len(lru) = Cardinality(DOMAIN cache) /\ Range(lru) = DOMAIN cache
  /\ Cardinality(DOMAIN cache) <= MxLoadedPages /\ Len(disk) <= MaxPages

\* TPgBlob::VerifyPage, and more: items lie behind the free space and do not overlap, their bytes
\* are packed up to the end of the page, and the table has not grown into the free space.
PageSound(pg) ==
  LET live == {i \in DOMAIN pg.items : pg.items[i].len # 0}
      span(i) == pg.items[i].off..pg.items[i].off + pg.items[i].len - 1
  IN /\ GetFreeMem(pg) >= 0
     /\ UNION {span(i) : i \in live} = pg.end..PageSize - 1
     /\ \A i, j \in live : i # j => span(i) \cap span(j) = {}
     /\ live = {} => pg.items = <<>>

\* Pages are sound wherever they are, through deleting, reuse of items and eviction; a clean page
\* in the cache is the page in the file, so that eviction may drop it; and what the bytes of a page
\* say is what was stored there.
Contents(p) == IF p[1] < Len(disk) THEN GetItem(PageNow(p[1]), p[2]) ELSE NoData
PagesSound ==
  /\ TypeOK
  /\ \A pg \in Range(disk) \cup Range(cache) : PageSound(pg)
  /\ \A pt \in DOMAIN cache : ~cache[pt].dirty => [disk[pt + 1] EXCEPT !.dirty = FALSE] = cache[pt]
  /\ \A p \in Ptr : blobs[p] = Contents(p)

\* The free-space map has the free bytes of every page, the maxima are maxima, and the descent
\* finds the emptiest page: also after the storage was closed without saving the map.
FreeSpaceKnown ==
  /\ Len(layers[1]) = Len(disk)
  /\ \A pt \in 0..Len(disk) - 1 : layers[1][pt + 1] = GetFreeMem(PageNow(pt))
  /\ \A l \in 2..Len(layers), i \in Page :
       i < Len(layers[l]) => layers[l][i + 1] = MaxOfPair(layers[l - 1], i)
  /\ disk # <<>> => /\ Len(layers[Len(layers)]) = 1
                    /\ \A pt \in 0..Len(disk) - 1 : layers[1][pt + 1] <= layers[1][GetIndexOfMax(layers) + 1]
  /\ ~MainDirtyP => main = layers

\* To the stores above it is a map from pointers to blobs: a pointer that is given out is not in
\* use, and no operation but the ones on a pointer changes what is under it.
Promise == INSTANCE BlobStore WITH store <- blobs
\* A put takes a pointer that is not in use (an update may stay where it is).
PutsApart == blobs' # blobs /\ Held' = Held => \A d \in Data : ~Put(d)
KeepsBlobs == Promise!Spec /\ [][PutsApart]_vars
=============================================================================
