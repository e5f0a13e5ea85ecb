------------------------------ MODULE WndBlockCache ------------------------------
(***************************************************************************)
(* The storage of the fields kept on disk: TWndBlockCache                  *)
(* (glib/base/cache.h) with the TCache (glib/base/hash.h) of its blocks.   *)
(*                                                                         *)
(* Values are in blocks of BlockSize, blocks are numbered from 0 for ever. *)
(* A block is in the cache, in a blob, or both; the cache drops the blocks *)
(* used longest ago, and writes the changed ones as it does.  New values   *)
(* go to the last block, values are forgotten from the front, and a block  *)
(* goes with its last value.                                               *)
(*                                                                         *)
(* A value is the memory it takes; a blob pointer stands for what its blob *)
(* holds (BlobStore).  c is the part of the state that the cache works on: *)
(* [cache, order, cur, blobs], the blocks by number, their numbers with    *)
(* the last used first, CurMemUsed and BlockBlobPtV.                       *)
(***************************************************************************)
EXTENDS Integers, Sequences, FiniteSets, SequencesExt

CONSTANTS
  Value,      \* a set of sizes, which are numbers
  Empty,      \* the blob pointer of a block that was never stored
  BlockSize,  \* at least 1
  BlockMem,   \* what an empty block takes
  MxMemUsed,  \* the size of the cache
  PurgeMem,   \* at least so much is freed at a time
  CacheResetThreshold,
  Drains,     \* may all values be deleted when the last block is full?
  Grows,      \* may a value be overwritten by a larger one?
  MaxVals     \* bound: ids given out

VARIABLES
  Vals,             \* the number of values
  BlockCache,       \* c, as above
  FirstBlockOffset, \* the number of the oldest block
  FirstValOffset,   \* values deleted in it
  NewCacheSizeInc   \* memory added since the cache was last measured

vars == <<Vals, BlockCache, FirstBlockOffset, FirstValOffset, NewCacheSizeInc>>

Greater(a, b) == IF a >= b THEN a ELSE b
Lesser(a, b) == IF a <= b THEN a ELSE b
Total(f) == FoldFunction(LAMBDA a, b : a + b, 0, f)

MemUsed(block) == BlockMem + FoldSeq(LAMBDA a, b : a + b, 0, block.ValV)
Block(values, changed) == [ValV |-> values, ChangedP |-> changed]
GetMemUsed(cache) == Total([b \in DOMAIN cache |-> MemUsed(cache[b])])

(***************************************************************************)
(* The cache.                                                              *)
(***************************************************************************)
Place(b) == b - FirstBlockOffset + 1
\* What is left of an order of use without these blocks.
Rest(order, bs) ==
  LET rest[i \in 0..Len(order)] ==
        IF i = 0 THEN <<>> ELSE IF order[i] \in bs THEN rest[i - 1] ELSE Append(rest[i - 1], order[i])
  IN rest[Len(order)]
Without(f, keys) == [k \in DOMAIN f \ keys |-> f[k]]

\* StoreBlock of these blocks, those of them that have changed.
Saved(c, bs) ==
  LET written == {b \in bs : c.cache[b].ChangedP}
  IN [c EXCEPT
       !.blobs = [i \in DOMAIN @ |-> IF FirstBlockOffset + i - 1 \in written
                                     THEN c.cache[FirstBlockOffset + i - 1].ValV ELSE @[i]],
       !.cache = [b \in DOMAIN @ |-> IF b \in written THEN Block(@[b].ValV, FALSE) ELSE @[b]]]

\* Del from the cache, without the event.
Deleted(c, bs) ==
  [c EXCEPT !.cache = Without(@, bs),
            !.order = Rest(@, bs),
            !.cur = @ - Total([b \in bs \cap DOMAIN c.cache |-> MemUsed(c.cache[b])])]

\* Mutant of Dropped: changes are not written.
DroppedUnsaved(c, bs) == Deleted(c, bs)
Dropped(c, bs) == Deleted(Saved(c, bs), bs)

\* Purge: from the end of the order, until so much is free.
LastOf(c, n) == {c.order[i] : i \in Len(c.order) - n + 1..Len(c.order)}
Purge(c, mem) ==
  LET freed(n) == Total([b \in LastOf(c, n) |-> MemUsed(c.cache[b])])
      enough == {n \in 0..Len(c.order) : freed(n) >= mem \/ n = Len(c.order)}
  IN Dropped(c, LastOf(c, CHOOSE n \in enough : \A k \in enough : n <= k))

ToFront(order, b) == <<b>> \o Rest(order, {b})

MustPurge(c, mem) == c.cur + mem > MxMemUsed

Put(c, b, block) ==
  IF b \in DOMAIN c.cache
  THEN [c EXCEPT !.cache[b] = block, !.order = ToFront(@, b)]
  ELSE LET mem == MemUsed(block)
           roomy == IF MustPurge(c, mem) THEN Purge(c, Greater(PurgeMem, mem)) ELSE c
       IN [roomy EXCEPT !.cache = [k \in DOMAIN @ \cup {b} |-> IF k = b THEN block ELSE @[k]],
                        !.order = ToFront(@, b),
                        !.cur = @ + mem]

GetBlock(c, b) ==
  Put(c, b, IF b \in DOMAIN c.cache THEN c.cache[b] ELSE Block(c.blobs[Place(b)], FALSE))

\* Mutant of IsFull: one more fits.
IsFullLate(block) == Len(block.ValV) > BlockSize
IsFull(block) == Len(block.ValV) >= BlockSize
LastBlock(c) == FirstBlockOffset + Len(c.blobs) - 1

AddBlock(c) ==
  LET added == [c EXCEPT !.blobs = Append(@, Empty)]
  IN Put(added, LastBlock(added), Block(<<>>, TRUE))

\* RefreshMemUsed.
Measured(c) ==
  LET mem == GetMemUsed(c.cache)
      now == [c EXCEPT !.cur = mem]
  IN IF mem > MxMemUsed THEN Purge(now, mem - MxMemUsed) ELSE now

(***************************************************************************)
(* The operations.                                                         *)
(***************************************************************************)
GetFirstValId == FirstBlockOffset * BlockSize + FirstValOffset
ValIds == GetFirstValId..GetFirstValId + Vals - 1

NoCache == [cache |-> <<>>, order |-> <<>>, cur |-> 0, blobs |-> <<>>]
Init ==
  /\ Vals = 0 /\ FirstBlockOffset = 0 /\ FirstValOffset = 0
  /\ BlockCache = [cache |-> [b \in {0} |-> Block(<<>>, TRUE)], order |-> <<0>>, cur |-> BlockMem, blobs |-> <<Empty>>]
  /\ NewCacheSizeInc = BlockMem

\* AddVal: into the last block, or a new one if that is full.
AddVal(v) ==
  LET c == GetBlock(BlockCache, LastBlock(BlockCache))
      full == IsFull(c.cache[LastBlock(c)])
      last == IF full THEN AddBlock(c) ELSE c
      b == LastBlock(last)
      added == [last EXCEPT !.cache[b] = Block(Append(@.ValV, v), TRUE)]
      inc == NewCacheSizeInc + v + (IF full THEN BlockMem ELSE 0)
  IN /\ BlockCache.blobs # <<>>
     /\ GetFirstValId + Vals < MaxVals
     /\ BlockCache' = IF inc > CacheResetThreshold THEN Measured(added) ELSE added
     /\ NewCacheSizeInc' = IF inc > CacheResetThreshold THEN 0 ELSE inc
     /\ Vals' = Vals + 1
     /\ UNCHANGED <<FirstBlockOffset, FirstValOffset>>

\* GetVal, GetFirstVal and IsValId only bring the block into the cache.
GetVal(id) ==
  /\ BlockCache' = GetBlock(BlockCache, id \div BlockSize)
  /\ UNCHANGED <<Vals, FirstBlockOffset, FirstValOffset, NewCacheSizeInc>>

Overwritten(block, p, v) == Block([block.ValV EXCEPT ![p] = v], TRUE)
SetVal(id, v) ==
  LET b == id \div BlockSize
      c == GetBlock(BlockCache, b)
      p == (id % BlockSize) + 1
  IN /\ Grows \/ v <= c.cache[b].ValV[p]
     /\ BlockCache' = [c EXCEPT !.cache[b] = Overwritten(@, p, v)]
     /\ UNCHANGED <<Vals, FirstBlockOffset, FirstValOffset, NewCacheSizeInc>>

\* DelVals: DelVal one after the other; blocks that are through are dropped with their blobs.
DelVals(n) ==
  LET m == Lesser(n, Vals)
      gone == (FirstValOffset + m) \div BlockSize
      c == Deleted(BlockCache, FirstBlockOffset..FirstBlockOffset + gone - 1)
  IN /\ m > 0
     /\ Drains \/ gone < Len(BlockCache.blobs)
     /\ BlockCache' = [c EXCEPT !.blobs = SubSeq(@, gone + 1, Len(@))]
     /\ FirstBlockOffset' = FirstBlockOffset + gone
     /\ FirstValOffset' = (FirstValOffset + m) % BlockSize
     /\ Vals' = Vals - m
     /\ UNCHANGED NewCacheSizeInc

\* PartialFlush: the blocks used longest ago, until the time is up.
PartialFlush ==
  \E n \in 1..Len(BlockCache.order) :
    /\ \E b \in LastOf(BlockCache, n) : BlockCache.cache[b].ChangedP
    /\ BlockCache' = Saved(BlockCache, LastOf(BlockCache, n))
    /\ UNCHANGED <<Vals, FirstBlockOffset, FirstValOffset, NewCacheSizeInc>>

\* The destructor flushes the cache and saves the rest, the constructor starts with an empty cache.
CloseAndOpen ==
  /\ BlockCache' = [NoCache EXCEPT !.blobs = Saved(BlockCache, DOMAIN BlockCache.cache).blobs]
  /\ NewCacheSizeInc' = 0
  /\ UNCHANGED <<Vals, FirstBlockOffset, FirstValOffset>>

Next ==
  \/ \E v \in Value : AddVal(v) \/ \E id \in ValIds : SetVal(id, v)
  \/ \E id \in ValIds : GetVal(id)
  \/ \E n \in 1..MaxVals : DelVals(n)
  \/ PartialFlush
  \/ CloseAndOpen

Spec == Init /\ [][Next]_vars

(***************************************************************************)
(* Properties.                                                             *)
(***************************************************************************)
\* What the properties take for granted of the constants.
Careful == BlockSize \in Nat \ {0} /\ MaxVals \in Nat /\ Empty \notin Seq(Value)

Blocks == FirstBlockOffset..LastBlock(BlockCache)
\* The values of a block, wherever they are.
ValuesOf(b) == IF b \in DOMAIN BlockCache.cache THEN BlockCache.cache[b].ValV ELSE BlockCache.blobs[Place(b)]

\* The shape of the state; the order of use lists every cached block once.
TypeOK ==
  /\ Vals \in Nat /\ FirstBlockOffset \in Nat /\ FirstValOffset \in 0..BlockSize - 1
  /\ NewCacheSizeInc \in 0..CacheResetThreshold
  /\ DOMAIN BlockCache.cache \subseteq Blocks /\ BlockCache.cur \in Int
  /\ \A b \in DOMAIN BlockCache.cache : BlockCache.cache[b] \in [ValV : Seq(Value), ChangedP : BOOLEAN]
  /\ \A i \in DOMAIN BlockCache.blobs : BlockCache.blobs[i] \in Seq(Value) \cup {Empty}
  /\ Range(BlockCache.order) = DOMAIN BlockCache.cache
  /\ Len(BlockCache.order) = Cardinality(DOMAIN BlockCache.cache)

\* A block that is not in the cache, or unchanged there, is on disk as it is: what was changed
\* while it was cached is written before, or when, it is dropped.
CleanOnDisk ==
  \A b \in Blocks :
    \/ b \in DOMAIN BlockCache.cache /\ BlockCache.cache[b].ChangedP
    \/ BlockCache.blobs[Place(b)] \notin {Empty} /\ BlockCache.blobs[Place(b)] = ValuesOf(b)

\* Ids are arithmetic on block numbers, so all blocks but the last must be full, and the number of
\* values must be what the full blocks and the last one hold less what was deleted in the first.
BlocksFull ==
  /\ \A b \in Blocks : Len(ValuesOf(b)) <= BlockSize /\ (b # LastBlock(BlockCache) => Len(ValuesOf(b)) = BlockSize)
  /\ Vals + FirstValOffset = IF Blocks = {} THEN 0
                             ELSE (Len(BlockCache.blobs) - 1) * BlockSize + Len(ValuesOf(LastBlock(BlockCache)))

\* There is a last block to add values to (GetLastBlock asks for it without looking).
LastBlockExists == BlockCache.blobs # <<>>

\* The cache never takes more than it may, by more than what can come in between two measurements
\* or one block, though it is told of growing blocks only when they are dropped or measured.
LargestBlock == BlockMem + BlockSize * (CHOOSE v \in Value : \A w \in Value : w <= v)
MemoryBounded ==
  GetMemUsed(BlockCache.cache) <= Greater(MxMemUsed, LargestBlock) + CacheResetThreshold

\* The storage keeps its promise.
Promise == INSTANCE ValueStore WITH
  first <- GetFirstValId,
  vals <- [i \in 1..Vals |-> LET id == GetFirstValId + i - 1
                             IN ValuesOf(id \div BlockSize)[(id % BlockSize) + 1]]
ImplementsValueStore == Promise!Spec
================================================================================
