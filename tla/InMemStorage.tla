------------------------------ MODULE InMemStorage ------------------------------
(***************************************************************************)
(* The storage of the fields kept in memory: TInMemStorage                 *)
(* (qminer/qminer_storage.cpp).  All values are in memory, each with a     *)
(* flag; they go to the blob base in blocks of BlockSize, and a block is   *)
(* written as a whole when one of its values is new or dirty.  Opened      *)
(* lazily, the values of a block are read when the first of them is.       *)
(*                                                                         *)
(* Positions count from 0, as in the code: ValV[n + 1] is position n.  A   *)
(* blob pointer stands for what its blob holds (BlobStore).                *)
(***************************************************************************)
EXTENDS Integers, Sequences

CONSTANTS
  Value, Blank,  \* Blank: the empty TMem of a value deleted or not loaded
  BlockSize,     \* at least 2: with 1, AddVal never adds a blob pointer, and DelVals finds none
  Lazy,          \* is the storage opened lazily ...
  LoadsFirst,    \* ... and does its user load everything before changing anything?
  MaxVals        \* bound: ids given out

VARIABLES
  ValV, DirtyV,       \* the values and their flags, by position
  BlobPtV,            \* the blocks on disk, <<>> for one that was never stored
  FirstValOffset,     \* positions deleted in the first block
  FirstValOffsetMem   \* the id of position 0

vars == <<ValV, DirtyV, BlobPtV, FirstValOffset, FirstValOffsetMem>>

Flag == {"new", "clean", "dirty", "notLoaded"}
Position == 0..Len(ValV) - 1
FlagOf(n) == DirtyV[n + 1]
BlockOf(n) == n \div BlockSize
Place(n) == (n % BlockSize) + 1
Blocks == {BlockOf(n) : n \in Position}
Live == {n \in Position : n >= FirstValOffset}
Lesser(a, b) == IF a <= b THEN a ELSE b
\* Len: how many values there are, and how many of the positions a block has.
Count == Len(ValV) - FirstValOffset
Filled(b) == Lesser(BlockSize, Len(ValV) - b * BlockSize)

Init ==
  /\ ValV = <<>> /\ DirtyV = <<>> /\ BlobPtV = <<>>
  /\ FirstValOffset = 0 /\ FirstValOffsetMem = 0

(***************************************************************************)
(* Loading and saving.                                                     *)
(***************************************************************************)
\* LoadRec reads a value for every position that the block has by now; it throws where the blob
\* ends, with the positions before that loaded.
MustLoad(n) == FlagOf(n) = "notLoaded"
Loadable(n) == MustLoad(n) /\ Place(n) <= Len(BlobPtV[BlockOf(n) + 1])
LoadBlocks(bs) ==
  LET now(n) == BlockOf(n) \in bs /\ Loadable(n)
  IN /\ ValV' = [i \in DOMAIN ValV |-> IF now(i - 1) THEN BlobPtV[BlockOf(i - 1) + 1][Place(i - 1)] ELSE ValV[i]]
     /\ DirtyV' = [i \in DOMAIN DirtyV |-> IF now(i - 1) THEN "clean" ELSE DirtyV[i]]

\* What SaveRec writes for a block: its values as they are in memory.
Contents(b) == [p \in 1..Filled(b) |-> ValV[b * BlockSize + p]]

\* Mutant of NeedsSaving: changed values of a block that is on disk are forgotten.
NeedsSavingNew(n) == FlagOf(n) = "new"
NeedsSaving(n) == FlagOf(n) \in {"new", "dirty"}
\* The blocks that SaveRec of these positions writes.
Written(ns) == {BlockOf(n) : n \in {m \in ns : NeedsSaving(m)}}
Stored(bs) ==
  LET reach == {0} \cup DOMAIN BlobPtV \cup {b + 1 : b \in bs}
  IN [i \in 1..(CHOOSE r \in reach : \A q \in reach : q <= r) |->
        IF i - 1 \in bs THEN Contents(i - 1) ELSE IF i \in DOMAIN BlobPtV THEN BlobPtV[i] ELSE <<>>]
Cleaned(bs) == [i \in DOMAIN DirtyV |-> IF BlockOf(i - 1) \in bs THEN "clean" ELSE DirtyV[i]]

(***************************************************************************)
(* The operations.                                                         *)
(***************************************************************************)
GetVal(n) ==
  /\ MustLoad(n)
  /\ LoadBlocks({BlockOf(n)})
  /\ UNCHANGED <<BlobPtV, FirstValOffset, FirstValOffsetMem>>

StartsBlock(len) == len % BlockSize = 1
AddVal(v) ==
  /\ FirstValOffsetMem + Len(ValV) < MaxVals
  /\ ValV' = Append(ValV, v)
  /\ DirtyV' = Append(DirtyV, "new")
  /\ BlobPtV' = IF StartsBlock(Len(ValV) + 1) THEN Append(BlobPtV, <<>>) ELSE BlobPtV
  /\ UNCHANGED <<FirstValOffset, FirstValOffsetMem>>

SetVal(n, v) ==
  /\ ValV' = [ValV EXCEPT ![n + 1] = v]
  /\ DirtyV' = [DirtyV EXCEPT ![n + 1] = IF @ = "new" THEN "new" ELSE "dirty"]
  /\ UNCHANGED <<BlobPtV, FirstValOffset, FirstValOffsetMem>>

DeletedBlocks(m) == (FirstValOffset + m) \div BlockSize

\* DelVals: values are blanked, and blocks of them dropped from all the vectors.
DelVals(n) ==
  LET m == Lesser(n, Count)
      bs == DeletedBlocks(m)
      gone == bs * BlockSize
      blanked == [i \in DOMAIN ValV |-> IF i - 1 \in FirstValOffset..FirstValOffset + m - 1 THEN Blank ELSE ValV[i]]
  IN /\ ValV' = SubSeq(blanked, gone + 1, Len(ValV))
     /\ DirtyV' = SubSeq(DirtyV, gone + 1, Len(DirtyV))
     /\ BlobPtV' = SubSeq(BlobPtV, bs + 1, Len(BlobPtV))
     /\ FirstValOffset' = FirstValOffset + m - gone
     /\ FirstValOffsetMem' = FirstValOffsetMem + gone

\* PartialFlush saves the positions in order until its time is up.
PartialFlush ==
  \E n \in 1..Len(ValV) :
    LET bs == Written(0..n - 1)
    IN bs # {} /\ BlobPtV' = Stored(bs) /\ DirtyV' = Cleaned(bs)
       /\ UNCHANGED <<ValV, FirstValOffset, FirstValOffsetMem>>

\* LoadAll, a second time.
LoadAll ==
  /\ \E n \in Position : MustLoad(n)
  /\ LoadBlocks(Blocks)
  /\ UNCHANGED <<BlobPtV, FirstValOffset, FirstValOffsetMem>>

\* The destructor saves everything; opening takes the vectors over and loads all or nothing.
CloseAndOpen ==
  LET onDisk == Stored(Written(Position))
  IN /\ BlobPtV' = onDisk
     /\ ValV' = [i \in DOMAIN ValV |->
                   IF Lazy THEN Blank ELSE onDisk[BlockOf(i - 1) + 1][Place(i - 1)]]
     /\ DirtyV' = [i \in DOMAIN DirtyV |-> IF Lazy THEN "notLoaded" ELSE "clean"]
     /\ UNCHANGED <<FirstValOffset, FirstValOffsetMem>>

Next ==
  \/ /\ LoadsFirst => \A n \in Position : ~MustLoad(n)
     /\ \E v \in Value : AddVal(v) \/ \E n \in Live : SetVal(n, v)
  \/ \E n \in Live : GetVal(n)
  \/ \E n \in 1..Len(ValV) + 1 : DelVals(n)
  \/ PartialFlush
  \/ LoadAll
  \/ CloseAndOpen

Spec == Init /\ [][Next]_vars

(***************************************************************************)
(* Properties.                                                             *)
(***************************************************************************)
\* The constants, and the use, that the properties are about: one that opens the storage lazily
\* loads all of it before the first change (README, departures).
Careful == BlockSize \in Nat \ {0, 1} /\ (Lazy => LoadsFirst)

\* The vectors have one entry for each position or block, and offsets stay inside the first block.
TypeOK ==
  /\ ValV \in Seq(Value \cup {Blank}) /\ DirtyV \in Seq(Flag) /\ Len(DirtyV) = Len(ValV)
  /\ BlobPtV \in Seq(Seq(Value \cup {Blank})) /\ \A b \in DOMAIN BlobPtV : Len(BlobPtV[b]) <= BlockSize
  /\ FirstValOffset \in 0..BlockSize - 1 /\ FirstValOffset <= Len(ValV) /\ FirstValOffsetMem \in Nat

\* DelVals and LoadRec find the pointer of every block: there is one for each, stored or not.
BlocksHaveBlobs == DOMAIN BlobPtV = {b + 1 : b \in Blocks}

\* A clean value is the one its block has on disk: whatever flushing, deleting, closing and opening
\* do, nothing that was set is skipped by the next save.
CleanOnDisk ==
  \A n \in Live : FlagOf(n) = "clean" =>
    /\ Place(n) <= Len(BlobPtV[BlockOf(n) + 1])
    /\ BlobPtV[BlockOf(n) + 1][Place(n)] = ValV[n + 1]

\* A block that is to be written has all its values in memory (LoadRec, SaveRec: a block is saved
\* from ValV), and one that is to be read has as many values on disk as LoadRec will ask for.
BlocksWhole ==
  \A n \in Live : MustLoad(n) =>
    \A k \in Position : BlockOf(k) = BlockOf(n) => ~NeedsSaving(k) /\ Place(k) <= Len(BlobPtV[BlockOf(n) + 1])

\* The storage keeps its promise: a value not loaded is the one on disk.
Kept(n) == IF MustLoad(n) THEN BlobPtV[BlockOf(n) + 1][Place(n)] ELSE ValV[n + 1]
Promise == INSTANCE ValueStore WITH
  first <- FirstValOffsetMem + FirstValOffset,
  vals <- [i \in 1..Count |-> Kept(FirstValOffset + i - 1)]
ImplementsValueStore == Promise!Spec
================================================================================
