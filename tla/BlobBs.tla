------------------------------- MODULE BlobBs -------------------------------
(***************************************************************************)
(* The blob base on disk: TMBlobBs, a sequence of segment files, and       *)
(* TGBlobBs, one such file (glib/base/blobbs.cpp).                         *)
(*                                                                         *)
(* A segment is a header followed by blocks.  A block belongs to a size    *)
(* class, is active or free, and never moves or changes its class.  Free   *)
(* blocks of a class form a linked list: its head is in memory             *)
(* (FFreeBlobPtV) and reaches the header of the file only when the base is *)
(* closed; the links are in the blocks themselves.                         *)
(*                                                                         *)
(* A crash is the death of the process between two operations.  What lived *)
(* in memory is gone, and with it what was still in the buffers of the     *)
(* files: nothing is flushed after an operation, but every seek writes the *)
(* buffer out, so what a segment can lose is the end of the block that was *)
(* appended to it last.  Such a block is cut: the file ends behind its     *)
(* data, reading it throws, and the next append starts in its extent.      *)
(***************************************************************************)
EXTENDS Integers

CONSTANTS
  NClass,      \* number of size classes
  BlockLenV,   \* BlockLenV[c]: bytes of data a block of class c can hold
  Overhead,    \* OverheadSize: tags, state, lengths and checksum of a block
  HeadLen,     \* ... of which so much is before the data
  HdrLen,      \* length of the header of a segment file
  MxSegLen,    \* a segment longer than this takes no new blocks
  AddrMx,      \* TInt::Mx - 1024: a block must end below it
  MaxSegs,     \* bound on the number of segments (the code: TUSInt::Mx)
  Data,        \* contents of blobs
  DataLen,     \* DataLen[d]: serialized length of d
  NoData       \* content of a block that holds no blob

Class == 1..NClass
Seg   == 0..MaxSegs-1
Nil   == 0                \* TBlobPt() as a link: no block starts inside a header
Addr  == 0..AddrMx
Ptr   == Seg \X Addr

ASSUME SizesAssumption ==
  /\ NClass \in Nat \ {0}
  /\ BlockLenV \in [Class -> Nat \ {0}]
  /\ \A c, d \in Class : c < d => BlockLenV[c] < BlockLenV[d]
  /\ Overhead \in Nat \ {0} /\ HeadLen \in Nat \ {0} /\ HeadLen < Overhead
ASSUME SegmentAssumption ==
  /\ HdrLen \in Nat \ {0}
  /\ MxSegLen \in Nat /\ HdrLen <= MxSegLen
  /\ AddrMx \in Nat
  /\ \A c \in Class : HdrLen + BlockLenV[c] + Overhead <= AddrMx
  /\ MaxSegs \in Nat \ {0}
ASSUME DataAssumption ==
  /\ NoData \notin Data
  /\ DataLen \in [Data -> Nat]
  /\ \A d \in Data : \E c \in Class : DataLen[d] <= BlockLenV[c]

VARIABLES
  blk,      \* the blocks in the segment files, by pointer
  flen,     \* CachedFLen of each segment; between a crash and an opening, the length of its file
  tail,     \* the block of each segment whose end is still in the buffer of its file, or Nil
  free,     \* FFreeBlobPtV of each segment: head of the free list of each class
  hdr,      \* state and free-list heads in the header of each segment file
  hint,     \* BlockSizeToSegH: where a put of this class starts to look
  nSegs,    \* SegV.Len() = number of segment files
  main,     \* "Segments" in the main file
  mode,     \* "open", "closing" (destructors running), "closed", "crashed"
  tainted   \* history: opened with faRestore after a crash

vars == <<blk, flen, tail, free, hdr, hint, nSegs, main, mode, tainted>>

Block == [st : {"none", "active", "free", "cut"}, cls : Class, next : Addr,
          dat : Data \cup {NoData}]
NoBlock  == [st |-> "none", cls |-> 1, next |-> Nil, dat |-> NoData]
NoHeads  == [c \in Class |-> Nil]

TypeOK ==
  /\ blk \in [Ptr -> Block]
  /\ flen \in [Seg -> Addr] /\ tail \in [Seg -> Addr]
  /\ free \in [Seg -> [Class -> Addr]]
  /\ hdr \in [Seg -> [state : {"none", "opened", "closed"}, free : [Class -> Addr]]]
  /\ hint \in [Class -> Seg]
  /\ nSegs \in 1..MaxSegs
  /\ main \in 1..MaxSegs
  /\ mode \in {"open", "closing", "closed", "crashed"}
  /\ tainted \in BOOLEAN

Live == 0..nSegs-1        \* the segments that exist

(***************************************************************************)
(* Helpers.                                                                *)
(***************************************************************************)

\* The first class that can hold Len bytes.
IsAllocClass(c, Len) == /\ c \in Class
                        /\ Len <= BlockLenV[c]
                        /\ \A d \in 1..c-1 : BlockLenV[d] < Len

\* A block of class c may still be appended to segment s.
Room(s, c) == /\ flen[s] <= MxSegLen
              /\ flen[s] + BlockLenV[c] + Overhead <= AddrMx

\* TGBlobBs::PutBlob returns a pointer (or throws), and not TBlobPt().
CanTake(s, c) == free[s][c] # Nil \/ Room(s, c)

\* TMBlobBs::PutBlob looks from segment `from' upwards and creates a new
\* segment (s = nSegs) when no segment takes the blob.
IsDest(s, from, c) == /\ s \in from..nSegs
                      /\ s < nSegs => CanTake(s, c)
                      /\ \A t \in from..s-1 : ~CanTake(t, c)

\* The block a put of class c gets in segment s: the head of the free list,
\* else a new one at the end of the file.
Slot(s, c) == IF free[s][c] # Nil THEN <<s, free[s][c]>> ELSE <<s, flen[s]>>

\* Mutant of HeadIsFree: the assertion is gone.
HeadUnchecked(s, c) == TRUE

\* AssertBlobState(File, bsFree) on the head of the free list.
HeadIsFree(s, c) == free[s][c] # Nil => blk[<<s, free[s][c]>>].st = "free"

\* Mutant of Released: the link to the rest of the list is not written.
ReleasedUnlinked(p) == [blk[p] EXCEPT !.st = "free", !.dat = NoData]

\* Mutant of FLenAfter: tags, lengths and checksum are not counted.
FLenDataOnly(s, c) == IF free[s][c] # Nil THEN flen[s] ELSE flen[s] + BlockLenV[c]

Active(c, d)   == [st |-> "active", cls |-> c, next |-> Nil, dat |-> d]
Released(p)    == [st |-> "free", cls |-> blk[p].cls,
                   next |-> free[p[1]][blk[p].cls], dat |-> NoData]
HeadAfter(s, c) == IF free[s][c] # Nil THEN blk[<<s, free[s][c]>>].next ELSE Nil
FLenAfter(s, c) == IF free[s][c] # Nil THEN flen[s]
                   ELSE flen[s] + BlockLenV[c] + Overhead
Lower(s, h) == IF s < h THEN s ELSE h

\* An append leaves the end of its block in the buffer (it was skipped over the rest of the
\* space for the data); the reuse of a block ends by reading its end tag.
TailAfter(s, c) == IF free[s][c] = Nil THEN flen[s] ELSE Nil

IsActive(p) == blk[p].st = "active"
IsWhole(p) == blk[p].st \in {"active", "free"}

\* The blocks that are cut when the buffers of these segments are lost.
Lost(L) == {p \in Ptr : p[1] \in L /\ p[2] = tail[p[1]]}
Cut(p) == [st |-> "cut", cls |-> blk[p].cls, next |-> blk[p].next, dat |-> NoData]
\* Where the file of segment s ends then: behind the data of the block.
CutLen(s) == tail[s] + HeadLen + DataLen[blk[<<s, tail[s]>>].dat]

\* TGBlobBs::TGBlobBs(faCreate): the file of a new segment starts with a
\* header in state bbsOpened.
SegFilesAfter(s) ==
  IF s < nSegs THEN UNCHANGED <<nSegs, hdr>>
  ELSE /\ nSegs < MaxSegs
       /\ nSegs' = nSegs + 1
       /\ hdr' = [hdr EXCEPT ![s] = [state |-> "opened", free |-> NoHeads]]

(***************************************************************************)
(* A new base: one segment, opened, listed in the main file.               *)
(***************************************************************************)
Init ==
  /\ blk = [p \in Ptr |-> NoBlock]
  /\ flen = [s \in Seg |-> HdrLen]
  /\ tail = [s \in Seg |-> Nil]
  /\ free = [s \in Seg |-> NoHeads]
  /\ hdr = [s \in Seg |-> [state |-> IF s = 0 THEN "opened" ELSE "none",
                           free |-> NoHeads]]
  /\ hint = [c \in Class |-> 0]
  /\ nSegs = 1
  /\ main = 1
  /\ mode = "open"
  /\ tainted = FALSE

\* TMBlobBs::PutBlob(SIn) storing d in segment s.
PutBlob(d, c, s) ==
  /\ mode = "open"
  /\ IsAllocClass(c, DataLen[d])
  /\ IsDest(s, hint[c], c)
  /\ s \in Seg
  /\ HeadIsFree(s, c)
  /\ SegFilesAfter(s)
  /\ blk' = [blk EXCEPT ![Slot(s, c)] = Active(c, d)]
  /\ free' = [free EXCEPT ![s][c] = HeadAfter(s, c)]
  /\ flen' = [flen EXCEPT ![s] = FLenAfter(s, c)]
  /\ tail' = [tail EXCEPT ![s] = TailAfter(s, c)]
  /\ hint' = [hint EXCEPT ![c] = s]
  /\ UNCHANGED <<main, mode, tainted>>

\* TGBlobBs::GetBlob, and FNextBlobPt when it walks over this blob: the file is written out.
GetBlob(p) ==
  /\ mode = "open"
  /\ IsActive(p)
  /\ tail' = [tail EXCEPT ![p[1]] = Nil]
  /\ UNCHANGED <<blk, flen, free, hdr, hint, nSegs, main, mode, tainted>>

\* TMBlobBs::PutBlob(BlobPt, SIn), the new data fits the block.
UpdateInPlace(p, d) ==
  /\ mode = "open"
  /\ IsActive(p)
  /\ DataLen[d] <= BlockLenV[blk[p].cls]
  /\ blk' = [blk EXCEPT ![p] = Active(blk[p].cls, d)]
  /\ tail' = [tail EXCEPT ![p[1]] = Nil]
  /\ UNCHANGED <<flen, free, hdr, hint, nSegs, main, mode, tainted>>

\* Where an update that has outgrown its block goes: its own segment if that
\* takes it, else wherever TMBlobBs::PutBlob(SIn) puts it.  The released block
\* is of a smaller class, so it does not matter to the choice.
IsMoveDest(s, p, c) ==
  IF CanTake(p[1], c) THEN s = p[1] ELSE IsDest(s, hint[c], c)

\* ... the new data does not fit: DelBlob, then PutBlob.
UpdateMoves(p, d, c, s) ==
  /\ mode = "open"
  /\ IsActive(p)
  /\ DataLen[d] > BlockLenV[blk[p].cls]
  /\ IsAllocClass(c, DataLen[d])
  /\ IsMoveDest(s, p, c)
  /\ s \in Seg
  /\ HeadIsFree(s, c)
  /\ SegFilesAfter(s)
  /\ blk' = [blk EXCEPT ![p] = Released(p), ![Slot(s, c)] = Active(c, d)]
  /\ free' = [free EXCEPT ![p[1]][blk[p].cls] = p[2],
                          ![s][c] = HeadAfter(s, c)]
  /\ flen' = [flen EXCEPT ![s] = FLenAfter(s, c)]
  /\ tail' = [tail EXCEPT ![p[1]] = Nil, ![s] = TailAfter(s, c)]
  /\ hint' = [hint EXCEPT ![blk[p].cls] = Lower(p[1], @),
                          ![c] = IF CanTake(p[1], c) THEN @ ELSE s]
  /\ UNCHANGED <<main, mode, tainted>>

\* ... and the head of the free list it is given turns out to be active: the
\* exception leaves the old copy released.  When it comes from the segment of
\* the blob, TMBlobBs does not get to lower its hint.
UpdateThrows(p, d, c, s) ==
  /\ mode = "open"
  /\ IsActive(p)
  /\ DataLen[d] > BlockLenV[blk[p].cls]
  /\ IsAllocClass(c, DataLen[d])
  /\ IsMoveDest(s, p, c)
  /\ s \in Seg
  /\ ~HeadIsFree(s, c)
  /\ blk' = [blk EXCEPT ![p] = Released(p)]
  /\ free' = [free EXCEPT ![p[1]][blk[p].cls] = p[2]]
  /\ tail' = [tail EXCEPT ![p[1]] = Nil, ![s] = Nil]
  /\ hint' = IF CanTake(p[1], c) THEN hint
             ELSE [hint EXCEPT ![blk[p].cls] = Lower(p[1], @)]
  /\ UNCHANGED <<flen, hdr, nSegs, main, mode, tainted>>

\* TMBlobBs::DelBlob(BlobPt).
DelBlob(p) ==
  /\ mode = "open"
  /\ IsActive(p)
  /\ blk' = [blk EXCEPT ![p] = Released(p)]
  /\ free' = [free EXCEPT ![p[1]][blk[p].cls] = p[2]]
  /\ tail' = [tail EXCEPT ![p[1]] = Nil]
  /\ hint' = [hint EXCEPT ![blk[p].cls] = Lower(p[1], @)]
  /\ UNCHANGED <<flen, hdr, nSegs, main, mode, tainted>>

(***************************************************************************)
(* Closing: ~TMBlobBs saves the main file, then the segments are destroyed *)
(* and each ~TGBlobBs writes its header and flushes the file.              *)
(***************************************************************************)
\* Mutant of CloseMain: the main file is not saved again.
CloseMainStale ==
  /\ mode = "open"
  /\ mode' = "closing"
  /\ UNCHANGED <<blk, flen, tail, free, hdr, hint, nSegs, main, tainted>>

CloseMain ==
  /\ mode = "open"
  /\ main' = nSegs
  /\ mode' = "closing"
  /\ UNCHANGED <<blk, flen, tail, free, hdr, hint, nSegs, tainted>>

CloseSeg(s) ==
  /\ mode = "closing"
  /\ s \in Live
  /\ hdr[s].state = "opened"
  /\ hdr' = [hdr EXCEPT ![s] = [state |-> "closed", free |-> free[s]]]
  /\ tail' = [tail EXCEPT ![s] = Nil]
  /\ UNCHANGED <<blk, flen, free, hint, nSegs, main, mode, tainted>>

CloseDone ==
  /\ mode = "closing"
  /\ \A s \in Live : hdr[s].state = "closed"
  /\ mode' = "closed"
  /\ UNCHANGED <<blk, flen, tail, free, hdr, hint, nSegs, main, tainted>>

\* The process dies, and the buffers of the segments L are lost (exit() still writes them out, a
\* signal does not).  The block is cut behind its data; that is where its file ends now.
Crash(L) ==
  /\ mode \in {"open", "closing"}
  /\ \A s \in L : tail[s] # Nil
  /\ mode' = "crashed"
  /\ blk' = [p \in Ptr |-> IF p \in Lost(L) THEN Cut(p) ELSE blk[p]]
  /\ flen' = [s \in Seg |-> IF s \in L THEN CutLen(s) ELSE flen[s]]
  /\ tail' = [s \in Seg |-> Nil]
  /\ UNCHANGED <<free, hdr, hint, nSegs, main, tainted>>

(***************************************************************************)
(* Opening.  A segment is opened by marking its header and loading the     *)
(* heads of the free lists from it; CachedFLen is the length of the file,  *)
(* and hints start from segment 0.                                         *)
(***************************************************************************)
LoadSegs(n) ==
  /\ nSegs' = n
  /\ free' = [s \in Seg |-> IF s < n THEN hdr[s].free ELSE free[s]]
  /\ hdr' = [s \in Seg |-> IF s < n THEN [hdr[s] EXCEPT !.state = "opened"]
                           ELSE hdr[s]]
  /\ hint' = [c \in Class |-> 0]
  /\ mode' = "open"

\* faUpdate: the segments the main file lists, all of which must be closed.
OpenUpdate ==
  /\ mode \in {"closed", "crashed"}
  /\ \A s \in 0..main-1 : hdr[s].state = "closed"
  /\ LoadSegs(main)
  /\ UNCHANGED <<blk, flen, tail, main, tainted>>

\* faRestore: the segment files that exist, closed or not.
OpenRestore ==
  /\ mode \in {"closed", "crashed"}
  /\ LoadSegs(nSegs)
  /\ tainted' = (tainted \/ \E s \in Live : hdr[s].state = "opened")
  /\ UNCHANGED <<blk, flen, tail, main>>

Next ==
  \/ \E d \in Data, c \in Class, s \in Seg : PutBlob(d, c, s)
  \/ \E p \in Ptr : GetBlob(p)
  \/ \E p \in Ptr, d \in Data : UpdateInPlace(p, d)
  \/ \E p \in Ptr, d \in Data, c \in Class, s \in Seg : UpdateMoves(p, d, c, s)
  \/ \E p \in Ptr, d \in Data, c \in Class, s \in Seg : UpdateThrows(p, d, c, s)
  \/ \E p \in Ptr : DelBlob(p)
  \/ CloseMain
  \/ \E s \in Seg : CloseSeg(s)
  \/ CloseDone
  \/ \E L \in SUBSET Seg : Crash(L)
  \/ OpenUpdate
  \/ OpenRestore

Spec == Init /\ [][Next]_vars

(***************************************************************************)
(* Properties.                                                             *)
(***************************************************************************)

\* The blocks a free list goes through, from its head along the links
\* (PutBlob follows one link per reuse).
Chain(s, c) ==
  LET Reach[n \in 0..AddrMx] ==
        IF n = 0 THEN {free[s][c]} \ {Nil}
        ELSE LET R == Reach[n-1] IN R \cup ({blk[<<s, a>>].next : a \in R} \ {Nil})
  IN Reach[AddrMx]

\* While the base was never restored from a crash, the free list of a class
\* goes through exactly the free blocks of that class: no released block is
\* leaked, none is in two lists, no active block is in any (PutBlob, DelBlob).
FreeListExact ==
  ~tainted =>
    \A s \in Seg, c \in Class :
      Chain(s, c) = {a \in Addr : /\ blk[<<s, a>>].st = "free"
                                  /\ blk[<<s, a>>].cls = c}

\* PutBlob asserts that the block it reuses is free.  Until a restore the
\* assertion never fails, so no update loses its blob half way.
ThrowsOnlyAfterRestore == ~tainted => \A s \in Seg, c \in Class : HeadIsFree(s, c)

\* Every head and every link names a whole block of its own class, also in a
\* restored base, whose heads are those of the last close: a reused block is
\* never too small for the class it is handed out for, and never one that was
\* cut by a crash.
LinkOk(s, c, a) == a # Nil => IsWhole(<<s, a>>) /\ blk[<<s, a>>].cls = c
LinksInClass ==
  /\ \A s \in Seg, c \in Class : LinkOk(s, c, free[s][c]) /\ LinkOk(s, c, hdr[s].free[c])
  /\ \A p \in Ptr : IsWhole(p) => LinkOk(p[1], blk[p].cls, blk[p].next)

\* Blocks lie inside their file, behind the header, and do not overlap: the
\* tracked length CachedFLen is the true end of the file.  Only a block that was
\* cut by a crash may be run into by what is appended later.
EndOf(p) == p[2] + BlockLenV[blk[p].cls] + Overhead
NoOverlap ==
  \A p \in Ptr : IsWhole(p) =>
    /\ p[2] >= HdrLen /\ EndOf(p) <= flen[p[1]] /\ EndOf(p) <= AddrMx
    /\ \A q \in Ptr :
         q[1] = p[1] /\ q # p /\ IsWhole(q) =>
           EndOf(p) <= q[2] \/ EndOf(q) <= p[2]

\* The segment hints never skip space: below the hint of a class no segment
\* can take a blob of that class (comments at blobbs.cpp:694 and :743).  An
\* exception in UpdateThrows breaks this, hence ~tainted.
HintSound ==
  ~tainted /\ mode = "open" =>
    \A c \in Class : \A s \in 0..hint[c]-1 : ~CanTake(s, c)

\* When faUpdate would accept the files, the main file lists every segment
\* there is, and every header holds the heads the base was closed with: no
\* crash point in the closing sequence makes a later open lose blobs.
CleanOpenSeesAll ==
  mode # "open" /\ (\A s \in 0..main-1 : hdr[s].state = "closed") =>
    /\ main = nSegs
    /\ \A s \in Live : hdr[s].free = free[s]

\* The blob base is a map from pointers to data: a put gets a pointer that is
\* not in use, no operation disturbs another blob, closing and opening change
\* nothing.  A crash loses nothing but blobs that were put at the end of their
\* files, one in each segment at most.  An update that throws half way is a
\* Del: NoUpdateThrows in GixProofs says when that can be.
Contents == [p \in Ptr |-> IF IsActive(p) THEN blk[p].dat ELSE NoData]
Abs == INSTANCE BlobStore WITH store <- Contents
LosesTheLast ==
  /\ mode' = "crashed"
  /\ \E L \in SUBSET {p \in Ptr : IsActive(p) /\ EndOf(p) = flen[p[1]]} : Abs!Lose(L)
ImplementsBlobStore == Abs!Init /\ [][Abs!Next \/ LosesTheLast]_Contents

(***************************************************************************)
(* The inductive invariant of GixProofs, and its parts that are not        *)
(* stated above.                                                           *)
(***************************************************************************)
ActiveHasData ==
  \A p \in Ptr : IsActive(p) => blk[p].dat \in Data /\ DataLen[blk[p].dat] <= BlockLenV[blk[p].cls]

\* The block whose end is in the buffer is the last of its file, and nothing
\* leads to it; a block that was cut is in front of what was appended since.
TailOk(s) ==
  tail[s] # Nil =>
    /\ IsActive(<<s, tail[s]>>) /\ EndOf(<<s, tail[s]>>) = flen[s]
    /\ \A c \in Class : free[s][c] # tail[s] /\ hdr[s].free[c] # tail[s]
    /\ \A p \in Ptr : p[1] = s /\ IsWhole(p) => blk[p].next # tail[s]
    /\ \A p \in Ptr : p[1] = s /\ blk[p].st = "cut" => p[2] < tail[s]
TailsLast ==
  /\ \A p \in Ptr : blk[p].st = "cut" => p[2] < flen[p[1]]
  /\ \A s \in Seg : TailOk(s)

\* Until a restore, the heads and links stay among the free blocks, and no two
\* of them name the same block.
FreeListsSafe ==
  ~tainted =>
    /\ \A s \in Seg, c \in Class :
         free[s][c] # Nil => blk[<<s, free[s][c]>>].st = "free"
    /\ \A p \in Ptr :
         blk[p].st = "free" /\ blk[p].next # Nil =>
           /\ blk[<<p[1], blk[p].next>>].st = "free"
           /\ blk[p].next # free[p[1]][blk[p].cls]
           /\ \A q \in Ptr : q[1] = p[1] /\ blk[q].st = "free"
                                /\ blk[q].next = blk[p].next => q = p

\* The parts of the state that closing, crashing and opening relate.
FilesSound ==
  /\ \A s \in Seg : flen[s] >= HdrLen /\ (s >= nSegs => flen[s] = HdrLen)
  /\ \A s \in Seg : s \in Live <=> hdr[s].state # "none"
  /\ \A s \in Seg : hdr[s].state = "closed" => hdr[s].free = free[s]
  /\ mode = "open" => \A s \in Live : hdr[s].state = "opened"
  /\ mode \in {"closing", "closed"} => main = nSegs
  /\ mode = "crashed" => main = nSegs \/ hdr[0].state = "opened"

\* What puts, updates, deletes, crashes and restores rely on of each other: blocks
\* lie in their files side by side, lists lead only to blocks of their class and,
\* until a restore, only to free ones, each once; the files say what a later
\* opening takes them for; what a crash can cut is last in its file and nothing
\* leads to it; and no hint hides room.
IInv == /\ TypeOK
        /\ ActiveHasData
        /\ LinksInClass
        /\ NoOverlap
        /\ FreeListsSafe
        /\ FilesSound
        /\ TailsLast
        /\ HintSound
=============================================================================
