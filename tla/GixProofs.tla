------------------------------ MODULE GixProofs ------------------------------
(***************************************************************************)
(* Proofs about an index (Gix), for all keys, items and pointers, and      *)
(* about the two parts that it is built on: the blob base (BlobBs), for    *)
(* every number of classes and segments, all lengths and all contents, and *)
(* the key dictionary (GixKeyDict), for any keys that are integers and any *)
(* pointers.                                                               *)
(***************************************************************************)
EXTENDS BlobBs, GixKeyDict, Gix, FiniteSetTheorems, SequenceTheorems, WellFoundedInduction, TLAPS

(***************************************************************************)
(* The blob base.                                                          *)
(***************************************************************************)

(***************************************************************************)
(* Lemmas about the helpers.                                               *)
(***************************************************************************)

\* What a put finds in the slot it is given: a block that is not active, of
\* the class asked for, inside the file.
LEMMA SlotFacts ==
  ASSUME TypeOK, LinksInClass, NoOverlap, FilesSound, TailsLast,
         NEW c \in Class, NEW s \in Seg, s \in 0..nSegs,
         s < nSegs => CanTake(s, c), HeadIsFree(s, c)
  PROVE  /\ Slot(s, c) \in Seg \X Addr
         /\ Slot(s, c)[1] = s
         /\ blk[Slot(s, c)].st # "active"
         /\ free[s][c] # Nil => /\ Slot(s, c)[2] = free[s][c]
                                /\ blk[Slot(s, c)].st = "free"
                                /\ blk[Slot(s, c)].cls = c
                                /\ HeadAfter(s, c) = blk[Slot(s, c)].next
                                /\ FLenAfter(s, c) = flen[s]
         /\ free[s][c] = Nil => /\ Slot(s, c)[2] = flen[s]
                                /\ blk[Slot(s, c)].st = "none"
                                /\ HeadAfter(s, c) = Nil
                                /\ FLenAfter(s, c) = flen[s] + BlockLenV[c] + Overhead
         /\ HeadAfter(s, c) \in Addr
         /\ FLenAfter(s, c) \in Addr
         /\ flen[s] >= HdrLen => Slot(s, c)[2] # Nil
         /\ flen[s] <= FLenAfter(s, c)
  <1> USE SizesAssumption, SegmentAssumption
  <1>1. CASE free[s][c] # Nil
    <2>1. free[s][c] \in Addr /\ <<s, free[s][c]>> \in Ptr
      BY DEF TypeOK, Ptr
    <2>2. blk[<<s, free[s][c]>>] \in Block
      BY <2>1 DEF TypeOK
    <2>3. blk[<<s, free[s][c]>>].st = "free" /\ blk[<<s, free[s][c]>>].cls = c
      BY <1>1 DEF HeadIsFree, LinksInClass, LinkOk
    <2> QED
      BY <1>1, <2>1, <2>2, <2>3 DEF Slot, HeadAfter, FLenAfter, TypeOK, Block, Ptr, Addr, Nil
  <1>2. CASE free[s][c] = Nil
    <2>1. flen[s] \in Addr /\ <<s, flen[s]>> \in Ptr
      BY DEF TypeOK, Ptr
    <2>2. BlockLenV[c] \in Nat \ {0} /\ flen[s] + BlockLenV[c] + Overhead <= AddrMx
      BY <1>2 DEF CanTake, Room, FilesSound, TypeOK
    <2>3. blk[<<s, flen[s]>>].st = "none"
      <3>1. SUFFICES ASSUME blk[<<s, flen[s]>>].st # "none" PROVE FALSE
        OBVIOUS
      <3>0. blk[<<s, flen[s]>>].st # "cut"
        BY <2>1 DEF TailsLast, Addr
      <3>2. EndOf(<<s, flen[s]>>) <= flen[s]
        BY <2>1, <3>0, <3>1 DEF NoOverlap, IsWhole, TypeOK, Block
      <3>3. BlockLenV[blk[<<s, flen[s]>>].cls] \in Nat
        BY <2>1 DEF TypeOK, Block
      <3> QED
        BY <2>1, <3>2, <3>3 DEF EndOf, Addr
    <2> QED
      BY <1>2, <2>1, <2>2, <2>3 DEF Slot, HeadAfter, FLenAfter, Addr, Nil, Ptr
  <1> QED
    BY <1>1, <1>2

\* A released block keeps its class and links to the old head of its list.
LEMMA ReleasedFacts ==
  ASSUME TypeOK, NEW p \in Ptr, IsActive(p)
  PROVE  /\ p[1] \in Seg /\ p[2] \in Addr /\ p = <<p[1], p[2]>>
         /\ blk[p].cls \in Class
         /\ free[p[1]][blk[p].cls] \in Addr
         /\ Released(p) \in Block
         /\ Released(p) = [st |-> "free", cls |-> blk[p].cls,
                           next |-> free[p[1]][blk[p].cls], dat |-> NoData]
  <1>1. p[1] \in Seg /\ p[2] \in Addr /\ p = <<p[1], p[2]>>
    BY DEF Ptr
  <1>2. blk[p] \in Block
    BY DEF TypeOK
  <1>3. blk[p].cls \in Class
    BY <1>2 DEF Block
  <1>4. free[p[1]][blk[p].cls] \in Addr
    BY <1>1, <1>3 DEF TypeOK
  <1>5. Released(p) = [st |-> "free", cls |-> blk[p].cls,
                       next |-> free[p[1]][blk[p].cls], dat |-> NoData]
    BY DEF Released
  <1> QED
    BY <1>1, <1>3, <1>4, <1>5 DEF Block

LEMMA ActiveIsBlock ==
  ASSUME NEW c \in Class, NEW d \in Data, SegmentAssumption
  PROVE  Active(c, d) \in Block
  BY DEF Active, Block, Nil, Addr

\* Blocks exist in live segments only.
LEMMA BlocksAreLive ==
  ASSUME TypeOK, NoOverlap, FilesSound, NEW p \in Ptr, IsWhole(p)
  PROVE  p[1] \in Live
  <1> USE SizesAssumption, SegmentAssumption
  <1>1. p[1] \in Seg /\ p[2] \in Addr /\ blk[p].cls \in Class
    BY DEF TypeOK, Ptr, Block
  <1>2. p[2] >= HdrLen /\ EndOf(p) <= flen[p[1]]
    BY DEF NoOverlap
  <1>3. BlockLenV[blk[p].cls] \in Nat /\ flen[p[1]] \in Nat
    BY <1>1 DEF TypeOK, Addr
  <1>4. flen[p[1]] # HdrLen
    BY <1>1, <1>2, <1>3 DEF EndOf, Addr
  <1> QED
    BY <1>1, <1>4 DEF FilesSound, Live, TypeOK, Seg

\* The destination of a move is a live segment that takes the blob, or a new one;
\* the class moved to is not the class of the block that is released.
LEMMA MoveFacts ==
  ASSUME TypeOK, NoOverlap, FilesSound,
         NEW p \in Ptr, IsActive(p), NEW d \in Data, NEW c \in Class, NEW s \in Seg,
         DataLen[d] > BlockLenV[blk[p].cls], IsAllocClass(c, DataLen[d]),
         IsMoveDest(s, p, c)
  PROVE  /\ c # blk[p].cls
         /\ p[1] \in Live
         /\ s \in 0..nSegs
         /\ s < nSegs => CanTake(s, c)
  <1> USE SizesAssumption, DataAssumption
  <1>1. blk[p].cls \in Class
    BY ReleasedFacts
  <1>2. c # blk[p].cls
    <2>1. DataLen[d] \in Nat /\ BlockLenV[c] \in Nat /\ BlockLenV[blk[p].cls] \in Nat
      BY <1>1
    <2> QED
      BY <2>1 DEF IsAllocClass
  <1>3. p[1] \in Live
    BY BlocksAreLive DEF IsActive, IsWhole
  <1>4. CASE CanTake(p[1], c)
    BY <1>2, <1>3, <1>4 DEF IsMoveDest, Live, TypeOK
  <1>5. CASE ~CanTake(p[1], c)
    <2>1. hint[c] \in Nat /\ nSegs \in Nat
      BY DEF TypeOK, Seg
    <2>2. IsDest(s, hint[c], c)
      BY <1>5 DEF IsMoveDest
    <2> QED
      BY <1>2, <1>3, <2>1, <2>2 DEF IsDest
  <1> QED
    BY <1>4, <1>5

(***************************************************************************)
(* Type correctness.                                                       *)
(***************************************************************************)
LEMMA SegFilesType ==
  ASSUME TypeOK, NEW s \in Seg, SegFilesAfter(s)
  PROVE  /\ nSegs' \in 1..MaxSegs
         /\ hdr' \in [Seg -> [state : {"none", "opened", "closed"},
                              free : [Class -> Addr]]]
  <1> USE SegmentAssumption
  <1>1. NoHeads \in [Class -> Addr]
    BY DEF NoHeads, Nil, Addr
  <1> DEFINE H == [state : {"none", "opened", "closed"}, free : [Class -> Addr]]
  <1>2. [state |-> "opened", free |-> NoHeads] \in H
    BY <1>1
  <1>3. nSegs \in 1..MaxSegs /\ hdr \in [Seg -> H]
    BY DEF TypeOK
  <1>4. CASE s < nSegs
    BY <1>3, <1>4 DEF SegFilesAfter
  <1>5. CASE ~(s < nSegs)
    <2>1. nSegs < MaxSegs /\ nSegs' = nSegs + 1
          /\ hdr' = [hdr EXCEPT ![s] = [state |-> "opened", free |-> NoHeads]]
      BY <1>5 DEF SegFilesAfter
    <2>2. hdr' \in [Seg -> H]
      BY <1>2, <1>3, <2>1
    <2> QED
      BY <1>3, <2>1, <2>2
  <1> QED
    BY <1>4, <1>5

\* The block whose end is in the buffer: every other whole block of its segment is in front of it,
\* and where its data ends is inside it.
LEMMA CutFacts ==
  ASSUME IInv, NEW s \in Seg, tail[s] # Nil
  PROVE  /\ <<s, tail[s]>> \in Ptr /\ IsActive(<<s, tail[s]>>)
         /\ tail[s] \in Nat /\ tail[s] >= HdrLen
         /\ CutLen(s) \in Nat /\ tail[s] < CutLen(s) /\ CutLen(s) <= flen[s]
         /\ CutLen(s) \in Addr /\ EndOf(<<s, tail[s]>>) = flen[s]
         /\ \A q \in Ptr : q[1] = s /\ IsWhole(q) /\ q # <<s, tail[s]>> => EndOf(q) <= tail[s]
  <1> USE SizesAssumption, SegmentAssumption, DataAssumption
  <1> DEFINE p == <<s, tail[s]>>
  <1>1. TypeOK /\ ActiveHasData /\ NoOverlap /\ TailOk(s)
    BY DEF IInv, TailsLast
  <1>2. p \in Ptr /\ tail[s] \in Nat /\ flen[s] \in Nat /\ flen[s] \in Addr
    BY <1>1 DEF TypeOK, Ptr, Addr
  <1>3. IsActive(p) /\ IsWhole(p) /\ EndOf(p) = flen[s]
    BY <1>1 DEF TailOk, IsActive, IsWhole
  <1>4. tail[s] >= HdrLen
    BY <1>1, <1>2, <1>3 DEF NoOverlap
  <1>5. DataLen[blk[p].dat] \in Nat /\ BlockLenV[blk[p].cls] \in Nat
        /\ DataLen[blk[p].dat] <= BlockLenV[blk[p].cls]
    BY <1>1, <1>2, <1>3 DEF ActiveHasData, TypeOK, Block
  <1>6. CutLen(s) = tail[s] + HeadLen + DataLen[blk[p].dat]
        /\ flen[s] = tail[s] + BlockLenV[blk[p].cls] + Overhead
    BY <1>3 DEF CutLen, EndOf
  <1>7. CutLen(s) \in Nat /\ tail[s] < CutLen(s) /\ CutLen(s) <= flen[s]
    BY <1>2, <1>5, <1>6
  <1>8. ASSUME NEW q \in Ptr, q[1] = s, IsWhole(q), q # p
        PROVE  EndOf(q) <= tail[s]
    <2>1. EndOf(p) <= q[2] \/ EndOf(q) <= tail[s]
      BY <1>1, <1>2, <1>3, <1>8 DEF NoOverlap
    <2>2. EndOf(q) <= flen[s]
      BY <1>1, <1>8 DEF NoOverlap
    <2>3. q[2] \in Nat /\ BlockLenV[blk[q].cls] \in Nat
      BY <1>1 DEF TypeOK, Block, Ptr, Addr
    <2> QED
      BY <1>2, <1>3, <2>1, <2>2, <2>3 DEF EndOf
  <1>9. CutLen(s) \in Addr
    BY <1>2, <1>7 DEF Addr
  <1> QED
    BY <1>2, <1>3, <1>4, <1>7, <1>8, <1>9

\* A crash, block by block.
LEMMA CrashFacts ==
  ASSUME IInv, NEW L \in SUBSET Seg, Crash(L)
  PROVE  /\ \A s \in L : tail[s] # Nil
         /\ \A p \in Lost(L) : /\ p \in Ptr /\ p[1] \in L /\ p = <<p[1], tail[p[1]]>>
                              /\ IsActive(p) /\ EndOf(p) = flen[p[1]]
                              /\ blk'[p] = Cut(p)
                              /\ blk'[p].st = "cut" /\ blk'[p].cls = blk[p].cls /\ blk'[p].next = blk[p].next
         /\ \A p \in Ptr : p \notin Lost(L) => blk'[p] = blk[p]
         /\ \A s \in Seg : /\ tail'[s] = Nil
                           /\ flen'[s] = IF s \in L THEN CutLen(s) ELSE flen[s]
         /\ DOMAIN blk' = Ptr /\ DOMAIN flen' = Seg /\ DOMAIN tail' = Seg
         /\ mode' = "crashed" /\ UNCHANGED <<free, hdr, hint, nSegs, main, tainted>>
  <1>1. /\ \A s \in L : tail[s] # Nil
        /\ blk' = [p \in Ptr |-> IF p \in Lost(L) THEN Cut(p) ELSE blk[p]]
        /\ flen' = [s \in Seg |-> IF s \in L THEN CutLen(s) ELSE flen[s]]
        /\ tail' = [s \in Seg |-> Nil]
        /\ mode' = "crashed" /\ UNCHANGED <<free, hdr, hint, nSegs, main, tainted>>
    BY DEF Crash
  <1>2. ASSUME NEW p \in Lost(L)
        PROVE  /\ p \in Ptr /\ p[1] \in L /\ p = <<p[1], tail[p[1]]>>
               /\ IsActive(p) /\ EndOf(p) = flen[p[1]]
    <2>1. p \in Ptr /\ p[1] \in L /\ p[2] = tail[p[1]]
      BY DEF Lost
    <2>2. p = <<p[1], tail[p[1]]>>
      BY <2>1 DEF Ptr
    <2>3. tail[p[1]] # Nil /\ p[1] \in Seg
      BY <1>1, <2>1
    <2>4. IsActive(<<p[1], tail[p[1]]>>) /\ EndOf(<<p[1], tail[p[1]]>>) = flen[p[1]]
      BY <2>3, CutFacts
    <2> QED
      BY <2>1, <2>2, <2>4
  <1>4. ASSUME NEW p \in Lost(L)
        PROVE  /\ blk'[p] = Cut(p)
               /\ blk'[p].st = "cut" /\ blk'[p].cls = blk[p].cls /\ blk'[p].next = blk[p].next
    <2>1. blk'[p] = Cut(p)
      BY <1>1, <1>2
    <2> QED
      BY <2>1 DEF Cut
  <1>5. \A p \in Ptr : p \notin Lost(L) => blk'[p] = blk[p]
    BY <1>1
  <1> QED
    BY <1>1, <1>2, <1>4, <1>5

LEMMA NilIsAddr == Nil \in Addr
  BY SegmentAssumption DEF Nil, Addr

LEMMA TypeStep == IInv /\ [Next]_vars => TypeOK'
  <1> SUFFICES ASSUME IInv, [Next]_vars PROVE TypeOK'
    OBVIOUS
  <1> USE SizesAssumption, SegmentAssumption, DataAssumption
  <1>0. TypeOK /\ LinksInClass /\ NoOverlap /\ FilesSound /\ TailsLast /\ Nil \in Addr
    BY NilIsAddr DEF IInv
  <1>1. ASSUME NEW d \in Data, NEW c \in Class, NEW s \in Seg, PutBlob(d, c, s)
        PROVE  TypeOK'
    <2>1. s \in 0..nSegs /\ (s < nSegs => CanTake(s, c)) /\ HeadIsFree(s, c)
      BY <1>0, <1>1 DEF PutBlob, IsDest, TypeOK, Seg
    <2>2. /\ HeadAfter(s, c) \in Addr /\ FLenAfter(s, c) \in Addr
          /\ Slot(s, c) \in Seg \X Addr
      BY <1>0, <2>1, SlotFacts
    <2>3. Active(c, d) \in Block
      BY ActiveIsBlock
    <2>4. nSegs' \in 1..MaxSegs /\ hdr' \in [Seg -> [state : {"none", "opened", "closed"},
                                                    free : [Class -> Addr]]]
      BY <1>0, <1>1, SegFilesType DEF PutBlob
    <2>5. TailAfter(s, c) \in Addr
      BY <1>0 DEF TypeOK, TailAfter
    <2> QED
      BY <1>0, <1>1, <2>2, <2>3, <2>4, <2>5 DEF PutBlob, TypeOK
  <1>2. ASSUME NEW p \in Ptr, NEW d \in Data, UpdateInPlace(p, d)
        PROVE  TypeOK'
    <2>1. Active(blk[p].cls, d) \in Block
      BY <1>0, <1>2, ReleasedFacts, ActiveIsBlock DEF UpdateInPlace
    <2>2. tail' \in [Seg -> Addr]
      BY <1>0, <1>2 DEF UpdateInPlace, TypeOK
    <2> QED
      BY <1>0, <1>2, <2>1, <2>2 DEF UpdateInPlace, TypeOK
  <1>3. ASSUME NEW p \in Ptr, NEW d \in Data, NEW c \in Class, NEW s \in Seg,
               UpdateMoves(p, d, c, s)
        PROVE  TypeOK'
    <2>1. s \in 0..nSegs /\ (s < nSegs => CanTake(s, c)) /\ HeadIsFree(s, c)
      BY <1>0, <1>3, MoveFacts DEF UpdateMoves
    <2>2. /\ HeadAfter(s, c) \in Addr /\ FLenAfter(s, c) \in Addr
          /\ Slot(s, c) \in Seg \X Addr
      BY <1>0, <2>1, SlotFacts
    <2>3. Active(c, d) \in Block
      BY ActiveIsBlock
    <2>4. nSegs' \in 1..MaxSegs /\ hdr' \in [Seg -> [state : {"none", "opened", "closed"},
                                                    free : [Class -> Addr]]]
      BY <1>0, <1>3, SegFilesType DEF UpdateMoves
    <2>5. Released(p) \in Block /\ p[1] \in Seg /\ p[2] \in Addr /\ blk[p].cls \in Class
      BY <1>0, <1>3, ReleasedFacts DEF UpdateMoves
    <2>6. blk' \in [Ptr -> Block]
      BY <1>0, <1>3, <2>2, <2>3, <2>5 DEF UpdateMoves, TypeOK
    <2>7. free' \in [Seg -> [Class -> Addr]] /\ flen' \in [Seg -> Addr]
      BY <1>0, <1>3, <2>2, <2>5 DEF UpdateMoves, TypeOK
    <2>8. hint' \in [Class -> Seg]
      BY <1>0, <1>3, <2>5 DEF UpdateMoves, TypeOK, Lower
    <2>9. tail' \in [Seg -> Addr]
      BY <1>0, <1>3 DEF UpdateMoves, TypeOK, TailAfter
    <2> QED
      BY <1>0, <1>3, <2>4, <2>6, <2>7, <2>8, <2>9 DEF UpdateMoves, TypeOK
  <1>4. ASSUME NEW p \in Ptr, NEW d \in Data, NEW c \in Class, NEW s \in Seg,
               UpdateThrows(p, d, c, s)
        PROVE  TypeOK'
    <2>1. Released(p) \in Block /\ p[1] \in Seg /\ p[2] \in Addr /\ blk[p].cls \in Class
      BY <1>0, <1>4, ReleasedFacts DEF UpdateThrows
    <2>2. tail' \in [Seg -> Addr]
      BY <1>0, <1>4 DEF UpdateThrows, TypeOK
    <2>3. hint' \in [Class -> Seg]
      BY <1>0, <1>4, <2>1 DEF UpdateThrows, TypeOK, Lower
    <2> QED
      BY <1>0, <1>4, <2>1, <2>2, <2>3 DEF UpdateThrows, TypeOK
  <1>5. ASSUME NEW p \in Ptr, DelBlob(p)
        PROVE  TypeOK'
    <2>1. Released(p) \in Block /\ p[1] \in Seg /\ p[2] \in Addr /\ blk[p].cls \in Class
      BY <1>0, <1>5, ReleasedFacts DEF DelBlob
    <2> QED
      BY <1>0, <1>5, <2>1 DEF DelBlob, TypeOK, Lower
  <1>6. CASE CloseMain
    BY <1>0, <1>6 DEF CloseMain, TypeOK
  <1>7. ASSUME NEW s \in Seg, CloseSeg(s)
        PROVE  TypeOK'
    BY <1>0, <1>7 DEF CloseSeg, TypeOK
  <1>8. CASE CloseDone
    BY <1>0, <1>8 DEF CloseDone, TypeOK
  <1>9. ASSUME NEW L \in SUBSET Seg, Crash(L)
        PROVE  TypeOK'
    <2>1. \A p \in Ptr : blk'[p] \in Block
      <3>1. \A p \in Ptr : blk[p] \in Block
        BY <1>0 DEF TypeOK
      <3>2. \A p \in Lost(L) : blk'[p] \in Block
        <4>1. ASSUME NEW p \in Ptr PROVE Cut(p) \in Block
          BY <3>1 DEF Cut, Block
        <4> QED
          BY <1>9, <4>1, CrashFacts
      <3> QED
        BY <1>9, <3>1, <3>2, CrashFacts
    <2>2. blk' \in [Ptr -> Block]
      BY <1>9, <2>1 DEF Crash
    <2>3. \A s \in L : CutLen(s) \in Addr
      BY <1>9, CutFacts, CrashFacts
    <2>4. flen' \in [Seg -> Addr]
      BY <1>0, <1>9, <2>3 DEF Crash, TypeOK
    <2>5. tail' \in [Seg -> Addr]
      BY <1>9, NilIsAddr DEF Crash
    <2> QED
      BY <1>0, <1>9, <2>2, <2>4, <2>5, CrashFacts DEF TypeOK
  <1>14. ASSUME NEW p \in Ptr, GetBlob(p)
         PROVE  TypeOK'
    BY <1>0, <1>14 DEF GetBlob, TypeOK
  <1>10. ASSUME NEW n \in 1..MaxSegs, LoadSegs(n)
         PROVE  /\ free' \in [Seg -> [Class -> Addr]]
                /\ hdr' \in [Seg -> [state : {"none", "opened", "closed"},
                                     free : [Class -> Addr]]]
                /\ hint' \in [Class -> Seg]
                /\ nSegs' \in 1..MaxSegs
                /\ mode' = "open"
    <2>1. 0 \in Seg
      BY DEF Seg
    <2> QED
      BY <1>0, <1>10, <2>1, ZenonT(40) DEF LoadSegs, TypeOK
  <1>11. CASE OpenUpdate
    BY <1>0, <1>10, <1>11 DEF OpenUpdate, TypeOK
  <1>12. CASE OpenRestore
    BY <1>0, <1>10, <1>12 DEF OpenRestore, TypeOK
  <1>13. CASE UNCHANGED vars
    BY <1>0, <1>13 DEF vars, TypeOK
  <1> QED
    BY <1>1, <1>2, <1>3, <1>4, <1>5, <1>6, <1>7, <1>8, <1>9, <1>11, <1>12, <1>13, <1>14 DEF Next

(***************************************************************************)
(* The shapes a step can have, as far as blocks and free lists go.         *)
(***************************************************************************)
\* The blob d of class c goes into its slot of segment s.
Fills(d, c, s) ==
  /\ s \in 0..nSegs /\ (s < nSegs => CanTake(s, c)) /\ HeadIsFree(s, c)
  /\ DataLen[d] <= BlockLenV[c]
  /\ SegFilesAfter(s)
  /\ \A t \in Seg : tail'[t] \in IF t = s THEN {TailAfter(s, c)} ELSE {tail[t], Nil}
  /\ flen' = [flen EXCEPT ![s] = FLenAfter(s, c)]
  /\ mode = "open"
  /\ UNCHANGED <<main, mode, tainted>>

FillOnly(d, c, s) ==
  /\ Fills(d, c, s)
  /\ blk' = [blk EXCEPT ![Slot(s, c)] = Active(c, d)]
  /\ free' = [free EXCEPT ![s][c] = HeadAfter(s, c)]

Moves(p, d, c, s) ==
  /\ Fills(d, c, s)
  /\ IsActive(p) /\ c # blk[p].cls /\ p[1] \in Live
  /\ p[1] # s => tail'[p[1]] = Nil
  /\ blk' = [blk EXCEPT ![p] = Released(p), ![Slot(s, c)] = Active(c, d)]
  /\ free' = [free EXCEPT ![p[1]][blk[p].cls] = p[2],
                          ![s][c] = HeadAfter(s, c)]

Releases(p) ==
  /\ IsActive(p) /\ p[1] \in Live
  /\ blk' = [blk EXCEPT ![p] = Released(p)]
  /\ free' = [free EXCEPT ![p[1]][blk[p].cls] = p[2]]
  /\ tail'[p[1]] = Nil /\ \A t \in Seg : tail'[t] \in {tail[t], Nil}
  /\ mode = "open"
  /\ UNCHANGED <<flen, hdr, nSegs, main, mode, tainted>>

Keeps ==
  /\ UNCHANGED <<blk, flen, free, nSegs, hint, tainted>>
  /\ \A s \in Seg : /\ hdr'[s].free \in {hdr[s].free, free[s]}
                    /\ tail'[s] \in {tail[s], Nil}
  /\ mode' = "open" => UNCHANGED mode

Opens ==
  /\ LoadSegs(nSegs)
  /\ ~tainted' => /\ ~tainted
                  /\ \A s \in Live : hdr[s].state = "closed"
  /\ UNCHANGED <<blk, flen, tail>>

LEMMA Shapes ==
  ASSUME IInv, [Next]_vars
  PROVE  \/ \E d \in Data, c \in Class, s \in Seg :
              FillOnly(d, c, s) /\ PutBlob(d, c, s)
         \/ \E p \in Ptr, d \in Data : UpdateInPlace(p, d)
         \/ \E p \in Ptr, d \in Data, c \in Class, s \in Seg :
              Moves(p, d, c, s) /\ UpdateMoves(p, d, c, s)
         \/ \E p \in Ptr : /\ Releases(p)
                           /\ \/ DelBlob(p)
                              \/ \E d \in Data, c \in Class, s \in Seg :
                                   UpdateThrows(p, d, c, s)
         \/ Keeps /\ (CloseMain \/ (\E s \in Seg : CloseSeg(s)) \/ CloseDone
                      \/ (\E p \in Ptr : GetBlob(p)) \/ UNCHANGED vars)
         \/ \E L \in SUBSET Seg : Crash(L)
         \/ Opens
  <1> USE SizesAssumption, SegmentAssumption, DataAssumption
  <1>0. TypeOK /\ LinksInClass /\ NoOverlap /\ FilesSound /\ TailsLast
    BY DEF IInv
  <1>1. ASSUME NEW d \in Data, NEW c \in Class, NEW s \in Seg, PutBlob(d, c, s)
        PROVE  FillOnly(d, c, s)
    <2>1. s \in 0..nSegs /\ (s < nSegs => CanTake(s, c))
      BY <1>0, <1>1 DEF PutBlob, IsDest, TypeOK, Seg
    <2>2. \A t \in Seg : tail'[t] = IF t = s THEN TailAfter(s, c) ELSE tail[t]
      BY <1>0, <1>1 DEF PutBlob, TypeOK
    <2> QED
      BY <1>1, <2>1, <2>2 DEF PutBlob, FillOnly, Fills, IsAllocClass
  <1>2. ASSUME NEW p \in Ptr, NEW d \in Data, NEW c \in Class, NEW s \in Seg,
               UpdateMoves(p, d, c, s)
        PROVE  Moves(p, d, c, s)
    <2>1. /\ c # blk[p].cls /\ p[1] \in Live
          /\ s \in 0..nSegs /\ (s < nSegs => CanTake(s, c))
      BY <1>0, <1>2, MoveFacts DEF UpdateMoves
    <2>2. /\ \A t \in Seg : tail'[t] \in IF t = s THEN {TailAfter(s, c)} ELSE {tail[t], Nil}
          /\ p[1] # s => tail'[p[1]] = Nil
      BY <1>0, <1>2, ReleasedFacts DEF UpdateMoves, TypeOK
    <2> QED
      BY <1>2, <2>1, <2>2 DEF UpdateMoves, Moves, Fills, IsAllocClass
  <1>3. ASSUME NEW p \in Ptr, DelBlob(p)
        PROVE  Releases(p)
    <2>1. p[1] \in Live
      BY <1>0, <1>3, BlocksAreLive DEF DelBlob, IsActive, IsWhole
    <2>2. tail'[p[1]] = Nil /\ \A t \in Seg : tail'[t] \in {tail[t], Nil}
      BY <1>0, <1>3, ReleasedFacts DEF DelBlob, TypeOK
    <2> QED
      BY <1>3, <2>1, <2>2 DEF DelBlob, Releases
  <1>4. ASSUME NEW p \in Ptr, NEW d \in Data, NEW c \in Class, NEW s \in Seg,
               UpdateThrows(p, d, c, s)
        PROVE  Releases(p)
    <2>1. p[1] \in Live
      BY <1>0, <1>4, BlocksAreLive DEF UpdateThrows, IsActive, IsWhole
    <2>2. tail'[p[1]] = Nil /\ \A t \in Seg : tail'[t] \in {tail[t], Nil}
      BY <1>0, <1>4, ReleasedFacts DEF UpdateThrows, TypeOK
    <2> QED
      BY <1>4, <2>1, <2>2 DEF UpdateThrows, Releases
  <1>5. CloseMain \/ CloseDone \/ UNCHANGED vars => Keeps
    BY DEF CloseMain, CloseDone, vars, Keeps
  <1>9. ASSUME NEW p \in Ptr, GetBlob(p)
        PROVE  Keeps
    BY <1>0, <1>9 DEF GetBlob, Keeps, TypeOK
  <1>6. ASSUME NEW s \in Seg, CloseSeg(s)
        PROVE  Keeps
    BY <1>0, <1>6 DEF CloseSeg, Keeps, TypeOK
  <1>7. CASE OpenUpdate
    <2>1. main = nSegs
      <3>1. 0 \in 0..main-1
        BY <1>0 DEF TypeOK
      <3>2. hdr[0].state = "closed"
        BY <1>7, <3>1 DEF OpenUpdate
      <3> QED
        BY <1>0, <1>7, <3>2 DEF OpenUpdate, FilesSound
    <2> QED
      BY <1>7, <2>1 DEF OpenUpdate, Opens, Live, LoadSegs
  <1>8. CASE OpenRestore
    <2>1. \A s \in Live : hdr[s].state \in {"opened", "closed"}
      BY <1>0 DEF FilesSound, TypeOK, Live, Seg
    <2> QED
      BY <1>0, <1>8, <2>1 DEF OpenRestore, Opens, TypeOK
  <1> QED
    BY <1>1, <1>2, <1>3, <1>4, <1>5, <1>6, <1>7, <1>8, <1>9 DEF Next

\* What fills a slot, unfolded.
LEMMA FillFacts ==
  ASSUME IInv, NEW d \in Data, NEW c \in Class, NEW s \in Seg, Fills(d, c, s)
  PROVE  /\ Slot(s, c) \in Ptr
         /\ Slot(s, c)[1] = s
         /\ Slot(s, c)[2] \in Addr /\ Slot(s, c)[2] # Nil
         /\ blk[Slot(s, c)].st # "active"
         /\ free[s][c] # Nil => /\ Slot(s, c)[2] = free[s][c]
                                /\ blk[Slot(s, c)].st = "free"
                                /\ blk[Slot(s, c)].cls = c
                                /\ HeadAfter(s, c) = blk[Slot(s, c)].next
                                /\ FLenAfter(s, c) = flen[s]
         /\ free[s][c] = Nil => /\ Slot(s, c)[2] = flen[s]
                                /\ blk[Slot(s, c)].st = "none"
                                /\ HeadAfter(s, c) = Nil
                                /\ FLenAfter(s, c) = flen[s] + BlockLenV[c] + Overhead
         /\ FLenAfter(s, c) \in Addr
         /\ flen[s] \in Addr /\ flen[s] <= FLenAfter(s, c)
  <1> USE SizesAssumption, SegmentAssumption
  <1>1. TypeOK /\ LinksInClass /\ NoOverlap /\ FilesSound /\ TailsLast
    BY DEF IInv
  <1>2. s \in 0..nSegs /\ (s < nSegs => CanTake(s, c)) /\ HeadIsFree(s, c)
    BY DEF Fills
  <1>3. flen[s] \in Addr /\ flen[s] >= HdrLen
    BY <1>1 DEF TypeOK, FilesSound
  <1>4. Slot(s, c) \in Seg \X Addr
    BY <1>1, <1>2, SlotFacts
  <1>5. Slot(s, c)[2] # Nil /\ flen[s] <= FLenAfter(s, c)
    BY <1>1, <1>2, <1>3, SlotFacts
  <1> QED
    BY <1>1, <1>2, <1>3, <1>4, <1>5, SlotFacts DEF Ptr

(***************************************************************************)
(* The steps preserve the other parts of the invariant.                    *)
(***************************************************************************)
LEMMA ActiveHasDataStep ==
  ASSUME IInv, [Next]_vars PROVE ActiveHasData'
  <1>0. TypeOK /\ ActiveHasData
    BY DEF IInv
  <1>1. ASSUME NEW d \in Data, NEW c \in Class, NEW s \in Seg, FillOnly(d, c, s)
        PROVE  ActiveHasData'
    BY <1>0, <1>1 DEF FillOnly, Fills, TypeOK, ActiveHasData, IsActive, Active
  <1>2. ASSUME NEW p \in Ptr, NEW d \in Data, UpdateInPlace(p, d)
        PROVE  ActiveHasData'
    BY <1>0, <1>2 DEF UpdateInPlace, TypeOK, ActiveHasData, IsActive, Active
  <1>3. ASSUME NEW p \in Ptr, NEW d \in Data, NEW c \in Class, NEW s \in Seg,
               Moves(p, d, c, s)
        PROVE  ActiveHasData'
    BY <1>0, <1>3, ZenonT(40) DEF Moves, Fills, TypeOK, ActiveHasData, IsActive, Active, Released
  <1>4. ASSUME NEW p \in Ptr, Releases(p)
        PROVE  ActiveHasData'
    BY <1>0, <1>4 DEF Releases, TypeOK, ActiveHasData, IsActive, Released
  <1>5. CASE Keeps
    BY <1>0, <1>5 DEF Keeps, ActiveHasData, IsActive
  <1>6. CASE Opens
    BY <1>0, <1>6 DEF Opens, ActiveHasData, IsActive
  <1>7. ASSUME NEW L \in SUBSET Seg, Crash(L)
        PROVE  ActiveHasData'
    <2>1. \A p \in Ptr : blk'[p].st = "active" => blk'[p] = blk[p]
      BY <1>7, CrashFacts
    <2> QED
      BY <1>0, <2>1 DEF ActiveHasData, IsActive
  <1> QED
    BY <1>1, <1>2, <1>3, <1>4, <1>5, <1>6, <1>7, Shapes

\* A block, once there, keeps its class: a link to it stays good, unless the process dies.
LEMMA LinksStay ==
  ASSUME IInv, [Next]_vars, \A L \in SUBSET Seg : ~Crash(L),
         NEW s \in Seg, NEW c \in Class, NEW a \in Addr, LinkOk(s, c, a)
  PROVE  LinkOk(s, c, a)'
  <1>0. TypeOK
    BY DEF IInv
  <1> SUFFICES ASSUME a # Nil PROVE IsWhole(<<s, a>>)' /\ blk'[<<s, a>>].cls = c
    BY DEF LinkOk
  <1> DEFINE q == <<s, a>>
  <1>1. q \in Ptr /\ IsWhole(q) /\ blk[q].cls = c
    BY DEF LinkOk, Ptr
  <1> HIDE DEF q
  <1>2. ASSUME NEW d \in Data, NEW k \in Class, NEW t \in Seg, Fills(d, k, t), q = Slot(t, k)
        PROVE  k = c
    BY <1>1, <1>2, FillFacts DEF IsWhole
  <1>3. ASSUME NEW d \in Data, NEW k \in Class, NEW t \in Seg, FillOnly(d, k, t)
        PROVE  IsWhole(q)' /\ blk'[q].cls = c
    BY <1>0, <1>1, <1>2, <1>3 DEF FillOnly, TypeOK, Active, IsWhole
  <1>4. ASSUME NEW p \in Ptr, NEW d \in Data, NEW k \in Class, NEW t \in Seg,
               Moves(p, d, k, t)
        PROVE  IsWhole(q)' /\ blk'[q].cls = c
    BY <1>0, <1>1, <1>2, <1>4 DEF Moves, TypeOK, Active, IsWhole, Released
  <1>5. ASSUME NEW p \in Ptr, NEW d \in Data, UpdateInPlace(p, d)
        PROVE  IsWhole(q)' /\ blk'[q].cls = c
    BY <1>0, <1>1, <1>5 DEF UpdateInPlace, TypeOK, Active, IsWhole
  <1>6. ASSUME NEW p \in Ptr, Releases(p)
        PROVE  IsWhole(q)' /\ blk'[q].cls = c
    BY <1>0, <1>1, <1>6 DEF Releases, TypeOK, Released, IsWhole
  <1>7. Keeps \/ Opens => IsWhole(q)' /\ blk'[q].cls = c
    BY <1>1 DEF Keeps, Opens, IsWhole
  <1> QED
    BY <1>3, <1>4, <1>5, <1>6, <1>7, Shapes DEF q

\* The links are the old ones, the link of the block that was popped, or that
\* of a block just released.
LEMMA LinksInClassStep ==
  ASSUME IInv, [Next]_vars PROVE LinksInClass'
  <1> USE SegmentAssumption
  <1>0. TypeOK /\ LinksInClass /\ FilesSound /\ TypeOK'
    BY TypeStep DEF IInv
  <1> DEFINE Old(s, c, a) == a = Nil \/ LinkOk(s, c, a)
             HeadsOld == \A s \in Seg, c \in Class : Old(s, c, free'[s][c])
             HdrOld   == \A s \in Seg, c \in Class : Old(s, c, hdr'[s].free[c])
             NextOld  == \A p \in Ptr : IsWhole(p)' =>
                           Old(p[1], blk'[p].cls, blk'[p].next)
  <1>1. ASSUME NEW s \in Seg, NEW c \in Class
        PROVE  LinkOk(s, c, free[s][c]) /\ LinkOk(s, c, hdr[s].free[c])
    BY <1>0 DEF LinksInClass
  <1>2. ASSUME NEW p \in Ptr, IsWhole(p)
        PROVE  LinkOk(p[1], blk[p].cls, blk[p].next)
    BY <1>0, <1>2 DEF LinksInClass
  <1>3. ASSUME NEW d \in Data, NEW c \in Class, NEW s \in Seg, Fills(d, c, s)
        PROVE  HdrOld /\ Old(s, c, HeadAfter(s, c))
    <2>1. HdrOld
      <3>1. \A e \in Class : NoHeads[e] = Nil
        BY DEF NoHeads
      <3>2. \A t \in Seg : hdr'[t].free \in {hdr[t].free, NoHeads}
        BY <1>0, <1>3 DEF Fills, SegFilesAfter, TypeOK
      <3> QED
        BY <1>1, <3>1, <3>2
    <2>2. Old(s, c, HeadAfter(s, c))
      <3>1. CASE free[s][c] = Nil
        BY <1>3, <3>1, FillFacts
      <3>2. CASE free[s][c] # Nil
        BY <1>2, <1>3, <3>2, FillFacts DEF IsWhole
      <3> QED
        BY <3>1, <3>2
    <2> QED
      BY <2>1, <2>2
  <1>4. ASSUME NEW d \in Data, NEW c \in Class, NEW s \in Seg, FillOnly(d, c, s)
        PROVE  HeadsOld /\ HdrOld /\ NextOld
    <2>1. HdrOld /\ Old(s, c, HeadAfter(s, c))
      BY <1>3, <1>4 DEF FillOnly
    <2>2. HeadsOld
      BY <1>0, <1>1, <1>4, <2>1 DEF FillOnly, TypeOK
    <2>3. NextOld
      BY <1>0, <1>2, <1>4 DEF FillOnly, TypeOK, Active, IsWhole
    <2> QED
      BY <2>1, <2>2, <2>3
  <1>5. ASSUME NEW p \in Ptr, IsActive(p)
        PROVE  LinkOk(p[1], blk[p].cls, p[2]) /\ Released(p).cls = blk[p].cls
               /\ LinkOk(p[1], blk[p].cls, Released(p).next)
    <2>1. p[1] \in Seg /\ blk[p].cls \in Class /\ p = <<p[1], p[2]>>
      BY <1>0, <1>5, ReleasedFacts
    <2> QED
      BY <1>1, <1>5, <2>1, ZenonT(40) DEF Released, IsActive, LinkOk, IsWhole
  <1>6. ASSUME NEW p \in Ptr, NEW d \in Data, NEW c \in Class, NEW s \in Seg,
               Moves(p, d, c, s)
        PROVE  HeadsOld /\ HdrOld /\ NextOld
    <2>1. HdrOld /\ Old(s, c, HeadAfter(s, c))
      BY <1>3, <1>6 DEF Moves
    <2>2. p[1] \in Seg /\ blk[p].cls \in Class /\ IsActive(p)
      BY <1>0, <1>6, ReleasedFacts DEF Moves
    <2>3. HeadsOld
      <3>1. \A t \in Seg, e \in Class :
              \/ free'[t][e] = free[t][e]
              \/ t = p[1] /\ e = blk[p].cls /\ free'[t][e] = p[2]
              \/ t = s /\ e = c /\ free'[t][e] = HeadAfter(s, c)
        BY <1>0, <1>6, <2>2 DEF Moves, TypeOK
      <3> QED
        BY <1>1, <1>5, <2>1, <2>2, <3>1
    <2>4. \A q \in Ptr : blk'[q] \in {blk[q], Released(p), Active(c, d)} /\
                         (blk'[q] = blk[q] \/ (q = p /\ blk'[q] = Released(p))
                                           \/ blk'[q] = Active(c, d))
      BY <1>0, <1>6 DEF Moves, TypeOK
    <2>5. NextOld
      BY <1>2, <1>5, <2>2, <2>4 DEF Active, IsActive, IsWhole
    <2> QED
      BY <2>1, <2>3, <2>5
  <1>7. ASSUME NEW p \in Ptr, Releases(p)
        PROVE  HeadsOld /\ HdrOld /\ NextOld
    <2>1. p[1] \in Seg /\ blk[p].cls \in Class /\ IsActive(p)
      BY <1>0, <1>7, ReleasedFacts DEF Releases
    <2>2. HeadsOld
      BY <1>0, <1>1, <1>5, <1>7, <2>1 DEF Releases, TypeOK
    <2>3. HdrOld
      BY <1>1, <1>7 DEF Releases
    <2>4. NextOld
      BY <1>0, <1>2, <1>5, <1>7, <2>1 DEF Releases, TypeOK, IsActive, IsWhole
    <2> QED
      BY <2>2, <2>3, <2>4
  <1>8. ASSUME NEW p \in Ptr, NEW d \in Data, UpdateInPlace(p, d)
        PROVE  HeadsOld /\ HdrOld /\ NextOld
    BY <1>0, <1>1, <1>2, <1>8 DEF UpdateInPlace, TypeOK, Active, IsActive, IsWhole
  <1>9. ASSUME Keeps
        PROVE  HeadsOld /\ HdrOld /\ NextOld
    <2>1. HeadsOld /\ NextOld
      BY <1>1, <1>2, <1>9 DEF Keeps, IsWhole
    <2>2. HdrOld
      <3> SUFFICES ASSUME NEW s \in Seg, NEW c \in Class
                   PROVE  Old(s, c, hdr'[s].free[c])
        OBVIOUS
      <3>1. hdr'[s].free = hdr[s].free \/ hdr'[s].free = free[s]
        BY <1>9 DEF Keeps
      <3> QED
        BY <1>1, <3>1
    <2> QED
      BY <2>1, <2>2
  <1>10. ASSUME Opens
         PROVE  HeadsOld /\ HdrOld /\ NextOld
    <2>1. \A s \in Seg : /\ hdr'[s].free = hdr[s].free
                         /\ free'[s] = free[s] \/ free'[s] = hdr[s].free
      BY <1>0, <1>10 DEF Opens, LoadSegs, TypeOK
    <2>2. NextOld
      BY <1>2, <1>10 DEF Opens, IsWhole
    <2> QED
      BY <1>1, <2>1, <2>2
  <1>17. ASSUME NEW L \in SUBSET Seg, Crash(L)
         PROVE  LinksInClass'
    <2>1. UNCHANGED <<free, hdr>> /\ \A p \in Ptr : IsWhole(p)' => IsWhole(p) /\ blk'[p] = blk[p]
      <3>1. UNCHANGED <<free, hdr>>
        BY <1>17, CrashFacts
      <3>2. ASSUME NEW p \in Ptr, IsWhole(p)' PROVE blk'[p] = blk[p]
        BY <1>17, <3>2, CrashFacts DEF IsWhole
      <3> QED
        BY <3>1, <3>2 DEF IsWhole
    <2>2. ASSUME NEW s \in Seg, NEW c \in Class, NEW a \in Addr, LinkOk(s, c, a), tail[s] # Nil => a # tail[s]
          PROVE  LinkOk(s, c, a)'
      BY <1>17, <2>2 DEF Crash, Lost, LinkOk, IsWhole, Ptr
    <2>3. \A s \in Seg : tail[s] # Nil =>
            /\ \A c \in Class : free[s][c] # tail[s] /\ hdr[s].free[c] # tail[s]
            /\ \A p \in Ptr : p[1] = s /\ IsWhole(p) => blk[p].next # tail[s]
      BY DEF IInv, TailsLast, TailOk
    <2>4. \A s \in Seg, c \in Class : free[s][c] \in Addr /\ hdr[s].free[c] \in Addr
      BY <1>0 DEF TypeOK
    <2>5. \A p \in Ptr : blk[p].next \in Addr /\ blk[p].cls \in Class /\ p[1] \in Seg
      BY <1>0 DEF TypeOK, Block, Ptr
    <2>6. \A s \in Seg, c \in Class : LinkOk(s, c, free[s][c])' /\ LinkOk(s, c, hdr[s].free[c])'
      BY <1>1, <2>1, <2>2, <2>3, <2>4
    <2>7. \A p \in Ptr : IsWhole(p)' => LinkOk(p[1], blk[p].cls, blk[p].next)'
      BY <1>2, <2>1, <2>2, <2>3, <2>5
    <2> QED
      BY <2>6, <2>7 DEF LinksInClass
  <1> SUFFICES ASSUME \A L \in SUBSET Seg : ~Crash(L) PROVE LinksInClass'
    BY <1>17
  <1>11. HeadsOld /\ HdrOld /\ NextOld
    BY <1>4, <1>6, <1>7, <1>8, <1>9, <1>10, Shapes
  <1>12. ASSUME NEW s \in Seg, NEW c \in Class, NEW a \in Addr, Old(s, c, a)
         PROVE  LinkOk(s, c, a)'
    BY <1>12, LinksStay DEF LinkOk
  <1>13. \A s \in Seg, c \in Class : free'[s][c] \in Addr /\ hdr'[s].free[c] \in Addr
    BY <1>0 DEF TypeOK
  <1>14. \A p \in Ptr : blk'[p].next \in Addr /\ blk'[p].cls \in Class /\ p[1] \in Seg
    BY <1>0 DEF TypeOK, Block, Ptr
  <1>15. \A s \in Seg, c \in Class : LinkOk(s, c, free[s][c])' /\ LinkOk(s, c, hdr[s].free[c])'
    BY <1>11, <1>12, <1>13
  <1>16. \A p \in Ptr : IsWhole(p)' => LinkOk(p[1], blk[p].cls, blk[p].next)'
    BY <1>11, <1>12, <1>14
  <1> QED
    BY <1>15, <1>16 DEF LinksInClass

\* A step adds at most one block, at the end of its file.
LEMMA NoOverlapStep ==
  ASSUME IInv, [Next]_vars PROVE NoOverlap'
  <1> USE SizesAssumption, SegmentAssumption
  <1>0. TypeOK /\ NoOverlap /\ FilesSound /\ TypeOK'
    BY TypeStep DEF IInv
  <1> DEFINE Old(r) == IsWhole(r) /\ blk'[r].cls = blk[r].cls
             New(r) == /\ blk[r].st = "none" /\ r[2] = flen[r[1]]
                       /\ flen'[r[1]] = flen[r[1]] + BlockLenV[blk'[r].cls] + Overhead
  <1>7. ASSUME NEW L \in SUBSET Seg, Crash(L)
        PROVE  NoOverlap'
    <2>1. \A r \in Ptr : IsWhole(r)' => IsWhole(r) /\ blk'[r] = blk[r] /\ r \notin Lost(L)
      <3>1. ASSUME NEW r \in Ptr, IsWhole(r)' PROVE blk'[r] = blk[r] /\ r \notin Lost(L)
        BY <1>7, <3>1, CrashFacts DEF IsWhole
      <3> QED
        BY <3>1 DEF IsWhole
    <2>2. ASSUME NEW r \in Ptr, IsWhole(r)'
          PROVE  EndOf(r) <= flen'[r[1]]
      <3>1. EndOf(r) <= flen[r[1]] /\ r[1] \in Seg /\ r[2] \in Nat
        BY <1>0, <2>1, <2>2 DEF NoOverlap, Ptr, Addr
      <3>2. BlockLenV[blk[r].cls] \in Nat
        BY <1>0 DEF TypeOK, Block
      <3>3. CASE r[1] \in L
        <4>1. tail[r[1]] # Nil /\ flen'[r[1]] = CutLen(r[1])
          BY <1>7, <3>1, <3>3 DEF Crash
        <4>2. r # <<r[1], tail[r[1]]>>
          BY <2>1, <2>2, <3>3 DEF Lost
        <4>3. EndOf(r) <= tail[r[1]] /\ tail[r[1]] < CutLen(r[1]) /\ tail[r[1]] \in Nat /\ CutLen(r[1]) \in Nat
          BY <2>1, <2>2, <3>1, <4>1, <4>2, CutFacts
        <4> QED
          BY <3>1, <3>2, <4>1, <4>3 DEF EndOf
      <3>4. CASE r[1] \notin L
        BY <1>7, <3>1, <3>4 DEF Crash
      <3> QED
        BY <3>3, <3>4
    <2>3. \A r \in Ptr : IsWhole(r)' => EndOf(r)' = EndOf(r)
      BY <2>1 DEF EndOf
    <2> QED
      BY <1>0, <2>1, <2>2, <2>3 DEF NoOverlap
  <1> SUFFICES ASSUME \A L \in SUBSET Seg : ~Crash(L) PROVE NoOverlap'
    BY <1>7
  <1>1. ASSUME NEW d \in Data, NEW c \in Class, NEW s \in Seg, Fills(d, c, s),
               blk'[Slot(s, c)] = Active(c, d)
        PROVE  /\ Old(Slot(s, c)) \/ New(Slot(s, c))
               /\ \A t \in Seg : flen[t] <= flen'[t]
    <2>1. \A t \in Seg : flen'[t] = IF t = s THEN FLenAfter(s, c) ELSE flen[t]
      BY <1>0, <1>1 DEF Fills, TypeOK
    <2>2. \A t \in Seg : flen[t] <= flen'[t]
      <3>1. flen[s] <= FLenAfter(s, c)
        BY <1>1, FillFacts
      <3>2. \A t \in Seg : flen[t] \in Nat
        BY <1>0 DEF TypeOK, Addr
      <3> QED
        BY <2>1, <3>1, <3>2
    <2>3. Old(Slot(s, c)) \/ New(Slot(s, c))
      BY <1>1, <2>1, FillFacts DEF Active, IsWhole
    <2> QED
      BY <2>2, <2>3
  <1>2. /\ \A r \in Ptr : IsWhole(r)' => Old(r) \/ New(r)
        /\ \A r, q \in Ptr : New(r) /\ New(q) /\ r[1] = q[1] => r = q
        /\ \A t \in Seg : flen[t] <= flen'[t]
    <2>0. \A r, q \in Ptr : New(r) /\ New(q) /\ r[1] = q[1] => r = q
      BY DEF Ptr
    <2>00. \A t \in Seg : flen[t] <= flen[t]
      BY <1>0 DEF TypeOK, Addr
    <2>1. ASSUME NEW d \in Data, NEW c \in Class, NEW s \in Seg, FillOnly(d, c, s)
          PROVE  /\ \A r \in Ptr : IsWhole(r)' => Old(r) \/ New(r)
                 /\ \A t \in Seg : flen[t] <= flen'[t]
      <3>1. Fills(d, c, s) /\ blk'[Slot(s, c)] = Active(c, d)
            /\ \A r \in Ptr : r # Slot(s, c) => blk'[r] = blk[r]
        BY <1>0, <2>1, FillFacts DEF FillOnly, TypeOK
      <3> QED
        BY <1>1, <3>1 DEF IsWhole
    <2>2. ASSUME NEW p \in Ptr, NEW d \in Data, NEW c \in Class, NEW s \in Seg,
                 Moves(p, d, c, s)
          PROVE  /\ \A r \in Ptr : IsWhole(r)' => Old(r) \/ New(r)
                 /\ \A t \in Seg : flen[t] <= flen'[t]
      <3>1. Fills(d, c, s) /\ blk'[Slot(s, c)] = Active(c, d)
            /\ \A r \in Ptr : r # Slot(s, c) =>
                 blk'[r] = blk[r] \/ (r = p /\ blk'[r] = Released(p))
        BY <1>0, <2>2, FillFacts DEF Moves, TypeOK
      <3>2. Old(p) \/ blk'[p] # Released(p)
        BY <2>2 DEF Moves, IsActive, IsWhole, Released
      <3> QED
        BY <1>1, <3>1, <3>2 DEF IsWhole
    <2>3. ASSUME NEW p \in Ptr, NEW d \in Data, UpdateInPlace(p, d)
          PROVE  /\ \A r \in Ptr : IsWhole(r)' => Old(r) \/ New(r)
                 /\ \A t \in Seg : flen[t] <= flen'[t]
      BY <1>0, <2>00, <2>3 DEF UpdateInPlace, TypeOK, IsActive, IsWhole, Active
    <2>4. ASSUME NEW p \in Ptr, Releases(p)
          PROVE  /\ \A r \in Ptr : IsWhole(r)' => Old(r) \/ New(r)
                 /\ \A t \in Seg : flen[t] <= flen'[t]
      BY <1>0, <2>00, <2>4 DEF Releases, TypeOK, IsActive, IsWhole, Released
    <2>5. Keeps \/ Opens => /\ \A r \in Ptr : IsWhole(r)' => Old(r) \/ New(r)
                            /\ \A t \in Seg : flen[t] <= flen'[t]
      BY <2>00 DEF Keeps, Opens, IsWhole
    <2> QED
      BY <2>0, <2>1, <2>2, <2>3, <2>4, <2>5, Shapes
  <1>3. \A r \in Ptr : /\ blk[r].cls \in Class /\ blk'[r].cls \in Class
                       /\ r[1] \in Seg /\ r[2] \in Nat
                       /\ BlockLenV[blk[r].cls] \in Nat \ {0}
                       /\ BlockLenV[blk'[r].cls] \in Nat \ {0}
    BY <1>0 DEF TypeOK, Block, Ptr, Addr
  <1>4. \A t \in Seg : /\ flen[t] \in Nat /\ flen'[t] \in Nat
                       /\ flen'[t] <= AddrMx /\ flen[t] >= HdrLen
    BY <1>0 DEF TypeOK, Addr, FilesSound
  <1>5. ASSUME NEW r \in Ptr, IsWhole(r)'
        PROVE  r[2] >= HdrLen /\ EndOf(r)' <= flen'[r[1]] /\ EndOf(r)' <= AddrMx
    <2>1. CASE Old(r)
      <3>1. r[2] >= HdrLen /\ EndOf(r) <= flen[r[1]]
        BY <1>0, <2>1 DEF NoOverlap
      <3> QED
        BY <1>2, <1>3, <1>4, <2>1, <3>1 DEF EndOf
    <2>2. CASE New(r)
      BY <1>3, <1>4, <2>2 DEF EndOf
    <2> QED
      BY <1>2, <1>5, <2>1, <2>2
  <1>6. ASSUME NEW r \in Ptr, NEW q \in Ptr, q[1] = r[1], q # r,
               IsWhole(r)', IsWhole(q)'
        PROVE  EndOf(r)' <= q[2] \/ EndOf(q)' <= r[2]
    <2>1. CASE Old(r) /\ Old(q)
      <3>1. EndOf(r) <= q[2] \/ EndOf(q) <= r[2]
        BY <1>0, <1>6, <2>1 DEF NoOverlap
      <3> QED
        BY <2>1, <3>1 DEF EndOf
    <2>2. CASE Old(r) /\ New(q)
      <3>1. EndOf(r) <= flen[r[1]]
        BY <1>0, <2>2 DEF NoOverlap
      <3> QED
        BY <1>6, <2>2, <3>1 DEF EndOf
    <2>3. CASE New(r) /\ Old(q)
      <3>1. EndOf(q) <= flen[q[1]]
        BY <1>0, <2>3 DEF NoOverlap
      <3> QED
        BY <1>6, <2>3, <3>1 DEF EndOf
    <2> QED
      BY <1>2, <1>6, <2>1, <2>2, <2>3
  <1> QED
    BY <1>5, <1>6 DEF NoOverlap

LEMMA IntervalGrows ==
  ASSUME NEW n \in Int, NEW m \in Int, n <= m, NEW t \in 0..n-1 PROVE t \in 0..m-1
  OBVIOUS

LEMMA FilesSoundStep ==
  ASSUME IInv, [Next]_vars PROVE FilesSound'
  <1> USE SizesAssumption, SegmentAssumption
  <1>0. TypeOK /\ FilesSound /\ TypeOK'
    BY TypeStep DEF IInv
  <1>1. ASSUME NEW d \in Data, NEW c \in Class, NEW s \in Seg, Fills(d, c, s)
        PROVE  FilesSound'
    <2>1. \A t \in Seg : flen'[t] = IF t = s THEN FLenAfter(s, c) ELSE flen[t]
      BY <1>0, <1>1 DEF Fills, TypeOK
    <2>2. flen[s] \in Nat /\ FLenAfter(s, c) \in Nat /\ flen[s] <= FLenAfter(s, c)
      BY <1>1, FillFacts DEF Addr
    <2>3. \A t \in Seg : flen'[t] >= HdrLen /\ flen[t] >= HdrLen
      BY <1>0, <2>1, <2>2 DEF FilesSound
    <2>4. \A t \in Seg : t \in Live => hdr[t].state = "opened"
      BY <1>0, <1>1 DEF Fills, FilesSound
    <2>5. mode' = "open" /\ nSegs \in Nat
      BY <1>0, <1>1 DEF Fills, TypeOK
    <2>6. CASE s < nSegs
      <3>1. nSegs' = nSegs /\ hdr' = hdr
        BY <1>1, <2>6 DEF Fills, SegFilesAfter
      <3>2. \A t \in Seg : t >= nSegs => t # s
        BY <2>5, <2>6 DEF Seg
      <3>3. Live' = Live /\ (\A t \in Live : t \in Seg)
        BY <1>0, <3>1 DEF Live, Seg, TypeOK
      <3> QED
        BY <1>0, <2>1, <2>3, <2>4, <2>5, <3>1, <3>2, <3>3 DEF FilesSound
    <2>7. CASE s = nSegs
      <3>1. /\ nSegs' = nSegs + 1
            /\ \A t \in Seg : hdr'[t].state = IF t = s THEN "opened" ELSE hdr[t].state
        BY <1>0, <1>1, <2>7 DEF Fills, SegFilesAfter, TypeOK
      <3>2. \A t \in Seg : t \in Live' <=> t \in Live \/ t = s
        BY <2>5, <2>7, <3>1 DEF Live, Seg
      <3>3. \A t \in Seg : t \in Live <=> hdr[t].state # "none"
        BY <1>0 DEF FilesSound
      <3>4. \A t \in Seg : hdr'[t].state \in {"none", "opened"}
        BY <2>4, <3>1, <3>3
      <3>5. \A t \in Seg : t >= nSegs' => t # s /\ t >= nSegs
        BY <2>5, <2>7, <3>1 DEF Seg
      <3>6. \A t \in Seg : t >= nSegs' => flen'[t] = HdrLen
        BY <1>0, <2>1, <3>5 DEF FilesSound
      <3>7. \A t \in Seg : t \in Live' <=> hdr'[t].state # "none"
        BY <3>1, <3>2, <3>3
      <3>8. \A t \in Live' : hdr'[t].state = "opened"
        <4>1. \A t \in Live' : t \in Seg
          <5> SUFFICES ASSUME NEW t \in Live' PROVE t \in Seg
            OBVIOUS
          <5>1. nSegs' \in Int /\ nSegs' <= MaxSegs /\ MaxSegs \in Int
            BY <1>0 DEF TypeOK
          <5>2. t \in 0..nSegs'-1
            BY DEF Live
          <5> QED
            BY <5>1, <5>2, IntervalGrows DEF Seg
        <4> QED
          BY <3>4, <3>7, <4>1
      <3> QED
        BY <2>3, <2>5, <3>4, <3>6, <3>7, <3>8 DEF FilesSound
    <2> QED
      BY <1>0, <1>1, <2>6, <2>7 DEF Fills, TypeOK
  <1>2. ASSUME NEW p \in Ptr, NEW d \in Data, UpdateInPlace(p, d)
        PROVE  FilesSound'
    BY <1>0, <1>2 DEF UpdateInPlace, FilesSound, Live
  <1>3. ASSUME NEW p \in Ptr, Releases(p)
        PROVE  FilesSound'
    <2>1. \A t \in Seg : hdr[t].state # "closed"
      BY <1>0, <1>3 DEF Releases, FilesSound, Live
    <2> QED
      BY <1>0, <1>3, <2>1 DEF Releases, FilesSound, Live
  <1>4. CASE CloseMain
    BY <1>0, <1>4 DEF CloseMain, FilesSound, Live
  <1>5. ASSUME NEW s \in Seg, CloseSeg(s)
        PROVE  FilesSound'
    BY <1>0, <1>5 DEF CloseSeg, FilesSound, TypeOK, Live
  <1>6. CASE CloseDone
    BY <1>0, <1>6 DEF CloseDone, FilesSound, Live
  <1>7. ASSUME NEW L \in SUBSET Seg, Crash(L)
        PROVE  FilesSound'
    <2>1. 0 \in Live
      BY <1>0 DEF Live, TypeOK
    <2>2. \A s \in Seg : flen'[s] >= HdrLen
      <3>1. ASSUME NEW s \in L PROVE CutLen(s) >= HdrLen
        <4>1. s \in Seg /\ tail[s] # Nil
          BY <1>7 DEF Crash
        <4>2. tail[s] \in Nat /\ tail[s] >= HdrLen /\ CutLen(s) \in Nat /\ tail[s] < CutLen(s)
          BY <4>1, CutFacts
        <4> QED
          BY <4>2
      <3> QED
        BY <1>0, <1>7, <3>1 DEF Crash, FilesSound
    <2>3. \A s \in Seg : s >= nSegs => flen'[s] = HdrLen
      <3>1. ASSUME NEW s \in L PROVE ~(s >= nSegs)
        <4>1. <<s, tail[s]>> \in Ptr /\ IsWhole(<<s, tail[s]>>)
          BY <1>7, CutFacts DEF Crash, IsActive, IsWhole
        <4>2. s \in Live
          BY <4>1, BlocksAreLive DEF IInv
        <4> QED
          BY <1>0, <4>2 DEF Live, TypeOK
      <3> QED
        BY <1>0, <1>7, <3>1 DEF Crash, FilesSound
    <2> QED
      BY <1>0, <1>7, <2>1, <2>2, <2>3 DEF Crash, FilesSound, Live
  <1>10. ASSUME NEW p \in Ptr, GetBlob(p)
         PROVE  FilesSound'
    BY <1>0, <1>10 DEF GetBlob, FilesSound, Live
  <1>8. CASE Opens
    <2>1. /\ nSegs' = nSegs /\ mode' = "open" /\ UNCHANGED flen
          /\ \A t \in Seg : hdr'[t].state = IF t < nSegs THEN "opened" ELSE hdr[t].state
      BY <1>0, <1>8 DEF Opens, LoadSegs, TypeOK
    <2>2. \A t \in Seg : t \in Live <=> t < nSegs
      BY <1>0 DEF Live, Seg, TypeOK
    <2>3. \A t \in Live : t \in Seg
      BY <1>0 DEF Live, Seg, TypeOK
    <2>4. \A t \in Seg : hdr'[t].state # "closed"
      BY <1>0, <2>1, <2>2 DEF FilesSound
    <2> QED
      BY <1>0, <2>1, <2>2, <2>3, <2>4 DEF FilesSound, Live
  <1>9. CASE UNCHANGED vars
    BY <1>0, <1>9 DEF vars, FilesSound, Live
  <1> QED
    BY <1>1, <1>2, <1>3, <1>4, <1>5, <1>6, <1>7, <1>8, <1>9, <1>10, Shapes, ZenonT(40)
    DEF FillOnly, Moves

(***************************************************************************)
(* The free lists.  Good states, of blocks b and heads f, that no block is *)
(* the successor of two, that no head is a successor, and that lists stay  *)
(* among the free blocks of their class.  A block pushed on its list and a *)
(* block popped from it (or a new one) keep that; a move does both.        *)
(***************************************************************************)
Good(b, f) ==
  /\ \A s \in Seg, c \in Class : f[s][c] # Nil =>
       b[<<s, f[s][c]>>].st = "free" /\ b[<<s, f[s][c]>>].cls = c
  /\ \A p \in Ptr : b[p].st = "free" /\ b[p].next # Nil =>
       /\ b[<<p[1], b[p].next>>].st = "free"
       /\ b[<<p[1], b[p].next>>].cls = b[p].cls
       /\ b[p].next # f[p[1]][b[p].cls]
       /\ \A q \in Ptr : q[1] = p[1] /\ b[q].st = "free" /\ b[q].next = b[p].next
                         => q = p

LEMMA PushGood ==
  ASSUME NEW b \in [Ptr -> Block], NEW f \in [Seg -> [Class -> Addr]], Good(b, f),
         NEW p \in Ptr, b[p].st = "active", NEW r \in Block,
         r = [st |-> "free", cls |-> b[p].cls, next |-> f[p[1]][b[p].cls], dat |-> NoData]
  PROVE  Good([b EXCEPT ![p] = r], [f EXCEPT ![p[1]][b[p].cls] = p[2]])
  <1> DEFINE k  == b[p].cls
             b1 == [b EXCEPT ![p] = r]
             f1 == [f EXCEPT ![p[1]][k] = p[2]]
  <1>1. p[1] \in Seg /\ p[2] \in Addr /\ p = <<p[1], p[2]>> /\ k \in Class
    BY DEF Ptr, Block
  <1>2. \A s \in Seg, c \in Class : f1[s][c] = IF s = p[1] /\ c = k THEN p[2] ELSE f[s][c]
    BY <1>1
  <1>3. \A q \in Ptr : b1[q] = IF q = p THEN r ELSE b[q]
    OBVIOUS
  <1>4. \A s \in Seg, a \in Addr : <<s, a>> \in Ptr
    BY DEF Ptr
  <1>5. \A q \in Ptr : q[1] \in Seg /\ q[2] \in Addr /\ q = <<q[1], q[2]>>
                       /\ b[q].cls \in Class /\ b[q].next \in Addr
    BY DEF Ptr, Block
  <1>6. \A s \in Seg, c \in Class : f[s][c] \in Addr
    OBVIOUS
  <1> HIDE DEF b1, f1, k
  <1>7. ASSUME NEW s \in Seg, NEW c \in Class, f1[s][c] # Nil
        PROVE  b1[<<s, f1[s][c]>>].st = "free" /\ b1[<<s, f1[s][c]>>].cls = c
    <2>1. CASE s = p[1] /\ c = k
      <3>1. <<s, f1[s][c]>> = p /\ b1[p] = r
        BY <1>1, <1>2, <1>3, <2>1
      <3> QED
        BY <2>1, <3>1 DEF k
    <2>2. CASE ~(s = p[1] /\ c = k)
      <3>1. f1[s][c] = f[s][c]
        BY <1>2, <2>2
      <3>2. b[<<s, f[s][c]>>].st = "free" /\ b[<<s, f[s][c]>>].cls = c
        BY <1>7, <3>1 DEF Good
      <3>3. <<s, f[s][c]>> \in Ptr /\ <<s, f[s][c]>> # p
        BY <1>4, <1>6, <3>2
      <3> QED
        BY <1>3, <3>1, <3>2, <3>3
    <2> QED
      BY <2>1, <2>2
  <1>8. ASSUME NEW q \in Ptr, b1[q].st = "free", b1[q].next # Nil
        PROVE  /\ b1[<<q[1], b1[q].next>>].st = "free"
               /\ b1[<<q[1], b1[q].next>>].cls = b1[q].cls
               /\ b1[q].next # f1[q[1]][b1[q].cls]
               /\ \A u \in Ptr : u[1] = q[1] /\ b1[u].st = "free" /\ b1[u].next = b1[q].next
                                 => u = q
    <2>1. CASE q = p
      <3>1. b1[q].next = f[p[1]][k] /\ b1[q].cls = k
        BY <1>3, <2>1 DEF k
      <3>2. b[<<p[1], f[p[1]][k]>>].st = "free" /\ b[<<p[1], f[p[1]][k]>>].cls = k
        BY <1>1, <1>8, <3>1 DEF Good
      <3>3. <<p[1], f[p[1]][k]>> \in Ptr /\ <<p[1], f[p[1]][k]>> # p
        BY <1>1, <1>4, <1>6, <3>2
      <3>4. ASSUME NEW u \in Ptr, u[1] = p[1], u # p, b[u].st = "free", b[u].next = f[p[1]][k]
            PROVE  FALSE
        <4>1. b[<<u[1], b[u].next>>].cls = b[u].cls /\ b[u].next # f[u[1]][b[u].cls]
          BY <1>8, <3>1, <3>4 DEF Good
        <4> QED
          BY <3>2, <3>4, <4>1
      <3> QED
        BY <1>1, <1>2, <1>3, <2>1, <3>1, <3>2, <3>3, <3>4
    <2>2. CASE q # p
      <3>1. b1[q] = b[q]
        BY <1>3, <2>2
      <3>2. /\ b[<<q[1], b[q].next>>].st = "free"
            /\ b[<<q[1], b[q].next>>].cls = b[q].cls
            /\ b[q].next # f[q[1]][b[q].cls]
            /\ \A u \in Ptr : u[1] = q[1] /\ b[u].st = "free" /\ b[u].next = b[q].next
                              => u = q
        BY <1>8, <3>1 DEF Good
      <3>3. <<q[1], b[q].next>> \in Ptr /\ <<q[1], b[q].next>> # p
        BY <1>4, <1>5, <3>2
      <3>4. b[q].next # f1[q[1]][b[q].cls]
        BY <1>1, <1>2, <1>5, <3>2, <3>3
      <3>5. p[1] = q[1] => b[q].next # f[p[1]][k]
        <4>1. CASE p[1] = q[1] /\ b[q].next = f[p[1]][k]
          <5>1. b[<<p[1], f[p[1]][k]>>].cls = k
            BY <1>1, <1>8, <3>1, <4>1 DEF Good
          <5> QED
            BY <3>2, <4>1, <5>1
        <4> QED
          BY <4>1
      <3>6. r.next = f[p[1]][k]
        BY DEF k
      <3>7. ASSUME NEW u \in Ptr, u[1] = q[1], b1[u].st = "free", b1[u].next = b1[q].next
            PROVE  u = q
        BY <1>3, <2>2, <3>1, <3>2, <3>5, <3>6, <3>7
      <3> QED
        BY <1>3, <3>1, <3>2, <3>3, <3>4, <3>7
    <2> QED
      BY <2>1, <2>2
  <1> QED
    BY <1>7, <1>8, ZenonT(40) DEF Good, b1, f1, k

LEMMA FillGood ==
  ASSUME NEW b \in [Ptr -> Block], NEW f \in [Seg -> [Class -> Addr]], Good(b, f),
         NEW s \in Seg, NEW c \in Class, NEW q \in Ptr, NEW h, NEW r \in Block,
         f[s][c] # Nil => q = <<s, f[s][c]>> /\ h = b[q].next,
         f[s][c] = Nil => b[q].st = "none" /\ h = Nil,
         r.st = "active"
  PROVE  Good([b EXCEPT ![q] = r], [f EXCEPT ![s][c] = h])
  <1> DEFINE b1 == [b EXCEPT ![q] = r]
             f1 == [f EXCEPT ![s][c] = h]
  <1>1. \A t \in Seg, e \in Class : f1[t][e] = IF t = s /\ e = c THEN h ELSE f[t][e]
    OBVIOUS
  <1>2. \A u \in Ptr : b1[u] = IF u = q THEN r ELSE b[u]
    OBVIOUS
  <1>3. \A t \in Seg, a \in Addr : <<t, a>> \in Ptr
    BY DEF Ptr
  <1>4. \A u \in Ptr : u[1] \in Seg /\ u[2] \in Addr /\ u = <<u[1], u[2]>>
                       /\ b[u].cls \in Class /\ b[u].next \in Addr
    BY DEF Ptr, Block
  <1>5. \A t \in Seg, e \in Class : f[t][e] \in Addr
    OBVIOUS
  <1>6. f[s][c] # Nil => b[q].st = "free" /\ b[q].cls = c /\ q[1] = s /\ q[2] = f[s][c]
    BY DEF Good
  <1> HIDE DEF b1, f1
  <1>7. ASSUME NEW t \in Seg, NEW e \in Class, f1[t][e] # Nil
        PROVE  b1[<<t, f1[t][e]>>].st = "free" /\ b1[<<t, f1[t][e]>>].cls = e
    <2>1. CASE t = s /\ e = c
      <3>1. f[s][c] # Nil /\ f1[t][e] = b[q].next /\ b[q].next # Nil
        BY <1>1, <1>7, <2>1
      <3>2. /\ b[<<s, b[q].next>>].st = "free" /\ b[<<s, b[q].next>>].cls = c
            /\ b[q].next # f[s][c]
        BY <1>6, <3>1 DEF Good
      <3>3. <<s, b[q].next>> # q /\ <<s, b[q].next>> \in Ptr
        BY <1>3, <1>4, <1>6, <3>1, <3>2
      <3> QED
        BY <1>2, <2>1, <3>1, <3>2, <3>3
    <2>2. CASE ~(t = s /\ e = c)
      <3>1. f1[t][e] = f[t][e]
        BY <1>1, <2>2
      <3>2. b[<<t, f[t][e]>>].st = "free" /\ b[<<t, f[t][e]>>].cls = e
        BY <1>7, <3>1 DEF Good
      <3>3. <<t, f[t][e]>> # q
        BY <1>6, <2>2, <3>2
      <3> QED
        BY <1>2, <1>3, <1>5, <3>1, <3>2, <3>3
    <2> QED
      BY <2>1, <2>2
  <1>8. ASSUME NEW u \in Ptr, b1[u].st = "free", b1[u].next # Nil
        PROVE  /\ b1[<<u[1], b1[u].next>>].st = "free"
               /\ b1[<<u[1], b1[u].next>>].cls = b1[u].cls
               /\ b1[u].next # f1[u[1]][b1[u].cls]
               /\ \A v \in Ptr : v[1] = u[1] /\ b1[v].st = "free" /\ b1[v].next = b1[u].next
                                 => v = u
    <2>1. u # q /\ b1[u] = b[u]
      BY <1>2, <1>8
    <2>2. /\ b[<<u[1], b[u].next>>].st = "free"
          /\ b[<<u[1], b[u].next>>].cls = b[u].cls
          /\ b[u].next # f[u[1]][b[u].cls]
          /\ \A v \in Ptr : v[1] = u[1] /\ b[v].st = "free" /\ b[v].next = b[u].next
                            => v = u
      BY <1>8, <2>1 DEF Good
    <2>3. <<u[1], b[u].next>> \in Ptr /\ <<u[1], b[u].next>> # q
      <3>1. CASE f[s][c] = Nil
        BY <1>3, <1>4, <2>2, <3>1
      <3>2. CASE f[s][c] # Nil
        BY <1>3, <1>4, <1>6, <2>2, <3>2, SMTT(30)
      <3> QED
        BY <3>1, <3>2
    <2>4. b[u].next # f1[u[1]][b[u].cls]
      <3>1. CASE u[1] = s /\ b[u].cls = c /\ f[s][c] # Nil
        <4>1. b[u].next # b[q].next
          BY <1>6, <1>8, <2>1, <2>2, <3>1
        <4> QED
          BY <1>1, <3>1, <4>1
      <3>2. CASE u[1] = s /\ b[u].cls = c /\ f[s][c] = Nil
        BY <1>1, <1>8, <2>1, <3>2
      <3>3. CASE ~(u[1] = s /\ b[u].cls = c)
        BY <1>1, <1>4, <2>2, <3>3
      <3> QED
        BY <3>1, <3>2, <3>3
    <2>5. \A v \in Ptr : b1[v].st = "free" => b1[v] = b[v]
      BY <1>2
    <2> QED
      BY <1>2, <2>1, <2>2, <2>3, <2>4, <2>5
  <1> QED
    BY <1>7, <1>8 DEF Good, b1, f1

LEMMA FreeListsSafeStep ==
  ASSUME IInv, [Next]_vars PROVE FreeListsSafe'
  <1> USE SegmentAssumption
  <1>0. TypeOK /\ LinksInClass /\ FreeListsSafe /\ FilesSound /\ TypeOK'
    BY TypeStep DEF IInv
  <1> SUFFICES ASSUME ~tainted' PROVE Good(blk', free')
    BY DEF Good, FreeListsSafe
  <1>1. blk \in [Ptr -> Block] /\ free \in [Seg -> [Class -> Addr]]
    BY <1>0 DEF TypeOK
  <1>2. ~tainted => Good(blk, free)
    <2> SUFFICES ASSUME ~tainted PROVE Good(blk, free)
      OBVIOUS
    <2>1. \A s \in Seg, c \in Class : free[s][c] # Nil =>
            blk[<<s, free[s][c]>>].st = "free" /\ blk[<<s, free[s][c]>>].cls = c
      BY <1>0, ZenonT(40) DEF FreeListsSafe, LinksInClass, LinkOk
    <2>2. \A p \in Ptr : blk[p].st = "free" /\ blk[p].next # Nil =>
            blk[<<p[1], blk[p].next>>].cls = blk[p].cls
      BY <1>0 DEF LinksInClass, LinkOk, IsWhole
    <2> QED
      BY <1>0, <2>1, <2>2 DEF Good, FreeListsSafe
  <1>3. ASSUME NEW d \in Data, NEW c \in Class, NEW s \in Seg, FillOnly(d, c, s)
        PROVE  Good(blk', free')
    <2>1. ~tainted /\ Active(c, d) \in Block /\ Active(c, d).st = "active"
      BY <1>3, ActiveIsBlock DEF FillOnly, Fills, Active
    <2>2. /\ Slot(s, c) \in Ptr
          /\ free[s][c] # Nil => Slot(s, c) = <<s, free[s][c]>>
                                 /\ HeadAfter(s, c) = blk[Slot(s, c)].next
          /\ free[s][c] = Nil => blk[Slot(s, c)].st = "none" /\ HeadAfter(s, c) = Nil
      BY <1>3, FillFacts DEF FillOnly, Slot
    <2> QED
      BY <1>1, <1>2, <1>3, <2>1, <2>2, FillGood DEF FillOnly
  <1>4. ASSUME NEW p \in Ptr, IsActive(p), ~tainted
        PROVE  Good([blk EXCEPT ![p] = Released(p)], [free EXCEPT ![p[1]][blk[p].cls] = p[2]])
    <2>1. /\ Released(p) \in Block
          /\ Released(p) = [st |-> "free", cls |-> blk[p].cls,
                            next |-> free[p[1]][blk[p].cls], dat |-> NoData]
      BY <1>0, <1>4, ReleasedFacts
    <2> QED
      BY <1>1, <1>2, <1>4, <2>1, PushGood DEF IsActive
  <1>5. ASSUME NEW p \in Ptr, Releases(p)
        PROVE  Good(blk', free')
    BY <1>4, <1>5 DEF Releases
  <1>6. ASSUME NEW p \in Ptr, NEW d \in Data, NEW c \in Class, NEW s \in Seg,
               Moves(p, d, c, s)
        PROVE  Good(blk', free')
    <2> DEFINE b == [blk EXCEPT ![p] = Released(p)]
               f == [free EXCEPT ![p[1]][blk[p].cls] = p[2]]
    <2>1. ~tainted /\ Active(c, d) \in Block /\ Active(c, d).st = "active"
      BY <1>6, ActiveIsBlock DEF Moves, Fills, Active
    <2>2. Good(b, f)
      BY <1>4, <1>6, <2>1 DEF Moves
    <2>3. /\ p[1] \in Seg /\ p[2] \in Addr /\ blk[p].cls \in Class /\ Released(p) \in Block
      BY <1>0, <1>6, ReleasedFacts DEF Moves
    <2>4. b \in [Ptr -> Block] /\ f \in [Seg -> [Class -> Addr]]
      BY <1>1, <2>3
    <2>5. /\ Slot(s, c) \in Ptr /\ Slot(s, c) # p
          /\ free[s][c] # Nil => Slot(s, c) = <<s, free[s][c]>>
                                 /\ HeadAfter(s, c) = blk[Slot(s, c)].next
          /\ free[s][c] = Nil => blk[Slot(s, c)].st = "none" /\ HeadAfter(s, c) = Nil
      BY <1>6, FillFacts DEF Moves, Slot, IsActive
    <2>6. f[s][c] = free[s][c] /\ b[Slot(s, c)] = blk[Slot(s, c)]
      BY <1>1, <1>6, <2>3, <2>5 DEF Moves
    <2>7. /\ blk' = [b EXCEPT ![Slot(s, c)] = Active(c, d)]
          /\ free' = [f EXCEPT ![s][c] = HeadAfter(s, c)]
      BY <1>6 DEF Moves
    <2> HIDE DEF b, f
    <2>8. Good([b EXCEPT ![Slot(s, c)] = Active(c, d)], [f EXCEPT ![s][c] = HeadAfter(s, c)])
      BY <2>1, <2>2, <2>4, <2>5, <2>6, FillGood
    <2> QED
      BY <2>7, <2>8
  <1>7. ASSUME NEW p \in Ptr, NEW d \in Data, UpdateInPlace(p, d)
        PROVE  Good(blk', free')
    <2>1. \A q \in Ptr : blk'[q].st = blk[q].st /\ blk'[q].cls = blk[q].cls
                         /\ (blk[q].st = "free" => blk'[q].next = blk[q].next)
      BY <1>1, <1>7 DEF UpdateInPlace, IsActive, Active
    <2>2. free' = free /\ Good(blk, free)
      BY <1>2, <1>7 DEF UpdateInPlace
    <2>3. \A s \in Seg, a \in Addr : <<s, a>> \in Ptr
      BY DEF Ptr
    <2>4. \A q \in Ptr : q[1] \in Seg /\ blk[q].next \in Addr
      BY <1>1 DEF Ptr, Block
    <2>5. \A s \in Seg, c \in Class : free[s][c] \in Addr
      BY <1>1
    <2> QED
      BY <2>1, <2>2, <2>3, <2>4, <2>5 DEF Good
  <1>8. CASE Keeps
    BY <1>2, <1>8 DEF Keeps
  <1>20. ASSUME NEW L \in SUBSET Seg, Crash(L)
         PROVE  /\ UNCHANGED <<free, tainted>>
                /\ \A q \in Ptr : /\ blk'[q].cls = blk[q].cls /\ blk'[q].next = blk[q].next
                                  /\ blk'[q].st = "free" <=> blk[q].st = "free"
    <2>1. ASSUME NEW q \in Ptr
          PROVE  /\ blk'[q].cls = blk[q].cls /\ blk'[q].next = blk[q].next
                 /\ blk'[q].st = "free" <=> blk[q].st = "free"
      <3>1. CASE q \in Lost(L)
        BY <1>20, <3>1, CrashFacts DEF IsActive
      <3>2. CASE q \notin Lost(L)
        BY <1>20, <3>2, CrashFacts
      <3> QED
        BY <3>1, <3>2
    <2>2. UNCHANGED <<free, tainted>>
      BY <1>20, CrashFacts
    <2> QED
      BY <2>1, <2>2
  <1>10. ASSUME NEW L \in SUBSET Seg, Crash(L)
         PROVE  Good(blk', free')
    <2>1. \A q \in Ptr : /\ blk'[q].cls = blk[q].cls /\ blk'[q].next = blk[q].next
                         /\ blk'[q].st = "free" <=> blk[q].st = "free"
      BY <1>10, <1>20
    <2>2. free' = free /\ Good(blk, free)
      BY <1>2, <1>10, <1>20
    <2>3. \A s \in Seg, a \in Addr : <<s, a>> \in Ptr
      BY DEF Ptr
    <2>4. \A q \in Ptr : q[1] \in Seg /\ blk[q].next \in Addr
      BY <1>1 DEF Ptr, Block
    <2>5. \A s \in Seg, c \in Class : free[s][c] \in Addr
      BY <1>1
    <2> QED
      BY <2>1, <2>2, <2>3, <2>4, <2>5 DEF Good
  <1>9. CASE Opens
    <2>1. ~tainted /\ \A s \in Live : hdr[s].state = "closed"
      BY <1>9 DEF Opens
    <2>2. \A s \in Seg : s < nSegs => s \in Live
      BY <1>0 DEF Live, Seg, TypeOK
    <2>3. \A s \in Seg : free'[s] = free[s]
      BY <1>0, <1>9, <2>1, <2>2 DEF Opens, LoadSegs, FilesSound
    <2>4. \A s \in Seg, c \in Class : free'[s][c] = free[s][c]
      BY <2>3
    <2>5. \A p \in Ptr : p[1] \in Seg /\ blk[p].cls \in Class
      BY <1>1 DEF Ptr, Block
    <2> QED
      BY <1>2, <1>9, <2>1, <2>4, <2>5 DEF Good, Opens
  <1> QED
    BY <1>3, <1>5, <1>6, <1>7, <1>8, <1>9, <1>10, Shapes

\* Until a restore no assertion on the state of a free block fails.
LEMMA NoThrow ==
  ASSUME IInv, ~tainted, NEW s \in Seg, NEW c \in Class
  PROVE  HeadIsFree(s, c)
  BY DEF IInv, FreeListsSafe, HeadIsFree

\* A segment that cannot take a blob of a class can so only once a block of
\* that class is released in it, and then the hint is lowered.
LEMMA HintSoundStep ==
  ASSUME IInv, [Next]_vars PROVE HintSound'
  <1> USE SizesAssumption, SegmentAssumption
  <1>0. TypeOK /\ HintSound /\ TypeOK'
    BY TypeStep DEF IInv
  <1> SUFFICES ASSUME ~tainted', mode' = "open",
                      NEW e \in Class, NEW t \in 0..hint'[e]-1, CanTake(t, e)'
               PROVE  FALSE
    BY DEF HintSound
  <1>1. t \in Seg /\ t \in Nat
    <2>1. hint'[e] \in Seg
      BY <1>0 DEF TypeOK
    <2> QED
      BY <2>1 DEF Seg
  <1>2. \A c \in Class : hint[c] \in Nat /\ hint'[c] \in Nat
    BY <1>0 DEF TypeOK, Seg
  <1>3. ~tainted /\ mode = "open" /\ t < hint[e] => free[t][e] = Nil /\ ~Room(t, e)
    BY <1>0, <1>1, <1>2 DEF HintSound, CanTake
  <1>4. ASSUME flen[t] <= flen'[t], ~Room(t, e)
        PROVE  free'[t][e] # Nil
    <2>1. flen[t] \in Nat /\ flen'[t] \in Nat /\ BlockLenV[e] \in Nat
      BY <1>0, <1>1 DEF TypeOK, Addr
    <2>2. ~Room(t, e)'
      BY <1>4, <2>1 DEF Room
    <2> QED
      BY <2>2 DEF CanTake
  <1>5. ASSUME NEW d \in Data, NEW c \in Class, NEW s \in Seg, Fills(d, c, s)
        PROVE  flen[t] <= flen'[t]
    <2>1. flen[s] <= FLenAfter(s, c) /\ flen[t] \in Nat
      BY <1>0, <1>1, <1>5, FillFacts DEF TypeOK, Addr
    <2> QED
      BY <1>0, <1>1, <1>5, <2>1 DEF Fills, TypeOK
  <1>6. ASSUME NEW d \in Data, NEW c \in Class, NEW s \in Seg,
               FillOnly(d, c, s), PutBlob(d, c, s)
        PROVE  FALSE
    <2>1. ~tainted /\ mode = "open"
      BY <1>6 DEF PutBlob
    <2>2. hint'[e] = IF e = c THEN s ELSE hint[e]
      BY <1>0, <1>6 DEF PutBlob, TypeOK
    <2>3. free[t][e] = Nil /\ ~Room(t, e)
      <3>1. CASE t < hint[e]
        BY <1>3, <2>1, <3>1
      <3>2. CASE ~(t < hint[e])
        <4>1. e = c /\ t \in hint[c]..s-1
          BY <1>1, <1>2, <2>2, <3>2 DEF Seg
        <4> QED
          BY <1>6, <4>1 DEF PutBlob, IsDest, CanTake
      <3> QED
        BY <3>1, <3>2
    <2>4. free'[t][e] # Nil
      BY <1>4, <1>5, <1>6, <2>3 DEF FillOnly
    <2>5. t = s /\ e = c
      BY <1>0, <1>1, <1>6, <2>3, <2>4 DEF FillOnly, TypeOK
    <2> QED
      BY <1>1, <2>2, <2>5
  <1>7. ASSUME NEW p \in Ptr, NEW d \in Data, NEW c \in Class, NEW s \in Seg,
               Moves(p, d, c, s), UpdateMoves(p, d, c, s)
        PROVE  FALSE
    <2> DEFINE k == blk[p].cls
    <2>0. p[1] \in Seg /\ p[1] \in Nat /\ k \in Class /\ c # k
      BY <1>0, <1>7, ReleasedFacts DEF Moves, Seg
    <2>1. ~tainted /\ mode = "open"
      BY <1>7 DEF UpdateMoves
    <2>2. hint'[e] = IF e = c THEN (IF CanTake(p[1], c) THEN hint[c] ELSE s)
                     ELSE IF e = k THEN Lower(p[1], hint[k]) ELSE hint[e]
      BY <1>0, <1>7, <2>0 DEF UpdateMoves, TypeOK
    <2>3. free[t][e] = Nil /\ ~Room(t, e)
      <3>1. CASE t < hint[e]
        BY <1>3, <2>1, <3>1
      <3>2. CASE ~(t < hint[e])
        <4>1. e # k
          BY <1>1, <1>2, <2>0, <2>2, <3>2 DEF Lower
        <4>2. e = c /\ ~CanTake(p[1], c) /\ t \in hint[c]..s-1
          BY <1>1, <1>2, <2>0, <2>2, <3>2, <4>1 DEF Seg
        <4> QED
          BY <1>7, <4>2 DEF UpdateMoves, IsMoveDest, IsDest, CanTake
      <3> QED
        BY <3>1, <3>2
    <2>4. free'[t][e] # Nil
      BY <1>4, <1>5, <1>7, <2>3 DEF Moves
    <2>5. (t = s /\ e = c) \/ (t = p[1] /\ e = k)
      BY <1>0, <1>1, <1>7, <2>0, <2>3, <2>4 DEF Moves, TypeOK
    <2>6. CASE t = p[1] /\ e = k
      BY <1>1, <1>2, <2>0, <2>2, <2>6 DEF Lower
    <2>7. CASE t = s /\ e = c
      <3>1. CASE CanTake(p[1], c)
        BY <1>7, <2>3, <2>7, <3>1 DEF UpdateMoves, IsMoveDest, CanTake
      <3>2. CASE ~CanTake(p[1], c)
        BY <1>1, <2>2, <2>7, <3>2
      <3> QED
        BY <3>1, <3>2
    <2> QED
      BY <2>5, <2>6, <2>7
  <1>8. ASSUME NEW p \in Ptr, DelBlob(p)
        PROVE  FALSE
    <2> DEFINE k == blk[p].cls
    <2>0. p[1] \in Seg /\ p[1] \in Nat /\ k \in Class
      BY <1>0, <1>8, ReleasedFacts DEF DelBlob, Seg
    <2>1. hint'[e] = IF e = k THEN Lower(p[1], hint[k]) ELSE hint[e]
      BY <1>0, <1>8, <2>0 DEF DelBlob, TypeOK
    <2>2. t < hint[e] /\ (e = k => t < p[1])
      BY <1>1, <1>2, <2>0, <2>1 DEF Lower
    <2>3. free[t][e] = Nil /\ ~Room(t, e)
      BY <1>3, <1>8, <2>2 DEF DelBlob
    <2>4. free'[t][e] # Nil
      <3>1. flen[t] <= flen'[t]
        BY <1>0, <1>1, <1>8 DEF DelBlob, TypeOK, Addr
      <3> QED
        BY <1>4, <2>3, <3>1
    <2> QED
      BY <1>0, <1>1, <1>8, <2>0, <2>2, <2>3, <2>4 DEF DelBlob, TypeOK
  <1>9. ASSUME NEW p \in Ptr, NEW d \in Data, NEW c \in Class, NEW s \in Seg,
               UpdateThrows(p, d, c, s)
        PROVE  FALSE
    BY <1>9, NoThrow DEF UpdateThrows
  <1>10. ASSUME hint' = hint, free' = free, flen' = flen, mode = "open", ~tainted
         PROVE  FALSE
    <2>1. t < hint[e]
      BY <1>1, <1>2, <1>10
    <2>2. flen[t] <= flen'[t]
      BY <1>0, <1>1, <1>10 DEF TypeOK, Addr
    <2> QED
      BY <1>3, <1>4, <1>10, <2>1, <2>2
  <1>11. ASSUME NEW p \in Ptr, NEW d \in Data, UpdateInPlace(p, d)
         PROVE  FALSE
    BY <1>10, <1>11 DEF UpdateInPlace
  <1>12. CASE Keeps
    BY <1>10, <1>12 DEF Keeps
  <1>14. ASSUME NEW L \in SUBSET Seg, Crash(L)
         PROVE  FALSE
    BY <1>14 DEF Crash
  <1>13. CASE Opens
    BY <1>1, <1>13 DEF Opens, LoadSegs
  <1> QED
    BY <1>6, <1>7, <1>8, <1>9, <1>11, <1>12, <1>13, <1>14, Shapes

\* What is last in its file stays last until an operation on the segment writes it out, and no
\* such operation makes anything lead to it first.
LEMMA TailsLastStep ==
  ASSUME IInv, [Next]_vars PROVE TailsLast'
  <1> USE SizesAssumption, SegmentAssumption
  <1>0. TypeOK /\ LinksInClass /\ NoOverlap /\ FilesSound /\ TailsLast /\ TypeOK'
    BY TypeStep DEF IInv
  <1>1. \A s \in Seg : flen[s] \in Nat /\ flen[s] >= HdrLen /\ flen[s] # Nil
    BY <1>0 DEF TypeOK, FilesSound, Addr, Nil
  \* A segment of which nothing changes but, perhaps, its links.
  <1>2. ASSUME NEW s \in Seg, tail'[s] \in {tail[s], Nil},
               flen'[s] = flen[s],
               \A p \in Ptr : p[1] = s => blk'[p] = blk[p],
               \A c \in Class : {free'[s][c], hdr'[s].free[c]} \subseteq {free[s][c], hdr[s].free[c], Nil}
        PROVE  TailOk(s)'
    <2> SUFFICES ASSUME tail'[s] # Nil PROVE TailOk(s)'
      BY DEF TailOk
    <2>1. tail'[s] = tail[s] /\ tail[s] # Nil /\ TailOk(s)
      BY <1>0, <1>2 DEF TailsLast
    <2>2. <<s, tail[s]>> \in Ptr /\ blk'[<<s, tail[s]>>] = blk[<<s, tail[s]>>]
      BY <1>0, <1>2 DEF TypeOK, Ptr
    <2>3. IsActive(<<s, tail[s]>>)' /\ EndOf(<<s, tail[s]>>)' = flen'[s]
      BY <1>2, <2>1, <2>2 DEF TailOk, IsActive, EndOf
    <2>4. \A c \in Class : free'[s][c] # tail[s] /\ hdr'[s].free[c] # tail[s]
      BY <1>2, <2>1 DEF TailOk
    <2>5. \A p \in Ptr : /\ p[1] = s /\ IsWhole(p)' => blk'[p].next # tail[s]
                         /\ p[1] = s /\ blk'[p].st = "cut" => p[2] < tail[s]
      BY <1>2, <2>1 DEF TailOk, IsWhole
    <2> QED
      BY <2>1, <2>3, <2>4, <2>5 DEF TailOk
  <1>3. ASSUME NEW s \in Seg, tail'[s] = Nil
        PROVE  TailOk(s)'
    BY <1>3 DEF TailOk
  <1>4. ASSUME NEW s \in Seg, NEW c \in Class, NEW a \in Addr, LinkOk(s, c, a)
        PROVE  a # flen[s]
    <2>1. CASE a = Nil
      BY <1>1, <2>1
    <2>2. CASE a # Nil
      <3>1. <<s, a>> \in Ptr /\ IsWhole(<<s, a>>)
        BY <1>4, <2>2 DEF LinkOk, Ptr
      <3>2. EndOf(<<s, a>>) <= flen[s]
        BY <1>0, <3>1 DEF NoOverlap
      <3>3. BlockLenV[blk[<<s, a>>].cls] \in Nat /\ a \in Nat
        BY <1>0, <3>1 DEF TypeOK, Block, Addr
      <3> QED
        BY <1>1, <3>2, <3>3 DEF EndOf
    <2> QED
      BY <2>1, <2>2
  <1>5. \A s \in Seg, c \in Class : free[s][c] # flen[s] /\ hdr[s].free[c] # flen[s]
    BY <1>0, <1>4 DEF LinksInClass, TypeOK
  <1>6. \A p \in Ptr : IsWhole(p) => blk[p].next # flen[p[1]]
    BY <1>0, <1>4 DEF LinksInClass, TypeOK, Block, Ptr
  <1>7. \A p \in Ptr : p[1] \in Seg /\ p[2] \in Addr /\ (blk[p].st = "cut" => p[2] < flen[p[1]])
    BY <1>0 DEF TailsLast, Ptr
  \* The segment that a blob is put in.
  <1>8. ASSUME NEW d \in Data, NEW c \in Class, NEW s \in Seg, Fills(d, c, s),
               blk'[Slot(s, c)] = Active(c, d),
               \A p \in Ptr : p # Slot(s, c) =>
                 blk'[p] = blk[p] \/ (IsActive(p) /\ blk'[p] = Released(p)),
               \A e \in Class : free'[s][e] \in {free[s][e], HeadAfter(s, c)} \cup
                                   {p[2] : p \in {q \in Ptr : q[1] = s /\ IsActive(q)}}
        PROVE  TailOk(s)'
    <2> SUFFICES ASSUME free[s][c] = Nil PROVE TailOk(s)'
      BY <1>3, <1>8 DEF Fills, TailAfter
    <2>1. tail'[s] = flen[s]
      BY <1>8 DEF Fills, TailAfter
    <2>2. /\ Slot(s, c) = <<s, flen[s]>> /\ <<s, flen[s]>> \in Ptr
          /\ HeadAfter(s, c) = Nil /\ FLenAfter(s, c) = flen[s] + BlockLenV[c] + Overhead
      BY <1>0, <1>8, FillFacts, ZenonT(40) DEF Slot, TypeOK, Ptr
    <2>3. /\ blk'[<<s, flen[s]>>].st = "active"
          /\ flen[s] + BlockLenV[blk'[<<s, flen[s]>>].cls] + Overhead = flen'[s]
      <3>1. blk'[<<s, flen[s]>>].st = "active" /\ blk'[<<s, flen[s]>>].cls = c
        BY <1>8, <2>2 DEF Active
      <3>2. flen'[s] = flen[s] + BlockLenV[c] + Overhead
        BY <1>0, <1>8, <2>2 DEF Fills, TypeOK
      <3> QED
        BY <3>1, <3>2
    <2>4. ASSUME NEW e \in Class PROVE free'[s][e] # flen[s]
      <3>1. ASSUME NEW p \in Ptr, p[1] = s, IsActive(p) PROVE p[2] # flen[s]
        <4>1. EndOf(p) <= flen[s] /\ p[2] \in Nat /\ BlockLenV[blk[p].cls] \in Nat
          BY <1>0, <3>1 DEF NoOverlap, IsActive, IsWhole, TypeOK, Block, Ptr, Addr
        <4> QED
          BY <1>1, <4>1 DEF EndOf
      <3> QED
        BY <1>1, <1>5, <1>8, <2>2, <3>1
    <2>5. ASSUME NEW e \in Class PROVE hdr'[s].free[e] # flen[s]
      <3>1. hdr'[s].free \in {hdr[s].free, NoHeads}
        BY <1>0, <1>8 DEF Fills, SegFilesAfter, TypeOK
      <3> QED
        BY <1>1, <1>5, <3>1 DEF NoHeads
    <2>6. ASSUME NEW p \in Ptr, p[1] = s, IsWhole(p)' PROVE blk'[p].next # flen[s]
      <3>1. CASE p = Slot(s, c)
        BY <1>1, <1>8, <3>1 DEF Active
      <3>2. CASE p # Slot(s, c) /\ blk'[p] = blk[p]
        BY <1>6, <2>6, <3>2 DEF IsWhole
      <3>3. CASE IsActive(p) /\ blk'[p] = Released(p)
        BY <1>0, <1>5, <2>6, <3>3, ReleasedFacts
      <3> QED
        BY <1>8, <3>1, <3>2, <3>3
    <2>7. ASSUME NEW p \in Ptr, p[1] = s, blk'[p].st = "cut" PROVE p[2] < flen[s]
      <3>1. CASE p = Slot(s, c)
        BY <1>8, <2>7, <3>1 DEF Active
      <3>2. CASE p # Slot(s, c) /\ blk'[p] = blk[p]
        BY <1>7, <2>7, <3>2
      <3>3. CASE IsActive(p) /\ blk'[p] = Released(p)
        BY <2>7, <3>3 DEF Released
      <3> QED
        BY <1>8, <3>1, <3>2, <3>3
    <2>8. IsActive(<<s, tail[s]>>)' /\ (EndOf(<<s, tail[s]>>) = flen[s])'
      <3>1. /\ blk'[<<s, tail'[s]>>].st = "active"
            /\ tail'[s] + BlockLenV[blk'[<<s, tail'[s]>>].cls] + Overhead = flen'[s]
        BY <2>1, <2>3
      <3> QED
        BY <3>1 DEF IsActive, EndOf
    <2>9. \A e \in Class : (free[s][e] # tail[s] /\ hdr[s].free[e] # tail[s])'
      BY <2>1, <2>4, <2>5
    <2>10. \A p \in Ptr : /\ p[1] = s /\ IsWhole(p)' => (blk[p].next # tail[s])'
                          /\ p[1] = s /\ blk'[p].st = "cut" => (p[2] < tail[s])'
      BY <2>1, <2>6, <2>7
    <2> QED
      BY <2>8, <2>9, <2>10 DEF TailOk
  <1>9. ASSUME NEW d \in Data, NEW c \in Class, NEW s \in Seg, FillOnly(d, c, s)
        PROVE  \A t \in Seg : TailOk(t)'
    <2>1. Slot(s, c) \in Ptr /\ Slot(s, c)[1] = s /\ Fills(d, c, s)
      BY <1>9, FillFacts DEF FillOnly
    <2>2. \A p \in Ptr : blk'[p] = IF p = Slot(s, c) THEN Active(c, d) ELSE blk[p]
      BY <1>0, <1>9, <2>1 DEF FillOnly, TypeOK
    <2>3. \A t \in Seg, e \in Class : free'[t][e] = IF t = s /\ e = c THEN HeadAfter(s, c) ELSE free[t][e]
      BY <1>0, <1>9 DEF FillOnly, TypeOK
    <2>4. ASSUME NEW t \in Seg, t # s
          PROVE  tail'[t] \in {tail[t], Nil} /\ flen'[t] = flen[t] /\ hdr'[t] = hdr[t]
      BY <1>0, <2>1, <2>4 DEF Fills, SegFilesAfter, TypeOK
    <2>5. TailOk(s)'
      BY <1>8, <2>1, <2>2, <2>3
    <2> QED
      BY <1>2, <2>1, <2>2, <2>3, <2>4, <2>5
  <1>10. ASSUME NEW p \in Ptr, NEW d \in Data, NEW c \in Class, NEW s \in Seg, Moves(p, d, c, s)
         PROVE  \A t \in Seg : TailOk(t)'
    <2>1. Slot(s, c) \in Ptr /\ Slot(s, c)[1] = s /\ Fills(d, c, s) /\ IsActive(p) /\ Slot(s, c) # p
      BY <1>10, FillFacts DEF Moves, IsActive
    <2>2. \A q \in Ptr : blk'[q] = IF q = Slot(s, c) THEN Active(c, d)
                                   ELSE IF q = p THEN Released(p) ELSE blk[q]
      BY <1>0, <1>10, <2>1 DEF Moves, TypeOK
    <2>3. \A t \in Seg, e \in Class : free'[t][e] = IF t = s /\ e = c THEN HeadAfter(s, c)
                                      ELSE IF t = p[1] /\ e = blk[p].cls THEN p[2] ELSE free[t][e]
      BY <1>0, <1>10, <2>1, ReleasedFacts DEF Moves, TypeOK
    <2>4. ASSUME NEW t \in Seg, t # s
          PROVE  tail'[t] \in {tail[t], Nil} /\ flen'[t] = flen[t] /\ hdr'[t] = hdr[t]
      BY <1>0, <2>1, <2>4 DEF Fills, SegFilesAfter, TypeOK
    <2>5. TailOk(s)'
      <3>1. \A q \in Ptr : q # Slot(s, c) =>
              blk'[q] = blk[q] \/ (IsActive(q) /\ blk'[q] = Released(q))
        BY <2>1, <2>2
      <3>2. \A e \in Class : free'[s][e] \in {free[s][e], HeadAfter(s, c)} \cup
                                   {q[2] : q \in {u \in Ptr : u[1] = s /\ IsActive(u)}}
        BY <2>1, <2>3
      <3> QED
        BY <1>8, <2>1, <2>2, <3>1, <3>2
    <2>6. ASSUME NEW t \in Seg, t # s, t = p[1] PROVE TailOk(t)'
      BY <1>3, <1>10, <2>6 DEF Moves
    <2>7. ASSUME NEW t \in Seg, t # s, t # p[1] PROVE TailOk(t)'
      <3>1. \A q \in Ptr : q[1] = t => blk'[q] = blk[q]
        BY <2>1, <2>2, <2>7
      <3>2. \A e \in Class : free'[t][e] = free[t][e]
        BY <2>3, <2>7
      <3> QED
        BY <1>2, <2>4, <2>7, <3>1, <3>2
    <2> QED
      BY <2>5, <2>6, <2>7
  <1>11. ASSUME NEW p \in Ptr, Releases(p) \/ \E d \in Data : UpdateInPlace(p, d)
         PROVE  /\ \A t \in Seg : TailOk(t)'
                /\ flen' = flen /\ \A q \in Ptr : blk'[q].st = "cut" => blk[q].st = "cut"
    <2>1. /\ tail'[p[1]] = Nil /\ \A t \in Seg : tail'[t] \in {tail[t], Nil}
          /\ \A t \in Seg : t # p[1] => free'[t] = free[t]
          /\ flen' = flen /\ hdr' = hdr /\ IsActive(p)
          /\ \A q \in Ptr : q # p => blk'[q] = blk[q]
          /\ blk'[p].st # "cut"
      <3>1. CASE Releases(p)
        BY <1>0, <3>1, ReleasedFacts DEF Releases, TypeOK, Released
      <3>2. ASSUME NEW d \in Data, UpdateInPlace(p, d)
            PROVE  <2>1
        BY <1>0, <3>2, ReleasedFacts DEF UpdateInPlace, TypeOK, Active
      <3> QED
        BY <1>11, <3>1, <3>2
    <2>2. ASSUME NEW t \in Seg, t # p[1] PROVE TailOk(t)'
      BY <1>2, <2>1, <2>2
    <2> QED
      BY <1>3, <2>1, <2>2
  <1>12. ASSUME Keeps \/ Opens
         PROVE  \A t \in Seg : TailOk(t)'
    <2>1. ASSUME NEW t \in Seg
          PROVE  /\ tail'[t] \in {tail[t], Nil} /\ flen'[t] = flen[t]
                 /\ {free'[t], hdr'[t].free} \subseteq {free[t], hdr[t].free}
      BY <1>0, <1>12 DEF Keeps, Opens, LoadSegs, TypeOK
    <2>2. \A q \in Ptr : blk'[q] = blk[q]
      BY <1>12 DEF Keeps, Opens
    <2>3. ASSUME NEW t \in Seg, NEW c \in Class
          PROVE  {free'[t][c], hdr'[t].free[c]} \subseteq {free[t][c], hdr[t].free[c], Nil}
      <3>1. free'[t] \in {free[t], hdr[t].free} /\ hdr'[t].free \in {free[t], hdr[t].free}
        BY <2>1
      <3> QED
        BY <3>1
    <2> QED
      BY <1>2, <2>1, <2>2, <2>3
  <1>13. ASSUME NEW L \in SUBSET Seg, Crash(L)
         PROVE  TailsLast'
    <2>1. \A t \in Seg : tail'[t] = Nil
      BY <1>13 DEF Crash
    <2>2. ASSUME NEW q \in Ptr, blk'[q].st = "cut" PROVE q[2] < flen'[q[1]]
      <3>1. CASE q[1] \in L
        <4>1. tail[q[1]] # Nil /\ flen'[q[1]] = CutLen(q[1])
          BY <1>7, <1>13, <3>1 DEF Crash
        <4>2. tail[q[1]] < CutLen(q[1]) /\ tail[q[1]] \in Nat /\ CutLen(q[1]) \in Nat
          BY <1>7, <4>1, CutFacts
        <4>3. q[2] = tail[q[1]] \/ blk[q].st = "cut"
          BY <1>13, <2>2 DEF Crash, Lost
        <4>4. blk[q].st = "cut" => q[2] < tail[q[1]]
          BY <1>0, <1>7, <4>1 DEF TailsLast, TailOk
        <4> QED
          BY <1>7, <4>1, <4>2, <4>3, <4>4 DEF Addr
      <3>2. CASE q[1] \notin L
        BY <1>7, <1>13, <2>2, <3>2 DEF Crash, Lost
      <3> QED
        BY <3>1, <3>2
    <2> QED
      BY <1>3, <2>1, <2>2 DEF TailsLast
  <1>14. ASSUME NEW d \in Data, NEW c \in Class, NEW s \in Seg, Fills(d, c, s)
         PROVE  \A t \in Seg : flen[t] <= flen'[t]
    <2>1. \A t \in Seg : flen'[t] = IF t = s THEN FLenAfter(s, c) ELSE flen[t]
      BY <1>0, <1>14 DEF Fills, TypeOK
    <2> QED
      BY <1>1, <1>14, <2>1, FillFacts
  <1>15. ASSUME \A t \in Seg : flen[t] <= flen'[t],
                \A q \in Ptr : blk'[q].st = "cut" => blk[q].st = "cut",
                \A t \in Seg : TailOk(t)'
         PROVE  TailsLast'
    <2>1. \A t \in Seg : flen'[t] \in Nat
      BY <1>0 DEF TypeOK, Addr
    <2>2. \A q \in Ptr : blk'[q].st = "cut" => q[2] < flen'[q[1]]
      BY <1>1, <1>7, <1>15, <2>1 DEF Addr
    <2> QED
      BY <1>15, <2>2 DEF TailsLast
  <1>16. ASSUME NEW d \in Data, NEW c \in Class, NEW s \in Seg, FillOnly(d, c, s)
         PROVE  TailsLast'
    <2>1. \A q \in Ptr : blk'[q].st = "cut" => blk[q].st = "cut"
      BY <1>0, <1>16, FillFacts DEF FillOnly, TypeOK, Active
    <2> QED
      BY <1>9, <1>14, <1>15, <1>16, <2>1 DEF FillOnly
  <1>17. ASSUME NEW p \in Ptr, NEW d \in Data, NEW c \in Class, NEW s \in Seg, Moves(p, d, c, s)
         PROVE  TailsLast'
    <2>2. Slot(s, c) \in Ptr /\ Slot(s, c) # p
      BY <1>17, FillFacts DEF Moves, IsActive
    <2>3. \A q \in Ptr : blk'[q] = IF q = Slot(s, c) THEN Active(c, d)
                                   ELSE IF q = p THEN Released(p) ELSE blk[q]
      BY <1>0, <1>17, <2>2 DEF Moves, TypeOK
    <2>4. Active(c, d).st = "active" /\ Released(p).st = "free"
      BY DEF Active, Released
    <2>1. \A q \in Ptr : blk'[q].st = "cut" => blk[q].st = "cut"
      BY <2>3, <2>4
    <2> QED
      BY <1>10, <1>14, <1>15, <1>17, <2>1 DEF Moves
  <1>18. ASSUME flen' = flen PROVE \A t \in Seg : flen[t] <= flen'[t]
    BY <1>1, <1>18
  <1>19. CASE Keeps \/ Opens
    BY <1>12, <1>15, <1>18, <1>19 DEF Keeps, Opens
  <1>20. ASSUME NEW p \in Ptr, Releases(p) \/ \E d \in Data : UpdateInPlace(p, d)
         PROVE  TailsLast'
    BY <1>11, <1>15, <1>18, <1>20
  <1> QED
    BY <1>13, <1>16, <1>17, <1>19, <1>20, Shapes

(***************************************************************************)
(* The theorems.                                                           *)
(***************************************************************************)
LEMMA InitIInv == Init => IInv
  <1> SUFFICES ASSUME Init PROVE IInv
    OBVIOUS
  <1> USE SizesAssumption, SegmentAssumption
  <1>1. NoBlock \in Block /\ NoHeads \in [Class -> Addr] /\ 0 \in Seg /\ HdrLen \in Addr /\ Nil \in Addr
    BY DEF NoBlock, Block, NoHeads, Nil, Addr, Class, Seg
  <1> DEFINE H == [state : {"none", "opened", "closed"}, free : [Class -> Addr]]
  <1>8. \A s \in Seg : [state |-> IF s = 0 THEN "opened" ELSE "none", free |-> NoHeads] \in H
    BY <1>1
  <1>9. hdr \in [Seg -> H]
    BY <1>8 DEF Init
  <1>2. TypeOK
    <2>1. /\ blk \in [Ptr -> Block] /\ flen \in [Seg -> Addr] /\ tail \in [Seg -> Addr]
          /\ free \in [Seg -> [Class -> Addr]] /\ hint \in [Class -> Seg]
      BY <1>1 DEF Init
    <2>2. nSegs \in 1..MaxSegs /\ main \in 1..MaxSegs
      BY DEF Init
    <2> QED
      BY <1>9, <2>1, <2>2 DEF Init, TypeOK
  <1>3. \A p \in Ptr : blk[p].st = "none"
    BY DEF Init, NoBlock
  <1>4. \A s \in Seg, c \in Class : free[s][c] = Nil /\ hdr[s].free[c] = Nil
    BY DEF Init, NoHeads
  <1>5. ActiveHasData /\ LinksInClass /\ NoOverlap /\ FreeListsSafe
    BY <1>3, <1>4 DEF ActiveHasData, IsActive, IsWhole, LinksInClass, LinkOk, NoOverlap, FreeListsSafe
  <1>6. FilesSound
    BY DEF Init, FilesSound, Live, Seg
  <1>10. TailsLast
    BY <1>3 DEF Init, TailsLast, TailOk
  <1>7. HintSound
    BY <1>1 DEF Init, HintSound
  <1> QED
    BY <1>2, <1>5, <1>6, <1>7, <1>10 DEF IInv

LEMMA IInvStep == IInv /\ [Next]_vars => IInv'
  BY TypeStep, ActiveHasDataStep, LinksInClassStep, NoOverlapStep,
     FreeListsSafeStep, FilesSoundStep, TailsLastStep, HintSoundStep DEF IInv

\* Everything puts, updates, deletes, closing, crashes and restores rely on holds
\* in every reachable state.
THEOREM IInvInvariant == Spec => []IInv
  BY InitIInv, IInvStep, PTL DEF Spec

\* Type correctness: addresses never leave the range of a 32-bit file
\* position, hints and counts stay in range.
THEOREM TypeCorrect == Spec => []TypeOK
  BY IInvInvariant, PTL DEF IInv

\* Blocks do not overlap and lie inside their file, whatever was released, reused, moved,
\* restored; a crash may cut the block at the end of a file, and what is appended there
\* after the restore runs into no block but the cut one.
THEOREM BlocksDoNotOverlap == Spec => []NoOverlap
  BY IInvInvariant, PTL DEF IInv

\* A free list never hands out a block that is too small, not even when a
\* restored base starts from the outdated heads of its last close.
THEOREM ReusedBlocksFit == Spec => []LinksInClass
  BY IInvInvariant, PTL DEF IInv

\* Until a restore, the assertion that a reused block is free never fails, so
\* no update loses its blob half way.
THEOREM NoUpdateThrows == Spec => []ThrowsOnlyAfterRestore
  <1>1. IInv => ThrowsOnlyAfterRestore
    BY NoThrow DEF ThrowsOnlyAfterRestore
  <1> QED
    BY <1>1, IInvInvariant, PTL

\* No hint skips a segment that could take the blob.
THEOREM HintsAreSound == Spec => []HintSound
  BY IInvInvariant, PTL DEF IInv

\* A base that faUpdate accepts is complete, at whatever point of the closing
\* sequence the process died.
THEOREM CleanOpenIsComplete == Spec => []CleanOpenSeesAll
  <1>1. IInv => CleanOpenSeesAll
    <2> SUFFICES ASSUME IInv, mode # "open", \A s \in 0..main-1 : hdr[s].state = "closed"
                 PROVE  main = nSegs /\ \A s \in Live : hdr[s].free = free[s]
      BY DEF CleanOpenSeesAll
    <2> USE SegmentAssumption
    <2>1. TypeOK /\ FilesSound
      BY DEF IInv
    <2>2. hdr[0].state = "closed"
      BY <2>1 DEF TypeOK
    <2>3. main = nSegs
      BY <2>1, <2>2 DEF FilesSound, TypeOK
    <2>4. \A s \in Live : s \in Seg /\ hdr[s].state = "closed"
      BY <2>1, <2>3 DEF TypeOK, Live, Seg
    <2> QED
      BY <2>1, <2>3, <2>4 DEF FilesSound
  <1> QED
    BY <1>1, IInvInvariant, PTL

\* The blob base implements a map from pointers to data (BlobStore): operations, closing and
\* opening do what the map's do, and a crash takes nothing but blobs at the end of their files.
THEOREM BlobBsImplementsBlobStore == Spec => ImplementsBlobStore
  <1> USE SegmentAssumption, DataAssumption
  <1>1. Init => Abs!Init
    BY DEF Init, Abs!Init, Contents, IsActive, NoBlock
  <1>2. ASSUME IInv, [Next]_vars PROVE [Abs!Next \/ LosesTheLast]_Contents
    <2>0. TypeOK /\ ActiveHasData
      BY <1>2 DEF IInv
    <2>1. ASSUME NEW p \in Ptr
          PROVE  /\ Contents[p] = IF IsActive(p) THEN blk[p].dat ELSE NoData
                 /\ Contents'[p] = IF blk'[p].st = "active" THEN blk'[p].dat ELSE NoData
                 /\ p \in Abs!Stored <=> IsActive(p)
      BY <2>0, <2>1 DEF Contents, ActiveHasData, IsActive, Abs!Stored
    <2>2. /\ DOMAIN Contents = Ptr /\ DOMAIN Contents' = Ptr
          /\ Contents = [p \in Ptr |-> Contents[p]]
          /\ Contents' = [p \in Ptr |-> Contents'[p]]
      BY DEF Contents
    <2>12. ASSUME NEW L \in SUBSET Seg, Crash(L)
           PROVE  LosesTheLast
      <3>1. \A p \in Lost(L) : p \in Ptr /\ IsActive(p) /\ EndOf(p) = flen[p[1]]
        BY <1>2, <2>12, CrashFacts
      <3>6. \A p \in Ptr : Contents'[p] = IF p \in Lost(L) THEN NoData ELSE Contents[p]
        <4>1. ASSUME NEW p \in Ptr, p \in Lost(L) PROVE blk'[p].st = "cut"
          BY <1>2, <2>12, <4>1, CrashFacts
        <4>2. ASSUME NEW p \in Ptr, p \notin Lost(L) PROVE blk'[p] = blk[p]
          BY <1>2, <2>12, <4>2, CrashFacts
        <4> QED
          BY <2>1, <4>1, <4>2 DEF IsActive
      <3>2. Contents' = [p \in Ptr |-> IF p \in Lost(L) THEN NoData ELSE Contents[p]]
        BY <2>2, <3>6
      <3>3. Abs!Lose(Lost(L))
        BY <3>2 DEF Abs!Lose
      <3> DEFINE X == {p \in Ptr : IsActive(p) /\ EndOf(p) = flen[p[1]]}
      <3>4. Lost(L) \in SUBSET X
        BY <3>1
      <3>5. mode' = "crashed"
        BY <2>12 DEF Crash
      <3> QED
        BY <3>3, <3>4, <3>5 DEF LosesTheLast
    <2> HIDE DEF Contents
    <2>3. ASSUME NEW d \in Data, NEW c \in Class, NEW s \in Seg, FillOnly(d, c, s)
          PROVE  Abs!Next
      <3> DEFINE q == Slot(s, c)
      <3>1. q \in Ptr /\ ~IsActive(q)
        BY <1>2, <2>3, FillFacts DEF FillOnly, IsActive
      <3>2. \A p \in Ptr : blk'[p] = IF p = q THEN Active(c, d) ELSE blk[p]
        BY <2>0, <2>3, <3>1 DEF FillOnly, TypeOK
      <3> HIDE DEF q
      <3>3. \A p \in Ptr : Contents'[p] = IF p = q THEN d ELSE Contents[p]
        BY <2>1, <3>2 DEF Active, IsActive
      <3>4. Contents' = [Contents EXCEPT ![q] = d]
        BY <2>2, <3>1, <3>3
      <3>5. Abs!Put(q, d)
        BY <2>1, <2>3, <3>1, <3>4 DEF FillOnly, Fills, Abs!Put
      <3> QED
        BY <3>1, <3>5 DEF Abs!Next
    <2>4. ASSUME NEW p \in Ptr, NEW d \in Data, UpdateInPlace(p, d)
          PROVE  Abs!Next
      <3>1. \A q \in Ptr : blk'[q] = IF q = p THEN Active(blk[p].cls, d) ELSE blk[q]
        BY <2>0, <2>4 DEF UpdateInPlace, TypeOK
      <3>2. \A q \in Ptr : Contents'[q] = IF q = p THEN d ELSE Contents[q]
        BY <2>1, <3>1 DEF Active, IsActive
      <3>3. Contents' = [Contents EXCEPT ![p] = NoData, ![p] = d]
        BY <2>2, <3>2
      <3>4. Abs!Update(p, p, d)
        BY <2>1, <2>4, <3>3 DEF UpdateInPlace, Abs!Update
      <3> QED
        BY <3>4 DEF Abs!Next
    <2>5. ASSUME NEW p \in Ptr, NEW d \in Data, NEW c \in Class, NEW s \in Seg,
                 Moves(p, d, c, s)
          PROVE  Abs!Next
      <3> DEFINE q == Slot(s, c)
      <3>1. q \in Ptr /\ ~IsActive(q) /\ IsActive(p) /\ q # p
        BY <1>2, <2>5, FillFacts DEF Moves, IsActive
      <3>2. \A u \in Ptr : blk'[u] = IF u = q THEN Active(c, d)
                                     ELSE IF u = p THEN Released(p) ELSE blk[u]
        BY <2>0, <2>5, <3>1 DEF Moves, TypeOK
      <3> HIDE DEF q
      <3>3. \A u \in Ptr : Contents'[u] = IF u = q THEN d ELSE
                                          IF u = p THEN NoData ELSE Contents[u]
        BY <2>1, <3>1, <3>2 DEF Active, IsActive, Released
      <3>4. Contents' = [Contents EXCEPT ![p] = NoData, ![q] = d]
        BY <2>2, <3>1, <3>3
      <3>5. Abs!Update(p, q, d)
        BY <2>1, <2>5, <3>1, <3>4 DEF Moves, Fills, Abs!Update
      <3> QED
        BY <3>1, <3>5 DEF Abs!Next
    <2>6. ASSUME NEW p \in Ptr, Releases(p)
          PROVE  Abs!Del(p)
      <3>1. \A q \in Ptr : blk'[q] = IF q = p THEN Released(p) ELSE blk[q]
        BY <2>0, <2>6 DEF Releases, TypeOK
      <3>2. \A q \in Ptr : Contents'[q] = IF q = p THEN NoData ELSE Contents[q]
        BY <2>1, <3>1 DEF Released, IsActive
      <3>3. Contents' = [Contents EXCEPT ![p] = NoData]
        BY <2>2, <3>2
      <3> QED
        BY <2>1, <2>6, <3>3 DEF Releases, Abs!Del
    <2>7. ASSUME NEW p \in Ptr, DelBlob(p), Releases(p)
          PROVE  Abs!Next
      BY <2>6, <2>7 DEF Abs!Next
    <2>8. ASSUME NEW p \in Ptr, NEW d \in Data, NEW c \in Class, NEW s \in Seg,
                 UpdateThrows(p, d, c, s), Releases(p)
          PROVE  Abs!Next
      BY <2>6, <2>8 DEF Abs!Next
    <2>9. ASSUME UNCHANGED blk PROVE Contents' = Contents
      BY <2>9 DEF Contents, IsActive
    <2>10. CASE Keeps
      BY <2>9, <2>10 DEF Keeps
    <2>11. CASE Opens
      BY <2>9, <2>11 DEF Opens
    <2> QED
      BY <1>2, <2>3, <2>4, <2>5, <2>7, <2>8, <2>10, <2>11, <2>12, Shapes
  <1> QED
    BY <1>1, <1>2, IInvInvariant, PTL DEF Spec, ImplementsBlobStore

(***************************************************************************)
(* The free lists are complete.  A list is a chain of links of any length; *)
(* what it reaches is said without a length: every set that has the head   *)
(* of the list and, with a free block, its link, has all free blocks of    *)
(* the class.                                                              *)
(***************************************************************************)
FreeOf(b, s, c) == {a \in Addr : b[<<s, a>>].st = "free" /\ b[<<s, a>>].cls = c}
Closed(b, s, head, X) ==
  /\ head # Nil => head \in X
  /\ \A a \in X : b[<<s, a>>].st = "free" /\ b[<<s, a>>].next # Nil => b[<<s, a>>].next \in X
Linked(b, f) ==
  \A s \in Seg, c \in Class : \A X \in SUBSET Addr :
    Closed(b, s, f[s][c], X) => FreeOf(b, s, c) \subseteq X

LEMMA PushLinked ==
  ASSUME NEW b \in [Ptr -> Block], NEW f \in [Seg -> [Class -> Addr]], Linked(b, f),
         NEW p \in Ptr, b[p].st = "active", p[2] # Nil, NEW r \in Block,
         r = [st |-> "free", cls |-> b[p].cls, next |-> f[p[1]][b[p].cls], dat |-> NoData]
  PROVE  Linked([b EXCEPT ![p] = r], [f EXCEPT ![p[1]][b[p].cls] = p[2]])
  <1> DEFINE k  == b[p].cls
             b1 == [b EXCEPT ![p] = r]
             f1 == [f EXCEPT ![p[1]][k] = p[2]]
  <1>1. p[1] \in Seg /\ p[2] \in Addr /\ p = <<p[1], p[2]>> /\ k \in Class
    BY DEF Ptr, Block
  <1>2. \A s \in Seg, c \in Class : f1[s][c] = IF s = p[1] /\ c = k THEN p[2] ELSE f[s][c]
    BY <1>1
  <1>3. \A q \in Ptr : b1[q] = IF q = p THEN r ELSE b[q]
    OBVIOUS
  <1>4. \A s \in Seg, a \in Addr : <<s, a>> \in Ptr /\ (<<s, a>> = p <=> s = p[1] /\ a = p[2])
    BY <1>1 DEF Ptr
  <1> HIDE DEF b1, f1
  <1>5. ASSUME NEW s \in Seg, NEW c \in Class, NEW X \in SUBSET Addr, Closed(b1, s, f1[s][c], X)
        PROVE  FreeOf(b1, s, c) \subseteq X
    <2>1. \A a \in X : b[<<s, a>>].st = "free" /\ b[<<s, a>>].next # Nil => b[<<s, a>>].next \in X
      BY <1>3, <1>4, <1>5 DEF Closed
    <2>2. CASE s = p[1] /\ c = k
      <3>1. p[2] \in X
        BY <1>2, <1>5, <2>2 DEF Closed
      <3>2. f[s][c] # Nil => f[s][c] \in X
        <4>1. b1[<<s, p[2]>>] = r
          BY <1>1, <1>3, <2>2
        <4>2. r.st = "free" /\ r.next = f[s][c]
          BY <2>2 DEF k
        <4>3. b1[<<s, p[2]>>].st = "free" /\ b1[<<s, p[2]>>].next # Nil => b1[<<s, p[2]>>].next \in X
          BY <1>5, <3>1 DEF Closed
        <4> QED BY <4>1, <4>2, <4>3
      <3>3. FreeOf(b, s, c) \subseteq X
        BY <2>1, <3>2 DEF Linked, Closed
      <3> QED BY <1>3, <1>4, <3>1, <3>3 DEF FreeOf
    <2>3. CASE ~(s = p[1] /\ c = k)
      <3>1. f1[s][c] = f[s][c]
        BY <1>2, <2>3
      <3>2. FreeOf(b, s, c) \subseteq X
        BY <1>5, <2>1, <3>1 DEF Linked, Closed
      <3> QED BY <1>3, <1>4, <2>3, <3>2 DEF FreeOf
    <2> QED BY <2>2, <2>3
  <1> QED BY <1>5 DEF Linked, b1, f1, k

LEMMA FillLinked ==
  ASSUME NEW b \in [Ptr -> Block], NEW f \in [Seg -> [Class -> Addr]], Good(b, f), Linked(b, f),
         NEW s \in Seg, NEW c \in Class, NEW q \in Ptr, NEW h, NEW r \in Block,
         f[s][c] # Nil => q = <<s, f[s][c]>> /\ h = b[q].next,
         f[s][c] = Nil => b[q].st = "none" /\ h = Nil,
         q[1] = s, r.st = "active"
  PROVE  Linked([b EXCEPT ![q] = r], [f EXCEPT ![s][c] = h])
  <1> DEFINE b1 == [b EXCEPT ![q] = r]
             f1 == [f EXCEPT ![s][c] = h]
  <1>1. \A t \in Seg, e \in Class : f1[t][e] = IF t = s /\ e = c THEN h ELSE f[t][e]
    OBVIOUS
  <1>2. \A u \in Ptr : b1[u] = IF u = q THEN r ELSE b[u]
    OBVIOUS
  <1>3. q[2] \in Addr /\ q = <<s, q[2]>>
    BY DEF Ptr
  <1>4. \A t \in Seg, a \in Addr : <<t, a>> \in Ptr /\ (<<t, a>> = q <=> t = s /\ a = q[2])
    BY <1>3 DEF Ptr
  <1>5. f[s][c] # Nil => b[q].st = "free" /\ b[q].cls = c
    BY DEF Good
  <1> HIDE DEF b1, f1
  <1>6. ASSUME NEW t \in Seg, NEW e \in Class, NEW X \in SUBSET Addr, Closed(b1, t, f1[t][e], X)
        PROVE  FreeOf(b1, t, e) \subseteq X
    <2>1. FreeOf(b1, t, e) \subseteq FreeOf(b, t, e) \ (IF t = s THEN {q[2]} ELSE {})
      BY <1>2, <1>4 DEF FreeOf
    <2>2. CASE t # s
      <3>1. Closed(b, t, f[t][e], X)
        BY <1>1, <1>2, <1>4, <1>6, <2>2 DEF Closed
      <3> QED BY <2>1, <2>2, <3>1 DEF Linked
    <2>3. CASE t = s /\ e = c /\ f[s][c] # Nil
      <3> DEFINE Y == X \cup {q[2]}
      <3>1. f[s][c] = q[2] /\ f1[t][e] = b[q].next
        BY <1>1, <1>3, <2>3
      <3>2. Closed(b, s, f[s][c], Y)
        BY <1>2, <1>3, <1>4, <1>6, <2>3, <3>1 DEF Closed
      <3>3. FreeOf(b, s, c) \subseteq Y
        <4>1. Y \in SUBSET Addr
          BY <1>3
        <4> HIDE DEF Y
        <4> QED BY <3>2, <4>1 DEF Linked
      <3> QED BY <2>1, <2>3, <3>3
    <2>4. CASE t = s /\ e = c /\ f[s][c] = Nil
      <3>1. Closed(b, s, f[s][c], X)
        BY <1>2, <1>4, <1>6, <2>4 DEF Closed
      <3>2. FreeOf(b, s, c) \subseteq X
        BY <3>1 DEF Linked
      <3> QED BY <2>1, <2>4, <3>2
    <2>5. CASE t = s /\ e # c
      \* The chain of another class does not go through q: leave q out of X.
      <3> DEFINE Y == {a \in X : b[<<s, a>>].st = "free" /\ b[<<s, a>>].cls = e}
      <3>1. f1[t][e] = f[s][e]
        BY <1>1, <2>5
      <3>2. f[s][e] # Nil => f[s][e] \in Y
        BY <1>6, <2>5, <3>1 DEF Closed, Good
      <3>3. ASSUME NEW a \in Y, b[<<s, a>>].next # Nil
            PROVE  b[<<s, a>>].next \in Y
        <4>1. a \in Addr /\ <<s, a>> \in Ptr /\ b[<<s, a>>].st = "free" /\ b[<<s, a>>].cls = e /\ <<s, a>> # q
          BY <1>4, <1>5, <2>5, <3>3
        <4>2. b1[<<s, a>>] = b[<<s, a>>]
          BY <1>2, <4>1
        <4>3. b[<<s, a>>].next \in X
          BY <1>6, <2>5, <3>3, <4>1, <4>2 DEF Closed
        <4>4. b[<<s, b[<<s, a>>].next>>].st = "free" /\ b[<<s, b[<<s, a>>].next>>].cls = e
          BY <3>3, <4>1 DEF Good
        <4> QED BY <4>3, <4>4
      <3>4. Closed(b, s, f[s][e], Y)
        BY <3>2, <3>3 DEF Closed
      <3>5. FreeOf(b, s, e) \subseteq Y
        BY <3>4, ZenonT(40) DEF Linked
      <3> QED BY <2>1, <2>5, <3>5
    <2> QED BY <2>2, <2>3, <2>4, <2>5
  <1> QED BY <1>6 DEF Linked, b1, f1

LEMMA LinkedStep ==
  ASSUME IInv, ~tainted => Linked(blk, free), [Next]_vars, ~tainted'
  PROVE  Linked(blk', free')
  <1> USE SegmentAssumption
  <1>0. TypeOK /\ LinksInClass /\ FreeListsSafe /\ FilesSound /\ NoOverlap /\ TypeOK'
    BY TypeStep DEF IInv
  <1>1. blk \in [Ptr -> Block] /\ free \in [Seg -> [Class -> Addr]]
    BY <1>0 DEF TypeOK
  <1>2. ~tainted => Good(blk, free)
    <2>1. ~tainted => \A s \in Seg, c \in Class : free[s][c] # Nil =>
            blk[<<s, free[s][c]>>].st = "free" /\ blk[<<s, free[s][c]>>].cls = c
      BY <1>0 DEF FreeListsSafe, LinksInClass, LinkOk
    <2>2. \A p \in Ptr : blk[p].st = "free" /\ blk[p].next # Nil =>
            blk[<<p[1], blk[p].next>>].cls = blk[p].cls
      BY <1>0 DEF LinksInClass, LinkOk, IsWhole
    <2> QED BY <1>0, <2>1, <2>2 DEF Good, FreeListsSafe
  <1>3. ASSUME NEW d \in Data, NEW c \in Class, NEW s \in Seg, FillOnly(d, c, s)
        PROVE  Linked(blk', free')
    <2>1. ~tainted /\ Active(c, d) \in Block /\ Active(c, d).st = "active"
      BY <1>3, ActiveIsBlock DEF FillOnly, Fills, Active
    <2>2. /\ Slot(s, c) \in Ptr /\ Slot(s, c)[1] = s
          /\ free[s][c] # Nil => Slot(s, c) = <<s, free[s][c]>>
                                 /\ HeadAfter(s, c) = blk[Slot(s, c)].next
          /\ free[s][c] = Nil => blk[Slot(s, c)].st = "none" /\ HeadAfter(s, c) = Nil
      BY <1>3, FillFacts DEF FillOnly, Slot
    <2> QED BY <1>1, <1>2, <1>3, <2>1, <2>2, FillLinked DEF FillOnly
  <1>4. ASSUME NEW p \in Ptr, IsActive(p), ~tainted
        PROVE  /\ Linked([blk EXCEPT ![p] = Released(p)], [free EXCEPT ![p[1]][blk[p].cls] = p[2]])
               /\ Good([blk EXCEPT ![p] = Released(p)], [free EXCEPT ![p[1]][blk[p].cls] = p[2]])
    <2>1. /\ Released(p) \in Block
          /\ Released(p) = [st |-> "free", cls |-> blk[p].cls,
                            next |-> free[p[1]][blk[p].cls], dat |-> NoData]
      BY <1>0, <1>4, ReleasedFacts
    <2>2. p[2] # Nil
      BY <1>0, <1>4 DEF NoOverlap, IsActive, IsWhole, Nil
    <2>3. blk[p].st = "active"
      BY <1>4 DEF IsActive
    <2> QED BY <1>1, <1>2, <1>4, <2>1, <2>2, <2>3, PushGood, PushLinked
  <1>5. ASSUME NEW p \in Ptr, Releases(p)
        PROVE  Linked(blk', free')
    BY <1>4, <1>5 DEF Releases
  <1>6. ASSUME NEW p \in Ptr, NEW d \in Data, NEW c \in Class, NEW s \in Seg,
               Moves(p, d, c, s)
        PROVE  Linked(blk', free')
    <2> DEFINE b == [blk EXCEPT ![p] = Released(p)]
               f == [free EXCEPT ![p[1]][blk[p].cls] = p[2]]
    <2>1. ~tainted /\ Active(c, d) \in Block /\ Active(c, d).st = "active"
      BY <1>6, ActiveIsBlock DEF Moves, Fills, Active
    <2>2. Good(b, f) /\ Linked(b, f)
      BY <1>4, <1>6, <2>1 DEF Moves
    <2>3. /\ p[1] \in Seg /\ p[2] \in Addr /\ blk[p].cls \in Class /\ Released(p) \in Block
      BY <1>0, <1>6, ReleasedFacts DEF Moves
    <2>4. b \in [Ptr -> Block] /\ f \in [Seg -> [Class -> Addr]]
      BY <1>1, <2>3
    <2>5. /\ Slot(s, c) \in Ptr /\ Slot(s, c) # p /\ Slot(s, c)[1] = s
          /\ free[s][c] # Nil => Slot(s, c) = <<s, free[s][c]>>
                                 /\ HeadAfter(s, c) = blk[Slot(s, c)].next
          /\ free[s][c] = Nil => blk[Slot(s, c)].st = "none" /\ HeadAfter(s, c) = Nil
      BY <1>6, FillFacts DEF Moves, Slot, IsActive
    <2>6. f[s][c] = free[s][c] /\ b[Slot(s, c)] = blk[Slot(s, c)]
      BY <1>1, <1>6, <2>3, <2>5 DEF Moves
    <2>7. /\ blk' = [b EXCEPT ![Slot(s, c)] = Active(c, d)]
          /\ free' = [f EXCEPT ![s][c] = HeadAfter(s, c)]
      BY <1>6 DEF Moves
    <2> HIDE DEF b, f
    <2>8. Linked([b EXCEPT ![Slot(s, c)] = Active(c, d)], [f EXCEPT ![s][c] = HeadAfter(s, c)])
      BY <2>1, <2>2, <2>4, <2>5, <2>6, FillLinked
    <2> QED BY <2>7, <2>8
  <1>7. ASSUME NEW p \in Ptr, NEW d \in Data, UpdateInPlace(p, d)
        PROVE  Linked(blk', free')
    <2>1. \A q \in Ptr : blk'[q].st = blk[q].st /\ blk'[q].cls = blk[q].cls
                         /\ (blk[q].st = "free" => blk'[q].next = blk[q].next)
      BY <1>1, <1>7 DEF UpdateInPlace, IsActive, Active
    <2>2. free' = free /\ Linked(blk, free)
      BY <1>7 DEF UpdateInPlace
    <2>3. \A s \in Seg, a \in Addr : <<s, a>> \in Ptr
      BY DEF Ptr
    <2>4. ASSUME NEW s \in Seg, NEW c \in Class, NEW X \in SUBSET Addr, Closed(blk', s, free[s][c], X)
          PROVE  Closed(blk, s, free[s][c], X)
      BY <2>1, <2>3, <2>4 DEF Closed
    <2>5. \A s \in Seg, c \in Class : FreeOf(blk', s, c) = FreeOf(blk, s, c)
      BY <2>1, <2>3 DEF FreeOf
    <2> QED BY <2>2, <2>4, <2>5 DEF Linked
  <1>8. CASE Keeps
    BY <1>8 DEF Keeps
  <1>20. ASSUME NEW L \in SUBSET Seg, Crash(L)
         PROVE  /\ UNCHANGED <<free, tainted>>
                /\ \A q \in Ptr : /\ blk'[q].cls = blk[q].cls /\ blk'[q].next = blk[q].next
                                  /\ blk'[q].st = "free" <=> blk[q].st = "free"
    <2>1. ASSUME NEW q \in Ptr
          PROVE  /\ blk'[q].cls = blk[q].cls /\ blk'[q].next = blk[q].next
                 /\ blk'[q].st = "free" <=> blk[q].st = "free"
      <3>1. CASE q \in Lost(L)
        BY <1>20, <3>1, CrashFacts DEF IsActive
      <3>2. CASE q \notin Lost(L)
        BY <1>20, <3>2, CrashFacts
      <3> QED
        BY <3>1, <3>2
    <2>2. UNCHANGED <<free, tainted>>
      BY <1>20, CrashFacts
    <2> QED
      BY <2>1, <2>2
  <1>10. ASSUME NEW L \in SUBSET Seg, Crash(L)
         PROVE  Linked(blk', free')
    <2>1. \A q \in Ptr : /\ blk'[q].cls = blk[q].cls /\ blk'[q].next = blk[q].next
                         /\ blk'[q].st = "free" <=> blk[q].st = "free"
      BY <1>10, <1>20
    <2>2. free' = free /\ Linked(blk, free)
      BY <1>10, <1>20
    <2>3. \A s \in Seg, a \in Addr : <<s, a>> \in Ptr
      BY DEF Ptr
    <2>4. ASSUME NEW s \in Seg, NEW c \in Class, NEW X \in SUBSET Addr, Closed(blk', s, free[s][c], X)
          PROVE  Closed(blk, s, free[s][c], X)
      BY <2>1, <2>3, <2>4 DEF Closed
    <2>5. \A s \in Seg, c \in Class : FreeOf(blk', s, c) = FreeOf(blk, s, c)
      BY <2>1, <2>3 DEF FreeOf
    <2> QED BY <2>2, <2>4, <2>5 DEF Linked
  <1>9. CASE Opens
    <2>1. ~tainted /\ \A s \in Live : hdr[s].state = "closed"
      BY <1>9 DEF Opens
    <2>2. \A s \in Seg : s < nSegs => s \in Live
      BY <1>0 DEF Live, Seg, TypeOK
    <2>3. \A s \in Seg : free'[s] = free[s]
      BY <1>0, <1>9, <2>1, <2>2 DEF Opens, LoadSegs, FilesSound
    <2>4. \A s \in Seg, c \in Class : free'[s][c] = free[s][c]
      BY <2>3
    <2> QED BY <1>9, <2>1, <2>4 DEF Linked, Opens
  <1> QED BY <1>3, <1>5, <1>6, <1>7, <1>8, <1>9, <1>10, Shapes

(***************************************************************************)
(* The chain of the code's links, which Chain walks step by step.          *)
(***************************************************************************)
\* Induction over the natural numbers, and a function that iterates T.
LEMMA Induct ==
  ASSUME NEW S, 0 \in S, \A n \in Nat : n \in S => n + 1 \in S
  PROVE  Nat \subseteq S
  <1> DEFINE Less == OpToRel(<, Nat)
  <1> SUFFICES ASSUME Nat \ S # {} PROVE FALSE
    OBVIOUS
  <1>1. IsWellFoundedOn(Less, Nat)
    BY NatLessThanWellFounded
  <1>2. \A m, n \in Nat : <<m, n>> \in Less <=> m < n
    BY DEF OpToRel
  <1> HIDE DEF Less
  <1>3. Nat \ S \in SUBSET Nat
    OBVIOUS
  <1>4. PICK n \in Nat \ S : \A m \in Nat \ S : ~(<<m, n>> \in Less)
    BY <1>1, <1>3, WFMin
  <1>5. n \in Nat /\ n # 0 /\ n - 1 \in Nat /\ n - 1 < n /\ n - 1 + 1 = n
    BY <1>4
  <1>6. n - 1 \in S
    BY <1>2, <1>4, <1>5
  <1> QED BY <1>4, <1>5, <1>6

LEMMA Iterates ==
  ASSUME NEW R, NEW b \in R, NEW T \in [R -> R], NEW N \in Nat
  PROVE  \E g \in [0..N -> R] : g = [n \in 0..N |-> IF n = 0 THEN b ELSE T[g[n - 1]]]
  <1> DEFINE Is(g, m) == g \in [0..m -> R] /\ \A n \in 0..m : g[n] = IF n = 0 THEN b ELSE T[g[n - 1]]
             S == {m \in Nat : \E g : Is(g, m)}
  <1>1. 0 \in S
    <2>1. Is([n \in 0..0 |-> b], 0)
      OBVIOUS
    <2> QED BY <2>1
  <1>2. ASSUME NEW m \in Nat, m \in S PROVE m + 1 \in S
    <2>1. PICK g : Is(g, m)
      BY <1>2
    <2> DEFINE h == [n \in 0..m + 1 |-> IF n = m + 1 THEN T[g[m]] ELSE g[n]]
    <2>2. g[m] \in R /\ T[g[m]] \in R
      BY <2>1
    <2>3. h \in [0..m + 1 -> R]
      BY <2>1, <2>2
    <2>4. ASSUME NEW n \in 0..m + 1 PROVE h[n] = IF n = 0 THEN b ELSE T[h[n - 1]]
      <3>1. CASE n = m + 1
        <4>1. m + 1 # 0 /\ n - 1 = m /\ m \in 0..m + 1 /\ m # m + 1
          BY <3>1
        <4> QED BY <3>1, <4>1
      <3>2. CASE n # m + 1
        <4>1. n \in 0..m /\ (n # 0 => n - 1 \in 0..m + 1 /\ n - 1 # m + 1)
          BY <3>2
        <4> QED BY <2>1, <3>2, <4>1
      <3> QED BY <3>1, <3>2
    <2>5. Is(h, m + 1)
      BY <2>3, <2>4
    <2> HIDE DEF h, Is
    <2> QED BY <2>5
  <1> HIDE DEF S
  <1>3. Nat \subseteq S
    BY <1>1, <1>2, Induct
  <1>4. PICK g : Is(g, N)
    BY <1>3 DEF S
  <1>5. g = [n \in 0..N |-> IF n = 0 THEN b ELSE T[g[n - 1]]]
    BY <1>4
  <1> QED BY <1>4, <1>5

\* What Chain walks: the head, and at each step the links of what was met.
Heads(s, c) == {free[s][c]} \ {Nil}
Links(s, X) == {blk[<<s, a>>].next : a \in X} \ {Nil}

LEMMA ChainIs ==
  ASSUME TypeOK, NEW s \in Seg, NEW c \in Class
  PROVE  \E g \in [0..AddrMx -> SUBSET (Addr \ {Nil})] :
           /\ \A n \in 0..AddrMx : g[n] = IF n = 0 THEN Heads(s, c) ELSE g[n - 1] \cup Links(s, g[n - 1])
           /\ Chain(s, c) = g[AddrMx]
  <1> DEFINE A == Addr \ {Nil}
             T == [X \in SUBSET A |-> X \cup Links(s, X)]
             Walks(g) == g = [n \in 0..AddrMx |-> IF n = 0 THEN Heads(s, c) ELSE g[n - 1] \cup Links(s, g[n - 1])]
             Walk == CHOOSE g : Walks(g)
  <1>1. Heads(s, c) \in SUBSET A /\ AddrMx \in Nat
    BY SegmentAssumption DEF TypeOK, Heads
  <1>2. T \in [SUBSET A -> SUBSET A]
    <2>1. ASSUME NEW X \in SUBSET A PROVE X \cup Links(s, X) \in SUBSET A
      <3>1. ASSUME NEW a \in X PROVE blk[<<s, a>>].next \in Addr
        <4>1. <<s, a>> \in Ptr /\ blk[<<s, a>>] \in Block
          BY DEF TypeOK, Ptr
        <4> QED BY <4>1 DEF Block
      <3> QED BY <3>1 DEF Links
    <2> QED BY <2>1
  <1>3. PICK g \in [0..AddrMx -> SUBSET A] :
          g = [n \in 0..AddrMx |-> IF n = 0 THEN Heads(s, c) ELSE T[g[n - 1]]]
    <2> DEFINE R == SUBSET A
               b == Heads(s, c)
    <2>1. b \in R /\ T \in [R -> R] /\ AddrMx \in Nat
      BY <1>1, <1>2
    <2> HIDE DEF T, R, b
    <2>2. \E g \in [0..AddrMx -> R] : g = [n \in 0..AddrMx |-> IF n = 0 THEN b ELSE T[g[n - 1]]]
      BY <2>1, Iterates
    <2> QED BY <2>2 DEF R, b
  <1>4. Walks(g)
    <2>1. ASSUME NEW n \in 0..AddrMx, n # 0 PROVE T[g[n - 1]] = g[n - 1] \cup Links(s, g[n - 1])
      <3>1. n - 1 \in 0..AddrMx
        BY <1>1, <2>1
      <3>2. g[n - 1] \in SUBSET A
        BY <3>1
      <3> QED BY <3>2
    <2> HIDE DEF T
    <2> QED BY <1>3, <2>1
  <1>5. Walks(Walk)
    <2> HIDE DEF Walks
    <2> QED BY <1>4
  <1>6. Walk \in [0..AddrMx -> SUBSET A]
    <2>1. \A n \in 0..AddrMx : Walk[n] = IF n = 0 THEN Heads(s, c) ELSE Walk[n - 1] \cup Links(s, Walk[n - 1])
      BY <1>5
    <2> DEFINE S == {n \in Nat : n \in 0..AddrMx => Walk[n] \in SUBSET A}
    <2> HIDE DEF Walk
    <2>2. 0 \in S
      BY <1>1, <2>1
    <2>3. ASSUME NEW n \in Nat, n \in S PROVE n + 1 \in S
      <3>1. ASSUME n + 1 \in 0..AddrMx PROVE Walk[n + 1] \in SUBSET A
        <4>1. n \in 0..AddrMx /\ n + 1 # 0 /\ n + 1 - 1 = n
          BY <1>1, <3>1
        <4>2. Walk[n] \in SUBSET A
          BY <2>3, <4>1
        <4> DEFINE k == n + 1
        <4>6. k \in 0..AddrMx /\ k # 0 /\ k - 1 = n
          BY <3>1, <4>1
        <4> HIDE DEF k
        <4>7. Walk[k] = Walk[k - 1] \cup Links(s, Walk[k - 1])
          BY <2>1, <4>6
        <4>3. Walk[n + 1] = Walk[n] \cup Links(s, Walk[n])
          BY <4>6, <4>7 DEF k
        <4>4. T[Walk[n]] = Walk[n] \cup Links(s, Walk[n])
          BY <4>2
        <4>5. T[Walk[n]] \in SUBSET A
          <5> HIDE DEF T, A
          <5> QED BY <1>2, <4>2
        <4> QED BY <4>3, <4>4, <4>5
      <3> QED BY <3>1
    <2> HIDE DEF S
    <2>4. Nat \subseteq S
      BY <2>2, <2>3, Induct
    <2>5. \A n \in 0..AddrMx : Walk[n] \in SUBSET A
      BY <1>1, <2>4 DEF S
    <2>6. Walk = [n \in 0..AddrMx |-> Walk[n]]
      BY <1>5 DEF Walk
    <2> QED BY <2>5, <2>6
  <1>7. Chain(s, c) = Walk[AddrMx]
    BY DEF Chain, Heads, Links
  <1>8. \A n \in 0..AddrMx : Walk[n] = IF n = 0 THEN Heads(s, c) ELSE Walk[n - 1] \cup Links(s, Walk[n - 1])
    BY <1>5
  <1> HIDE DEF Walk
  <1> QED BY <1>6, <1>7, <1>8

\* A chain never needs more steps than there are addresses.
LEMMA ChainClosed ==
  ASSUME TypeOK, NEW s \in Seg, NEW c \in Class
  PROVE  Chain(s, c) \in SUBSET Addr /\ Closed(blk, s, free[s][c], Chain(s, c))
  <1> DEFINE A == Addr \ {Nil}
  <1>1. AddrMx \in Nat /\ A = 1..AddrMx
    BY SegmentAssumption DEF Addr, Nil
  <1>2. PICK g \in [0..AddrMx -> SUBSET A] :
           /\ \A n \in 0..AddrMx : g[n] = IF n = 0 THEN Heads(s, c) ELSE g[n - 1] \cup Links(s, g[n - 1])
           /\ Chain(s, c) = g[AddrMx]
    BY ChainIs
  <1>3. IsFiniteSet(A) /\ Cardinality(A) = AddrMx
    <2>1. 1 \in Int /\ AddrMx \in Int
      BY <1>1
    <2>2. IsFiniteSet(1..AddrMx) /\ Cardinality(1..AddrMx) = AddrMx
      BY <1>1, FS_Interval, Z3
    <2> QED BY <1>1, <2>2
  <1>4. \A X \in SUBSET A : IsFiniteSet(X) /\ Cardinality(X) \in Nat /\ Cardinality(X) <= AddrMx
    BY <1>3, FS_Subset, FS_CardinalityType
  <1> DEFINE Fixed(n) == Links(s, g[n]) \subseteq g[n]
             S == {n \in Nat : n \in 0..AddrMx => Heads(s, c) \subseteq g[n] /\ (Fixed(n) \/ Cardinality(g[n]) >= n + 1)}
  <1> HIDE DEF A
  <1>5. 0 \in S
    <2>1. g[0] = Heads(s, c)
      BY <1>1, <1>2
    <2>2. CASE Heads(s, c) = {}
      BY <2>1, <2>2 DEF Links
    <2>3. CASE Heads(s, c) # {}
      <3>1. Heads(s, c) = {free[s][c]}
        BY <2>3 DEF Heads
      <3>2. Cardinality(g[0]) = 1
        BY <2>1, <3>1, FS_Singleton
      <3> QED BY <2>1, <3>2
    <2> QED BY <2>2, <2>3
  <1>6. ASSUME NEW n \in Nat, n \in S PROVE n + 1 \in S
    <2> SUFFICES ASSUME n + 1 \in 0..AddrMx
                 PROVE  Heads(s, c) \subseteq g[n + 1] /\ (Fixed(n + 1) \/ Cardinality(g[n + 1]) >= n + 1 + 1)
      OBVIOUS
    <2>1. n \in 0..AddrMx /\ n + 1 # 0 /\ n + 1 - 1 = n
      BY <1>1
    <2>2. g[n + 1] = g[n] \cup Links(s, g[n])
      BY <1>2, <2>1
    <2>3. Heads(s, c) \subseteq g[n] /\ (Fixed(n) \/ Cardinality(g[n]) >= n + 1)
      BY <1>6, <2>1
    <2>4. CASE Fixed(n)
      <3>1. g[n + 1] = g[n]
        BY <2>2, <2>4
      <3> QED BY <2>3, <2>4, <3>1
    <2>5. CASE ~Fixed(n)
      <3>1. g[n] \in SUBSET A /\ g[n + 1] \in SUBSET A /\ g[n] \subseteq g[n + 1] /\ g[n] # g[n + 1]
        BY <2>1, <2>2, <2>5
      <3>2. Cardinality(g[n]) <= Cardinality(g[n + 1]) /\ Cardinality(g[n]) # Cardinality(g[n + 1])
        BY <1>4, <3>1, FS_Subset
      <3>3. Cardinality(g[n]) >= n + 1 /\ Cardinality(g[n]) \in Nat /\ Cardinality(g[n + 1]) \in Nat
        BY <1>4, <2>3, <2>5, <3>1
      <3>4. Cardinality(g[n + 1]) >= n + 1 + 1
        BY <3>2, <3>3
      <3> QED BY <2>2, <2>3, <3>4
    <2> QED BY <2>4, <2>5
  <1>7. Nat \subseteq S
    <2> HIDE DEF S
    <2> QED BY <1>5, <1>6, Induct
  <1>8. Heads(s, c) \subseteq g[AddrMx] /\ Links(s, g[AddrMx]) \subseteq g[AddrMx]
    <2>1. AddrMx \in 0..AddrMx /\ g[AddrMx] \in SUBSET A
      BY <1>1
    <2>2. Heads(s, c) \subseteq g[AddrMx] /\ (Fixed(AddrMx) \/ Cardinality(g[AddrMx]) >= AddrMx + 1)
      BY <1>1, <1>7, <2>1
    <2>3. ~(Cardinality(g[AddrMx]) >= AddrMx + 1)
      BY <1>1, <1>4, <2>1
    <2> QED BY <2>2, <2>3
  <1>9. g[AddrMx] \in SUBSET Addr
    BY <1>1 DEF A
  <1> DEFINE X == g[AddrMx]
  <1>10. free[s][c] # Nil => free[s][c] \in X
    BY <1>8 DEF Heads
  <1>11. \A a \in X : blk[<<s, a>>].next # Nil => blk[<<s, a>>].next \in X
    BY <1>8 DEF Links
  <1>12. Closed(blk, s, free[s][c], X)
    <2> HIDE DEF X
    <2> QED BY <1>10, <1>11 DEF Closed
  <1> QED BY <1>2, <1>9, <1>12

LEMMA ChainIsFree ==
  ASSUME IInv, ~tainted, NEW s \in Seg, NEW c \in Class
  PROVE  Chain(s, c) \subseteq FreeOf(blk, s, c)
  <1>1. TypeOK /\ FreeListsSafe /\ LinksInClass /\ AddrMx \in Nat
    BY SegmentAssumption DEF IInv
  <1>2. PICK g \in [0..AddrMx -> SUBSET (Addr \ {Nil})] :
           /\ \A n \in 0..AddrMx : g[n] = IF n = 0 THEN Heads(s, c) ELSE g[n - 1] \cup Links(s, g[n - 1])
           /\ Chain(s, c) = g[AddrMx]
    BY <1>1, ChainIs
  <1> DEFINE S == {n \in Nat : n \in 0..AddrMx => g[n] \subseteq FreeOf(blk, s, c)}
  <1>3. 0 \in S
    <2>1. g[0] = Heads(s, c)
      BY <1>1, <1>2
    <2>2. Heads(s, c) \subseteq FreeOf(blk, s, c)
      <3> SUFFICES ASSUME free[s][c] # Nil PROVE free[s][c] \in FreeOf(blk, s, c)
        BY DEF Heads
      <3>1. free[s][c] \in Addr
        BY <1>1 DEF TypeOK
      <3>2. blk[<<s, free[s][c]>>].st = "free" /\ blk[<<s, free[s][c]>>].cls = c
        BY <1>1, ZenonT(40) DEF FreeListsSafe, LinksInClass, LinkOk
      <3> QED BY <3>1, <3>2 DEF FreeOf
    <2> QED BY <2>1, <2>2
  <1>4. ASSUME NEW n \in Nat, n \in S PROVE n + 1 \in S
    <2> SUFFICES ASSUME n + 1 \in 0..AddrMx PROVE g[n + 1] \subseteq FreeOf(blk, s, c)
      OBVIOUS
    <2>1. n \in 0..AddrMx /\ n + 1 # 0 /\ n + 1 - 1 = n
      BY <1>1
    <2>2. g[n + 1] = g[n] \cup Links(s, g[n])
      BY <1>2, <2>1
    <2>3. g[n] \subseteq FreeOf(blk, s, c)
      BY <1>4, <2>1
    <2>4. ASSUME NEW a \in FreeOf(blk, s, c), blk[<<s, a>>].next # Nil
          PROVE  blk[<<s, a>>].next \in FreeOf(blk, s, c)
      <3>1. <<s, a>> \in Ptr /\ blk[<<s, a>>].st = "free" /\ blk[<<s, a>>].cls = c
        BY DEF FreeOf, Ptr
      <3>2. blk[<<s, a>>].next \in Addr
        BY <1>1, <3>1 DEF TypeOK, Block
      <3>3. blk[<<s, blk[<<s, a>>].next>>].st = "free"
        BY <1>1, <2>4, <3>1 DEF FreeListsSafe
      <3>4. blk[<<s, blk[<<s, a>>].next>>].cls = c
        BY <1>1, <2>4, <3>1 DEF LinksInClass, LinkOk, IsWhole
      <3> QED BY <3>2, <3>3, <3>4 DEF FreeOf
    <2> QED BY <2>2, <2>3, <2>4 DEF Links
  <1>5. Nat \subseteq S
    <2> HIDE DEF S
    <2> QED BY <1>3, <1>4, Induct
  <1>6. g[AddrMx] \subseteq FreeOf(blk, s, c)
    <2>1. AddrMx \in 0..AddrMx
      BY <1>1
    <2> QED BY <1>5, <2>1
  <1> QED BY <1>2, <1>6

\* No released block is leaked: as long as the base was never restored from a crash, the free
\* list of a class goes through exactly the free blocks of the class, whatever was put, updated,
\* deleted, closed and opened in whatever order, however long the list (PutBlob, DelBlob).
THEOREM FreeListsAreExact == Spec => []FreeListExact
  <1> DEFINE L == ~tainted => Linked(blk, free)
  <1>1. Init => L
    <2> SUFFICES ASSUME Init PROVE Linked(blk, free)
      OBVIOUS
    <2>1. \A s \in Seg, a \in Addr : blk[<<s, a>>].st = "none"
      BY DEF Init, NoBlock, Ptr
    <2>2. \A s \in Seg, c \in Class : FreeOf(blk, s, c) = {}
      BY <2>1 DEF FreeOf
    <2> QED BY <2>2 DEF Linked
  <1>2. IInv /\ L /\ [Next]_vars => L'
    BY LinkedStep
  <1>3. IInv /\ L => FreeListExact
    <2> SUFFICES ASSUME IInv, L, ~tainted, NEW s \in Seg, NEW c \in Class
                 PROVE  Chain(s, c) = FreeOf(blk, s, c)
      BY DEF FreeListExact, FreeOf
    <2>1. Chain(s, c) \subseteq FreeOf(blk, s, c)
      BY ChainIsFree
    <2>2. FreeOf(blk, s, c) \subseteq Chain(s, c)
      BY ChainClosed DEF IInv, Linked
    <2> QED BY <2>1, <2>2
  <1> HIDE DEF L
  <1> QED BY <1>1, <1>2, <1>3, IInvInvariant, PTL DEF Spec

(***************************************************************************)
(* The key dictionary.  Both representations are seen as one function     *)
(* EntryAt from keys to pointers.  What each operation does to it is       *)
(* proved of any tables and arrays; the scan and the binary search are     *)
(* recursive functions, and what they return is proved by the              *)
(* least-number principle.                                                 *)
(***************************************************************************)

(***************************************************************************)
(* Numbers: the least of a set, and induction, said of sets.               *)
(***************************************************************************)
LEMMA LeastIs ==
  ASSUME NEW S \in SUBSET Nat, S # {}
  PROVE  \E n \in S : \A m \in S : n <= m
  <1> DEFINE Less == OpToRel(<, Nat)
  <1>1. IsWellFoundedOn(Less, Nat)
    BY NatLessThanWellFounded
  <1>2. \A m, n \in Nat : <<m, n>> \in Less <=> m < n
    BY DEF OpToRel
  <1> HIDE DEF Less
  <1>3. PICK n \in S : \A m \in S : ~(<<m, n>> \in Less)
    BY <1>1, WFMin
  <1>4. n \in Nat /\ \A m \in S : m \in Nat /\ ~(m < n)
    BY <1>2, <1>3
  <1> QED BY <1>3, <1>4

LEMMA ByInduction ==
  ASSUME NEW S, 0 \in S, \A n \in Nat : n \in S => n + 1 \in S
  PROVE  \A n \in Nat : n \in S
  <1> SUFFICES ASSUME Nat \ S # {} PROVE FALSE
    OBVIOUS
  <1>1. PICK n \in Nat \ S : \A m \in Nat \ S : n <= m
    BY LeastIs
  <1>2. n \in Nat /\ n # 0 /\ n \notin S
    BY <1>1
  <1>3. n - 1 \in Nat /\ n - 1 \in S
    BY <1>1, <1>2
  <1> QED BY <1>2, <1>3

\* A function of a finite set into itself that takes no value twice takes each.
LEMMA OneToOneIsOnto ==
  ASSUME NEW S, IsFiniteSet(S), NEW f \in [S -> S],
         \A x, y \in S : f[x] = f[y] => x = y
  PROVE  \A z \in S : \E x \in S : f[x] = z
  <1> SUFFICES ASSUME NEW z \in S, \A x \in S : f[x] # z PROVE FALSE
    OBVIOUS
  <1>1. f \in [S -> S \ {z}]
    OBVIOUS
  <1>2. IsFiniteSet(S \ {z}) /\ Cardinality(S \ {z}) = Cardinality(S) - 1
    BY FS_RemoveElement
  <1>3. Cardinality(S) \in Nat
    BY FS_CardinalityType
  <1>4. Cardinality(S \ {z}) < Cardinality(S)
    BY <1>2, <1>3
  <1> QED BY <1>1, <1>2, <1>4, FS_PigeonHole

\* As many as there are in the one are in the other.
LEMMA SameSize ==
  ASSUME NEW S, NEW T, IsFiniteSet(S), NEW f \in [S -> T],
         \A x, y \in S : f[x] = f[y] => x = y, \A z \in T : \E x \in S : f[x] = z
  PROVE  IsFiniteSet(T) /\ Cardinality(T) = Cardinality(S)
  <1>1. f \in Surjection(S, T)
    BY DEF Surjection
  <1>2. f \in Injection(S, T)
    BY DEF Injection, IsInjective
  <1> QED BY <1>1, <1>2, FS_Surjection

(***************************************************************************)
(* Sorting.                                                                *)
(***************************************************************************)
Sorts(v, from) ==
  /\ from \in [DOMAIN v -> DOMAIN v]
  /\ \A i \in DOMAIN v : \E n \in DOMAIN v : from[n] = i
  /\ \A m, n \in DOMAIN v : m < n => v[from[m]] <= v[from[n]]

\* The place of an element in the ascending vector is the number of those before it.
LEMMA SortedIs ==
  ASSUME NEW v, NEW len \in Nat, DOMAIN v = 1..len, \A n \in 1..len : v[n] \in Int
  PROVE  Sorts(v, Sorted(v)) /\ \A m, n \in DOMAIN v : Sorted(v)[m] = Sorted(v)[n] => m = n
  <1> DEFINE D == 1..len
             Before(i) == {j \in D : v[j] < v[i] \/ (v[j] = v[i] /\ j <= i)}
             rank == [i \in D |-> Cardinality(Before(i))]
  <1>1. IsFiniteSet(D) /\ Cardinality(D) = len
    BY FS_Interval
  <1>2. ASSUME NEW i \in D
        PROVE  IsFiniteSet(Before(i)) /\ Cardinality(Before(i)) \in D
    <2>1. Before(i) \in SUBSET D /\ i \in Before(i)
      OBVIOUS
    <2> HIDE DEF Before, D
    <2>2. IsFiniteSet(Before(i)) /\ Cardinality(Before(i)) <= len
      BY <1>1, <2>1, FS_Subset
    <2>3. Cardinality(Before(i)) # 0
      BY <2>1, <2>2, FS_EmptySet
    <2>4. Cardinality(Before(i)) \in Nat
      BY <2>2, FS_CardinalityType
    <2> QED BY <2>2, <2>3, <2>4 DEF D
  <1>3. ASSUME NEW i \in D, NEW j \in D, i \in Before(j), i # j
        PROVE  Cardinality(Before(i)) < Cardinality(Before(j))
    <2>1. Before(i) \in SUBSET Before(j) /\ j \in Before(j) /\ j \notin Before(i)
      BY <1>3
    <2>2. IsFiniteSet(Before(i)) /\ IsFiniteSet(Before(j))
             /\ Cardinality(Before(i)) \in D /\ Cardinality(Before(j)) \in D
      BY <1>2
    <2> HIDE DEF Before
    <2>3. Cardinality(Before(i)) <= Cardinality(Before(j)) /\ Cardinality(Before(i)) # Cardinality(Before(j))
      BY <2>1, <2>2, FS_Subset
    <2> QED BY <2>2, <2>3
  <1>4. rank \in [D -> D]
    BY <1>2
  <1>5. ASSUME NEW i \in D, NEW j \in D, rank[i] = rank[j] PROVE i = j
    <2>1. i \in Before(j) \/ j \in Before(i)
      OBVIOUS
    <2>2. rank[i] = Cardinality(Before(i)) /\ rank[j] = Cardinality(Before(j))
            /\ rank[i] \in D /\ rank[j] \in D
      BY <1>4
    <2>3. CASE i \in Before(j) /\ i # j
      <3>1. Cardinality(Before(i)) < Cardinality(Before(j))
        BY <1>3, <2>3
      <3> QED BY <1>5, <2>2, <3>1
    <2>4. CASE j \in Before(i) /\ i # j
      <3>1. Cardinality(Before(j)) < Cardinality(Before(i))
        BY <1>3, <2>4
      <3> QED BY <1>5, <2>2, <3>1
    <2> QED BY <2>1, <2>3, <2>4
  <1>6. \A n \in D : \E i \in D : rank[i] = n
    <2> HIDE DEF rank, D
    <2> QED BY <1>1, <1>4, <1>5, OneToOneIsOnto
  <1> DEFINE p == [n \in D |-> CHOOSE i \in D : rank[i] = n]
  <1>7. p \in [D -> D] /\ \A n \in D : rank[p[n]] = n
    <2> HIDE DEF rank, D
    <2> QED BY <1>6
  <1>8. \A i \in D : \E n \in D : p[n] = i
    <2> HIDE DEF rank, p, D
    <2> QED BY <1>4, <1>5, <1>7
  <1>9. ASSUME NEW m \in D, NEW n \in D, m < n PROVE v[p[m]] <= v[p[n]]
    <2>1. p[m] \in D /\ p[n] \in D /\ rank[p[m]] = m /\ rank[p[n]] = n
      BY <1>7
    <2>2. rank[p[m]] = Cardinality(Before(p[m])) /\ rank[p[n]] = Cardinality(Before(p[n]))
      BY <2>1
    <2> HIDE DEF rank, p
    <2>3. p[n] \notin Before(p[m])
      <3> HIDE DEF Before
      <3> QED BY <1>3, <1>9, <2>1, <2>2
    <2> QED BY <2>1, <2>3
  <1>10. Sorts(v, p)
    <2> HIDE DEF p
    <2> QED BY <1>7, <1>8, <1>9 DEF Sorts
  <1>11. Sorts(v, Sorted(v))
    <2> HIDE DEF p
    <2> QED BY <1>10 DEF Sorts, Sorted
  <1>12. ASSUME NEW m \in DOMAIN v, NEW n \in DOMAIN v, Sorted(v)[m] = Sorted(v)[n] PROVE m = n
    <2> DEFINE q == Sorted(v)
               inv == [i \in D |-> CHOOSE a \in D : q[a] = i]
    <2>1. q \in [D -> D] /\ \A i \in D : \E a \in D : q[a] = i
      BY <1>11 DEF Sorts
    <2> HIDE DEF q, D
    <2>2. inv \in [D -> D] /\ \A i \in D : q[inv[i]] = i
      BY <2>1
    <2>3. \A i, j \in D : inv[i] = inv[j] => i = j
      BY <2>2
    <2> HIDE DEF inv
    <2>4. \A a \in D : \E i \in D : inv[i] = a
      BY <1>1, <2>2, <2>3, OneToOneIsOnto
    <2>5. m \in D /\ n \in D /\ q[m] = q[n]
      BY <1>12 DEF q, D
    <2> QED BY <2>2, <2>4, <2>5
  <1> QED BY <1>11, <1>12

(***************************************************************************)
(* The hash table.                                                         *)
(***************************************************************************)
\* A key is once in the table, and the free list has the free positions, each once.
HSound(h) ==
  /\ h \in Hash
  /\ \A m, n \in HIds(h) : h.KeyDatV[m].key = h.KeyDatV[n].key => m = n
  /\ \A n \in HIds(h) : h.KeyDatV[n].pt \in DictPt
  /\ \A i, j \in DOMAIN h.FreeV : h.FreeV[i] = h.FreeV[j] => i = j
  /\ {h.FreeV[i] : i \in DOMAIN h.FreeV} = DOMAIN h.KeyDatV \ HIds(h)

LEMMA HashIs ==
  ASSUME NEW h \in Hash
  PROVE  /\ h = [KeyDatV |-> h.KeyDatV, FreeV |-> h.FreeV]
         /\ h.KeyDatV \in Seq(Entry) /\ h.FreeV \in Seq(Nat \ {0})
         /\ Len(h.KeyDatV) \in Nat /\ DOMAIN h.KeyDatV = 1..Len(h.KeyDatV)
         /\ Len(h.FreeV) \in Nat /\ DOMAIN h.FreeV = 1..Len(h.FreeV)
         /\ HIds(h) \subseteq DOMAIN h.KeyDatV
         /\ \A n \in DOMAIN h.KeyDatV :
              /\ h.KeyDatV[n] \in Entry
              /\ h.KeyDatV[n] = [key |-> h.KeyDatV[n].key, pt |-> h.KeyDatV[n].pt]
              /\ n \in HIds(h) <=> h.KeyDatV[n].key # NoKey
         /\ \A n \in HIds(h) : h.KeyDatV[n].key \in DictKey /\ h.KeyDatV[n].key \in HKeys(h)
         /\ HKeys(h) \subseteq DictKey
  <1>1. h = [KeyDatV |-> h.KeyDatV, FreeV |-> h.FreeV]
         /\ h.KeyDatV \in Seq(Entry) /\ h.FreeV \in Seq(Nat \ {0})
    BY DEF Hash
  <1>2. Len(h.KeyDatV) \in Nat /\ DOMAIN h.KeyDatV = 1..Len(h.KeyDatV)
         /\ Len(h.FreeV) \in Nat /\ DOMAIN h.FreeV = 1..Len(h.FreeV)
    BY <1>1
  <1>3. HIds(h) \subseteq DOMAIN h.KeyDatV
    BY DEF HIds
  <1>4. ASSUME NEW n \in DOMAIN h.KeyDatV
        PROVE  /\ h.KeyDatV[n] \in Entry
               /\ h.KeyDatV[n] = [key |-> h.KeyDatV[n].key, pt |-> h.KeyDatV[n].pt]
               /\ n \in HIds(h) <=> h.KeyDatV[n].key # NoKey
    <2>1. h.KeyDatV[n] \in Entry
      BY <1>1, <1>2, ElementOfSeq
    <2> QED BY <2>1 DEF Entry, HIds
  <1>5. ASSUME NEW n \in HIds(h) PROVE h.KeyDatV[n].key \in DictKey /\ h.KeyDatV[n].key \in HKeys(h)
    <2>1. h.KeyDatV[n] \in Entry /\ h.KeyDatV[n].key # NoKey
      BY <1>3, <1>4
    <2> QED BY <2>1 DEF Entry, HKeys
  <1>6. HKeys(h) \subseteq DictKey
    BY <1>5 DEF HKeys
  <1> QED BY <1>1, <1>2, <1>3, <1>4, <1>5, <1>6

LEMMA EmptyHashSound == HSound(EmptyHash) /\ HIds(EmptyHash) = {} /\ HKeys(EmptyHash) = {} /\ HLen(EmptyHash) = 0
                          /\ EmptyHash.KeyDatV = <<>>
  <1>1. EmptyHash \in Hash /\ EmptyHash.KeyDatV = <<>> /\ EmptyHash.FreeV = <<>>
    BY DEF EmptyHash, Hash
  <1>2. HIds(EmptyHash) = {} /\ HKeys(EmptyHash) = {}
    BY <1>1 DEF HIds, HKeys
  <1> QED BY <1>1, <1>2 DEF HSound, HLen

\* Looking up a key.
LEMMA HFound ==
  ASSUME NEW h, HSound(h)
  PROVE  /\ \A k \in HKeys(h) : HKeyId(h, k) \in HIds(h) /\ h.KeyDatV[HKeyId(h, k)].key = k
                                 /\ HGetDat(h, k) \in DictPt /\ HGetDat(h, k) = h.KeyDatV[HKeyId(h, k)].pt
         /\ \A n \in HIds(h) : HKeyId(h, h.KeyDatV[n].key) = n
                                /\ HGetDat(h, h.KeyDatV[n].key) = h.KeyDatV[n].pt
  <1>1. ASSUME NEW k \in HKeys(h)
        PROVE  HKeyId(h, k) \in HIds(h) /\ h.KeyDatV[HKeyId(h, k)].key = k
                                 /\ HGetDat(h, k) \in DictPt /\ HGetDat(h, k) = h.KeyDatV[HKeyId(h, k)].pt
    <2>1. \E n \in HIds(h) : h.KeyDatV[n].key = k
      BY DEF HKeys
    <2>2. HKeyId(h, k) \in HIds(h) /\ h.KeyDatV[HKeyId(h, k)].key = k
      BY <2>1 DEF HKeyId
    <2> QED BY <2>2 DEF HSound, HGetDat
  <1>2. ASSUME NEW n \in HIds(h) PROVE HKeyId(h, h.KeyDatV[n].key) = n
    <2>1. h.KeyDatV[n].key \in HKeys(h)
      BY DEF HKeys
    <2> QED BY <1>1, <2>1 DEF HSound
  <1> QED BY <1>1, <1>2 DEF HGetDat

\* What is looked up is told by where it is.
LEMMA HDatAt ==
  ASSUME NEW h, HSound(h), NEW n \in HIds(h), NEW k, h.KeyDatV[n].key = k
  PROVE  k \in HKeys(h) /\ HGetDat(h, k) = h.KeyDatV[n].pt
  BY HFound DEF HKeys

LEMMA SizeOfRest ==
  ASSUME NEW S, IsFiniteSet(S), NEW T \in SUBSET S
  PROVE  Cardinality(S \ T) = Cardinality(S) - Cardinality(T)
  <1>1. S \cap T = T
    OBVIOUS
  <1>2. Cardinality(S \ T) = Cardinality(S) - Cardinality(S \cap T)
    BY FS_Difference
  <1> QED BY <1>1, <1>2

LEMMA UpTo ==
  ASSUME NEW n \in Nat
  PROVE  IsFiniteSet(1..n) /\ Cardinality(1..n) = n
  BY FS_Interval

\* How many there are.
LEMMA HLenIs ==
  ASSUME NEW h, HSound(h)
  PROVE  IsFiniteSet(HIds(h)) /\ Cardinality(HIds(h)) = HLen(h) /\ HLen(h) \in Nat
  <1> DEFINE D == 1..Len(h.KeyDatV)
             F == 1..Len(h.FreeV)
             f == [i \in F |-> h.FreeV[i]]
  <1>1. h \in Hash /\ \A i, j \in DOMAIN h.FreeV : h.FreeV[i] = h.FreeV[j] => i = j
    BY DEF HSound
  <1>2. DOMAIN h.KeyDatV = D /\ DOMAIN h.FreeV = F /\ HIds(h) \in SUBSET D
           /\ Len(h.KeyDatV) \in Nat /\ Len(h.FreeV) \in Nat
    BY <1>1, HashIs
  <1>3. IsFiniteSet(D) /\ Cardinality(D) = Len(h.KeyDatV) /\ IsFiniteSet(F) /\ Cardinality(F) = Len(h.FreeV)
    BY <1>2, UpTo
  <1>4. IsFiniteSet(HIds(h))
    BY <1>2, <1>3, FS_Subset
  <1>5. {h.FreeV[i] : i \in F} = D \ HIds(h)
    BY <1>2 DEF HSound
  <1>6. f \in [F -> D \ HIds(h)] /\ (\A x, y \in F : f[x] = f[y] => x = y)
          /\ \A z \in D \ HIds(h) : \E x \in F : f[x] = z
    BY <1>1, <1>2, <1>5
  <1>7. Cardinality(D \ HIds(h)) = Len(h.FreeV)
    <2> HIDE DEF f, F, D
    <2> QED BY <1>3, <1>6, SameSize
  <1>8. Cardinality(D \ HIds(h)) = Cardinality(D) - Cardinality(HIds(h))
    <2> HIDE DEF D
    <2> QED BY <1>2, <1>3, SizeOfRest
  <1>10. Cardinality(HIds(h)) \in Nat
    BY <1>4, FS_CardinalityType
  <1>11. HLen(h) = Len(h.KeyDatV) - Len(h.FreeV)
    BY DEF HLen
  <1> HIDE DEF f, F, D
  <1>12. Cardinality(HIds(h)) = HLen(h)
    <2> DEFINE a == Cardinality(HIds(h))
               b == Cardinality(D \ HIds(h))
               c == Cardinality(D)
    <2>1. a \in Nat /\ c = Len(h.KeyDatV) /\ b = Len(h.FreeV) /\ b = c - a
      BY <1>3, <1>7, <1>8, <1>10
    <2> HIDE DEF a, b, c
    <2>2. a = HLen(h)
      BY <1>2, <1>11, <2>1
    <2> QED BY <2>2 DEF a
  <1> QED BY <1>4, <1>10, <1>12

LEMMA HKeysMany ==
  ASSUME NEW h, HSound(h)
  PROVE  Cardinality(HIds(h)) = Cardinality(HKeys(h))
  <1> DEFINE f == [n \in HIds(h) |-> h.KeyDatV[n].key]
  <1>1. f \in [HIds(h) -> HKeys(h)] /\ (\A x, y \in HIds(h) : f[x] = f[y] => x = y)
          /\ \A z \in HKeys(h) : \E x \in HIds(h) : f[x] = z
    BY DEF HSound, HKeys
  <1>2. IsFiniteSet(HIds(h))
    BY HLenIs
  <1> HIDE DEF f
  <1> QED BY <1>1, <1>2, SameSize

\* Where an addition writes: over the entry of the key, or into a free one, or behind the last.
WritesAt(h, d, x, k, p) ==
  /\ d \in Hash /\ x \in DOMAIN d.KeyDatV /\ d.KeyDatV[x] = [key |-> k, pt |-> p]
  /\ DOMAIN h.KeyDatV \subseteq DOMAIN d.KeyDatV
  /\ \A n \in DOMAIN d.KeyDatV : n # x => n \in DOMAIN h.KeyDatV /\ d.KeyDatV[n] = h.KeyDatV[n]
  /\ IF x \in HIds(h) THEN h.KeyDatV[x].key = k ELSE k \notin HKeys(h)
  /\ \A i, j \in DOMAIN d.FreeV : d.FreeV[i] = d.FreeV[j] => i = j
  /\ {d.FreeV[i] : i \in DOMAIN d.FreeV} = DOMAIN d.KeyDatV \ (HIds(h) \cup {x})

LEMMA HAddWrites ==
  ASSUME NEW h, HSound(h), NEW k \in DictKey, NEW p \in DictPt, NEW d, d = HAddDat(h, k, p)
  PROVE  \E x : WritesAt(h, d, x, k, p)
  <1> DEFINE e == [key |-> k, pt |-> p]
  <1>1. h \in Hash /\ e \in Entry
    BY DEF HSound, Entry
  <1>2. /\ h.KeyDatV \in Seq(Entry) /\ h.FreeV \in Seq(Nat \ {0})
        /\ Len(h.KeyDatV) \in Nat /\ DOMAIN h.KeyDatV = 1..Len(h.KeyDatV)
        /\ Len(h.FreeV) \in Nat /\ DOMAIN h.FreeV = 1..Len(h.FreeV)
        /\ HIds(h) \subseteq DOMAIN h.KeyDatV
        /\ h = [KeyDatV |-> h.KeyDatV, FreeV |-> h.FreeV]
    BY <1>1, HashIs
  <1>3. CASE k \in HKeys(h)
    <2> DEFINE x == HKeyId(h, k)
    <2>1. x \in HIds(h) /\ h.KeyDatV[x].key = k
      BY <1>3, HFound
    <2>2. d = [KeyDatV |-> [h.KeyDatV EXCEPT ![x] = [h.KeyDatV[x] EXCEPT !.pt = p]], FreeV |-> h.FreeV]
      BY <1>2, <1>3 DEF HAddDat
    <2>3. h.KeyDatV[x] = [key |-> h.KeyDatV[x].key, pt |-> h.KeyDatV[x].pt] /\ x \in 1..Len(h.KeyDatV)
      BY <1>1, <1>2, <2>1, HashIs
    <2>4. [h.KeyDatV[x] EXCEPT !.pt = p] = e
      BY <2>1, <2>3
    <2> HIDE DEF x, e
    <2> DEFINE v == [h.KeyDatV EXCEPT ![x] = e]
    <2>5. v \in Seq(Entry) /\ DOMAIN v = DOMAIN h.KeyDatV /\ v[x] = e
            /\ \A n \in DOMAIN h.KeyDatV : n # x => v[n] = h.KeyDatV[n]
      BY <1>1, <1>2, <2>3, ExceptSeq
    <2> HIDE DEF v
    <2>6. d.KeyDatV = v /\ d.FreeV = h.FreeV /\ d = [KeyDatV |-> v, FreeV |-> h.FreeV]
      BY <2>2, <2>4 DEF v
    <2>7. d \in Hash
      BY <1>2, <2>5, <2>6 DEF Hash
    <2>8. HIds(h) \cup {x} = HIds(h)
      BY <2>1
    <2>9. /\ \A i, j \in DOMAIN d.FreeV : d.FreeV[i] = d.FreeV[j] => i = j
          /\ {d.FreeV[i] : i \in DOMAIN d.FreeV} = DOMAIN d.KeyDatV \ (HIds(h) \cup {x})
      <3>1. {h.FreeV[i] : i \in DOMAIN h.FreeV} = DOMAIN h.KeyDatV \ HIds(h)
              /\ \A i, j \in DOMAIN h.FreeV : h.FreeV[i] = h.FreeV[j] => i = j
        BY DEF HSound
      <3> QED BY <2>5, <2>6, <2>8, <3>1
    <2>10. WritesAt(h, d, x, k, p)
      BY <1>2, <2>1, <2>3, <2>5, <2>6, <2>7, <2>9 DEF WritesAt, e
    <2> QED BY <2>10
  <1>4. CASE k \notin HKeys(h) /\ h.FreeV = <<>>
    <2> DEFINE x == Len(h.KeyDatV) + 1
               v == Append(h.KeyDatV, e)
    <2>1. d = [KeyDatV |-> v, FreeV |-> h.FreeV]
      BY <1>2, <1>4 DEF HAddDat
    <2> HIDE DEF e
    <2>2. v \in Seq(Entry) /\ DOMAIN v = 1..x /\ v[x] = e
            /\ \A n \in DOMAIN h.KeyDatV : v[n] = h.KeyDatV[n]
      BY <1>1, <1>2
    <2> HIDE DEF v
    <2>3. d.KeyDatV = v /\ d.FreeV = h.FreeV /\ d \in Hash
      BY <1>2, <2>1, <2>2 DEF Hash
    <2>4. x \notin HIds(h) /\ DOMAIN h.KeyDatV = HIds(h) /\ x \in 1..x /\ 1..x = 1..Len(h.KeyDatV) \cup {x}
      <3>1. {h.FreeV[i] : i \in DOMAIN h.FreeV} = {}
        BY <1>2, <1>4
      <3>2. DOMAIN h.KeyDatV \ HIds(h) = {}
        BY <3>1 DEF HSound
      <3>3. x \notin DOMAIN h.KeyDatV /\ x \in 1..x /\ 1..x = 1..Len(h.KeyDatV) \cup {x}
        BY <1>2
      <3> QED BY <1>2, <3>2, <3>3
    <2> HIDE DEF x
    <2>5. {d.FreeV[i] : i \in DOMAIN d.FreeV} = DOMAIN d.KeyDatV \ (HIds(h) \cup {x})
      BY <1>2, <1>4, <2>2, <2>3, <2>4
    <2>6. WritesAt(h, d, x, k, p)
      BY <1>2, <1>4, <2>2, <2>3, <2>4, <2>5 DEF WritesAt, HSound, e
    <2> QED BY <2>6
  <1>5. CASE k \notin HKeys(h) /\ h.FreeV # <<>>
    <2> DEFINE x == Head(h.FreeV)
               v == [h.KeyDatV EXCEPT ![x] = e]
               f == Tail(h.FreeV)
    <2>1. d = [KeyDatV |-> v, FreeV |-> f]
      BY <1>2, <1>5 DEF HAddDat
    <2>2. x = h.FreeV[1] /\ 1 \in DOMAIN h.FreeV /\ f \in Seq(Nat \ {0}) /\ Len(f) = Len(h.FreeV) - 1
            /\ DOMAIN f = 1..Len(f) /\ \A i \in DOMAIN f : f[i] = h.FreeV[i + 1] /\ i + 1 \in DOMAIN h.FreeV
      BY <1>2, <1>5
    <2> HIDE DEF x, f
    <2>3. x \in DOMAIN h.KeyDatV /\ x \notin HIds(h)
      BY <2>2 DEF HSound
    <2> HIDE DEF e
    <2>4. v \in Seq(Entry) /\ DOMAIN v = DOMAIN h.KeyDatV /\ v[x] = e
            /\ \A n \in DOMAIN h.KeyDatV : n # x => v[n] = h.KeyDatV[n]
      BY <1>1, <1>2, <2>3, ExceptSeq
    <2> HIDE DEF v
    <2>5. d.KeyDatV = v /\ d.FreeV = f /\ d \in Hash
      BY <2>1, <2>2, <2>4 DEF Hash
    <2>6. \A i, j \in DOMAIN f : f[i] = f[j] => i = j
      <3> SUFFICES ASSUME NEW i \in DOMAIN f, NEW j \in DOMAIN f, f[i] = f[j] PROVE i = j
        OBVIOUS
      <3>1. h.FreeV[i + 1] = h.FreeV[j + 1] /\ i + 1 \in DOMAIN h.FreeV /\ j + 1 \in DOMAIN h.FreeV
        BY <2>2
      <3>2. i + 1 = j + 1
        BY <3>1 DEF HSound
      <3>3. i \in 1..Len(f) /\ j \in 1..Len(f) /\ Len(f) \in Int
        BY <1>2, <2>2
      <3> QED BY <3>2, <3>3
    <2>7. \A i \in DOMAIN f : f[i] # x
      <3> SUFFICES ASSUME NEW i \in DOMAIN f, f[i] = x PROVE FALSE
        OBVIOUS
      <3>1. i + 1 = 1
        BY <2>2 DEF HSound
      <3>2. i \in 1..Len(f) /\ Len(f) \in Int
        BY <1>2, <2>2
      <3> QED BY <3>1, <3>2
    <2>8. \A i \in DOMAIN h.FreeV : h.FreeV[i] = x \/ \E j \in DOMAIN f : f[j] = h.FreeV[i]
      <3> SUFFICES ASSUME NEW i \in DOMAIN h.FreeV, i # 1 PROVE \E j \in DOMAIN f : f[j] = h.FreeV[i]
        BY <2>2
      <3>1. i \in Int /\ i >= 1 /\ i <= Len(h.FreeV)
        BY <1>2
      <3>2. i - 1 \in DOMAIN f /\ (i - 1) + 1 = i
        BY <1>2, <2>2, <3>1
      <3>3. f[i - 1] = h.FreeV[(i - 1) + 1]
        BY <2>2, <3>2
      <3> QED BY <3>2, <3>3
    <2>9. {f[i] : i \in DOMAIN f} = {h.FreeV[i] : i \in DOMAIN h.FreeV} \ {x}
      <3>1. ASSUME NEW i \in DOMAIN f PROVE f[i] \in {h.FreeV[j] : j \in DOMAIN h.FreeV} \ {x}
        BY <2>2, <2>7
      <3>2. ASSUME NEW i \in DOMAIN h.FreeV, h.FreeV[i] # x PROVE h.FreeV[i] \in {f[j] : j \in DOMAIN f}
        BY <2>8, <3>2
      <3> QED BY <3>1, <3>2
    <2>10. {f[i] : i \in DOMAIN f} = DOMAIN h.KeyDatV \ (HIds(h) \cup {x})
      <3>1. {h.FreeV[i] : i \in DOMAIN h.FreeV} = DOMAIN h.KeyDatV \ HIds(h)
        BY DEF HSound
      <3> QED BY <2>9, <3>1
    <2>11. WritesAt(h, d, x, k, p)
      BY <1>5, <2>3, <2>4, <2>5, <2>6, <2>10 DEF WritesAt, e
    <2> QED BY <2>11
  <1> QED BY <1>3, <1>4, <1>5

LEMMA HAddIs ==
  ASSUME NEW h, HSound(h), NEW k \in DictKey, NEW p \in DictPt, NEW d, d = HAddDat(h, k, p)
  PROVE  /\ HSound(d) /\ HKeys(d) = HKeys(h) \cup {k} /\ HGetDat(d, k) = p
         /\ \A j \in HKeys(h) : j # k => HGetDat(d, j) = HGetDat(h, j)
         /\ \A n \in HIds(h) : n \in HIds(d) /\ d.KeyDatV[n].key = h.KeyDatV[n].key
         /\ Len(d.KeyDatV) >= Len(h.KeyDatV)
  <1>1. PICK x : WritesAt(h, d, x, k, p)
    BY HAddWrites
  <1>2. h \in Hash /\ d \in Hash /\ NoKey # k
    BY <1>1, KeyAssumption DEF HSound, WritesAt
  <1>3. d.KeyDatV[x].key = k /\ d.KeyDatV[x].pt = p
    BY <1>1 DEF WritesAt
  <1>4. HIds(d) = HIds(h) \cup {x}
    <2>1. ASSUME NEW n \in DOMAIN d.KeyDatV PROVE n \in HIds(d) <=> n \in HIds(h) \cup {x}
      <3>1. n \in HIds(d) <=> d.KeyDatV[n].key # NoKey
        BY DEF HIds
      <3>2. CASE n = x
        BY <1>2, <1>3, <3>1, <3>2
      <3>3. CASE n # x
        <4>1. n \in DOMAIN h.KeyDatV /\ d.KeyDatV[n] = h.KeyDatV[n]
          BY <1>1, <3>3 DEF WritesAt
        <4> QED BY <3>1, <3>3, <4>1 DEF HIds
      <3> QED BY <3>2, <3>3
    <2>2. HIds(d) \subseteq DOMAIN d.KeyDatV /\ HIds(h) \cup {x} \subseteq DOMAIN d.KeyDatV
      BY <1>1 DEF HIds, WritesAt
    <2> QED BY <2>1, <2>2
  <1>5. \A n \in HIds(h) : d.KeyDatV[n].key = h.KeyDatV[n].key
    <2> SUFFICES ASSUME NEW n \in HIds(h) PROVE d.KeyDatV[n].key = h.KeyDatV[n].key
      OBVIOUS
    <2>1. n \in DOMAIN d.KeyDatV
      BY <1>1 DEF HIds, WritesAt
    <2>2. CASE n = x
      BY <1>1, <1>3, <2>2 DEF WritesAt
    <2>3. CASE n # x
      BY <1>1, <2>1, <2>3 DEF WritesAt
    <2> QED BY <2>2, <2>3
  <1>6. \A n \in HIds(h) : n # x => d.KeyDatV[n] = h.KeyDatV[n] /\ h.KeyDatV[n].key # k
    <2> SUFFICES ASSUME NEW n \in HIds(h), n # x PROVE d.KeyDatV[n] = h.KeyDatV[n] /\ h.KeyDatV[n].key # k
      OBVIOUS
    <2>1. n \in DOMAIN d.KeyDatV /\ h.KeyDatV[n].key \in HKeys(h)
      BY <1>1 DEF HIds, WritesAt, HKeys
    <2>2. d.KeyDatV[n] = h.KeyDatV[n]
      BY <1>1, <2>1 DEF WritesAt
    <2>3. h.KeyDatV[n].key # k
      BY <1>1, <2>1 DEF WritesAt, HSound
    <2> QED BY <2>2, <2>3
  <1>7. HSound(d)
    <2>1. ASSUME NEW m \in HIds(d), NEW n \in HIds(d), d.KeyDatV[m].key = d.KeyDatV[n].key PROVE m = n
      <3>1. CASE m = x \/ n = x
        BY <1>3, <1>4, <1>6, <2>1, <3>1
      <3>2. CASE m # x /\ n # x
        <4>1. m \in HIds(h) /\ n \in HIds(h)
          BY <1>4, <3>2
        <4> QED BY <1>6, <2>1, <3>2, <4>1 DEF HSound
      <3> QED BY <3>1, <3>2
    <2>2. ASSUME NEW n \in HIds(d) PROVE d.KeyDatV[n].pt \in DictPt
      BY <1>3, <1>4, <1>6 DEF HSound
    <2>3. /\ \A i, j \in DOMAIN d.FreeV : d.FreeV[i] = d.FreeV[j] => i = j
          /\ {d.FreeV[i] : i \in DOMAIN d.FreeV} = DOMAIN d.KeyDatV \ HIds(d)
      BY <1>1, <1>4 DEF WritesAt
    <2> QED BY <1>2, <2>1, <2>2, <2>3 DEF HSound
  <1>8. HKeys(d) = HKeys(h) \cup {k}
    <2>1. ASSUME NEW n \in HIds(d) PROVE d.KeyDatV[n].key \in HKeys(h) \cup {k}
      BY <1>3, <1>4, <1>5 DEF HKeys
    <2>2. ASSUME NEW n \in HIds(h) PROVE h.KeyDatV[n].key \in HKeys(d)
      BY <1>4, <1>5 DEF HKeys
    <2>3. k \in HKeys(d)
      BY <1>3, <1>4 DEF HKeys
    <2> QED BY <2>1, <2>2, <2>3 DEF HKeys
  <1>9. HGetDat(d, k) = p
    BY <1>3, <1>4, <1>7, HDatAt
  <1>10. ASSUME NEW j \in HKeys(h), j # k PROVE HGetDat(d, j) = HGetDat(h, j)
    <2> DEFINE n == HKeyId(h, j)
    <2>1. n \in HIds(h) /\ h.KeyDatV[n].key = j /\ HGetDat(h, j) = h.KeyDatV[n].pt
      BY HFound
    <2> HIDE DEF n
    <2>2. n # x
      BY <1>1, <1>10, <2>1 DEF WritesAt
    <2>3. d.KeyDatV[n] = h.KeyDatV[n] /\ n \in HIds(d)
      BY <1>4, <1>6, <2>1, <2>2
    <2>4. HGetDat(d, j) = d.KeyDatV[n].pt
      BY <1>7, <2>1, <2>3, HDatAt
    <2> QED BY <2>1, <2>3, <2>4
  <1>11. Len(d.KeyDatV) >= Len(h.KeyDatV)
    <2>1. DOMAIN d.KeyDatV = 1..Len(d.KeyDatV) /\ DOMAIN h.KeyDatV = 1..Len(h.KeyDatV)
             /\ Len(d.KeyDatV) \in Nat /\ Len(h.KeyDatV) \in Nat
      BY <1>2, HashIs
    <2>2. Len(h.KeyDatV) = 0 \/ Len(h.KeyDatV) \in 1..Len(d.KeyDatV)
      BY <1>1, <2>1 DEF WritesAt
    <2> QED BY <2>1, <2>2
  <1> QED BY <1>4, <1>5, <1>7, <1>8, <1>9, <1>10, <1>11

LEMMA HDelIs ==
  ASSUME NEW h, HSound(h), NEW k \in HKeys(h), NEW d, d = HDelKey(h, k)
  PROVE  /\ HSound(d) /\ HKeys(d) = HKeys(h) \ {k}
         /\ \A j \in HKeys(d) : HGetDat(d, j) = HGetDat(h, j)
         /\ \A n \in HIds(h) : h.KeyDatV[n].key # k => n \in HIds(d) /\ d.KeyDatV[n].key = h.KeyDatV[n].key
         /\ DOMAIN d.KeyDatV = DOMAIN h.KeyDatV /\ Len(d.KeyDatV) = Len(h.KeyDatV)
  <1> DEFINE x == HKeyId(h, k)
             v == [h.KeyDatV EXCEPT ![x] = FreeEntry]
             f == <<x>> \o h.FreeV
  <1>1. h \in Hash /\ FreeEntry \in Entry /\ FreeEntry.key = NoKey
    BY DEF HSound, Entry, FreeEntry
  <1>2. /\ h.KeyDatV \in Seq(Entry) /\ h.FreeV \in Seq(Nat \ {0})
        /\ Len(h.KeyDatV) \in Nat /\ DOMAIN h.KeyDatV = 1..Len(h.KeyDatV)
        /\ Len(h.FreeV) \in Nat /\ DOMAIN h.FreeV = 1..Len(h.FreeV)
        /\ HIds(h) \subseteq DOMAIN h.KeyDatV
    BY <1>1, HashIs
  <1>3. x \in HIds(h) /\ h.KeyDatV[x].key = k /\ x \in 1..Len(h.KeyDatV) /\ x \in Nat \ {0}
    BY <1>2, HFound
  <1>4. d = [KeyDatV |-> v, FreeV |-> f]
    BY DEF HDelKey
  <1>5. f \in Seq(Nat \ {0}) /\ Len(f) = Len(h.FreeV) + 1 /\ DOMAIN f = 1..Len(f)
          /\ \A i \in DOMAIN f : f[i] = IF i = 1 THEN x ELSE h.FreeV[i - 1]
    <2> HIDE DEF x
    <2>1. <<x>> \in Seq(Nat \ {0}) /\ Len(<<x>>) = 1 /\ <<x>>[1] = x
      BY <1>3
    <2> QED BY <1>2, <2>1, ConcatProperties
  <1> HIDE DEF x, f
  <1>6. v \in Seq(Entry) /\ Len(v) = Len(h.KeyDatV) /\ DOMAIN v = DOMAIN h.KeyDatV /\ v[x] = FreeEntry
            /\ \A n \in DOMAIN h.KeyDatV : n # x => v[n] = h.KeyDatV[n]
    BY <1>1, <1>2, <1>3, ExceptSeq
  <1> HIDE DEF v
  <1>7. d.KeyDatV = v /\ d.FreeV = f /\ d \in Hash
    BY <1>4, <1>5, <1>6 DEF Hash
  <1>8. HIds(d) = HIds(h) \ {x}
    <2>1. ASSUME NEW n \in DOMAIN v PROVE v[n].key # NoKey <=> n \in HIds(h) /\ n # x
      <3>1. CASE n = x
        BY <1>1, <1>6, <3>1
      <3>2. CASE n # x
        BY <1>6, <3>2 DEF HIds
      <3> QED BY <3>1, <3>2
    <2> QED BY <1>2, <1>6, <1>7, <2>1 DEF HIds
  <1>9. \A n \in HIds(d) : n \in HIds(h) /\ d.KeyDatV[n] = h.KeyDatV[n] /\ h.KeyDatV[n].key # k
    BY <1>2, <1>3, <1>6, <1>7, <1>8 DEF HSound
  <1>10. \A i \in DOMAIN h.FreeV : i + 1 \in DOMAIN f /\ f[i + 1] = h.FreeV[i] /\ h.FreeV[i] # x
    <2> SUFFICES ASSUME NEW i \in DOMAIN h.FreeV
                 PROVE  i + 1 \in DOMAIN f /\ f[i + 1] = h.FreeV[i] /\ h.FreeV[i] # x
      OBVIOUS
    <2>1. i \in Int /\ i >= 1 /\ i <= Len(h.FreeV)
      BY <1>2
    <2>2. i + 1 \in DOMAIN f /\ i + 1 # 1 /\ (i + 1) - 1 = i
      BY <1>2, <1>5, <2>1
    <2>3. h.FreeV[i] \notin HIds(h)
      BY DEF HSound
    <2> QED BY <1>3, <1>5, <2>2, <2>3
  <1>11. \A i \in DOMAIN f : i # 1 => i - 1 \in DOMAIN h.FreeV /\ f[i] = h.FreeV[i - 1]
    BY <1>2, <1>5, SMTT(30)
  <1>12. 1 \in DOMAIN f /\ f[1] = x
    <2>1. 1 \in DOMAIN f
      BY <1>2, <1>5
    <2> QED BY <1>5, <2>1
  <1>13. HSound(d)
    <2>1. \A m, n \in HIds(d) : d.KeyDatV[m].key = d.KeyDatV[n].key => m = n
      BY <1>9 DEF HSound
    <2>2. \A n \in HIds(d) : d.KeyDatV[n].pt \in DictPt
      BY <1>9 DEF HSound
    <2>3. ASSUME NEW i \in DOMAIN f, NEW j \in DOMAIN f, f[i] = f[j] PROVE i = j
      <3>0. i \in Int /\ j \in Int
        BY <1>2, <1>5
      <3>1. CASE i = 1 \/ j = 1
        BY <1>10, <1>11, <1>12, <2>3, <3>1
      <3>2. CASE i # 1 /\ j # 1
        <4>1. i - 1 \in DOMAIN h.FreeV /\ j - 1 \in DOMAIN h.FreeV /\ h.FreeV[i - 1] = h.FreeV[j - 1]
          BY <1>11, <2>3, <3>2
        <4>2. i - 1 = j - 1
          BY <4>1 DEF HSound
        <4> QED BY <3>0, <4>2
      <3> QED BY <3>1, <3>2
    <2>4. {f[i] : i \in DOMAIN f} = {h.FreeV[i] : i \in DOMAIN h.FreeV} \cup {x}
      <3>1. ASSUME NEW i \in DOMAIN f PROVE f[i] \in {h.FreeV[j] : j \in DOMAIN h.FreeV} \cup {x}
        BY <1>11, <1>12
      <3>2. ASSUME NEW i \in DOMAIN h.FreeV PROVE h.FreeV[i] \in {f[j] : j \in DOMAIN f}
        BY <1>10
      <3>3. x \in {f[j] : j \in DOMAIN f}
        BY <1>12
      <3> QED BY <3>1, <3>2, <3>3
    <2>5. {h.FreeV[i] : i \in DOMAIN h.FreeV} = DOMAIN h.KeyDatV \ HIds(h)
      BY DEF HSound
    <2>6. {f[i] : i \in DOMAIN f} = DOMAIN v \ HIds(d)
      BY <1>2, <1>3, <1>6, <1>8, <2>4, <2>5
    <2> QED BY <1>7, <2>1, <2>2, <2>3, <2>6 DEF HSound
  <1>14. HKeys(d) = HKeys(h) \ {k}
    <2>1. ASSUME NEW n \in HIds(d) PROVE d.KeyDatV[n].key \in HKeys(h) \ {k}
      BY <1>9 DEF HKeys
    <2>2. ASSUME NEW n \in HIds(h), h.KeyDatV[n].key # k PROVE h.KeyDatV[n].key \in HKeys(d)
      <3>1. n \in HIds(d)
        BY <1>3, <1>8, <2>2
      <3> QED BY <1>9, <3>1 DEF HKeys
    <2> QED BY <2>1, <2>2 DEF HKeys
  <1>15. ASSUME NEW j \in HKeys(d) PROVE HGetDat(d, j) = HGetDat(h, j)
    <2>1. PICK n \in HIds(d) : d.KeyDatV[n].key = j
      BY DEF HKeys
    <2>2. HGetDat(d, j) = d.KeyDatV[n].pt
      BY <1>13, <2>1, HDatAt
    <2>3. n \in HIds(h) /\ d.KeyDatV[n] = h.KeyDatV[n]
      BY <1>9
    <2>4. HGetDat(h, j) = h.KeyDatV[n].pt
      BY <2>1, <2>3, HDatAt
    <2> QED BY <2>2, <2>3, <2>4
  <1>16. ASSUME NEW n \in HIds(h), h.KeyDatV[n].key # k
         PROVE  n \in HIds(d) /\ d.KeyDatV[n].key = h.KeyDatV[n].key
    <2>1. n \in HIds(d)
      BY <1>3, <1>8, <1>16
    <2> QED BY <1>9, <2>1
  <1> QED BY <1>6, <1>7, <1>13, <1>14, <1>15, <1>16

(***************************************************************************)
(* A vector without free entries, as a sort or a conversion makes it.      *)
(***************************************************************************)
Stored == [key : DictKey, pt : DictPt]

LEMMA DenseSound ==
  ASSUME NEW h, NEW v \in Seq(Stored), h = [KeyDatV |-> v, FreeV |-> <<>>],
         \A m, n \in DOMAIN v : v[m].key = v[n].key => m = n
  PROVE  HSound(h) /\ HIds(h) = DOMAIN v /\ HKeys(h) = {v[n].key : n \in DOMAIN v}
  <1>1. Stored \subseteq Entry
    BY DEF Entry, Stored
  <1>2. v \in Seq(Entry) /\ Len(v) \in Nat /\ DOMAIN v = 1..Len(v)
    <2>1. v \in Seq(Entry)
      BY <1>1, SeqMonotonic
    <2> QED BY <2>1
  <1>3. h \in Hash /\ h.KeyDatV = v /\ h.FreeV = <<>>
    BY <1>2 DEF Hash
  <1>4. \A n \in DOMAIN v : v[n].key \in DictKey /\ v[n].pt \in DictPt
    <2> SUFFICES ASSUME NEW n \in DOMAIN v PROVE v[n].key \in DictKey /\ v[n].pt \in DictPt
      OBVIOUS
    <2>1. v[n] \in Stored
      BY <1>2, ElementOfSeq
    <2> QED BY <2>1 DEF Stored
  <1>5. HIds(h) = DOMAIN v
    BY <1>3, <1>4, KeyAssumption DEF HIds
  <1>6. HKeys(h) = {v[n].key : n \in DOMAIN v}
    BY <1>3, <1>5 DEF HKeys
  <1> QED BY <1>3, <1>4, <1>5, <1>6 DEF HSound

(***************************************************************************)
(* The array.                                                              *)
(***************************************************************************)
Ascending(v) == \A m, n \in DOMAIN v : m < n => v[m] < v[n]
Pos(v, k) == IF {n \in DOMAIN v : v[n] = k} = {} THEN 0 ELSE CHOOSE n \in {n \in DOMAIN v : v[n] = k} : TRUE

\* What is less than its neighbour is less than all that follow.
LEMMA StepsAscend ==
  ASSUME NEW v \in Seq(Int), \A n \in DOMAIN v : n > 1 => v[n - 1] < v[n]
  PROVE  Ascending(v)
  <1> DEFINE len == Len(v)
             S == {d \in Nat : \A m \in 1..len : m + d + 1 <= len => v[m] < v[m + d + 1]}
  <1>1. len \in Nat /\ DOMAIN v = 1..len /\ \A n \in 1..len : v[n] \in Int
    BY ElementOfSeq
  <1>2. 0 \in S
    <2> SUFFICES ASSUME NEW m \in 1..len, m + 0 + 1 <= len PROVE v[m] < v[m + 0 + 1]
      OBVIOUS
    <2>1. m + 1 \in 1..len /\ m + 1 > 1 /\ (m + 1) - 1 = m /\ m + 0 + 1 = m + 1
      BY <1>1
    <2>2. v[(m + 1) - 1] < v[m + 1]
      BY <1>1, <2>1
    <2> QED BY <2>1, <2>2
  <1>3. ASSUME NEW d \in Nat, d \in S PROVE d + 1 \in S
    <2> SUFFICES ASSUME NEW m \in 1..len, m + (d + 1) + 1 <= len PROVE v[m] < v[m + (d + 1) + 1]
      OBVIOUS
    <2>1. m \in Nat /\ m + d + 1 \in 1..len /\ m + (d + 1) + 1 \in 1..len /\ m + (d + 1) + 1 > 1
            /\ (m + (d + 1) + 1) - 1 = m + d + 1
      BY <1>1
    <2>2. v[m] < v[m + d + 1]
      BY <1>1, <1>3, <2>1
    <2>3. v[(m + (d + 1) + 1) - 1] < v[m + (d + 1) + 1]
      BY <1>1, <2>1
    <2>4. v[m] \in Int /\ v[m + d + 1] \in Int /\ v[m + (d + 1) + 1] \in Int
      BY <1>1, <2>1
    <2> QED BY <2>1, <2>2, <2>3, <2>4
  <1>4. \A d \in Nat : d \in S
    <2> HIDE DEF S
    <2> QED BY <1>2, <1>3, ByInduction
  <1> SUFFICES ASSUME NEW m \in 1..len, NEW n \in 1..len, m < n PROVE v[m] < v[n]
    BY <1>1 DEF Ascending
  <1>5. n - m - 1 \in Nat /\ m + (n - m - 1) + 1 = n /\ n <= len
    BY <1>1
  <1>6. v[m] < v[m + (n - m - 1) + 1]
    BY <1>4, <1>5
  <1> QED BY <1>5, <1>6

LEMMA PosIs ==
  ASSUME NEW v \in Seq(Int), Ascending(v), NEW k
  PROVE  /\ Pos(v, k) # 0 => Pos(v, k) \in DOMAIN v /\ v[Pos(v, k)] = k
         /\ \A n \in DOMAIN v : v[n] = k => Pos(v, k) = n
         /\ Pos(v, k) \in 0..Len(v) /\ DOMAIN v = 1..Len(v) /\ Len(v) \in Nat
  <1> DEFINE S == {n \in DOMAIN v : v[n] = k}
  <1>1. DOMAIN v = 1..Len(v) /\ Len(v) \in Nat
    OBVIOUS
  <1>2. S # {} => Pos(v, k) \in S
    BY DEF Pos
  <1>3. S = {} => Pos(v, k) = 0
    BY DEF Pos
  <1>4. \A m, n \in S : m = n
    <2> SUFFICES ASSUME NEW m \in DOMAIN v, NEW n \in DOMAIN v, v[m] = k, v[n] = k PROVE m = n
      OBVIOUS
    <2>1. m \in Int /\ n \in Int /\ v[m] \in Int
      BY <1>1, ElementOfSeq
    <2>2. ~(m < n) /\ ~(n < m)
      BY <2>1 DEF Ascending
    <2> QED BY <2>1, <2>2
  <1> QED BY <1>1, <1>2, <1>3, <1>4

(***************************************************************************)
(* The dictionary as a map.                                                *)
(***************************************************************************)
HAt(h, k) == IF k \in HKeys(h) THEN HGetDat(h, k) ELSE NoDictPt
VAt(v, p, k) == IF Pos(v, k) # 0 THEN p[Pos(v, k)] ELSE NoDictPt
EntryAt(k) == IF Type = "hash" THEN HAt(KeyBlobPtH, k)
         ELSE IF k \in HKeys(OverlayH) THEN HGetDat(OverlayH, k)
         ELSE VAt(SortedKeyV, SortedPtV, k)

\* What DictIInv adds: the two tables are sound.
DictIInv == EntriesSound /\ HSound(KeyBlobPtH) /\ HSound(OverlayH)

LEMMA AtIs ==
  ASSUME NEW k
  PROVE  (IF IsKey(k) THEN GetDat(k) ELSE NoDictPt) = EntryAt(k)
  <1>1. GetSortedKeyN(k) = Pos(SortedKeyV, k)
    BY DEF GetSortedKeyN, SortedIds, Pos
  <1> QED BY <1>1 DEF EntryAt, HAt, VAt, IsKey, GetDat, InArray, IsSortedTomb

LEMMA AtIsNext ==
  ASSUME NEW k
  PROVE  (IF IsKey(k)' THEN GetDat(k)' ELSE NoDictPt) = EntryAt(k)'
  <1>1. GetSortedKeyN(k)' = Pos(SortedKeyV', k)
    BY DEF GetSortedKeyN, SortedIds, Pos
  <1> QED BY <1>1 DEF EntryAt, HAt, VAt, IsKey, GetDat, InArray, IsSortedTomb

LEMMA ArrayIs ==
  ASSUME DictIInv
  PROVE  /\ SortedKeyV \in Seq(Int) /\ Ascending(SortedKeyV) /\ Len(SortedKeyV) \in Nat
         /\ DOMAIN SortedKeyV = 1..Len(SortedKeyV) /\ DOMAIN SortedPtV = DOMAIN SortedKeyV
         /\ \A n \in DOMAIN SortedKeyV :
              /\ SortedKeyV[n] \in DictKey /\ SortedPtV[n] \in DictPt \cup {NoDictPt}
              /\ Pos(SortedKeyV, SortedKeyV[n]) = n
              /\ n \in Alive <=> SortedPtV[n] # NoDictPt
         /\ Alive \subseteq DOMAIN SortedKeyV
         /\ \A k \in HKeys(OverlayH) : Pos(SortedKeyV, k) = 0
  <1>1. SortedKeyV \in Seq(DictKey) /\ SortedPtV \in Seq(DictPt \cup {NoDictPt}) /\ Len(SortedKeyV) = Len(SortedPtV)
    BY DEF DictIInv, EntriesSound, DictTypeOK
  <1>2. SortedKeyV \in Seq(Int)
    BY <1>1, KeyAssumption, SeqMonotonic
  <1>3. Ascending(SortedKeyV)
    BY <1>2, StepsAscend DEF DictIInv, EntriesSound, OneEntryPerKey
  <1>4. Len(SortedKeyV) \in Nat /\ DOMAIN SortedKeyV = 1..Len(SortedKeyV) /\ DOMAIN SortedPtV = DOMAIN SortedKeyV
    BY <1>1
  <1>5. ASSUME NEW n \in DOMAIN SortedKeyV
        PROVE  /\ SortedKeyV[n] \in DictKey /\ SortedPtV[n] \in DictPt \cup {NoDictPt}
               /\ Pos(SortedKeyV, SortedKeyV[n]) = n
               /\ n \in Alive <=> SortedPtV[n] # NoDictPt
    <2>1. SortedKeyV[n] \in DictKey
      BY <1>1, <1>4, ElementOfSeq
    <2>2. n \in 1..Len(SortedPtV)
      BY <1>1, <1>4
    <2>3. SortedPtV[n] \in DictPt \cup {NoDictPt}
      BY <1>1, <2>2, ElementOfSeq
    <2>4. Pos(SortedKeyV, SortedKeyV[n]) = n
      BY <1>2, <1>3, PosIs
    <2> QED BY <2>1, <2>3, <2>4 DEF Alive, IsSortedTomb
  <1>6. \A k : GetSortedKeyN(k) = Pos(SortedKeyV, k)
    BY DEF GetSortedKeyN, SortedIds, Pos
  <1>7. \A k \in HKeys(OverlayH) : Pos(SortedKeyV, k) = 0
    BY <1>6 DEF DictIInv, EntriesSound, OneEntryPerKey
  <1> QED BY <1>2, <1>3, <1>4, <1>5, <1>7 DEF Alive

\* A key is there if it has a pointer.
LEMMA KeyHasPtr ==
  ASSUME DictIInv, NEW k
  PROVE  /\ IsKey(k) <=> EntryAt(k) # NoDictPt
         /\ EntryAt(k) \in DictPt \cup {NoDictPt}
         /\ IsKey(k) => k \in DictKey /\ GetDat(k) = EntryAt(k)
  <1>1. (IF IsKey(k) THEN GetDat(k) ELSE NoDictPt) = EntryAt(k)
    BY AtIs
  <1>2. NoDictPt \notin DictPt
    BY KeyAssumption
  <1>3. KeyBlobPtH \in Hash /\ OverlayH \in Hash /\ HSound(KeyBlobPtH) /\ HSound(OverlayH)
    BY DEF DictIInv, HSound
  <1>4. \A h \in Hash : HKeys(h) \subseteq DictKey
    BY HashIs
  <1>5. CASE Type = "hash"
    <2>1. IsKey(k) <=> k \in HKeys(KeyBlobPtH)
      BY <1>5 DEF IsKey
    <2>2. IsKey(k) => GetDat(k) = HGetDat(KeyBlobPtH, k) /\ HGetDat(KeyBlobPtH, k) \in DictPt
      BY <1>3, <1>5, <2>1, HFound DEF GetDat
    <2> QED BY <1>1, <1>2, <1>3, <1>4, <2>1, <2>2
  <1>6. CASE Type # "hash"
    <2>1. GetSortedKeyN(k) = Pos(SortedKeyV, k)
      BY DEF GetSortedKeyN, SortedIds, Pos
    <2>2. CASE k \in HKeys(OverlayH)
      <3>1. IsKey(k) /\ GetDat(k) = HGetDat(OverlayH, k) /\ HGetDat(OverlayH, k) \in DictPt
        BY <1>3, <1>6, <2>2, HFound DEF GetDat, IsKey
      <3> QED BY <1>1, <1>2, <1>3, <1>4, <2>2, <3>1
    <2>3. CASE k \notin HKeys(OverlayH)
      <3>1. IsKey(k) <=> Pos(SortedKeyV, k) # 0 /\ SortedPtV[Pos(SortedKeyV, k)] # NoDictPt
        BY <1>6, <2>1, <2>3 DEF IsKey, InArray, IsSortedTomb
      <3>2. GetDat(k) = SortedPtV[Pos(SortedKeyV, k)]
        BY <1>6, <2>1, <2>3 DEF GetDat
      <3>3. Pos(SortedKeyV, k) # 0 => Pos(SortedKeyV, k) \in DOMAIN SortedKeyV /\ SortedKeyV[Pos(SortedKeyV, k)] = k
        BY ArrayIs, PosIs
      <3>4. Pos(SortedKeyV, k) # 0 => k \in DictKey /\ SortedPtV[Pos(SortedKeyV, k)] \in DictPt \cup {NoDictPt}
        <4> SUFFICES ASSUME Pos(SortedKeyV, k) # 0
                     PROVE  k \in DictKey /\ SortedPtV[Pos(SortedKeyV, k)] \in DictPt \cup {NoDictPt}
          OBVIOUS
        <4>1. PICK n \in DOMAIN SortedKeyV : n = Pos(SortedKeyV, k) /\ SortedKeyV[n] = k
          BY <3>3
        <4>2. \A m \in DOMAIN SortedKeyV : SortedKeyV[m] \in DictKey /\ SortedPtV[m] \in DictPt \cup {NoDictPt}
          BY ArrayIs
        <4> QED BY <4>1, <4>2
      <3> QED BY <1>1, <1>2, <3>1, <3>2, <3>4
    <2> QED BY <2>2, <2>3
  <1> QED BY <1>5, <1>6

(***************************************************************************)
(* DictKey ids.                                                                *)
(***************************************************************************)
Ids == IF Type = "hash" THEN HIds(KeyBlobPtH)
       ELSE Alive \cup {Len(SortedKeyV) + n : n \in HIds(OverlayH)}

\* What the ids of a vector of entries tell.
LEMMA HIdsTell ==
  ASSUME NEW h, HSound(h)
  PROVE  /\ HIds(h) \subseteq 1..Len(h.KeyDatV) /\ Len(h.KeyDatV) \in Nat
         /\ \A n \in HIds(h) : h.KeyDatV[n].key \in HKeys(h) /\ HGetDat(h, h.KeyDatV[n].key) = h.KeyDatV[n].pt
                                /\ h.KeyDatV[n].key \in DictKey /\ h.KeyDatV[n].pt \in DictPt
         /\ \A k \in HKeys(h) : \E n \in HIds(h) : h.KeyDatV[n].key = k
  <1>1. h \in Hash
    BY DEF HSound
  <1> QED BY <1>1, HashIs, HFound DEF HSound, HKeys

LEMMA IdsAre ==
  ASSUME DictIInv
  PROVE  /\ Ids \subseteq 1..MaxKeyId /\ MaxKeyId \in Nat
         /\ \A i \in 0..MaxKeyId : i \in Ids <=> IsKeyId(i)
         /\ \A i \in Ids : GetKey(i) \in DictKey /\ GetPt(i) \in DictPt /\ EntryAt(GetKey(i)) = GetPt(i)
         /\ \A k : EntryAt(k) # NoDictPt => \E i \in Ids : GetKey(i) = k
         /\ \A i, j \in Ids : GetKey(i) = GetKey(j) => i = j
  <1> DEFINE len == Len(SortedKeyV)
             over == OverlayH.KeyDatV
  <1>1. HSound(KeyBlobPtH) /\ HSound(OverlayH)
    BY DEF DictIInv
  <1>2. CASE Type = "hash"
    <2> DEFINE v == KeyBlobPtH.KeyDatV
    <2>1. /\ Ids = HIds(KeyBlobPtH) /\ MaxKeyId = Len(v)
          /\ \A i : (IsKeyId(i) <=> i \in HIds(KeyBlobPtH)) /\ GetKey(i) = v[i].key /\ GetPt(i) = v[i].pt
          /\ \A k : EntryAt(k) = HAt(KeyBlobPtH, k)
      BY <1>2 DEF Ids, MaxKeyId, IsKeyId, GetKey, GetPt, EntryAt
    <2>2. /\ HIds(KeyBlobPtH) \subseteq 1..Len(v) /\ Len(v) \in Nat
          /\ \A n \in HIds(KeyBlobPtH) :
               /\ v[n].key \in HKeys(KeyBlobPtH) /\ HGetDat(KeyBlobPtH, v[n].key) = v[n].pt
               /\ v[n].key \in DictKey /\ v[n].pt \in DictPt
          /\ \A k \in HKeys(KeyBlobPtH) : \E n \in HIds(KeyBlobPtH) : v[n].key = k
          /\ \A m, n \in HIds(KeyBlobPtH) : v[m].key = v[n].key => m = n
      BY <1>1, HIdsTell DEF HSound
    <2> HIDE DEF v
    <2>3. \A k : k \notin HKeys(KeyBlobPtH) => EntryAt(k) = NoDictPt
      BY <2>1 DEF HAt
    <2>4. \A k \in HKeys(KeyBlobPtH) : EntryAt(k) = HGetDat(KeyBlobPtH, k)
      BY <2>1 DEF HAt
    <2>5. \A i \in Ids : GetKey(i) \in DictKey /\ GetPt(i) \in DictPt /\ EntryAt(GetKey(i)) = GetPt(i)
      BY <2>1, <2>2, <2>4
    <2>6. \A k : EntryAt(k) # NoDictPt => \E i \in Ids : GetKey(i) = k
      BY <2>1, <2>2, <2>3
    <2>7. \A i, j \in Ids : GetKey(i) = GetKey(j) => i = j
      BY <2>1, <2>2
    <2> QED BY <2>1, <2>2, <2>5, <2>6, <2>7
  <1>3. CASE Type # "hash"
    <2>1. /\ len \in Nat /\ DOMAIN SortedKeyV = 1..len
          /\ \A n \in DOMAIN SortedKeyV :
              /\ SortedKeyV[n] \in DictKey /\ SortedPtV[n] \in DictPt \cup {NoDictPt}
              /\ Pos(SortedKeyV, SortedKeyV[n]) = n
              /\ n \in Alive <=> SortedPtV[n] # NoDictPt
          /\ Alive \subseteq DOMAIN SortedKeyV
          /\ \A k \in HKeys(OverlayH) : Pos(SortedKeyV, k) = 0
      BY ArrayIs
    <2>2. /\ HIds(OverlayH) \subseteq 1..Len(over) /\ Len(over) \in Nat
          /\ \A n \in HIds(OverlayH) :
               /\ over[n].key \in HKeys(OverlayH) /\ HGetDat(OverlayH, over[n].key) = over[n].pt
               /\ over[n].key \in DictKey /\ over[n].pt \in DictPt
          /\ \A k \in HKeys(OverlayH) : \E n \in HIds(OverlayH) : over[n].key = k
          /\ \A m, n \in HIds(OverlayH) : over[m].key = over[n].key => m = n
      BY <1>1, HIdsTell DEF HSound
    <2>3. /\ Ids = Alive \cup {len + n : n \in HIds(OverlayH)} /\ MaxKeyId = len + Len(over)
          /\ \A i : IsKeyId(i) <=> i \in Alive \/ i - len \in HIds(OverlayH)
          /\ \A i :
               /\ GetKey(i) = IF i <= len THEN SortedKeyV[i] ELSE over[i - len].key
               /\ GetPt(i) = IF i <= len THEN SortedPtV[i] ELSE over[i - len].pt
          /\ \A k : EntryAt(k) = IF k \in HKeys(OverlayH) THEN HGetDat(OverlayH, k) ELSE VAt(SortedKeyV, SortedPtV, k)
      BY <1>3 DEF Ids, MaxKeyId, IsKeyId, GetKey, GetPt, EntryAt
    <2> HIDE DEF len, over
    <2>4. Ids \subseteq 1..MaxKeyId /\ MaxKeyId \in Nat
      BY <2>1, <2>2, <2>3
    <2>5. \A i \in 0..MaxKeyId : i \in Ids <=> IsKeyId(i)
      <3> SUFFICES ASSUME NEW i \in 0..MaxKeyId PROVE i \in Ids <=> IsKeyId(i)
        OBVIOUS
      <3>1. i \in Int /\ i = len + (i - len)
        BY <2>1, <2>4
      <3>2. ASSUME NEW n \in HIds(OverlayH), i = len + n PROVE i - len = n
        BY <2>1, <2>2, <3>2
      <3> QED BY <2>3, <3>1, <3>2
    <2>6. \A n \in HIds(OverlayH) : ~(len + n <= len) /\ (len + n) - len = n
      BY <2>1, <2>2
    <2>7. ASSUME NEW n \in HIds(OverlayH)
          PROVE  /\ GetKey(len + n) = over[n].key /\ GetPt(len + n) = over[n].pt
                 /\ EntryAt(over[n].key) = over[n].pt
      BY <2>2, <2>3, <2>6
    <2>8. ASSUME NEW n \in Alive
          PROVE  /\ GetKey(n) = SortedKeyV[n] /\ GetPt(n) = SortedPtV[n] /\ SortedPtV[n] # NoDictPt
                 /\ SortedKeyV[n] \notin HKeys(OverlayH) /\ EntryAt(SortedKeyV[n]) = SortedPtV[n]
                 /\ SortedKeyV[n] \in DictKey /\ SortedPtV[n] \in DictPt
      <3>0. n \in DOMAIN SortedKeyV
        BY <2>1
      <3>1. n \in DOMAIN SortedKeyV /\ n <= len /\ Pos(SortedKeyV, SortedKeyV[n]) = n /\ n # 0
        BY <2>1, <3>0
      <3>2. SortedKeyV[n] \notin HKeys(OverlayH) /\ SortedPtV[n] # NoDictPt
        BY <2>1, <3>1
      <3>3. EntryAt(SortedKeyV[n]) = VAt(SortedKeyV, SortedPtV, SortedKeyV[n])
        BY <2>3, <3>2
      <3>4. VAt(SortedKeyV, SortedPtV, SortedKeyV[n]) = SortedPtV[n]
        BY <3>1 DEF VAt
      <3> QED BY <2>1, <2>3, <3>1, <3>2, <3>3, <3>4
    <2>9. \A i \in Ids : GetKey(i) \in DictKey /\ GetPt(i) \in DictPt /\ EntryAt(GetKey(i)) = GetPt(i)
      <3> SUFFICES ASSUME NEW i \in Ids
                   PROVE  GetKey(i) \in DictKey /\ GetPt(i) \in DictPt /\ EntryAt(GetKey(i)) = GetPt(i)
        OBVIOUS
      <3>1. CASE i \in Alive
        BY <2>8, <3>1
      <3>2. CASE i \notin Alive
        <4>1. PICK n \in HIds(OverlayH) : i = len + n
          BY <2>3, <3>2
        <4> QED BY <2>2, <2>7, <4>1
      <3> QED BY <3>1, <3>2
    <2>10. \A k : EntryAt(k) # NoDictPt => \E i \in Ids : GetKey(i) = k
      <3> SUFFICES ASSUME NEW k, EntryAt(k) # NoDictPt PROVE \E i \in Ids : GetKey(i) = k
        OBVIOUS
      <3>1. CASE k \in HKeys(OverlayH)
        <4>1. PICK n \in HIds(OverlayH) : over[n].key = k
          BY <2>2, <3>1
        <4> QED BY <2>3, <2>7, <4>1
      <3>2. CASE k \notin HKeys(OverlayH)
        <4>1. EntryAt(k) = VAt(SortedKeyV, SortedPtV, k)
          BY <2>3, <3>2
        <4>2. Pos(SortedKeyV, k) # 0 /\ SortedPtV[Pos(SortedKeyV, k)] # NoDictPt
          BY <4>1 DEF VAt
        <4>3. Pos(SortedKeyV, k) \in DOMAIN SortedKeyV /\ SortedKeyV[Pos(SortedKeyV, k)] = k
          BY <4>2, ArrayIs, PosIs
        <4>4. PICK n \in DOMAIN SortedKeyV : n = Pos(SortedKeyV, k)
          BY <4>3
        <4>5. n \in Alive /\ SortedKeyV[n] = k
          BY <2>1, <4>2, <4>3, <4>4
        <4> QED BY <2>3, <2>8, <4>5
      <3> QED BY <3>1, <3>2
    <2>11. ASSUME NEW i \in Ids, NEW j \in Ids, GetKey(i) = GetKey(j) PROVE i = j
      <3>1. \A m \in Ids : m \notin Alive => \E n \in HIds(OverlayH) : m = len + n
        BY <2>3
      <3>2. CASE i \in Alive /\ j \in Alive
        <4>1. SortedKeyV[i] = SortedKeyV[j]
          BY <2>8, <2>11, <3>2
        <4>2. i \in DOMAIN SortedKeyV /\ j \in DOMAIN SortedKeyV
          BY <2>1, <3>2
        <4>3. Pos(SortedKeyV, SortedKeyV[i]) = i /\ Pos(SortedKeyV, SortedKeyV[j]) = j
          BY <2>1, <4>2
        <4> QED BY <4>1, <4>3
      <3>3. CASE i \in Alive /\ j \notin Alive
        <4>1. PICK n \in HIds(OverlayH) : j = len + n
          BY <3>1, <3>3
        <4> QED BY <2>2, <2>7, <2>8, <2>11, <3>3, <4>1
      <3>4. CASE i \notin Alive /\ j \in Alive
        <4>1. PICK n \in HIds(OverlayH) : i = len + n
          BY <3>1, <3>4
        <4> QED BY <2>2, <2>7, <2>8, <2>11, <3>4, <4>1
      <3>5. CASE i \notin Alive /\ j \notin Alive
        <4>1. PICK m \in HIds(OverlayH) : i = len + m
          BY <3>1, <3>5
        <4>2. PICK n \in HIds(OverlayH) : j = len + n
          BY <3>1, <3>5
        <4>3. m = n
          BY <2>2, <2>7, <2>11, <4>1, <4>2
        <4> QED BY <4>1, <4>2, <4>3
      <3> QED BY <3>2, <3>3, <3>4, <3>5
    <2> QED BY <2>4, <2>5, <2>9, <2>10, <2>11
  <1> QED BY <1>2, <1>3

\* Their number is Len.
LEMMA IdsMany ==
  ASSUME DictIInv
  PROVE  IsFiniteSet(Ids) /\ Cardinality(Ids) = LenDict
  <1> DEFINE len == Len(SortedKeyV)
             O == {len + n : n \in HIds(OverlayH)}
  <1>1. HSound(KeyBlobPtH) /\ HSound(OverlayH)
    BY DEF DictIInv
  <1>2. CASE Type = "hash"
    BY <1>1, <1>2, HLenIs DEF Ids, LenDict
  <1>3. CASE Type # "hash"
    <2>1. len \in Nat /\ DOMAIN SortedKeyV = 1..len /\ Alive \in SUBSET (1..len)
      BY ArrayIs
    <2>2. HIds(OverlayH) \subseteq 1..Len(OverlayH.KeyDatV)
      BY <1>1, HIdsTell
    <2>3. SortedDels = Cardinality((1..len) \ Alive)
      BY <2>1 DEF DictIInv, EntriesSound, DictTypeOK
    <2>4. IsFiniteSet(HIds(OverlayH)) /\ Cardinality(HIds(OverlayH)) = HLen(OverlayH) /\ HLen(OverlayH) \in Nat
      BY <1>1, HLenIs
    <2> HIDE DEF len
    <2>5. IsFiniteSet(1..len) /\ Cardinality(1..len) = len
      BY <2>1, UpTo
    <2>6. IsFiniteSet(Alive) /\ Cardinality(Alive) \in Nat
      BY <2>1, <2>5, FS_Subset, FS_CardinalityType
    <2>7. SortedDels = len - Cardinality(Alive)
      BY <2>1, <2>3, <2>5, SizeOfRest
    <2>8. IsFiniteSet(O) /\ Cardinality(O) = HLen(OverlayH)
      <3> DEFINE f == [n \in HIds(OverlayH) |-> len + n]
      <3>1. f \in [HIds(OverlayH) -> O] /\ (\A z \in O : \E x \in HIds(OverlayH) : f[x] = z)
        OBVIOUS
      <3>2. \A x, y \in HIds(OverlayH) : f[x] = f[y] => x = y
        BY <2>1, <2>2
      <3> HIDE DEF f, O
      <3> QED BY <2>4, <3>1, <3>2, SameSize
    <2>9. Alive \cap O = {}
      BY <2>1, <2>2
    <2>10. Ids = Alive \cup O
      BY <1>3 DEF Ids, len
    <2>11. LenDict = len - SortedDels + HLen(OverlayH)
      BY <1>3 DEF LenDict, len
    <2> HIDE DEF O
    <2>12. IsFiniteSet(Alive \cup O)
             /\ Cardinality(Alive \cup O) = Cardinality(Alive) + Cardinality(O) - Cardinality(Alive \cap O)
      BY <2>6, <2>8, FS_Union
    <2>13. Cardinality(Alive \cap O) = 0
      BY <2>9, FS_EmptySet
    <2>14. Cardinality(Alive \cup O) = Cardinality(Alive) + HLen(OverlayH)
      BY <2>4, <2>6, <2>8, <2>12, <2>13
    <2>15. LenDict = Cardinality(Alive) + HLen(OverlayH)
      BY <2>1, <2>4, <2>6, <2>7, <2>11
    <2> QED BY <2>10, <2>12, <2>14, <2>15
  <1> QED BY <1>2, <1>3

(***************************************************************************)
(* Scans.                                                                  *)
(***************************************************************************)
Later(S, id) == {i \in S : i > id}
IsNext(S, id, n) == IF Later(S, id) = {} THEN n = 0 ELSE n \in Later(S, id) /\ \A i \in Later(S, id) : n <= i

LEMMA LeastChosen ==
  ASSUME NEW S \in SUBSET Nat, NEW id \in Int, Later(S, id) # {}
  PROVE  LET n == CHOOSE n \in Later(S, id) : \A m \in Later(S, id) : n <= m
         IN n \in Later(S, id) /\ \A m \in Later(S, id) : n <= m
  <1>1. Later(S, id) \in SUBSET Nat
    BY DEF Later
  <1> DEFINE L == Later(S, id)
  <1> HIDE DEF L
  <1>2. \E n \in L : \A m \in L : n <= m
    BY <1>1, LeastIs DEF L
  <1>3. LET n == CHOOSE n \in L : \A m \in L : n <= m IN n \in L /\ \A m \in L : n <= m
    BY <1>2
  <1> QED BY <1>3 DEF L

LEMMA HNextIs ==
  ASSUME NEW h, HSound(h), NEW id \in Int
  PROVE  IsNext(HIds(h), id, HNext(h, id))
  <1>1. HIds(h) \in SUBSET Nat
    BY HIdsTell
  <1>2. HNext(h, id) = IF Later(HIds(h), id) = {} THEN 0
                       ELSE CHOOSE n \in Later(HIds(h), id) : \A m \in Later(HIds(h), id) : n <= m
    BY DEF HNext, Later
  <1>3. CASE Later(HIds(h), id) = {}
    BY <1>2, <1>3 DEF IsNext
  <1>4. CASE Later(HIds(h), id) # {}
    BY <1>1, <1>2, <1>4, LeastChosen DEF IsNext
  <1> QED BY <1>3, <1>4

LEMMA NextIs ==
  ASSUME DictIInv, NEW id \in Nat
  PROVE  IsNext(Ids, id, NextKeyId(id))
  <1> DEFINE len == Len(SortedKeyV)
             O == {len + n : n \in HIds(OverlayH)}
  <1>1. HSound(KeyBlobPtH) /\ HSound(OverlayH)
    BY DEF DictIInv
  <1>2. CASE Type = "hash"
    <2>1. NextKeyId(id) = HNext(KeyBlobPtH, id) /\ Ids = HIds(KeyBlobPtH)
      BY <1>2 DEF NextKeyId, Ids
    <2> QED BY <1>1, <2>1, HNextIs
  <1>3. CASE Type # "hash"
    <2> DEFINE from == IF id <= len THEN 0 ELSE id - len
               over == HNext(OverlayH, from)
    <2>1. len \in Nat /\ Alive \subseteq 1..len
      BY ArrayIs
    <2>2. HIds(OverlayH) \subseteq 1..Len(OverlayH.KeyDatV)
      BY <1>1, HIdsTell
    <2>3. Ids = Alive \cup O
      BY <1>3 DEF Ids
    <2>4. NextKeyId(id) = IF Later(Alive, id) # {}
                          THEN CHOOSE n \in Later(Alive, id) : \A m \in Later(Alive, id) : n <= m
                          ELSE IF over = 0 THEN 0 ELSE len + over
      BY <1>3 DEF NextKeyId, Later
    <2>5. from \in Nat
      BY <2>1
    <2>6. IsNext(HIds(OverlayH), from, over)
      BY <1>1, <2>5, HNextIs
    <2>7. CASE Later(Alive, id) # {}
      <3> DEFINE n == CHOOSE n \in Later(Alive, id) : \A m \in Later(Alive, id) : n <= m
      <3>1. Alive \in SUBSET Nat /\ id \in Int
        BY <2>1
      <3>2. n \in Later(Alive, id) /\ \A m \in Later(Alive, id) : n <= m
        BY <2>7, <3>1, LeastChosen
      <3>3. NextKeyId(id) = n
        BY <2>4, <2>7
      <3> HIDE DEF n
      <3>4. n \in Later(Ids, id) /\ n \in Alive
        BY <2>3, <3>2 DEF Later
      <3>5. ASSUME NEW i \in Later(Ids, id) PROVE n <= i
        <4>1. CASE i \in Alive
          BY <3>2, <3>5, <4>1 DEF Later
        <4>2. CASE i \notin Alive
          <5>1. PICK k \in HIds(OverlayH) : i = len + k
            BY <2>3, <3>5, <4>2 DEF Later
          <5> QED BY <2>1, <2>2, <3>4, <5>1
        <4> QED BY <4>1, <4>2
      <3> QED BY <3>3, <3>4, <3>5 DEF IsNext
    <2>8. CASE Later(Alive, id) = {}
      <3>1. ASSUME NEW i PROVE i \in Later(Ids, id) <=> \E k \in Later(HIds(OverlayH), from) : i = len + k
        <4>1. ASSUME i \in Later(Ids, id) PROVE \E k \in Later(HIds(OverlayH), from) : i = len + k
          <5>1. i \in Ids /\ i > id /\ i \notin Alive
            BY <2>8, <4>1 DEF Later
          <5>2. PICK k \in HIds(OverlayH) : i = len + k
            BY <2>3, <5>1
          <5>3. k > from
            BY <2>1, <2>2, <5>1, <5>2
          <5> QED BY <5>2, <5>3 DEF Later
        <4>2. ASSUME NEW k \in Later(HIds(OverlayH), from), i = len + k PROVE i \in Later(Ids, id)
          <5>1. k \in HIds(OverlayH) /\ k > from /\ k \in Nat
            BY <2>2 DEF Later
          <5>2. i \in Ids
            BY <2>3, <4>2, <5>1
          <5>3. i > id
            BY <2>1, <4>2, <5>1
          <5> QED BY <5>2, <5>3 DEF Later
        <4> QED BY <4>1, <4>2
      <3>2. NextKeyId(id) = IF over = 0 THEN 0 ELSE len + over
        BY <2>4, <2>8
      <3>3. Later(HIds(OverlayH), from) \subseteq Nat \ {0}
        BY <2>2 DEF Later
      <3> HIDE DEF from, over, len
      <3>4. CASE Later(HIds(OverlayH), from) = {}
        <4>1. over = 0
          BY <2>6, <3>4 DEF IsNext
        <4>2. Later(Ids, id) = {}
          BY <3>1, <3>4
        <4> QED BY <3>2, <4>1, <4>2 DEF IsNext
      <3>5. CASE Later(HIds(OverlayH), from) # {}
        <4>1. over \in Later(HIds(OverlayH), from) /\ \A i \in Later(HIds(OverlayH), from) : over <= i
          BY <2>6, <3>5 DEF IsNext
        <4>2. over # 0 /\ over \in Nat /\ NextKeyId(id) = len + over
          BY <3>2, <3>3, <4>1
        <4>3. NextKeyId(id) \in Later(Ids, id)
          BY <3>1, <4>1, <4>2
        <4>4. ASSUME NEW i \in Later(Ids, id) PROVE len + over <= i
          <5>1. PICK k \in Later(HIds(OverlayH), from) : i = len + k
            BY <3>1
          <5>2. over <= k /\ k \in Nat
            BY <3>3, <4>1
          <5> QED BY <2>1, <4>2, <5>1, <5>2 DEF len
        <4> QED BY <4>2, <4>3, <4>4 DEF IsNext
      <3> QED BY <3>4, <3>5
    <2> QED BY <2>7, <2>8
  <1> QED BY <1>2, <1>3

\* An ascending vector of a set.
Enumerates(s, S) == s \in Seq(Nat) /\ Ascending(s) /\ {s[n] : n \in DOMAIN s} = S

LEMMA Prepended ==
  ASSUME NEW S, NEW s, Enumerates(s, S), NEW x \in Nat, \A y \in S : x < y
  PROVE  Enumerates(<<x>> \o s, S \cup {x})
  <1> DEFINE t == <<x>> \o s
  <1>1. s \in Seq(Nat) /\ Len(s) \in Nat /\ DOMAIN s = 1..Len(s) /\ \A n \in DOMAIN s : s[n] \in S /\ s[n] \in Nat
    BY ElementOfSeq DEF Enumerates
  <1>2. <<x>> \in Seq(Nat) /\ Len(<<x>>) = 1 /\ <<x>>[1] = x
    OBVIOUS
  <1>3. t \in Seq(Nat) /\ Len(t) = Len(s) + 1 /\ \A i \in 1..Len(s) + 1 : t[i] = IF i <= 1 THEN x ELSE s[i - 1]
    BY <1>1, <1>2, ConcatProperties
  <1> HIDE DEF t
  <1>4. DOMAIN t = 1..Len(s) + 1
    BY <1>3
  <1>5. 1 \in DOMAIN t /\ t[1] = x
    <2>1. 1 \in 1..Len(s) + 1
      BY <1>1
    <2> QED BY <1>3, <1>4, <2>1
  <1>6. \A i \in DOMAIN t : i # 1 => i - 1 \in DOMAIN s /\ t[i] = s[i - 1] /\ i > 1
    BY <1>1, <1>3, <1>4
  <1>7. \A i \in DOMAIN s : i + 1 \in DOMAIN t /\ t[i + 1] = s[i]
    <2> SUFFICES ASSUME NEW i \in DOMAIN s PROVE i + 1 \in DOMAIN t /\ t[i + 1] = s[i]
      OBVIOUS
    <2>1. i + 1 \in DOMAIN t /\ i + 1 # 1 /\ (i + 1) - 1 = i
      BY <1>1, <1>4
    <2> QED BY <1>6, <2>1
  <1>8. Ascending(t)
    <2> SUFFICES ASSUME NEW m \in DOMAIN t, NEW n \in DOMAIN t, m < n PROVE t[m] < t[n]
      BY DEF Ascending
    <2>0. m \in Int /\ n \in Int /\ m >= 1
      BY <1>1, <1>4
    <2>1. n # 1 /\ n - 1 \in DOMAIN s /\ t[n] = s[n - 1] /\ s[n - 1] \in S
      BY <1>1, <1>6, <2>0
    <2>2. CASE m = 1
      BY <1>5, <2>1, <2>2
    <2>3. CASE m # 1
      <3>1. m - 1 \in DOMAIN s /\ t[m] = s[m - 1] /\ m - 1 < n - 1
        BY <1>6, <2>0, <2>3
      <3> QED BY <2>1, <3>1 DEF Ascending, Enumerates
    <2> QED BY <2>2, <2>3
  <1>9. {t[n] : n \in DOMAIN t} = S \cup {x}
    <2>1. ASSUME NEW n \in DOMAIN t PROVE t[n] \in S \cup {x}
      BY <1>1, <1>5, <1>6
    <2>2. ASSUME NEW y \in S PROVE y \in {t[n] : n \in DOMAIN t}
      <3>1. PICK i \in DOMAIN s : s[i] = y
        BY DEF Enumerates
      <3> QED BY <1>7, <3>1
    <2>3. x \in {t[n] : n \in DOMAIN t}
      BY <1>5
    <2> QED BY <2>1, <2>2, <2>3
  <1> QED BY <1>3, <1>8, <1>9 DEF Enumerates, t

\* What ScanV walks: at each id, the next one and what follows it.
After(g, id) == IF NextKeyId(id) = 0 THEN <<>> ELSE <<NextKeyId(id)>> \o g[NextKeyId(id)]

LEMMA ScanIs ==
  ASSUME DictIInv
  PROVE  \E g : ScanV = g[0] /\ \A id \in 0..MaxKeyId : g[id] = After(g, id)
  <1> DEFINE Max == MaxKeyId
             Walks(g) == g = [id \in 0..Max |-> After(g, id)]
             Upper(d) == \E g : \A id \in 0..Max : id + d >= Max => g[id] = After(g, id)
             S == {d \in Nat : Upper(d)}
  <1>1. Max \in Nat /\ Ids \subseteq 1..Max
    BY IdsAre
  <1>2. ASSUME NEW id \in 0..Max PROVE NextKeyId(id) = 0 \/ (NextKeyId(id) \in 0..Max /\ NextKeyId(id) > id)
    <2>1. IsNext(Ids, id, NextKeyId(id))
      BY <1>1, NextIs
    <2>2. CASE Later(Ids, id) = {}
      <3>1. NextKeyId(id) = 0
        BY <2>1, <2>2 DEF IsNext
      <3> QED BY <3>1
    <2>3. CASE Later(Ids, id) # {}
      <3>1. NextKeyId(id) \in Later(Ids, id)
        BY <2>1, <2>3 DEF IsNext
      <3>2. NextKeyId(id) \in Ids /\ NextKeyId(id) > id
        BY <3>1 DEF Later
      <3>3. NextKeyId(id) \in 1..Max
        BY <1>1, <3>2
      <3> QED BY <1>1, <3>2, <3>3
    <2> QED BY <2>2, <2>3
  <1> HIDE DEF Max
  <1>3. 0 \in S
    <2> DEFINE g == [id \in 0..Max |-> <<>>]
    <2>1. ASSUME NEW id \in 0..Max, id + 0 >= Max PROVE g[id] = After(g, id)
      <3>1. NextKeyId(id) = 0
        BY <1>1, <1>2, <2>1
      <3> QED BY <3>1 DEF After
    <2> HIDE DEF g
    <2>2. \A id \in 0..Max : id + 0 >= Max => g[id] = After(g, id)
      BY <2>1
    <2> QED BY <2>2
  <1>4. ASSUME NEW d \in Nat, d \in S PROVE d + 1 \in S
    <2>1. PICK g : \A id \in 0..Max : id + d >= Max => g[id] = After(g, id)
      BY <1>4
    <2> DEFINE f == [id \in 0..Max |-> IF id + d >= Max THEN g[id] ELSE After(g, id)]
    <2>2. \A id \in 0..Max : f[id] = After(g, id)
      BY <2>1
    <2>3. \A id \in 0..Max : id + d >= Max => f[id] = g[id]
      OBVIOUS
    <2> HIDE DEF f
    <2>4. ASSUME NEW id \in 0..Max, id + (d + 1) >= Max PROVE f[id] = After(f, id)
      <3>1. CASE NextKeyId(id) = 0
        BY <2>2, <3>1 DEF After
      <3>2. CASE NextKeyId(id) # 0
        <4>1. NextKeyId(id) \in 0..Max /\ NextKeyId(id) > id
          BY <1>2, <3>2
        <4>2. NextKeyId(id) + d >= Max
          BY <1>1, <2>4, <4>1
        <4>3. f[NextKeyId(id)] = g[NextKeyId(id)]
          BY <2>3, <4>1, <4>2
        <4> QED BY <2>2, <4>3 DEF After
      <3> QED BY <3>1, <3>2
    <2>5. Upper(d + 1)
      BY <2>4
    <2> QED BY <2>5
  <1>5. Upper(Max)
    <2> HIDE DEF Upper
    <2>1. \A d \in Nat : d \in S
      <3> HIDE DEF S
      <3> QED BY <1>3, <1>4, ByInduction
    <2> QED BY <1>1, <2>1
  <1>6. \E g : Walks(g)
    <2>1. PICK g : \A id \in 0..Max : id + Max >= Max => g[id] = After(g, id)
      BY <1>5
    <2> DEFINE f == [id \in 0..Max |-> g[id]]
    <2>2. \A id \in 0..Max : f[id] = After(g, id) /\ f[id] = g[id]
      BY <1>1, <2>1
    <2> HIDE DEF f
    <2>3. \A id \in 0..Max : After(g, id) = After(f, id)
      BY <1>2, <2>2 DEF After
    <2>4. f = [id \in 0..Max |-> After(f, id)]
      <3>1. f = [id \in 0..Max |-> f[id]]
        BY DEF f
      <3> QED BY <2>2, <2>3, <3>1
    <2> QED BY <2>4
  <1> DEFINE w == CHOOSE g : Walks(g)
  <1>7. Walks(w)
    BY <1>6
  <1>8. ScanV = w[0]
    BY DEF ScanV, After, Max
  <1> HIDE DEF w
  <1>9. \A id \in 0..Max : w[id] = After(w, id)
    BY <1>7
  <1> QED BY <1>8, <1>9 DEF Max

LEMMA ScanEnumerates ==
  ASSUME DictIInv
  PROVE  Enumerates(ScanV, Ids)
  <1>1. PICK g : ScanV = g[0] /\ \A id \in 0..MaxKeyId : g[id] = After(g, id)
    BY ScanIs
  <1> DEFINE Max == MaxKeyId
             S == {d \in Nat : \A id \in 0..Max : id + d >= Max => Enumerates(g[id], Later(Ids, id))}
  <1>2. Max \in Nat /\ Ids \subseteq 1..Max
    BY IdsAre
  <1>3. \A id \in 0..Max : IsNext(Ids, id, NextKeyId(id))
    BY <1>2, NextIs
  <1>4. \A id \in 0..Max : g[id] = After(g, id)
    BY <1>1
  <1> HIDE DEF Max
  <1>5. ASSUME NEW id \in 0..Max, Later(Ids, id) = {} PROVE Enumerates(g[id], Later(Ids, id))
    <2>1. g[id] = <<>>
      BY <1>3, <1>4, <1>5 DEF IsNext, After
    <2> QED BY <1>5, <2>1 DEF Enumerates, Ascending
  <1>6. 0 \in S
    <2> SUFFICES ASSUME NEW id \in 0..Max, id + 0 >= Max PROVE Enumerates(g[id], Later(Ids, id))
      OBVIOUS
    <2>1. Later(Ids, id) = {}
      <3> SUFFICES ASSUME NEW i \in Later(Ids, id) PROVE FALSE
        OBVIOUS
      <3>1. i \in 1..Max /\ i > id
        BY <1>2 DEF Later
      <3> QED BY <1>2, <3>1
    <2> QED BY <1>5, <2>1
  <1>7. ASSUME NEW d \in Nat, d \in S PROVE d + 1 \in S
    <2> SUFFICES ASSUME NEW id \in 0..Max, id + (d + 1) >= Max PROVE Enumerates(g[id], Later(Ids, id))
      OBVIOUS
    <2> DEFINE n == NextKeyId(id)
    <2>1. CASE Later(Ids, id) = {}
      BY <1>5, <2>1
    <2>2. CASE Later(Ids, id) # {}
      <3>1. n \in Later(Ids, id) /\ \A i \in Later(Ids, id) : n <= i
        BY <1>3, <2>2 DEF IsNext
      <3> HIDE DEF n
      <3>2. n \in Ids /\ n > id /\ n \in 1..Max
        BY <1>2, <3>1 DEF Later
      <3>3. n \in 0..Max /\ n + d >= Max /\ n \in Nat
        BY <1>2, <3>2
      <3>4. Enumerates(g[n], Later(Ids, n))
        BY <1>7, <3>3
      <3>5. Later(Ids, id) = Later(Ids, n) \cup {n}
        <4>1. ASSUME NEW i \in Ids PROVE i > id <=> i > n \/ i = n
          <5>1. i \in Int /\ n \in Int /\ id \in Int
            BY <1>2, <3>2
          <5>2. i > id => n <= i
            BY <3>1 DEF Later
          <5> QED BY <3>2, <5>1, <5>2
        <4> QED BY <3>2, <4>1 DEF Later
      <3>6. \A y \in Later(Ids, n) : n < y
        BY <1>2, <3>3 DEF Later
      <3>7. Enumerates(<<n>> \o g[n], Later(Ids, n) \cup {n})
        BY <3>3, <3>4, <3>6, Prepended
      <3>8. g[id] = <<n>> \o g[n]
        <4>1. n # 0
          BY <1>2, <3>2
        <4>2. g[id] = After(g, id)
          BY <1>4
        <4> QED BY <4>1, <4>2 DEF n, After
      <3> QED BY <3>5, <3>7, <3>8
    <2> QED BY <2>1, <2>2
  <1>8. \A d \in Nat : d \in S
    <2> HIDE DEF S
    <2> QED BY <1>6, <1>7, ByInduction
  <1>9. Enumerates(g[0], Later(Ids, 0))
    <2>1. 0 \in 0..Max /\ 0 + Max >= Max
      BY <1>2
    <2> QED BY <1>2, <1>8, <2>1
  <1>10. Later(Ids, 0) = Ids
    <2>1. \A i \in Ids : i > 0
      BY <1>2
    <2> QED BY <2>1 DEF Later
  <1> QED BY <1>1, <1>9, <1>10

(***************************************************************************)
(* Asking.                                                                 *)
(***************************************************************************)
LEMMA LenIs == DictIInv => LenExact
  <1> SUFFICES ASSUME DictIInv PROVE LenExact
    OBVIOUS
  <1> DEFINE K == {k \in DictKey : IsKey(k)}
             f == [i \in Ids |-> GetKey(i)]
  <1>1. f \in [Ids -> K]
    <2> SUFFICES ASSUME NEW i \in Ids PROVE GetKey(i) \in K
      OBVIOUS
    <2>1. GetKey(i) \in DictKey /\ EntryAt(GetKey(i)) \in DictPt
      BY IdsAre
    <2>2. EntryAt(GetKey(i)) # NoDictPt
      BY <2>1, KeyAssumption
    <2> QED BY <2>1, <2>2, KeyHasPtr
  <1>2. \A x, y \in Ids : f[x] = f[y] => x = y
    BY IdsAre
  <1>3. \A z \in K : \E x \in Ids : f[x] = z
    <2> SUFFICES ASSUME NEW z \in DictKey, IsKey(z) PROVE \E x \in Ids : f[x] = z
      OBVIOUS
    <2>1. EntryAt(z) # NoDictPt
      BY KeyHasPtr
    <2> QED BY <2>1, IdsAre
  <1> HIDE DEF f, K
  <1>4. Cardinality(K) = LenDict
    BY <1>1, <1>2, <1>3, IdsMany, SameSize
  <1> QED BY <1>4 DEF LenExact, K

LEMMA ScanIsExact == DictIInv => ScanExact
  <1> SUFFICES ASSUME DictIInv PROVE ScanExact
    OBVIOUS
  <1> DEFINE s == ScanV
  <1>1. Enumerates(s, Ids)
    BY ScanEnumerates
  <1>2. /\ Ids \subseteq 1..MaxKeyId /\ MaxKeyId \in Nat
        /\ \A i \in 0..MaxKeyId : i \in Ids <=> IsKeyId(i)
        /\ \A i \in Ids : GetKey(i) \in DictKey /\ GetPt(i) \in DictPt /\ EntryAt(GetKey(i)) = GetPt(i)
        /\ \A k : EntryAt(k) # NoDictPt => \E i \in Ids : GetKey(i) = k
        /\ \A i, j \in Ids : GetKey(i) = GetKey(j) => i = j
    BY IdsAre
  <1>11. \A i \in Ids : i \in Int /\ i \in 0..MaxKeyId
    <2>1. Ids \subseteq 1..MaxKeyId /\ MaxKeyId \in Nat
      BY IdsAre
    <2> QED BY <2>1
  <1> HIDE DEF s
  <1>3. Len(s) \in Nat /\ DOMAIN s = 1..Len(s) /\ \A n \in DOMAIN s : s[n] \in Ids
    BY <1>1 DEF Enumerates
  <1>4. \A i \in Ids : \E n \in DOMAIN s : s[n] = i
    BY <1>1 DEF Enumerates
  <1>5. Len(s) = LenDict
    <2> DEFINE f == [n \in DOMAIN s |-> s[n]]
    <2>1. f \in [DOMAIN s -> Ids] /\ \A z \in Ids : \E x \in DOMAIN s : f[x] = z
      BY <1>3, <1>4
    <2>2. ASSUME NEW m \in DOMAIN s, NEW n \in DOMAIN s, f[m] = f[n] PROVE m = n
      <3>1. m \in Int /\ n \in Int /\ s[m] \in Int /\ s[m] = s[n]
        <4>1. s[m] \in Ids /\ s[m] = s[n]
          BY <1>3, <2>2
        <4> QED BY <1>3, <1>11, <4>1
      <3>2. ~(m < n) /\ ~(n < m)
        BY <1>1, <3>1 DEF Enumerates, Ascending
      <3> QED BY <3>1, <3>2
    <2> HIDE DEF f
    <2>3. IsFiniteSet(DOMAIN s) /\ Cardinality(DOMAIN s) = Len(s)
      BY <1>3, UpTo
    <2>4. Cardinality(Ids) = Cardinality(DOMAIN s)
      BY <2>1, <2>2, <2>3, SameSize
    <2> QED BY <2>3, <2>4, IdsMany
  <1>6. \A i \in Ids : IsKey(GetKey(i)) /\ GetDat(GetKey(i)) = GetPt(i)
    <2> SUFFICES ASSUME NEW i \in Ids PROVE IsKey(GetKey(i)) /\ GetDat(GetKey(i)) = GetPt(i)
      OBVIOUS
    <2>1. EntryAt(GetKey(i)) = GetPt(i) /\ GetPt(i) # NoDictPt
      BY <1>2, KeyAssumption
    <2> QED BY <2>1, KeyHasPtr
  <1>7. \A n \in DOMAIN s : IsKeyId(s[n])
    <2> SUFFICES ASSUME NEW n \in DOMAIN s PROVE IsKeyId(s[n])
      OBVIOUS
    <2>1. s[n] \in Ids
      BY <1>3
    <2>2. s[n] \in 0..MaxKeyId
      BY <1>11, <2>1
    <2> QED BY <1>2, <2>1, <2>2
  <1> DEFINE there == {<<GetKey(s[n]), GetPt(s[n])>> : n \in DOMAIN s}
             due == {<<k, GetDat(k)>> : k \in {j \in DictKey : IsKey(j)}}
  <1>8. ASSUME NEW n \in DOMAIN s PROVE <<GetKey(s[n]), GetPt(s[n])>> \in due
    <2> DEFINE k == GetKey(s[n])
    <2>1. k \in DictKey /\ IsKey(k) /\ GetPt(s[n]) = GetDat(k)
      BY <1>2, <1>3, <1>6
    <2> HIDE DEF k
    <2>2. <<k, GetPt(s[n])>> \in due
      BY <2>1
    <2> QED BY <2>2 DEF k
  <1>9. ASSUME NEW k \in DictKey, IsKey(k) PROVE <<k, GetDat(k)>> \in there
    <2>1. EntryAt(k) # NoDictPt
      BY <1>9, KeyHasPtr
    <2>2. PICK i \in Ids : GetKey(i) = k
      BY <1>2, <2>1
    <2>3. PICK n \in DOMAIN s : s[n] = i
      BY <1>4
    <2>4. GetDat(k) = GetPt(s[n]) /\ k = GetKey(s[n])
      BY <1>6, <2>2, <2>3
    <2> QED BY <2>4
  <1>10. there = due
    BY <1>8, <1>9
  <1> QED BY <1>5, <1>7, <1>10 DEF ScanExact, s

(***************************************************************************)
(* The binary search.                                                      *)
(***************************************************************************)
Mid(lo, hi) == lo + ((hi - lo) \div 2)
Halve(v, k, g, lo, hi) ==
  IF lo > hi THEN 0
  ELSE IF v[Mid(lo, hi)] < k THEN g[<<Mid(lo, hi) + 1, hi>>]
  ELSE IF k < v[Mid(lo, hi)] THEN g[<<lo, Mid(lo, hi) - 1>>]
  ELSE Mid(lo, hi)

\* What a range is to tell.
Answer(v, k, lo, hi) == IF \E n \in lo..hi : v[n] = k THEN Pos(v, k) ELSE 0

LEMMA MidIs ==
  ASSUME NEW lo \in Int, NEW hi \in Int, lo <= hi
  PROVE  Mid(lo, hi) \in lo..hi
  <1> DEFINE h == (hi - lo) \div 2
  <1>1. h \in Int /\ 0 <= h /\ h <= hi - lo
    OBVIOUS
  <1> HIDE DEF h
  <1>2. Mid(lo, hi) = lo + h
    BY DEF Mid, h
  <1> QED BY <1>1, <1>2

\* Where a key is not in the half that is left out, the other half tells.
LEMMA AnswerHalves ==
  ASSUME NEW v \in Seq(Int), Ascending(v), NEW k \in Int, NEW lo \in 1..Len(v) + 1, NEW hi \in 0..Len(v)
  PROVE  Answer(v, k, lo, hi) =
           IF lo > hi THEN 0
           ELSE IF v[Mid(lo, hi)] < k THEN Answer(v, k, Mid(lo, hi) + 1, hi)
           ELSE IF k < v[Mid(lo, hi)] THEN Answer(v, k, lo, Mid(lo, hi) - 1)
           ELSE Mid(lo, hi)
  <1>1. Len(v) \in Nat /\ DOMAIN v = 1..Len(v) /\ \A n \in 1..Len(v) : v[n] \in Int
    BY ElementOfSeq
  <1>2. CASE lo > hi
    BY <1>1, <1>2 DEF Answer
  <1>3. CASE lo <= hi
    <2>1. PICK mid \in Int : mid = Mid(lo, hi) /\ mid \in lo..hi
      <3>1. Mid(lo, hi) \in lo..hi
        BY <1>1, <1>3, MidIs
      <3> QED BY <1>1, <3>1
    <2>2. mid \in DOMAIN v /\ v[mid] \in Int /\ lo \in Int /\ hi \in Int
      BY <1>1, <2>1
    <2>3. \A n \in lo..hi : n \in DOMAIN v /\ v[n] \in Int /\ (n < mid => v[n] < v[mid]) /\ (mid < n => v[mid] < v[n])
      <3> SUFFICES ASSUME NEW n \in lo..hi
                   PROVE  n \in DOMAIN v /\ v[n] \in Int /\ (n < mid => v[n] < v[mid]) /\ (mid < n => v[mid] < v[n])
        OBVIOUS
      <3>1. n \in 1..Len(v)
        BY <1>1
      <3> QED BY <1>1, <2>2, <3>1 DEF Ascending
    <2>4. CASE v[mid] < k
      <3>1. (\E n \in lo..hi : v[n] = k) <=> (\E n \in mid + 1..hi : v[n] = k)
        <4>1. ASSUME NEW n \in lo..hi, v[n] = k PROVE n \in mid + 1..hi
          <5>1. n \in Int /\ n <= hi /\ v[n] \in Int /\ ~(v[n] < v[mid]) /\ v[n] # v[mid]
            BY <2>2, <2>3, <2>4, <4>1
          <5>2. ~(n < mid) /\ n # mid
            BY <2>3, <5>1
          <5> QED BY <2>1, <2>2, <5>1, <5>2
        <4>2. ASSUME NEW n \in mid + 1..hi PROVE n \in lo..hi
          BY <2>1, <2>2
        <4> QED BY <4>1, <4>2
      <3>2. Answer(v, k, lo, hi) = Answer(v, k, mid + 1, hi)
        BY <3>1 DEF Answer
      <3> QED BY <1>1, <1>3, <2>1, <2>4, <3>2
    <2>5. CASE k < v[mid]
      <3>1. (\E n \in lo..hi : v[n] = k) <=> (\E n \in lo..mid - 1 : v[n] = k)
        <4>1. ASSUME NEW n \in lo..hi, v[n] = k PROVE n \in lo..mid - 1
          <5>1. n \in Int /\ lo <= n /\ v[n] \in Int /\ ~(v[mid] < v[n]) /\ v[n] # v[mid]
            BY <2>2, <2>3, <2>5, <4>1
          <5>2. ~(mid < n) /\ n # mid
            BY <2>3, <5>1
          <5> QED BY <2>1, <2>2, <5>1, <5>2
        <4>2. ASSUME NEW n \in lo..mid - 1 PROVE n \in lo..hi
          BY <2>1, <2>2
        <4> QED BY <4>1, <4>2
      <3>2. Answer(v, k, lo, hi) = Answer(v, k, lo, mid - 1)
        BY <3>1 DEF Answer
      <3> QED BY <1>1, <1>3, <2>1, <2>2, <2>5, <3>2
    <2>6. CASE v[mid] = k
      <3>1. Pos(v, k) = mid
        BY <2>2, <2>6, PosIs
      <3>2. Answer(v, k, lo, hi) = mid
        BY <2>1, <2>6, <3>1 DEF Answer
      <3> QED BY <1>1, <1>3, <2>1, <2>2, <2>6, <3>2
    <2> QED BY <2>2, <2>4, <2>5, <2>6
  <1> QED BY <1>1, <1>2, <1>3

LEMMA SearchIs ==
  ASSUME SortedKeyV \in Seq(Int), Ascending(SortedKeyV), NEW k \in Int
  PROVE  Search(k) = Pos(SortedKeyV, k)
  <1> DEFINE len == Len(SortedKeyV)
             D == (1..len + 1) \X (0..len)
             Walks(g) == g = [range \in D |-> Halve(SortedKeyV, k, g, range[1], range[2])]
             A(lo, hi) == Answer(SortedKeyV, k, lo, hi)
             f == [range \in D |-> A(range[1], range[2])]
  <1>1. len \in Nat /\ DOMAIN SortedKeyV = 1..len
    OBVIOUS
  <1>2. \A lo \in 1..len + 1, hi \in 0..len : f[<<lo, hi>>] = A(lo, hi)
    OBVIOUS
  <1>3. \A lo \in 1..len + 1, hi \in 0..len : lo <= hi =>
           Mid(lo, hi) \in lo..hi /\ Mid(lo, hi) + 1 \in 1..len + 1 /\ Mid(lo, hi) - 1 \in 0..len
    <2> SUFFICES ASSUME NEW lo \in 1..len + 1, NEW hi \in 0..len, lo <= hi
                 PROVE  Mid(lo, hi) \in lo..hi /\ Mid(lo, hi) + 1 \in 1..len + 1 /\ Mid(lo, hi) - 1 \in 0..len
      OBVIOUS
    <2>1. lo \in Int /\ hi \in Int
      BY <1>1
    <2>2. Mid(lo, hi) \in lo..hi
      BY <2>1, MidIs
    <2> QED BY <1>1, <2>2
  <1>4. \A lo \in 1..len + 1, hi \in 0..len :
          A(lo, hi) = IF lo > hi THEN 0
                      ELSE IF SortedKeyV[Mid(lo, hi)] < k THEN A(Mid(lo, hi) + 1, hi)
                      ELSE IF k < SortedKeyV[Mid(lo, hi)] THEN A(lo, Mid(lo, hi) - 1)
                      ELSE Mid(lo, hi)
    BY AnswerHalves
  <1> HIDE DEF A, len
  <1>5. \A lo \in 1..len + 1, hi \in 0..len : f[<<lo, hi>>] = Halve(SortedKeyV, k, f, lo, hi)
    <2> SUFFICES ASSUME NEW lo \in 1..len + 1, NEW hi \in 0..len
                 PROVE  f[<<lo, hi>>] = Halve(SortedKeyV, k, f, lo, hi)
      OBVIOUS
    <2>0. lo \in Int /\ hi \in Int
      BY <1>1
    <2> HIDE DEF f
    <2>1. CASE lo > hi
      BY <1>2, <1>4, <2>1 DEF Halve
    <2>2. CASE lo <= hi
      <3>1. f[<<Mid(lo, hi) + 1, hi>>] = A(Mid(lo, hi) + 1, hi) /\ f[<<lo, Mid(lo, hi) - 1>>] = A(lo, Mid(lo, hi) - 1)
        BY <1>2, <1>3, <2>2
      <3> QED BY <1>2, <1>4, <3>1 DEF Halve
    <2> QED BY <2>0, <2>1, <2>2
  <1>6. Walks(f)
    <2>1. ASSUME NEW range \in D PROVE f[range] = Halve(SortedKeyV, k, f, range[1], range[2])
      <3>1. PICK lo \in 1..len + 1, hi \in 0..len : range = <<lo, hi>>
        OBVIOUS
      <3>2. range[1] = lo /\ range[2] = hi
        BY <3>1
      <3> HIDE DEF f
      <3> QED BY <1>5, <3>1, <3>2
    <2>2. f = [range \in D |-> f[range]]
      OBVIOUS
    <2> HIDE DEF f, D
    <2> QED BY <2>1, <2>2
  <1> DEFINE w == CHOOSE g : Walks(g)
  <1>7. Walks(w)
    <2> HIDE DEF Walks
    <2> QED BY <1>6
  <1>8. Search(k) = w[<<1, len>>]
    BY DEF Search, Halve, Mid, len
  <1> HIDE DEF w, f
  <1>9. \A lo \in 1..len + 1, hi \in 0..len : w[<<lo, hi>>] = Halve(SortedKeyV, k, w, lo, hi)
    <2> SUFFICES ASSUME NEW lo \in 1..len + 1, NEW hi \in 0..len
                 PROVE  w[<<lo, hi>>] = Halve(SortedKeyV, k, w, lo, hi)
      OBVIOUS
    <2> DEFINE range == <<lo, hi>>
    <2>1. range \in D /\ range[1] = lo /\ range[2] = hi
      OBVIOUS
    <2> HIDE DEF range
    <2>2. w[range] = Halve(SortedKeyV, k, w, range[1], range[2])
      BY <1>7, <2>1, Zenon
    <2> QED BY <2>1, <2>2 DEF range
  <1> HIDE DEF Walks
  <1> DEFINE S == {d \in Nat : \A lo \in 1..len + 1, hi \in 0..len : hi < lo + d => w[<<lo, hi>>] = A(lo, hi)}
  <1>10. 0 \in S
    <2> SUFFICES ASSUME NEW lo \in 1..len + 1, NEW hi \in 0..len, hi < lo + 0 PROVE w[<<lo, hi>>] = A(lo, hi)
      OBVIOUS
    <2>1. lo > hi
      BY <1>1
    <2> QED BY <1>4, <1>9, <2>1 DEF Halve
  <1>11. ASSUME NEW d \in Nat, d \in S PROVE d + 1 \in S
    <2>8. d + 1 \in Nat
      OBVIOUS
    <2> SUFFICES ASSUME NEW lo \in 1..len + 1, NEW hi \in 0..len, hi < lo + (d + 1) PROVE w[<<lo, hi>>] = A(lo, hi)
      BY <2>8
    <2>9. lo \in Int /\ hi \in Int
      BY <1>1
    <2>1. CASE lo > hi
      BY <1>4, <1>9, <2>1 DEF Halve
    <2>2. CASE lo <= hi
      <3>1. PICK mid \in Int : mid = Mid(lo, hi) /\ mid \in lo..hi /\ mid + 1 \in 1..len + 1 /\ mid - 1 \in 0..len
        <4>1. Mid(lo, hi) \in Int
          BY <1>3, <2>9, <2>2
        <4> QED BY <1>3, <2>2, <4>1
      <3>2. hi < (mid + 1) + d /\ mid - 1 < lo + d
        BY <2>9, <3>1
      <3>3. w[<<mid + 1, hi>>] = A(mid + 1, hi) /\ w[<<lo, mid - 1>>] = A(lo, mid - 1)
        BY <1>11, <3>1, <3>2
      <3> QED BY <1>4, <1>9, <3>1, <3>3 DEF Halve
    <2> QED BY <2>9, <2>1, <2>2
  <1>12. \A d \in Nat : d \in S
    <2> HIDE DEF S
    <2> QED BY <1>10, <1>11, ByInduction
  <1>13. w[<<1, len>>] = A(1, len)
    <2>1. 1 \in 1..len + 1 /\ len \in 0..len /\ len < 1 + len
      BY <1>1
    <2>2. len \in S
      <3> HIDE DEF S
      <3> QED BY <1>1, <1>12
    <2> QED BY <2>1, <2>2
  <1>14. A(1, len) = Pos(SortedKeyV, k)
    <2>1. Pos(SortedKeyV, k) # 0 => Pos(SortedKeyV, k) \in 1..len /\ SortedKeyV[Pos(SortedKeyV, k)] = k
      BY <1>1, PosIs
    <2> QED BY <2>1 DEF A, Answer
  <1> QED BY <1>8, <1>13, <1>14

LEMMA SearchIsExact == DictIInv => SearchExact
  <1> SUFFICES ASSUME DictIInv, NEW k \in DictKey PROVE Search(k) = GetSortedKeyN(k)
    BY DEF SearchExact
  <1>1. k \in Int
    BY KeyAssumption
  <1>2. Search(k) = Pos(SortedKeyV, k)
    BY <1>1, ArrayIs, SearchIs
  <1> QED BY <1>2 DEF GetSortedKeyN, SortedIds, Pos

(***************************************************************************)
(* The operations, on a dictionary of type T with the hash table H, the    *)
(* array of keys v and pointers p, with d tombstones, and the overlay O.   *)
(***************************************************************************)
Tombs(p) == {n \in DOMAIN p : p[n] = NoDictPt}
Sound(T, H, v, p, d, O) ==
  /\ T \in {"hash", "sorted"} /\ HSound(H) /\ HSound(O)
  /\ v \in Seq(DictKey) /\ p \in Seq(DictPt \cup {NoDictPt}) /\ Len(v) = Len(p)
  /\ d = Cardinality(Tombs(p))
  /\ Ascending(v) /\ \A k \in HKeys(O) : Pos(v, k) = 0
  /\ IF T = "hash" THEN v = <<>> /\ O = EmptyHash ELSE H = EmptyHash
AtOf(T, H, v, p, O, k) ==
  IF T = "hash" THEN HAt(H, k) ELSE IF k \in HKeys(O) THEN HGetDat(O, k) ELSE VAt(v, p, k)

LEMMA SoundNow ==
  ASSUME DictIInv
  PROVE  /\ Sound(Type, KeyBlobPtH, SortedKeyV, SortedPtV, SortedDels, OverlayH)
         /\ \A k : EntryAt(k) = AtOf(Type, KeyBlobPtH, SortedKeyV, SortedPtV, OverlayH, k)
  <1>1. Ascending(SortedKeyV) /\ \A k \in HKeys(OverlayH) : Pos(SortedKeyV, k) = 0
    BY ArrayIs
  <1>2. Tombs(SortedPtV) = DOMAIN SortedKeyV \ Alive
    BY ArrayIs DEF Tombs, Alive, IsSortedTomb
  <1>3. SortedDels = Cardinality(Tombs(SortedPtV))
    BY <1>2 DEF DictIInv, EntriesSound, DictTypeOK
  <1>4. Sound(Type, KeyBlobPtH, SortedKeyV, SortedPtV, SortedDels, OverlayH)
    BY <1>1, <1>3 DEF DictIInv, EntriesSound, DictTypeOK, Sound
  <1> QED BY <1>4 DEF EntryAt, AtOf

LEMMA SoundNext ==
  ASSUME Sound(Type', KeyBlobPtH', SortedKeyV', SortedPtV', SortedDels', OverlayH')
  PROVE  /\ DictIInv'
         /\ \A k : EntryAt(k)' = AtOf(Type', KeyBlobPtH', SortedKeyV', SortedPtV', OverlayH', k)
  <1>1. PICK v, p, d, H, O : v = SortedKeyV' /\ p = SortedPtV' /\ d = SortedDels' /\ H = KeyBlobPtH' /\ O = OverlayH'
    OBVIOUS
  <1>2. Sound(Type', H, v, p, d, O)
    BY <1>1
  <1>3. Len(v) = Len(p) /\ DOMAIN v = DOMAIN p /\ DOMAIN v = 1..Len(v) /\ Len(v) \in Nat
    BY <1>2 DEF Sound
  <1>4. Alive' = {n \in DOMAIN v : p[n] # NoDictPt}
    BY <1>1 DEF Alive, IsSortedTomb
  <1>5. DOMAIN v \ {n \in DOMAIN v : p[n] # NoDictPt} = Tombs(p)
    BY <1>3 DEF Tombs
  <1>6. SortedDels' = Cardinality(DOMAIN SortedKeyV' \ Alive')
    BY <1>1, <1>2, <1>4, <1>5 DEF Sound
  <1>7. H \in Hash /\ O \in Hash
    BY <1>2 DEF Sound, HSound
  <1>8. DictTypeOK'
    BY <1>1, <1>2, <1>6, <1>7 DEF DictTypeOK, Sound
  <1>9. \A n \in DOMAIN v : n > 1 => v[n - 1] < v[n]
    <2> SUFFICES ASSUME NEW n \in DOMAIN v, n > 1 PROVE v[n - 1] < v[n]
      OBVIOUS
    <2>1. n - 1 \in DOMAIN v /\ n - 1 < n
      BY <1>3
    <2> QED BY <1>2, <2>1 DEF Sound, Ascending
  <1>10. \A k : GetSortedKeyN(k)' = Pos(v, k)
    BY <1>1 DEF GetSortedKeyN, SortedIds, Pos
  <1>11. HSound(H) /\ HSound(O) /\ \A k \in HKeys(O) : Pos(v, k) = 0
    BY <1>2 DEF Sound
  <1>12. Cardinality(HIds(H)) = Cardinality(HKeys(H)) /\ Cardinality(HIds(O)) = Cardinality(HKeys(O))
    BY <1>11, HKeysMany
  <1>13. OneEntryPerKey'
    BY <1>1, <1>9, <1>10, <1>11, <1>12 DEF OneEntryPerKey
  <1>14. DictIInv'
    BY <1>1, <1>8, <1>11, <1>13 DEF DictIInv, EntriesSound
  <1> QED BY <1>14 DEF EntryAt, AtOf

LEMMA TombsFinite ==
  ASSUME NEW p, NEW X, p \in Seq(X)
  PROVE  IsFiniteSet(Tombs(p)) /\ Tombs(p) \subseteq DOMAIN p /\ DOMAIN p = 1..Len(p) /\ Len(p) \in Nat
         /\ Cardinality(Tombs(p)) \in Nat
  <1>1. Tombs(p) \in SUBSET (1..Len(p)) /\ DOMAIN p = 1..Len(p) /\ Len(p) \in Nat
    BY DEF Tombs
  <1>2. IsFiniteSet(1..Len(p))
    BY <1>1, UpTo
  <1>3. IsFiniteSet(Tombs(p))
    BY <1>1, <1>2, FS_Subset
  <1> QED BY <1>1, <1>3, FS_CardinalityType

\* An operation on one of the tables.
LEMMA HAtAdd ==
  ASSUME NEW h, HSound(h), NEW k \in DictKey, NEW x \in DictPt, NEW j
  PROVE  HAt(HAddDat(h, k, x), j) = IF j = k THEN x ELSE HAt(h, j)
  BY HAddIs DEF HAt

LEMMA HAtDel ==
  ASSUME NEW h, HSound(h), NEW k \in HKeys(h), NEW j
  PROVE  HAt(HDelKey(h, k), j) = IF j = k THEN NoDictPt ELSE HAt(h, j)
  BY HDelIs DEF HAt

LEMMA HashAdds ==
  ASSUME NEW H, NEW v, NEW p, NEW d, NEW O, Sound("hash", H, v, p, d, O), NEW k \in DictKey, NEW x \in DictPt
  PROVE  /\ Sound("hash", HAddDat(H, k, x), v, p, d, O)
         /\ \A j : AtOf("hash", HAddDat(H, k, x), v, p, O, j) = IF j = k THEN x ELSE AtOf("hash", H, v, p, O, j)
  <1>1. HSound(H)
    BY DEF Sound
  <1>2. HSound(HAddDat(H, k, x))
    BY <1>1, HAddIs
  <1> QED BY <1>1, <1>2, HAtAdd DEF Sound, AtOf

LEMMA HashDeletes ==
  ASSUME NEW H, NEW v, NEW p, NEW d, NEW O, Sound("hash", H, v, p, d, O), NEW k \in HKeys(H)
  PROVE  /\ Sound("hash", HDelKey(H, k), v, p, d, O)
         /\ \A j : AtOf("hash", HDelKey(H, k), v, p, O, j) = IF j = k THEN NoDictPt ELSE AtOf("hash", H, v, p, O, j)
  <1>1. HSound(H)
    BY DEF Sound
  <1>2. HSound(HDelKey(H, k))
    BY <1>1, HDelIs
  <1> QED BY <1>1, <1>2, HAtDel DEF Sound, AtOf

LEMMA OverlayAdds ==
  ASSUME NEW H, NEW v, NEW p, NEW d, NEW O, Sound("sorted", H, v, p, d, O), NEW k \in DictKey, NEW x \in DictPt,
         k \in HKeys(O) \/ Pos(v, k) = 0
  PROVE  /\ Sound("sorted", H, v, p, d, HAddDat(O, k, x))
         /\ \A j : AtOf("sorted", H, v, p, HAddDat(O, k, x), j) = IF j = k THEN x ELSE AtOf("sorted", H, v, p, O, j)
  <1> DEFINE N == HAddDat(O, k, x)
  <1>1. HSound(O) /\ \A j \in HKeys(O) : Pos(v, j) = 0
    BY DEF Sound
  <1>2. /\ HSound(N) /\ HKeys(N) = HKeys(O) \cup {k} /\ HGetDat(N, k) = x
        /\ \A j \in HKeys(O) : j # k => HGetDat(N, j) = HGetDat(O, j)
    BY <1>1, HAddIs
  <1> HIDE DEF N
  <1>3. \A j \in HKeys(N) : Pos(v, j) = 0
    BY <1>1, <1>2
  <1>4. Sound("sorted", H, v, p, d, N)
    BY <1>2, <1>3 DEF Sound
  <1>5. \A j : AtOf("sorted", H, v, p, N, j) = IF j = k THEN x ELSE AtOf("sorted", H, v, p, O, j)
    BY <1>2 DEF AtOf
  <1> QED BY <1>4, <1>5 DEF N

LEMMA OverlayDeletes ==
  ASSUME NEW H, NEW v, NEW p, NEW d, NEW O, Sound("sorted", H, v, p, d, O), NEW k \in HKeys(O)
  PROVE  /\ Sound("sorted", H, v, p, d, HDelKey(O, k))
         /\ \A j : AtOf("sorted", H, v, p, HDelKey(O, k), j) = IF j = k THEN NoDictPt ELSE AtOf("sorted", H, v, p, O, j)
  <1> DEFINE N == HDelKey(O, k)
  <1>1. HSound(O) /\ \A j \in HKeys(O) : Pos(v, j) = 0
    BY DEF Sound
  <1>2. HSound(N) /\ HKeys(N) = HKeys(O) \ {k} /\ \A j \in HKeys(N) : HGetDat(N, j) = HGetDat(O, j)
    BY <1>1, HDelIs
  <1> HIDE DEF N
  <1>3. \A j \in HKeys(N) : Pos(v, j) = 0
    BY <1>1, <1>2
  <1>4. Sound("sorted", H, v, p, d, N)
    BY <1>2, <1>3 DEF Sound
  <1>5. VAt(v, p, k) = NoDictPt
    BY <1>1 DEF VAt
  <1>6. \A j : AtOf("sorted", H, v, p, N, j) = IF j = k THEN NoDictPt ELSE AtOf("sorted", H, v, p, O, j)
    BY <1>2, <1>5 DEF AtOf
  <1> QED BY <1>4, <1>6 DEF N

\* Writing a pointer, or a tombstone, over another one.
Rewrites(q, p, n, x, X) ==
  /\ q \in Seq(X) /\ Len(q) = Len(p) /\ DOMAIN q = DOMAIN p /\ q[n] = x
  /\ \A i \in DOMAIN p : i # n => q[i] = p[i]

LEMMA TombsChange ==
  ASSUME NEW X, NEW p \in Seq(X), NEW n \in DOMAIN p, NEW x \in X, NEW q, Rewrites(q, p, n, x, X)
  PROVE  /\ Cardinality(Tombs(p)) \in Nat
         /\ Cardinality(Tombs(q)) = Cardinality(Tombs(p)) - (IF p[n] = NoDictPt THEN 1 ELSE 0)
                                                          + (IF x = NoDictPt THEN 1 ELSE 0)
  <1>1. DOMAIN p = 1..Len(p) /\ n \in 1..Len(p) /\ Len(p) \in Nat
    OBVIOUS
  <1>2. q \in Seq(X) /\ Len(q) = Len(p) /\ DOMAIN q = DOMAIN p /\ q[n] = x /\ \A i \in DOMAIN p : i # n => q[i] = p[i]
    BY DEF Rewrites
  <1>3. IsFiniteSet(Tombs(p)) /\ Cardinality(Tombs(p)) \in Nat
    BY TombsFinite
  <1>4. Tombs(q) = IF x = NoDictPt THEN (Tombs(p) \ {n}) \cup {n} ELSE Tombs(p) \ {n}
    BY <1>1, <1>2 DEF Tombs
  <1>5. n \in Tombs(p) <=> p[n] = NoDictPt
    BY DEF Tombs
  <1>6. IsFiniteSet(Tombs(p) \ {n})
         /\ Cardinality(Tombs(p) \ {n}) = IF n \in Tombs(p) THEN Cardinality(Tombs(p)) - 1 ELSE Cardinality(Tombs(p))
    BY <1>3, FS_RemoveElement
  <1>7. Cardinality((Tombs(p) \ {n}) \cup {n}) = Cardinality(Tombs(p) \ {n}) + 1
    BY <1>6, FS_AddElement
  <1>8. Cardinality(Tombs(q)) = Cardinality(Tombs(p)) - (IF p[n] = NoDictPt THEN 1 ELSE 0) + (IF x = NoDictPt THEN 1 ELSE 0)
    <2>1. CASE x = NoDictPt
      BY <1>3, <1>4, <1>5, <1>6, <1>7, <2>1
    <2>2. CASE x # NoDictPt
      BY <1>3, <1>4, <1>5, <1>6, <2>2
    <2> QED BY <2>1, <2>2
  <1> QED BY <1>3, <1>8

LEMMA Rewritten ==
  ASSUME NEW X, NEW p \in Seq(X), NEW n \in DOMAIN p, NEW x \in X, NEW q, q = [p EXCEPT ![n] = x]
  PROVE  Rewrites(q, p, n, x, X)
  <1>1. DOMAIN p = 1..Len(p) /\ n \in 1..Len(p) /\ Len(p) \in Nat
    OBVIOUS
  <1> QED BY <1>1, ExceptSeq DEF Rewrites

LEMMA Overwrites ==
  ASSUME NEW H, NEW v, NEW p, NEW d, NEW O, Sound("sorted", H, v, p, d, O), NEW k, NEW x \in DictPt \cup {NoDictPt},
         k \notin HKeys(O), Pos(v, k) # 0, NEW q, Rewrites(q, p, Pos(v, k), x, DictPt \cup {NoDictPt})
  PROVE  /\ Sound("sorted", H, v, q, Cardinality(Tombs(q)), O)
         /\ \A j : AtOf("sorted", H, v, q, O, j) = IF j = k THEN x ELSE AtOf("sorted", H, v, p, O, j)
  <1> DEFINE n == Pos(v, k)
             X == DictPt \cup {NoDictPt}
  <1>1. v \in Seq(DictKey) /\ p \in Seq(X) /\ Len(v) = Len(p) /\ Ascending(v)
    BY DEF Sound
  <1>2. v \in Seq(Int)
    BY <1>1, KeyAssumption, SeqMonotonic
  <1>3. n \in DOMAIN v /\ v[n] = k /\ \A j : Pos(v, j) # 0 => Pos(v, j) \in DOMAIN v /\ v[Pos(v, j)] = j
    BY <1>1, <1>2, PosIs
  <1> HIDE DEF n
  <1>5. DOMAIN p = DOMAIN v
    BY <1>1
  <1>6. q \in Seq(X) /\ Len(q) = Len(p) /\ DOMAIN q = DOMAIN p /\ q[n] = x /\ \A i \in DOMAIN p : i # n => q[i] = p[i]
    BY DEF Rewrites, n
  <1>7. Sound("sorted", H, v, q, Cardinality(Tombs(q)), O)
    BY <1>1, <1>6 DEF Sound
  <1>8. ASSUME NEW j PROVE AtOf("sorted", H, v, q, O, j) = IF j = k THEN x ELSE AtOf("sorted", H, v, p, O, j)
    <2>1. CASE j = k
      BY <1>3, <1>6, <2>1 DEF AtOf, VAt, n
    <2>2. CASE j # k
      <3>1. Pos(v, j) # 0 => Pos(v, j) # n /\ Pos(v, j) \in DOMAIN p
        BY <1>3, <1>5, <2>2
      <3> QED BY <1>6, <2>2, <3>1 DEF AtOf, VAt
    <2> QED BY <2>1, <2>2
  <1> QED BY <1>7, <1>8

\* A key that is greater than all the others.
LEMMA Appends ==
  ASSUME NEW H, NEW v, NEW p, NEW d, NEW O, Sound("sorted", H, v, p, d, O), NEW k \in DictKey, NEW x \in DictPt,
         k \notin HKeys(O), Pos(v, k) = 0, v # <<>> => v[Len(v)] < k
  PROVE  /\ Sound("sorted", H, Append(v, k), Append(p, x), d, O)
         /\ \A j : AtOf("sorted", H, Append(v, k), Append(p, x), O, j)
                     = IF j = k THEN x ELSE AtOf("sorted", H, v, p, O, j)
         /\ \A i \in DOMAIN v : i \in DOMAIN Append(v, k) /\ Append(v, k)[i] = v[i] /\ Append(p, x)[i] = p[i]
  <1> DEFINE w == Append(v, k)
             q == Append(p, x)
             X == DictPt \cup {NoDictPt}
             len == Len(v)
  <1>1. v \in Seq(DictKey) /\ p \in Seq(X) /\ len = Len(p) /\ len \in Nat /\ Ascending(v) /\ DOMAIN v = 1..len
          /\ DOMAIN p = 1..len /\ \A j \in HKeys(O) : Pos(v, j) = 0
    BY DEF Sound
  <1>2. v \in Seq(Int) /\ k \in Int /\ \A i \in 1..len : v[i] \in Int
    <2>1. v \in Seq(Int)
      BY <1>1, KeyAssumption, SeqMonotonic
    <2> QED BY <2>1, KeyAssumption, ElementOfSeq
  <1>3. w \in Seq(DictKey) /\ Len(w) = len + 1 /\ DOMAIN w = 1..len + 1 /\ w[len + 1] = k /\ \A i \in 1..len : w[i] = v[i]
    BY <1>1
  <1>4. q \in Seq(X) /\ Len(q) = len + 1 /\ DOMAIN q = 1..len + 1 /\ q[len + 1] = x /\ \A i \in 1..len : q[i] = p[i]
    <2>1. x \in X
      OBVIOUS
    <2> HIDE DEF X
    <2> QED BY <1>1, <2>1
  <1> HIDE DEF w, q, len
  <1>5. \A i \in 1..len + 1 : i \in 1..len \/ i = len + 1
    BY <1>1
  <1>6. \A i \in 1..len : v[i] < k
    <2> SUFFICES ASSUME NEW i \in 1..len PROVE v[i] < k
      OBVIOUS
    <2>1. len \in 1..len /\ i \in Int
      BY <1>1
    <2>2. v # <<>>
      BY <1>1, <2>1
    <2>3. v[len] < k
      BY <2>2 DEF len
    <2>4. i = len \/ v[i] < v[len]
      BY <1>1, <2>1 DEF Ascending
    <2> QED BY <1>2, <2>1, <2>3, <2>4
  <1>7. Ascending(w)
    <2> SUFFICES ASSUME NEW m \in 1..len + 1, NEW n \in 1..len + 1, m < n PROVE w[m] < w[n]
      BY <1>3 DEF Ascending
    <2>1. m \in 1..len /\ m \in Int
      BY <1>1
    <2>2. CASE n \in 1..len
      BY <1>1, <1>3, <2>1, <2>2 DEF Ascending
    <2>3. CASE n = len + 1
      BY <1>3, <1>6, <2>1, <2>3
    <2> QED BY <1>5, <2>2, <2>3
  <1>8. w \in Seq(Int)
    BY <1>3, KeyAssumption, SeqMonotonic
  <1>9. ASSUME NEW j PROVE Pos(w, j) = IF j = k THEN len + 1 ELSE Pos(v, j)
    <2>1. CASE j = k
      <3>1. len + 1 \in DOMAIN w
        BY <1>1, <1>3
      <3> QED BY <1>3, <1>7, <1>8, <2>1, <3>1, PosIs
    <2>2. CASE j # k /\ Pos(v, j) # 0
      <3>1. PICK i \in 1..len : i = Pos(v, j) /\ v[i] = j
        BY <1>1, <1>2, <2>2, PosIs
      <3>2. i \in DOMAIN w /\ w[i] = j
        BY <1>1, <1>3, <3>1
      <3> QED BY <1>7, <1>8, <2>2, <3>1, <3>2, PosIs
    <2>3. CASE j # k /\ Pos(v, j) = 0
      <3>1. \A i \in 1..len : v[i] # j
        BY <1>1, <1>2, <2>3, PosIs
      <3>2. \A i \in DOMAIN w : w[i] # j
        BY <1>3, <1>5, <2>3, <3>1
      <3>3. Pos(w, j) = 0
        BY <3>2 DEF Pos
      <3> QED BY <2>3, <3>3
    <2> QED BY <2>1, <2>2, <2>3
  <1>10. Tombs(q) = Tombs(p)
    <2>1. x # NoDictPt
      BY KeyAssumption
    <2> QED BY <1>1, <1>4, <1>5, <2>1 DEF Tombs
  <1>11. \A j \in HKeys(O) : Pos(w, j) = 0
    BY <1>1, <1>9
  <1>12. Sound("sorted", H, w, q, d, O)
    BY <1>3, <1>4, <1>7, <1>10, <1>11 DEF Sound
  <1>13. len + 1 # 0 /\ \A j : Pos(v, j) # 0 => Pos(v, j) \in 1..len
    BY <1>1, <1>2, PosIs
  <1>14. \A j : AtOf("sorted", H, w, q, O, j) = IF j = k THEN x ELSE AtOf("sorted", H, v, p, O, j)
    BY <1>4, <1>9, <1>13 DEF AtOf, VAt
  <1>15. \A i \in DOMAIN v : i \in DOMAIN w /\ w[i] = v[i] /\ q[i] = p[i]
    BY <1>1, <1>3, <1>4
  <1> QED BY <1>12, <1>14, <1>15 DEF w, q

\* What a step does to the map.
Put(k, x) == DictIInv' /\ \A j : EntryAt(j)' = IF j = k THEN x ELSE EntryAt(j)
Same      == DictIInv' /\ \A j : EntryAt(j)' = EntryAt(j)
NoEntries     == DictIInv' /\ \A j : EntryAt(j)' = NoDictPt

LEMMA EmptyIs ==
  ASSUME NEW T \in {"hash", "sorted"}
  PROVE  /\ Sound(T, EmptyHash, <<>>, <<>>, 0, EmptyHash)
         /\ \A k : AtOf(T, EmptyHash, <<>>, <<>>, EmptyHash, k) = NoDictPt
  <1>1. HSound(EmptyHash) /\ HKeys(EmptyHash) = {}
    BY EmptyHashSound
  <1>2. Tombs(<<>>) = {}
    BY DEF Tombs
  <1>3. Cardinality(Tombs(<<>>)) = 0
    BY <1>2, FS_EmptySet
  <1>4. <<>> \in Seq(DictKey) /\ <<>> \in Seq(DictPt \cup {NoDictPt}) /\ Ascending(<<>>)
    BY DEF Ascending
  <1>5. ASSUME NEW k PROVE Pos(<<>>, k) = 0
    <2>1. {n \in DOMAIN <<>> : <<>>[n] = k} = {}
      OBVIOUS
    <2> QED BY <2>1 DEF Pos
  <1>6. Sound(T, EmptyHash, <<>>, <<>>, 0, EmptyHash)
    BY <1>1, <1>3, <1>4 DEF Sound
  <1> QED BY <1>1, <1>5, <1>6 DEF AtOf, HAt, VAt

LEMMA InitKeeps == DictInit => DictIInv /\ \A k : EntryAt(k) = NoDictPt
  <1> SUFFICES ASSUME DictInit PROVE DictIInv /\ \A k : EntryAt(k) = NoDictPt
    OBVIOUS
  <1>1. /\ Type \in {"hash", "sorted"} /\ KeyBlobPtH = EmptyHash /\ OverlayH = EmptyHash
        /\ SortedKeyV = <<>> /\ SortedPtV = <<>> /\ SortedDels = 0
    BY DEF DictInit
  <1>2. HSound(EmptyHash) /\ HIds(EmptyHash) = {} /\ HKeys(EmptyHash) = {}
    BY EmptyHashSound
  <1>3. DOMAIN SortedKeyV = {} /\ Cardinality({}) = 0
    BY <1>1, FS_EmptySet
  <1>4. DictTypeOK
    <2>1. DOMAIN SortedKeyV \ Alive = {}
      BY <1>3
    <2>2. SortedDels = Cardinality(DOMAIN SortedKeyV \ Alive)
      BY <1>1, <1>3, <2>1
    <2>3. EmptyHash \in Hash
      BY <1>2 DEF HSound
    <2> QED BY <1>1, <2>2, <2>3 DEF DictTypeOK
  <1>5. OneEntryPerKey
    BY <1>1, <1>2, <1>3 DEF OneEntryPerKey
  <1>6. DictIInv
    BY <1>1, <1>2, <1>4, <1>5 DEF DictIInv, EntriesSound
  <1>7. \A k : EntryAt(k) = NoDictPt
    BY <1>1, <1>6, SoundNow, EmptyIs
  <1> QED BY <1>6, <1>7

LEMMA SoundPos ==
  ASSUME NEW T, NEW H, NEW v, NEW p, NEW d, NEW O, Sound(T, H, v, p, d, O), NEW k, Pos(v, k) # 0
  PROVE  Pos(v, k) \in DOMAIN v /\ Pos(v, k) \in DOMAIN p
  <1>1. v \in Seq(Int) /\ Ascending(v)
    BY KeyAssumption, SeqMonotonic DEF Sound
  <1>2. DOMAIN v = DOMAIN p
    BY DEF Sound
  <1> QED BY <1>1, <1>2, PosIs

\* Every addition, whichever of the four places takes the key.
LEMMA AddIs ==
  ASSUME DictIInv, NEW k \in DictKey, NEW x \in DictPt, AddDat(k, x)
  PROVE  Put(k, x)
  <1> DEFINE H == KeyBlobPtH
             v == SortedKeyV
             p == SortedPtV
             d == SortedDels
             O == OverlayH
  <1>1. Sound(Type, H, v, p, d, O) /\ \A j : EntryAt(j) = AtOf(Type, H, v, p, O, j)
    BY SoundNow
  <1>2. \A j : GetSortedKeyN(j) = Pos(v, j)
    BY DEF GetSortedKeyN, SortedIds, Pos
  <1>3. CASE AddHash(k, x)
    <2>1. /\ Type = "hash" /\ Type' = Type /\ v' = v /\ p' = p /\ d' = d /\ O' = O
          /\ H' = HAddDat(H, k, x)
      BY <1>3 DEF AddHash
    <2>2. Sound("hash", HAddDat(H, k, x), v, p, d, O)
      BY <1>1, <2>1, HashAdds
    <2>3. \A j : AtOf("hash", HAddDat(H, k, x), v, p, O, j) = IF j = k THEN x ELSE AtOf("hash", H, v, p, O, j)
      BY <1>1, <2>1, HashAdds
    <2> QED BY <1>1, <2>1, <2>2, <2>3, SoundNext DEF Put
  <1>4. CASE AddInPlace(k, x)
    <2> DEFINE n == Pos(v, k)
    <2>1. /\ Type = "sorted" /\ Type' = Type /\ v' = v /\ H' = H /\ O' = O
          /\ k \notin HKeys(O) /\ n # 0 /\ p' = [p EXCEPT ![n] = x]
          /\ d' = d - (IF p[n] = NoDictPt THEN 1 ELSE 0)
      BY <1>2, <1>4 DEF AddInPlace, IsSortedTomb
    <2>2. d' = Cardinality(Tombs(p'))
      <3>1. PICK z, q : z = d' /\ q = p'
        OBVIOUS
      <3>2. x # NoDictPt /\ x \in DictPt \cup {NoDictPt} /\ n \in DOMAIN p /\ p \in Seq(DictPt \cup {NoDictPt}) /\ d = Cardinality(Tombs(p))
        BY <1>1, <2>1, KeyAssumption, SoundPos DEF Sound
      <3>4. Rewrites(q, p, n, x, DictPt \cup {NoDictPt})
        BY <2>1, <3>1, <3>2, Rewritten
      <3> DEFINE X == DictPt \cup {NoDictPt}
      <3>5. p \in Seq(X) /\ x \in X /\ n \in DOMAIN p /\ Rewrites(q, p, n, x, X)
        BY <3>2, <3>4
      <3> HIDE DEF n, X
      <3>3. Cardinality(Tombs(p)) \in Nat /\ Cardinality(Tombs(q))
              = Cardinality(Tombs(p)) - (IF p[n] = NoDictPt THEN 1 ELSE 0) + (IF x = NoDictPt THEN 1 ELSE 0)
        BY <3>5, TombsChange
      <3> QED BY <2>1, <3>1, <3>2, <3>3
    <2>3. /\ Sound("sorted", H, v, p', d', O)
          /\ \A j : AtOf("sorted", H, v, p', O, j) = IF j = k THEN x ELSE AtOf("sorted", H, v, p, O, j)
      <3>1. Sound("sorted", H, v, p, d, O) /\ x \in DictPt \cup {NoDictPt}
        BY <1>1, <2>1
      <3>2. p \in Seq(DictPt \cup {NoDictPt}) /\ n \in DOMAIN p
        BY <1>1, <2>1, <2>2, SoundPos DEF Sound
      <3>3. PICK e, q : e = d' /\ q = p' /\ e = Cardinality(Tombs(q)) /\ q = [p EXCEPT ![n] = x]
        BY <2>1, <2>2
      <3>4. Rewrites(q, p, n, x, DictPt \cup {NoDictPt})
        BY <3>1, <3>2, <3>3, Rewritten
      <3> HIDE DEF H, v, p, d, O
      <3>5. /\ Sound("sorted", H, v, q, Cardinality(Tombs(q)), O)
            /\ \A j : AtOf("sorted", H, v, q, O, j) = IF j = k THEN x ELSE AtOf("sorted", H, v, p, O, j)
        BY <2>1, <2>2, <3>1, <3>4, Overwrites
      <3> QED BY <3>3, <3>5
    <2> QED BY <1>1, <2>1, <2>3, SoundNext DEF Put
  <1>5. CASE AddAtEnd(k, x)
    <2>1. /\ Type = "sorted" /\ Type' = Type /\ H' = H /\ O' = O /\ d' = d
          /\ k \notin HKeys(O) /\ Pos(v, k) = 0 /\ (v # <<>> => v[Len(v)] < k)
          /\ v' = Append(v, k) /\ p' = Append(p, x)
      BY <1>2, <1>5 DEF AddAtEnd, Extends
    <2>2. Sound("sorted", H, Append(v, k), Append(p, x), d, O)
      BY <1>1, <2>1, Appends
    <2>3. \A j : AtOf("sorted", H, Append(v, k), Append(p, x), O, j)
                   = IF j = k THEN x ELSE AtOf("sorted", H, v, p, O, j)
      BY <1>1, <2>1, Appends
    <2> QED BY <1>1, <2>1, <2>2, <2>3, SoundNext DEF Put
  <1>6. CASE AddToOverlay(k, x)
    <2>1. /\ Type = "sorted" /\ Type' = Type /\ H' = H /\ v' = v /\ p' = p /\ d' = d
          /\ k \in HKeys(O) \/ Pos(v, k) = 0
          /\ O' = HAddDat(O, k, x)
      BY <1>2, <1>6 DEF AddToOverlay
    <2>2. Sound("sorted", H, v, p, d, HAddDat(O, k, x))
      BY <1>1, <2>1, OverlayAdds
    <2>3. \A j : AtOf("sorted", H, v, p, HAddDat(O, k, x), j) = IF j = k THEN x ELSE AtOf("sorted", H, v, p, O, j)
      BY <1>1, <2>1, OverlayAdds
    <2> QED BY <1>1, <2>1, <2>2, <2>3, SoundNext DEF Put
  <1> QED BY <1>3, <1>4, <1>5, <1>6 DEF AddDat

LEMMA DelIs ==
  ASSUME DictIInv, NEW k \in DictKey, DelKey(k)
  PROVE  EntryAt(k) # NoDictPt /\ Put(k, NoDictPt)
  <1> DEFINE H == KeyBlobPtH
             v == SortedKeyV
             p == SortedPtV
             d == SortedDels
             O == OverlayH
  <1>1. Sound(Type, H, v, p, d, O) /\ \A j : EntryAt(j) = AtOf(Type, H, v, p, O, j)
    BY SoundNow
  <1>2. \A j : GetSortedKeyN(j) = Pos(v, j)
    BY DEF GetSortedKeyN, SortedIds, Pos
  <1>3. IsKey(k) /\ EntryAt(k) # NoDictPt
    BY KeyHasPtr DEF DelKey
  <1>4. CASE DelHash(k)
    <2>1. /\ Type = "hash" /\ Type' = Type /\ v' = v /\ p' = p /\ d' = d /\ O' = O
          /\ H' = HDelKey(H, k) /\ k \in HKeys(H)
      BY <1>3, <1>4 DEF DelHash, IsKey
    <2>2. Sound("hash", HDelKey(H, k), v, p, d, O)
      BY <1>1, <2>1, HashDeletes
    <2>3. \A j : AtOf("hash", HDelKey(H, k), v, p, O, j) = IF j = k THEN NoDictPt ELSE AtOf("hash", H, v, p, O, j)
      BY <1>1, <2>1, HashDeletes
    <2> QED BY <1>1, <1>3, <2>1, <2>2, <2>3, SoundNext DEF Put
  <1>5. CASE DelFromOverlay(k)
    <2>1. /\ Type = "sorted" /\ Type' = Type /\ H' = H /\ v' = v /\ p' = p /\ d' = d
          /\ k \in HKeys(O) /\ O' = HDelKey(O, k)
      BY <1>5 DEF DelFromOverlay
    <2>2. Sound("sorted", H, v, p, d, HDelKey(O, k))
      BY <1>1, <2>1, OverlayDeletes
    <2>3. \A j : AtOf("sorted", H, v, p, HDelKey(O, k), j) = IF j = k THEN NoDictPt ELSE AtOf("sorted", H, v, p, O, j)
      BY <1>1, <2>1, OverlayDeletes
    <2> QED BY <1>1, <1>3, <2>1, <2>2, <2>3, SoundNext DEF Put
  <1>6. CASE DelFromArray(k)
    <2> DEFINE n == Pos(v, k)
    <2>1. /\ Type = "sorted" /\ Type' = Type /\ v' = v /\ H' = H /\ O' = O
          /\ k \notin HKeys(O) /\ p' = [p EXCEPT ![n] = NoDictPt] /\ d' = d + 1
      BY <1>2, <1>6 DEF DelFromArray
    <2>2. n # 0 /\ p[n] # NoDictPt
      BY <1>2, <1>3, <2>1 DEF IsKey, InArray, IsSortedTomb
    <2>3. d' = Cardinality(Tombs(p'))
      <3>1. PICK z, q : z = d' /\ q = p'
        OBVIOUS
      <3>2. NoDictPt \in DictPt \cup {NoDictPt} /\ n \in DOMAIN p /\ p \in Seq(DictPt \cup {NoDictPt}) /\ d = Cardinality(Tombs(p))
        BY <1>1, <2>1, <2>2, SoundPos DEF Sound
      <3>4. Rewrites(q, p, n, NoDictPt, DictPt \cup {NoDictPt})
        BY <2>1, <3>1, <3>2, Rewritten
      <3> HIDE DEF n
      <3>3. Cardinality(Tombs(p)) \in Nat /\ Cardinality(Tombs(q))
              = Cardinality(Tombs(p)) - (IF p[n] = NoDictPt THEN 1 ELSE 0) + (IF NoDictPt = NoDictPt THEN 1 ELSE 0)
        BY <3>2, <3>4, TombsChange, ZenonT(40)
      <3> QED BY <2>1, <2>2, <3>1, <3>2, <3>3
    <2>4. /\ Sound("sorted", H, v, p', d', O)
          /\ \A j : AtOf("sorted", H, v, p', O, j) = IF j = k THEN NoDictPt ELSE AtOf("sorted", H, v, p, O, j)
      <3>1. Sound("sorted", H, v, p, d, O) /\ NoDictPt \in DictPt \cup {NoDictPt}
        BY <1>1, <2>1
      <3>2. p \in Seq(DictPt \cup {NoDictPt}) /\ n \in DOMAIN p
        BY <1>1, <2>1, <2>2, SoundPos DEF Sound
      <3>3. PICK e, q : e = d' /\ q = p' /\ e = Cardinality(Tombs(q)) /\ q = [p EXCEPT ![n] = NoDictPt]
        BY <2>1, <2>3
      <3>4. Rewrites(q, p, n, NoDictPt, DictPt \cup {NoDictPt})
        BY <3>1, <3>2, <3>3, Rewritten
      <3> HIDE DEF H, v, p, d, O
      <3>5. /\ Sound("sorted", H, v, q, Cardinality(Tombs(q)), O)
            /\ \A j : AtOf("sorted", H, v, q, O, j) = IF j = k THEN NoDictPt ELSE AtOf("sorted", H, v, p, O, j)
        BY <2>1, <2>2, <3>1, <3>4, Overwrites
      <3> QED BY <3>3, <3>5
    <2> QED BY <1>1, <1>3, <2>1, <2>4, SoundNext DEF Put
  <1> QED BY <1>3, <1>4, <1>5, <1>6 DEF DelKey

LEMMA ClrIs == ASSUME DictIInv, Clr PROVE NoEntries
  <1>1. /\ Type' = Type /\ KeyBlobPtH' = EmptyHash /\ OverlayH' = EmptyHash
        /\ SortedKeyV' = <<>> /\ SortedPtV' = <<>> /\ SortedDels' = 0
    BY DEF Clr
  <1>2. Type \in {"hash", "sorted"}
    BY SoundNow DEF Sound
  <1> QED BY <1>1, <1>2, EmptyIs, SoundNext DEF NoEntries

\* Two tables with the same entries, wherever they are.
LEMMA SameEntries ==
  ASSUME NEW h, HSound(h), NEW d, HSound(d),
         \A n \in HIds(h) : \E m \in HIds(d) : d.KeyDatV[m] = h.KeyDatV[n],
         \A m \in HIds(d) : \E n \in HIds(h) : d.KeyDatV[m] = h.KeyDatV[n]
  PROVE  \A k : HAt(d, k) = HAt(h, k)
  <1> SUFFICES ASSUME NEW k PROVE HAt(d, k) = HAt(h, k)
    OBVIOUS
  <1>1. CASE k \in HKeys(h)
    <2>1. PICK n \in HIds(h) : h.KeyDatV[n].key = k
      BY <1>1 DEF HKeys
    <2>2. PICK m \in HIds(d) : d.KeyDatV[m] = h.KeyDatV[n]
      OBVIOUS
    <2>3. HGetDat(h, k) = h.KeyDatV[n].pt
      BY <2>1, HDatAt
    <2>4. k \in HKeys(d) /\ HGetDat(d, k) = d.KeyDatV[m].pt
      BY <2>1, <2>2, HDatAt
    <2> QED BY <1>1, <2>2, <2>3, <2>4 DEF HAt
  <1>2. CASE k \notin HKeys(h)
    <2>1. k \notin HKeys(d)
      <3> SUFFICES ASSUME NEW m \in HIds(d), d.KeyDatV[m].key = k PROVE FALSE
        BY DEF HKeys
      <3>1. PICK n \in HIds(h) : d.KeyDatV[m] = h.KeyDatV[n]
        OBVIOUS
      <3> QED BY <1>2, <3>1 DEF HKeys
    <2> QED BY <1>2, <2>1 DEF HAt
  <1> QED BY <1>1, <1>2

LEMMA SortIs == ASSUME DictIInv, NEW asc \in BOOLEAN, SortByKey(asc) PROVE Same
  <1> DEFINE h == KeyBlobPtH
             v == h.KeyDatV
             keys == [n \in DOMAIN v |-> IF asc THEN v[n].key ELSE -v[n].key]
             from == Sorted(keys)
             w == [n \in DOMAIN v |-> v[from[n]]]
             d == [h EXCEPT !.KeyDatV = w]
  <1>1. /\ Sound(Type, h, SortedKeyV, SortedPtV, SortedDels, OverlayH)
        /\ \A j : EntryAt(j) = AtOf(Type, h, SortedKeyV, SortedPtV, OverlayH, j)
    BY SoundNow
  <1>2. UNCHANGED <<Type, SortedKeyV, SortedPtV, SortedDels, OverlayH>>
    BY DEF SortByKey
  <1>3. CASE Type = "sorted"
    <2>1. UNCHANGED KeyBlobPtH
      BY <1>3 DEF SortByKey
    <2> QED BY <1>1, <1>2, <2>1, SoundNext DEF Same
  <1>4. CASE Type # "sorted"
    <2>1. h' = d /\ h.FreeV = <<>>
      BY <1>4 DEF SortByKey
    <2>2. Type = "hash" /\ HSound(h) /\ h \in Hash
      BY <1>1, <1>4 DEF Sound, HSound
    <2>3. /\ v \in Seq(Entry) /\ Len(v) \in Nat /\ DOMAIN v = 1..Len(v)
          /\ h = [KeyDatV |-> v, FreeV |-> h.FreeV] /\ HIds(h) \subseteq DOMAIN v
      BY <2>2, HashIs
    <2>4. HIds(h) = DOMAIN v
      <3>1. {h.FreeV[i] : i \in DOMAIN h.FreeV} = {}
        BY <2>1
      <3> QED BY <2>2, <2>3, <3>1 DEF HSound
    <2>5. \A n \in DOMAIN v : v[n] \in Stored /\ v[n].key \in Int
      <3> SUFFICES ASSUME NEW n \in DOMAIN v PROVE v[n] \in Stored /\ v[n].key \in Int
        OBVIOUS
      <3>1. v[n].key \in DictKey /\ v[n].pt \in DictPt /\ v[n] = [key |-> v[n].key, pt |-> v[n].pt]
        BY <2>2, <2>4, HashIs, HIdsTell
      <3> QED BY <3>1, KeyAssumption DEF Stored
    <2>6. DOMAIN keys = 1..Len(v) /\ \A n \in 1..Len(v) : keys[n] \in Int
      BY <2>3, <2>5
    <2>7. Sorts(keys, from) /\ \A m, n \in DOMAIN keys : from[m] = from[n] => m = n
      <3> HIDE DEF keys, v
      <3> QED BY <2>3, <2>6, SortedIs
    <2>8. /\ \A n \in DOMAIN v : from[n] \in DOMAIN v
          /\ \A i \in DOMAIN v : \E n \in DOMAIN v : from[n] = i
          /\ \A m, n \in DOMAIN v : from[m] = from[n] => m = n
      <3> HIDE DEF keys, v
      <3> QED BY <2>3, <2>6, <2>7 DEF Sorts
    <2> HIDE DEF from, keys, h
    <2>9. w \in Seq(Stored) /\ DOMAIN w = DOMAIN v /\ \A n \in DOMAIN v : w[n] = v[from[n]]
      <3>1. w \in [1..Len(v) -> Stored]
        BY <2>3, <2>5, <2>8
      <3> QED BY <2>3, <3>1
    <2>10. \A m, n \in DOMAIN w : w[m].key = w[n].key => m = n
      <3> SUFFICES ASSUME NEW m \in DOMAIN v, NEW n \in DOMAIN v, v[from[m]].key = v[from[n]].key PROVE m = n
        BY <2>9
      <3>1. from[m] \in HIds(h) /\ from[n] \in HIds(h)
        BY <2>4, <2>8
      <3>2. from[m] = from[n]
        BY <2>2, <3>1 DEF HSound
      <3> QED BY <2>8, <3>2
    <2>11. d = [KeyDatV |-> w, FreeV |-> <<>>] /\ d.KeyDatV = w
      <3> HIDE DEF v, w
      <3> QED BY <2>1, <2>3
    <2>12. HSound(d) /\ HIds(d) = DOMAIN w
      <3> HIDE DEF w, d
      <3> QED BY <2>9, <2>10, <2>11, DenseSound
    <2> HIDE DEF d, w
    <2>13. ASSUME NEW n \in HIds(h) PROVE \E m \in HIds(d) : d.KeyDatV[m] = h.KeyDatV[n]
      <3>1. PICK m \in DOMAIN v : from[m] = n
        BY <2>4, <2>8
      <3> QED BY <2>9, <2>11, <2>12, <3>1
    <2>14. \A m \in HIds(d) : \E n \in HIds(h) : d.KeyDatV[m] = h.KeyDatV[n]
      BY <2>4, <2>8, <2>9, <2>11, <2>12
    <2>15. \A k : HAt(d, k) = HAt(h, k)
      BY <2>2, <2>12, <2>13, <2>14, SameEntries
    <2>16. Sound(Type, d, SortedKeyV, SortedPtV, SortedDels, OverlayH)
      BY <1>1, <2>2, <2>12 DEF Sound
    <2>17. \A j : AtOf(Type, d, SortedKeyV, SortedPtV, OverlayH, j) = AtOf(Type, h, SortedKeyV, SortedPtV, OverlayH, j)
      BY <2>2, <2>15 DEF AtOf
    <2>18. KeyBlobPtH' = d
      BY <2>1 DEF h
    <2> QED BY <1>1, <1>2, <2>16, <2>17, <2>18, SoundNext DEF Same, h
  <1> QED BY <1>3, <1>4

\* What a scan gives, position by position.
LEMMA ScanGives ==
  ASSUME DictIInv
  PROVE  /\ ScanV \in Seq(Nat) /\ Len(ScanV) \in Nat /\ DOMAIN ScanV = 1..Len(ScanV)
         /\ \A n \in DOMAIN ScanV : /\ ScanV[n] \in Ids /\ GetKey(ScanV[n]) \in DictKey /\ GetPt(ScanV[n]) \in DictPt
                                    /\ EntryAt(GetKey(ScanV[n])) = GetPt(ScanV[n])
         /\ \A m, n \in DOMAIN ScanV : GetKey(ScanV[m]) = GetKey(ScanV[n]) => m = n
         /\ \A k : EntryAt(k) # NoDictPt => \E n \in DOMAIN ScanV : GetKey(ScanV[n]) = k
  <1>1. /\ ScanV \in Seq(Nat) /\ Ascending(ScanV) /\ {ScanV[n] : n \in DOMAIN ScanV} = Ids
    BY ScanEnumerates DEF Enumerates
  <1>2. Len(ScanV) \in Nat /\ DOMAIN ScanV = 1..Len(ScanV)
    BY <1>1
  <1>3. \A n \in DOMAIN ScanV : /\ ScanV[n] \in Ids /\ GetKey(ScanV[n]) \in DictKey /\ GetPt(ScanV[n]) \in DictPt
                                /\ EntryAt(GetKey(ScanV[n])) = GetPt(ScanV[n])
    BY <1>1, IdsAre
  <1>4. ASSUME NEW m \in DOMAIN ScanV, NEW n \in DOMAIN ScanV, GetKey(ScanV[m]) = GetKey(ScanV[n]) PROVE m = n
    <2>1. ScanV[m] = ScanV[n]
      BY <1>3, <1>4, IdsAre
    <2>2. ScanV[m] \in Nat /\ ScanV[n] \in Nat
      BY <1>1, <1>2, ElementOfSeq
    <2>3. ~(ScanV[m] < ScanV[n]) /\ ~(ScanV[n] < ScanV[m])
      BY <2>1, <2>2
    <2>4. ~(m < n) /\ ~(n < m)
      BY <1>1, <2>3 DEF Ascending
    <2> QED BY <1>2, <2>4
  <1>5. ASSUME NEW k, EntryAt(k) # NoDictPt PROVE \E n \in DOMAIN ScanV : GetKey(ScanV[n]) = k
    <2>1. PICK i \in Ids : GetKey(i) = k
      BY <1>5, IdsAre
    <2> QED BY <1>1, <2>1
  <1> QED BY <1>1, <1>2, <1>3, <1>4, <1>5

LEMMA FoldIs ==
  ASSUME DictIInv
  PROVE  HSound(Folded) /\ \A k : HAt(Folded, k) = EntryAt(k)
  <1> DEFINE v == Folded.KeyDatV
  <1>1. /\ Folded = [KeyDatV |-> v, FreeV |-> <<>>] /\ DOMAIN v = DOMAIN ScanV
        /\ \A n \in DOMAIN v : v[n] = [key |-> GetKey(ScanV[n]), pt |-> GetPt(ScanV[n])]
    BY DEF Folded
  <1> HIDE DEF v
  <1>2. \A n \in DOMAIN v : v[n].key = GetKey(ScanV[n]) /\ v[n].pt = GetPt(ScanV[n])
    BY <1>1
  <1>3. v \in Seq(Stored)
    <2>1. ASSUME NEW n \in DOMAIN v PROVE v[n] \in Stored
      <3>1. GetKey(ScanV[n]) \in DictKey /\ GetPt(ScanV[n]) \in DictPt
        BY <1>1, ScanGives
      <3> QED BY <1>1, <3>1 DEF Stored
    <2>2. v = [n \in DOMAIN ScanV |-> [key |-> GetKey(ScanV[n]), pt |-> GetPt(ScanV[n])]]
      BY DEF Folded, v
    <2>3. v \in [1..Len(ScanV) -> Stored]
      BY <1>1, <2>1, <2>2, ScanGives
    <2> QED BY <2>3, ScanGives
  <1>4. \A m, n \in DOMAIN v : v[m].key = v[n].key => m = n
    BY <1>1, <1>2, ScanGives
  <1>5. HSound(Folded) /\ HIds(Folded) = DOMAIN v /\ HKeys(Folded) = {v[n].key : n \in DOMAIN v}
    BY <1>1, <1>3, <1>4, DenseSound
  <1>6. Folded.KeyDatV = v
    BY DEF v
  <1>7. ASSUME NEW k PROVE HAt(Folded, k) = EntryAt(k)
    <2>1. CASE k \in HKeys(Folded)
      <3>1. PICK n \in DOMAIN v : v[n].key = k
        BY <1>5, <2>1
      <3>2. HGetDat(Folded, k) = v[n].pt
        BY <1>5, <1>6, <3>1, HDatAt
      <3>3. EntryAt(k) = v[n].pt
        BY <1>1, <1>2, <3>1, ScanGives
      <3> QED BY <2>1, <3>2, <3>3 DEF HAt
    <2>2. CASE k \notin HKeys(Folded)
      <3>1. ~ \E n \in DOMAIN ScanV : GetKey(ScanV[n]) = k
        BY <1>1, <1>2, <1>5, <2>2
      <3> QED BY <2>2, <3>1, ScanGives DEF HAt
    <2> QED BY <2>1, <2>2
  <1> QED BY <1>5, <1>7

LEMMA ToHashIs == ASSUME DictIInv, ConvertToHash PROVE Same
  <1>1. /\ Type' = "hash" /\ KeyBlobPtH' = Folded /\ SortedKeyV' = <<>> /\ SortedPtV' = <<>>
        /\ SortedDels' = 0 /\ OverlayH' = EmptyHash
    BY DEF ConvertToHash
  <1>2. Sound("hash", EmptyHash, <<>>, <<>>, 0, EmptyHash)
    BY EmptyIs
  <1>3. HSound(Folded) /\ \A k : HAt(Folded, k) = EntryAt(k)
    BY FoldIs
  <1>4. Sound("hash", Folded, <<>>, <<>>, 0, EmptyHash)
    BY <1>2, <1>3 DEF Sound
  <1>5. \A k : AtOf("hash", Folded, <<>>, <<>>, EmptyHash, k) = EntryAt(k)
    BY <1>3 DEF AtOf
  <1> QED BY <1>1, <1>4, <1>5, SoundNext DEF Same

\* The array that ConvertTo makes of the keys of the hash table.
LEMMA ToSortedIs == ASSUME DictIInv, ConvertToSorted PROVE Same
  <1> DEFINE keys == GetKeyV
             from == Sorted(keys)
             v == [n \in DOMAIN keys |-> keys[from[n]]]
             H == KeyBlobPtH
             p == [n \in DOMAIN v |-> HGetDat(H, v[n])]
             len == Len(ScanV)
  <1>1. /\ Type = "hash" /\ Type' = "sorted" /\ SortedKeyV' = v /\ SortedPtV' = p
        /\ SortedDels' = 0 /\ OverlayH' = EmptyHash /\ KeyBlobPtH' = EmptyHash
    BY DEF ConvertToSorted
  <1>2. len \in Nat /\ DOMAIN keys = 1..len /\ \A n \in 1..len : keys[n] = GetKey(ScanV[n])
    BY ScanGives DEF GetKeyV
  <1> HIDE DEF len, keys
  <1>3. /\ \A n \in 1..len : keys[n] \in DictKey /\ keys[n] \in Int
        /\ \A m, n \in 1..len : keys[m] = keys[n] => m = n
        /\ \A k : EntryAt(k) # NoDictPt => \E n \in 1..len : keys[n] = k
        /\ \A n \in 1..len : EntryAt(keys[n]) \in DictPt
    <2>1. DOMAIN ScanV = 1..len
      BY ScanGives DEF len
    <2>2. \A n \in 1..len : keys[n] \in DictKey /\ EntryAt(keys[n]) \in DictPt
      BY <1>2, <2>1, ScanGives
    <2>3. \A m, n \in 1..len : keys[m] = keys[n] => m = n
      BY <1>2, <2>1, ScanGives
    <2>4. \A k : EntryAt(k) # NoDictPt => \E n \in 1..len : keys[n] = k
      BY <1>2, <2>1, ScanGives
    <2> QED BY <2>2, <2>3, <2>4, KeyAssumption
  <1>4. Sorts(keys, from) /\ \A m, n \in DOMAIN keys : from[m] = from[n] => m = n
    BY <1>2, <1>3, SortedIs
  <1>5. /\ \A n \in 1..len : from[n] \in 1..len
        /\ \A i \in 1..len : \E n \in 1..len : from[n] = i
        /\ \A m, n \in 1..len : m < n => keys[from[m]] <= keys[from[n]]
        /\ \A m, n \in 1..len : from[m] = from[n] => m = n
    BY <1>2, <1>4 DEF Sorts
  <1> HIDE DEF from
  <1>6. DOMAIN v = 1..len /\ \A n \in 1..len : v[n] = keys[from[n]]
    BY <1>2
  <1> HIDE DEF v
  <1>7. \A n \in 1..len : v[n] \in DictKey /\ v[n] \in Int /\ EntryAt(v[n]) \in DictPt
    BY <1>3, <1>5, <1>6
  <1>8. v \in Seq(DictKey) /\ v \in Seq(Int) /\ Len(v) = len
    <2>1. v \in [1..len -> DictKey] /\ v \in [1..len -> Int]
      BY <1>2, <1>6, <1>7 DEF v
    <2> QED BY <1>2, <2>1
  <1>9. Ascending(v)
    <2> SUFFICES ASSUME NEW m \in 1..len, NEW n \in 1..len, m < n PROVE v[m] < v[n]
      BY <1>6 DEF Ascending
    <2>1. m # n
      BY <1>2
    <2>2. keys[from[m]] # keys[from[n]] /\ keys[from[m]] <= keys[from[n]]
      BY <1>3, <1>5, <2>1
    <2> QED BY <1>6, <1>7, <2>2
  <1>10. HSound(H) /\ \A k : EntryAt(k) = HAt(H, k)
    BY <1>1 DEF DictIInv, EntryAt
  <1>11. \A n \in 1..len : HGetDat(H, v[n]) = EntryAt(v[n])
    BY <1>7, <1>10, KeyAssumption DEF HAt
  <1>12. DOMAIN p = 1..len /\ \A n \in 1..len : p[n] = EntryAt(v[n])
    BY <1>6, <1>11
  <1>13. p \in Seq(DictPt \cup {NoDictPt}) /\ Len(p) = len
    <2>1. p \in [1..len -> DictPt \cup {NoDictPt}]
      BY <1>6, <1>7, <1>12
    <2> QED BY <1>2, <2>1
  <1> HIDE DEF p, H
  <1>14. Tombs(p) = {}
    BY <1>7, <1>12, KeyAssumption DEF Tombs
  <1>15. Cardinality(Tombs(p)) = 0
    BY <1>14, FS_EmptySet
  <1>16. HSound(EmptyHash) /\ HKeys(EmptyHash) = {}
    BY EmptyHashSound
  <1>17. Sound("sorted", EmptyHash, v, p, 0, EmptyHash)
    BY <1>8, <1>9, <1>13, <1>15, <1>16 DEF Sound
  <1>18. ASSUME NEW k PROVE AtOf("sorted", EmptyHash, v, p, EmptyHash, k) = EntryAt(k)
    <2>1. CASE Pos(v, k) # 0
      <3>1. Pos(v, k) \in 1..len /\ v[Pos(v, k)] = k
        BY <1>6, <1>8, <1>9, <2>1, PosIs
      <3> QED BY <1>12, <1>16, <2>1, <3>1 DEF AtOf, VAt
    <2>2. CASE Pos(v, k) = 0
      <3>1. \A n \in 1..len : v[n] # k
        <4> SUFFICES ASSUME NEW n \in 1..len, v[n] = k PROVE FALSE
          OBVIOUS
        <4>1. Pos(v, k) = n
          BY <1>6, <1>8, <1>9, PosIs
        <4> QED BY <1>2, <2>2, <4>1
      <3>2. EntryAt(k) = NoDictPt
        <4> SUFFICES ASSUME EntryAt(k) # NoDictPt PROVE FALSE
          OBVIOUS
        <4>1. PICK i \in 1..len : keys[i] = k
          BY <1>3
        <4>2. PICK n \in 1..len : from[n] = i
          BY <1>5
        <4> QED BY <1>6, <3>1, <4>1, <4>2
      <3> QED BY <1>16, <2>2, <3>2 DEF AtOf, VAt
    <2> QED BY <2>1, <2>2
  <1> QED BY <1>1, <1>17, <1>18, SoundNext DEF Same

LEMMA KeepsIs == ASSUME DictIInv, UNCHANGED dictVars PROVE Same
  BY SoundNow, SoundNext DEF dictVars, dictState, Same

LEMMA NextKeeps == ASSUME DictIInv, [DictNext]_dictVars PROVE DictIInv'
  <1>1. ASSUME NEW k \in DictKey, NEW x \in DictPt, AddDat(k, x) PROVE DictIInv'
    BY <1>1, AddIs DEF Put
  <1>2. ASSUME NEW k \in DictKey, DelKey(k) PROVE DictIInv'
    BY <1>2, DelIs DEF Put
  <1>3. CASE Clr
    BY <1>3, ClrIs DEF NoEntries
  <1>4. ASSUME NEW asc \in BOOLEAN, SortByKey(asc) PROVE DictIInv'
    BY <1>4, SortIs DEF Same
  <1>5. CASE ConvertTo
    BY <1>5, ToSortedIs, ToHashIs DEF Same, ConvertTo
  <1>6. CASE UNCHANGED dictVars
    BY <1>6, KeepsIs DEF Same
  <1> QED BY <1>1, <1>2, <1>3, <1>4, <1>5, <1>6 DEF DictNext

LEMMA StaysSound == DictSpec => []DictIInv
  <1>1. DictInit => DictIInv
    BY InitKeeps
  <1>2. DictIInv /\ [DictNext]_dictVars => DictIInv'
    BY NextKeeps
  <1> QED BY <1>1, <1>2, PTL DEF DictSpec

\* The keys are stored once, in the form that the type of the dictionary calls for.
THEOREM KeysAreStoredOnce == DictSpec => []EntriesSound
  <1>1. DictIInv => EntriesSound
    BY DEF DictIInv
  <1> QED BY <1>1, StaysSound, PTL

\* The number of keys, the binary search and the scan agree with the look-up.
THEOREM LookUpsAgree == DictSpec => []LookUpsExact
  <1>1. DictIInv => LookUpsExact
    BY LenIs, SearchIsExact, ScanIsExact DEF LookUpsExact
  <1> QED BY <1>1, StaysSound, PTL

(***************************************************************************)
(* The map.                                                                *)
(***************************************************************************)
\* Every way to store the keys implements the map from keys to pointers.
THEOREM DictIsAMap == DictSpec => ImplementsKeyMap
  <1> DEFINE map == [k \in DictKey |-> IF IsKey(k) THEN GetDat(k) ELSE NoDictPt]
  <1>1. \A k \in DictKey : map[k] = EntryAt(k)
    BY AtIs
  <1>2. \A k \in DictKey : map'[k] = EntryAt(k)'
    BY AtIsNext
  <1>3. map = [k \in DictKey |-> map[k]] /\ map' = [k \in DictKey |-> map'[k]] /\ DOMAIN map = DictKey
    OBVIOUS
  <1>4. ASSUME DictInit PROVE AsMap!Init
    <2>1. map = [k \in DictKey |-> NoDictPt]
      <3> HIDE DEF map
      <3> QED BY <1>1, <1>3, <1>4, InitKeeps
    <2> QED BY <1>4, <2>1 DEF AsMap!Init, AsMap!None, DictInit
  <1>5. ASSUME DictIInv, [DictNext]_dictVars PROVE [AsMap!Next]_(AsMap!vars)
    <2>1. ASSUME NEW k \in DictKey, NEW x \in DictPt, AddDat(k, x) PROVE AsMap!AddDat(k, x)
      <3>1. map' = [map EXCEPT ![k] = x]
        <4> HIDE DEF map
        <4> QED BY <1>1, <1>2, <1>3, <1>5, <2>1, AddIs DEF Put
      <3> QED BY <2>1, <3>1 DEF AsMap!AddDat, AsMap!Add, AddDat
    <2>2. ASSUME NEW k \in DictKey, DelKey(k) PROVE AsMap!DelKey(k)
      <3>1. EntryAt(k) # NoDictPt /\ Put(k, NoDictPt)
        BY <1>5, <2>2, DelIs
      <3>2. map' = [map EXCEPT ![k] = NoDictPt] /\ map[k] # NoDictPt
        <4> HIDE DEF map
        <4> QED BY <1>1, <1>2, <1>3, <3>1 DEF Put
      <3> QED BY <2>2, <3>2 DEF AsMap!DelKey, AsMap!Del, DelKey
    <2>3. ASSUME Clr PROVE AsMap!Clr
      <3>1. map' = [k \in DictKey |-> NoDictPt]
        <4> HIDE DEF map
        <4> QED BY <1>2, <1>3, <1>5, <2>3, ClrIs DEF NoEntries
      <3> QED BY <2>3, <3>1 DEF AsMap!Clr, AsMap!Clear, Clr
    <2>4. ASSUME Same PROVE map' = map
      <3> HIDE DEF map
      <3> QED BY <1>1, <1>2, <1>3, <2>4 DEF Same
    <2>5. ASSUME NEW asc \in BOOLEAN, SortByKey(asc) PROVE AsMap!Keep
      <3>1. map' = map
        BY <1>5, <2>4, <2>5, SortIs
      <3> QED BY <2>5, <3>1 DEF AsMap!Keep, AsMap!None, SortByKey
    <2>6. ASSUME ConvertTo PROVE AsMap!Keep
      <3>1. map' = map
        BY <1>5, <2>4, <2>6, ToSortedIs, ToHashIs DEF ConvertTo
      <3> QED BY <2>6, <3>1 DEF AsMap!Keep, AsMap!None, ConvertTo
    <2>7. ASSUME UNCHANGED dictVars PROVE UNCHANGED AsMap!vars
      <3>1. map' = map
        BY <1>5, <2>4, <2>7, KeepsIs
      <3> QED BY <2>7, <3>1 DEF AsMap!vars, dictVars
    <2> QED BY <1>5, <2>1, <2>2, <2>3, <2>5, <2>6, <2>7 DEF DictNext, AsMap!Next
  <1> QED BY <1>4, <1>5, StaysSound, PTL DEF DictSpec, ImplementsKeyMap, AsMap!Spec

(***************************************************************************)
(* DictKey ids.                                                                *)
(***************************************************************************)
\* What keeps an id: the position keeps its entry, and the array its length.
KeepsKey(id) == IsKeyId(id)' /\ GetKey(id)' = GetKey(id)

LEMMA HashKeeps ==
  ASSUME Type = "hash", Type' = "hash", NEW id \in HIds(KeyBlobPtH),
         id \in HIds(KeyBlobPtH'), KeyBlobPtH'.KeyDatV[id].key = KeyBlobPtH.KeyDatV[id].key
  PROVE  KeepsKey(id)
  BY DEF KeepsKey, IsKeyId, GetKey

LEMMA SortedKeeps ==
  ASSUME DictIInv, Type = "sorted", Type' = "sorted", SortedKeyV' = SortedKeyV, NEW id \in Nat, IsKeyId(id),
         id \in Alive => SortedPtV'[id] # NoDictPt,
         id - Len(SortedKeyV) \in HIds(OverlayH)
           => /\ id - Len(SortedKeyV) \in HIds(OverlayH')
              /\ OverlayH'.KeyDatV[id - Len(SortedKeyV)].key = OverlayH.KeyDatV[id - Len(SortedKeyV)].key
  PROVE  KeepsKey(id)
  <1> DEFINE len == Len(SortedKeyV)
  <1>1. len \in Nat /\ Alive \subseteq 1..len /\ DOMAIN SortedKeyV = 1..len
    BY ArrayIs
  <1>2. HIds(OverlayH) \subseteq 1..Len(OverlayH.KeyDatV) /\ Len(OverlayH.KeyDatV) \in Nat
    BY HIdsTell DEF DictIInv
  <1>3. Len(SortedKeyV)' = len
    OBVIOUS
  <1>4. CASE id \in Alive
    <2>1. id <= len
      BY <1>1, <1>4
    <2>2. id \in Alive'
      BY <1>1, <1>4 DEF Alive, IsSortedTomb
    <2> QED BY <1>3, <2>1, <2>2 DEF KeepsKey, IsKeyId, GetKey
  <1>5. CASE id - len \in HIds(OverlayH)
    <2>1. ~(id <= len)
      BY <1>1, <1>2, <1>5
    <2>2. id - len \in HIds(OverlayH') /\ OverlayH'.KeyDatV[id - len].key = OverlayH.KeyDatV[id - len].key
      BY <1>5
    <2> HIDE DEF len
    <2>3. (id - Len(SortedKeyV) \in HIds(OverlayH))'
      BY <1>3, <2>2
    <2>4. IsKeyId(id)'
      BY <2>3 DEF IsKeyId
    <2>5. GetKey(id) = OverlayH.KeyDatV[id - len].key
      BY <2>1 DEF GetKey, len
    <2>6. GetKey(id)' = OverlayH'.KeyDatV[id - len].key
      BY <1>3, <2>1 DEF GetKey
    <2> QED BY <2>2, <2>4, <2>5, <2>6 DEF KeepsKey
  <1> QED BY <1>4, <1>5 DEF IsKeyId

\* An update, and the revival of a deleted key, move nothing.
LEMMA AddKeepsIds ==
  ASSUME DictIInv, NEW k \in DictKey, NEW x \in DictPt, AddDat(k, x), IsKey(k), NEW id \in Nat, IsKeyId(id)
  PROVE  KeepsKey(id)
  <1>1. HSound(KeyBlobPtH) /\ HSound(OverlayH)
    BY DEF DictIInv
  <1>2. CASE AddHash(k, x)
    <2>1. Type = "hash" /\ Type' = "hash" /\ KeyBlobPtH' = HAddDat(KeyBlobPtH, k, x) /\ id \in HIds(KeyBlobPtH)
      BY <1>2 DEF AddHash, IsKeyId
    <2>2. id \in HIds(KeyBlobPtH') /\ KeyBlobPtH'.KeyDatV[id].key = KeyBlobPtH.KeyDatV[id].key
      BY <1>1, <2>1, HAddIs
    <2> QED BY <2>1, <2>2, HashKeeps
  <1>3. CASE AddInPlace(k, x)
    <2>1. /\ Type = "sorted" /\ Type' = "sorted" /\ SortedKeyV' = SortedKeyV /\ OverlayH' = OverlayH
          /\ SortedPtV' = [SortedPtV EXCEPT ![GetSortedKeyN(k)] = x]
      BY <1>3 DEF AddInPlace
    <2>2. id \in Alive => SortedPtV'[id] # NoDictPt
      BY <2>1, ArrayIs, KeyAssumption
    <2> QED BY <2>1, <2>2, SortedKeeps
  <1>4. CASE AddAtEnd(k, x)
    BY <1>4 DEF AddAtEnd, IsKey, InArray
  <1>5. CASE AddToOverlay(k, x)
    <2>1. /\ Type = "sorted" /\ Type' = "sorted" /\ SortedKeyV' = SortedKeyV /\ SortedPtV' = SortedPtV
          /\ OverlayH' = HAddDat(OverlayH, k, x)
      BY <1>5 DEF AddToOverlay
    <2>2. id \in Alive => SortedPtV'[id] # NoDictPt
      BY <2>1, ArrayIs
    <2>3. \A n \in HIds(OverlayH) : n \in HIds(OverlayH') /\ OverlayH'.KeyDatV[n].key = OverlayH.KeyDatV[n].key
      BY <1>1, <2>1, HAddIs
    <2> QED BY <2>1, <2>2, <2>3, SortedKeeps
  <1> QED BY <1>2, <1>3, <1>4, <1>5 DEF AddDat

\* A deletion takes one id away and moves no other.
LEMMA DelKeepsIds ==
  ASSUME DictIInv, NEW k \in DictKey, DelKey(k), NEW id \in Nat, IsKeyId(id), GetKey(id) # k
  PROVE  KeepsKey(id)
  <1>1. HSound(KeyBlobPtH) /\ HSound(OverlayH) /\ IsKey(k)
    BY DEF DictIInv, DelKey
  <1>2. CASE DelHash(k)
    <2>1. /\ Type = "hash" /\ Type' = "hash" /\ KeyBlobPtH' = HDelKey(KeyBlobPtH, k) /\ id \in HIds(KeyBlobPtH)
          /\ k \in HKeys(KeyBlobPtH) /\ KeyBlobPtH.KeyDatV[id].key # k
      BY <1>1, <1>2 DEF DelHash, IsKeyId, IsKey, GetKey
    <2>2. id \in HIds(KeyBlobPtH') /\ KeyBlobPtH'.KeyDatV[id].key = KeyBlobPtH.KeyDatV[id].key
      BY <1>1, <2>1, HDelIs
    <2> QED BY <2>1, <2>2, HashKeeps
  <1>3. CASE DelFromOverlay(k)
    <2>1. /\ Type = "sorted" /\ Type' = "sorted" /\ SortedKeyV' = SortedKeyV /\ SortedPtV' = SortedPtV
          /\ OverlayH' = HDelKey(OverlayH, k) /\ k \in HKeys(OverlayH)
      BY <1>3 DEF DelFromOverlay
    <2>2. id \in Alive => SortedPtV'[id] # NoDictPt
      BY <2>1, ArrayIs
    <2>3. \A n \in HIds(OverlayH) : OverlayH.KeyDatV[n].key # k
            => n \in HIds(OverlayH') /\ OverlayH'.KeyDatV[n].key = OverlayH.KeyDatV[n].key
      BY <1>1, <2>1, HDelIs
    <2>4. id - Len(SortedKeyV) \in HIds(OverlayH) => OverlayH.KeyDatV[id - Len(SortedKeyV)].key # k
      <3>1. Len(SortedKeyV) \in Nat /\ HIds(OverlayH) \subseteq 1..Len(OverlayH.KeyDatV)
              /\ Len(OverlayH.KeyDatV) \in Nat
        BY <1>1, ArrayIs, HIdsTell
      <3>2. id - Len(SortedKeyV) \in HIds(OverlayH) => ~(id <= Len(SortedKeyV))
        BY <3>1
      <3> QED BY <2>1, <3>2 DEF GetKey
    <2> QED BY <2>1, <2>2, <2>3, <2>4, SortedKeeps
  <1>4. CASE DelFromArray(k)
    <2>1. /\ Type = "sorted" /\ Type' = "sorted" /\ SortedKeyV' = SortedKeyV /\ OverlayH' = OverlayH
          /\ SortedPtV' = [SortedPtV EXCEPT ![GetSortedKeyN(k)] = NoDictPt] /\ GetSortedKeyN(k) # 0
      BY <1>1, <1>4 DEF DelFromArray, IsKey, InArray
    <2>2. id \in Alive => SortedPtV'[id] # NoDictPt
      <3> SUFFICES ASSUME id \in Alive PROVE SortedPtV'[id] # NoDictPt
        OBVIOUS
      <3>1. id \in DOMAIN SortedKeyV /\ id <= Len(SortedKeyV) /\ SortedPtV[id] # NoDictPt
        BY ArrayIs
      <3>2. SortedKeyV[id] # k
        BY <2>1, <3>1 DEF GetKey
      <3>3. id # GetSortedKeyN(k)
        BY <2>1, <3>2 DEF GetSortedKeyN, SortedIds
      <3> QED BY <2>1, <3>1, <3>3, ArrayIs
    <2> QED BY <2>1, <2>2, SortedKeeps
  <1> QED BY <1>2, <1>3, <1>4 DEF DelKey

\* Deletions and updates leave every other key its id.
THEOREM IdsStay == DictSpec => ScanStable
  <1> DEFINE A == call'.op = "del" \/ (call'.op = "add" /\ IsKey(call'.key)) => IdsKept
  <1>1. ASSUME DictIInv, [DictNext]_dictVars PROVE [A]_dictVars
    <2> SUFFICES ASSUME call'.op = "del" \/ (call'.op = "add" /\ IsKey(call'.key)), DictNext PROVE IdsKept
      BY <1>1
    <2>1. MaxKeyId \in Nat
      BY <1>1, IdsAre
    <2>2. ASSUME NEW k \in DictKey, NEW x \in DictPt, AddDat(k, x) PROVE IdsKept
      <3>1. call'.op = "add" /\ call'.key = k
        BY <2>2 DEF AddDat
      <3> QED BY <1>1, <2>1, <2>2, <3>1, AddKeepsIds DEF IdsKept, KeepsKey
    <2>3. ASSUME NEW k \in DictKey, DelKey(k) PROVE IdsKept
      <3>1. call'.op = "del" /\ call'.key = k
        BY <2>3 DEF DelKey
      <3> QED BY <1>1, <2>1, <2>3, <3>1, DelKeepsIds DEF IdsKept, KeepsKey
    <2>4. ~Clr
      BY DEF Clr
    <2>5. \A asc \in BOOLEAN : ~SortByKey(asc)
      BY DEF SortByKey
    <2>6. ~ConvertTo
      BY DEF ConvertTo
    <2> QED BY <2>2, <2>3, <2>4, <2>5, <2>6 DEF DictNext
  <1> QED BY <1>1, StaysSound, PTL DEF DictSpec, ScanStable

(***************************************************************************)
(* The index and its cache.                                                *)
(***************************************************************************)
(***************************************************************************)
(* The inductive invariant.                                                *)
(***************************************************************************)
\* OneBlobPerKey, said of any dictionary d and blobs b.
LinkedBlobs(d, b) ==
  /\ \A k \in Key : d[k] # NoPtr => b[d[k]] # NoSet /\ b[d[k]].key = k
  /\ \A p \in BlobPt : b[p] # NoSet => d[b[p].key] = p

\* CacheCoherent, said of the entries U of any cache c.
Coherent(d, b, c, U) ==
  \A p \in U : /\ c[p] # NoSet
               /\ d[c[p].key] = p
               /\ ~c[p].dirty => c[p].pend = "none" /\ b[p] = BlobOf(c[p])

\* Only a writable index is in the middle of a call that changes something, and
\* only additions make a key.
CallFits ==
  op.phase \in Phase =>
    /\ access # "closed"
    /\ op.name # "get" => Writable
    /\ op.phase \in {"enlist", "enlisted", "cleanup"} => op.name = "add"

\* The file need not be written at close, unless the index is new or the
\* dictionary is marked dirty.  A closed index is empty and idle.
FileMatches ==
  /\ access = "closed" => op = Idle /\ Cached = {}
  /\ access = "rdonly" \/ (access = "update" /\ ~dictDirty) => dictFile = dict
  /\ op.phase \in {"flush", "closing"} => todo \subseteq Cached

GixIInv == /\ GixTypeOK
        /\ LinkedBlobs(KeyPtr, blob)
        /\ Coherent(dict, blob, sets, InUse)
        /\ NoStalePointer
        /\ CallFits
        /\ FileMatches

(***************************************************************************)
(* The dictionary and the blobs stay linked: what storing, removing and    *)
(* enlisting an item set do to them, whatever the cache holds.             *)
(***************************************************************************)
BlobMap == [BlobPt -> SavedSet \cup {NoSet}]

LEMMA MovedLinked ==
  ASSUME NEW d \in Dict, NEW b \in BlobMap, LinkedBlobs(d, b),
         NEW p \in BlobPt, NEW q \in BlobPt, NEW s \in SavedSet,
         b[p] # NoSet, b[p].key = s.key, q = p \/ b[q] = NoSet
  PROVE  /\ [d EXCEPT ![s.key] = q] \in Dict
         /\ [b EXCEPT ![p] = NoSet, ![q] = s] \in BlobMap
         /\ LinkedBlobs([d EXCEPT ![s.key] = q], [b EXCEPT ![p] = NoSet, ![q] = s])
  <1> USE PtrAssumption, NoSetAssumption
  <1> DEFINE e == [d EXCEPT ![s.key] = q]
             c == [b EXCEPT ![p] = NoSet, ![q] = s]
  <1>1. e \in Dict /\ c \in BlobMap
    BY DEF Dict, BlobMap, SavedSet
  <1>2. \A k \in Key : e[k] = IF k = s.key THEN q ELSE d[k]
    BY DEF Dict
  <1>3. \A r \in BlobPt : c[r] = IF r = q THEN s ELSE IF r = p THEN NoSet ELSE b[r]
    BY DEF BlobMap
  <1>4. s.key \in Key /\ s # NoSet /\ d[s.key] = p
    BY DEF LinkedBlobs, SavedSet
  <1>5. \A k \in Key : d[k] # NoPtr => d[k] \in BlobPt
    BY DEF Dict
  <1>6. \A r \in BlobPt : b[r] # NoSet => b[r].key \in Key
    BY DEF BlobMap, SavedSet
  <1> HIDE DEF e, c
  <1>7. ASSUME NEW k \in Key, e[k] # NoPtr PROVE c[e[k]] # NoSet /\ c[e[k]].key = k
    <2>1. CASE k = s.key
      BY <1>2, <1>3, <1>4, <2>1
    <2>2. CASE k # s.key
      <3>1. e[k] = d[k] /\ d[k] \in BlobPt /\ b[d[k]] # NoSet /\ b[d[k]].key = k
        BY <1>2, <1>5, <1>7, <2>2 DEF LinkedBlobs
      <3>2. d[k] # p /\ d[k] # q
        BY <2>2, <3>1
      <3> QED
        BY <1>3, <3>1, <3>2
    <2> QED
      BY <2>1, <2>2
  <1>8. ASSUME NEW r \in BlobPt, c[r] # NoSet PROVE e[c[r].key] = r
    <2>1. CASE r = q
      BY <1>2, <1>3, <1>4, <2>1
    <2>2. CASE r # q
      <3>1. r # p /\ c[r] = b[r] /\ b[r] # NoSet
        BY <1>3, <1>8, <2>2
      <3>2. d[b[r].key] = r /\ b[r].key \in Key
        BY <1>6, <3>1 DEF LinkedBlobs
      <3>3. b[r].key # s.key
        BY <1>4, <3>1, <3>2
      <3> QED
        BY <1>2, <3>1, <3>2, <3>3
    <2> QED
      BY <2>1, <2>2
  <1>9. LinkedBlobs(e, c)
    BY <1>7, <1>8 DEF LinkedBlobs
  <1> QED
    BY <1>1, <1>9 DEF e, c

LEMMA RemovedLinked ==
  ASSUME NEW d \in Dict, NEW b \in BlobMap, LinkedBlobs(d, b),
         NEW p \in BlobPt, b[p] # NoSet
  PROVE  /\ [d EXCEPT ![b[p].key] = NoPtr] \in Dict
         /\ [b EXCEPT ![p] = NoSet] \in BlobMap
         /\ LinkedBlobs([d EXCEPT ![b[p].key] = NoPtr], [b EXCEPT ![p] = NoSet])
  <1> USE PtrAssumption, NoSetAssumption
  <1> DEFINE k0 == b[p].key
             e == [d EXCEPT ![k0] = NoPtr]
             c == [b EXCEPT ![p] = NoSet]
  <1>1. e \in Dict /\ c \in BlobMap
    BY DEF Dict, BlobMap
  <1>2. \A k \in Key : e[k] = IF k = k0 THEN NoPtr ELSE d[k]
    BY DEF Dict
  <1>3. \A r \in BlobPt : c[r] = IF r = p THEN NoSet ELSE b[r]
    BY DEF BlobMap
  <1>4. k0 \in Key /\ d[k0] = p
    BY DEF LinkedBlobs, BlobMap, SavedSet
  <1>5. \A k \in Key : d[k] # NoPtr => d[k] \in BlobPt
    BY DEF Dict
  <1>6. \A r \in BlobPt : b[r] # NoSet => b[r].key \in Key
    BY DEF BlobMap, SavedSet
  <1>7. ASSUME NEW k \in Key, k # k0, d[k] # NoPtr PROVE d[k] # p
    BY <1>7 DEF LinkedBlobs
  <1>8. LinkedBlobs(e, c)
    <2> HIDE DEF e, c, k0
    <2>1. ASSUME NEW k \in Key, e[k] # NoPtr PROVE c[e[k]] # NoSet /\ c[e[k]].key = k
      BY <1>2, <1>3, <1>5, <1>7, <2>1 DEF LinkedBlobs
    <2>2. ASSUME NEW r \in BlobPt, c[r] # NoSet PROVE e[c[r].key] = r
      <3>1. r # p /\ c[r] = b[r]
        BY <1>3, <2>2
      <3>2. b[r].key \in Key /\ d[b[r].key] = r
        BY <1>6, <2>2, <3>1 DEF LinkedBlobs
      <3> QED
        BY <1>2, <1>4, <3>1, <3>2
    <2> QED
      BY <2>1, <2>2 DEF LinkedBlobs
  <1> QED
    BY <1>1, <1>8 DEF e, c, k0

LEMMA AddedLinked ==
  ASSUME NEW d \in Dict, NEW b \in BlobMap, LinkedBlobs(d, b),
         NEW q \in BlobPt, NEW s \in SavedSet, b[q] = NoSet, d[s.key] = NoPtr
  PROVE  /\ [d EXCEPT ![s.key] = q] \in Dict
         /\ [b EXCEPT ![q] = s] \in BlobMap
         /\ LinkedBlobs([d EXCEPT ![s.key] = q], [b EXCEPT ![q] = s])
  <1> USE PtrAssumption, NoSetAssumption
  <1> DEFINE e == [d EXCEPT ![s.key] = q]
             c == [b EXCEPT ![q] = s]
  <1>1. e \in Dict /\ c \in BlobMap
    BY DEF Dict, BlobMap, SavedSet
  <1>2. \A k \in Key : e[k] = IF k = s.key THEN q ELSE d[k]
    BY DEF Dict
  <1>3. \A r \in BlobPt : c[r] = IF r = q THEN s ELSE b[r]
    BY DEF BlobMap
  <1>4. s.key \in Key /\ s # NoSet
    BY DEF SavedSet
  <1>5. \A k \in Key : d[k] # NoPtr => d[k] \in BlobPt
    BY DEF Dict
  <1>6. \A r \in BlobPt : b[r] # NoSet => b[r].key \in Key
    BY DEF BlobMap, SavedSet
  <1>7. LinkedBlobs(e, c)
    <2> HIDE DEF e, c
    <2>1. ASSUME NEW k \in Key, e[k] # NoPtr PROVE c[e[k]] # NoSet /\ c[e[k]].key = k
      BY <1>2, <1>3, <1>4, <1>5, <2>1 DEF LinkedBlobs
    <2>2. ASSUME NEW r \in BlobPt, c[r] # NoSet PROVE e[c[r].key] = r
      BY <1>2, <1>3, <1>4, <1>6, <2>2 DEF LinkedBlobs
    <2> QED
      BY <2>1, <2>2 DEF LinkedBlobs
  <1> QED
    BY <1>1, <1>7 DEF e, c

(***************************************************************************)
(* What the invariant says of a cached item set and of the call.           *)
(***************************************************************************)
LEMMA UseFacts ==
  ASSUME GixIInv, NEW p \in InUse
  PROVE  /\ p \in BlobPt /\ p \in Cached
         /\ sets[p] \in ItemSet /\ sets[p].key \in Key
         /\ BlobOf(sets[p]) \in SavedSet /\ BlobOf(sets[p]).key = sets[p].key
         /\ access # "closed" /\ KeyPtr = dict /\ LinkedBlobs(dict, blob)
         /\ dict[sets[p].key] = p
         /\ blob[p] # NoSet /\ blob[p].key = sets[p].key
         /\ \A r \in InUse \ {p} : sets[r].key # sets[p].key
  <1> USE PtrAssumption, NoSetAssumption
  <1>0. GixTypeOK /\ Coherent(dict, blob, sets, InUse) /\ FileMatches /\ LinkedBlobs(KeyPtr, blob)
    BY DEF GixIInv
  <1>1. p \in Cached
    BY <1>0 DEF FileMatches, InUse
  <1>2. p \in BlobPt /\ sets[p] \in ItemSet
    BY <1>0, <1>1 DEF Cached, GixTypeOK
  <1>3. sets[p].key \in Key /\ BlobOf(sets[p]) \in SavedSet
        /\ BlobOf(sets[p]).key = sets[p].key
    BY <1>2 DEF ItemSet, SavedSet, BlobOf
  <1>4. access # "closed" /\ KeyPtr = dict
    BY <1>0, <1>1 DEF FileMatches, KeyPtr
  <1>5. dict[sets[p].key] = p
    BY <1>0 DEF Coherent
  <1>6. blob[p] # NoSet /\ blob[p].key = sets[p].key
    BY <1>0, <1>2, <1>3, <1>4, <1>5 DEF LinkedBlobs
  <1>7. \A r \in InUse \ {p} : sets[r].key # sets[p].key
    BY <1>0, <1>5 DEF Coherent
  <1> QED
    BY <1>0, <1>1, <1>2, <1>3, <1>4, <1>5, <1>6, <1>7

\* What storing an item set does to the dictionary and the blobs: nothing to
\* those of other keys.
LEMMA StoreFacts ==
  ASSUME GixIInv, NEW p \in InUse, NEW q \in BlobPt \cup {NoPtr}, StoreItemSet(p, q)
  PROVE  /\ dict' \in Dict /\ dictDirty' \in BOOLEAN /\ blob' \in BlobMap
         /\ LinkedBlobs(dict', blob')
         /\ ~dictDirty' => ~dictDirty /\ dict' = dict
         /\ \A k \in Key : k # sets[p].key => dict'[k] = dict[k]
         /\ \A r \in BlobPt : r # p /\ blob[r] # NoSet => blob'[r] = blob[r]
         /\ q # NoPtr => /\ q \in BlobPt /\ (q = p \/ blob[q] = NoSet)
                         /\ blob'[q] = BlobOf(sets[p])
                         /\ dict'[sets[p].key] = q
         /\ q = NoPtr => sets[p].items = {} /\ dict'[sets[p].key] = NoPtr
  <1> USE PtrAssumption, NoSetAssumption
  <1> DEFINE k == sets[p].key
             s == BlobOf(sets[p])
  <1>0. /\ dict \in Dict /\ dictDirty \in BOOLEAN /\ blob \in BlobMap
        /\ LinkedBlobs(dict, blob)
        /\ p \in BlobPt /\ k \in Key /\ s \in SavedSet /\ s.key = k
        /\ blob[p] # NoSet /\ blob[p].key = k /\ dict[k] = p
    BY UseFacts DEF GixIInv, GixTypeOK, BlobMap
  <1>1. CASE sets[p].items = {}
    <2>1. /\ q = NoPtr
          /\ blob' = [blob EXCEPT ![p] = NoSet]
          /\ dict' = [dict EXCEPT ![k] = NoPtr]
          /\ dictDirty' = TRUE
      BY <1>0, <1>1 DEF StoreItemSet, Blobs!Del, Relink
    <2>2. dict' \in Dict /\ blob' \in BlobMap /\ LinkedBlobs(dict', blob')
      BY <1>0, <2>1, RemovedLinked
    <2>3. ~dictDirty' => ~dictDirty /\ dict' = dict
      BY <2>1
    <2>4. /\ \A j \in Key : j # k => dict'[j] = dict[j]
          /\ dict'[k] = NoPtr
      BY <1>0, <2>1 DEF Dict
    <2>5. \A r \in BlobPt : r # p /\ blob[r] # NoSet => blob'[r] = blob[r]
      BY <1>0, <2>1 DEF BlobMap
    <2>6. dictDirty' \in BOOLEAN
      BY <2>1
    <2> QED
      BY <1>1, <2>1, <2>2, <2>3, <2>4, <2>5, <2>6
  <1>2. CASE sets[p].items # {}
    <2>1. /\ q \in BlobPt /\ (q = p \/ blob[q] = NoSet)
          /\ blob' = [blob EXCEPT ![p] = NoSet, ![q] = s]
          /\ dict' = [dict EXCEPT ![k] = q]
          /\ dictDirty' = (dictDirty \/ dict[k] # q)
      BY <1>2 DEF StoreItemSet, Blobs!Update, Blobs!Stored, Relink
    <2>2. dict' \in Dict /\ blob' \in BlobMap /\ LinkedBlobs(dict', blob')
      BY <1>0, <2>1, MovedLinked
    <2>3. ~dictDirty' => ~dictDirty /\ dict' = dict
      BY <1>0, <2>1 DEF Dict
    <2>4. /\ \A j \in Key : j # k => dict'[j] = dict[j]
          /\ dict'[k] = q
      BY <1>0, <2>1 DEF Dict
    <2>5. /\ \A r \in BlobPt : r # p /\ blob[r] # NoSet => blob'[r] = blob[r]
          /\ blob'[q] = s
      BY <1>0, <2>1 DEF BlobMap
    <2>6. dictDirty' \in BOOLEAN /\ q # NoPtr
      BY <2>1
    <2> QED
      BY <2>1, <2>2, <2>3, <2>4, <2>5, <2>6
  <1> QED
    BY <1>1, <1>2

\* ... and so none of the other cached item sets notices.
LEMMA OthersCoherent ==
  ASSUME GixIInv, NEW p \in InUse, NEW q \in BlobPt \cup {NoPtr}, StoreItemSet(p, q)
  PROVE  Coherent(dict', blob', sets, InUse \ {p})
  <1> SUFFICES ASSUME NEW r \in InUse \ {p}
               PROVE  /\ sets[r] # NoSet
                      /\ dict'[sets[r].key] = r
                      /\ ~sets[r].dirty => sets[r].pend = "none" /\ blob'[r] = BlobOf(sets[r])
    BY DEF Coherent
  <1>1. /\ r \in BlobPt /\ sets[r].key \in Key /\ dict[sets[r].key] = r
        /\ blob[r] # NoSet /\ sets[r].key # sets[p].key
    BY UseFacts
  <1>2. dict'[sets[r].key] = r /\ blob'[r] = blob[r]
    BY <1>1, StoreFacts
  <1> QED
    BY <1>2 DEF GixIInv, Coherent

\* The same for an item set that leaves the cache, stored or not.
LEMMA EvictFacts ==
  ASSUME GixIInv, NEW p \in InUse, OnDelFromCache(p)
  PROVE  /\ dict' \in Dict /\ dictDirty' \in BOOLEAN /\ blob' \in BlobMap
         /\ LinkedBlobs(dict', blob')
         /\ ~dictDirty' => ~dictDirty /\ dict' = dict
         /\ ~Writable => dict' = dict /\ dictDirty' = dictDirty
         /\ \A k \in Key : k # sets[p].key => dict'[k] = dict[k]
         /\ \A r \in BlobPt : r # p /\ blob[r] # NoSet => blob'[r] = blob[r]
         /\ Coherent(dict', blob', sets, InUse \ {p})
  <1>1. CASE Writable /\ sets[p].dirty
    <2>1. PICK q \in BlobPt \cup {NoPtr} : StoreItemSet(p, q)
      BY <1>1 DEF OnDelFromCache
    <2> QED
      BY <1>1, <2>1, StoreFacts, OthersCoherent
  <1>2. CASE ~(Writable /\ sets[p].dirty)
    <2>1. dict' = dict /\ dictDirty' = dictDirty /\ blob' = blob
      BY <1>2 DEF OnDelFromCache
    <2>2. LinkedBlobs(dict, blob) /\ dict \in Dict /\ dictDirty \in BOOLEAN /\ blob \in BlobMap
      BY UseFacts DEF GixIInv, GixTypeOK, BlobMap
    <2>3. Coherent(dict, blob, sets, InUse \ {p})
      BY DEF GixIInv, Coherent
    <2> QED
      BY <2>1, <2>2, <2>3
  <1> QED
    BY <1>1, <1>2

\* The call in progress has all its local variables.
LEMMA OpFacts ==
  ASSUME GixTypeOK, op.phase \in Phase
  PROVE  /\ op \in Ops /\ op.key \in Key /\ op.arg \subseteq ItemVal /\ op.name \in Names
         /\ op.pt \in BlobPt \cup {NoPtr} /\ op.set \in ItemSet \cup {NoSet}
  <1>1. op \in Ops \cup Other
    BY DEF GixTypeOK
  <1>2. op \notin Other
    BY DEF Other, Phase
  <1> QED
    BY <1>1, <1>2 DEF Ops

LEMMA AtFacts ==
  ASSUME op \in Ops, NEW ph \in Phase, NEW p \in BlobPt \cup {NoPtr},
         NEW s \in ItemSet \cup {NoSet}
  PROVE  /\ At(ph, p, s) \in Ops
         /\ At(ph, p, s).phase = ph /\ At(ph, p, s).name = op.name
         /\ At(ph, p, s).key = op.key /\ At(ph, p, s).arg = op.arg
         /\ At(ph, p, s).pt = p /\ At(ph, p, s).set = s
  BY DEF At, Ops

LEMMA LoadedFacts ==
  ASSUME NEW b \in SavedSet
  PROVE  /\ SetOf(b) \in ItemSet /\ SetOf(b) # NoSet /\ SetOf(b).key = b.key
         /\ ~SetOf(b).dirty /\ SetOf(b).pend = "none" /\ BlobOf(SetOf(b)) = b
  <1>1. b.key \in Key /\ b.items \in SUBSET ItemVal /\ b = [key |-> b.key, items |-> b.items]
    BY DEF SavedSet
  <1>2. SetOf(b) \in ItemSet
    BY <1>1 DEF SetOf, ItemSet
  <1>3. SetOf(b) # NoSet
    BY <1>2, NoSetAssumption
  <1> QED
    BY <1>1, <1>2, <1>3 DEF SetOf, BlobOf

(***************************************************************************)
(* The steps.  An item set leaves the cache, stored or not.                *)
(***************************************************************************)
LEMMA EvictKeeps ==
  ASSUME GixIInv, NEW p \in Cached, OnDelFromCache(p),
         op.phase \in {"idle", "refresh", "insert", "enlisted", "cleanup"},
         sets' = [sets EXCEPT ![p] = NoSet],
         UNCHANGED <<dictFile, access, op, todo, answer>>
  PROVE  GixIInv'
  <1>0. /\ GixTypeOK /\ NoStalePointer /\ CallFits /\ FileMatches
        /\ InUse = Cached /\ InUse' = Cached' /\ p \in InUse
    BY DEF GixIInv, InUse
  <1>1. /\ p \in BlobPt /\ access # "closed" /\ sets[p].key \in Key
        /\ dict[sets[p].key] = p /\ LinkedBlobs(dict, blob)
    BY <1>0, UseFacts
  <1>2. \A r \in BlobPt : sets'[r] = IF r = p THEN NoSet ELSE sets[r]
    BY <1>0 DEF GixTypeOK
  <1>3. Cached' = Cached \ {p}
    BY <1>2 DEF Cached
  <1>4. GixTypeOK'
    BY <1>0, EvictFacts DEF GixTypeOK, BlobMap
  <1>5. LinkedBlobs(KeyPtr', blob')
    BY <1>0, <1>1, EvictFacts DEF KeyPtr
  <1>6. Coherent(dict', blob', sets', InUse')
    <2>1. Coherent(dict', blob', sets, Cached \ {p})
      BY <1>0, EvictFacts
    <2>2. \A r \in Cached \ {p} : sets'[r] = sets[r]
      BY <1>2 DEF Cached
    <2> QED
      BY <1>0, <1>3, <2>1, <2>2 DEF Coherent
  <1>7. NoStalePointer'
    <2>1. CASE op.phase \in {"insert", "enlisted"}
      <3>1. op.key \in Key /\ op.pt \in BlobPt
        BY <1>0, <2>1, OpFacts DEF GixTypeOK, Phase
      <3>2. dict[op.key] = op.pt /\ op.pt \notin Cached /\ op.set = SetOf(blob[op.pt])
        BY <1>0, <2>1 DEF NoStalePointer
      <3>3. op.pt # p /\ op.key # sets[p].key
        BY <1>1, <3>2
      <3>4. blob[op.pt] # NoSet
        BY <1>1, <3>1, <3>2, PtrAssumption DEF LinkedBlobs
      <3>5. dict'[op.key] = op.pt /\ blob'[op.pt] = blob[op.pt]
        BY <1>0, <3>1, <3>2, <3>3, <3>4, EvictFacts
      <3> QED
        BY <1>3, <2>1, <3>2, <3>5 DEF NoStalePointer
    <2>2. CASE op.phase \notin {"insert", "enlisted"}
      BY <2>2 DEF NoStalePointer
    <2> QED
      BY <2>1, <2>2
  <1>8. CallFits'
    BY <1>0 DEF CallFits, Writable
  <1>9. FileMatches'
    BY <1>0, <1>1, EvictFacts DEF FileMatches, Writable
  <1> QED
    BY <1>4, <1>5, <1>6, <1>7, <1>8, <1>9 DEF GixIInv

\* An item set in the cache is changed.
LEMMA WorkCoherent ==
  ASSUME GixTypeOK, Coherent(dict, blob, sets, Cached), NEW p \in Cached,
         NEW s \in ItemSet, s.key = sets[p].key,
         ~s.dirty => s.pend = "none" /\ blob[p] = BlobOf(s),
         sets' = [sets EXCEPT ![p] = s]
  PROVE  /\ sets' \in [BlobPt -> ItemSet \cup {NoSet}]
         /\ Cached' = Cached
         /\ Coherent(dict, blob, sets', Cached')
         /\ sets'[p] = s
  <1> USE NoSetAssumption
  <1>1. p \in BlobPt /\ s # NoSet
    BY DEF Cached
  <1>2. /\ sets' \in [BlobPt -> ItemSet \cup {NoSet}]
        /\ \A r \in BlobPt : sets'[r] = IF r = p THEN s ELSE sets[r]
    BY <1>1 DEF GixTypeOK
  <1>3. Cached' = Cached
    BY <1>1, <1>2 DEF Cached
  <1>4. Coherent(dict, blob, sets', Cached')
    <2> SUFFICES ASSUME NEW r \in Cached
                 PROVE  /\ sets'[r] # NoSet
                        /\ dict[sets'[r].key] = r
                        /\ ~sets'[r].dirty => /\ sets'[r].pend = "none"
                                               /\ blob[r] = BlobOf(sets'[r])
      BY <1>3 DEF Coherent
    <2>1. CASE r = p
      BY <1>1, <1>2, <2>1 DEF Coherent
    <2>2. CASE r # p
      <3>1. sets'[r] = sets[r]
        BY <1>2, <2>2 DEF Cached
      <3> QED
        BY <3>1 DEF Coherent
    <2> QED
      BY <2>1, <2>2
  <1> QED
    BY <1>1, <1>2, <1>3, <1>4

\* One step of a call works on the item set p, or on none (cache' = cache).
LEMMA Work ==
  ASSUME GixIInv, op.phase \in {"refresh", "apply", "cleanup"},
         \/ op' = op
         \/ op' = Idle
         \/ op.name = "add" /\ op' = At("cleanup", op.pt, NoSet),
         op'.phase # "apply",
         \/ sets' = sets
         \/ \E p \in Cached, s \in ItemSet :
              /\ s.key = sets[p].key
              /\ ~s.dirty => s.pend = "none" /\ blob[p] = BlobOf(s)
              /\ sets' = [sets EXCEPT ![p] = s],
         answer' \subseteq ItemVal,
         UNCHANGED <<dict, dictDirty, blob, dictFile, access, todo>>
  PROVE  GixIInv'
  <1>0. /\ GixTypeOK /\ NoStalePointer /\ CallFits /\ FileMatches
        /\ InUse = Cached /\ Coherent(dict, blob, sets, Cached) /\ LinkedBlobs(KeyPtr, blob)
    BY DEF GixIInv, InUse
  <1>1. op \in Ops /\ op.phase \in Phase
    BY <1>0, OpFacts DEF Phase
  <1>2. /\ op' \in Ops \cup {Idle}
        /\ op'.phase \in {"idle", "refresh", "cleanup"}
        /\ op'.phase \in Phase => op'.name = op.name
        /\ op'.phase = "cleanup" => op.name = "add"
    <2>1. CASE op' = op
      BY <1>0, <1>1, <2>1 DEF CallFits
    <2>2. CASE op' = Idle
      BY <2>2 DEF Idle, Phase
    <2>3. CASE op' = At("cleanup", op.pt, NoSet) /\ op.name = "add"
      BY <1>1, <2>3, AtFacts DEF Phase, Ops
    <2> QED
      BY <2>1, <2>2, <2>3
  <1>3. /\ sets' \in [BlobPt -> ItemSet \cup {NoSet}]
        /\ Cached' = Cached
        /\ Coherent(dict, blob, sets', Cached')
    <2>1. CASE sets' = sets
      BY <1>0, <2>1 DEF GixTypeOK, Cached
    <2>2. CASE sets' # sets
      BY <1>0, <2>2, WorkCoherent
    <2> QED
      BY <2>1, <2>2
  <1>4. InUse' = Cached'
    BY <1>2 DEF InUse
  <1>5. GixTypeOK'
    BY <1>0, <1>2, <1>3 DEF GixTypeOK, Other, Idle
  <1>6. LinkedBlobs(KeyPtr', blob')
    BY <1>0 DEF KeyPtr
  <1>7. Coherent(dict', blob', sets', InUse')
    BY <1>3, <1>4
  <1>8. NoStalePointer'
    BY <1>2 DEF NoStalePointer
  <1>9. CallFits'
    BY <1>0, <1>1, <1>2 DEF CallFits, Writable
  <1>10. FileMatches'
    BY <1>0, <1>1, <1>2, <1>3 DEF FileMatches, CallFits
  <1> QED
    BY <1>5, <1>6, <1>7, <1>8, <1>9, <1>10 DEF GixIInv

\* Only the call itself moves on, or another kind of work begins.
LEMMA MoveOn ==
  ASSUME GixIInv, op'.phase \notin {"flush", "closing"}, op.phase \notin {"flush", "closing"},
         op' \in Ops \cup Other, op'.phase \in {"fetch", "apply", "insert"} => op'.pt \in BlobPt,
         op'.phase # "enlisted",
         op'.phase \in Phase => /\ access # "closed"
                                /\ op'.name # "get" => Writable
                                /\ op'.phase \in {"enlist", "cleanup"} => op'.name = "add",
         NoStalePointer', access = "closed" => op' = Idle,
         answer' \subseteq ItemVal,
         UNCHANGED <<dict, dictDirty, sets, blob, dictFile, access, todo>>
  PROVE  GixIInv'
  <1>0. /\ GixTypeOK /\ CallFits /\ FileMatches /\ LinkedBlobs(KeyPtr, blob)
        /\ InUse = Cached /\ InUse' = Cached' /\ Cached' = Cached
        /\ Coherent(dict, blob, sets, Cached)
    BY DEF GixIInv, InUse, Cached
  <1>1. GixTypeOK'
    BY <1>0 DEF GixTypeOK
  <1>2. LinkedBlobs(KeyPtr', blob') /\ Coherent(dict', blob', sets', InUse')
    BY <1>0 DEF KeyPtr
  <1>3. CallFits'
    BY DEF CallFits, Writable
  <1>4. FileMatches'
    BY <1>0 DEF FileMatches
  <1> QED
    BY <1>1, <1>2, <1>3, <1>4 DEF GixIInv

LEMMA BeginStep ==
  ASSUME GixIInv, NEW name \in Names, NEW k \in Key, NEW arg \in SUBSET ItemVal,
         Begin(name, k, arg)
  PROVE  GixIInv'
  <1>1. /\ op = Idle /\ access # "closed" /\ (name # "get" => Writable)
        /\ op' = [phase |-> "refresh", name |-> name, key |-> k, arg |-> arg,
                  pt |-> NoPtr, set |-> NoSet]
    BY DEF Begin
  <1>2. op' \in Ops /\ op'.phase = "refresh" /\ op'.name = name
    BY <1>1 DEF Ops, Phase
  <1>3. NoStalePointer'
    BY <1>2 DEF NoStalePointer
  <1>4. answer' \subseteq ItemVal /\ UNCHANGED <<dict, dictDirty, sets, blob, dictFile, access, todo>>
    BY DEF Begin, GixIInv, GixTypeOK
  <1> QED
    BY <1>1, <1>2, <1>3, <1>4, MoveOn DEF Idle

LEMMA ResolveStep ==
  ASSUME GixIInv, Resolve
  PROVE  GixIInv'
  <1> USE PtrAssumption
  <1>0. /\ GixTypeOK /\ CallFits /\ FileMatches /\ op.phase = "refresh"
        /\ UNCHANGED <<dict, dictDirty, sets, blob, dictFile, access, todo>>
    BY DEF GixIInv, Resolve
  <1>1. /\ op \in Ops /\ op.key \in Key /\ dict[op.key] \in BlobPt \cup {NoPtr}
        /\ access # "closed" /\ (op.name # "get" => Writable)
    BY <1>0, OpFacts DEF Phase, GixTypeOK, Dict, CallFits
  <1>2. answer' \subseteq ItemVal
    BY <1>0 DEF Resolve, GixTypeOK
  <1>3. CASE dict[op.key] # NoPtr
    <2>1. op' = At("fetch", dict[op.key], NoSet) /\ dict[op.key] \in BlobPt
      BY <1>1, <1>3 DEF Resolve
    <2>2. /\ op' \in Ops /\ op'.phase = "fetch" /\ op'.name = op.name
          /\ op'.key = op.key /\ op'.pt = dict[op.key]
      BY <1>1, <2>1, AtFacts DEF Phase
    <2>3. NoStalePointer'
      BY <1>0, <2>2 DEF NoStalePointer
    <2> QED
      BY <1>0, <1>1, <1>2, <2>1, <2>2, <2>3, MoveOn
  <1>4. CASE dict[op.key] = NoPtr /\ op.name = "add"
    <2>1. op' = At("enlist", NoPtr, NoSet)
      BY <1>4 DEF Resolve
    <2>2. /\ op' \in Ops /\ op'.phase = "enlist" /\ op'.name = "add" /\ op'.key = op.key
      BY <1>1, <1>4, <2>1, AtFacts DEF Phase
    <2>3. NoStalePointer'
      BY <1>0, <1>4, <2>2 DEF NoStalePointer
    <2> QED
      BY <1>0, <1>1, <1>2, <1>4, <2>2, <2>3, MoveOn
  <1>5. CASE dict[op.key] = NoPtr /\ op.name # "add"
    <2>1. op' = Idle
      BY <1>5 DEF Resolve
    <2>2. NoStalePointer'
      BY <2>1 DEF NoStalePointer, Idle
    <2> QED
      BY <1>0, <1>2, <2>1, <2>2, MoveOn DEF Idle, Other, Phase
  <1> QED
    BY <1>3, <1>4, <1>5

LEMMA FetchStep ==
  ASSUME GixIInv, Fetch
  PROVE  GixIInv'
  <1> USE PtrAssumption
  <1>0. /\ GixTypeOK /\ CallFits /\ NoStalePointer /\ op.phase = "fetch"
        /\ LinkedBlobs(KeyPtr, blob) /\ Coherent(dict, blob, sets, Cached)
        /\ UNCHANGED <<dict, dictDirty, sets, blob, dictFile, access, todo, answer>>
    BY DEF GixIInv, Fetch, InUse
  <1>1. /\ op \in Ops /\ op.key \in Key /\ op.pt \in BlobPt /\ dict[op.key] = op.pt
        /\ access # "closed" /\ (op.name # "get" => Writable)
    BY <1>0, OpFacts DEF Phase, GixTypeOK, NoStalePointer, CallFits
  <1>2. blob[op.pt] \in SavedSet /\ blob[op.pt].key = op.key
    BY <1>0, <1>1 DEF LinkedBlobs, KeyPtr, GixTypeOK
  <1>3. CASE op.pt \in Cached /\ op' = At("apply", op.pt, NoSet)
    <2>1. /\ op' \in Ops /\ op'.phase = "apply" /\ op'.name = op.name
          /\ op'.key = op.key /\ op'.pt = op.pt
      BY <1>1, <1>3, AtFacts DEF Phase
    <2>2. sets[op.pt].key = op.key
      <3>1. dict[sets[op.pt].key] = op.pt /\ sets[op.pt].key \in Key
        BY <1>0, <1>1, <1>3 DEF Coherent, Cached, GixTypeOK, ItemSet
      <3>2. blob[op.pt].key = sets[op.pt].key
        BY <1>0, <1>1, <3>1 DEF LinkedBlobs, KeyPtr
      <3> QED
        BY <1>2, <3>2
    <2>3. NoStalePointer'
      BY <1>0, <1>1, <1>3, <2>1, <2>2 DEF NoStalePointer, RightKey, Cached
    <2> QED
      BY <1>0, <1>1, <2>1, <2>3, MoveOn DEF GixTypeOK
  <1>4. CASE op.pt \notin Cached /\ op' = At("insert", op.pt, SetOf(blob[op.pt]))
    <2>1. /\ op' \in Ops /\ op'.phase = "insert" /\ op'.name = op.name
          /\ op'.key = op.key /\ op'.pt = op.pt /\ op'.set = SetOf(blob[op.pt])
      BY <1>1, <1>2, <1>4, AtFacts, LoadedFacts DEF Phase
    <2>2. NoStalePointer'
      BY <1>0, <1>1, <1>4, <2>1 DEF NoStalePointer, Cached
    <2> QED
      BY <1>0, <1>1, <2>1, <2>2, MoveOn DEF GixTypeOK
  <1> QED
    BY <1>3, <1>4 DEF Fetch

LEMMA EnlistStep ==
  ASSUME GixIInv, NEW p \in BlobPt, Enlist(p)
  PROVE  GixIInv'
  <1> USE PtrAssumption, NoSetAssumption
  <1> DEFINE b == [key |-> op.key, items |-> op.arg]
  <1>0. /\ GixTypeOK /\ CallFits /\ NoStalePointer /\ FileMatches /\ op.phase = "enlist"
        /\ Coherent(dict, blob, sets, Cached)
        /\ UNCHANGED <<sets, dictFile, access, todo, answer>>
    BY DEF GixIInv, Enlist, InUse
  <1>1. /\ op \in Ops /\ op.key \in Key /\ op.arg \in SUBSET ItemVal
        /\ dict[op.key] = NoPtr /\ access # "closed" /\ op.name = "add" /\ Writable
    BY <1>0, OpFacts DEF Phase, NoStalePointer, CallFits
  <1>2. /\ dict \in Dict /\ blob \in BlobMap /\ LinkedBlobs(dict, blob) /\ b \in SavedSet
    BY <1>0, <1>1 DEF GixIInv, KeyPtr, GixTypeOK, BlobMap, SavedSet
  <1>3. /\ blob[p] = NoSet
        /\ blob' = [blob EXCEPT ![p] = b]
        /\ dict' = [dict EXCEPT ![b.key] = p] /\ dictDirty' = TRUE
    BY <1>1 DEF Enlist, Blobs!Put, Blobs!Stored, Relink
  <1>4. dict' \in Dict /\ blob' \in BlobMap /\ LinkedBlobs(dict', blob')
    BY <1>1, <1>2, <1>3, AddedLinked
  <1>5. /\ \A k \in Key : k # op.key => dict'[k] = dict[k]
        /\ dict'[op.key] = p /\ blob'[p] = b
        /\ \A r \in BlobPt : r # p => blob'[r] = blob[r]
    BY <1>1, <1>2, <1>3 DEF Dict, BlobMap
  <1>6. /\ op' \in Ops /\ op'.phase = "enlisted" /\ op'.name = "add"
        /\ op'.key = op.key /\ op'.pt = p /\ op'.set = SetOf(b)
    BY <1>1, <1>2, AtFacts, LoadedFacts DEF Enlist, Phase
  <1> HIDE DEF b
  <1>7. InUse = Cached /\ InUse' = Cached' /\ Cached' = Cached
    BY <1>0, <1>6 DEF InUse, Cached
  <1>8. \A r \in Cached : /\ r \in BlobPt /\ sets[r].key \in Key
                           /\ r # p /\ sets[r].key # op.key
    BY <1>1, <1>3, <1>7, UseFacts
  <1>9. GixTypeOK'
    BY <1>0, <1>3, <1>4, <1>6 DEF GixTypeOK, BlobMap
  <1>10. LinkedBlobs(KeyPtr', blob')
    BY <1>0, <1>1, <1>4 DEF KeyPtr
  <1>11. Coherent(dict', blob', sets', InUse')
    BY <1>0, <1>5, <1>7, <1>8 DEF Coherent
  <1>12. NoStalePointer'
    BY <1>5, <1>6, <1>7, <1>8 DEF NoStalePointer
  <1>13. CallFits'
    BY <1>0, <1>1, <1>6 DEF CallFits, Writable
  <1>14. FileMatches'
    BY <1>0, <1>1, <1>3, <1>6 DEF FileMatches, Writable
  <1> QED
    BY <1>9, <1>10, <1>11, <1>12, <1>13, <1>14 DEF GixIInv

LEMMA InsertStep ==
  ASSUME GixIInv, Insert
  PROVE  GixIInv'
  <1> USE PtrAssumption, NoSetAssumption
  <1> DEFINE ph == IF op.phase = "insert" THEN "apply" ELSE "cleanup"
  <1>0. /\ GixTypeOK /\ CallFits /\ NoStalePointer /\ FileMatches
        /\ op.phase \in {"insert", "enlisted"}
        /\ Coherent(dict, blob, sets, Cached) /\ LinkedBlobs(KeyPtr, blob)
        /\ UNCHANGED <<dict, dictDirty, blob, dictFile, access, todo, answer>>
    BY DEF GixIInv, Insert, InUse
  <1>1. /\ op \in Ops /\ op.key \in Key /\ op.pt \in BlobPt /\ dict[op.key] = op.pt
        /\ op.pt \notin Cached /\ op.set = SetOf(blob[op.pt])
        /\ access # "closed" /\ (op.name # "get" => Writable)
        /\ op.phase = "enlisted" => op.name = "add"
    BY <1>0, OpFacts DEF Phase, GixTypeOK, NoStalePointer, CallFits
  <1>2. blob[op.pt] \in SavedSet /\ blob[op.pt].key = op.key
    BY <1>0, <1>1 DEF LinkedBlobs, KeyPtr, GixTypeOK
  <1>3. /\ op.set \in ItemSet /\ op.set # NoSet /\ op.set.key = op.key
        /\ op.set.pend = "none" /\ blob[op.pt] = BlobOf(op.set)
    BY <1>1, <1>2, LoadedFacts
  <1>4. /\ op' \in Ops /\ op'.phase = ph /\ op'.name = op.name /\ op'.key = op.key
        /\ op'.pt = op.pt /\ op'.set = NoSet
    BY <1>0, <1>1, AtFacts DEF Insert, Phase
  <1>5. /\ sets' = [sets EXCEPT ![op.pt] = op.set]
        /\ \A r \in BlobPt : sets'[r] = IF r = op.pt THEN op.set ELSE sets[r]
    BY <1>0, <1>1 DEF Insert, GixTypeOK
  <1>6. Cached' = Cached \cup {op.pt} /\ InUse' = Cached'
    BY <1>0, <1>1, <1>3, <1>4, <1>5 DEF Cached, InUse
  <1>7. GixTypeOK'
    BY <1>0, <1>1, <1>3, <1>4, <1>5 DEF GixTypeOK
  <1>8. LinkedBlobs(KeyPtr', blob')
    BY <1>0 DEF KeyPtr
  <1>9. Coherent(dict', blob', sets', InUse')
    <2>1. ASSUME NEW r \in Cached
          PROVE  sets'[r] = sets[r]
      BY <1>1, <1>5 DEF Cached
    <2>2. sets'[op.pt] = op.set
      BY <1>1, <1>5
    <2>3. Coherent(dict, blob, sets', Cached)
      BY <1>0, <2>1 DEF Coherent
    <2>4. Coherent(dict, blob, sets', {op.pt})
      BY <1>1, <1>3, <2>2 DEF Coherent
    <2> QED
      BY <1>0, <1>6, <2>3, <2>4 DEF Coherent
  <1>10. NoStalePointer'
    BY <1>0, <1>1, <1>3, <1>4, <1>5, <1>6 DEF NoStalePointer, RightKey
  <1>11. CallFits'
    BY <1>0, <1>1, <1>4 DEF CallFits, Writable
  <1>12. FileMatches'
    BY <1>0, <1>1, <1>4, <1>6 DEF FileMatches
  <1> QED
    BY <1>7, <1>8, <1>9, <1>10, <1>11, <1>12 DEF GixIInv

LEMMA PackLocalStep ==
  ASSUME GixIInv, NEW p \in BlobPt, PackLocal(p)
  PROVE  GixIInv'
  <1> DEFINE s == With(sets[p], sets[p].items, "none", TRUE)
  <1>1. /\ p \in Cached /\ op.phase \in {"refresh", "cleanup"} /\ op' = op
        /\ sets' = [sets EXCEPT ![p] = s]
    BY DEF PackLocal, GixIInv, GixTypeOK
  <1>2. sets[p] \in ItemSet /\ sets[p].items \in SUBSET ItemVal /\ answer \subseteq ItemVal
    BY <1>1 DEF GixIInv, GixTypeOK, Cached, ItemSet
  <1>3. s \in ItemSet /\ s.key = sets[p].key /\ s.dirty = TRUE
    BY <1>2 DEF With, ItemSet
  <1> HIDE DEF s
  <1> QED
    BY <1>1, <1>2, <1>3, Work DEF PackLocal

\* The item set a call is about to work on.
LEMMA ApplyFacts ==
  ASSUME GixIInv, op.phase = "apply"
  PROVE  /\ op \in Ops /\ op.key \in Key /\ op.arg \in SUBSET ItemVal /\ answer \subseteq ItemVal
         /\ op.pt \in BlobPt /\ op.pt \in Cached /\ op.pt \in InUse /\ dict[op.key] = op.pt
         /\ sets[op.pt] \in ItemSet /\ sets[op.pt].key = op.key
         /\ sets[op.pt].items \in SUBSET ItemVal /\ sets[op.pt].dirty \in BOOLEAN
         /\ sets[op.pt].pend \in {"none", "adds", "dels"}
         /\ ~sets[op.pt].dirty => /\ sets[op.pt].pend = "none"
                                   /\ blob[op.pt] = BlobOf(sets[op.pt])
  <1>1. /\ GixTypeOK /\ NoStalePointer /\ op.pt \in Cached /\ dict[op.key] = op.pt
        /\ sets[op.pt].key = op.key /\ InUse = Cached
        /\ Coherent(dict, blob, sets, Cached)
    BY DEF GixIInv, NoStalePointer, RightKey, InUse
  <1>2. sets[op.pt] \in ItemSet /\ op.pt \in BlobPt
    BY <1>1 DEF Cached, GixTypeOK
  <1> QED
    BY <1>1, <1>2, OpFacts DEF Phase, GixTypeOK, ItemSet, Coherent

LEMMA ApplyAddStep ==
  ASSUME GixIInv, ApplyAdd
  PROVE  GixIInv'
  <1>1. /\ op.phase = "apply" /\ op.name = "add" /\ op' = At("cleanup", op.pt, NoSet)
        /\ UNCHANGED <<dict, dictDirty, blob, dictFile, access, todo, answer>>
    BY DEF ApplyAdd
  <1>2. PICK pend \in {"none", "adds", sets[op.pt].pend} :
          sets' = IF op.arg = {} THEN sets
                   ELSE [sets EXCEPT ![op.pt] = With(sets[op.pt], sets[op.pt].items \cup op.arg,
                                                      pend, TRUE)]
    BY ApplyFacts, <1>1 DEF ApplyAdd, GixIInv, GixTypeOK
  <1> DEFINE s == With(sets[op.pt], sets[op.pt].items \cup op.arg, pend, TRUE)
  <1>3. s \in ItemSet /\ s.key = sets[op.pt].key /\ s.dirty = TRUE
    BY <1>1, ApplyFacts DEF With, ItemSet
  <1>4. sets' = sets \/ sets' = [sets EXCEPT ![op.pt] = s]
    BY <1>2
  <1>5. op.pt \in Cached /\ answer' \subseteq ItemVal /\ op'.phase = "cleanup"
    BY <1>1, ApplyFacts, AtFacts DEF Phase
  <1> HIDE DEF s
  <1> QED
    BY <1>1, <1>3, <1>4, <1>5, Work

LEMMA ApplyClrStep ==
  ASSUME GixIInv, ApplyClr
  PROVE  GixIInv'
  <1> DEFINE s == With(sets[op.pt], {}, "none", TRUE)
  <1>1. op.phase = "apply" /\ op' = Idle /\ op'.phase = "idle"
    BY DEF ApplyClr, Idle
  <1>2. sets' = [sets EXCEPT ![op.pt] = s]
    BY DEF ApplyClr, GixIInv, GixTypeOK
  <1>3. s \in ItemSet /\ s.key = sets[op.pt].key /\ s.dirty = TRUE
    BY <1>1, ApplyFacts DEF With, ItemSet
  <1> HIDE DEF s
  <1> QED
    BY <1>1, <1>2, <1>3, ApplyFacts, Work DEF ApplyClr

LEMMA ApplyGetStep ==
  ASSUME GixIInv, ApplyGet
  PROVE  GixIInv'
  <1> DEFINE t == sets[op.pt]
             s == With(t, t.items, "none", t.dirty \/ t.pend # "none")
  <1>1. op.phase = "apply" /\ op' = Idle /\ op'.phase = "idle"
    BY DEF ApplyGet, Idle
  <1>2. sets' = [sets EXCEPT ![op.pt] = s]
    BY ApplyFacts, <1>1 DEF ApplyGet, GixIInv, GixTypeOK
  <1>3. /\ s \in ItemSet /\ s.key = t.key /\ s.items = t.items /\ s.pend = "none"
        /\ s.dirty = (t.dirty \/ t.pend # "none")
    BY <1>1, ApplyFacts DEF With, ItemSet
  <1>4. ~s.dirty => blob[op.pt] = BlobOf(s)
    BY <1>1, <1>3, ApplyFacts DEF BlobOf
  <1>5. answer' \subseteq ItemVal
    BY <1>1, ApplyFacts DEF ApplyGet
  <1> HIDE DEF s
  <1> QED
    BY <1>1, <1>2, <1>3, <1>4, <1>5, ApplyFacts, Work DEF ApplyGet

\* What deletes leave of an item set: if it is not dirty, nothing has happened.
LEMMA AfterDelFacts ==
  ASSUME GixIInv, op.phase = "apply", op.name \in {"del", "below"}
  PROVE  /\ AfterDel(sets[op.pt]) \in ItemSet
         /\ AfterDel(sets[op.pt]).key = sets[op.pt].key
         /\ ~AfterDel(sets[op.pt]).dirty =>
               /\ AfterDel(sets[op.pt]).pend = "none"
               /\ blob[op.pt] = BlobOf(AfterDel(sets[op.pt]))
         /\ AfterDel(sets[op.pt]).items = sets[op.pt].items \ op.arg
  <1> DEFINE t == sets[op.pt]
  <1>0. /\ t \in ItemSet /\ t.items \in SUBSET ItemVal /\ t.dirty \in BOOLEAN /\ op.arg \in SUBSET ItemVal
        /\ t.pend \in {"none", "adds", "dels"}
        /\ ~t.dirty => t.pend = "none" /\ blob[op.pt] = BlobOf(t)
    BY ApplyFacts
  <1> HIDE DEF t
  <1>1. CASE op.name = "del" /\ op.arg = {}
    <2>1. AfterDel(t) = t
      BY <1>1 DEF AfterDel
    <2> QED
      BY <1>0, <1>1, <2>1 DEF t
  <1>2. CASE op.name = "del" /\ op.arg # {}
    <2>1. AfterDel(t) = With(t, t.items \ op.arg, "dels", TRUE)
      BY <1>2 DEF AfterDel
    <2> QED
      BY <1>0, <2>1 DEF t, With, ItemSet
  <1>3. CASE op.name = "below"
    <2> DEFINE dirty == t.dirty \/ t.pend # "none" \/ t.items \cap op.arg # {}
               s == With(t, t.items \ op.arg, "none", dirty)
    <2>1. AfterDel(t) = s
      BY <1>3 DEF AfterDel
    <2>2. /\ s \in ItemSet /\ s.key = t.key /\ s.items = t.items \ op.arg /\ s.pend = "none"
          /\ s.dirty = dirty
      BY <1>0 DEF With, ItemSet
    <2>3. ASSUME ~s.dirty PROVE blob[op.pt] = BlobOf(s)
      <3>1. ~t.dirty /\ t.items \ op.arg = t.items
        BY <2>2, <2>3
      <3> QED
        BY <1>0, <2>2, <3>1 DEF BlobOf
    <2> QED
      BY <2>1, <2>2, <2>3 DEF t
  <1> QED
    BY <1>1, <1>2, <1>3

LEMMA ApplyDelStep ==
  ASSUME GixIInv, ApplyDel
  PROVE  GixIInv'
  <1> USE PtrAssumption, NoSetAssumption
  <1> DEFINE s == AfterDel(sets[op.pt])
  <1>1. /\ op.phase = "apply" /\ op.name \in {"del", "below"} /\ op' = Idle /\ op'.phase = "idle"
        /\ UNCHANGED <<dictFile, access, todo, answer>>
    BY DEF ApplyDel, Idle
  <1>2. /\ s \in ItemSet /\ s.key = sets[op.pt].key
        /\ ~s.dirty => s.pend = "none" /\ blob[op.pt] = BlobOf(s)
    BY <1>1, AfterDelFacts
  <1>3. CASE ~Empty(s)
    <2>1. sets' = [sets EXCEPT ![op.pt] = s] /\ UNCHANGED <<dict, dictDirty, blob>>
      BY <1>1, <1>3, ApplyFacts DEF ApplyDel, GixIInv, GixTypeOK
    <2> HIDE DEF s
    <2> QED
      BY <1>1, <1>2, <2>1, ApplyFacts, Work
  <1>4. CASE Empty(s)
    <2>0. /\ GixTypeOK /\ CallFits /\ FileMatches /\ InUse = Cached /\ InUse' = Cached'
          /\ Coherent(dict, blob, sets, Cached)
      BY <1>1 DEF GixIInv, InUse
    <2>1. /\ op.pt \in BlobPt /\ op.pt \in Cached /\ op.pt \in InUse /\ dict[op.key] = op.pt
          /\ sets[op.pt].key = op.key /\ op.key \in Key /\ LinkedBlobs(dict, blob)
          /\ blob[op.pt] # NoSet /\ blob[op.pt].key = op.key /\ access # "closed"
      BY <1>1, ApplyFacts, UseFacts
    <2>2. /\ sets' = [sets EXCEPT ![op.pt] = NoSet]
          /\ blob' = [blob EXCEPT ![op.pt] = NoSet]
          /\ dict' = [dict EXCEPT ![blob[op.pt].key] = NoPtr] /\ dictDirty' = TRUE
      BY <1>4, <2>1 DEF ApplyDel, DeleteItemSet, Blobs!Del, Relink
    <2>3. dict' \in Dict /\ blob' \in BlobMap /\ LinkedBlobs(dict', blob')
      BY <2>0, <2>1, <2>2, RemovedLinked DEF GixTypeOK, BlobMap
    <2>4. /\ \A k \in Key : k # op.key => dict'[k] = dict[k]
          /\ \A r \in BlobPt : r # op.pt => blob'[r] = blob[r]
          /\ \A r \in BlobPt : sets'[r] = IF r = op.pt THEN NoSet ELSE sets[r]
      BY <2>0, <2>1, <2>2 DEF GixTypeOK, Dict
    <2>5. Cached' = Cached \ {op.pt}
      BY <2>1, <2>4 DEF Cached
    <2>6. \A r \in Cached \ {op.pt} : sets[r].key \in Key /\ sets[r].key # op.key /\ r \in BlobPt
      BY <2>0, <2>1, UseFacts
    <2>7. GixTypeOK'
      BY <1>1, <2>0, <2>2, <2>3 DEF GixTypeOK, BlobMap, Idle, Other
    <2>8. LinkedBlobs(KeyPtr', blob')
      BY <1>1, <2>1, <2>3 DEF KeyPtr
    <2>9. Coherent(dict', blob', sets', InUse')
      BY <2>0, <2>4, <2>5, <2>6 DEF Coherent
    <2>10. NoStalePointer'
      BY <1>1 DEF NoStalePointer
    <2>11. CallFits'
      BY <1>1 DEF CallFits, Phase
    <2>12. FileMatches'
      <3>1. Writable
        BY <1>1, <2>0 DEF CallFits, Phase
      <3> QED
        BY <1>1, <2>1, <2>2, <3>1 DEF FileMatches, Writable
    <2> QED
      BY <2>7, <2>8, <2>9, <2>10, <2>11, <2>12 DEF GixIInv
  <1> QED
    BY <1>3, <1>4

LEMMA ReturnStep ==
  ASSUME GixIInv, Return
  PROVE  GixIInv'
  <1>1. op.phase = "cleanup" /\ op' = Idle /\ op'.phase = "idle" /\ answer' \subseteq ItemVal
    BY DEF Return, Idle, GixIInv, GixTypeOK
  <1> QED
    BY <1>1, Work DEF Return

(***************************************************************************)
(* Flushing and dropping.                                                  *)
(***************************************************************************)
\* A clean item set leaves the cache: OnDelFromCache has nothing to store.
LEMMA DropStep ==
  ASSUME GixIInv, NEW k \in Key, DropFromCache(k)
  PROVE  GixIInv'
  <1>1. /\ dict[k] \in Cached /\ op.phase = "idle"
        /\ OnDelFromCache(dict[k])
    BY DEF DropFromCache, Droppable, OnDelFromCache, Idle
  <1> QED
    BY <1>1, EvictKeeps DEF DropFromCache

LEMMA StoreAndDropStep ==
  ASSUME GixIInv, NEW k \in Key, StoreAndDropFromCache(k)
  PROVE  GixIInv'
  <1>1. dict[k] \in Cached /\ op.phase = "idle"
    BY DEF StoreAndDropFromCache, Idle
  <1> QED
    BY <1>1, EvictKeeps DEF StoreAndDropFromCache

LEMMA PurgeStep ==
  ASSUME GixIInv, NEW p \in BlobPt, Purge(p)
  PROVE  GixIInv'
  BY EvictKeeps DEF Purge, MayPurge

LEMMA PartialFlushStep ==
  ASSUME GixIInv, BeginPartialFlush \/ PartialFlushEnd
  PROVE  GixIInv'
  <1>1. /\ op' \in {Idle, [phase |-> "partial"]} /\ op.phase \in {"idle", "partial"}
        /\ access = "closed" => op' = Idle
        /\ UNCHANGED <<dict, dictDirty, sets, blob, dictFile, access, todo, answer>>
    BY DEF BeginPartialFlush, PartialFlushEnd, Idle
  <1>2. op' \in Other /\ op'.phase \in {"idle", "partial"}
    BY <1>1 DEF Idle, Other
  <1>3. NoStalePointer'
    BY <1>2 DEF NoStalePointer
  <1>4. answer' \subseteq ItemVal
    BY <1>1 DEF GixIInv, GixTypeOK
  <1> QED
    BY <1>1, <1>2, <1>3, <1>4, MoveOn DEF Phase

LEMMA BeginFlushStep ==
  ASSUME GixIInv, NEW ph \in {"flush", "closing"}, BeginFlush(ph)
  PROVE  GixIInv'
  <1>0. /\ GixTypeOK /\ FileMatches /\ LinkedBlobs(KeyPtr, blob) /\ InUse = Cached
        /\ Coherent(dict, blob, sets, Cached)
    BY DEF GixIInv, BeginFlush, InUse, Idle
  <1>1. /\ op' = [phase |-> ph] /\ op'.phase = ph /\ access # "closed" /\ todo' \subseteq Cached
        /\ UNCHANGED <<dict, dictDirty, sets, blob, dictFile, access, answer>>
    BY DEF BeginFlush
  <1>2. InUse' = todo' /\ Cached' = Cached
    BY <1>1 DEF InUse, Cached
  <1>3. GixTypeOK'
    BY <1>0, <1>1 DEF GixTypeOK, Other, Cached
  <1>4. LinkedBlobs(KeyPtr', blob') /\ Coherent(dict', blob', sets', InUse')
    BY <1>0, <1>1, <1>2 DEF KeyPtr, Coherent
  <1>5. NoStalePointer' /\ CallFits'
    BY <1>1 DEF NoStalePointer, CallFits, Phase
  <1>6. FileMatches'
    BY <1>0, <1>1, <1>2 DEF FileMatches
  <1> QED
    BY <1>3, <1>4, <1>5, <1>6 DEF GixIInv

LEMMA FlushOneStep ==
  ASSUME GixIInv, NEW p \in BlobPt, FlushOne(p)
  PROVE  GixIInv'
  <1>0. /\ GixTypeOK /\ FileMatches /\ InUse = todo /\ p \in InUse
        /\ op.phase \in {"flush", "closing"} /\ todo' = todo \ {p}
        /\ OnDelFromCache(p)
        /\ UNCHANGED <<sets, dictFile, access, op, answer>>
    BY DEF GixIInv, FlushOne, InUse
  <1>1. access # "closed"
    BY <1>0, UseFacts
  <1>2. InUse' = InUse \ {p} /\ Cached' = Cached
    BY <1>0 DEF InUse, Cached
  <1>3. GixTypeOK'
    BY <1>0, EvictFacts DEF GixTypeOK, BlobMap
  <1>4. LinkedBlobs(KeyPtr', blob') /\ Coherent(dict', blob', sets', InUse')
    BY <1>0, <1>1, <1>2, EvictFacts DEF KeyPtr
  <1>5. NoStalePointer' /\ CallFits'
    BY <1>0 DEF NoStalePointer, CallFits, Phase
  <1>6. FileMatches'
    BY <1>0, <1>1, <1>2, EvictFacts DEF FileMatches, Writable
  <1> QED
    BY <1>3, <1>4, <1>5, <1>6 DEF GixIInv

LEMMA PartialFlushOneStep ==
  ASSUME GixIInv, NEW p \in BlobPt, PartialFlushOne(p)
  PROVE  GixIInv'
  <1> USE PtrAssumption, NoSetAssumption
  <1>0. /\ GixTypeOK /\ CallFits /\ FileMatches /\ InUse = Cached /\ InUse' = Cached'
        /\ p \in Cached /\ op.phase = "partial" /\ Writable
        /\ Coherent(dict, blob, sets, Cached)
        /\ UNCHANGED <<dictFile, access, op, todo, answer>>
    BY DEF GixIInv, PartialFlushOne, InUse
  <1>1. PICK q \in BlobPt \cup {NoPtr} : StoreItemSet(p, q) /\ sets' = Rekeyed(p, q)
    BY DEF PartialFlushOne
  <1>2. /\ access # "closed" /\ sets[p].key \in Key /\ BlobOf(sets[p]) \in SavedSet
        /\ BlobOf(sets[p]).key = sets[p].key
        /\ \A r \in Cached : r \in BlobPt /\ blob[r] # NoSet
    BY <1>0, UseFacts
  <1>3. /\ dict' \in Dict /\ dictDirty' \in BOOLEAN /\ blob' \in BlobMap
        /\ LinkedBlobs(dict', blob') /\ (~dictDirty' => ~dictDirty /\ dict' = dict)
        /\ Coherent(dict', blob', sets, Cached \ {p})
        /\ q # NoPtr => /\ q \in BlobPt /\ (q = p \/ blob[q] = NoSet)
                        /\ blob'[q] = BlobOf(sets[p])
                        /\ dict'[sets[p].key] = q
    BY <1>0, <1>1, StoreFacts, OthersCoherent
  <1>4. sets' \in [BlobPt -> ItemSet \cup {NoSet}] /\ Coherent(dict', blob', sets', Cached')
    <2>1. CASE q = NoPtr
      <3>1. /\ sets' = [sets EXCEPT ![p] = NoSet]
            /\ \A r \in BlobPt : sets'[r] = IF r = p THEN NoSet ELSE sets[r]
        BY <1>0, <1>1, <2>1 DEF Rekeyed, GixTypeOK
      <3>2. Cached' = Cached \ {p}
        BY <3>1 DEF Cached
      <3> QED
        BY <1>0, <1>2, <1>3, <3>1, <3>2 DEF Coherent, GixTypeOK
    <2>2. CASE q # NoPtr
      <3> DEFINE s == SetOf(BlobOf(sets[p]))
      <3>1. /\ s \in ItemSet /\ s # NoSet /\ s.key = sets[p].key /\ s.pend = "none"
            /\ BlobOf(s) = BlobOf(sets[p])
        BY <1>2, LoadedFacts
      <3>2. sets' = [sets EXCEPT ![p] = NoSet, ![q] = s]
        BY <1>1, <2>2 DEF Rekeyed
      <3> HIDE DEF s
      <3>3. /\ q \in BlobPt
            /\ \A r \in BlobPt : sets'[r] = IF r = q THEN s ELSE IF r = p THEN NoSet ELSE sets[r]
        BY <1>0, <1>3, <2>2, <3>2 DEF GixTypeOK
      <3>4. sets' \in [BlobPt -> ItemSet \cup {NoSet}]
        BY <1>0, <1>3, <2>2, <3>1, <3>2 DEF GixTypeOK
      <3>5. q \notin Cached \ {p}
        BY <1>2, <1>3, <2>2
      <3>6. Cached' = (Cached \ {p}) \cup {q}
        BY <3>1, <3>3 DEF Cached
      <3>7. Coherent(dict', blob', sets', Cached \ {p})
        BY <1>2, <1>3, <3>3, <3>5 DEF Coherent
      <3>8. sets'[q] = s
        BY <3>3
      <3>9. Coherent(dict', blob', sets', {q})
        BY <1>3, <2>2, <3>1, <3>8 DEF Coherent
      <3> QED
        BY <3>4, <3>6, <3>7, <3>9 DEF Coherent
    <2> QED
      BY <2>1, <2>2
  <1>5. GixTypeOK'
    BY <1>0, <1>3, <1>4 DEF GixTypeOK, BlobMap
  <1>6. LinkedBlobs(KeyPtr', blob') /\ Coherent(dict', blob', sets', InUse')
    BY <1>0, <1>2, <1>3, <1>4 DEF KeyPtr
  <1>7. NoStalePointer' /\ CallFits'
    BY <1>0 DEF NoStalePointer, CallFits, Phase
  <1>8. FileMatches'
    BY <1>0, <1>2, <1>3 DEF FileMatches, Writable
  <1> QED
    BY <1>5, <1>6, <1>7, <1>8 DEF GixIInv

\* The cache is cleared: after a flush, and when the index is closed.
LEMMA FlushEndStep ==
  ASSUME GixIInv, FlushEnd
  PROVE  GixIInv'
  <1>0. GixTypeOK /\ FileMatches /\ LinkedBlobs(KeyPtr, blob)
    BY DEF GixIInv
  <1>1. /\ op.phase = "flush" /\ op' = Idle /\ op'.phase = "idle"
        /\ sets' = [p \in BlobPt |-> NoSet]
        /\ UNCHANGED <<dict, dictDirty, blob, dictFile, access, todo, answer>>
    BY DEF FlushEnd, Idle
  <1>2. Cached' = {} /\ InUse' = {}
    BY <1>1 DEF Cached, InUse
  <1>3. GixTypeOK'
    BY <1>0, <1>1 DEF GixTypeOK, Idle, Other
  <1>4. LinkedBlobs(KeyPtr', blob') /\ Coherent(dict', blob', sets', InUse')
    BY <1>0, <1>1, <1>2 DEF KeyPtr, Coherent
  <1>5. NoStalePointer' /\ CallFits'
    BY <1>1 DEF NoStalePointer, CallFits, Phase
  <1>6. FileMatches'
    BY <1>0, <1>1, <1>2 DEF FileMatches
  <1> QED
    BY <1>3, <1>4, <1>5, <1>6 DEF GixIInv

\* The dictionary in the file is the one in memory, whether it is written or not.
LEMMA CloseStep ==
  ASSUME GixIInv, Close
  PROVE  GixIInv' /\ dictFile' = dict /\ access # "closed"
  <1>0. GixTypeOK /\ FileMatches /\ LinkedBlobs(KeyPtr, blob)
    BY DEF GixIInv
  <1>1. /\ op.phase = "closing" /\ op' = Idle /\ op'.phase = "idle"
        /\ sets' = [p \in BlobPt |-> NoSet] /\ access' = "closed"
        /\ dictFile' = IF access = "create" \/ (access = "update" /\ dictDirty)
                       THEN dict ELSE dictFile
        /\ UNCHANGED <<dict, dictDirty, blob, todo, answer>>
    BY DEF Close, Idle
  <1>2. access # "closed"
    BY <1>0, <1>1 DEF FileMatches, Idle
  <1>3. dictFile' = dict
    BY <1>0, <1>1, <1>2 DEF FileMatches, GixTypeOK
  <1>4. Cached' = {} /\ InUse' = {}
    BY <1>1 DEF Cached, InUse
  <1>5. GixTypeOK'
    BY <1>0, <1>1 DEF GixTypeOK, Idle, Other
  <1>6. LinkedBlobs(KeyPtr', blob') /\ Coherent(dict', blob', sets', InUse')
    BY <1>0, <1>1, <1>2, <1>3, <1>4 DEF KeyPtr, Coherent
  <1>7. NoStalePointer' /\ CallFits'
    BY <1>1 DEF NoStalePointer, CallFits, Phase
  <1>8. FileMatches'
    BY <1>1, <1>4 DEF FileMatches
  <1> QED
    BY <1>2, <1>3, <1>5, <1>6, <1>7, <1>8 DEF GixIInv

LEMMA OpenStep ==
  ASSUME GixIInv, NEW a \in {"update", "rdonly"}, Open(a)
  PROVE  GixIInv'
  <1>0. GixTypeOK /\ FileMatches /\ LinkedBlobs(dictFile, blob) /\ Cached = {} /\ op = Idle
    BY DEF GixIInv, Open, FileMatches, KeyPtr
  <1>1. /\ op' = Idle /\ op'.phase = "idle" /\ access' = a /\ dict' = dictFile
        /\ UNCHANGED <<sets, blob, dictFile, todo, answer>> /\ dictDirty' = FALSE
    BY <1>0 DEF Open, Idle
  <1>2. Cached' = {} /\ InUse' = {}
    BY <1>0, <1>1 DEF Cached, InUse
  <1>3. GixTypeOK'
    BY <1>0, <1>1 DEF GixTypeOK, Idle, Other
  <1>4. LinkedBlobs(KeyPtr', blob') /\ Coherent(dict', blob', sets', InUse')
    BY <1>0, <1>1, <1>2 DEF KeyPtr, Coherent
  <1>5. NoStalePointer' /\ CallFits'
    BY <1>1 DEF NoStalePointer, CallFits, Phase
  <1>6. FileMatches'
    BY <1>1, <1>2 DEF FileMatches
  <1> QED
    BY <1>3, <1>4, <1>5, <1>6 DEF GixIInv

(***************************************************************************)
(* The invariant holds.                                                    *)
(***************************************************************************)
LEMMA GixInitIInv == GixInit => GixIInv
  <1> SUFFICES ASSUME GixInit PROVE GixIInv
    OBVIOUS
  <1>1. op = Idle /\ op.phase = "idle" /\ access = "create"
    BY DEF GixInit, Idle
  <1>2. Cached = {} /\ InUse = {}
    BY <1>1 DEF GixInit, Cached, InUse
  <1>3. GixTypeOK
    BY <1>1 DEF GixInit, GixTypeOK, Dict, Idle, Other
  <1>4. LinkedBlobs(KeyPtr, blob) /\ Coherent(dict, blob, sets, InUse)
    BY <1>1, <1>2 DEF GixInit, LinkedBlobs, KeyPtr, Coherent
  <1>5. NoStalePointer /\ CallFits
    BY <1>1 DEF NoStalePointer, CallFits, Phase
  <1>6. FileMatches
    BY <1>1 DEF FileMatches
  <1> QED
    BY <1>3, <1>4, <1>5, <1>6 DEF GixIInv

LEMMA GixIInvStep == GixIInv /\ [GixNext]_gixVars => GixIInv'
  <1> SUFFICES ASSUME GixIInv, [GixNext]_gixVars PROVE GixIInv'
    OBVIOUS
  <1>1. CASE UNCHANGED gixVars
    BY <1>1 DEF gixVars, GixIInv, GixTypeOK, LinkedBlobs, KeyPtr, Coherent, InUse, Cached, NoStalePointer,
               RightKey, CallFits, Writable, FileMatches
  <1>2. CASE GixNext
    BY <1>2, BeginStep, ResolveStep, FetchStep, EnlistStep, InsertStep, PackLocalStep,
       ApplyAddStep, ApplyDelStep, ApplyClrStep, ApplyGetStep, ReturnStep, DropStep,
       StoreAndDropStep, PurgeStep, PartialFlushStep, BeginFlushStep, FlushOneStep,
       PartialFlushOneStep, FlushEndStep, CloseStep, OpenStep
    DEF GixNext
  <1> QED
    BY <1>1, <1>2

LEMMA GixIInvInvariant == GixSpec => []GixIInv
  BY GixInitIInv, GixIInvStep, PTL DEF GixSpec

\* Type correctness: in every phase of a call its local variables are what the
\* rest of the call takes them for; a pointer looked up is a pointer.
THEOREM GixTypeCorrect == GixSpec => []GixTypeOK
  BY GixIInvInvariant, PTL DEF GixIInv

\* Keys and blobs belong together one to one, open or closed: nothing is leaked,
\* shared, or freed twice, and the dictionary in the file is never out of date.
THEOREM KeysOwnTheirBlobs == GixSpec => []OneBlobPerKey
  <1>1. GixIInv => OneBlobPerKey
    BY DEF GixIInv, LinkedBlobs, OneBlobPerKey, GixTypeOK, Dict, KeyPtr, Blobs!Stored
  <1> QED
    BY <1>1, GixIInvInvariant, PTL

\* A cached item set is that of its key, and what is clean can be dropped.
THEOREM CacheIsCoherent == GixSpec => []CacheCoherent
  <1>1. GixIInv => CacheCoherent
    BY DEF GixIInv, Coherent, CacheCoherent
  <1> QED
    BY <1>1, GixIInvInvariant, PTL

\* Whatever the cache does inside a call, the pointer and the item set the call
\* holds on to stay those of its key.
THEOREM PointersStayFresh == GixSpec => []NoStalePointer
  BY GixIInvInvariant, PTL DEF GixIInv

\* The three together, as the runs check them.
THEOREM CacheIsSound == GixSpec => []CacheSound
  BY GixTypeCorrect, CacheIsCoherent, PointersStayFresh, PTL DEF CacheSound

(***************************************************************************)
(* The index and its cache implement a map from keys to item sets: every   *)
(* step of Gix is a step of PostingIndex or changes nothing there.         *)
(***************************************************************************)
\* What a read-only index has in its cache was loaded and at most merged: it may be
\* dirty, and yet goes without being stored.
ReadOnlyKept ==
  access = "rdonly" => \A p \in InUse : sets[p].items = blob[p].items

RInv == GixIInv /\ ReadOnlyKept

(***************************************************************************)
(* The items under a key, step by step.                                    *)
(***************************************************************************)
\* An item set leaves the cache: what is read from its blob is what it held.
LEMMA EvictItems ==
  ASSUME RInv, NEW p \in InUse, OnDelFromCache(p), access' = access,
         InUse' = InUse \ {p}, \A r \in InUse \ {p} : sets'[r] = sets[r]
  PROVE  ReadOnlyKept' /\ \A k \in Key : ItemsOf(k)' = ItemsOf(k)
  <1> USE PtrAssumption, NoSetAssumption
  <1>0. /\ GixIInv /\ ReadOnlyKept /\ p \in BlobPt /\ access # "closed" /\ KeyPtr = dict
        /\ dict[sets[p].key] = p /\ LinkedBlobs(dict, blob) /\ sets[p].key \in Key
        /\ dict \in Dict /\ Coherent(dict, blob, sets, InUse)
    BY UseFacts DEF RInv, GixIInv, GixTypeOK
  <1>1. \A r \in InUse : r \in BlobPt /\ blob[r] # NoSet
    BY <1>0, UseFacts
  <1>2. /\ \A r \in BlobPt : r # p /\ blob[r] # NoSet => blob'[r] = blob[r]
        /\ KeyPtr' = dict'
    BY <1>0, EvictFacts DEF KeyPtr
  <1>3. ReadOnlyKept'
    BY <1>0, <1>1, <1>2 DEF ReadOnlyKept
  <1>4. ASSUME NEW k \in Key, k # sets[p].key PROVE ItemsOf(k)' = ItemsOf(k)
    <2>1. dict'[k] = dict[k]
      BY <1>0, <1>4, EvictFacts
    <2>2. CASE dict[k] = NoPtr
      BY <1>0, <2>1, <2>2 DEF ItemsOf, KeyPtr
    <2>3. CASE dict[k] # NoPtr
      <3>1. dict[k] \in BlobPt /\ dict[k] # p /\ blob[dict[k]] # NoSet
        BY <1>0, <1>4, <2>3 DEF LinkedBlobs, Dict
      <3>2. blob'[dict[k]] = blob[dict[k]]
        BY <1>2, <3>1
      <3> QED
        BY <1>0, <2>1, <3>1, <3>2 DEF ItemsOf, KeyPtr
    <2> QED
      BY <2>2, <2>3
  <1>5. ASSUME NEW k \in Key, k = sets[p].key PROVE ItemsOf(k)' = sets[p].items
    <2>1. CASE Writable /\ sets[p].dirty
      <3>1. PICK q \in BlobPt \cup {NoPtr} : StoreItemSet(p, q)
        BY <2>1 DEF OnDelFromCache
      <3>2. CASE q = NoPtr
        <4>1. sets[p].items = {} /\ dict'[k] = NoPtr
          BY <1>0, <1>5, <3>1, <3>2, StoreFacts
        <4> QED
          BY <1>2, <4>1 DEF ItemsOf
      <3>3. CASE q # NoPtr
        <4>1. /\ q \in BlobPt /\ (q = p \/ blob[q] = NoSet) /\ blob'[q] = BlobOf(sets[p])
              /\ dict'[k] = q
          BY <1>0, <1>5, <3>1, <3>3, StoreFacts
        <4>2. q \notin InUse'
          BY <1>1, <4>1
        <4>3. blob'[q].items = sets[p].items
          BY <4>1 DEF BlobOf
        <4> QED
          BY <1>2, <3>3, <4>1, <4>2, <4>3 DEF ItemsOf
      <3> QED
        BY <3>2, <3>3
    <2>2. CASE ~(Writable /\ sets[p].dirty)
      <3>1. dict' = dict /\ blob' = blob
        BY <2>2 DEF OnDelFromCache
      <3>2. blob[p].items = sets[p].items
        <4>1. CASE ~sets[p].dirty
          <5>1. blob[p] = BlobOf(sets[p])
            BY <1>0, <4>1 DEF Coherent
          <5> QED
            BY <5>1 DEF BlobOf
        <4>2. CASE ~Writable
          <5>1. access = "rdonly"
            BY <1>0, <4>2 DEF GixIInv, GixTypeOK, Writable
          <5> QED
            BY <1>0, <5>1 DEF ReadOnlyKept
        <4> QED
          BY <2>2, <4>1, <4>2
      <3>3. dict'[k] = p /\ p # NoPtr /\ p \notin InUse'
        BY <1>0, <1>5, <3>1
      <3> QED
        BY <1>2, <3>1, <3>2, <3>3 DEF ItemsOf
    <2> QED
      BY <2>1, <2>2
  <1>6. ASSUME NEW k \in Key, k = sets[p].key PROVE ItemsOf(k) = sets[p].items
    BY <1>0, <1>6 DEF ItemsOf
  <1> QED
    BY <1>3, <1>4, <1>5, <1>6

\* The item set under one pointer is changed.
LEMMA WorkItems ==
  ASSUME RInv, InUse = Cached, NEW p \in Cached, NEW s \in ItemSet, s.key = sets[p].key,
         sets' = [sets EXCEPT ![p] = s], InUse' = InUse,
         access = "rdonly" => s.items = sets[p].items,
         UNCHANGED <<dict, blob, dictFile, access>>
  PROVE  /\ ReadOnlyKept'
         /\ \A k \in Key : ItemsOf(k)' = IF k = sets[p].key THEN s.items ELSE ItemsOf(k)
  <1> USE PtrAssumption
  <1>0. /\ GixIInv /\ ReadOnlyKept /\ p \in BlobPt /\ access # "closed" /\ KeyPtr = dict
        /\ dict[sets[p].key] = p /\ LinkedBlobs(dict, blob) /\ sets[p].key \in Key
        /\ KeyPtr' = dict
    BY UseFacts DEF RInv, KeyPtr
  <1>1. \A r \in BlobPt : sets'[r] = IF r = p THEN s ELSE sets[r]
    BY <1>0 DEF GixIInv, GixTypeOK
  <1>2. ReadOnlyKept'
    BY <1>0, <1>1 DEF ReadOnlyKept, Cached
  <1>3. ItemsOf(sets[p].key)' = s.items
    BY <1>0, <1>1 DEF ItemsOf
  <1>4. ASSUME NEW k \in Key, k # sets[p].key PROVE ItemsOf(k)' = ItemsOf(k)
    <2>1. dict[k] # p
      BY <1>0, <1>4 DEF LinkedBlobs
    <2> QED
      BY <1>0, <1>1, <2>1 DEF ItemsOf, Cached
  <1> QED
    BY <1>2, <1>3, <1>4

\* Nothing but the call moves on.
LEMMA SameItems ==
  ASSUME RInv, InUse' = InUse, UNCHANGED <<dict, blob, sets, dictFile, access>>
  PROVE  ReadOnlyKept' /\ \A k \in Key : ItemsOf(k)' = ItemsOf(k)
  BY DEF RInv, ReadOnlyKept, ItemsOf, KeyPtr

(***************************************************************************)
(* What the steps are in PostingIndex: the effect of the call, or nothing. *)
(***************************************************************************)
AbsStep == [AsPostings!Next]_<<[k \in Key |-> ItemsOf(k)], Call, answer>>

\* The items the call in progress is to leave under its key.
Left == CASE op.name = "add" -> ItemsOf(op.key) \cup op.arg
          [] op.name \in {"del", "below"} -> ItemsOf(op.key) \ op.arg
          [] op.name = "clr" -> {}
          [] op.name = "get" -> ItemsOf(op.key)

LEMMA Stutter ==
  ASSUME \A k \in Key : ItemsOf(k)' = ItemsOf(k), Call' = Call, answer' = answer
  PROVE  AbsStep
  BY DEF AbsStep

LEMMA Effects ==
  ASSUME GixTypeOK, Pending, ~Pending',
         \A k \in Key : ItemsOf(k)' = IF k = op.key THEN Left ELSE ItemsOf(k),
         answer' = IF op.name = "get" THEN ItemsOf(op.key) ELSE answer
  PROVE  AbsStep
  <1> DEFINE index == [k \in Key |-> ItemsOf(k)]
  <1>1. op.key \in Key /\ op.name \in Names
    BY OpFacts DEF Pending, Phase
  <1>2. /\ Call.name = IF op.name = "below" THEN "del" ELSE op.name
        /\ Call.key = op.key /\ Call.arg = op.arg
    BY DEF Call
  <1>3. Call' = AsPostings!NoCall /\ Call # AsPostings!NoCall
    BY <1>1, <1>2 DEF Call, AsPostings!NoCall, Names
  <1>4. AsPostings!Result(Call) = Left
    <2>1. index[Call.key] = ItemsOf(op.key)
      BY <1>1, <1>2
    <2> HIDE DEF index
    <2> QED
      BY <1>1, <1>2, <2>1 DEF AsPostings!Result, Left, Names, index
  <1>5. [k \in Key |-> ItemsOf(k)]' = [index EXCEPT ![Call.key] = AsPostings!Result(Call)]
    BY <1>2, <1>4
  <1>6. answer' = IF Call.name = "get" THEN index[Call.key] ELSE answer
    BY <1>1, <1>2 DEF Names
  <1>7. AsPostings!Effect
    BY <1>3, <1>5, <1>6 DEF AsPostings!Effect
  <1> QED
    BY <1>7 DEF AbsStep, AsPostings!Next

(***************************************************************************)
(* The steps of a call.                                                    *)
(***************************************************************************)
\* A call that is under way stays what it is, or comes to its end.
LEMMA CallFacts ==
  ASSUME op.phase \in Phase, op'.phase \in Phase, op'.name = op.name, op'.key = op.key,
         op'.arg = op.arg, Pending' <=> Pending
  PROVE  Call' = Call
  BY DEF Call

LEMMA BeginAbs ==
  ASSUME RInv, NEW name \in Names, NEW k \in Key, NEW arg \in SUBSET ItemVal,
         Begin(name, k, arg)
  PROVE  ReadOnlyKept' /\ AbsStep
  <1>1. /\ op = Idle /\ op.phase = "idle" /\ op'.phase = "refresh" /\ op'.name = name
        /\ op'.key = k /\ op'.arg = arg
        /\ UNCHANGED <<dict, dictDirty, sets, blob, dictFile, access, todo, answer>>
    BY DEF Begin, Idle
  <1>2. InUse' = InUse
    BY <1>1 DEF InUse, Cached
  <1>3. ReadOnlyKept' /\ \A j \in Key : ItemsOf(j)' = ItemsOf(j)
    BY <1>1, <1>2, SameItems
  <1>4. Call = AsPostings!NoCall
    BY <1>1 DEF Call, Pending, AsPostings!NoCall
  <1>5. Call' \in AsPostings!Call
    BY <1>1 DEF Call, Pending, AsPostings!Call, Names
  <1>6. AsPostings!Request(Call')
    BY <1>1, <1>3, <1>4 DEF AsPostings!Request
  <1> QED
    BY <1>3, <1>5, <1>6 DEF AbsStep, AsPostings!Next

LEMMA ResolveAbs ==
  ASSUME RInv, Resolve
  PROVE  ReadOnlyKept' /\ AbsStep
  <1>0. /\ GixTypeOK /\ CallFits /\ op.phase = "refresh" /\ Pending /\ op.phase \in Phase
        /\ UNCHANGED <<dict, dictDirty, sets, blob, dictFile, access, todo>>
    BY DEF RInv, GixIInv, Resolve, Pending, Phase
  <1>1. op \in Ops /\ op.key \in Key /\ op.name \in Names /\ KeyPtr = dict
        /\ dict[op.key] \in BlobPt \cup {NoPtr}
    BY <1>0, OpFacts DEF CallFits, KeyPtr, GixTypeOK, Dict
  <1>2. CASE dict[op.key] # NoPtr \/ op.name = "add"
    <2>1. PICK ph \in {"fetch", "enlist"}, p \in BlobPt \cup {NoPtr} : op' = At(ph, p, NoSet)
      BY <1>1, <1>2 DEF Resolve
    <2>2. /\ op'.phase = ph /\ op'.name = op.name /\ op'.key = op.key /\ op'.arg = op.arg
          /\ ph \in Phase
      BY <1>1, <2>1, AtFacts DEF Phase
    <2>3. InUse' = InUse /\ Pending' /\ answer' = answer
      BY <1>0, <1>2, <2>2 DEF InUse, Cached, Pending, Resolve
    <2>4. ReadOnlyKept' /\ \A j \in Key : ItemsOf(j)' = ItemsOf(j)
      BY <1>0, <2>3, SameItems
    <2>5. Call' = Call
      BY <1>0, <2>2, <2>3, CallFacts
    <2> QED
      BY <2>3, <2>4, <2>5, Stutter
  <1>3. CASE dict[op.key] = NoPtr /\ op.name # "add"
    <2>1. op' = Idle /\ op'.phase = "idle"
      BY <1>3 DEF Resolve, Idle
    <2>2. InUse' = InUse /\ ~Pending'
      BY <1>0, <2>1 DEF InUse, Cached, Pending
    <2>3. ReadOnlyKept' /\ \A j \in Key : ItemsOf(j)' = ItemsOf(j)
      BY <1>0, <2>2, SameItems
    <2>4. ItemsOf(op.key) = {}
      BY <1>1, <1>3 DEF ItemsOf
    <2>5. Left = {}
      BY <1>1, <1>3, <2>4 DEF Left, Names
    <2>6. answer' = IF op.name = "get" THEN ItemsOf(op.key) ELSE answer
      BY <1>3, <2>4 DEF Resolve
    <2> QED
      BY <1>0, <2>2, <2>3, <2>4, <2>5, <2>6, Effects
  <1> QED
    BY <1>1, <1>2, <1>3

LEMMA FetchAbs ==
  ASSUME RInv, Fetch
  PROVE  ReadOnlyKept' /\ AbsStep
  <1>0. /\ GixTypeOK /\ NoStalePointer /\ LinkedBlobs(KeyPtr, blob) /\ CallFits
        /\ op.phase = "fetch" /\ Pending /\ op.phase \in Phase
        /\ UNCHANGED <<dict, dictDirty, sets, blob, dictFile, access, todo, answer>>
    BY DEF RInv, GixIInv, Fetch, Pending, Phase
  <1>1. op \in Ops /\ op.pt \in BlobPt /\ op.key \in Key /\ dict[op.key] = op.pt
        /\ blob[op.pt] \in SavedSet
    BY <1>0, OpFacts, PtrAssumption DEF GixTypeOK, NoStalePointer, LinkedBlobs, KeyPtr, CallFits
  <1>2. PICK ph \in {"apply", "insert"}, s \in ItemSet \cup {NoSet} : op' = At(ph, op.pt, s)
    BY <1>1, LoadedFacts DEF Fetch
  <1>3. /\ op'.phase = ph /\ op'.name = op.name /\ op'.key = op.key /\ op'.arg = op.arg
        /\ ph \in Phase
    BY <1>1, <1>2, AtFacts DEF Phase
  <1>4. InUse' = InUse /\ Pending'
    BY <1>0, <1>3 DEF InUse, Cached, Pending
  <1>5. ReadOnlyKept' /\ \A j \in Key : ItemsOf(j)' = ItemsOf(j)
    BY <1>0, <1>4, SameItems
  <1>6. Call' = Call
    BY <1>0, <1>3, <1>4, CallFacts
  <1> QED
    BY <1>0, <1>5, <1>6, Stutter

\* A new key: its items are in its blob.
LEMMA EnlistAbs ==
  ASSUME RInv, NEW p \in BlobPt, Enlist(p)
  PROVE  ReadOnlyKept' /\ AbsStep
  <1> USE PtrAssumption, NoSetAssumption
  <1> DEFINE b == [key |-> op.key, items |-> op.arg]
  <1>0. /\ GixIInv /\ GixTypeOK /\ CallFits /\ NoStalePointer /\ InUse = Cached
        /\ op.phase = "enlist" /\ Pending
        /\ UNCHANGED <<sets, dictFile, access, todo, answer>>
    BY DEF RInv, GixIInv, Enlist, InUse, Pending
  <1>1. /\ op \in Ops /\ op.key \in Key /\ op.arg \in SUBSET ItemVal /\ dict[op.key] = NoPtr
        /\ op.name = "add" /\ access # "closed" /\ Writable /\ b \in SavedSet
    BY <1>0, OpFacts DEF Phase, NoStalePointer, CallFits, SavedSet
  <1>2. /\ dict \in Dict /\ blob \in BlobMap /\ LinkedBlobs(dict, blob)
        /\ KeyPtr = dict /\ KeyPtr' = dict'
    BY <1>0, <1>1 DEF GixIInv, KeyPtr, GixTypeOK, BlobMap
  <1>3. /\ blob[p] = NoSet
        /\ \A k \in Key : dict'[k] = IF k = op.key THEN p ELSE dict[k]
        /\ \A r \in BlobPt : blob'[r] = IF r = p THEN b ELSE blob[r]
    BY <1>1, <1>2 DEF Enlist, Blobs!Put, Blobs!Stored, Relink, Dict, BlobMap
  <1>4. op'.phase = "enlisted"
    BY <1>1, AtFacts, LoadedFacts DEF Enlist, Phase
  <1>5. InUse' = Cached /\ p \notin Cached /\ ~Pending'
    BY <1>0, <1>3, <1>4, UseFacts DEF InUse, Cached, Pending
  <1>6. ReadOnlyKept'
    BY <1>0, <1>1 DEF ReadOnlyKept, Writable
  <1> HIDE DEF b
  <1>7. ASSUME NEW k \in Key, k # op.key PROVE ItemsOf(k)' = ItemsOf(k)
    <2>1. dict'[k] = dict[k]
      BY <1>3, <1>7
    <2>2. CASE dict[k] = NoPtr
      BY <1>2, <2>1, <2>2 DEF ItemsOf
    <2>3. CASE dict[k] # NoPtr
      <3>1. dict[k] \in BlobPt /\ dict[k] # p
        BY <1>2, <1>3, <2>3 DEF LinkedBlobs, Dict
      <3>2. blob'[dict[k]] = blob[dict[k]]
        BY <1>3, <3>1
      <3> QED
        BY <1>0, <1>2, <1>5, <2>1, <3>2 DEF ItemsOf
    <2> QED
      BY <2>2, <2>3
  <1>8. ASSUME NEW k \in Key, k = op.key PROVE ItemsOf(k)' = op.arg
    <2>1. dict'[k] = p /\ blob'[p].items = op.arg
      BY <1>3, <1>8 DEF b
    <2> QED
      BY <1>2, <1>5, <2>1 DEF ItemsOf
  <1>9. ItemsOf(op.key) = {}
    BY <1>1, <1>2 DEF ItemsOf
  <1>10. Left = op.arg
    BY <1>1, <1>9 DEF Left
  <1> QED
    BY <1>0, <1>1, <1>5, <1>6, <1>7, <1>8, <1>10, Effects

\* What was loaded, or enlisted, is put into the cache.
LEMMA InsertAbs ==
  ASSUME RInv, Insert
  PROVE  ReadOnlyKept' /\ AbsStep
  <1> USE PtrAssumption, NoSetAssumption
  <1>0. /\ GixTypeOK /\ CallFits /\ NoStalePointer /\ InUse = Cached /\ ReadOnlyKept
        /\ op.phase \in {"insert", "enlisted"} /\ op.phase \in Phase
        /\ LinkedBlobs(KeyPtr, blob)
        /\ UNCHANGED <<dict, dictDirty, blob, dictFile, access, todo, answer>>
    BY DEF RInv, GixIInv, Insert, InUse, Phase
  <1>1. /\ op \in Ops /\ op.key \in Key /\ op.pt \in BlobPt /\ dict[op.key] = op.pt
        /\ op.pt \notin Cached /\ op.set = SetOf(blob[op.pt]) /\ access # "closed"
    BY <1>0, OpFacts DEF GixTypeOK, NoStalePointer, CallFits
  <1>2. KeyPtr = dict /\ KeyPtr' = dict /\ blob[op.pt] \in SavedSet
    BY <1>0, <1>1 DEF KeyPtr, LinkedBlobs, GixTypeOK
  <1>3. op.set # NoSet /\ op.set.items = blob[op.pt].items
    BY <1>1, <1>2, LoadedFacts DEF SetOf
  <1>4. \A r \in BlobPt : sets'[r] = IF r = op.pt THEN op.set ELSE sets[r]
    BY <1>0, <1>1 DEF Insert, GixTypeOK
  <1>5. /\ op'.phase = (IF op.phase = "insert" THEN "apply" ELSE "cleanup")
        /\ op'.name = op.name /\ op'.key = op.key /\ op'.arg = op.arg
    BY <1>0, <1>1, AtFacts DEF Insert, Phase
  <1>6. InUse' = Cached \cup {op.pt} /\ (Pending' <=> Pending)
    BY <1>0, <1>1, <1>3, <1>4, <1>5 DEF Cached, InUse, Pending
  <1>7. ReadOnlyKept'
    BY <1>0, <1>1, <1>3, <1>4, <1>6 DEF ReadOnlyKept, Cached
  <1>8. ASSUME NEW k \in Key PROVE ItemsOf(k)' = ItemsOf(k)
    <2>1. CASE dict[k] = op.pt
      BY <1>0, <1>1, <1>2, <1>3, <1>4, <1>6, <2>1 DEF ItemsOf
    <2>2. CASE dict[k] # op.pt
      <3>1. dict[k] \in InUse' <=> dict[k] \in InUse
        BY <1>0, <1>6, <2>2
      <3>2. dict[k] \in InUse => sets'[dict[k]] = sets[dict[k]]
        BY <1>0, <1>4, <2>2 DEF Cached
      <3> QED
        BY <1>0, <1>2, <3>1, <3>2 DEF ItemsOf
    <2> QED
      BY <2>1, <2>2
  <1>9. Call' = Call
    BY <1>0, <1>5, <1>6, CallFacts DEF Phase
  <1> QED
    BY <1>0, <1>7, <1>8, <1>9, Stutter

\* An item set is changed in the cache, by the last step of its call.
LEMMA WorkAbs ==
  ASSUME RInv, op.phase = "apply", NEW s \in ItemSet, s.key = op.key,
         sets' = [sets EXCEPT ![op.pt] = s], op'.phase \in {"idle", "cleanup"},
         s.items = Left, op.name # "get" \/ Left = sets[op.pt].items,
         answer' = IF op.name = "get" THEN sets[op.pt].items ELSE answer,
         UNCHANGED <<dict, blob, dictFile, access>>
  PROVE  ReadOnlyKept' /\ AbsStep
  <1>0. /\ GixIInv /\ GixTypeOK /\ CallFits /\ InUse = Cached /\ Pending /\ ~Pending'
    BY DEF RInv, GixIInv, InUse, Pending
  <1>1. /\ op.pt \in Cached /\ op.pt \in InUse /\ sets[op.pt].key = op.key
        /\ dict[op.key] = op.pt /\ op.pt \in BlobPt /\ op.key \in Key
    BY <1>0, ApplyFacts
  <1>2. access = "rdonly" => op.name = "get"
    BY <1>0 DEF CallFits, Phase, Writable
  <1>3. KeyPtr = dict /\ s # NoSet
    BY <1>0, <1>1, UseFacts, NoSetAssumption
  <1>4. \A r \in BlobPt : sets'[r] = IF r = op.pt THEN s ELSE sets[r]
    BY <1>0, <1>1 DEF GixTypeOK
  <1>5. InUse' = InUse
    BY <1>0, <1>1, <1>3, <1>4 DEF InUse, Cached
  <1>6. /\ ReadOnlyKept'
        /\ \A k \in Key : ItemsOf(k)' = IF k = op.key THEN s.items ELSE ItemsOf(k)
    BY <1>0, <1>1, <1>2, <1>5, WorkItems
  <1>7. ItemsOf(op.key) = sets[op.pt].items
    BY <1>1, <1>3, PtrAssumption DEF ItemsOf
  <1> QED
    BY <1>0, <1>6, <1>7, Effects

LEMMA ApplyItems ==
  ASSUME RInv, op.phase = "apply"
  PROVE  /\ GixIInv /\ ItemsOf(op.key) = sets[op.pt].items
         /\ op.pt \in Cached /\ InUse = Cached
  <1>1. GixIInv /\ InUse = Cached
    BY DEF RInv, InUse
  <1>2. op.pt \in InUse /\ dict[op.key] = op.pt /\ op.pt \in BlobPt
    BY <1>1, ApplyFacts
  <1>3. KeyPtr = dict
    BY <1>1, <1>2, UseFacts
  <1> QED
    BY <1>1, <1>2, <1>3, PtrAssumption DEF ItemsOf

LEMMA ApplyAddAbs ==
  ASSUME RInv, ApplyAdd
  PROVE  ReadOnlyKept' /\ AbsStep
  <1>1. /\ op.phase = "apply" /\ op.name = "add" /\ op' = At("cleanup", op.pt, NoSet)
        /\ UNCHANGED <<dict, dictDirty, blob, dictFile, access, todo, answer>>
    BY DEF ApplyAdd
  <1>2. PICK pend \in {"none", "adds", sets[op.pt].pend} :
          sets' = IF op.arg = {} THEN sets
                   ELSE [sets EXCEPT ![op.pt] = With(sets[op.pt], sets[op.pt].items \cup op.arg,
                                                      pend, TRUE)]
    BY <1>1, ApplyItems, ApplyFacts DEF ApplyAdd, GixIInv, GixTypeOK
  <1> DEFINE s == With(sets[op.pt], sets[op.pt].items \cup op.arg, pend, TRUE)
  <1>3. s \in ItemSet /\ s.key = op.key /\ s.items = sets[op.pt].items \cup op.arg
    BY <1>1, ApplyItems, ApplyFacts DEF With, ItemSet
  <1>4. op'.phase = "cleanup" /\ Left = sets[op.pt].items \cup op.arg
    BY <1>1, ApplyItems, ApplyFacts, AtFacts DEF Phase, Left
  <1> HIDE DEF s
  <1>5. CASE op.arg # {}
    <2>1. sets' = [sets EXCEPT ![op.pt] = s]
      BY <1>2, <1>5 DEF s
    <2> QED
      BY <1>1, <1>3, <1>4, <2>1, WorkAbs
  <1>6. CASE op.arg = {}
    <2>1. sets' = sets /\ Left = ItemsOf(op.key)
      BY <1>1, <1>2, <1>4, <1>6, ApplyItems
    <2>2. InUse' = InUse /\ Pending /\ ~Pending'
      BY <1>1, <1>4, <2>1 DEF InUse, Cached, Pending
    <2>3. ReadOnlyKept' /\ \A k \in Key : ItemsOf(k)' = ItemsOf(k)
      BY <1>1, <2>1, <2>2, SameItems
    <2>4. GixTypeOK
      BY DEF RInv, GixIInv
    <2> QED
      BY <1>1, <2>1, <2>2, <2>3, <2>4, Effects
  <1> QED
    BY <1>5, <1>6

LEMMA ApplyClrAbs ==
  ASSUME RInv, ApplyClr
  PROVE  ReadOnlyKept' /\ AbsStep
  <1> DEFINE s == With(sets[op.pt], {}, "none", TRUE)
  <1>1. op.phase = "apply" /\ op.name = "clr" /\ op' = Idle /\ op'.phase = "idle"
    BY DEF ApplyClr, Idle
  <1>2. sets' = [sets EXCEPT ![op.pt] = s]
    BY DEF ApplyClr, RInv, GixIInv, GixTypeOK
  <1>3. s \in ItemSet /\ s.key = op.key /\ s.items = {} /\ Left = {}
    BY <1>1, ApplyItems, ApplyFacts DEF With, ItemSet, Left
  <1> HIDE DEF s
  <1> QED
    BY <1>1, <1>2, <1>3, WorkAbs DEF ApplyClr

LEMMA ApplyGetAbs ==
  ASSUME RInv, ApplyGet
  PROVE  ReadOnlyKept' /\ AbsStep
  <1> DEFINE t == sets[op.pt]
             s == With(t, t.items, "none", t.dirty \/ t.pend # "none")
  <1>1. op.phase = "apply" /\ op.name = "get" /\ op' = Idle /\ op'.phase = "idle"
    BY DEF ApplyGet, Idle
  <1>2. sets' = [sets EXCEPT ![op.pt] = s]
    BY <1>1, ApplyItems, ApplyFacts DEF ApplyGet, GixIInv, GixTypeOK
  <1>3. s \in ItemSet /\ s.key = op.key /\ s.items = t.items /\ Left = t.items
    BY <1>1, ApplyItems, ApplyFacts DEF With, ItemSet, Left
  <1> HIDE DEF s
  <1> QED
    BY <1>1, <1>2, <1>3, WorkAbs DEF ApplyGet

\* A delete; of the last item it takes the key and the blob along.
LEMMA ApplyDelAbs ==
  ASSUME RInv, ApplyDel
  PROVE  ReadOnlyKept' /\ AbsStep
  <1> USE PtrAssumption, NoSetAssumption
  <1> DEFINE s == AfterDel(sets[op.pt])
  <1>1. /\ op.phase = "apply" /\ op.name \in {"del", "below"} /\ op' = Idle /\ op'.phase = "idle"
        /\ UNCHANGED <<dictFile, access, todo, answer>>
    BY DEF ApplyDel, Idle
  <1>2. /\ s \in ItemSet /\ s.key = op.key /\ s.items = sets[op.pt].items \ op.arg
        /\ Left = sets[op.pt].items \ op.arg
    BY <1>1, ApplyItems, ApplyFacts, AfterDelFacts DEF Left
  <1>3. CASE ~Empty(s)
    <2>1. sets' = [sets EXCEPT ![op.pt] = s] /\ UNCHANGED <<dict, dictDirty, blob>>
      BY <1>1, <1>3, ApplyItems, ApplyFacts DEF ApplyDel, GixIInv, GixTypeOK
    <2> HIDE DEF s
    <2> QED
      BY <1>1, <1>2, <2>1, WorkAbs
  <1>4. CASE Empty(s)
    <2>0. /\ GixIInv /\ GixTypeOK /\ CallFits /\ ReadOnlyKept /\ InUse = Cached /\ InUse' = Cached'
          /\ Pending /\ ~Pending' /\ Left = {}
      BY <1>1, <1>2, <1>4 DEF RInv, GixIInv, InUse, Pending, Empty
    <2>1. /\ op.pt \in BlobPt /\ op.pt \in Cached /\ op.pt \in InUse /\ dict[op.key] = op.pt
          /\ op.key \in Key /\ LinkedBlobs(dict, blob) /\ access # "closed" /\ KeyPtr = dict
      BY <1>1, <2>0, ApplyFacts, UseFacts
    <2>2. Writable /\ KeyPtr' = dict'
      BY <1>1, <2>0, <2>1 DEF CallFits, Phase, KeyPtr
    <2>3. /\ \A k \in Key : dict'[k] = IF k = op.key THEN NoPtr ELSE dict[k]
          /\ \A r \in BlobPt : blob'[r] = IF r = op.pt THEN NoSet ELSE blob[r]
          /\ \A r \in BlobPt : sets'[r] = IF r = op.pt THEN NoSet ELSE sets[r]
      BY <1>4, <2>0, <2>1 DEF ApplyDel, DeleteItemSet, Blobs!Del, Relink, GixTypeOK, Dict
    <2>4. Cached' = Cached \ {op.pt}
      BY <2>1, <2>3 DEF Cached
    <2>5. ReadOnlyKept'
      BY <1>1, <2>2 DEF ReadOnlyKept, Writable
    <2>6. ASSUME NEW k \in Key, k # op.key PROVE ItemsOf(k)' = ItemsOf(k)
      <3>1. dict'[k] = dict[k] /\ dict[k] \in BlobPt \cup {NoPtr}
        BY <2>0, <2>3, <2>6 DEF GixTypeOK, Dict
      <3>2. dict[k] # op.pt
        BY <2>1, <2>6 DEF LinkedBlobs
      <3> QED
        BY <2>0, <2>1, <2>2, <2>3, <2>4, <3>1, <3>2 DEF ItemsOf
    <2>7. ASSUME NEW k \in Key, k = op.key PROVE ItemsOf(k)' = {}
      BY <2>2, <2>3, <2>7 DEF ItemsOf
    <2> QED
      BY <1>1, <2>0, <2>5, <2>6, <2>7, Effects
  <1> QED
    BY <1>3, <1>4

LEMMA ReturnAbs ==
  ASSUME RInv, Return
  PROVE  ReadOnlyKept' /\ AbsStep
  <1>1. /\ op.phase = "cleanup" /\ op'.phase = "idle"
        /\ UNCHANGED <<dict, dictDirty, sets, blob, dictFile, access, todo, answer>>
    BY DEF Return, Idle
  <1>2. InUse' = InUse /\ Call' = Call
    BY <1>1 DEF InUse, Cached, Call, Pending
  <1>3. ReadOnlyKept' /\ \A k \in Key : ItemsOf(k)' = ItemsOf(k)
    BY <1>1, <1>2, SameItems
  <1> QED
    BY <1>1, <1>2, <1>3, Stutter

(***************************************************************************)
(* The steps of the cache, of flushing, of closing and of opening: nothing *)
(* changes for the caller.                                                 *)
(***************************************************************************)
LEMMA PackLocalAbs ==
  ASSUME RInv, NEW p \in BlobPt, PackLocal(p)
  PROVE  ReadOnlyKept' /\ AbsStep
  <1> DEFINE s == With(sets[p], sets[p].items, "none", TRUE)
  <1>0. /\ op.phase \in {"refresh", "cleanup"} /\ p \in Cached /\ GixTypeOK /\ InUse = Cached
        /\ UNCHANGED <<dict, dictDirty, blob, dictFile, access, op, todo, answer>>
    BY DEF PackLocal, RInv, GixIInv, InUse
  <1>1. sets' = [sets EXCEPT ![p] = s]
    BY <1>0 DEF PackLocal, GixTypeOK
  <1>2. sets[p] \in ItemSet /\ sets[p].items \in SUBSET ItemVal
    BY <1>0 DEF GixTypeOK, Cached, ItemSet
  <1>3. s \in ItemSet /\ s.key = sets[p].key /\ s.items = sets[p].items
    BY <1>2 DEF With, ItemSet
  <1> HIDE DEF s
  <1>4. InUse' = InUse
    BY <1>0, <1>1, <1>3, NoSetAssumption DEF InUse, Cached, GixTypeOK
  <1>5. /\ ReadOnlyKept'
        /\ \A k \in Key : ItemsOf(k)' = IF k = sets[p].key THEN s.items ELSE ItemsOf(k)
    BY <1>0, <1>1, <1>3, <1>4, WorkItems
  <1>6. ItemsOf(sets[p].key) = sets[p].items
    <2>1. KeyPtr = dict /\ dict[sets[p].key] = p
      BY <1>0, UseFacts DEF RInv
    <2> QED
      BY <1>0, <2>1, PtrAssumption DEF ItemsOf
  <1>7. Call' = Call
    BY <1>0 DEF Call, Pending
  <1>8. \A k \in Key : ItemsOf(k)' = ItemsOf(k)
    BY <1>3, <1>5, <1>6
  <1> QED
    BY <1>0, <1>5, <1>7, <1>8, Stutter

LEMMA EvictAbs ==
  ASSUME RInv, NEW p \in Cached, OnDelFromCache(p),
         op.phase \notin {"flush", "closing"}, sets' = [sets EXCEPT ![p] = NoSet],
         UNCHANGED <<dictFile, access, op, todo, answer>>
  PROVE  ReadOnlyKept' /\ AbsStep
  <1>1. InUse = Cached /\ InUse' = Cached' /\ GixTypeOK
    BY DEF InUse, RInv, GixIInv
  <1>2. \A r \in BlobPt : sets'[r] = IF r = p THEN NoSet ELSE sets[r]
    BY <1>1 DEF GixTypeOK
  <1>3. InUse' = InUse \ {p} /\ \A r \in InUse \ {p} : sets'[r] = sets[r]
    BY <1>1, <1>2 DEF Cached
  <1>4. ReadOnlyKept' /\ \A k \in Key : ItemsOf(k)' = ItemsOf(k)
    BY <1>1, <1>3, EvictItems
  <1>5. Call' = Call
    BY DEF Call, Pending
  <1> QED
    BY <1>4, <1>5, Stutter

LEMMA PurgeAbs ==
  ASSUME RInv, NEW p \in BlobPt, Purge(p)
  PROVE  ReadOnlyKept' /\ AbsStep
  BY EvictAbs DEF Purge, MayPurge

LEMMA DropAbs ==
  ASSUME RInv, NEW k \in Key, DropFromCache(k) \/ StoreAndDropFromCache(k)
  PROVE  ReadOnlyKept' /\ AbsStep
  <1>1. dict[k] \in Cached /\ op.phase = "idle" /\ OnDelFromCache(dict[k])
    BY DEF DropFromCache, StoreAndDropFromCache, Droppable, OnDelFromCache, Idle
  <1> QED
    BY <1>1, EvictAbs DEF DropFromCache, StoreAndDropFromCache

LEMMA FlushOneAbs ==
  ASSUME RInv, NEW p \in BlobPt, FlushOne(p)
  PROVE  ReadOnlyKept' /\ AbsStep
  <1>1. /\ InUse = todo /\ p \in InUse /\ InUse' = InUse \ {p} /\ OnDelFromCache(p)
        /\ UNCHANGED <<sets, dictFile, access, op, answer>>
    BY DEF FlushOne, InUse
  <1>2. ReadOnlyKept' /\ \A k \in Key : ItemsOf(k)' = ItemsOf(k)
    BY <1>1, EvictItems
  <1>3. Call' = Call
    BY <1>1 DEF Call, Pending
  <1> QED
    BY <1>1, <1>2, <1>3, Stutter

\* The item set stays in the cache, under the pointer it has now.
LEMMA PartialFlushOneAbs ==
  ASSUME RInv, NEW p \in BlobPt, PartialFlushOne(p)
  PROVE  ReadOnlyKept' /\ AbsStep
  <1> USE PtrAssumption, NoSetAssumption
  <1>0. /\ GixIInv /\ GixTypeOK /\ InUse = Cached /\ InUse' = Cached' /\ p \in InUse
        /\ op.phase = "partial" /\ Writable /\ sets[p].dirty
        /\ UNCHANGED <<dictFile, access, op, todo, answer>>
    BY DEF RInv, GixIInv, PartialFlushOne, InUse
  <1>1. PICK q \in BlobPt \cup {NoPtr} : StoreItemSet(p, q) /\ sets' = Rekeyed(p, q)
    BY DEF PartialFlushOne
  <1>2. CASE q = NoPtr
    <2>1. OnDelFromCache(p) /\ sets' = [sets EXCEPT ![p] = NoSet]
      BY <1>0, <1>1, <1>2 DEF OnDelFromCache, Rekeyed
    <2> QED
      BY <1>0, <2>1, EvictAbs
  <1>3. CASE q # NoPtr
    <2> DEFINE s == SetOf(BlobOf(sets[p]))
    <2>1. /\ access # "closed" /\ sets[p].key \in Key /\ BlobOf(sets[p]) \in SavedSet
          /\ KeyPtr = dict /\ KeyPtr' = dict' /\ dict[sets[p].key] = p
          /\ LinkedBlobs(dict, blob) /\ \A r \in Cached : r \in BlobPt /\ blob[r] # NoSet
      BY <1>0, UseFacts DEF KeyPtr
    <2>2. /\ q \in BlobPt /\ (q = p \/ blob[q] = NoSet) /\ dict'[sets[p].key] = q
          /\ \A k \in Key : k # sets[p].key => dict'[k] = dict[k]
          /\ \A r \in BlobPt : r # p /\ blob[r] # NoSet => blob'[r] = blob[r]
      BY <1>0, <1>1, <1>3, StoreFacts
    <2>3. s # NoSet /\ s.items = sets[p].items
      BY <2>1, LoadedFacts DEF SetOf, BlobOf
    <2>4. sets' = [sets EXCEPT ![p] = NoSet, ![q] = s]
      BY <1>1, <1>3 DEF Rekeyed
    <2> HIDE DEF s
    <2>5. \A r \in BlobPt : sets'[r] = IF r = q THEN s ELSE IF r = p THEN NoSet ELSE sets[r]
      BY <1>0, <2>2, <2>4 DEF GixTypeOK
    <2>6. InUse' = (Cached \ {p}) \cup {q}
      BY <1>0, <2>2, <2>3, <2>5 DEF Cached
    <2>7. ReadOnlyKept'
      BY <1>0 DEF ReadOnlyKept, Writable
    <2>8. ASSUME NEW k \in Key, k = sets[p].key PROVE ItemsOf(k)' = ItemsOf(k)
      <3>1. ItemsOf(k) = sets[p].items
        BY <1>0, <2>1, <2>8 DEF ItemsOf
      <3>2. ItemsOf(k)' = s.items
        BY <1>3, <2>1, <2>2, <2>5, <2>6, <2>8 DEF ItemsOf
      <3> QED
        BY <2>3, <3>1, <3>2
    <2>9. ASSUME NEW k \in Key, k # sets[p].key PROVE ItemsOf(k)' = ItemsOf(k)
      <3>1. dict'[k] = dict[k]
        BY <2>2, <2>9
      <3>2. CASE dict[k] = NoPtr
        BY <2>1, <3>1, <3>2 DEF ItemsOf
      <3>3. CASE dict[k] # NoPtr
        <4>1. dict[k] \in BlobPt /\ blob[dict[k]] # NoSet /\ dict[k] # p
          BY <1>0, <2>1, <2>9, <3>3 DEF LinkedBlobs, GixTypeOK, Dict
        <4>2. dict[k] # q /\ blob'[dict[k]] = blob[dict[k]]
          BY <2>2, <4>1
        <4>3. sets'[dict[k]] = sets[dict[k]] /\ (dict[k] \in InUse' <=> dict[k] \in InUse)
          BY <1>0, <2>5, <2>6, <4>1, <4>2
        <4> QED
          BY <2>1, <3>1, <4>2, <4>3 DEF ItemsOf
      <3> QED
        BY <3>2, <3>3
    <2>10. Call' = Call
      BY <1>0 DEF Call, Pending
    <2> QED
      BY <1>0, <2>7, <2>8, <2>9, <2>10, Stutter
  <1> QED
    BY <1>2, <1>3

LEMMA PartialFlushAbs ==
  ASSUME RInv, BeginPartialFlush \/ PartialFlushEnd
  PROVE  ReadOnlyKept' /\ AbsStep
  <1>1. /\ op.phase \in {"idle", "partial"} /\ op'.phase \in {"idle", "partial"}
        /\ UNCHANGED <<dict, dictDirty, sets, blob, dictFile, access, todo, answer>>
    BY DEF BeginPartialFlush, PartialFlushEnd, Idle
  <1>2. InUse' = InUse /\ Call' = Call
    BY <1>1 DEF InUse, Cached, Call, Pending
  <1>3. ReadOnlyKept' /\ \A k \in Key : ItemsOf(k)' = ItemsOf(k)
    BY <1>1, <1>2, SameItems
  <1> QED
    BY <1>1, <1>2, <1>3, Stutter

\* A read-only index is closed without storing anything: it has nothing to store.
LEMMA BeginFlushAbs ==
  ASSUME RInv, NEW ph \in {"flush", "closing"}, BeginFlush(ph)
  PROVE  ReadOnlyKept' /\ AbsStep
  <1>0. /\ ReadOnlyKept /\ InUse = Cached /\ op.phase = "idle" /\ access # "closed" /\ GixTypeOK
        /\ op'.phase = ph /\ todo' = (IF ph = "flush" \/ Writable THEN Cached ELSE {})
        /\ UNCHANGED <<dict, dictDirty, sets, blob, dictFile, access, answer>>
    BY DEF RInv, GixIInv, BeginFlush, InUse, Idle
  <1>1. InUse' = todo' /\ Call' = Call
    BY <1>0 DEF InUse, Call, Pending
  <1>2. KeyPtr' = KeyPtr
    BY <1>0 DEF KeyPtr
  <1>3. ReadOnlyKept'
    BY <1>0, <1>1 DEF ReadOnlyKept
  <1>4. ASSUME NEW k \in Key PROVE ItemsOf(k)' = ItemsOf(k)
    <2>1. CASE InUse' = InUse
      BY <1>0, <1>2, <2>1 DEF ItemsOf
    <2>2. CASE InUse' # InUse
      <3>1. access = "rdonly" /\ InUse' = {}
        BY <1>0, <1>1, <2>2 DEF Writable, GixTypeOK
      <3> QED
        BY <1>0, <1>2, <3>1 DEF ItemsOf, ReadOnlyKept
    <2> QED
      BY <2>1, <2>2
  <1> QED
    BY <1>0, <1>1, <1>3, <1>4, Stutter

\* No cached item set is in use any more, before or after.
LEMMA FlushEndAbs ==
  ASSUME RInv, FlushEnd
  PROVE  ReadOnlyKept' /\ AbsStep
  <1>1. /\ op.phase = "flush" /\ op'.phase = "idle" /\ todo = {}
        /\ sets' = [p \in BlobPt |-> NoSet]
        /\ UNCHANGED <<dict, dictDirty, blob, dictFile, access, todo, answer>>
    BY DEF FlushEnd, Idle
  <1>2. InUse = {} /\ InUse' = {} /\ Call' = Call /\ KeyPtr' = KeyPtr
    BY <1>1 DEF InUse, Cached, Call, Pending, KeyPtr
  <1>3. ReadOnlyKept' /\ \A k \in Key : ItemsOf(k)' = ItemsOf(k)
    BY <1>1, <1>2 DEF ReadOnlyKept, ItemsOf
  <1> QED
    BY <1>1, <1>2, <1>3, Stutter

LEMMA CloseAbs ==
  ASSUME RInv, Close
  PROVE  ReadOnlyKept' /\ AbsStep
  <1>1. /\ op.phase = "closing" /\ op'.phase = "idle" /\ todo = {} /\ access' = "closed"
        /\ sets' = [p \in BlobPt |-> NoSet] /\ UNCHANGED <<dict, blob, todo, answer>>
    BY DEF Close, Idle
  <1>2. InUse = {} /\ InUse' = {} /\ Call' = Call
    BY <1>1 DEF InUse, Cached, Call, Pending
  <1>3. KeyPtr' = KeyPtr
    BY <1>1, CloseStep DEF RInv, KeyPtr
  <1>4. ReadOnlyKept' /\ \A k \in Key : ItemsOf(k)' = ItemsOf(k)
    BY <1>1, <1>2, <1>3 DEF ReadOnlyKept, ItemsOf
  <1> QED
    BY <1>1, <1>2, <1>4, Stutter

LEMMA OpenAbs ==
  ASSUME RInv, NEW a \in {"update", "rdonly"}, Open(a)
  PROVE  ReadOnlyKept' /\ AbsStep
  <1>1. /\ Cached = {} /\ op.phase = "idle" /\ access = "closed" /\ access' = a
        /\ dict' = dictFile /\ UNCHANGED <<sets, blob, dictFile, op, todo, answer>>
    BY DEF RInv, GixIInv, FileMatches, Open, Idle
  <1>2. InUse = {} /\ InUse' = {} /\ Call' = Call
    BY <1>1 DEF InUse, Cached, Call, Pending
  <1>3. KeyPtr' = KeyPtr
    BY <1>1 DEF KeyPtr
  <1>4. ReadOnlyKept' /\ \A k \in Key : ItemsOf(k)' = ItemsOf(k)
    BY <1>1, <1>2, <1>3 DEF ReadOnlyKept, ItemsOf
  <1> QED
    BY <1>1, <1>2, <1>4, Stutter

(***************************************************************************)
(* The refinement.                                                         *)
(***************************************************************************)
LEMMA InitAbs == GixInit => ReadOnlyKept /\ AsPostings!Init
  <1> SUFFICES ASSUME GixInit PROVE ReadOnlyKept /\ AsPostings!Init
    OBVIOUS
  <1>1. /\ op = Idle /\ op.phase = "idle" /\ access = "create"
        /\ dict = [k \in Key |-> NoPtr] /\ answer = {}
    BY DEF GixInit, Idle
  <1>2. Call = AsPostings!NoCall
    BY <1>1 DEF Call, Pending, AsPostings!NoCall
  <1>3. \A k \in Key : ItemsOf(k) = {}
    BY <1>1 DEF ItemsOf, KeyPtr
  <1> QED
    BY <1>1, <1>2, <1>3 DEF AsPostings!Init, ReadOnlyKept

LEMMA AbsNext == RInv /\ [GixNext]_gixVars => ReadOnlyKept' /\ AbsStep
  <1> SUFFICES ASSUME RInv, [GixNext]_gixVars PROVE ReadOnlyKept' /\ AbsStep
    OBVIOUS
  <1>1. CASE UNCHANGED gixVars
    <2>1. InUse' = InUse /\ Call' = Call
      BY <1>1 DEF gixVars, InUse, Cached, Call, Pending
    <2>2. UNCHANGED <<dict, blob, sets, dictFile, access, answer>>
      BY <1>1 DEF gixVars
    <2>3. ReadOnlyKept' /\ \A k \in Key : ItemsOf(k)' = ItemsOf(k)
      BY <2>1, <2>2, SameItems
    <2> QED
      BY <2>1, <2>2, <2>3, Stutter
  <1>2. CASE GixNext
    BY <1>2, BeginAbs, ResolveAbs, FetchAbs, EnlistAbs, InsertAbs, PackLocalAbs, ApplyAddAbs,
       ApplyDelAbs, ApplyClrAbs, ApplyGetAbs, ReturnAbs, DropAbs, PurgeAbs, PartialFlushAbs,
       BeginFlushAbs, FlushOneAbs, PartialFlushOneAbs, FlushEndAbs, CloseAbs, OpenAbs
    DEF GixNext
  <1> QED
    BY <1>1, <1>2

\* Every key has the items that calls have added and not deleted since, whatever
\* the cache, the flushes, closing and opening do in between; a read returns them.
THEOREM IndexIsAMap == GixSpec => ImplementsPostingIndex
  <1>1. GixInit => RInv /\ AsPostings!Init
    BY GixInitIInv, InitAbs DEF RInv
  <1>2. RInv /\ [GixNext]_gixVars => RInv' /\ AbsStep
    BY GixIInvStep, AbsNext DEF RInv
  <1> QED
    BY <1>1, <1>2, PTL DEF GixSpec, ImplementsPostingIndex, AsPostings!Spec, AbsStep
==============================================================================
