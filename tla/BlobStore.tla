------------------------------ MODULE BlobStore ------------------------------
(***************************************************************************)
(* What a TBlobBs promises to the code above it: a partial map from blob   *)
(* pointers to the data stored under them.  Nothing is said of segments,   *)
(* size classes, free lists or files, of closing and opening: none of that *)
(* may change the map.  What a crash may take is said with Lose.           *)
(***************************************************************************)
CONSTANTS Ptr,   \* blob pointers (TBlobPt)
          Data,  \* contents of blobs
          NoData \* what is under a pointer that is not in use

VARIABLE store

TypeOK == store \in [Ptr -> Data \cup {NoData}]

Stored == {p \in Ptr : store[p] # NoData}

Init == store = [p \in Ptr |-> NoData]

\* TBlobBs::PutBlob(SIn): the pointer returned is not in use.
Put(p, d) == /\ p \notin Stored
             /\ store' = [store EXCEPT ![p] = d]

\* TBlobBs::PutBlob(BlobPt, SIn): in place, or moved to a pointer not in use.
Update(p, q, d) == /\ p \in Stored
                   /\ q = p \/ q \notin Stored
                   /\ store' = [store EXCEPT ![p] = NoData, ![q] = d]

\* TBlobBs::DelBlob(BlobPt).
Del(p) == /\ p \in Stored
          /\ store' = [store EXCEPT ![p] = NoData]

\* What was under these pointers is gone.
Lose(L) == store' = [p \in Ptr |-> IF p \in L THEN NoData ELSE store[p]]

Next == \/ \E p \in Ptr, d \in Data : Put(p, d) \/ \E q \in Ptr : Update(p, q, d)
        \/ \E p \in Ptr : Del(p)

Spec == Init /\ [][Next]_store
=============================================================================
