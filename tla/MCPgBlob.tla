------------------------------ MODULE MCPgBlob ------------------------------
(***************************************************************************)
(* The paged blob storage on two instances, and the store above it.        *)
(* "deep": pages for several items, two of them, one in the cache at a     *)
(* time.  "wide": three pages of one item each, two in the cache, three    *)
(* layers in the free-space map.  "records": PagedStore, on the promise    *)
(* of the blob storage.  Which one it is, is chosen in the initial state.  *)
(* The two instances are smaller than the constants, each in another way.  *)
(***************************************************************************)
EXTENDS PgBlob

CONSTANTS oneA, oneB, two, \* blobs of length 1, 1 and 2
          RecPtr, NoRecPtr, Name, Val, MayMove, MaxRecs

VARIABLES kind, recBlob, RecIdBlobPtH, PrimaryIdH, RecIdCounter, saved, MetaDirtyP, memo, torn

\* Pointers and names of records are interchangeable, and so are blobs of one length.
MCSymmetry == Permutations(RecPtr) \cup Permutations(Name) \cup Permutations({oneA, oneB})

MCSize == [d \in Data |-> IF d = two THEN 2 ELSE 1]

Deep == INSTANCE PgBlob WITH MxLoadedPages <- 1, MaxPages <- 2
Wide == INSTANCE PgBlob WITH Data <- {two}, Size <- [d \in {two} |-> Size[d]]
Records == INSTANCE PagedStore WITH Ptr <- RecPtr, NoPtr <- NoRecPtr, blob <- recBlob

recs == <<recBlob, RecIdBlobPtH, PrimaryIdH, RecIdCounter, saved, MetaDirtyP, memo, torn>>

MCInit == kind \in {"deep", "wide", "records"} /\ Records!Init /\ Init
MCNext == /\ \/ kind = "deep" /\ Deep!Next /\ UNCHANGED recs
             \/ kind = "wide" /\ Wide!Next /\ UNCHANGED recs
             \/ kind = "records" /\ Records!Next /\ UNCHANGED vars
          /\ UNCHANGED kind
MCSpec == MCInit /\ [][MCNext]_<<vars, recs, kind>>

\* KeepsBlobs, on the instance it is.
KeepsItsBlobs ==
  /\ Promise!Init
  /\ [][CASE kind = "deep" -> [Deep!Promise!Next]_blobs /\ Deep!PutsApart
          [] kind = "wide" -> [Wide!Promise!Next]_blobs /\ Wide!PutsApart
          [] OTHER -> TRUE]_vars
\* The property of the store.
RecordsReached == Records!RecordsAreReached
MemoFresh == Records!MemoIsFresh
=============================================================================
