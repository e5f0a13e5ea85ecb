----------------------------- MODULE MCRecordStore -----------------------------
(***************************************************************************)
(* A record store, and the storages it may put its fields in, in blocks of *)
(* two values each: on disk behind a cache of one or two blocks (OnDisk),  *)
(* in memory loaded at once (Loaded), and in memory opened lazily by a     *)
(* user who loads everything before the first change, as the tests of the  *)
(* repository do (Lazily).  RecordStore takes each for what ValueStore     *)
(* promises.  What is checked is chosen in the initial state.              *)
(***************************************************************************)
EXTENDS RecordStore, TLC

CONSTANTS
  Blank, Empty,
  BlockSize, BlockMem, MxMemUsed, PurgeMem, CacheResetThreshold,
  StoredVals, LoadedVals \* bounds: ids given out by a storage on disk, and by one in memory

VARIABLES
  kind,
  Vals, BlockCache, FirstBlockOffset, FirstValOffset, NewCacheSizeInc,
  memVals, memFlags, memBlobs, memOffset, memFirst

disk == <<Vals, BlockCache, FirstBlockOffset, FirstValOffset, NewCacheSizeInc>>
mem == <<memVals, memFlags, memBlobs, memOffset, memFirst>>
all == <<kind, vars, disk, mem>>

\* Nothing tells the values of fields apart.
MCSymmetry == Permutations(Value)

Size == {1, 2}
\* The instances are of the module of their proofs, which holds both storages.
OnDisk == INSTANCE StorageProofs WITH
  Value <- Size, Drains <- FALSE, Grows <- FALSE, Lazy <- FALSE, LoadsFirst <- FALSE,
  MaxVals <- StoredVals
Loaded == INSTANCE StorageProofs WITH
  Value <- Size, Drains <- FALSE, Grows <- FALSE, Lazy <- FALSE, LoadsFirst <- FALSE,
  MaxVals <- LoadedVals
Lazily == INSTANCE StorageProofs WITH
  Value <- Size, Drains <- FALSE, Grows <- FALSE, Lazy <- TRUE, LoadsFirst <- TRUE,
  MaxVals <- LoadedVals

MCKeys == <<"name", "text">>

\* Records with a name and perhaps a text, and updates of either alone.
Named == {"name" :> v : v \in Value}
Full == {("name" :> v) @@ ("text" :> w) : v \in Value, w \in Value}
TextOnly == {"text" :> w : w \in Value \cup {Null}}
MCJson == Named \cup TextOnly \cup Full

\* The instances are ones that RecordStoreProofs and StorageProofs are about.
ASSUME CarefulAssumption == Careful /\ OnDisk!Careful /\ Loaded!InCore!Careful /\ Lazily!InCore!Careful

MCInit ==
  /\ kind \in {"store", "disk", "memory", "lazy"}
  /\ Init /\ OnDisk!Init /\ Loaded!InCore!Init
MCNext == /\ \/ kind = "store" /\ Next /\ UNCHANGED <<disk, mem>>
             \/ kind = "disk" /\ OnDisk!Next /\ UNCHANGED <<vars, mem>>
             \/ kind = "memory" /\ Loaded!InCore!Next /\ UNCHANGED <<vars, disk>>
             \/ kind = "lazy" /\ Lazily!InCore!Next /\ UNCHANGED <<vars, disk>>
          /\ UNCHANGED kind
MCSpec == MCInit /\ [][MCNext]_all

\* The properties of the storages, of whichever it is.
CleanOnDisk == CASE kind = "disk" -> OnDisk!CleanOnDisk
                 [] kind = "memory" -> Loaded!InCore!CleanOnDisk
                 [] kind = "lazy" -> Lazily!InCore!CleanOnDisk
                 [] OTHER -> TRUE
BlocksSound == CASE kind = "disk" -> OnDisk!TypeOK /\ OnDisk!BlocksFull /\ OnDisk!MemoryBounded
                 [] kind = "memory" -> Loaded!InCore!TypeOK /\ Loaded!InCore!BlocksHaveBlobs
                 [] kind = "lazy" -> Lazily!InCore!BlocksHaveBlobs /\ Lazily!InCore!BlocksWhole
                 [] OTHER -> TRUE
KeepsItsPromise ==
  /\ OnDisk!Promise!Init /\ Loaded!InCore!Promise!Init
  /\ [][CASE kind = "disk" -> [OnDisk!Promise!Next]_(OnDisk!Promise!vars)
          [] kind = "memory" -> [Loaded!InCore!Promise!Next]_(Loaded!InCore!Promise!vars)
          [] kind = "lazy" -> [Lazily!InCore!Promise!Next]_(Lazily!InCore!Promise!vars)
          [] OTHER -> TRUE]_<<disk, mem>>
================================================================================
