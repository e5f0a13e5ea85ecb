--------------------------------- MODULE Gix ---------------------------------
(***************************************************************************)
(* The inverted index TGix (glib/base/gix.hpp): a dictionary KeyIdH from   *)
(* keys to blob pointers, a blob base that holds one item set per key, and *)
(* a cache of item sets by blob pointer (TCache, glib/base/hash.h).        *)
(*                                                                         *)
(* A TGix is called by one thread at a time.  What makes it hard is inside *)
(* a call: cleaning the cache stores item sets, storing one may move its   *)
(* blob, free it, or remove its key, all of which a pointer that the same  *)
(* call holds on to does not notice.  A call is therefore a sequence of    *)
(* steps, and every place where the code may clean the cache is a phase in *)
(* which any cached item set may go.                                       *)
(*                                                                         *)
(* An item set is the set of its items together with what it still has to  *)
(* do; how it keeps them is the subject of GixItemSet.                     *)
(***************************************************************************)
EXTENDS Integers

CONSTANTS
  Key,      \* TKey
  ItemVal,  \* TItem, compared as integers
  BlobPt,   \* TBlobPt; finitely many bound the index
  NoPtr,    \* TBlobPt()
  NoSet     \* no item set

ASSUME PtrAssumption  == NoPtr \notin BlobPt
ASSUME ItemAssumption == ItemVal \subseteq Int

\* An item set in memory.  pend: MergedP ("none"), or what Def() has to merge:
\* items out of order ("adds"), or delete markers ItemVDel as well ("dels").
ItemSet == [key : Key, items : SUBSET ItemVal, pend : {"none", "adds", "dels"},
            dirty : BOOLEAN]
\* ... and as TGixItemSet::Save writes it.
SavedSet == [key : Key, items : SUBSET ItemVal]

ASSUME NoSetAssumption == NoSet \notin ItemSet \cup SavedSet

VARIABLES
  dict,       \* KeyIdH
  dictDirty,  \* KeyIdHDirtyP
  sets,       \* ItemSetCache: item sets by pointer
  blob,       \* ItemSetBlobBs: saved item sets by pointer
  dictFile,   \* KeyIdH as saved in the .Gix file
  access,     \* "create", "update", "rdonly", or "closed": no TGix exists
  op,         \* the call in progress and its local variables
  todo,       \* ItemSetCache entries a Flush has not reached
  answer      \* what the last GetItemV returned

gixVars == <<dict, dictDirty, sets, blob, dictFile, access, op, todo, answer>>

Dict  == [Key -> BlobPt \cup {NoPtr}]
Names == {"add", "del", "below", "clr", "get"}
Phase == {"refresh", "fetch", "insert", "apply", "enlist", "enlisted", "cleanup"}
Ops   == [phase : Phase, name : Names, key : Key, arg : SUBSET ItemVal,
          pt : BlobPt \cup {NoPtr}, set : ItemSet \cup {NoSet}]
Idle  == [phase |-> "idle"]
Other == {[phase |-> ph] : ph \in {"idle", "flush", "partial", "closing"}}

GixTypeOK ==
  /\ dict \in Dict /\ dictFile \in Dict
  /\ dictDirty \in BOOLEAN
  /\ sets \in [BlobPt -> ItemSet \cup {NoSet}]
  /\ blob \in [BlobPt -> SavedSet \cup {NoSet}]
  /\ access \in {"create", "update", "rdonly", "closed"}
  /\ op \in Ops \cup Other
  /\ op.phase \in {"fetch", "insert", "apply", "enlisted"} => op.pt \in BlobPt
  /\ todo \subseteq BlobPt
  /\ answer \subseteq ItemVal

Blobs == INSTANCE BlobStore WITH
           Ptr <- BlobPt, Data <- SavedSet, NoData <- NoSet, store <- blob

Cached == {p \in BlobPt : sets[p] # NoSet}
Writable == access \in {"create", "update"}
BlobOf(s) == [key |-> s.key, items |-> s.items]
SetOf(b) == [key |-> b.key, items |-> b.items, pend |-> "none", dirty |-> FALSE]
\* s with other items and other work to do.
With(s, items, pend, dirty) ==
  [key |-> s.key, items |-> items, pend |-> pend, dirty |-> dirty]
\* TGixItemSet::Empty is TotalCnt = 0, and TotalCnt counts pending items and
\* delete markers.
Empty(s) == s.items = {} /\ s.pend = "none"

(***************************************************************************)
(* Item sets leaving memory.                                               *)
(***************************************************************************)
\* Mutant of Relink: KeyIdHDirtyP is set for added and removed keys only.
RelinkMovesClean(k, r) ==
  /\ dict' = [dict EXCEPT ![k] = r]
  /\ dictDirty' = (dictDirty \/ ((dict[k] = NoPtr) # (r = NoPtr)))

\* KeyIdH.AddDat or KeyIdH.DelKey, where it changes anything.
Relink(k, r) == /\ dict' = [dict EXCEPT ![k] = r]
                /\ dictDirty' = (dictDirty \/ dict[k] # r)

\* TGix::StoreItemSet(p) on a cached item set, which is Def()-ed first: its blob
\* becomes q, or goes together with the key if nothing is left in the set.
StoreItemSet(p, q) ==
  IF sets[p].items = {}
  THEN q = NoPtr /\ Blobs!Del(p) /\ Relink(sets[p].key, NoPtr)
  ELSE q \in BlobPt /\ Blobs!Update(p, q, BlobOf(sets[p])) /\ Relink(sets[p].key, q)

\* TGixItemSet::OnDelFromCache(p).
OnDelFromCache(p) ==
  IF Writable /\ sets[p].dirty
  THEN \E q \in BlobPt \cup {NoPtr} : StoreItemSet(p, q)
  ELSE UNCHANGED <<dict, dictDirty, blob>>

\* Mutant of MayPurge: the cache is cleaned once more between the look-up of the
\* pointer and its use (GetItemSet before the fix its comment describes).
MayPurgeLate == op.phase \in {"refresh", "fetch", "insert", "enlisted", "cleanup"}

\* Phases in which the cache may be cleaned: RefreshMemUsed at the start and the
\* end of a call, TCache::Put before it inserts.
MayPurge == op.phase \in {"refresh", "insert", "enlisted", "cleanup"}

\* TCache::Purge drops entries from the end of the LRU list.  The order of use
\* and the sizes are left out: any entry may be the one that goes.
Purge(p) ==
  /\ MayPurge
  /\ p \in Cached
  /\ OnDelFromCache(p)
  /\ sets' = [sets EXCEPT ![p] = NoSet]
  /\ UNCHANGED <<dictFile, access, op, todo, answer>>

\* RefreshMemUsed calls DefLocal on the item sets writes have left unmerged: it
\* merges them unless they hold delete markers.
PackLocal(p) ==
  /\ op.phase \in {"refresh", "cleanup"}
  /\ p \in Cached
  /\ sets[p].pend = "adds"
  /\ sets' = [sets EXCEPT ![p] = With(@, @.items, "none", TRUE)]
  /\ UNCHANGED <<dict, dictDirty, blob, dictFile, access, op, todo, answer>>

(***************************************************************************)
(* A call.  "below" is DelItemsBelow with the items below its threshold as *)
(* argument; AddItem and DelItem are AddItemV and DelItemV of one item.    *)
(***************************************************************************)
ItemsBelow == {B \in SUBSET ItemVal : \A i \in ItemVal, j \in B : i < j => i \in B}

\* The call in progress at phase ph, with p and s as its local variables.
At(ph, p, s) == [phase |-> ph, name |-> op.name, key |-> op.key, arg |-> op.arg,
                 pt |-> p, set |-> s]

\* AssertReadOnly lets nothing but GetItemV pass in a read-only index.  Clr
\* looks the key up before it calls GetItemSet.
Begin(name, k, arg) ==
  /\ op = Idle /\ access # "closed"
  /\ name # "get" => Writable
  /\ name = "below" => arg \in ItemsBelow
  /\ name \in {"clr", "get"} => arg = {}
  /\ name = "clr" => dict[k] # NoPtr
  /\ op' = [phase |-> "refresh", name |-> name, key |-> k, arg |-> arg,
            pt |-> NoPtr, set |-> NoSet]
  /\ UNCHANGED <<dict, dictDirty, sets, blob, dictFile, access, todo, answer>>

\* GetKeyId, after the refresh.  A key that is not there: AddItemV makes it,
\* GetItemV returns an empty set, the others have nothing to do.
Resolve ==
  /\ op.phase = "refresh"
  /\ op' = IF dict[op.key] # NoPtr THEN At("fetch", dict[op.key], NoSet)
           ELSE IF op.name = "add" THEN At("enlist", NoPtr, NoSet)
           ELSE Idle
  /\ answer' = IF dict[op.key] = NoPtr /\ op.name = "get" THEN {} ELSE answer
  /\ UNCHANGED <<dict, dictDirty, sets, blob, dictFile, access, todo>>

\* GetItemSetNoRefresh: the cached item set, or the one loaded from the blob.
Fetch ==
  /\ op.phase = "fetch"
  /\ \/ op.pt \in Cached /\ op' = At("apply", op.pt, NoSet)
     \/ /\ op.pt \notin Cached /\ op.pt \in Blobs!Stored
        /\ op' = At("insert", op.pt, SetOf(blob[op.pt]))
  /\ UNCHANGED <<dict, dictDirty, sets, blob, dictFile, access, todo, answer>>

\* A key that is not there yet: a new item set, stored at once.
Enlist(p) ==
  /\ op.phase = "enlist"
  /\ Blobs!Put(p, [key |-> op.key, items |-> op.arg])
  /\ Relink(op.key, p)
  /\ op' = At("enlisted", p, SetOf([key |-> op.key, items |-> op.arg]))
  /\ UNCHANGED <<sets, dictFile, access, todo, answer>>

\* ItemSetCache.Put, after its purge.
Insert ==
  /\ op.phase \in {"insert", "enlisted"}
  /\ sets' = [sets EXCEPT ![op.pt] = op.set]
  /\ op' = At(IF op.phase = "insert" THEN "apply" ELSE "cleanup", op.pt, NoSet)
  /\ UNCHANGED <<dict, dictDirty, blob, dictFile, access, todo, answer>>

\* The EAssertR after GetItemSetNoRefresh: the item set is that of the key.
RightKey == sets[op.pt].key = op.key

\* AddItemV, per item in AddItem: a full work buffer is Def()-ed, an item in
\* order keeps a merged set merged.
ApplyAdd ==
  /\ op.phase = "apply" /\ op.name = "add" /\ RightKey
  /\ \E pend \in {"none", "adds", sets[op.pt].pend} :
       sets' = IF op.arg = {} THEN sets
                ELSE [sets EXCEPT ![op.pt] = With(@, @.items \cup op.arg, pend, TRUE)]
  /\ op' = At("cleanup", op.pt, NoSet)
  /\ UNCHANGED <<dict, dictDirty, blob, dictFile, access, todo, answer>>

\* The item set a delete leaves behind.  DelItemV adds delete markers;
\* DelItemsBelow calls Def(), which dirties what it merges, and removes at once.
AfterDel(s) ==
  CASE op.name = "del" /\ op.arg = {} -> s
    [] op.name = "del" /\ op.arg # {} -> With(s, s.items \ op.arg, "dels", TRUE)
    [] op.name = "below" ->
         With(s, s.items \ op.arg, "none",
              s.dirty \/ s.pend # "none" \/ s.items \cap op.arg # {})

\* TGix::DeleteItemSet.
DeleteItemSet(k) ==
  /\ sets' = [sets EXCEPT ![dict[k]] = NoSet]
  /\ Blobs!Del(dict[k])
  /\ Relink(k, NoPtr)

\* DelItemV, DelItemsBelow.
ApplyDel ==
  /\ op.phase = "apply" /\ op.name \in {"del", "below"} /\ RightKey
  /\ IF Empty(AfterDel(sets[op.pt])) THEN DeleteItemSet(op.key)
     ELSE /\ sets' = [sets EXCEPT ![op.pt] = AfterDel(@)]
          /\ UNCHANGED <<dict, dictDirty, blob>>
  /\ op' = Idle
  /\ UNCHANGED <<dictFile, access, todo, answer>>

\* Clr: an empty, merged, dirty item set stays behind.
ApplyClr ==
  /\ op.phase = "apply" /\ op.name = "clr" /\ RightKey
  /\ sets' = [sets EXCEPT ![op.pt] = With(@, {}, "none", TRUE)]
  /\ op' = Idle
  /\ UNCHANGED <<dict, dictDirty, blob, dictFile, access, todo, answer>>

\* GetItemV: Def(), then the items.
ApplyGet ==
  /\ op.phase = "apply" /\ op.name = "get" /\ RightKey
  /\ sets' = [sets EXCEPT ![op.pt] = With(@, @.items, "none", @.dirty \/ @.pend # "none")]
  /\ answer' = sets[op.pt].items
  /\ op' = Idle
  /\ UNCHANGED <<dict, dictDirty, blob, dictFile, access, todo>>

\* The RefreshMemUsed at the end of AddItemV is over.
Return ==
  /\ op.phase = "cleanup"
  /\ op' = Idle
  /\ UNCHANGED <<dict, dictDirty, sets, blob, dictFile, access, todo, answer>>

(***************************************************************************)
(* Flushing and dropping.                                                  *)
(***************************************************************************)
\* Mutant of Droppable: changes that are only in memory go as well.
DroppableDirty(p) == TRUE

\* DropFromCache (SetDiscardDirtyOnDrop left off) drops clean item sets only.
Droppable(p) == ~sets[p].dirty

DropFromCache(k) ==
  /\ op = Idle /\ access # "closed"
  /\ dict[k] \in Cached /\ Droppable(dict[k])
  /\ sets' = [sets EXCEPT ![dict[k]] = NoSet]
  /\ UNCHANGED <<dict, dictDirty, blob, dictFile, access, op, todo, answer>>

StoreAndDropFromCache(k) ==
  /\ op = Idle /\ access # "closed"
  /\ dict[k] \in Cached
  /\ OnDelFromCache(dict[k])
  /\ sets' = [sets EXCEPT ![dict[k]] = NoSet]
  /\ UNCHANGED <<dictFile, access, op, todo, answer>>

\* PartialFlush goes through the cache from its oldest entry as long as its time
\* slice lasts.
BeginPartialFlush ==
  /\ op = Idle /\ access # "closed"
  /\ op' = [phase |-> "partial"]
  /\ UNCHANGED <<dict, dictDirty, sets, blob, dictFile, access, todo, answer>>

\* The cache after StoreItemSet(p) returned q: Del or ChangeKey.
Rekeyed(p, q) ==
  IF q = NoPtr THEN [sets EXCEPT ![p] = NoSet]
  ELSE [sets EXCEPT ![p] = NoSet, ![q] = SetOf(BlobOf(sets[p]))]

PartialFlushOne(p) ==
  /\ op.phase = "partial"
  /\ p \in Cached /\ sets[p].dirty
  /\ Writable
  /\ \E q \in BlobPt \cup {NoPtr} : StoreItemSet(p, q) /\ sets' = Rekeyed(p, q)
  /\ UNCHANGED <<dictFile, access, op, todo, answer>>

PartialFlushEnd ==
  /\ op.phase = "partial"
  /\ op' = Idle
  /\ UNCHANGED <<dict, dictDirty, sets, blob, dictFile, access, todo, answer>>

\* Flush stores the dirty entries of the cache, which stay where they are, and
\* then clears it; ~TGix does the same, saves the dictionary and is gone.  That
\* the entries stored so far are clean now is left out: nothing looks at them.
BeginFlush(ph) ==
  /\ op = Idle /\ access # "closed"
  /\ ph \in {"flush", "closing"}
  /\ op' = [phase |-> ph]
  /\ todo' = IF ph = "flush" \/ Writable THEN Cached ELSE {}
  /\ UNCHANGED <<dict, dictDirty, sets, blob, dictFile, access, answer>>

FlushOne(p) ==
  /\ op.phase \in {"flush", "closing"}
  /\ p \in todo
  /\ OnDelFromCache(p)
  /\ todo' = todo \ {p}
  /\ UNCHANGED <<sets, dictFile, access, op, answer>>

FlushEnd ==
  /\ op.phase = "flush" /\ todo = {}
  /\ sets' = [p \in BlobPt |-> NoSet]
  /\ op' = Idle
  /\ UNCHANGED <<dict, dictDirty, blob, dictFile, access, todo, answer>>

Close ==
  /\ op.phase = "closing" /\ todo = {}
  /\ dictFile' = IF access = "create" \/ (access = "update" /\ dictDirty)
                 THEN dict ELSE dictFile
  /\ sets' = [p \in BlobPt |-> NoSet]
  /\ access' = "closed"
  /\ op' = Idle
  /\ UNCHANGED <<dict, dictDirty, blob, todo, answer>>

\* TGix::TGix(faUpdate), TGix::TGix(faRdOnly).
Open(a) ==
  /\ access = "closed"
  /\ access' = a
  /\ dict' = dictFile
  /\ dictDirty' = FALSE
  /\ UNCHANGED <<sets, blob, dictFile, op, todo, answer>>

\* TGix::TGix(faCreate).
GixInit ==
  /\ dict = [k \in Key |-> NoPtr]
  /\ dictDirty = FALSE
  /\ sets = [p \in BlobPt |-> NoSet]
  /\ blob = [p \in BlobPt |-> NoSet]
  /\ dictFile = [k \in Key |-> NoPtr]
  /\ access = "create"
  /\ op = Idle
  /\ todo = {}
  /\ answer = {}

GixNext ==
  \/ \E name \in Names, k \in Key, arg \in SUBSET ItemVal : Begin(name, k, arg)
  \/ \E p \in BlobPt : Purge(p) \/ PackLocal(p) \/ Enlist(p) \/ PartialFlushOne(p)
                       \/ FlushOne(p)
  \/ Resolve \/ Fetch \/ Insert \/ ApplyAdd \/ ApplyDel \/ ApplyClr \/ ApplyGet
  \/ Return
  \/ \E k \in Key : DropFromCache(k) \/ StoreAndDropFromCache(k)
  \/ BeginPartialFlush \/ PartialFlushEnd
  \/ \E ph \in {"flush", "closing"} : BeginFlush(ph)
  \/ FlushEnd \/ Close
  \/ \E a \in {"update", "rdonly"} : Open(a)

GixSpec == GixInit /\ [][GixNext]_gixVars

(***************************************************************************)
(* Properties.                                                             *)
(***************************************************************************)
\* The dictionary that counts: a closed index has only the file.
KeyPtr == IF access = "closed" THEN dictFile ELSE dict

\* A flush has no more use for the entries it has stored, which may by then
\* stand under pointers that have moved on.
InUse == IF op.phase \in {"flush", "closing"} THEN todo ELSE Cached

\* Every key has a blob of its own that holds an item set saved for that key, and
\* there is no other blob: no step leaks one, frees one twice or shares one
\* (StoreItemSet, DeleteItemSet, EnlistItemSet, and closing and opening, which
\* skip saving a dictionary they take to be unchanged).
OneBlobPerKey ==
  /\ \A k \in Key : KeyPtr[k] # NoPtr =>
       KeyPtr[k] \in Blobs!Stored /\ blob[KeyPtr[k]].key = k
  /\ \A p \in Blobs!Stored : KeyPtr[blob[p].key] = p

\* What is in the cache is the item set of the key that points there, and one
\* that is not dirty can be dropped: its blob says the same (Purge,
\* DropFromCache, PartialFlush with ChangeKey).
CacheCoherent ==
  \A p \in InUse :
    /\ dict[sets[p].key] = p
    /\ ~sets[p].dirty => sets[p].pend = "none" /\ blob[p] = BlobOf(sets[p])

\* The item set a call works on is that of its key, and a pointer it has looked
\* up still stands: the EAssertR "stale blob pointer" of GetItemSet, AddItemV,
\* DelItemV and DelItemsBelow never fails, nor is a freed blob read.
NoStalePointer ==
  /\ op.phase = "apply" => op.pt \in Cached /\ RightKey
  /\ op.phase \in {"fetch", "insert", "apply", "enlisted"} => dict[op.key] = op.pt
  /\ op.phase \in {"insert", "enlisted"} =>
       op.pt \notin Cached /\ op.set = SetOf(blob[op.pt])
  /\ op.phase = "enlist" => dict[op.key] = NoPtr

\* Cache and call together: what every call takes for granted of the entries it
\* meets and of what it holds on to.
CacheSound == GixTypeOK /\ CacheCoherent /\ NoStalePointer

\* The index is a map from keys to item sets.  A call has its effect once, on
\* the items of its key and no others, a read returns what all earlier calls have
\* left there; cleaning the cache, flushing, closing and opening change nothing.
ItemsOf(k) ==
  LET p == KeyPtr[k]
  IN IF p = NoPtr THEN {} ELSE IF p \in InUse THEN sets[p].items ELSE blob[p].items
Pending == op.phase \in {"refresh", "fetch", "insert", "apply", "enlist"}
Call == IF ~Pending THEN [name |-> "none"]
        ELSE [name |-> IF op.name = "below" THEN "del" ELSE op.name,
              key |-> op.key, arg |-> op.arg]
AsPostings == INSTANCE PostingIndex WITH
                Item <- ItemVal, index <- [k \in Key |-> ItemsOf(k)], call <- Call
ImplementsPostingIndex == AsPostings!Spec
=============================================================================
