------------------------------ MODULE RecordStore ------------------------------
(***************************************************************************)
(* A record store: TStoreImpl (qminer/qminer_storage.cpp), with the        *)
(* serializators, the record indexer and the map from primary field to     *)
(* record id that it keeps.                                                *)
(*                                                                         *)
(* A record is in two parts: the fields kept on disk are in DataCache, the *)
(* ones kept in memory in DataMem.  Each storage gives out ids by itself,  *)
(* counting up, and forgets records from the front.  The record indexer    *)
(* writes an item (key, value, record id) into the index for each key on a *)
(* field that is not null; the index adds up the frequencies of an item    *)
(* and drops it at zero.  The map of the primary field and the codebooks   *)
(* of the serializators are the metadata: they reach the disk when the     *)
(* store is closed, and only if it is marked dirty.                        *)
(*                                                                         *)
(* A JSON record is a function from some of the fields; Bad stands for a   *)
(* value of the wrong type.  Nested records (joins) are in module Joins.   *)
(***************************************************************************)
EXTENDS Integers, Sequences, FiniteSets, SequencesExt

CONSTANTS
  Disk, Memory,    \* the fields, by where they are stored
  PrimaryField,    \* a field, or None
  Nullable,        \* the fields that may be null ...
  Codebook,        \* ... and the ones stored as numbers of a table of strings
  Keys,            \* the keys of the index: a sequence of fields
  GixKeys,         \* the positions in Keys of those kept in the inverted index
  Value, Null, Bad, None,
  Json,            \* the JSON records given to the store
  Settable,        \* fields that are set one at a time
  MayTake,         \* may an update give a record the primary value of another?
  AnyBatch,        \* may a batch delete name any records, not only the first?
  WindowSize,      \* GarbageCollect keeps so many records
  MaxRecs          \* bound: ids given out by one storage

Field == Disk \cup Memory
Id == 0..MaxRecs - 1
Item == (DOMAIN Keys) \X Value \X Id

ASSUME StoreAssumption ==
  /\ Disk \cap Memory = {} /\ PrimaryField \in (Field \ Nullable) \cup {None}
  /\ Nullable \cup Codebook \cup Settable \subseteq Field /\ None \notin Field
  /\ Keys \in Seq(Field)
  /\ GixKeys \subseteq DOMAIN Keys /\ MaxRecs \in Nat
  /\ {Null, Bad, None} \cap Value = {} /\ Null # Bad
  /\ \A j \in Json : DOMAIN j \subseteq Field /\ \A f \in DOMAIN j : j[f] \in Value \cup {Null, Bad}

VARIABLES
  DataCache, DataMem,  \* [first |-> id of the first record, vals |-> the records' parts]
  PrimaryIdH,          \* from values of the primary field to record ids
  index,               \* the frequency of each item
  CodebookH,           \* the strings in the codebooks
  MetaDirtyP,
  saved                \* the metadata on disk

meta == <<PrimaryIdH, CodebookH, MetaDirtyP, saved>>
vars == <<DataCache, DataMem, index, meta>>

(***************************************************************************)
(* The two storages.                                                       *)
(***************************************************************************)
IdsOf(st) == st.first..st.first + Len(st.vals) - 1
NextId(st) == st.first + Len(st.vals)
GetVal(st, r) == st.vals[r - st.first + 1]
AddVal(st, part) == [first |-> st.first, vals |-> Append(st.vals, part)]
SetVal(st, r, part) == [first |-> st.first, vals |-> [st.vals EXCEPT ![r - st.first + 1] = part]]

Lesser(a, b) == IF a <= b THEN a ELSE b
\* Mutant of DelVals: an empty storage counts from the start again.
DelValsReset(st, n) ==
  LET m == Lesser(n, Len(st.vals))
  IN [first |-> IF m = Len(st.vals) THEN 0 ELSE st.first + m, vals |-> SubSeq(st.vals, m + 1, Len(st.vals))]
DelVals(st, n) ==
  LET m == Lesser(n, Len(st.vals))
  IN [first |-> st.first + m, vals |-> SubSeq(st.vals, m + 1, Len(st.vals))]

DataCacheP == Disk # {}
DataMemP == Memory # {}
\* The storage that says which records there are.
Main == IF DataMemP THEN DataMem ELSE DataCache
Ids == IdsOf(Main)
GetField(r, f) == IF f \in Disk THEN GetVal(DataCache, r)[f] ELSE GetVal(DataMem, r)[f]

(***************************************************************************)
(* Serialization.  A missing field becomes null if it may be (defaults are *)
(* taken to be filled in); anything else the schema does not allow throws. *)
(***************************************************************************)
Given(json, f) == IF f \in DOMAIN json THEN json[f] ELSE Null
Fits(json, f) == Given(json, f) \in Value \cup (IF f \in Nullable THEN {Null} ELSE {})
Serializes(json, fields) == \A f \in fields : Fits(json, f)
Serialize(json, fields) == [f \in fields |-> Given(json, f)]

Changes(json, fields) == DOMAIN json \cap fields # {}
Updates(json, fields) == \A f \in DOMAIN json \cap fields : Fits(json, f)
SerializeUpdate(old, json) == [f \in DOMAIN old |-> IF f \in DOMAIN json THEN json[f] ELSE old[f]]

\* The strings that serializing these fields enters into a codebook.
Coded(json, fields) == {json[f] : f \in fields \cap Codebook \cap DOMAIN json} \cap Value

(***************************************************************************)
(* The record indexer.  was and is give, for each key, the value under     *)
(* which the record was and is found, None for a key that is left alone.   *)
(***************************************************************************)
Less(n) == IF n > 0 THEN n - 1 ELSE 0
Indexed(idx, r, was, is) ==
  [item \in Item |->
     LET k == item[1]
         found(v) == item[3] = r /\ item[2] = v /\ was[k] # is[k]
         left == IF found(was[k]) THEN Less(idx[item]) ELSE idx[item]
     IN IF found(is[k]) THEN left + 1 ELSE left]

Nothing == [k \in DOMAIN Keys |-> None]
\* What part, or a JSON value of which these fields are used, gives to the keys.
KeysOf(part, fields) == [k \in DOMAIN Keys |-> IF Keys[k] \in fields THEN part[Keys[k]] ELSE None]
StoredAt(r, fields) == [k \in DOMAIN Keys |-> IF Keys[k] \in fields THEN GetField(r, Keys[k]) ELSE None]

IndexRec(idx, r, part) == Indexed(idx, r, Nothing, KeysOf(part, DOMAIN part))

\* Mutant of UpdateRecIndex: the old value stays.
UpdateRecIndexAdds(idx, r, json, fields) == Indexed(idx, r, Nothing, KeysOf(json, fields))
\* A JSON update of these fields: every key on them.
UpdateRecIndex(idx, r, json, fields) == Indexed(idx, r, StoredAt(r, fields), KeysOf(json, fields))

\* FieldIdToKeyN holds one key for a field, the last one.
FieldIdToKeyN(f) == {k \in DOMAIN Keys : Keys[k] = f /\ \A n \in k + 1..Len(Keys) : Keys[n] # f}
UpdateFieldIndex(idx, r, f, v) ==
  LET held(old) == [k \in DOMAIN Keys |-> IF k \in FieldIdToKeyN(f) THEN old ELSE None]
  IN Indexed(idx, r, held(GetField(r, f)), held(v))

\* Deindexing whole records, from these keys.
Deindexed(idx, gone, keys) ==
  [item \in Item |->
     IF item[1] \in keys /\ item[3] \in gone /\ GetField(item[3], Keys[item[1]]) = item[2]
     THEN Less(idx[item]) ELSE idx[item]]

(***************************************************************************)
(* The map of the primary field.                                           *)
(***************************************************************************)
IsPrimaryField == PrimaryField # None
Unmapped(map, values) == [v \in DOMAIN map \ values |-> map[v]]
Mapped(map, v, r) == [w \in DOMAIN map \cup {v} |-> IF w = v THEN r ELSE map[w]]

\* DelPrimaryField of these records: whatever record their values lead to.
DelPrimaryFields(gone) ==
  IF IsPrimaryField THEN Unmapped(PrimaryIdH, {GetField(r, PrimaryField) : r \in gone}) ELSE PrimaryIdH

(***************************************************************************)
(* Adding and updating.                                                    *)
(***************************************************************************)
Init ==
  /\ DataCache = [first |-> 0, vals |-> <<>>] /\ DataMem = [first |-> 0, vals |-> <<>>]
  /\ PrimaryIdH = <<>>
  /\ index = [item \in Item |-> 0]
  /\ CodebookH = {}
  /\ MetaDirtyP = TRUE
  /\ saved = [primary |-> <<>>, codebook |-> {}]

\* The record that a JSON record names by its primary field.
Names(json, r) ==
  /\ IsPrimaryField /\ PrimaryField \in DOMAIN json
  /\ json[PrimaryField] \in DOMAIN PrimaryIdH /\ PrimaryIdH[json[PrimaryField]] = r

\* UpdateRec: the old primary value is unmapped first; the disk part is written and indexed,
\* then the memory part; a value that does not fit ends it there with an exception.
UpdateRec(r, json) ==
  LET reachesMem == Changes(json, Disk) => Updates(json, Disk)
      diskFields == IF Updates(json, Disk) THEN DOMAIN json \cap Disk ELSE {}
      memFields == IF reachesMem /\ Updates(json, Memory) THEN DOMAIN json \cap Memory ELSE {}
      done == reachesMem /\ Updates(json, Memory)
      rest == IF PrimaryField \in DOMAIN json THEN DelPrimaryFields({r}) ELSE PrimaryIdH
  IN /\ DataCache' = IF diskFields = {} THEN DataCache
                     ELSE SetVal(DataCache, r, SerializeUpdate(GetVal(DataCache, r), json))
     /\ DataMem' = IF memFields = {} THEN DataMem
                   ELSE SetVal(DataMem, r, SerializeUpdate(GetVal(DataMem, r), json))
     /\ index' = UpdateRecIndex(index, r, json, diskFields \cup memFields)
     /\ PrimaryIdH' = IF PrimaryField \notin DOMAIN json \/ ~done THEN rest
                      ELSE Mapped(rest, json[PrimaryField], r)
     /\ CodebookH' = CodebookH \cup Coded(json, diskFields \cup memFields)
     /\ MetaDirtyP' = TRUE
     /\ UNCHANGED saved

\* The store as AddRec leaves it when it creates a record.  The disk part is stored and indexed
\* before the memory part is serialized; the ids the two storages gave are compared at the end.
Create(json) ==
  LET disk == Serialize(json, Disk)
      memory == Serialize(json, Memory)
      diskOk == Serializes(json, Disk)
      memOk == diskOk /\ Serializes(json, Memory)
      cacheId == NextId(DataCache)
      memId == NextId(DataMem)
      withDisk == IF DataCacheP /\ diskOk THEN IndexRec(index, cacheId, disk) ELSE index
      sameIds == DataCacheP /\ DataMemP => cacheId = memId
  IN /\ DataCache' = IF DataCacheP /\ diskOk THEN AddVal(DataCache, disk) ELSE DataCache
     /\ DataMem' = IF DataMemP /\ memOk THEN AddVal(DataMem, memory) ELSE DataMem
     /\ index' = IF DataMemP /\ memOk THEN IndexRec(withDisk, memId, memory) ELSE withDisk
     /\ PrimaryIdH' = IF IsPrimaryField /\ memOk /\ sameIds
                      THEN Mapped(PrimaryIdH, json[PrimaryField], NextId(Main)) ELSE PrimaryIdH
     /\ CodebookH' = CodebookH \cup Coded(json, IF diskOk THEN Field ELSE Disk)
     /\ MetaDirtyP' = TRUE
     /\ UNCHANGED saved

\* AddRec: a record that is there already, by its primary field, is updated instead if more than
\* its name is given.  A primary field that is missing or wrong ends it at once.
AddRec(json) ==
  IF \E r \in Id : Names(json, r)
  THEN /\ Cardinality(DOMAIN json) > 1
       /\ \E r \in Id : Names(json, r) /\ UpdateRec(r, json)
  ELSE /\ IsPrimaryField => Given(json, PrimaryField) \in Value
       /\ NextId(DataCache) \in Id /\ NextId(DataMem) \in Id
       /\ Create(json)

TakenByOther(r, v) == v \in DOMAIN PrimaryIdH /\ PrimaryIdH[v] # r

\* Mutant of DirtiesMeta: only the map of the primary field is thought of.
DirtiesWithName(f) == f = PrimaryField
\* Which single fields make the metadata dirty when they are set: all, as any may add to a codebook.
DirtiesMeta(f) == f \in Field

\* SetFieldStr, SetFieldInt ... and SetFieldNull: one field of one record.
SetField(r, f, v) ==
  /\ f = PrimaryField => ~TakenByOther(r, v)
  /\ IF f \in Disk
     THEN /\ DataCache' = SetVal(DataCache, r, [GetVal(DataCache, r) EXCEPT ![f] = v]) /\ UNCHANGED DataMem
     ELSE /\ DataMem' = SetVal(DataMem, r, [GetVal(DataMem, r) EXCEPT ![f] = v]) /\ UNCHANGED DataCache
  /\ index' = UpdateFieldIndex(index, r, f, v)
  /\ CodebookH' = CodebookH \cup ({v} \cap Value \cap {w \in Value : f \in Codebook})
  /\ PrimaryIdH' = IF f = PrimaryField THEN Mapped(DelPrimaryFields({r}), v, r) ELSE PrimaryIdH
  /\ MetaDirtyP' = (MetaDirtyP \/ DirtiesMeta(f))
  /\ UNCHANGED saved

(***************************************************************************)
(* Deleting.                                                               *)
(***************************************************************************)
FirstIds(n) == Main.first..Main.first + n - 1

\* Mutant of Drop: the part in memory stays.
DropDisk(n) ==
  /\ DataCache' = IF DataCacheP THEN DelVals(DataCache, n) ELSE DataCache
  /\ UNCHANGED DataMem
\* The storages forget their first n records.
Drop(n) ==
  /\ DataCache' = IF DataCacheP THEN DelVals(DataCache, n) ELSE DataCache
  /\ DataMem' = IF DataMemP THEN DelVals(DataMem, n) ELSE DataMem

\* DeleteRecs of the first n records; it may stop at its time limit, after m of them.
DeleteRecs(n, m) ==
  LET gone == FirstIds(m)
  IN /\ m <= n /\ n <= Cardinality(Ids) /\ m > 0
     /\ PrimaryIdH' = DelPrimaryFields(gone)
     /\ index' = Deindexed(index, gone, DOMAIN Keys)
     /\ Drop(m)
     /\ MetaDirtyP' = (MetaDirtyP \/ IsPrimaryField)
     /\ UNCHANGED <<CodebookH, saved>>

DeleteFirstRecs(n) == DeleteRecs(Lesser(n, Cardinality(Ids)), Lesser(n, Cardinality(Ids)))

\* GarbageCollect with a window of a number of records.
GarbageCollect ==
  /\ Cardinality(Ids) > WindowSize
  /\ \E m \in 1..Cardinality(Ids) : DeleteRecs(Cardinality(Ids) - WindowSize, m)

\* DeleteAllRecs.
DeleteAllRecs ==
  /\ Ids # {}
  /\ index' = Deindexed(index, Ids, DOMAIN Keys)
  /\ PrimaryIdH' = <<>>
  /\ DataCache' = DelVals(DataCache, Len(DataCache.vals))
  /\ DataMem' = DelVals(DataMem, Len(DataMem.vals))
  /\ MetaDirtyP' = TRUE
  /\ UNCHANGED <<CodebookH, saved>>

\* What BatchDeleteFromGix leaves of the index: no item of the records named; lists that lie
\* wholly below the smallest record kept may go as well.
Purged(idx, named, mayDropBelow) ==
  LET kept == Ids \ named
      below(r) == \A k \in kept : r < k
  IN [item \in Item |-> IF item[1] \in GixKeys /\ (item[3] \in named \/ (mayDropBelow /\ below(item[3])))
                        THEN 0 ELSE idx[item]]

\* BatchDeleteRecs: ids of records that are gone already are passed over.
BatchDeleteRecs(named) ==
  LET gone == named \cap Ids
  IN /\ named # {}
     /\ \E mayDropBelow \in BOOLEAN :
          index' = Deindexed(Purged(index, named, mayDropBelow), gone, DOMAIN Keys \ GixKeys)
     /\ PrimaryIdH' = DelPrimaryFields(gone)
     /\ Drop(Cardinality(gone))
     /\ MetaDirtyP' = (MetaDirtyP \/ (gone # {} /\ IsPrimaryField))
     /\ UNCHANGED <<CodebookH, saved>>

(***************************************************************************)
(* Closing the store and opening it again.  The two storages and the index *)
(* save themselves.                                                        *)
(***************************************************************************)
CloseAndOpen ==
  LET current == [primary |-> PrimaryIdH, codebook |-> CodebookH]
  IN /\ saved' = IF MetaDirtyP THEN current ELSE saved
     /\ PrimaryIdH' = saved'.primary
     /\ CodebookH' = saved'.codebook
     /\ MetaDirtyP' = FALSE
     /\ UNCHANGED <<DataCache, DataMem, index>>

Next ==
  \/ \E json \in Json :
       \/ AddRec(json)
       \/ \E r \in Ids : /\ DOMAIN json # {}
                         /\ PrimaryField \in DOMAIN json /\ ~MayTake => ~TakenByOther(r, json[PrimaryField])
                         /\ UpdateRec(r, json)
  \/ \E r \in Ids, f \in Settable, v \in Value \cup {Null} :
       (v = Null => f \in Nullable) /\ SetField(r, f, v)
  \/ \E n \in 1..MaxRecs : Ids # {} /\ DeleteFirstRecs(n)
  \/ GarbageCollect
  \/ DeleteAllRecs
  \/ \E named \in SUBSET Id : /\ AnyBatch \/ \E n \in 0..Cardinality(Ids) : named \cap Ids = FirstIds(n)
                              /\ \A r \in named : r < NextId(Main)
                              /\ BatchDeleteRecs(named)
  \/ CloseAndOpen

Spec == Init /\ [][Next]_vars

(***************************************************************************)
(* Properties.                                                             *)
(***************************************************************************)
\* A use of the store under which its parts stay in step: nothing that is added or updated fails
\* to serialize, an update takes no other record's name, batches are of the first records, and a
\* field that is set has one key (README, departures).
Careful ==
  /\ ~MayTake /\ ~AnyBatch
  /\ \A json \in Json :
       /\ Updates(json, Field)
       /\ (IsPrimaryField => PrimaryField \in DOMAIN json) => Serializes(json, Field)
  /\ \A k, n \in DOMAIN Keys : Keys[k] = Keys[n] /\ Keys[k] \in Settable => k = n

\* The shape of the state.
TypeOK ==
  /\ \A st \in {DataCache, DataMem} : IdsOf(st) \subseteq Id
  /\ \A part \in Range(DataCache.vals) : part \in [Disk -> Value \cup {Null}]
  /\ \A part \in Range(DataMem.vals) : part \in [Memory -> Value \cup {Null}]
  /\ DOMAIN PrimaryIdH \subseteq Value /\ Range(PrimaryIdH) \subseteq Id
  /\ index \in [Item -> Nat] /\ CodebookH \subseteq Value /\ MetaDirtyP \in BOOLEAN

\* The two parts of a record have the same id (TStoreImpl::AddRec, "make sure we are consistent
\* with respect to Ids!").
IdsAligned == DataCacheP /\ DataMemP => DataCache.first = DataMem.first /\ Len(DataCache.vals) = Len(DataMem.vals)

\* The index finds a record under the values its fields have, once, and nothing else: through
\* adding, updating, setting and every way of deleting.
IndexExact ==
  \A item \in Item :
    index[item] = IF item[3] \in Ids /\ GetField(item[3], Keys[item[1]]) = item[2] THEN 1 ELSE 0

\* The primary field is a key: its values lead to the records that have them, also after the
\* store was closed and opened.
PrimaryExact ==
  IsPrimaryField =>
    /\ DOMAIN PrimaryIdH = {GetField(r, PrimaryField) : r \in Ids}
    /\ \A r \in Ids : PrimaryIdH[GetField(r, PrimaryField)] = r

\* Every string that a record holds by its number is in the codebook.
CodebookComplete ==
  \A r \in Ids, f \in Codebook : GetField(r, f) \in CodebookH \cup {Null}

\* A record keeps its id and its values until an operation names it: a step changes the values of
\* one record at most, and ids are never given out again.
RecordsStay ==
  [][/\ NextId(Main)' >= NextId(Main) /\ Main.first' >= Main.first
     /\ \A r, s \in Ids : /\ r \in Ids' /\ (\E f \in Field : GetField(r, f)' # GetField(r, f))
                          /\ s \in Ids' /\ (\E f \in Field : GetField(s, f)' # GetField(s, f))
                          => r = s]_vars

\* The store uses its two storages by their operations, one on each in a step: what it relies on is
\* the promise of ValueStore, which WndBlockCache and InMemStorage keep.
DiskStorage == INSTANCE ValueStore WITH
  Value <- [Disk -> Value \cup {Null}], first <- DataCache.first, vals <- DataCache.vals
MemStorage == INSTANCE ValueStore WITH
  Value <- [Memory -> Value \cup {Null}], first <- DataMem.first, vals <- DataMem.vals
UsesStorages == DiskStorage!Spec /\ MemStorage!Spec

\* The two storages hold the two parts of the same records.
PartsAligned == TypeOK /\ IdsAligned

\* What the store keeps beside the records, in memory and in its metadata file, is about them.
MetaExact == PrimaryExact /\ CodebookComplete

\* No operation touches a record it does not name, in either storage.
KeepsRecords == RecordsStay /\ UsesStorages
================================================================================
