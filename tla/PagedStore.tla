----------------------------- MODULE PagedStore -----------------------------
(***************************************************************************)
(* A record store on paged blob storage: TStorePbBlobT                     *)
(* (qminer/qminer_storage.cpp), its map from record ids to blob pointers,  *)
(* its primary-field map, and the memo that GetPgBf keeps of the record it *)
(* found last.  The memo holds while its version is PgBfWriteVersion, which *)
(* only grows: the flag "valid" says that the two are equal.               *)
(*                                                                         *)
(* The blob storage is what PgBlob promises (BlobStore): an update may     *)
(* leave the blob where it is or move it, and a pointer that was freed may *)
(* be handed out again.  One storage stands for the two, on disk and in    *)
(* memory, that a store may have: each has its own map and its own memo,   *)
(* and an operation that throws may have written one of them and not the   *)
(* other.  Joins and the index are as in RecordStore and are left out.     *)
(*                                                                         *)
(* Not every operation ends, and not every one asks whether a primary      *)
(* value is free: the variable "torn" keeps the names that lost the right *)
(* to lead to their records in this way.                                   *)
(***************************************************************************)
EXTENDS Naturals, FiniteSets

CONSTANTS
  Ptr, NoPtr,    \* blob pointers
  Name, Val,     \* values of the primary field, and of the rest of a record
  NoData,
  MayMove,       \* may an update that names the primary field move the record?
  MaxRecs        \* bound: record ids given out

Id == 0..MaxRecs - 1
Rec == [name : Name, val : Val]

VARIABLES
  blob,              \* BlobStore's state
  RecIdBlobPtH, PrimaryIdH, RecIdCounter, MetaDirtyP,
  saved,             \* the metadata in the file of the store
  memo,              \* LastPgBfRecId, LastPgBfPt, LastPgBfVersion
  torn               \* history: names taken from a record, or of one that an exception tore

meta == <<RecIdBlobPtH, PrimaryIdH, RecIdCounter, MetaDirtyP>>
vars == <<blob, meta, saved, memo, torn>>

DataBlob == INSTANCE BlobStore WITH Data <- Rec, store <- blob

Ids == DOMAIN RecIdBlobPtH
NoMemo == [valid |-> FALSE, rec |-> 0, pt |-> NoPtr]
Mapped(h, k, v) == [x \in DOMAIN h \cup {k} |-> IF x = k THEN v ELSE h[x]]
Without(h, ks) == [x \in DOMAIN h \ ks |-> h[x]]

Init ==
  /\ DataBlob!Init
  /\ RecIdBlobPtH = <<>> /\ PrimaryIdH = <<>> /\ RecIdCounter = 0
  /\ MetaDirtyP = TRUE /\ saved = [pts |-> <<>>, primary |-> <<>>, counter |-> 0]
  /\ memo = NoMemo /\ torn = {}

\* GetPgBf: where a read of the record looks, and the memo it leaves.
Found(m, r) == IF m.valid /\ m.rec = r THEN m.pt ELSE RecIdBlobPtH[r]
Primed(m, r) == [valid |-> TRUE, rec |-> r, pt |-> Found(m, r)]
\* PgBfWriteVersion++.
Bumped(m) == NoMemo

\* Reading a field.
GetField(r) == memo' = Primed(memo, r) /\ UNCHANGED <<blob, meta, saved, torn>>

\* AddRec of a record whose primary value leads nowhere: the id is taken first.
NewId ==
  /\ RecIdCounter \in Id
  /\ RecIdCounter' = RecIdCounter + 1
  /\ MetaDirtyP' = TRUE
  /\ memo' = Bumped(memo)
  /\ UNCHANGED saved
PutNew(rec) ==
  \E p \in Ptr : DataBlob!Put(p, rec) /\ RecIdBlobPtH' = Mapped(RecIdBlobPtH, RecIdCounter, p)

\* The record is serialized, and its primary value is taken from the JSON.
Create(rec) ==
  /\ rec.name \notin DOMAIN PrimaryIdH
  /\ NewId /\ PutNew(rec)
  /\ PrimaryIdH' = Mapped(PrimaryIdH, rec.name, RecIdCounter)
  /\ UNCHANGED torn

\* Its part for the other storage cannot be serialized, or the index throws: it has no primary value.
CreateHalf(rec) ==
  /\ rec.name \notin DOMAIN PrimaryIdH
  /\ NewId /\ PutNew(rec)
  /\ torn' = torn \cup {rec.name}
  /\ UNCHANGED PrimaryIdH

\* Its part for this storage cannot be serialized: the id is spent.
CreateNothing == NewId /\ UNCHANGED <<blob, RecIdBlobPtH, PrimaryIdH, torn>>

\* What reading the primary field through the memo may yield, once the record is at q: the bytes
\* under a pointer that is free are of anything.
NameRead(m, r, q, b) ==
  LET at == IF m.valid /\ m.rec = r THEN m.pt ELSE q
  IN IF b[at] = NoData THEN Name ELSE {b[at].name}

\* UpdateRec without the primary field; one that throws has changed nothing, or bytes in place.
UpdateRec(r, val) ==
  LET p == RecIdBlobPtH[r]
  IN /\ \E q \in Ptr : /\ DataBlob!Update(p, q, [blob[p] EXCEPT !.val = val])
                       /\ RecIdBlobPtH' = Mapped(RecIdBlobPtH, r, q)
     /\ memo' = Bumped(memo)
     /\ MetaDirtyP' = TRUE
     /\ UNCHANGED <<PrimaryIdH, RecIdCounter, saved, torn>>

\* UpdateRec with the primary field, also by AddRec of a record whose id or primary value is known:
\* the version grows first; DelPrimaryField reads the record, which primes the memo, and deletes the
\* entry of its name, whosever it is; the record may move.
Rewrite(r, rec) ==
  /\ \E q \in Ptr : /\ q = RecIdBlobPtH[r] \/ MayMove
                    /\ DataBlob!Update(RecIdBlobPtH[r], q, rec)
                    /\ RecIdBlobPtH' = Mapped(RecIdBlobPtH, r, q)
  /\ memo' = Primed(Bumped(memo), r)
  /\ MetaDirtyP' = TRUE
  /\ UNCHANGED <<RecIdCounter, saved>>
NameDeleted(r) == Without(PrimaryIdH, {blob[RecIdBlobPtH[r]].name})

\* SetPrimaryField reads the record again, and takes the name from any other record: only setters
\* ask whether it is free.
UpdateNamed(r, rec) ==
  /\ Rewrite(r, rec)
  /\ \E name \in NameRead(memo', r, RecIdBlobPtH'[r], blob') :
       PrimaryIdH' = Mapped(NameDeleted(r), name, r)
  /\ torn' = IF rec.name \in DOMAIN PrimaryIdH /\ PrimaryIdH[rec.name] # r
             THEN torn \cup {rec.name} ELSE torn

\* SerializeUpdate or the index throws before SetPrimaryField: the record is as it was, partly
\* rewritten, or rewritten in this storage only, and the entry of its name is gone.
UpdateTorn(r, rec) ==
  LET old == blob[RecIdBlobPtH[r]]
  IN \E to \in [name : {old.name, rec.name}, val : {old.val, rec.val}] :
       /\ Rewrite(r, to)
       /\ PrimaryIdH' = NameDeleted(r)
       /\ torn' = torn \cup {to.name}

\* Mutant of AfterPut: the version does not grow once more.
AfterPutKept(m) == m
\* PutRecData: the memo that IsFieldNull left of the record is dropped.
AfterPut(m) == Bumped(m)
\* What a setter does to the primary map: nothing, or, of the primary field, it asks whether the
\* new name is free, deletes the old one and sets the new one.
SetsValue(r, rec) == rec.name = blob[RecIdBlobPtH[r]].name /\ UNCHANGED <<PrimaryIdH, torn>>
SetsName(r, rec) ==
  /\ rec.val = blob[RecIdBlobPtH[r]].val
  /\ rec.name \in DOMAIN PrimaryIdH => PrimaryIdH[rec.name] = r
  /\ PrimaryIdH' = Mapped(NameDeleted(r), rec.name, r)
  /\ UNCHANGED torn

\* A setter of a field of variable length (SetFieldStr ...): GetRecData, IsFieldNull if the field
\* is indexed, PutRecData.
SetField(r, rec) ==
  /\ SetsValue(r, rec) \/ SetsName(r, rec)
  /\ \E q \in Ptr : /\ DataBlob!Update(RecIdBlobPtH[r], q, rec)
                    /\ RecIdBlobPtH' = Mapped(RecIdBlobPtH, r, q)
  /\ \E m \in {Bumped(memo), Primed(Bumped(memo), r)} : memo' = AfterPut(m)
  /\ MetaDirtyP' = TRUE
  /\ UNCHANGED <<RecIdCounter, saved>>

\* A setter of a field of fixed length (SetFieldInt ...) writes into the page.
SetFieldInPlace(r, rec) ==
  /\ \/ SetsValue(r, rec) /\ UNCHANGED MetaDirtyP
     \/ SetsName(r, rec) /\ MetaDirtyP' = TRUE
  /\ blob' = [blob EXCEPT ![RecIdBlobPtH[r]] = rec]
  /\ \E m \in {Bumped(memo), Primed(Bumped(memo), r)} : memo' = m
  /\ UNCHANGED <<RecIdBlobPtH, RecIdCounter, saved>>

\* DeleteRecs and BatchDeleteRecs of one record: the triggers and DelPrimaryField read it first.
DeleteRec(r) ==
  /\ DataBlob!Del(RecIdBlobPtH[r])
  /\ RecIdBlobPtH' = Without(RecIdBlobPtH, {r})
  /\ PrimaryIdH' = NameDeleted(r)
  /\ memo' = Bumped(Primed(Bumped(memo), r))
  /\ MetaDirtyP' = TRUE
  /\ UNCHANGED <<RecIdCounter, saved, torn>>

\* Closing and opening the store: the maps are written if they may have changed.
CloseAndOpen ==
  LET current == [pts |-> RecIdBlobPtH, primary |-> PrimaryIdH, counter |-> RecIdCounter]
  IN /\ saved' = IF MetaDirtyP THEN current ELSE saved
     /\ RecIdBlobPtH' = saved'.pts /\ PrimaryIdH' = saved'.primary /\ RecIdCounter' = saved'.counter
     /\ MetaDirtyP' = FALSE
     /\ memo' = NoMemo
     /\ UNCHANGED <<blob, torn>>

Next ==
  \/ \E rec \in Rec : Create(rec) \/ CreateHalf(rec)
  \/ CreateNothing
  \/ \E r \in Ids :
       \/ GetField(r) \/ DeleteRec(r)
       \/ \E val \in Val : UpdateRec(r, val)
       \/ \E rec \in Rec : \/ UpdateNamed(r, rec) \/ UpdateTorn(r, rec)
                          \/ SetField(r, rec) \/ SetFieldInPlace(r, rec)
  \/ CloseAndOpen

Spec == Init /\ [][Next]_vars

(***************************************************************************)
(* Properties.                                                             *)
(***************************************************************************)
\* "Any write bumps PgBfWriteVersion, which makes every memo entry stale" (GetPgBf): a memo that
\* holds leads to where the record is.
MemoIsFresh == memo.valid => memo.rec \in Ids /\ RecIdBlobPtH[memo.rec] = memo.pt

\* Every record is found, by its id, where its blob is, and every blob is of one record; a primary
\* value leads to a record that has it, and to every record that has it unless the value was torn:
\* through moves, reuse of pointers, deletions, exceptions, closing and opening.
RecordsAreReached ==
  /\ MemoIsFresh
  /\ {RecIdBlobPtH[r] : r \in Ids} = DataBlob!Stored
  /\ \A r, s \in Ids : RecIdBlobPtH[r] = RecIdBlobPtH[s] => r = s
  /\ \A name \in DOMAIN PrimaryIdH :
       PrimaryIdH[name] \in Ids /\ blob[RecIdBlobPtH[PrimaryIdH[name]]].name = name
  /\ \A r \in Ids :
       LET name == blob[RecIdBlobPtH[r]].name
       IN r < RecIdCounter /\ (name \in torn \/ (name \in DOMAIN PrimaryIdH /\ PrimaryIdH[name] = r))
=============================================================================
