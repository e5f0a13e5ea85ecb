# Verification of QMiner

QMiner is a data analytics platform: record stores with an inverted index, joins,
queries, stream aggregates, work on threads, and bindings for Node.js. This directory
holds TLA+ specifications of the parts that keep state: the storage engine of the
index, the storages of records, record stores and joins, the time windows and the
series made of them, and the passing of work between threads. The modules are checked
with TLC on small instances, and the properties that matter most are proved with TLAPS
for all of them.

Paths below are relative to `src/src/`. `PROJECT.json` lists the runs, names for
every definition the lines it models, and lists the hazards the properties are for.

## 1. The system

| component | source | state | operations | how it interacts |
|---|---|---|---|---|
| blob base | `glib/base/blobbs.*` | segment files of blocks; in memory the heads of the free lists, file lengths, segment hints; a main file that counts segments | put, put at a pointer (in place or relocated), get, delete, open, close, restore | called by the index and the record stores; pointers it returns are kept in their files |
| item set | `glib/base/gix.hpp`, `TGixItemSet` | work buffer, delete markers, child vectors with length and bounds, flags, total count | add, delete, delete below, clear, `Def`, `DefLocal`, read, read a range, save, load | children are blobs; item handler decides how items merge |
| index | `gix.hpp`, `TGix` | key dictionary, cache of item sets, blob base, statistics | add, delete, read, clear by key; flush, partial flush, drop, copy, open, close | calls item sets, cache and blob base; the cache calls it back to store what it evicts |
| item-set cache | `glib/base/hash.h`, `TCache` | hash from pointer to item set, LRU list, memory count | put, get, purge, delete, change key, flush | calls `OnDelFromCache` of what leaves it |
| key dictionary | `gix.h`, `TGixKeyDict` | hash, or sorted arrays with tombstones and an overlay hash | add, delete, look up, scan by key id, convert, load, save | the index keeps a pointer per key; sweeps keep key ids |
| expressions | `gix.hpp`, `TGixExpItem` | none | AND, OR, NOT of posting lists | reads the index |
| block cache | `glib/base/cache.h`, `TWndBlockCache` | blocks of values by number, which of them are in memory and changed, their blobs | add and set a value, delete from the front, close, open | holds the fields a store keeps on disk |
| memory storage | `qminer_storage.*`, `TInMemStorage` | all values, a flag for each, the blobs of their blocks | the same, and opening lazily | holds the fields a store keeps in memory |
| page blob | `glib/base/pgblob.*` | pages with a table of items, page cache, free-space map as a tree of maxima | put, get, delete, update, partial flush, open, close | record stores on pages |
| record storage | `qminer/qminer_storage.*` | records in memory, on blobs or on pages; primary map, codebooks, memo | add, update, delete records in four ways; set fields; open and close | calls the index through `TRecIndexer` |
| base, stores, joins | `qminer/qminer_core.*` | stores, triggers, join fields and lists, record sets | add, update and delete records, join, delete joins, query, garbage-collect | a join changes the stores and the index on both sides; triggers call the stream aggregates |
| vocabulary, geo and B-tree index | `qminer/qminer_core.*` | words, locations, values | index, delete, search | `TIndex` |
| stream aggregates | `qminer/qminer_aggr.*`, `glib/mine/signalproc.*` | time windows over a store or in memory, signals over them, interpolators, merged and resampled series, models | on add, on time, on step, reset, save | triggered by stores and by each other; windows read their records from the store |
| queue | `glib/base/ds.h`, `TQQueue` | a vector used as a ring | push, pop, grow | windows in memory, the aggregating resampler |
| threads | `glib/concurrent/*` | queue of runnables, lock and condition variable; one queue of jobs per thread | execute, wait, destroy; a parallel loop | analytics |
| crossing to JavaScript | `nodejs/nodeutil.*` | handles with a task for the main thread, libuv's signal, semaphores | run on a worker, run on the main thread and wait or not, delete a handle | the asynchronous functions of the bindings |
| server, bindings, analytics | `qminer_srv.*`, `nodejs/*`, `qminer_ftr.*`, `glib/mine` | connections, wrapped objects, models | requests, calls from JavaScript, numerical methods | call the base |

Vendored code (`src/third_party`, `src/snap_ext`), generated pages (`nodedoc`),
examples and assets are left aside.

### What is hard about it

The base is called by one thread at a time. Its hard behaviours are not races but
*call-backs and caches inside one call*, *one fact kept in two places*, and long
sequences of legal calls:

* A call on a key may clean the cache. Cleaning stores item sets; storing one may
  move its blob, free it, or remove its key. Any pointer looked up before is then
  stale. Correct: an index is a map from keys to sets whatever the cache does.
* Items are added, deleted and re-added in a buffer that is packed at moments the
  caller does not see. A partial delete is an *addition of a negative frequency*
  that waits for its partner. Correct: no item is lost, counted twice or revived, and
  no ghost is seen by a reader.
* Children of a posting list carry bounds and lengths that deletes leave stale.
  Correct: sorted, disjoint, within bounds, of tolerated length; one blob per child.
* Blocks are reused through lists whose heads reach the file only at close. Correct:
  blocks never overlap; a freed block is found again; a crash costs free space, and of the
  contents at most the blob that was put last at the end of a file.
* The dictionary is skipped at close when believed unchanged, keeps tombstones and an
  overlay, and hands out positional ids. Correct: one entry per key, ids stable under
  the deletions of the sweep that collected them.
* A record is in two storages which count ids by themselves, its values are also in
  the index, in the primary map and in codebooks; all change in one call, of which any
  step may fail. Correct: ids agree, the index finds a record under its values only.
* A block of values is read, changed and written as a whole, and dropped from memory
  when there is no room. Correct: what is dropped is on disk, what was not loaded is
  not overwritten.
* Pages compact themselves, items move between pages, and the map that finds free
  space must follow every change. Correct: no byte of another blob is touched.
* A join is a field on one side and a list on the other. Correct: both tell the same.
* A window learns of records by ids and reads them later, from a store that forgets.
  A merger holds a record back until it knows all its values, while points of several
  signals come in. Correct: no record is missing or twice, no value is a guess.

Two parts do run on several threads: the pools of `glib/concurrent`, and the handles
through which workers pass tasks to Node's main thread. There the order of locking,
signalling and deleting is what matters, and that work which was passed in is done.

## 2. Modules

```
PostingIndex  <- Gix  ............ uses BlobStore for its blobs; GixProofs
PostingList   <- GixItemSet ...... GixItemSetProofs
KeyMap        <- GixKeyDict ...... extends KeyHash; GixProofs
BlobStore     <- BlobBs  ......... GixProofs
BlobStore     <- PgBlob  ......... PagesProofs
ValueStore    <- WndBlockCache, InMemStorage  .... StorageProofs
                 RecordStore ..... uses two ValueStores; RecordStoreProofs
                 PagedStore ...... uses BlobStore; PagesProofs
Links         <- Joins  .......... JoinsProofs
SlidingWindow <- WinBuf, WinBufMem  .... extend WinSignals; WinBufMem uses RingQueue;
                                           RecordStoreProofs
                 Merger, Resampler  .... extend Interpolators
                 AggrResampler  ........ uses RingQueue
                 ThreadExecutor  ....... ThreadExecutorProofs
                 JobPool  .............. ThreadExecutorProofs
                 NodeAsync  ............ ThreadExecutorProofs
```

`A <- B`: A is the abstract specification that B is shown to implement. The `MC...`
modules give constants their values for TLC; `NodeAsync` is run as it is. Several of them compose: they choose in
the initial state which of a few independent components, or which instance of one, the
behaviour is of, and state the properties of each under one name. Where such a property
puts several instances together, the theorem about it is one of the composition: of
`MCPgBlob` in `PagesProofs`, of `MCRecordStore` in `RecordStoreProofs`, of `MCGixItemSet` and
`MCJoins` in `RunProofs`. The proofs of the storages, the joins and the item sets are
instantiated there, once for each instance, so that their lemmas speak of it.
Components whose proofs share a module have names of their own for what every
specification has (`GixInit`, `DictNext`, `JoinsSpec`, `AsyncSpec`). Each detailed module
contains, next to an operator, the mutated form that a property is tested with
(operators whose comment begins with "Mutant of"); nothing else refers to them.

### BlobStore, BlobBs: the blob base

`BlobStore` is a partial map from pointers to contents. A put gets a pointer that is
not in use, an update keeps its pointer or moves, a delete clears.

`BlobBs` is `TMBlobBs` over `TGBlobBs`. `blk` is what is in the segment files: per
address a block with its state, class, link to the next free block and content; `hdr`
the headers of the files; `main` the main file. `flen`, `free` and `hint` are the
members `CachedFLen`, `FFreeBlobPtV` and `BlockSizeToSegH`. Actions are the public
operations: `PutBlob`; `GetBlob`; `PutBlob` at a pointer as `UpdateInPlace`, `UpdateMoves` and
`UpdateThrows` (the assertion on a reused block fails after the old one was freed);
`DelBlob`; the destructors `CloseMain` and `CloseSeg` one file at a time; `Crash`;
`OpenUpdate` and `OpenRestore`.

A crash is the death of the process between two operations; what was in memory is gone. The
files are written through `fwrite` (`TFRnd::PutBf`, `fl.cpp:1211`), and no operation flushes
them: the comment at `blobbs.cpp:422` says that a put leaves its bytes in the buffer. What
bounds the loss is that every move of the file position (`SetFPos`, `MoveFPos`, the change
between reading and writing) is an `fseek`, which writes the buffer out, and that `ftell` is
none. Only a put that appends a block ends with bytes that nothing moves past: it skips the
space behind the data, and then writes the checksum and the end tag. The reuse of a block and a
delete end by reading the end tag; an update in place leaves a checksum and an end tag equal
to the one that is there; the constructor of a segment and the destructors flush. So `tail`
is, per segment, the block appended last while nothing has moved the file since, and `Crash(L)`
cuts the tails of any set L of segments: the block is no longer whole, and its file ends behind
its data (`CutLen`). `TGBlobBs` takes `CachedFLen` from that length when it opens the file
(`blobbs.cpp:330`), so what is appended next runs into the extent of the block that was cut, and
of no other. `NoOverlap` therefore speaks of whole blocks, and `LosesTheLast` says what the map
loses: of each file at most the blob at its end.

Assumed of what is outside: the system keeps what was handed to it (death of a process, not
loss of power), and nobody uses a blob again that was cut. Its pointer was given after the
base was last opened, and the owners in this repository save the pointers they hold when they
close. An update or a delete of such a blob would write over what was appended since.
Segments are destroyed in any
order, which includes the order of the vector. Sizes are bytes of a small world:
`BlockLenV` is any strictly ascending vector of classes.

### PostingIndex, Gix: the index and its cache

`PostingIndex` is a map from keys to sets of items, and the call in progress, which
has its effect in one step.

`Gix` splits a call into the steps between which the cache may be cleaned. `op` holds
the phase of the call and its local variables (key, argument, looked-up pointer,
loaded item set). Phases in which `Purge` is enabled are exactly the places where the
code calls `RefreshMemUsed` or `TCache::Put`; which entry goes is left open, so every
LRU order and every size is covered. `PackLocal` is the `DefLocal` pass of
`RefreshMemUsed`. An item set is abstracted to its items, a dirty flag, and `pend`:
merged, additions pending, or delete markers pending; this is what decides whether
`Empty()` holds and whether a clean set can be dropped. `PartialFlush` and `Flush` are
loops with one step per entry. `Close` saves the dictionary under the condition of the
destructor, `Open` loads it. During a flush, entries already stored are not looked at
again, so that their dirty flag is reset is not modelled. `GetItemV` with a handler is
`GetItemV`.

### PostingList, GixItemSet: one posting list

`PostingList` is a map from ids to frequencies with the call that made each step.

`GixItemSet` has the member functions of `TGixItemSet` as operators on a record with
the members' names, in the order in which `Def` calls them: `ProcessDeletes`, local
`Merge`, `InjectWorkBufferToChildren`, `ScrubTail`, `Repair` (split, coalesce, or the
global merge that serves as a safety net), `PushWorkBufferToChildren`,
`DropEmptyFront`, `RecalcTotalCnt`. Each public function is one action and ends, as in
the code, with the whole packing it triggers. A child is its bounds, length, flags,
its vector in memory (`NoVec` if not loaded) and its blob (`Disk`). `Blobs` counts the
child vectors in the blob base, to find leaks and double frees. Both item handlers
are modelled: the default one and `TQmGixSumItemHandler`.

`Frequency` says what an item's frequency is once everything pending is done, from
what is in the buffer and in the children; `ReadsExact` says that `Def` computes it.

The loops of the code are functions of sets and positions: `Ascending` the ids of a set in
order, `PickedFrom` the places of a vector that a condition keeps, `Merge` the ids of a
vector with their totals. What is a loop with a state, the sum of frequencies, the chain of
vectors and the joining of short children, is a recursive function of the position.

### KeyMap, KeyHash, GixKeyDict: the key dictionary

`KeyMap` is a partial map from keys to pointers. `KeyHash` is `THash` as a vector of
entries with a free list (the buckets are left out: they only find a position).
`GixKeyDict` is `TGixKeyDict` in both representations; `AddDat` and `DelKey` are the
disjunction of the branches of the code. `ConvertTo` also stands for
`SaveFileAsType` followed by a load, which writes the same content. Key ids count from
1, so that 0 can stand for "before the first". `Sorted` is the order in which `THash::Sort`
and `TVec::Sort` put a vector; as keys occur once there is only one.

### ValueStore, WndBlockCache, InMemStorage: values by id

`ValueStore` promises what a store relies on: ids count up, a value stays under its id
until it is overwritten, values go from the front, closing and opening change nothing.

`WndBlockCache` is `TWndBlockCache` with the `TCache` of its blocks as it is used there:
`cache`, `order` and `cur` are the cache's entries, LRU list and `CurMemUsed`. A value
is the memory it takes, so that the accounting is modelled by what it does. Each public
function is one action with the purge it triggers. `InMemStorage` is `TInMemStorage`
with its three vectors of values, flags and block pointers, and positions counted from
0 as in the code. Lazy opening reads the values of a block when the first is asked for.

### RecordStore, PagedStore: record stores

`RecordStore` is `TStoreImpl`: `DataCache` and `DataMem` hold the two parts of the
records, `PrimaryIdH` is the primary map, `CodebookH` the codebook, `index` what the
record indexer wrote, `saved` the metadata file. A call is one action with everything it
does, or everything it did before it threw: `Bad` is a value of the wrong type, a
missing field that may not be null fails in the serializator. `AddRec` of an existing
primary value updates. The ways of deleting are
`DeleteFirstRecs`, `DeleteAllRecs`, `BatchDeleteRecs` and `GarbageCollect`, which may stop
at its time limit.

`MetaDirtyP` is set by every operation that changes a record: the setters do it in `PutRecMem`
whatever the field (`DirtiesMeta`).

`PagedStore` is `TStorePbBlobT` with its map from ids to pointers, the primary map and
the memo of the last record found. Whether an update moves the blob is left open, which
`MayMove` restricts for updates that name the primary field (finding 1). One storage stands for
the two, on disk and in memory, that a store may have. Each call has the outcomes it has in that
storage: `Create`, `CreateHalf` (the record is written, and the part for the other storage or
the index throws before the primary value is set), `CreateNothing` (this storage's part does not
serialize, and the id is spent); `UpdateNamed`, which deletes the entry of the old name,
whosever it is, and sets the new one without asking whether it is another record's, as only
setters do; `UpdateTorn` (the serialization or the index throws after the old entry was deleted,
and the record is as it was, rewritten, or a mixture). The history `torn` has the names that were
taken from a record by an update and those of records that an exception left without an entry.
`RecordsAreReached` asks that the primary map leads to every record whose name is not torn,
that every entry of it, torn or not, leads to a record that has the name, and that records and
blobs are one to one.

### BlobStore, PgBlob: pages

`PgBlob` is `TPgBlob` with `TPgBlobFsm`. A page is its table of items, the end of its
free space and its bytes; each byte tells which blob it belongs to. `lru` is the list of
the page cache, `layers` the tree of maxima, `main` the file it is saved in. The history
`blobs` has what each pointer was given; `PagesSound` says that this is what the bytes
say, and with that the storage implements `BlobStore`.

### Links, Joins: a join and its inverse

`Links` is one relation between the records of two stores, in which a side that is a
field allows for one link per record. `Joins` keeps it twice, as a list with
frequencies or as a field with or without a frequency field. `AddJoin`, `DeleteJoinOf`
and `DelJoins` are what `qminer_core.cpp` does for each of the pairs of forms, `AddRec`
a record added with nested records that are new, are there already, or are refused,
`DeleteAllRecs` and `DeleteRecs` the deletion of records with their joins. A search of a list, `DoJoin`, drops what is not positive.
`Fqs`, `DelFqs`, `Again` and `Unjoined` say how the joins are used; `Careful` says which uses
keep the two sides the same.

A nested record that is refused has the id `TUInt64::Mx` (`qminer_storage.cpp:3562`), which
`AddJoinRec` joins without asking (`qminer_core.cpp:563`). `Mx` is this id. A field that holds
it reads as null and is modelled as null; a list returns it, and `lost` has the records whose
list does. `NoDangling` asks of every other id that its record exists, and that no list is left,
not even of `Mx`, of a record that was deleted. The
list or field of `Mx` itself belongs to no record and is left out: it is seen only by following
a join from a result that holds `Mx`. Where the inverse is a field, asking whether that of `Mx`
is null throws and ends the call, with the joins before it made; in builds without assertions
it reads past the end of a vector, which is not modelled. The frequency of an item `Mx` is not
kept. Nested records of nested records are further steps, and a serialization of the record
itself that throws is a call with fewer nested records.

### SlidingWindow, WinSignals, WinBuf, WinBufMem: windows

`SlidingWindow` holds at time t the records between t - Delay - WinSize and t - Delay,
and tells which entered and which left in the last step.

`WinBuf` is `TWinBuf` with its four ids `A`, `B`, `C`, `D` (the records that left are
A..B-1, the window B..D-1, the ones that entered C..D-1), over a store that garbage is
collected from. `WinBufMem` is `TWinBufMem` with its two ring queues (`RingQueue`), which
starts with room for a few elements and grows. Both drive a signal of `WinSignals` in
the same step, as the code calls one aggregate after the other: the sum, the mean, the
minimum and the maximum, which is kept as a list of candidates. `hist` says whether a
record went by the window in one step and whether the window was ever emptied.

### Interpolators, Merger, Resampler, AggrResampler: series made of others

`Interpolators` has the three interpolators as operators on their buffer, and
`Reference`, what they are to compute, from all points. `Merger` is `TMerger` as a
record with the members' names; one action is one `OnAddRec`, which may be called for
several signals that read one store (`Reads`). `Resampler` is `TResampler` and, for one
field, `TUniVarResampler`. `AggrResampler` is `TAggrResampler`, with a queue of points
that waits for the interval to be over; an interval is handed on as the points that are
aggregated. History variables keep the points that were given, to compare with.

### ThreadExecutor, JobPool, NodeAsync: threads

`ThreadExecutor`: a section under the lock is one step, except in the destructor, which
cancels one thread after the other while they notice. `pc` is where a thread is, `owner`
the progress of constructor and destructor, `TaskQ` the queue. A wait may end without a
signal. Runnables return, throw, or end by what `Effects` allows them.

`JobPool` is the parallel loop: the master cuts the items into segments, one job per
thread, and polls. Blocking on `TBlocker` is no step, for its `pthread_cond_timedwait`
is refused at once (departures).

`NodeAsync`: requests on workers, a handle with a place for one task (`TaskWrapper`),
libuv's signal as a flag that merges (`pending`), and the main thread in the callback
(`main`). A handle is blocking or not. `fault` is set when deleted memory is used.
`InitSemaphore` is the call to `uv_sem_init`: where the system may refuse a semaphore (`SemFails`)
`SemaphoreFailed` is the branch of `nodeutil.cpp:1119`, which deletes the task. Its
specification is `AsyncSpec`, so that one module of proofs can extend it and `ThreadExecutor`.

## 3. Runs

`store` and `pgblob` use symmetry: values of fields in the one, pointers and names of records,
and blobs of one length, in the other. Nothing in the models or their properties tells two of them apart. No run replaces a
definition.
`GixItemSet` and `GixKeyDict` record the call of each step in `call` for the sake of
refinement; every action writes it and none reads it, so the runs use a `VIEW` without
it, and action properties are still evaluated on every transition.

| run | instance | properties | what it shows |
|---|---|---|---|
| `blobbs` | 2 classes, segments of 3 units, 2 segments at first, 2 contents, all operations, crash points and losses of buffers | `IInv`, `FreeListExact`, `CleanOpenSeesAll`, `ImplementsBlobStore` | blocks that are whole never overlap, lists stay in their class and lose nothing without a crash, a clean close loses nothing; the base is a map from pointers to contents, of which a crash takes at most what ends a file |
| `gix` | 2 keys, 1 item, 3 pointers | `OneBlobPerKey`, `CacheSound`, `ImplementsPostingIndex` | no cleaning of the cache at any point of a call is noticed by the caller |
| `itemset` | ids 1..4 with the default handler, SplitLen 2; ids 1..3 with the summing one, SplitLen 1, frequencies -2..2 | `ReadsAreExact`, `ChildrenAreSound`, `StorageIsSound`, `ImplementsAPostingList` | no order of calls loses, revives or misplaces an item, or leaks a child |
| `keydict` | 4 keys, 2 pointers | `EntriesSound`, `LookUpsExact`, `ScanStable`, `ImplementsKeyMap` | both representations, tombstones, overlay and ids |
| `threads` | executor: 3 threads, 3 runnables; parallel loop: 2 threads, 2 loops of 0 to 3 items | `NothingLost`, `NoSleeperIsNeeded`, `ItemsAreDone`, `WorkGoesOn` | nothing passed in is lost, doubled or left waiting, and calls return |
| `async` | 2 workers, 2 requests, 3 tasks, both kinds of handle, semaphores are granted | `TasksAreSound`, `BlockingIsSafe`, `EveryTaskIsServed` | a task is run or deleted once; a blocked request waits for its own task |
| `store` | store: 2 fields, one primary in memory, one on disk with a codebook, 3 values, 3 records; storages: blocks of 2, a cache of 5 units, up to 5 ids on disk and 4 in memory | `PartsAligned`, `IndexExact`, `MetaExact`, `KeepsRecords`; `CleanOnDisk`, `BlocksSound`, `KeepsItsPromise` | storages, index, primary map and codebook stay in step, and each storage is the `ValueStore` that the store takes it for |
| `joins` | index with field, field with field, index with index; 2 or 3 records per store | `SidesAreOne`, `AreLinks`, `CutsOnePair` | both sides tell the same, nothing names a deleted record, whether nested records are new, there or refused; a deleted join is the named one |
| `pgblob` | 2 pages of several items through a cache of 1; 3 pages of one item through a cache of 2; `PagedStore` with 3 pointers, 3 ids, 2 names, 1 value | `PagesSound`, `FreeSpaceKnown`, `KeepsItsBlobs`, `RecordsReached` | compaction, reuse and eviction touch no other blob; records are where the maps say, after half-made records, updates that throw and names that are taken too |
| `streams` | each of the five stream modules, times up to 6, 7 or 8 | `WindowsAreExact`, `SignalsAreExact`, `WindowsSlide`, `SeriesAreExact` | windows hold what they should, signals are those of the window, series have exactly their records and values |
| `paged_memo` | `pgblob` with `MayMove` | `MemoFresh` (violated) | finding 1 |
| `merger_held` | `streams` | `HeldRecordIsKept` (violated) | finding 2 |

The bounds are the constants of the `.cfg` files, and the ones in guards are commented as
such where they are declared (`MaxRecs`, `MaxPoints`, `MaxHeld`, `MaxLoops`, `MaxVals`,
`MaxPages`, `MaxSegs`, `MaxFq`, `MaxJoinFq`, `MaxDel`). Why they are enough:

* *blobbs*: two segments make the hint, the search for a segment and the creation of one
  happen; two classes make a wrong class possible; files hold several blocks, so lists
  of length two occur; a crash can fall before, between and after each closing step, and
  lose the end of the last block of neither file, one, or both.
* *gix*: two keys are needed for one call to disturb another's key, three pointers for a
  blob to move while both keys have one.
* *itemset*: four ids with children of two give several children, an item before, in,
  between and behind them, cuts (length 4 > 3), joins, emptied children and a full
  buffer; frequencies -2..2 let one marker cancel a part of a sum and a sum outlive it.
* *keydict*: four keys give an array with a tombstone in the middle and two overlay
  keys, one of them freed.
* *threads*: with three threads one can sleep, one be on its way to the lock and one run;
  with as many runnables a signal can go to a thread that finds the queue empty. The
  loop has more threads than items, as many, and one item more than threads.
* *async*: a third task can replace a second one while the first is being run.
* *store*: three records let a deletion of two stop after one and leave one behind;
  blocks of two have a full, a half-full and an emptied block, and the cache holds two of
  three blocks.
* *joins*: a link can be moved from one of two records to the other from either side; a
  third id is a record added after a deletion.
* *pgblob*: pages of four units hold two items or three; a cache of one evicts at every
  change of page; three pages give the tree of maxima an odd layer. With two
  names one record can take the other's, and a third record can be half made; the value is
  only what an update leaves alone or changes, and no property reads it.
* *streams*: a window of two with a delay of one has records before, waiting for, in, and
  behind it, and gaps that empty it; times past the end of it make a record go by in one
  step; ring queues of two grow and wrap; with two points per signal and four times every
  order of two signals occurs, on, before and after each other's points.

Deadlock checking is on where the system can always go on. It is off (`CHECK_DEADLOCK
FALSE`) in `blobbs`, `joins`, `store`, `streams`, where a bound on ids, addresses or
points is the end; in `threads`, where a pool may be destroyed, or a runnable end the
process; in `async`, where all work may be done.

### Fairness

Only `threads` and `async` have liveness properties; everything else runs within one
call, and its specification is `Init /\ [][Next]_vars`.

* `ThreadExecutor`: the owner finishes the constructor and destructor it is in; when the
  lock is free and threads want it one of them gets it (weak fairness of the disjunction:
  a POSIX mutex promises no order among threads); a runnable comes to its end; a thread
  cancelled in its wait notices. That is what the scheduler and the lock of the system
  give. Nothing is assumed of when runnables are passed in.
* `JobPool`: the scheduler runs every thread, a call of the master that has begun goes on.
* `NodeAsync`: the main loop turns; a request in the middle of `ExecuteOnMain` goes on,
  except from a wait in deleted memory. When requests start, pass tasks or end, and when
  the handle is deleted, is left open.

`WorkGoesOn` is that every runnable passed in is started and that the wait and the
destructor of the loop return; `EveryTaskIsServed` that a task is run, or replaced by a
later one, unless its handle is deleted first.

### Findings

1. `paged_memo`. `TStorePbBlobT::UpdateRec` invalidates the memo of `GetPgBf`, and after
   that reads the old primary value, which fills the memo again, before the record
   moves. The memo then leads to where the record was. It takes an update that names
   the primary field and outgrows its page.
2. `merger_held`. With `onlyPast` and an interpolator that needs the point after, `TMerger`
   keeps the record it has made in `PrevInterpPt` until the next time is known. When the
   record after that can be stored at once, `UpdatePrev` overwrites the one that waits,
   and it is never stored. The comment at `qminer_aggr.cpp:1377` says it is committed.

## 4. Proofs

| module | theorem | property | assumptions beyond those on the constants |
|---|---|---|---|
| `GixProofs` | `IInvInvariant` | `IInv` of `BlobBs` | |
| | `BlocksDoNotOverlap`, `ReusedBlocksFit`, `NoUpdateThrows`, `HintsAreSound`, `TypeCorrect` | parts of `IInv` | |
| | `FreeListsAreExact` | `FreeListExact` | |
| | `CleanOpenIsComplete` | `CleanOpenSeesAll` | |
| | `BlobBsImplementsBlobStore` | `ImplementsBlobStore` | |
| | `KeysOwnTheirBlobs` | `OneBlobPerKey` | |
| | `CacheIsSound` (with `GixTypeCorrect`, `CacheIsCoherent`, `PointersStayFresh`) | `CacheSound` | |
| | `IndexIsAMap` | `ImplementsPostingIndex` | |
| | `KeysAreStoredOnce` | `EntriesSound` | |
| | `LookUpsAgree` | `LookUpsExact` | |
| | `IdsStay` | `ScanStable` | |
| | `DictIsAMap` | `ImplementsKeyMap` | |
| `GixItemSetProofs` | `ReadsStayExact` | (`ReadsExact`, in `ReadsAreExact`) | `SplitLenMin # 0` (section 5), for these |
| | `ChildrenStaySound` | (`ChildrenSound`) | |
| | `StorageStaysSound` | (`StorageSound`) | |
| | `ItemSetIsAPostingList` | (`ImplementsPostingList`) | |
| `RunProofs` | `RunReadsExact` | `ReadsAreExact` | the instances of the run `itemset` |
| | `RunChildrenSound` | `ChildrenAreSound` | |
| | `RunStorageSound` | `StorageIsSound` | |
| | `RunIsAPostingList` | `ImplementsAPostingList` | |
| | `RunSidesStayOne` | `SidesAreOne` | the instances of the run `joins` |
| | `RunJoinsAreLinks` | `AreLinks` | |
| | `RunOnlyOneIsCut` | `CutsOnePair` | |
| `ThreadExecutorProofs` | `NoRunnableIsLost` | `NothingLost` | |
| | `OneSignalIsEnough` | `NoSleeperIsNeeded` | |
| | `JobsStaySound`, `WaitIsComplete` | (`JobsSound` and `ReturnsWhenComplete`, which are `ItemsAreDone`) | `Careful` of `JobPool`: no segment begins after its end |
| | `TasksStaySound` | `TasksAreSound` | `~SemFails`: semaphores are granted |
| | `BlockingWaitsForItsTask` | `BlockingIsSafe` | `~SemFails` and `~Shared`: one request at a time uses a blocking handle |
| `RecordStoreProofs` | `PartsStayAligned` | `PartsAligned` | `Careful` (below), for these four |
| | `IndexStaysExact` | `IndexExact` | |
| | `MetaStaysExact` | `MetaExact` | |
| | `RecordsAreKept` | `KeepsRecords` | |
| | `StoragesStayOnDisk` | `CleanOnDisk` | the instances of the run `store` |
| | `StoragesKeepTheirPromise` | `KeepsItsPromise` | |
| | `WindowStaysExact` | (`WindowIsExact` and `NothingIsMissing` of `WinBuf`, in `WindowsAreExact`) | |
| `JoinsProofs` | `SidesStayOne` | (the parts of `SidesAreOne`) | `Careful` of `Joins` (below), for these |
| | `JoinsAreLinks` | (the parts of `AreLinks`) | |
| | `OnlyOneIsCut` | (the parts of `CutsOnePair`) | |
| `StorageProofs` | `CacheCleanOnDisk`, `MemoryCleanOnDisk` | (the parts of `CleanOnDisk`) | `Careful` of the storage (below), for these |
| | `CacheBlocksFull`, `MemoryBlocks` | (in `BlocksSound`) | |
| | `CacheKeepsItsPromise`, `MemoryKeepsItsPromise` | (the parts of `KeepsItsPromise`) | |
| `PagesProofs` | `PagesStaySound` | `PagesSound` | |
| | `FreeSpaceStaysKnown` | `FreeSpaceKnown` | |
| | `BlobsAreKept` | (`KeepsBlobs`, which is `KeepsItsBlobs`) | |
| | `RecordsStayReached` | (`RecordsAreReached` of `PagedStore`) | `~MayMove`: no update that names the primary field moves its record (finding 1); `NoData` is not a record. Updates may take names and throw |
| | `RunRecordsReached` | `RecordsReached` | the same |

A theorem that names a property in brackets states it of the component, for every value of its
constants; the runs check it under another name, together with other instances.

The assumptions on constants are named where these are declared; TLC evaluates each in a
run. Those of the blob base are that a class fits into an empty segment and each content
into a class; that the records a window begins with are in the order of time, and that what is
retained covers the window with its delay; elsewhere only that "none" is not a value or a field, that fields, keys and
JSON records fit together as a schema makes them, and that ids are integers. `Careful` of
`WndBlockCache` asks for blocks of at least one value and for a mark of an empty blob that
is not a block; that of `InMemStorage` for blocks of at least two, and that a storage
that is opened lazily is loaded before it is changed; that of `JobPool` leaves out the
departure of section 5 by which a segment begins after its end; that of `Joins` leaves out
its departures. The runs `store`, `joins` and `threads` check that their instances are such
(`CarefulAssumption`, `FormsAssumption`, `PoolCareful`), the run `itemset` that its two instances
have a least length (`LeastLength`) and fit the handler (`SumAssumption`).

### The blob base

None of the properties is inductive alone. `IInv` adds four things. `LinksInClass`
holds of the links in the files as well as of the heads in memory and in the headers,
since a restore brings the old heads back: it is the reason why even then a reused block
is large enough and nothing overlaps. `FreeListsSafe` says that before any restore every
head and link names a free block, and no two name the same one: without it a delete
could put a block into a list twice and a later put would hand out an active block.
`FilesSound` relates header states, lengths and the main file through the closing
sequence, which is what a crash point cuts. `TailsLast` says that the block whose end is in
the buffer is the last of its file and that no head or link leads to it, so that cutting it
leaves every list as it is and what is appended afterwards stands behind all whole blocks. The
lemma `Shapes` reduces the actions to a few shapes of steps (fill a block, rewrite it,
release it, move a blob, nothing on disk, cut, load the heads); each part of `IInv` is then
shown for each shape.

`FreeListExact` says that following the links from a head meets every free block of the
class. To follow a chain of any length would be induction over data; instead `Linked`
says it without lengths: every set of blocks that has the head, and with a block the one
it links to, has all free blocks of the class. This is inductive with a few set-theoretic
lemmas, one for taking the first block off a list and one for putting one on. That the
chain as the property walks it (a recursive function) is closed in this sense follows as
no block can follow itself (pigeonhole), and what holds of all its positions is shown
with the least position at which it would not.

### The pages

`IInv` of the storage is `Agree`, that the files, the tree and the history tell the same,
and that a map not marked dirty is the one in the file. It is stated in three layers, each
with lemmas of its own that know nothing of the state.

A page (`PageOK`) is exactly packed: its items that are not deleted, taken together, cover
the bytes between the free space and the end of the page, and no two overlap. That is more
than `VerifyPage` asks, and it is what deletion needs: the bytes that are moved up are the
lengths of the items before the gap, summed over the table as the code sums them, and
only in a packed page are these the bytes from the free space to the gap. From it follows
that an item that is read after a deletion, an addition or a change of another one has
its bytes. A page without items starts over with an empty table, so no packed page with a
table is empty, and an item number that was given out stays one while its item lives.

The files and the cache (`FilesOK`): a page of the cache that is not dirty has the data of
the page in the file, the list has each page of the cache once, and there are no more
than the cache may hold. `SamePages` says that loading, evicting and moving in the list
change no page as it is seen through the cache.

The tree (`TreeOK`): every layer but the last has more than one number, and each layer is
the maxima of the pairs of the one below. From the top each number is either of the two
below it, so the descent ends at a page with the maximum. A change goes up one layer at a
time; that layers not yet reached are wrong in one place at most is what its lemma says
(`SameBut`), by induction said of a set of layers. Adding stops early when a maximum is not
exceeded, or goes on to make a new top; the lemma of `AddVal` has both.

### The index and its cache

The four invariants hold each other up and are inductive only together, with two
additions. `CallFits` says which calls can be in which phase: only a writable index is in
a call that stores, and only additions make a key. `FileMatches` says when the file need
not be written at close: whenever a dictionary is neither new nor marked dirty, it
equals the one in the file. `LinkedBlobs` and `Coherent` are `OneBlobPerKey` and
`CacheCoherent` with the dictionary, the blobs and the cache as parameters, so that
`MovedLinked`, `RemovedLinked` and `AddedLinked` can say what storing, removing and
enlisting do to them without a state. The lemma everything turns on is `EvictFacts`:
an item set that leaves the cache changes the dictionary entry of its own key only,
and no blob of another key. So the pointer a call has looked up stays good as long as
its own item set is not in the cache, and where `MayPurge` holds it is not, or the call
has yet to look the pointer up or no longer needs it. With the mutant `MayPurgeLate`
(the order of steps before the fix that `gix.hpp:1046` describes) exactly this step of
the proof fails.

The refinement maps each key to what a reader would get: the cached items, or those in
the blob. It needs one more invariant, `ReadOnlyKept`: a read-only index may hold item
sets marked dirty by a merge and throws them away unsaved, which loses nothing as
their items are those of the blob. `Stutter` and `Effects` state what a step must do
to be invisible, or to be the effect of its call; each action is one or the other.

### The item set

`ReadsExact` speaks of what `Def` *would* do in any state, so it is proved as what the call
does to every item set that fits. `Fit` is what holds between the calls: the children are in order
(`Kids`: each sorted and within its bounds, all items of one below all items of the next, its
vector in memory or its blob up to date), none is empty or too long (`Shaped`), as many child
vectors are in the blob base as there are children, the total count is right, and, when the set
is merged, the buffer is sorted and lies beyond the children (`Sound`). `IInv` adds that an
item set that is not dirty is merged, has no changed child, and is what the header says.

Every operator has a lemma that says what it does to the items (`Has`: an item is in a child
or in the buffer), to the children's shape, and to the number of blobs: `DeletesAre`,
`InjectFields`, the cutting of long children, `JoinedUpTo` for the joining of short ones (by
induction said of sets, over the children joined so far), `Chunks` for what is pushed out of the buffer,
`Dropped` for empty children at the front. The order of `Def` is what makes these fit together. An item
belongs to one child or to none (`Belongs`), so that the injection is a map from items to children;
between deletion and repair children may be empty or too long, but only the changed ones
(`Checked`), which is what `NeedsMerge` looks at; children never overlap (`NoOverlap`), so that the
global merge of `Repair` is never reached, as its comment in the code hopes. After the repair no
child is empty but perhaps the first, which `DropEmptyFront` takes away. For that a
length of 0 must be below the minimum: `SplitLenMin # 0` is a hypothesis of these theorems.

For the frequencies, `Worth` says that no item with a frequency that is not positive is
anywhere it could be read without a merge. With it, the total of an id in the children is
that of its one item, and the sum of it and of the part in the buffer is due to a reader:
`SurvivorsAre` (what the deletes leave), `InjectTotals` (an id goes to the child it belongs to, or
stays), and from there `Settles`: `Def` leaves a frequency as it is, or forgets one that is
below zero. That is how a partial deletion that came first is settled, and what `PostingList` allows: a
step of the item set may forgive debts, and does its call's work besides. Sums over vectors
are recursive functions of the position; `Total` of a chain of vectors is the sum of their totals by
the same induction (`ByInduction`).

### The compositions

A property of a run that composes instances says of each what its own module says. The proofs
are instantiated with it (`Summed`, `Mixed`, `Fields`, `Lists`, `OnDisk`, `Loaded`, `Lazily`),
so that the lemmas for the first state and for a step are there for each; `RunNext`,
`FormsNext` and their like put the choice of the initial state together with them. What they rest on is that the composition changes the
variables of all instances together, and that what the instances assume of their constants
follows from the assumptions of the composition.

### The key dictionary

`EntriesSound` becomes inductive with `HSound` of both tables: a key has one entry, every entry
has a pointer, and the free list has each free position once. Both representations are
seen as one function `EntryAt` from keys to pointers. `Sound` and `AtOf` say the invariant and
this function of any tables and arrays, so that a branch of `AddDat` or `DelKey` is a lemma
without a state (`HashAdds`, `OverlayAdds`, `Overwrites`, `Appends` and so on); the two
conversions and the sort show that the same entries come to lie elsewhere (`SameEntries`,
`FoldIs`, `ToSortedIs`).

The scan and the binary search are recursive functions. `Ids` is the set of ids there are;
`ScanEnumerates` shows that a scan from any id gives the later ones in ascending order, by the
distance to the last. `AnswerHalves` shows that what the search should answer on a range
follows from what it should answer on one half, and `SearchIs` that the recursion can give
nothing else, by the length of the range. Both use induction said of sets (`ByInduction`),
which rests on the library's theorem on well-founded orders (`LeastIs`): unlike the library's
induction theorems it takes no operator, so each function is treated by a lemma of its own.

### Threads and handles

`NoSleeperIsNeeded` says that, as long as a thread sleeps, the threads on their way to
the lock are at least as many as the runnables in the queue. It is inductive with `Undisturbed`:
before the destructor nobody is cancelled, before the constructor has ended nothing is
passed in. A signal moves one sleeper to the lock for the runnable that came in, a thread
that takes one leaves the lock with it, and one that finds the queue empty can only go
back to sleep when no runnable is left for it.

For a handle, `Placed` says what has been done with the task in the configuration and
the one in the hands of the loop; `TasksStaySound` needs no more. That a blocked request
waits for its own task needs the request and the loop to move together: `OneUser` (one
request has it), `LeftAlone` (until the signal the loop does not know of the task),
`ServedInTurn` (from the signal to the post the request waits for that task) and
`PostedAfterRun`.

For the parallel loop, `JobsIInv` says which items are done: those of a segment that was
given out and has left its queue, up to where its thread stands. That the segments are
disjoint and cover the items is arithmetic on the cuts (`CutsDisjoint`, `CutsCover`); with
it, an item is done once if each thread does its own once (`EachOnce`). The master looks at
the threads one after the other while they run; `Polled` says that a thread that was seen
to have finished stays finished, as only the master gives out jobs.

### The storages

For both, `Place` finds the block of an id by arithmetic, which holds as long as all blocks
but the last are full. `WndBlockCache` purges in the middle of a call: what is said of the
blocks leaves out those that are about to come in, and every call is composed of a few
steps (`Saved`, `Deleted`, `Purge`, `Put`), each of which keeps `Safe`: a block is in memory and
marked as changed, or it is in its blob as memory has it. For `InMemStorage` it is
`OnceStored` (a value that is not new has its place in the blob of its block) and
`LoadsAlone` (as long as something is not loaded, nothing is in need of saving, so that loading
a block as a whole overwrites nothing). Both map to `ValueStore` by what a
reader would get under each id.

### Records on pages

`Reached` relates the record map, the primary map and the blobs; it is stated of any
three such functions, so that creating, rewriting (and perhaps moving) and deleting a
record are lemmas about functions (`CreatedIsReached`, `RewrittenIsReached`,
`UpdateIsReached`). A primary value that was torn is asked for less, and stays torn, so every
update that takes a name or throws only adds to what is excepted, while what an entry leads to
is never excepted. `MemoIsFresh` (a memo that is valid leads to where its
record is) must be part of the invariant, for reads go by it; it is kept because each
operation that may move a record invalidates the memo, and none reads between that and
the move, except the one that `~MayMove` excludes. `FileMatches` carries it over a close.

### Records in two storages

The two storages are seen as one function from ids to records, `Recs`. Every operation
adds a record to it, changes one, or drops the first ones, and these three are lemmas
about any two storages (`RecordAdded`, `RecordChanged`, `RecordsDropped`). The index and
the primary map are treated likewise: `Exact(idx, V)` and `Leads(map, V)` are stated of
any index, map and records V, so that `IndexedExact` (each key that may change is told
what it was and what it is), `AddedExact` (the part on disk first, then the one in memory),
`DeindexedExact`, `LeadsAdded`, `LeadsChanged` and `LeadsDropped` need no state. `IInv` adds
`FileMatches`: metadata that is not marked dirty is what the file has. It is the reason
why closing loses nothing, and what an operation breaks that forgets to mark. For
`RecordsAreKept`, `Stepped` says what a step may do to a storage.

`Careful` lists the uses for which this holds, and each of its clauses keeps out one
departure of section 5: values that do not serialize, a name taken from another record, a
batch that is not of the first records, and a second key on a field that is set by itself.
It constrains constants only, and the instance of the run `store` satisfies it (`CarefulAssumption`).

### Joins

`W(j, s, r, q)` is how often side s says r is joined with q, in either form; what is joined,
and with which frequency, is read off it. The invariant says of every pair that both sides say
it is joined, or neither does, equally often where both know (`Pair`), and that its records
exist (`Exist`). Frequencies in a list may be negative in general; that none ever is under
`Careful` is part of `Pair`, and the reason why a search, which drops those, changes nothing.

The lemmas about the calls have no state: `DelJoinIs` and `AddJoinToIs` say of any joins j
which pairs change, and that nothing else does (`Same`, `Gone`). The order within a call
matters there: when a field is repointed, the old pair must still fit together when it is
deleted, although the pair that comes in is half made on the way (`AddSideIs` asks this of all
pairs but one). Loops over joins, nested records and deleted records are recursive functions;
their lemmas (`DelEachIs`, `AddIs`, `RecsIs`, `AllRecsIs`) say what has been done after n rounds,
by induction said of sets. In `AddIs` a field is joined with one nested record at
most, as the code takes an object there and no array; with two the second would push the first out.

For `JoinsAreLinks` each call is of one of four shapes as the side it was made from sees it
(`Shape`), and `ShapeIs` turns a shape of either side into a step of `Links`. `Careful` has a
clause for each departure of section 5, and none for two field joins, which may be
used in any way as long as what is deleted is joined.

### The window over a store

`OnTime` moves the four ids with loops that read records, and each loop ends at the first
id whose record is on the other side of an edge. That such an id is the least of a set is
the least-number principle, taken from the library's theorem on well-founded orders
(`LeastIs`). `SplitAt(rs, from, n, edge)` says that n splits the records at an edge of time:
with sorted records the loops find such an n from any id that is not past it. A record that is
added stands after every other, so the splits stay. `GoneBy` says that all that was
collected is older than what the store retains; as that covers window and delay, the
records that leave the window have not been collected when they are read, unless they were
passed by in one step, and those are skipped.

### What is only model-checked

Liveness, in `threads` and `async`; of the storages, that the cache stays within its
bound (`MemoryBounded`) and the account of its size in `TypeOK`, which are the rest of
`BlocksSound`; of the streams all but the window of `WinBuf`. `ItemsAreDone` and `KeepsItsBlobs`
are proved of the components they are about (`JobsStaySound`, `WaitIsComplete`, `BlobsAreKept`), and of
the compositions that the runs check they are model-checked.

## 5. Departures

The models follow the code also where it departs from what its docs say or a user
expects. Where such a step would break every property at once, the runs leave it out by
a constant, named below: other values of it, or the property named with it (defined in
its module and not in a run), show the departure. The two that need no special input
are the findings of section 3.

*Index.*
* Children are repaired only if one is shorter than `SplitLenMin` or longer than
  `SplitLenMax` (`gix.hpp:77`). The minimum is half the split length of a key
  (`gix.h:876`), 0 for a split length of 1, which `PutKeySplitLen` accepts: a child that
  deletes emptied in the middle stays, contrary to `gix.hpp:102` (`SplitLenMin` = 0).
* `gix.h:256` says that key ids "stay valid for the lifetime of the loaded gix". The id
  of an overlay key is offset by the length of the arrays, which grows when a larger key
  is added (`IdsStayValid`). Ids are stable under deletions and updates, which is all
  that the sweep in `qminer_core.cpp:6296` relies on.

*Storages.*
* `TWndBlockCache::GetLastBlock` takes the last block whatever the number of blocks: when
  all values are deleted and their number fills the last block, the next `AddVal` reads
  `BlockBlobPtV[-1]` (`Drains`, `LastBlockExists`). `SetVal` with a larger value is not
  counted before its block is dropped (`Grows`, `MemoryBounded`).
* `TInMemStorage` opened lazily for update writes a block with the values that were not
  loaded as empty ones, and reads past a blob after a value was added (`Lazy` without
  `LoadsFirst`). With blocks of one value no blob pointer is ever added
  (`qminer_storage.cpp:672`; `BlockSize` = 1, `BlocksHaveBlobs`).
* `TPgBlob::Clr` empties the layers of the free-space map altogether, so that the next put
  reads layer 0 of an empty vector. A blob larger than a page makes a page that the map
  does not know, and asserts; at a pointer it deletes the old blob first.

*Record stores.* `Careful` in `RecordStore` excludes these uses of `TStoreImpl`.
* `AddRec` stores and indexes the part on disk before the part in memory is serialized;
  when that throws for a missing field, the two storages give different ids from then on
  (a `Json` without a field of `Memory` that may not be null; `IdsAligned`).
* `UpdateRec` removes the old primary value before it serializes, which throws for a value
  of the wrong type (`Bad`; `PrimaryExact`), and does not ask whether the new one is
  another record's (`MayTake`). The update of a paged store does the same
  (`qminer_storage.cpp:4518`, `:4532`, `:4593`), and its `AddRec` writes one storage before the
  other is serialized (`:4440`); `PagedStore` has these steps, and `torn` names what they cost.
* The record indexer keeps one key per field for `SetField`: with two keys on a field the
  other keeps the old value (`Keys`; `IndexExact`).
* `BatchDeleteRecs` drops as many records from the front as were named, whichever they were
  (`AnyBatch`).

*Joins.*
* Joining a joined pair again adds the frequency in the list and overwrites it in the
  field; a later delete leaves a rest (`Again` with one field). A field without frequency
  deletes with 1 what the list has with more (`HasFq`).
* `DelJoin` clears both fields without asking whether they name each other (`Unjoined`).
* A nested record that is refused is joined as `TUInt64::Mx` (`qminer_core.cpp:563`), an item
  that a search returns (`lost`).
* A sum of frequencies below zero is dropped when the list is searched and not before, so
  that the sides may differ after more was deleted than joined (`DelFqs`).

*Threads.*
* The destructor of `TThreadExecutor` cancels threads that wait for the condition: each
  takes the lock back and ends with it, so that the next never ends (`DestructorReturns`).
  Where cancellation unwinds C++ frames the catch-all of `EntryPoint` aborts instead.
* `AddJob` gives a thread `AllItems / Len() + 1` items and bounds only the end of a
  segment: three items on three threads give the third a start after its end
  (`ThreadNo` = 3, `JobsAreSegments`). `WaitForTask` does not wait (`WaitedJobIsDone`); only
  the polling of `WaitForCompletion` does.
* `TCRef` counts with a plain integer. `AddJob` drops references outside the critical
  section that `task.h:201` has for that, so that a count may get lost. Jobs are values in
  the model.
* Two requests on one blocking handle delete each other's wrapper, with the semaphore one
  of them waits on (`Shared`). `OnMainBlock` destroys the semaphore without knowing whether
  the worker has left its wait (`RequestGoesOn`). `DelHandle` leaves a task that was not yet
  taken (`NothingLeftBehind`). When `uv_sem_init` fails, the task is deleted and its wrapper
  stays in the handle, so that the next request that replaces it deletes it again (`SemFails`;
  `TasksAreSound`).

*Streams.*
* `TWinBuf::OnTime` on an empty store does not return. Times are unsigned: t - Delay -
  WinSize wraps for small t. Times of the models are large enough.
* `TMin` and `TMax` read element 0 of an empty vector when the window is emptied, and their
  `Reset` keeps the candidates (`ResetForgets`). `TMa` asserts when a value passes through
  `TWinBufMem` in one step; `TSumSpVec` reads the last of no times. A signal is not `ok`
  from then on.
* A record that is updated while it is in the window is subtracted with its new value.
* `TMerger` takes a point earlier than one it has merged when its buffer is empty, if its
  inputs are not in the order of time; in the models each signal is. `LoadState` copies the
  linked buffers without their elements, and the interpolators are not saved.
* A resampler whose start is before the first point makes no record for ever, as its log
  warns. `TAggrResampler` drops points of an interval that is over, and its `Reset` forgets
  the start the user gave.
* `ds.h:1796` says that element 0 of a queue is its back; it is its front.

## 6. Not modelled

* *Expressions and their mergers* (`TGixExpItem`): AND, OR, NOT of posting lists are pure
  functions that read the index.
* *Maintenance of the index*: `CopyTo` with its count check, the verification and
  statistics scans, the deletion sweep as a process; the mode that discards dirty item
  sets, whose callers flush before and only read after (`qminer_core.cpp:7223`, `:7420`);
  `faRestore`, with which no caller opens an index.
* *Widths*: frequencies of the small index are 16 bits (`qminer_core.hpp:87`) and wrap far
  above the bounds of the runs.
* *Blob base*: the traversal `FNextBlobPt`, statistics, read-only opening, loss of power,
  the use of a blob that a crash cut. *Page blob*: `LoadAll`, files after the first of 2 GB,
  verification.
* *Records*: the layout of serialized records, and with it what an update in place that
  throws leaves of one beyond a mixture of its old and new fields (its page is then not
  marked dirty); a paged store's primary field in the other storage; values kept outside
  (toast), the dense record map, changes of the schema. *Joins*: of a store with itself, the small and tiny
  items, record sets, the creation of stores from a schema.
* *Vocabulary, geo and B-tree index*; queries.
* *Streams*: the aggregates without a time of their own (exponential averages, variance,
  histograms, t-digest, regression and the models of analytics), saving and loading
  state, creation from parameters; queues of a fixed length.
* *Threads*: reference counts of jobs, `TMutex::Wait`, copies of `TThread`, Windows.
* *Server, bindings, analytics, feature extraction*: input and output, conversion of
  arguments, or numerical code, with no state machine to check.

## 7. What comes next

1. Proofs about the signals of windows (`SignalIsExact`: the list of candidates for a minimum
   is a matter of order alone).
2. Expressions against set algebra; frequencies with their width.
3. The deletion sweep and `CopyTo` as processes over `Gix`.
