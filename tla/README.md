# A TLA+ model of Azurite

Azurite emulates the Azure Storage blob, queue and table services in one Node.js process.
This directory holds TLA+ modules that model its services, TLC configurations that check them
on small instances, and TLAPS proofs for every value of the constants. Paths below are
relative to the repository; `src/blob/...` stands for the TypeScript source.

## 1. Inventory

| Component | State | Operations | Correct means | Modules |
|---|---|---|---|---|
| Lease state machine, `src/blob/lease/` | lease fields of a blob or container document | acquire, renew, change, release, break; validators and syncers in every write and read | exclusive while in force; its term is what was granted; the stored fields are always ones the state classes accept | `Lease`, `BlobLease` |
| `OperationQueue` | FIFO, running counter, an emitter | `operate`, `execute`, settling | bounded concurrency, FIFO, no lost wake-up | `OperationQueue` |
| `FSExtentStore`, `MemoryExtentStore` | active write extents, files, buffers | `appendExtent`, `readExtent(s)`, `deleteExtents` | one writer per extent; a chunk holds its payload for ever and is read back as it is | `FSExtentStore`, `BlobContent` |
| GC managers, extent metadata | status, loop, listeners; time stamps | `start`, `close`, mark, sweep, sleep | deletes only garbage, eventually all of it; one loop; close ends | `GCManager`, `BlobGC` |
| Loki blob store and blob handlers | containers, blobs, snapshots, staged blocks | every operation that changes them | a write changes one blob under a new etag; collections without keys stay consistent | `BlobConditions`, `LokiBlobStore`, `BlobHandlers`, `BlobService` |
| SQL blob store | the same as rows | the same as transactions | no lost update shows under an old etag; access and leases stand | `SqlBlobStore`, `BlobService` |
| Content of blobs | chunks, page ranges | uploads, pages, blocks, downloads | a range reads as the last writes to it | `BlobContent` |
| Queue store and handlers | queues, messages | enqueue, dequeue, peek, update, delete, clear | a message is with one consumer at a time, and is not lost | `QueueMessages` |
| Table store, handlers, batches | tables, entities, the rollback lists | insert, update, merge, delete, batch | a batch is all or nothing; etags | `TableStore`, `TableService` |
| Listings of all services | none of their own | pages and markers | an item that stays is listed exactly once | `Listing` |
| Middleware chain, authentication, CORS | the request's context; access policies, CORS rules | dispatch, deserialize, authenticate, handle, serialize | the right operation, for whom it was granted, answered truly | `RequestPipeline`, `Authentication`, `Cors`, `OperationSpecs`, `*Operations`, `StorageErrors` |
| Servers, configuration, logging, VS Code UI, parsers | status, options | start, close, clean | | section 6 |

### How the parts interact

A request takes its start time on arrival, is dispatched, authenticated and handed to a handler.
A handler with a payload first appends it to an extent (`appendExtent`, a job of an
`OperationQueue`), and only then changes the metadata store, which refers to the chunk.
Between the two the payload is on disk and nothing refers to it. The GC loop, launched by
`BlobServer.beforeStart()`, lists extents, strikes out the referred ones, deletes the rest, and
shares with the requests the extent store, the extent metadata and the blob metadata.

Concurrency is that of one event loop. A Loki operation has no I/O between its reads and
writes and is one step; code between two awaits of real I/O is one step. With the SQL stores
every query is a point at which others run. A table batch awaits only Loki operations from the
end of its body to its answer (`LokiTableMetadataStore.ts:28-32`), so no other request runs
inside it.

### What is hard

Requests applied in another order than they arrived; leases whose time runs out while nobody
looks; appends that fail at any of their awaits; descriptor numbers that are reused; a
collector that reads two collections page by page while references move between them; close
against a loop that may be anywhere; live documents that a request holds over an await;
transactions that write back what they read before another's commit; a batch that fails in the
middle; policies and rules that change while a request is authenticated; markers of listings
beside creations and deletions. PROJECT.json lists these under `hazards`, each at its line, with
the property that would catch it, or the reason why none does.

## 2. Modules

`Lease` is extended by `BlobLease`, `LokiBlobStore` and `SqlBlobStore`; `BlobConditions` by the two
stores; `LokiBlobStore` by `BlobHandlers`; `OperationQueue` by `FSExtentStore`; `GCManager` by `BlobGC`;
`OperationSpecs` by the operation and error tables, these by `Authentication`, and that with `Cors`
by `RequestPipeline`. `QueueMessages`, `TableStore`, `Listing` and `BlobContent` stand alone.
`BlobService` and `TableService` are abstract specifications. `XProofs` holds the proofs about `X` and
the modules it extends (`OperationQueue` in `FSExtentStoreProofs`); `QueueGCProofs` are those about the collector, its life cycle and
the messages of the queue service, `ReadingProofs` those about `Listing` and `BlobContent`. `MCX` is the TLC instance of `X`. Definitions whose comment begins "Faulty variant" are used by no
specification: each is a plausible mistake in the definition that follows it, and a run with the
variant in its place violates the property that PROJECT.json names beside it.

### Lease and BlobLease

`Lease` is the five classes of `src/blob/lease` as operators on the record `ILease`:
`CreateLeaseState` is `LeaseFactory`, `*Constructible` are the checks of the constructors (each
throws RangeError when its combination of fields is impossible), `*Allowed` the refusals of the
operations, `Acquired`, `Renewed`, `Changed`, `Break` their results. Lease ids are model values
with a `Lowercase` function, because some comparisons fold case and some do not.

`BlobLease` is one base blob of `LokiBlobMetadataStore` and the operations that touch its lease.
Variables: the clock, the stored lease (`None`: no blob), generated ids, the last response, and
two history variables: `granted`, the duration of the last acquisition, and `dirty`, whether
the blob was written unlocked since. A request's `startTime` is any time in `now - MaxDelay .. now`,
so requests are applied late and out of order. Documents are live Loki references: what an
operation does to one stays even if a later check refuses the request. `SetBlobMetadata` stands
for the writes of the same shape (headers, tags, tier, append, pages, commit). The blob is the base blob's document; `stageBlock` in
the code looks for it without the condition on the snapshot (`LokiBlobMetadataStore.ts:2325`) and may judge by a snapshot's
lease fields, which is not modelled. Three properties name
operations they do not hold for: `startCopyFromURL`, `copyFromURL` and `stageBlock`, `sealBlob` (section 4).

### OperationQueue and FSExtentStore

`OperationQueue` has the FIFO, the counter, one state per job and the pending `nextTick`
callbacks; `Execute` is what `execute()` does synchronously.

`FSExtentStore` makes `appendExtent()` the job: one action per await (rotate, open, the stream's
data, its flushes, finish, abort, `updateExtent`, the cleanup's close and truncate), each with its
failure. Bytes are pairs `<<job, position>>`, so a property can tell whose byte lies where.
Descriptor numbers are reused, and a stream that is no longer awaited still writes its buffered
bytes to its NUMBER. Files, descriptors and streams are external and modelled from their use.

### GCManager and BlobGC

`GCManager` is the life cycle: status, the suspended place of `markSweepLoop()`, and each
`close()` promise. `Recreated` is a new process with a new manager. `QueueGCManager` has the same
life cycle.

`BlobGC` adds what a cycle lists and deletes, the extents' time stamps, documents and staged
blocks with the extents they refer to, and requests that append and refer. `Sql` selects the
store: with SQL requests run between pages, with Loki none runs from the listing up to an `unlink()`,
so the run, with SQL, covers every interleaving of Loki. Loki writes the first time stamp of an extent
under another field name than it reads; such an extent is `"unstamped"` and counts as old. An append may fail after `open()` has
made the file and before the record is written; `unlink()` and the deletion of the record are two steps, either of which may fail. The constants
`FillFirst`, `RotateCandidate`, `MoveInMark` and `CloseInMark` admit behaviour the code has
and under which it deletes extents in use; with all of them FALSE, and distinct names, it does
not. The protection time is assumed to be longer than any request takes to refer to its chunk.

### The blob stores: BlobConditions, LokiBlobStore, BlobHandlers, SqlBlobStore, BlobService

`BlobService` says what clients may rely on: containers, and in them committed blobs and snapshots;
a write replaces one base blob under an etag never used before and touches nothing else; a snapshot
is a copy that stays; a container takes its blobs with it.

`BlobConditions` is the two validators of `src/blob/conditions` as predicates on a request's conditions
and a resource.

`LokiBlobStore` has the collections (containers with their leases, blob documents, staged blocks) and
one action per store method that changes them. A document refers to its block or page array by an
identity, `array`: copies share it with their source, and appends and page writes change it in place
for all that refer to it. `BlobHandlers` puts the handlers on top, with the parameters they accept; what
a handler checks before it awaits an upload is no guard, because it may be outdated when the store
method runs. What the store checks itself is one: that block ids of a blob decode to one length (`IdLength`), the sequence number,
the type where a method asks for it (`clearRange` does not). An etag is the number of the write; header, metadata and tag values are the etag's.

`SqlBlobStore` splits every method in two: it reads and checks (`open` gains a transaction with what was
read), and it writes what it computed from that. Any other transaction may commit in between. The
databases' default isolation differs; this admits the behaviours of all of them. `regular` records
whether no commit so far overlapped another, so that a property can speak of the serial behaviours.

### BlobContent

One blob's content: a payload is a run of numbered units, extents are sequences of buffers (a file, or
memory), a chunk is a part of an extent. Modelled are Put Blob (also without a body), Put Block and Put Block List, Append
Block, Upload Pages in its two steps (the check, and the merge after the upload), Clear Pages, Resize,
Get Page Ranges (refused of a range that starts behind the end), and Get Blob, which reads a live document, computes the MD5 from one reading
of the body and answers with a second. The algorithms on ranges (`SelectImpactedRanges`, `MergeRange`,
`ClearRange`, `CutRanges`, `FillZeroRanges`) and on chunks (`ReadExtent`, `ReadExtents`) are translated
in full; the reference is `bytes`, the last unit written to each position. The two
bisections are recursive functions of a pair, the part of the list they look at. An upload that has stored its pages
keeps the units it sent, for `bytes`; the code needs only the chunk.

### QueueMessages

`LokiQueueMetadataStore` with `MessagesHandler`, `MessageIdHandler` and `QueueHandler`. Variables: the
clock, the queues, the message documents by `$loki`, and the next id and pop receipt; history
variables record which messages each receipt was handed out for, the time that was told with it, and
the receipts given up by an update. One action per operation, each with its validation of the
parameters (`ValidTimeout`, `ValidTTL`), the check that the queue exists and, where the code calls it,
`clearExpiredMessages()`. `Dequeue` and `UpdateMessage` stamp with the start time of the request, which
is any time in `now - MaxDelay .. now`; `Expired` compares with the clock. A dequeue that fails to read
its payloads has hidden the messages and answers nothing (`answered = FALSE`). A refused update or delete
still removes expired messages and is `ClearExpired`. Receipts are distinct; in the code two of the
same second may coincide with probability 2^-16.

### TableStore and TableService

`TableService`: tables of entities by key; a request writes any number of entities of one table in
one step, under etags that no request before was given.

`TableStore` has the registry of tables, one collection per table (documents with their `$loki`), the two
lists of a batch, and the batch under way. A table is registered as it was spelled; `CollectionName` is
`getEntityCollection()`, which tries the lower-case name first. Entity operations are functions from
a collection to an outcome (the collection afterwards, and what a batch remembers for its rollback),
used by the handlers and by `TableBatchOrchestrator` alike. `EndBatchTransaction` rolls back, in
the collection that the batch's first path names. `BatchCases` are the spellings that occur in a batch,
`OneTableBatch` says that all its operations name the same path (the code does not check it). An etag is
the millisecond in which the request started and four digits of the nanoseconds at which it is made
(`TableHandler.ts:307-308`, `truncatedISO8061Date()`): operations of one batch share the start time and may share
the etag, and so may requests that start in the same millisecond. `NewEtags` has both; `RequestsApart` excludes the second, for the refinement.

### Listing

One client follows the markers of one listing while other requests create and delete. `ListContainers`,
`ListQueues`, `QueryTable`, `QueryTableEntities` read once; `PageWithDelimiter` and `FilterBlobPage` fill a page
by several reads (`Fill`). In the Loki stores no request runs between these reads; with SQL that
is up to the isolation (`Isolated`). Names are numbers in the order of the strings; no string is 0, the start of a listing,
and the largest page is at least 1 (`ItemsAssumption`, `LimitAssumption`).

### RequestPipeline and its tables

`BlobOperations`, `QueueOperations` and `TableOperations` are the generated specifications (verb, path,
required query parameters and headers, known statuses), what each handler answers and the permission
tables of the account and service SAS. `StorageErrors` has the status of every error of the three
factories. `Authentication` has the authenticators in their order, `Cors` the rules. `RequestPipeline`
takes one request through the middlewares, one action per stage that may await: context,
preflight, dispatch, strict mode, authentication (one step per authenticator), deserialize, handler,
CORS, serialize, error, end. Other requests appear as changes of what the stages read: policies (set as
`setAccessPolicy` sets them, with the letters it accepts), public access, the blob, the CORS rules
(set and read through the service properties), the clock. The CORS middleware and the serializer may fail after the handler has
acted, on a status, a header, a body or its stream; when is left open, for it hangs on the values (`CorsError`, `SerializeError`,
and `response.sent` for a head that is out when the stream fails). A signature is what is presented beside what was
issued (`sas.issued`), so that a client may change any field. The three services have their own copies of
the generated middlewares; they differ in identifiers only, and each has its own definitions here.

The tables are operators of the service (`OperationOf`, `SpecificationsOf`, `HandlerStatusOf`, `ErrorsOf`).
A signature is abstracted to what it was computed of, a path template to its parameters (that a template
matches exactly the paths it is made for is assumed of `URITemplate`).

## 3. Runs

| Run | Question | Size |
|---|---|---|
| `blob_lease` | constructible, bounded, exclusive lease; break only shortens; a renewable expired lease hid no foreign write; refusals leave the lease; an overdue lease blocks nobody | 2 proposed ids (differing in case), 1 generated, durations valid, invalid and infinite, 4 time units, delay 2 |
| `fs_extent_store` | one writer, offsets are file ends, chunks hold their data | 3 appends of up to 2 bytes, 2 slots, 4 extents of 2 bytes, 2 descriptors |
| `fs_extent_store_failures` | the queue under every failure: FIFO, all jobs settle | 3 appends, 1 slot |
| `blob_gc` | nothing in use is deleted; one loop; close resolves; garbage goes | SQL, 2 extents, 2 documents, pages of 1, 2 requests, 1 close |
| `queue_messages` | a receipt is exclusive, dequeues take the oldest, no orphans | 1 queue, 2 messages, 4 receipts, 3 time units, delay 1, timeouts and times to live valid, out of range, infinite and beyond the calendar |
| `blob_handlers` | consistent collections; implements `BlobService` | 1 container, 2 blobs of all types, 3 documents, 3 writes, 2 chunks or pages |
| `sql_blob_store` | an etag keeps its content, only a setContainerACL that gives public access changes it; serially leases hold and `BlobService` is implemented | 1 container, 1 blob, 2 open transactions, 2 writes |
| `table_store` | keys unique; implements `TableService`; batches atomic | 1 table in 2 spellings, 2 keys, 2 properties, 4 etags, batches of 3, equal etags within a batch |
| `request_pipeline` | dispatch, answers, grants, signatures, preflights | every operation of the three services with every credential; scenarios with changing policies, access, rules and a clock of 2 |
| `listing` | listed exactly once; markers advance | 9 listings, 4 items, pages of 1 to 3, folders before, behind and between |
| `blob_content` | content is the last writes; page ranges; a download is one version | length 3, 4 units sent, 1 staged and 2 committed blocks, all ranges |
| `batch_not_rolled_back` | expected to be violated, see section 4 | as `table_store`, with both spellings in batches |

Why the bounds are enough for the interesting cases: lease durations 2 and 3 with delay 2 let a
request be older than a whole lease. Three appends on two slots make the third wait, reuse a slot
after success and after failure, rotate a full extent, and reuse a descriptor. Two
requests let a cycle list, delete and skip while a payload waits for its reference; pages of one
document put a boundary between any two. Four receipts allow two messages to be
enqueued and dequeued again, in either order and by requests that overtake each other. Three
documents are a blob, its snapshot and another blob, or a copy; three writes create, change and
overwrite. Two open transactions make every pair overlap. A batch of three (100 in the code) writes, fails
at the limit, at a key used twice, at an etag or at a missing entity with a write before; one stored policy (5 in the
code) has the limit one above. The largest page of a listing is 2 for 5000 (tables 1000), of four items:
pages that are full, not full and one short. Three positions let a page range be cut at its
beginning, its end and in the middle (`MaxLen` 4 was also checked). `MaxEtags`, `MaxIds`, `MaxTime`,
`MaxReceipts`, `MaxMessages`, `MaxUnits` and `MaxStaged` bound counters that the code lets grow.

Symmetry is over jobs, names, payloads, keys and properties, and only in runs without liveness.
CHECK_DEADLOCK is FALSE where the bounded supply of requests, jobs or clock ticks ends.

Refinement: `ImplementsBlobService` (Loki: what List Blobs shows is the abstract store),
`SerialImplementsBlobService` (SQL, as long as commits do not overlap), `ImplementsTableService` (while a batch
is under way the abstract store is what it was before; its end is one abstract write, or none). These are
also proved, and that `BlobGC` implements `GCManager` is proved only (section 5).

### Fairness

`StoreFairness`: callbacks of `nextTick` run, and every stream and file operation ends, well or
badly; nothing says that one succeeds. `GCFairness`: the loop's promises settle and its timer
fires; time passes, so a protection time ends; and an `unlink()` tried again in every cycle
works once (strong fairness, since the loop leaves and re-enters that state). Requests and calls of
`close()` are never forced. The other specifications state safety only: a request is forced by nobody.

## 4. Deviations

`batch_not_rolled_back` is expected to be violated: a table created as `mytable` is found by every
operation of a batch sent to `MyTable`, but `endBatchTransaction()` asks for the collection by the path
as it is spelled, finds none and rolls nothing back; its comment says that all changes are
rolled back (`LokiTableMetadataStore.ts:632`).

Other behaviour that contradicts a comment or the change log, or that a reader would not expect, has no
run of its own; the modules contain it and a change of constants, or of the exemption in a property,
shows it:

- a copy onto a blob with an expired lease leaves it renewable (`ExpiredLeaseIsUnwritten` without its exemption);
  `copyFromURL` and `stageBlock` sync the lease before their last check, so a refused request resets an expired
  lease (`RefusedLeavesLease`); `sealBlob` validates a lease it has not brought up to date
  (`OverdueLeaseDoesNotBlock`). An infinite lease can be broken with a period of any length (`LeaseLeasedState.ts:146-160`), so
  `LeaseTermBounded` bounds the break time of leases that were acquired for a fixed time only.
- a failing `open()` is outside the `try`; the slot stays Appending and later two appends share slot 0
  (`SlotHasOneWriter` with `FailOpen`); buffered bytes of a payload that broke off go to a descriptor
  number that was closed and reused (`ChunkHoldsData` with `BufferedAbort`).
- the collector: an extent filled by its first append has no readable time stamp (`FillFirst`); an active
  extent on the list is filled and replaced during the sweep (`RotateCandidate`); with SQL a block
  is committed between the listing of blobs and that of blocks (`MoveInMark`), or `close()` ends the mark
  early and the sweep deletes what was not listed (`CloseInMark`); `listAllBlobs()` continues behind the last NAME and skips
  documents of the same name (`Name` not injective): all of `ReferredOnDisk`. An append that fails after `open()` leaves a file in an
  extent without a record (`FSExtentStore.ts:268-314`), which no cycle lists; `GarbageCollected` speaks of recorded extents. A cycle that fails while `close()`
  waits sets Closed without the event `closed` (`CloseResolves` with `FailClosing`).
- copies of append and page blobs share arrays with their source: a write to one shows in the other under
  its old etag (`ImplementsBlobService` with `CopyTypes` of all types). "Deep clone a copied blob" says the
  comment in `startCopyFromURL`.
- `checkOrigin` of the blob service returns at the first entry with a wildcard, matching or not
  (`PreflightMiddlewareFactory.ts:246`; `ChangeLog.md:275` announces wildcards without such a limit).
- queues that were not created in the order of their names are skipped or repeated by `listQueues`
  (`ListedExactlyOnce` with `InOrder = FALSE`); `filterBlobs` of the Loki store drops blobs that do not match after it has
  cut the page and so ends early (`AllMatch = FALSE`); SQL listings that do not see one snapshot may skip
  (`Isolated = FALSE`); a flat listing with snapshots continues behind the last name.
- SQL: transactions that overlap may undo metadata, tags and leases of each other, and two conditional
  writes may both pass; `regular` keeps these out of the two serial properties. Snapshots of the same
  millisecond overwrite each other (Loki: are both kept). `setContainerACL` without public access leaves the column
  `publicAccess` as it is, where `containerAcl` is reset (`SqlBlobMetadataStore.ts:800-802`, `AccessGiven`): a container made public
  stays public, which `AccessStands` states.
- pages written beyond the end of a blob that shrank meanwhile stay in its ranges; Get Page Ranges without
  a range lists them. A download takes etag and stored MD5 from the live document after its awaits.
- a request that its handler has served is answered 500, or with its status and an aborted body, when the answer cannot be put together
  (`serializer.ts:232-392`, `PreflightMiddlewareFactory.ts:323-331`): the client takes what was done for a failure. `AnswerTellsOutcome`
  says that it is never answered otherwise.
- the type of the resource, `sr`, is outside the string to sign of 2015-04-05 (`IBlobSASSignatureValues.ts:475-539`) and chooses the table of
  permissions (`BlobSASAuthenticator.ts:384-387`): a container's signature presented with `sr=b` on a request that names no blob is
  valid. `SignatureBindsTerms` says that it then asks of no operation it serves other letters than a container's.
- `PageBlob_GetPageRangesDiff` is never dispatched, its conditions are those of `GetPageRanges`
  (`Undispatched`; `ChangeLog.md:645` says that it returns NotImplementedError).
- table entities written by different requests may have the same etag, if the requests start in the same millisecond (`RequestsApart = FALSE`):
  `ImplementsTableService` does not hold of them, and a conditional request cannot tell the two versions apart. Entities
  written by one batch may share an etag in any case; the comment at `utils.ts:103-107` calls the difference "good enough".
- Table `setAccessPolicy` fails on a policy without permission (`TableHandler.ts:905`); reading service properties
  writes the defaults into the live document.

## 5. Proofs

All are for every value of the constants allowed by the modules' assumptions.

**BlobLeaseProofs.** `IInv` = `TypeOK` + `SoundLease` + `TermOf`. `LeaseConstructible` alone is not
inductive: `break` copies the expiry of a leased lease and `renew` adds its duration, so one also
needs that exactly the infinite leases lack an expiry. Theorems `TypeCorrect`, `NoRangeError`,
`TermBounded`, and the action properties `Exclusion`, `BreakShortens`, `RefusedLeavesAlone` and
`OverdueBlocksNobody`. `ExpiredUnwritten` is inductive relative to `IInv`: a write that goes through
while the lease is over resets it (`WriteLeaseSync`), and a lease that was reset cannot be renewed. The last three keep the exemptions of the
properties, which section 4 shows to be necessary.

**FSExtentStoreProofs.** First the queue. `QueueInv`: the counter is the cardinality of the running
jobs, and a job is in the FIFO at most once, only while queued. From it `QueueTypeCorrect` (the counter stays in 0..`maxConcurrency`),
`NoLostWakeUp`, `StartsInOrder`. Then the slots. `StoreInv`: running appends own distinct slots, and exactly these are
Appending. The fall-back to slot 0 checks nothing; that it is idle is a pigeonhole argument:
before a job starts, fewer jobs run than there are slots, so if slots 1.. are all owned, 0 is not.
Needs `~FailOpen` and `~FailCleanup`, which the deviations show to be necessary.
`StoreTypeCorrect`, `OneWriterPerSlot`. Last the bytes. `FileInv` adds, for each place an append can be
suspended at, which bytes its file holds, and for each returned chunk that its extent is written only behind it.
`OffsetsAreFileEnds`, `ChunksHoldTheirData`; also need `~BufferedAbort`.

**QueueGCProofs.** First the life cycle. `ManagerInv`: it is the listeners of `close()` that set Closed, so the
invariant says that a Closing manager has one and that the loop ends only when Closing. `OneLoop`,
`CloseWakesLoop`, with every failure admitted. `CollectorIsManaged`: `BlobGC` implements `GCManager`. Then mark and
sweep. `GCTypeCorrect`. `GCInv`: whatever a document, a block or a request holds is kept, and is off the list, in an active extent,
or (documents and blocks) in a part of the listing still to come; a request's extent is protected
from the next listing. `ReferredKept` holds under `Orderly`, the conjunction of the provisos above. Last the messages of a
queue. `MessageInv` = `TypeOK` + `Issued` + `ReceiptIsExclusive` + `NoOrphans`. What makes
a receipt exclusive is that the time told to the client is the stored `timeNextVisible` (`Issued`), so a
dequeue, whose start time is in the past, cannot see the message before; `Issued` also says that
receipts and messages yet to come are with nobody. `MessageTypeCorrect`, `ReceiptsExclude`,
`NoOrphanMessages` and the action property `DequeuesOldest`.

**TableStoreProofs.** `TableStoreWellFormed`: `WellFormed` is inductive; the work is in what each operation
returns (`GoodOutcome`: keys and `$loki` values unique) and in the rollback, whose copies take fresh
`$loki` values and replace all documents of their keys. `BatchesAreAtomic`: for batches that name one table in lower case,
`BatchInv` says that the other tables are unchanged and that for every key the two lists hold the way
back (`Undoable`): a key in the rollback list carries the entity it had, once; a key in the other
list had none, and the document that was added for it is the only one with its `$loki` or its key; any other key has what it had.
That each operation keeps this is `Recorded`: it touches one key and remembers the document it
replaces, or the one it adds, with a `$loki` above all others. Then the rollback restores the view (`RollbackRestores`).
`StoreImplementsTableService`: the refinement, step by step. Besides `BatchInv` it needs `EtagInv`: entities carry etags that were given
out, and while a batch is under way an entity of its table is as before, gone, or carries an etag given out since the batch began.
The provisos are necessary: for the first two see `batch_not_rolled_back`, for `RequestsApart` section 4.

**BlobHandlersProofs.** `BlobStoreWellFormed`, for copies of every type, and `StoreImplementsBlobService`, for
`CopyTypes` of block blobs only (section 4 shows why). The operations are looked at as functions of the set of documents.
`WellFormed` says nothing of the arrays, but an append changes one in place for all documents
that refer to it, and their lengths must stay within it: `GoodBlobs` therefore adds `Sharing`, that documents
with the same array have the same type and elements, and the finiteness that makes a fresh array exist. For the refinement
`BlockArrays` adds that only block blobs share, whose arrays nothing changes in place; so what a write
changes in view is one base blob, and a snapshot never.

**SqlBlobStoreProofs.** A transaction carries what it read over an await. For the properties without proviso
(`EtagsIdentifyContent`, `AccessChangesStand`) the argument is what it carries: the only etag is that of a
snapshot, and it comes with its content, so `Coherent` is stated of the rows in the table and of those under way together.
For the serial properties (`LeasesGuardContent`, `SerialStoreImplementsBlobService`) it is that a
transaction is `alone` until another commits, and what an `alone` transaction has checked still holds when it commits
(`Fresh`, one clause per kind). `IInv` (`SqlInvariant`) is their conjunction with the types and the unique key of the table.

**RequestPipelineProofs.** `PipelineInvariant`: `IInv` = `Timely` + `Shaped` + `Staged` + `Judgement` + `PreflightsStand`.
`Staged` is what is known of the context at each stage (an operation has been dispatched from strict mode
on, no error before a handler ran, the status at the end is that of the handler or of the error, and after the handler the only
errors are the two of its answer): `AnswersTellOutcome`.
`Judgement` says that a request behind the authenticators is `Admitted`: by a key, a token, public
access to something it only reads, or a signature whose terms were signed and one of whose grants suits the operation and was in
force. Policies change between the steps, so grants are those stored since the request arrived, a set that only grows; this is
what makes `Admitted` last. Behind it is one lemma per authenticator and version of the string to sign. From it
`GrantsSuitOperations`, `GrantsWereInForce`, `SignaturesBindTerms`. `PreflightsStand`: the rule that granted a preflight
is still there, and any rule that allows origin and method lets the CORS middleware find one, if it does not fail on the headers of the answer: `PreflightsAreHonoured`.
Of a Bearer token no more is claimed than that one was presented: its check is the authenticator's, which `Admitted` does not repeat.
The theorems are for any requests, stored policies, rules and times. The tables of operations and errors are data; four
assumptions without parameters (`StatusesKnown`, `LettersSuit`, `ErrorsFail`, `ResourcesAgree`) state what the proofs use of them, and
TLC, which evaluates them on all tables completely, decides them. `SignaturesParsed` says what a parsed signature looks like, and of those issued, not of those presented, that
one for a blob names a blob, and that nobody issues one with both a user delegation key and the identifier of a
policy: the string signed with such a key has no place for an identifier.

**ReadingProofs.** First the listings. `ListedOnce` and `MarkersGoForward`, under `Orderly`: distinct names and keys for every
listing, and for the one that is asked for, if it is that of queues, that they were created in the order of their names, for Loki's
`filterBlobs` that all tags match, for blobs in SQL one snapshot per page. Nothing in the code sees to these three; without them
`ListedExactlyOnce` fails (section 4), so of queues the theorems say less than a client would expect. `ListingInv`: of what was there all the time,
everything before the marker has been told of once and nothing behind it has been listed (`Progress`); and a page that is being
filled holds exactly the first `offset` items of what it was read from (`PageInv`). Sorting is looked at by ranks: the k-th
item of a set is the one with k - 1 predecessors (`RanksEnumerate`), so that a page is all items before its last. The
pages of blobs are folds; `FoldFills` unrolls `FoldLeft` one item at a time. Neither needs an induction theorem with an operator as
parameter: `NatsFrom` says that a set of numbers that contains m, and with every number the next, contains all from m on.
Then the page ranges. `PageRangesWritten`: Get Page Ranges lists exactly the written pages. `FirstBisection` and
`LastBisection`: on a list whose ranges lie in order and apart (`Tidy`), the recursion of the code, which tries the middle only when
one half found nothing, returns the first (last) range it should. `MergeRangeCovers`, `ClearRangeCovers` and `CutRangesCover` say of
`mergeRange()`, `clearRange()` and `cutRanges()` which positions the result covers, and that it is tidy again with each chunk as long as
its range; `PagesInv` is that the ranges of the blob are tidy and cover exactly the positions that hold a unit.
Last the contents: `ContentWrittenLast` and `DownloadAnswersOneVersion`. Both follow from `ContentInv`: the
chunks of the document's blocks, persistency and ranges, those of the staged blocks and that of a page write under way all lie inside
their extents and hold the units they were written for (`DocHolds`, `UploadHolds`), and the getter of a download reads what the blob held when the document
was read (`ReaderHolds`). It is kept because extents only grow, so that a chunk, once stored, keeps its units whatever is appended
behind it: that is why a document that is replaced does not disturb a download. What a getter reads is the concatenation
of its chunks (`BodyReads`): the two folds of `ReadExtents` are unrolled position by position, as for the listings, and
`FillZeroRanges` leaves no gap between the ranges it reads. The proof needs that a download asks for a range that does not end before it starts
(`BlobContentAssumption`): `deserializeRangeHeader()` in `src/blob/utils/utils.ts` refuses any other.

Type invariants of the lease, queue, extent store, collector and message modules are proved and not
checked again by a run of their own. Only model-checked are

- the liveness properties `EveryJobSettles`, `CloseResolves`, `GarbageCollected`: liveness under fairness is beyond the prover;
- `DispatchesToOperation`: a statement about the finite tables of operations, which the run enumerates completely; there is
  nothing to generalise.

## 6. Not modelled

- `models.ts` and `mappers.ts` of the generated layers: type declarations and names of fields.
- Parsers and formatters (tag and table queries, batch multipart texts, entity property types, XML): strings without
  state. Where their result matters it is a parameter (the blobs an expression selects, the operations of a batch).
- Crashes between two autosaves of the Loki files: their timers are those of the Loki adapter. Restarts
  after an orderly close are in `BlobGC` and `LokiBlobStore`.
- The accounting of `MemoryExtentStore`'s limit: a refused append changes nothing and is no step.
- MD5 and CRC64 of payloads, HTTP and TLS servers, configuration, telemetry, logging, the account store, VS Code.
- Page and append blobs in the SQL store: it creates them and does not write them.
- The collector of the queue: the life cycle is `GCManager`'s; its mark lists one collection by a unique increasing key,
  which is the easy half of `BlobGC`.

What could be added next: a mark and sweep of the queue's own extents, the batch of the blob service, and the tag queries, each as a
module of its own with TLC.
