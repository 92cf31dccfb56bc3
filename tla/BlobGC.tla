------------------------------- MODULE BlobGC -------------------------------
(***************************************************************************)
(* Mark and sweep over the extents of the blob service:                    *)
(* BlobGCManager.markSweep(), AllExtentsAsyncIterator,                     *)
(* BlobReferredExtentsAsyncIterator and the listings behind them, running  *)
(* against requests that append payloads to extents and only then refer    *)
(* to them from the blob metadata.                                         *)
(*                                                                         *)
(* A cycle takes the extents that were not modified lately, strikes out    *)
(* those that a listing of blobs and of uncommitted blocks finds in use,   *)
(* and deletes the rest, except the extents that are being appended to.    *)
(*                                                                         *)
(* With the Loki stores a listing never leaves the microtask queue: the    *)
(* rest of the server runs only while an unlink() is awaited.  With the    *)
(* SQL stores every page is a query, and requests run in between.          *)
(***************************************************************************)
EXTENDS GCManager, FiniteSets

CONSTANTS
    Extents,          \* extent ids: a bound on the uuids that are generated
    Slots,            \* active write extents of the FSExtentStore
    Docs,             \* keys of blob documents: container, name and snapshot
    Name,             \* the blob name of each document, as a number
    PageSize,         \* documents per page of listAllBlobs()
    Reqs,             \* requests that carry a payload
    NoExtent,         \* no chunk
    Sql,              \* BOOLEAN: the SQL stores instead of the Loki stores
    FillFirst,        \* BOOLEAN: the first append to an extent may fill it
                      \*   (Loki; always possible with the SQL stores)
    RotateCandidate,  \* BOOLEAN: a full extent may be replaced by a new one
                      \*   while the current cycle has it on its list
    MoveInMark,       \* BOOLEAN: chunks may move from one document to another
                      \*   between two pages of a listing
    CloseInMark       \* BOOLEAN: close() may arrive between two such pages

ASSUME GCAssumption ==
    /\ NoExtent \notin Extents
    /\ Name \in [Docs -> Nat \ {0}]
    /\ PageSize \in Nat \ {0}
    /\ {Sql, FillFirst, RotateCandidate, MoveInMark, CloseInMark} \subseteq BOOLEAN

VARIABLES
    active,     \* the extent of each slot
    full,       \* slots whose extent has reached MAX_EXTENT_SIZE
    usedIds,    \* extent ids handed out
    extents,    \* extent metadata of each extent
    disk,       \* extents that have a file
    blobs,      \* blob documents
    blocks,     \* uncommitted blocks: <<document, extent>>
    serving,    \* requests have been accepted since the process started
    req,        \* local variables of each request
    all,        \* the cycle's allExtents: what is left to delete
    lister,     \* state of the referred-extents iterator
    marker,     \* blobListingMarker: the last name listed
    victim      \* the extent whose unlink() is awaited

storeVars == <<active, full, usedIds, extents, disk>>
blobVars == <<blobs, blocks>>
cycleVars == <<all, lister, marker, victim>>
gcVars == <<managerVars, storeVars, blobVars, serving, req, cycleVars>>

\* The time stamp of an extent's metadata record: "none" (no record), "fresh"
\* (modified within the protection time), "old", or "unstamped".  Loki's
\* updateExtent() stores the first time stamp under another name than the one
\* that it updates and listExtents() compares.
Stamps == {"none", "unstamped", "fresh", "old"}

\* A document refers to extents through its persistency and its committed
\* blocks or page ranges.
Doc == [state : {"none", "uncommitted", "committed"},
        persistency : Extents \cup {NoExtent}, chunks : SUBSET Extents]

\* A request under way has its payload in an extent.
Req == [pc : {"appended"}, ext : Extents] \cup [pc : {"idle", "done"}, ext : {NoExtent}]

NoDoc == [state |-> "none", persistency |-> NoExtent, chunks |-> {}]

DocRefs(d) == blobs[d].chunks \cup ({blobs[d].persistency} \ {NoExtent})

BlockRefs == {b[2] : b \in blocks}

Referred == (UNION {DocRefs(d) : d \in Docs}) \cup BlockRefs

InFlight == {req[r].ext : r \in {q \in Reqs : req[q].pc = "appended"}}

ActiveIds == {active[s] : s \in Slots}

GCInit ==
    /\ ManagerInit
    /\ \E ids \in [Slots -> Extents] :
          /\ \A s, t \in Slots : s # t => ids[s] # ids[t]
          /\ active = ids
          /\ usedIds = {ids[s] : s \in Slots}
    /\ full = {}
    /\ extents = [e \in Extents |-> "none"]
    /\ disk = {}
    /\ blobs = [d \in Docs |-> NoDoc]
    /\ blocks = {}
    /\ serving = FALSE
    /\ req = [r \in Reqs |-> [pc |-> "idle", ext |-> NoExtent]]
    /\ all = {}
    /\ lister = "done"
    /\ marker = 0
    /\ victim = NoExtent

----------------------------------------------------------------------------
(* Requests.                                                               *)

\* Loki: from the first listing of a cycle up to an unlink() nothing else
\* runs.
OthersRun == Sql \/ loop \notin {"all", "referred", "sweep"}

\* updateExtent() at the end of an append.
Stamped(e) == IF extents[e] = "none" /\ ~Sql THEN "unstamped" ELSE "fresh"

\* appendExtent() takes the extent of a slot; a full extent is replaced by a
\* new one first.
TakeExtent(r, s, e) ==
    /\ OthersRun
    /\ serving
    /\ req[r].pc = "idle"
    /\ IF s \in full
       THEN e \notin usedIds /\ (RotateCandidate \/ active[s] \notin all)
       ELSE e = active[s]
    /\ active' = [active EXCEPT ![s] = e]
    /\ usedIds' = usedIds \cup {e}
    /\ UNCHANGED <<managerVars, blobVars, serving, cycleVars>>

\* The payload is in the file, which it may fill, and in the record.
AppendExtent(r) ==
    \E s \in Slots, e \in Extents, fills \in BOOLEAN :
        /\ TakeExtent(r, s, e)
        /\ fills => Sql \/ FillFirst \/ extents[e] # "none"
        /\ full' = IF fills THEN full \cup {s} ELSE full \ {s}
        /\ extents' = [extents EXCEPT ![e] = Stamped(e)]
        /\ disk' = disk \cup {e}
        /\ req' = [req EXCEPT ![r] = [pc |-> "appended", ext |-> e]]

\* The append fails: open() may have made the file, and the record stays as
\* it was, so that a new extent has a file and no record.  The payload counts
\* in the extent's size only if it was updateExtent() that failed (SQL).
AppendFails(r) ==
    \E s \in Slots, e \in Extents, fills \in BOOLEAN :
        /\ TakeExtent(r, s, e)
        /\ fills => Sql
        /\ full' = IF fills THEN full \cup {s} ELSE full \ {s}
        /\ disk' = disk \cup {e} \/ (~fills /\ disk' = disk)
        /\ req' = [req EXCEPT ![r] = [pc |-> "done", ext |-> NoExtent]]
        /\ UNCHANGED extents

\* The request is over; the chunk is referred to, or dropped by an error.
RequestEnds(r) ==
    /\ OthersRun
    /\ req[r].pc = "appended"
    /\ req' = [req EXCEPT ![r] = [pc |-> "done", ext |-> NoExtent]]
    /\ UNCHANGED <<managerVars, storeVars, serving, cycleVars>>

\* createBlob() replaces the document and leaves staged blocks alone.
CreateBlob(r, d) ==
    /\ RequestEnds(r)
    /\ blobs' = [blobs EXCEPT ![d] = 
                  [state |-> "committed", persistency |-> req[r].ext, chunks |-> {}]]
    /\ UNCHANGED blocks

\* stageBlock(), which makes an uncommitted document if there is none and
\* replaces a block staged under the same id.
StageBlock(r, d) ==
    /\ RequestEnds(r)
    /\ \E replaced \in {{}} \cup {{b} : b \in {c \in blocks : c[1] = d}} :
          blocks' = (blocks \ replaced) \cup {<<d, req[r].ext>>}
    /\ blobs' = [blobs EXCEPT ![d].state = IF @ = "none" THEN "uncommitted" ELSE @]

\* appendBlock() keeps all chunks; uploadPages() drops those it overwrites.
AppendBlock(r, d) ==
    /\ RequestEnds(r)
    /\ blobs[d].state = "committed"
    /\ \E kept \in SUBSET blobs[d].chunks :
          blobs' = [blobs EXCEPT ![d].chunks = kept \cup {req[r].ext}]
    /\ UNCHANGED blocks

\* A check fails between the append and the change of the metadata.
RequestFails(r) == RequestEnds(r) /\ UNCHANGED blobVars

\* A listing under way may miss a chunk that a request moves to a document
\* which has been listed already.
MovesAllowed == OthersRun /\ serving /\ (MoveInMark \/ loop # "referred")

\* commitBlockList() takes any of the uncommitted and committed blocks; the
\* persistency of an earlier document stays, all staged blocks go.
CommitBlockList(d) ==
    /\ MovesAllowed
    /\ LET staged == {b \in blocks : b[1] = d}
           known == {b[2] : b \in staged} \cup blobs[d].chunks
       IN /\ \E chosen \in SUBSET known :
                blobs' = [blobs EXCEPT ![d] = [state |-> "committed",
                            persistency |-> blobs[d].persistency, chunks |-> chosen]]
          /\ blocks' = blocks \ staged
    /\ UNCHANGED <<managerVars, storeVars, serving, req, cycleVars>>

\* startCopyFromURL(), copyFromURL() and createSnapshot().
CopyBlob(src, d) ==
    /\ MovesAllowed
    /\ src # d
    /\ blobs[src].state = "committed"
    /\ blobs' = [blobs EXCEPT ![d] = blobs[src]]
    /\ UNCHANGED <<managerVars, storeVars, blocks, serving, req, cycleVars>>

\* deleteBlob() leaves staged blocks alone.
DeleteBlob(d) ==
    /\ OthersRun
    /\ serving
    /\ blobs[d].state = "committed"
    /\ blobs' = [blobs EXCEPT ![d] = NoDoc]
    /\ UNCHANGED <<managerVars, storeVars, blocks, serving, req, cycleVars>>

\* DEFAULT_EXTENT_GC_PROTECT_TIME_IN_MS have passed since the last append.
\* It is assumed that a request refers to its chunk within that time.
ProtectionEnds(e) ==
    /\ extents[e] = "fresh"
    /\ e \notin InFlight
    /\ extents' = [extents EXCEPT ![e] = "old"]
    /\ UNCHANGED <<managerVars, active, full, usedIds, disk, blobVars, serving, req, cycleVars>>

----------------------------------------------------------------------------
(* The cycle.                                                              *)

\* Faulty variant: the protection time is not passed to listExtents().
ListedUnprotected == {e \in Extents : extents[e] # "none"}

\* listExtents(): records without a time stamp count as old.
Listed == {e \in Extents : extents[e] \in {"old", "unstamped"}}

\* getAllExtents().  Its pages are by a unique key and lose nothing.
GetAllExtents ==
    /\ GotAllExtents
    /\ all' = IF status = "Running" THEN Listed ELSE {}
    /\ lister' = "blobs"
    /\ marker' = 0
    /\ UNCHANGED <<storeVars, blobVars, serving, req, victim>>

\* Documents behind the marker, in the order of their names.
Remaining == {d \in Docs : blobs[d].state # "none" /\ Name[d] > marker}

IsPage(page) ==
    /\ page \subseteq Remaining
    /\ Cardinality(page) =< PageSize
    /\ Cardinality(page) < PageSize => page = Remaining
    /\ \A d \in page, f \in Remaining \ page : Name[d] =< Name[f]

\* A page of listAllBlobs().  The next one starts behind the last NAME.
ListBlobs ==
    /\ loop = "referred" /\ status = "Running" /\ lister = "blobs"
    /\ \E page \in SUBSET Docs :
          /\ IsPage(page)
          /\ all' = all \ UNION {DocRefs(d) : d \in page}
          /\ IF page = Remaining
             THEN lister' = "blocks" /\ UNCHANGED marker
             ELSE /\ marker' \in {Name[d] : d \in page}
                  /\ \A d \in page : Name[d] =< marker'
                  /\ UNCHANGED lister
    /\ UNCHANGED <<managerVars, storeVars, blobVars, serving, req, victim>>

\* listUncommittedBlockPersistencyChunks(), whose pages are by a unique key.
ListBlocks ==
    /\ loop = "referred" /\ status = "Running" /\ lister = "blocks"
    /\ all' = all \ BlockRefs
    /\ lister' = "done"
    /\ UNCHANGED <<managerVars, storeVars, blobVars, serving, req, marker, victim>>

\* The iteration ends when there is nothing more, or when close() has changed
\* the status.
EndMark ==
    /\ lister = "done" \/ status # "Running"
    /\ GotReferredExtents
    /\ UNCHANGED <<storeVars, blobVars, serving, req, cycleVars>>

\* deleteExtents() passes over an active extent.
SkipActive(e) ==
    /\ loop = "sweep"
    /\ e \in all
    /\ e \in ActiveIds
    /\ all' = all \ {e}
    /\ UNCHANGED <<managerVars, storeVars, blobVars, serving, req, lister, marker, victim>>

\* deleteExtents() takes the next extent that is not active.
UnlinkExtent(e) ==
    /\ e \in all
    /\ e \notin ActiveIds
    /\ Unlink
    /\ victim' = e
    /\ all' = all \ {e}
    /\ UNCHANGED <<storeVars, blobVars, serving, req, lister, marker>>

\* unlink() has worked.
FileUnlinked ==
    /\ loop = "unlink"
    /\ victim \in disk
    /\ disk' = disk \ {victim}
    /\ UNCHANGED <<managerVars, active, full, usedIds, extents, blobVars, serving, req, cycleVars>>

\* Faulty variant: the record goes whether the file has gone or not.
ExtentDeletedRecordOnly ==
    /\ Unlinked
    /\ extents' = [extents EXCEPT ![victim] = "none"]
    /\ victim' = NoExtent
    /\ UNCHANGED <<active, full, usedIds, disk, blobVars, serving, req, all, lister, marker>>

\* After unlink(), or when there was no file (ENOENT), the record goes too.
ExtentDeleted ==
    /\ Unlinked
    /\ victim \notin disk
    /\ extents' = [extents EXCEPT ![victim] = "none"]
    /\ victim' = NoExtent
    /\ UNCHANGED <<active, full, usedIds, disk, blobVars, serving, req, all, lister, marker>>

\* Any other error of unlink(), and an error of deleteExtent() after it, is
\* ignored: the record is listed again in the next cycle.
UnlinkFails ==
    /\ Unlinked
    /\ victim' = NoExtent
    /\ UNCHANGED <<storeVars, blobVars, serving, req, all, lister, marker>>

EndSweep ==
    /\ all = {}
    /\ Swept
    /\ UNCHANGED <<storeVars, blobVars, serving, req, cycleVars>>

EndSleep == Wake /\ UNCHANGED <<storeVars, blobVars, serving, req, cycleVars>>

\* BlobServer.beforeStart() starts the collector before the server listens.
StartGC ==
    /\ ~serving
    /\ \/ Start /\ UNCHANGED serving
       \/ Initialized /\ serving' = TRUE
       \/ InitFails /\ UNCHANGED serving
    /\ UNCHANGED <<storeVars, blobVars, req, cycleVars>>

\* BlobServer.afterClose() closes it; requests accepted earlier still run.
CloseGC(c) ==
    /\ OthersRun
    /\ serving
    /\ CloseInMark \/ loop # "referred"
    /\ Close(c)
    /\ UNCHANGED <<storeVars, blobVars, serving, req, cycleVars>>

EndLoop ==
    /\ LoopClosed
    /\ UNCHANGED <<storeVars, blobVars, serving, req, cycleVars>>

FailCycle ==
    /\ LoopFails
    /\ all' = {}
    /\ victim' = NoExtent
    /\ UNCHANGED <<storeVars, blobVars, serving, req, lister, marker>>

\* A new process: the FSExtentStore begins with new extents.  Requests that
\* were under way have failed.
Restart ==
    /\ serving \/ status = "Initializing"
    /\ Recreated
    /\ InFlight = {}
    /\ \E ids \in [Slots -> Extents \ usedIds] :
          /\ \A s, t \in Slots : s # t => ids[s] # ids[t]
          /\ active' = ids
          /\ usedIds' = usedIds \cup {ids[s] : s \in Slots}
    /\ full' = {}
    /\ serving' = FALSE
    /\ UNCHANGED <<extents, disk, blobVars, req, cycleVars>>

CycleStep ==
    \/ GetAllExtents \/ ListBlobs \/ ListBlocks \/ EndMark
    \/ \E e \in Extents : SkipActive(e) \/ UnlinkExtent(e)
    \/ FileUnlinked \/ ExtentDeleted \/ UnlinkFails \/ EndSweep \/ EndLoop

GCNext ==
    \/ \E r \in Reqs : AppendExtent(r) \/ AppendFails(r) \/ RequestFails(r)
    \/ \E r \in Reqs, d \in Docs : CreateBlob(r, d) \/ StageBlock(r, d) \/ AppendBlock(r, d)
    \/ \E d \in Docs : CommitBlockList(d) \/ DeleteBlob(d)
    \/ \E src, d \in Docs : CopyBlob(src, d)
    \/ \E e \in Extents : ProtectionEnds(e)
    \/ CycleStep \/ FailCycle \/ EndSleep \/ StartGC \/ Restart
    \/ \E c \in Closers : CloseGC(c)

GCSpec == GCInit /\ [][GCNext]_gcVars

\* Promises settle, the timer fires, time passes, and deletions that are tried
\* in cycle after cycle do not fail for ever.
GCFairness ==
    /\ WF_gcVars(CycleStep \/ EndSleep)
    /\ \A e \in Extents : WF_gcVars(ProtectionEnds(e))
    /\ SF_gcVars(FileUnlinked \/ ExtentDeleted)

FairGCSpec == GCSpec /\ GCFairness

----------------------------------------------------------------------------
(* Properties.                                                             *)

\* Types of the collector's variables.
GCTypeOK ==
    /\ ManagerTypeOK
    /\ active \in [Slots -> Extents]
    /\ full \subseteq Slots
    /\ usedIds \subseteq Extents
    /\ extents \in [Extents -> Stamps]
    /\ disk \subseteq Extents
    /\ blobs \in [Docs -> Doc]
    /\ blocks \subseteq Docs \X Extents
    /\ serving \in BOOLEAN
    /\ req \in [Reqs -> Req]
    /\ all \subseteq Extents
    /\ lister \in {"blobs", "blocks", "done"}
    /\ marker \in Nat
    /\ victim \in Extents \cup {NoExtent}

\* The collector deletes only what nobody needs: every extent that a blob, a
\* snapshot or an uncommitted block refers to, and every extent that holds
\* the payload of a request under way, has its file and its record.
ReferredOnDisk ==
    \A e \in Referred \cup InFlight : e \in disk /\ extents[e] # "none"

\* An extent that is recorded and that nobody needs.
Garbage(e) == extents[e] # "none" /\ e \notin Referred \cup InFlight \cup ActiveIds

\* While the collector runs no recorded extent remains garbage for ever, and
\* its record, by which a later cycle would find it, goes only when the file
\* has gone: the protection time, the skipped active extents, failed deletions
\* and deletions broken off between the file and the record only put it off.
\* Nothing is claimed of a file without a record, which an append that failed
\* leaves in a new extent (AppendFails): no cycle ever lists it.
GarbageCollected ==
    /\ \A e \in Extents : []<>~(Garbage(e) /\ status = "Running")
    /\ [][\A e \in Extents :
            extents[e] # "none" /\ extents'[e] = "none" => e \notin disk']_gcVars
=============================================================================
