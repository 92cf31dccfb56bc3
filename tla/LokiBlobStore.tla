--------------------------- MODULE LokiBlobStore ---------------------------
(***************************************************************************)
(* The containers, blobs, snapshots and staged blocks of                   *)
(* LokiBlobMetadataStore, under every operation that changes them.         *)
(*                                                                         *)
(* A store method reads, checks and writes without I/O in between, so it   *)
(* is one step.  A method that throws changes nothing here (what it may    *)
(* still do to a lease is in BlobLease), so only successful calls are      *)
(* steps.  Blob leases are left to BlobLease: requests here carry the id   *)
(* that passes.  Container leases are kept, without their clock: durations *)
(* are infinite and breaks immediate.                                      *)
(*                                                                         *)
(* Documents are live JavaScript objects.  committedBlocksInOrder and      *)
(* pageRangesInOrder are arrays a document refers to.  Documents with the  *)
(* same `array' # 0 refer to one array, whose elements appendBlock (push)  *)
(* and the page operations (splice) change in place.  Every chunk and      *)
(* every page has length 1.                                                *)
(***************************************************************************)
EXTENDS Lease, BlobConditions, FiniteSets

CONSTANTS
    Containers, Names,
    Data,        \* payloads of chunks
    BlockIds,    \* ids of staged blocks
    IdLength,    \* the length of an id once decoded
    Times,       \* startTimes in ms; a snapshot is named by one, 0 is ""
    MaxEtags,    \* bound on the number of etags given out
    MaxDocs,     \* bound on the documents of blobs and snapshots
    MaxLen,      \* bound on chunks (MAX_APPEND_BLOB_BLOCK_COUNT) and pages
    Zero         \* what a page never written, or cleared, reads as

ASSUME LokiBlobStoreAssumption ==
    /\ Times \subseteq Nat \ {0}
    /\ MaxEtags \in Nat /\ MaxDocs \in Nat
    /\ MaxLen \in Nat \ {0}
    /\ Zero \notin Data

VARIABLES
    containers,  \* CONTAINERS_COLLECTION: the lease of each, None without one
    blobs,       \* BLOBS_COLLECTION
    blocks,      \* BLOCKS_COLLECTION: the staged blocks
    etags        \* number of etags given out: newEtag() never repeats one

vars == <<containers, blobs, blocks, etags>>

Types == {"block", "append", "page"}
Pages == 0 .. MaxLen - 1
Chunk == [id : BlockIds \cup {None}, data : Data]
PageMaps == [Pages -> Data \cup {Zero}]
Modes == {"base", "snapshot", "include", "only"}

Doc(c, n, s) == {d \in blobs : d.c = c /\ d.n = n /\ d.s = s}
DocsOf(c, n) == {d \in blobs : d.c = c /\ d.n = n}
BlocksOf(c, n) == {b \in blocks : b.c = c /\ b.n = n}
Exists(c) == containers[c] # None

\* What a client reads: contentLength cuts the array.
View(d) ==
    [type |-> d.type, sealed |-> d.sealed,
     body |-> IF d.type = "page"
              THEN [p \in Pages |-> IF p < d.len THEN d.content[p] ELSE None]
              ELSE [i \in 1 .. d.len |-> d.content[i].data]]

\* The identity of an array from when it is shared.
FreshArray == CHOOSE a \in 1 .. Cardinality(blobs) + 1 : \A d \in blobs : d.array # a

\* validateWriteConditions/validateReadConditions against a document or none.
Resource(docs) ==
    IF \E d \in docs : d.committed
    THEN LET d == CHOOSE d \in docs : d.committed
         IN [exist |-> TRUE, etag |-> d.etag, lastModified |-> 0, tag |-> NoTags]
    ELSE NoResource

Conditions ==
    {NoConditions, [NoConditions EXCEPT !.ifNoneMatch = <<Wildcard>>]}
        \cup {[NoConditions EXCEPT !.ifMatch = <<e>>] : e \in 1 .. etags}

NewEtag == etags < MaxEtags /\ etags' = etags + 1

----------------------------------------------------------------------------
(* Containers.                                                             *)

CreateContainer(c) ==
    /\ ~Exists(c)
    /\ containers' = [containers EXCEPT ![c] = AvailableLease]
    /\ UNCHANGED <<blobs, blocks, etags>>

\* deleteContainer: the container, its blobs and its staged blocks.
DeleteContainer(c, leaseId) ==
    /\ Exists(c)
    /\ WriteLeaseValid(containers[c], leaseId)
    /\ containers' = [containers EXCEPT ![c] = None]
    /\ blobs' = {d \in blobs : d.c # c}
    /\ blocks' = {b \in blocks : b.c # c}
    /\ UNCHANGED etags

SetContainerLease(c, lease) ==
    /\ containers' = [containers EXCEPT ![c] = lease]
    /\ UNCHANGED <<blobs, blocks, etags>>

AcquireContainerLease(c, id) ==
    /\ Exists(c)
    /\ AcquireAllowed(containers[c], Infinite, id)
    /\ SetContainerLease(c, Acquired(0, Infinite, id))

ReleaseContainerLease(c, id) ==
    /\ Exists(c)
    /\ ReleaseAllowed(containers[c], id)
    /\ SetContainerLease(c, AvailableLease)

RenewContainerLease(c, id) ==
    /\ Exists(c)
    /\ RenewAllowed(containers[c], id)
    /\ SetContainerLease(c, Renewed(containers[c], 0))

BreakContainerLease(c) ==
    /\ Exists(c)
    /\ BreakAllowed(containers[c], 0)
    /\ SetContainerLease(c, Break(containers[c], 0, 0))

ChangeContainerLease(c, id, proposed) ==
    /\ Exists(c)
    /\ ChangeAllowed(containers[c], id, proposed)
    /\ SetContainerLease(c, Changed(containers[c], proposed))

----------------------------------------------------------------------------
(* Writing whole blobs.                                                    *)

NewDoc(c, n, type, content, len) ==
    [c |-> c, n |-> n, s |-> 0, type |-> type, committed |-> TRUE,
     etag |-> etags', array |-> 0, content |-> content, len |-> len,
     sealed |-> FALSE, archived |-> FALSE, seq |-> 0]

EmptyContent(type) == IF type = "page" THEN [p \in Pages |-> Zero] ELSE <<>>

\* createBlob for the three Put Blob handlers.  Blocks staged under the name
\* are kept.  If-None-Match: * is refused by an uncommitted blob, too.
CreateBlob(c, n, cond, type, content, len) ==
    LET old == Doc(c, n, 0)
    IN /\ Exists(c)
       /\ WriteConditionsMet(cond, Resource(old))
       /\ ~(IsCreateOnly(cond) /\ old # {})
       /\ \A d \in old : ~d.archived
       /\ NewEtag
       /\ blobs' = (blobs \ old) \cup {NewDoc(c, n, type, content, len)}
       /\ UNCHANGED <<containers, blocks>>

\* Faulty variant: the snapshot refers to the base blob's array.
CreateSnapshotShared(c, n, t) ==
    /\ Exists(c) /\ Cardinality(blobs) < MaxDocs
    /\ \E d \in Doc(c, n, 0) :
          /\ d.committed
          /\ LET a == IF d.array = 0 THEN FreshArray ELSE d.array
             IN blobs' = (blobs \ {d}) \cup {[d EXCEPT !.array = a], [d EXCEPT !.array = a, !.s = t]}
    /\ UNCHANGED <<containers, blocks, etags>>

\* createSnapshot: insert() does not look for a snapshot of the same time.
\* The arrays are sliced.
CreateSnapshot(c, n, t) ==
    /\ Exists(c) /\ Cardinality(blobs) < MaxDocs
    /\ \E d \in Doc(c, n, 0) :
          /\ d.committed
          /\ blobs' = blobs \cup {[d EXCEPT !.s = t, !.array = 0]}
    /\ UNCHANGED <<containers, blocks, etags>>

\* Faulty variant: a base blob is deleted although it has snapshots.
DeleteBlobUnchecked(c, n, s, mode) ==
    /\ Exists(c)
    /\ Doc(c, n, s) # {}
    /\ s # 0 <=> mode = "snapshot"
    /\ blobs' = CASE mode = "base"     -> blobs \ Doc(c, n, 0)
                  [] mode = "snapshot" -> blobs \ Doc(c, n, s)
                  [] mode = "include"  -> blobs \ DocsOf(c, n)
                  [] mode = "only"     -> blobs \ {d \in DocsOf(c, n) : d.s # 0}
    /\ UNCHANGED <<containers, blocks, etags>>

\* deleteBlob: x-ms-delete-snapshots is absent (base), include or only; a
\* request for a snapshot must not send it.  Staged blocks stay.
DeleteBlob(c, n, s, mode) ==
    /\ Exists(c)
    /\ Doc(c, n, s) # {}
    /\ s # 0 <=> mode = "snapshot"
    /\ mode = "base" => Cardinality(DocsOf(c, n)) = 1
    /\ blobs' = CASE mode \in {"base", "include"} -> blobs \ DocsOf(c, n)
                  [] mode = "snapshot" -> blobs \ Doc(c, n, s)
                  [] mode = "only"     -> blobs \ {d \in DocsOf(c, n) : d.s # 0}
    /\ UNCHANGED <<containers, blocks, etags>>

\* Inserting the copy of src: it refers to the arrays of src.
InsertCopy(src, c, n, sealed, archived) ==
    LET array == IF src.array = 0 THEN FreshArray ELSE src.array
        shared == [src EXCEPT !.array = array]
        copy == [shared EXCEPT !.c = c, !.n = n, !.s = 0, !.etag = etags',
                               !.sealed = sealed, !.archived = archived]
    IN blobs' = {d \in (blobs \ {src}) \cup {shared} : ~(d.c = c /\ d.n = n /\ d.s = 0)}
                \cup {copy}

\* The checks startCopyFromURL and copyFromURL share.
CopyAllowed(src, c, n, cond) ==
    /\ src.committed /\ Exists(src.c) /\ Exists(c)
    /\ WriteConditionsMet(cond, Resource(Doc(c, n, 0)))
    /\ ~(IsCreateOnly(cond) /\ Doc(c, n, 0) # {})

\* startCopyFromURL: an archived source needs a tier for the copy, which only
\* a block blob takes; an append blob is sealed as x-ms-seal-blob says.
StartCopyFromURL(src, c, n, cond, tier, seal) ==
    /\ CopyAllowed(src, c, n, cond)
    /\ src.archived => tier # None
    /\ tier # None => src.type # "page"
    /\ NewEtag
    /\ InsertCopy(src, c, n, IF src.type = "append" THEN seal ELSE src.sealed,
                  src.type = "block" /\ tier = "Archive")
    /\ UNCHANGED <<containers, blocks>>

\* copyFromURL: no archived source; the seal is the source's.
CopyFromURL(src, c, n, cond, tier) ==
    /\ CopyAllowed(src, c, n, cond)
    /\ ~src.archived
    /\ tier # None => src.type # "page"
    /\ NewEtag
    /\ InsertCopy(src, c, n, src.sealed, src.type = "block" /\ tier = "Archive")
    /\ UNCHANGED <<containers, blocks>>

----------------------------------------------------------------------------
(* Changing a blob in place.                                               *)

\* doc after the change `new', every document sharing its array with the new
\* elements.
Mutated(doc, new) ==
    {IF d = doc THEN new
     ELSE IF d.array # 0 /\ d.array = doc.array THEN [d EXCEPT !.content = new.content] ELSE d
        : d \in blobs}

\* A committed base blob that meets the conditions becomes New(doc).
UpdateBlob(c, n, cond, Allowed(_), New(_)) ==
    /\ Exists(c)
    /\ \E doc \in Doc(c, n, 0) :
          /\ doc.committed
          /\ WriteConditionsMet(cond, Resource({doc}))
          /\ Allowed(doc)
          /\ NewEtag
          /\ blobs' = Mutated(doc, [New(doc) EXCEPT !.etag = etags'])
    /\ UNCHANGED <<containers, blocks>>

AnyDoc(doc) == TRUE
Same(doc) == doc
IsPage(doc) == doc.type = "page"

SetBlobHTTPHeaders(c, n, cond) ==
    UpdateBlob(c, n, cond, AnyDoc, Same)

SetBlobMetadata(c, n, cond) ==
    UpdateBlob(c, n, cond, AnyDoc, Same)

\* setTier: a block blob's access tier; the etag stays.
SetTier(c, n, archived) ==
    /\ Exists(c)
    /\ \E doc \in Doc(c, n, 0) :
          /\ doc.committed /\ doc.type = "block"
          /\ blobs' = (blobs \ {doc}) \cup {[doc EXCEPT !.archived = archived]}
    /\ UNCHANGED <<containers, blocks, etags>>

\* appendBlock: push in place; contentLength is the document's own.
AppendBlock(c, n, cond, data) ==
    LET Allowed(doc) == /\ ~doc.sealed /\ doc.type = "append"
                        /\ Len(doc.content) < MaxLen
        New(doc) == [doc EXCEPT !.len = doc.len + 1,
                        !.content = Append(doc.content, [id |-> None, data |-> data])]
    IN UpdateBlob(c, n, cond, Allowed, New)

\* sealBlob
SealBlob(c, n, cond) ==
    LET Allowed(doc) == doc.type = "append"
        New(doc) == [doc EXCEPT !.sealed = TRUE]
    IN UpdateBlob(c, n, cond, Allowed, New)

\* mergeRange and clearRange of PageBlobRangesManager, as a map of pages.
SetPages(content, from, to, data) ==
    [p \in Pages |-> IF from =< p /\ p =< to THEN data ELSE content[p]]

\* uploadPages.  The handler's check that the range starts within the blob
\* precedes the upload of the body, so a resize may come in between.
UploadPages(c, n, cond, from, to, data) ==
    LET New(doc) == [doc EXCEPT !.content = SetPages(doc.content, from, to, data)]
    IN UpdateBlob(c, n, cond, IsPage, New)

\* clearRange asks for no type: a blob that has replaced the page blob since
\* the handler looked has no ranges, and gets a new etag.
ClearRange(c, n, cond, from, to) ==
    LET New(doc) == IF IsPage(doc)
                    THEN [doc EXCEPT !.content = SetPages(doc.content, from, to, Zero)]
                    ELSE doc
    IN UpdateBlob(c, n, cond, AnyDoc, New)

\* resizePageBlob: shrinking clears what is cut off.
ResizePageBlob(c, n, cond, len) ==
    LET New(doc) == [doc EXCEPT !.len = len,
                        !.content = IF doc.len > len
                                    THEN SetPages(doc.content, len, doc.len - 1, Zero)
                                    ELSE doc.content]
    IN UpdateBlob(c, n, cond, IsPage, New)

\* updateSequenceNumber: max, increment or update, within the bound 1.
UpdateSequenceNumber(c, n, cond, seq) ==
    LET New(doc) == [doc EXCEPT !.seq = seq]
    IN UpdateBlob(c, n, cond, IsPage, New)

----------------------------------------------------------------------------
(* Block lists.                                                            *)

\* stageBlock looks for a document by name alone, so with snapshots it may
\* check the type of one of those instead of the base blob's.  The id must be
\* as long as some block's that is staged; without a document nobody looks.
StageBlock(c, n, id, data) ==
    /\ Exists(c)
    /\ \/ /\ DocsOf(c, n) = {}
          /\ NewEtag
          /\ blobs' = blobs \cup {[NewDoc(c, n, "block", <<>>, 0) EXCEPT !.committed = FALSE]}
       \/ /\ \E d \in DocsOf(c, n) : d.type = "block"
          /\ \/ BlocksOf(c, n) = {}
             \/ \E b \in BlocksOf(c, n) : IdLength[b.id] = IdLength[id]
          /\ UNCHANGED <<blobs, etags>>
    /\ blocks' = {b \in blocks : ~(b \in BlocksOf(c, n) /\ b.id = id)}
                 \cup {[c |-> c, n |-> n, id |-> id, data |-> data]}
    /\ UNCHANGED containers

\* The chunk a block list entry selects; {} is InvalidBlockList.  Of several
\* committed blocks with one id the map keeps the last.
Selected(doc, staged, entry) ==
    LET uncommitted == {[id |-> b.id, data |-> b.data] : b \in {b \in staged : b.id = entry.id}}
        places == IF doc = {} THEN {}
                  ELSE LET d == CHOOSE d \in doc : TRUE
                       IN {i \in DOMAIN d.content : d.content[i].id = entry.id}
        committed == IF places = {} THEN {}
                     ELSE LET d == CHOOSE d \in doc : TRUE
                          IN {d.content[CHOOSE i \in places : \A j \in places : j =< i]}
    IN CASE entry.from = "uncommitted" -> uncommitted
         [] entry.from = "committed"   -> committed
         [] entry.from = "latest"      -> IF uncommitted # {} THEN uncommitted ELSE committed

BlockLists ==
    UNION {[1 .. k -> [id : BlockIds, from : {"uncommitted", "committed", "latest"}]]
             : k \in 0 .. MaxLen}

\* commitBlockList: the blob becomes the selected blocks in a new array and
\* all blocks staged under the name are dropped.
CommitBlockList(c, n, cond, list) ==
    LET doc == Doc(c, n, 0)
        selected == [i \in DOMAIN list |-> Selected(doc, BlocksOf(c, n), list[i])]
    IN /\ Exists(c)
       /\ WriteConditionsMet(cond, Resource(doc))
       /\ ~(IsCreateOnly(cond) /\ \E d \in doc : d.committed)
       /\ \A d \in doc : d.type = "block"
       /\ \A i \in DOMAIN list : selected[i] # {}
       /\ NewEtag
       /\ blobs' = (blobs \ doc) \cup
             {NewDoc(c, n, "block", [i \in DOMAIN list |-> CHOOSE x \in selected[i] : TRUE], Len(list))}
       /\ blocks' = blocks \ BlocksOf(c, n)
       /\ UNCHANGED containers

\* close() saves the collections, init() loads them: every document gets
\* arrays of its own.
Restart ==
    /\ blobs' = {[d EXCEPT !.array = 0] : d \in blobs}
    /\ UNCHANGED <<containers, blocks, etags>>

----------------------------------------------------------------------------
(* Reads.                                                                  *)

\* downloadBlob and getBlobProperties: the documents findOne may return.
DownloadBlob(c, n, s) == {d \in Doc(c, n, s) : Exists(c) /\ d.committed}

\* listBlobs of a whole container.
ListBlobs(c, includeSnapshots, includeUncommitted) ==
    {d \in blobs : /\ d.c = c
                   /\ includeSnapshots \/ d.s = 0
                   /\ includeUncommitted \/ d.committed}

----------------------------------------------------------------------------
Init ==
    /\ containers = [c \in Containers |-> None]
    /\ blobs = {} /\ blocks = {}
    /\ etags = 0

----------------------------------------------------------------------------
(* Properties.                                                             *)

\* The documents have the shape that the handlers give them.
TypeOK ==
    /\ containers \in [Containers -> ILease \cup {None}]
    /\ \A d \in blobs :
          /\ d.c \in Containers /\ d.n \in Names /\ d.s \in Times \cup {0}
          /\ d.type \in Types /\ d.committed \in BOOLEAN /\ d.etag \in 1 .. etags
          /\ d.content \in (IF d.type = "page" THEN PageMaps ELSE Seq(Chunk))
          /\ d.len \in 0 .. MaxLen
          /\ d.type # "page" => d.len =< Len(d.content)
          /\ d.sealed \in BOOLEAN /\ d.archived \in BOOLEAN /\ d.seq \in 0 .. 1
    /\ \A b \in blocks : b.c \in Containers /\ b.n \in Names /\ b.id \in BlockIds /\ b.data \in Data
    /\ etags \in 0 .. MaxEtags

\* The collections have no key: that a name has at most one base blob, that a
\* snapshot has a committed base blob, that a block id is staged once, and that
\* nothing lies in a container that is gone (so a container created again
\* starts empty) rests on the methods of LokiBlobMetadataStore alone; and a
\* contentLength never reaches beyond the blocks it counts (TypeOK).
WellFormed ==
    /\ TypeOK
    /\ \A d, e \in blobs : d.s = 0 /\ e.s = 0 /\ d.c = e.c /\ d.n = e.n => d = e
    /\ \A d \in blobs : d.s # 0 => \E b \in Doc(d.c, d.n, 0) : b.committed
    /\ \A a, b \in blocks : a.c = b.c /\ a.n = b.n /\ a.id = b.id => a = b
    /\ \A d \in blobs \cup blocks : Exists(d.c)

\* What clients see through List Blobs.
Objects ==
    {[c |-> d.c, n |-> d.n, s |-> d.s, etag |-> d.etag, view |-> View(d)]
        : d \in UNION {ListBlobs(c, TRUE, FALSE) : c \in {c \in Containers : Exists(c)}}}

Views ==
    [type : {"block", "append"}, sealed : BOOLEAN,
     body : UNION {[1 .. k -> Data] : k \in 0 .. MaxLen}]
        \cup [type : {"page"}, sealed : {FALSE}, body : [Pages -> Data \cup {Zero, None}]]

Service == INSTANCE BlobService WITH
              containers <- {c \in Containers : Exists(c)},
              objects <- Objects,
              used <- 1 .. etags,
              Etags <- 1 .. MaxEtags

\* LokiBlobMetadataStore implements BlobService: a write changes one base blob
\* and gives it a new etag, snapshots and the other blobs stay as they are.
ImplementsBlobService == Service!Spec

=============================================================================
