---------------------------- MODULE BlobHandlers ----------------------------
(***************************************************************************)
(* The blob service as clients see it: ContainerHandler, BlobHandler,      *)
(* BlockBlobHandler, AppendBlobHandler and PageBlobHandler on top of       *)
(* LokiBlobMetadataStore.                                                  *)
(*                                                                         *)
(* A handler checks its parameters, may upload the body into the extent    *)
(* store, and calls one store method, which is the step here.  What a      *)
(* handler asks of the store before the upload (the container exists, the  *)
(* blob has the right type, the range starts within the blob) may be       *)
(* outdated when the store method runs, so those checks are no guards: a   *)
(* request may meet any state.  Refused requests change nothing.           *)
(***************************************************************************)
EXTENDS LokiBlobStore

CONSTANTS
    Ops,         \* the operations clients issue
    CopyTypes    \* the types of the blobs clients copy

----------------------------------------------------------------------------
(* ContainerHandler.                                                       *)

ContainerCreate(c) == "ContainerCreate" \in Ops /\ CreateContainer(c)

ContainerDelete(c, leaseId) == "ContainerDelete" \in Ops /\ DeleteContainer(c, leaseId)

ContainerAcquireLease(c, id) == "ContainerLease" \in Ops /\ AcquireContainerLease(c, id)
ContainerReleaseLease(c, id) == "ContainerLease" \in Ops /\ ReleaseContainerLease(c, id)
ContainerRenewLease(c, id)   == "ContainerLease" \in Ops /\ RenewContainerLease(c, id)
ContainerBreakLease(c)       == "ContainerLease" \in Ops /\ BreakContainerLease(c)
ContainerChangeLease(c, id, proposed) ==
    "ContainerLease" \in Ops /\ ChangeContainerLease(c, id, proposed)

----------------------------------------------------------------------------
(* BlobHandler.                                                            *)

BlobDelete(c, n, s, mode) == "BlobDelete" \in Ops /\ DeleteBlob(c, n, s, mode)

\* With x-ms-sequence-number-action the request is an update of the sequence
\* number and the headers sent with it are not set.
BlobSetHTTPHeaders(c, n, cond, action) ==
    /\ "BlobSetHTTPHeaders" \in Ops
    /\ \/ action = None /\ SetBlobHTTPHeaders(c, n, cond)
       \/ action # None /\ \E seq \in 0 .. 1 : UpdateSequenceNumber(c, n, cond, seq)

BlobSetMetadata(c, n, cond) == "BlobSetMetadata" \in Ops /\ SetBlobMetadata(c, n, cond)

BlobCreateSnapshot(c, n, t) == "BlobCreateSnapshot" \in Ops /\ CreateSnapshot(c, n, t)

\* A source named with a signature is read once with it before it is copied.
BlobStartCopyFromURL(src, c, n, cond, tier, seal) ==
    /\ "BlobStartCopyFromURL" \in Ops /\ src.type \in CopyTypes
    /\ StartCopyFromURL(src, c, n, cond, tier, seal)

BlobCopyFromURL(src, c, n, cond, tier) ==
    /\ "BlobCopyFromURL" \in Ops /\ src.type \in CopyTypes
    /\ CopyFromURL(src, c, n, cond, tier)

BlobSetTier(c, n, archived) == "BlobSetTier" \in Ops /\ SetTier(c, n, archived)

----------------------------------------------------------------------------
(* BlockBlobHandler.                                                       *)

\* One chunk, no block list.
BlockBlobUpload(c, n, cond, data) ==
    /\ "BlockBlobUpload" \in Ops
    /\ CreateBlob(c, n, cond, "block", <<[id |-> None, data |-> data]>>, 1)

BlockBlobStageBlock(c, n, id, data) ==
    "BlockBlobStageBlock" \in Ops /\ StageBlock(c, n, id, data)

BlockBlobCommitBlockList(c, n, cond, list) ==
    "BlockBlobCommitBlockList" \in Ops /\ CommitBlockList(c, n, cond, list)

----------------------------------------------------------------------------
(* AppendBlobHandler.                                                      *)

AppendBlobCreate(c, n, cond) ==
    "AppendBlobCreate" \in Ops /\ CreateBlob(c, n, cond, "append", EmptyContent("append"), 0)

AppendBlobAppendBlock(c, n, cond, data) ==
    "AppendBlobAppendBlock" \in Ops /\ AppendBlock(c, n, cond, data)

AppendBlobSeal(c, n, cond) == "AppendBlobSeal" \in Ops /\ SealBlob(c, n, cond)

----------------------------------------------------------------------------
(* PageBlobHandler.                                                        *)

PageBlobCreate(c, n, cond, len) ==
    "PageBlobCreate" \in Ops /\ CreateBlob(c, n, cond, "page", EmptyContent("page"), len)

PageBlobUploadPages(c, n, cond, from, to, data) ==
    "PageBlobUploadPages" \in Ops /\ UploadPages(c, n, cond, from, to, data)

PageBlobClearPages(c, n, cond, from, to) ==
    "PageBlobClearPages" \in Ops /\ ClearRange(c, n, cond, from, to)

PageBlobResize(c, n, cond, len) == "PageBlobResize" \in Ops /\ ResizePageBlob(c, n, cond, len)

PageBlobUpdateSequenceNumber(c, n, cond, seq) ==
    "PageBlobUpdateSequenceNumber" \in Ops /\ UpdateSequenceNumber(c, n, cond, seq)

----------------------------------------------------------------------------
ContainerNext(c) ==
    \/ ContainerCreate(c)
    \/ ContainerBreakLease(c)
    \/ \E id \in LeaseIds :
          \/ ContainerAcquireLease(c, id) \/ ContainerReleaseLease(c, id)
          \/ ContainerRenewLease(c, id)
          \/ \E proposed \in LeaseIds : ContainerChangeLease(c, id, proposed)
    \/ \E id \in LeaseIds \cup {None} : ContainerDelete(c, id)

BaseIs(c, n, types) == \E d \in Doc(c, n, 0) : d.committed /\ d.type \in types

PutNext(c, n, cond) ==
    \/ \E data \in Data : BlockBlobUpload(c, n, cond, data)
    \/ AppendBlobCreate(c, n, cond)
    \/ \E len \in 0 .. MaxLen : PageBlobCreate(c, n, cond, len)
    \/ \E list \in BlockLists : BlockBlobCommitBlockList(c, n, cond, list)
    \/ \E src \in blobs, tier \in {None, "Hot", "Archive"} :
          \/ BlobCopyFromURL(src, c, n, cond, tier)
          \/ \E seal \in BOOLEAN : BlobStartCopyFromURL(src, c, n, cond, tier, seal)

UpdateNext(c, n, cond) ==
    \/ BlobSetHTTPHeaders(c, n, cond, None)
    \/ BlobSetMetadata(c, n, cond)
    \/ /\ BaseIs(c, n, {"append"})
       /\ AppendBlobSeal(c, n, cond) \/ \E data \in Data : AppendBlobAppendBlock(c, n, cond, data)
    \/ /\ BaseIs(c, n, {"page"})
       /\ \/ \E len \in 0 .. MaxLen : PageBlobResize(c, n, cond, len)
          \/ \E seq \in 0 .. 1 : PageBlobUpdateSequenceNumber(c, n, cond, seq)
          \/ BlobSetHTTPHeaders(c, n, cond, "update")
          \/ \E from \in Pages : \E to \in from .. MaxLen - 1 :
                \E data \in Data : PageBlobUploadPages(c, n, cond, from, to, data)
    \/ \E from \in Pages : \E to \in from .. MaxLen - 1 : PageBlobClearPages(c, n, cond, from, to)

BlobNext(c, n) ==
    \/ etags < MaxEtags /\ \E cond \in Conditions : PutNext(c, n, cond)
    \/ /\ etags < MaxEtags /\ BaseIs(c, n, Types)
       /\ \E cond \in Conditions : UpdateNext(c, n, cond)
    \/ \E t \in Times : BlobCreateSnapshot(c, n, t)
    \/ \E s \in Times \cup {0}, mode \in Modes : BlobDelete(c, n, s, mode)
    \/ \E archived \in BOOLEAN : BlobSetTier(c, n, archived)
    \/ \E id \in BlockIds, data \in Data : BlockBlobStageBlock(c, n, id, data)

Next ==
    \/ \E c \in Containers : ContainerNext(c) \/ \E n \in Names : BlobNext(c, n)
    \/ "Restart" \in Ops /\ Restart

Spec == Init /\ [][Next]_vars
=============================================================================
