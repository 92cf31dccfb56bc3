----------------------------- MODULE BlobLease -----------------------------
(***************************************************************************)
(* The lease of one blob under every operation of LokiBlobMetadataStore    *)
(* that reads, checks or changes it.                                       *)
(*                                                                         *)
(* A request takes its startTime when it arrives (blobStorageContext       *)
(* middleware) and all lease decisions compare stored times with that      *)
(* startTime.  Authentication, body upload and the extent store lie        *)
(* between arrival and the metadata operation, so requests are applied in  *)
(* an order that need not be that of their start times: an operation       *)
(* applied at server time `now' has any startTime in now-MaxDelay .. now.  *)
(* Loki operations have no I/O between their reads and writes, so applying *)
(* one is a single step.                                                   *)
(*                                                                         *)
(* Operations on a blob that does not exist fail with BlobNotFound and     *)
(* change nothing; only the operations that create a blob are enabled      *)
(* then.  The blob has no snapshots: where it has some and was written     *)
(* after them, stageBlock, which looks the blob up by name only, may find  *)
(* a snapshot's document and judge by its empty lease.                     *)
(***************************************************************************)
EXTENDS Lease

CONSTANTS
    Uuids,         \* ids the server generates (uuid()), never proposed before
    Durations,     \* the x-ms-lease-duration values clients send
    BreakPeriods,  \* the x-ms-lease-break-period values, None for no header
    Ops,           \* the operations clients issue
    MaxTime,       \* bound on the clock
    MaxDelay       \* bound on the time between arrival and metadata operation

ASSUME BlobLeaseAssumption ==
    /\ Uuids \subseteq LeaseIds
    /\ Durations \subseteq Int
    /\ BreakPeriods \subseteq Int \cup {None}
    /\ MaxTime \in Nat
    /\ MaxDelay \in Nat

LeaseIdOption == LeaseIds \cup {None}

WriteOps == {"createBlob", "setBlobMetadata", "stageBlock", "startCopyFromURL",
             "copyFromURL", "sealBlob", "deleteBlob"}
LeaseOps == {"acquire", "renew", "change", "release", "break"}
AllOps == WriteOps \cup LeaseOps \cup {"downloadBlob"}

VARIABLES
    now,      \* the server's clock
    blob,     \* the stored lease of the base blob; None when there is no blob
    issued,   \* uuids generated so far
    last,     \* the last operation: name, lease id presented, outcome
    granted,  \* history: duration of the last acquisition (None: infinite)
    dirty     \* history: blob written while unlocked since the last
              \* acquisition, by an operation other than startCopyFromURL

vars == <<now, blob, issued, last, granted, dirty>>

\* Outcomes: done, refused because of the lease, refused for another reason.
Response == [op : AllOps \cup {None}, leaseId : LeaseIdOption,
             outcome : {"ok", "refused", "invalid"}]

StartTimes == {t \in 0 .. now : now - MaxDelay =< t}

Init ==
    /\ now = 0
    /\ blob = None
    /\ issued = {}
    /\ last = [op |-> None, leaseId |-> None, outcome |-> "ok"]
    /\ granted = None
    /\ dirty = FALSE

Responded(op, leaseId, ok) ==
    last' = [op |-> op, leaseId |-> leaseId,
             outcome |-> IF ok THEN "ok" ELSE "refused"]

\* getBlobWithLeaseUpdated: the doc as its startTime sees it.  The doc is a
\* live Loki reference, so the update stays even when the operation fails.
BlobWithLeaseUpdated(startTime) == CreateLeaseState(blob, startTime)

----------------------------------------------------------------------------
(* Lease operations.                                                       *)

AcquireBlobLease(t, duration, proposed) ==
    /\ "acquire" \in Ops
    /\ blob # None
    /\ LET seen == BlobWithLeaseUpdated(t)
           ok == AcquireAllowed(seen, duration, proposed)
       IN /\ Responded("acquire", proposed, ok)
          /\ \/ /\ ok /\ proposed # None
                /\ blob' = Acquired(t, duration, proposed)
                /\ UNCHANGED issued
             \/ /\ ok /\ proposed = None
                /\ \E id \in Uuids \ issued :
                      /\ blob' = Acquired(t, duration, id)
                      /\ issued' = issued \cup {id}
             \/ ~ok /\ blob' = seen /\ UNCHANGED issued
          /\ granted' = IF ok THEN blob'.leaseDurationSeconds ELSE granted
          /\ dirty' = (dirty /\ ~ok)
    /\ UNCHANGED now

RenewBlobLease(t, leaseId) ==
    /\ "renew" \in Ops
    /\ blob # None
    /\ LET seen == BlobWithLeaseUpdated(t)
           ok == RenewAllowed(seen, leaseId)
       IN /\ Responded("renew", leaseId, ok)
          /\ blob' = IF ok THEN Renewed(seen, t) ELSE seen
    /\ UNCHANGED <<now, issued, granted, dirty>>

ChangeBlobLease(t, leaseId, proposed) ==
    /\ "change" \in Ops
    /\ blob # None
    /\ LET seen == BlobWithLeaseUpdated(t)
           ok == ChangeAllowed(seen, leaseId, proposed)
       IN /\ Responded("change", leaseId, ok)
          /\ blob' = IF ok THEN Changed(seen, proposed) ELSE seen
    /\ UNCHANGED <<now, issued, granted, dirty>>

ReleaseBlobLease(t, leaseId) ==
    /\ "release" \in Ops
    /\ blob # None
    /\ LET seen == BlobWithLeaseUpdated(t)
           ok == ReleaseAllowed(seen, leaseId)
       IN /\ Responded("release", leaseId, ok)
          /\ blob' = IF ok THEN AvailableLease ELSE seen
    /\ UNCHANGED <<now, issued, granted, dirty>>

BreakBlobLease(t, period) ==
    /\ "break" \in Ops
    /\ blob # None
    /\ LET seen == BlobWithLeaseUpdated(t)
           ok == BreakAllowed(seen, period)
       IN /\ Responded("break", None, ok)
          /\ blob' = IF ok THEN Break(seen, t, period) ELSE seen
    /\ UNCHANGED <<now, issued, granted, dirty>>

----------------------------------------------------------------------------
(* Operations on the blob that respect its lease.                          *)

\* The write happened while nobody held the lease: later renewals of an
\* earlier lease would hide it from the earlier holder.
Written(seen, ok) == dirty' = (dirty \/ (ok /\ seen.leaseStatus = "unlocked"))

\* createBlob (Put Blob): validates against the time-updated lease, but only
\* the new document receives it, so a refused request leaves the stored one.
CreateBlob(t, leaseId) ==
    /\ "createBlob" \in Ops
    /\ IF blob = None
       THEN /\ Responded("createBlob", leaseId, TRUE)
            /\ blob' = AvailableLease
            /\ dirty' = FALSE
       ELSE LET seen == BlobWithLeaseUpdated(t)
                ok == WriteLeaseValid(seen, leaseId)
            IN /\ Responded("createBlob", leaseId, ok)
               /\ blob' = IF ok THEN WriteLeaseSync(seen) ELSE blob
               /\ Written(seen, ok)
    /\ UNCHANGED <<now, issued, granted>>

\* Faulty variant: the lease is synced before it is validated.
SetBlobMetadataSyncFirst(t, leaseId) ==
    /\ "setBlobMetadata" \in Ops
    /\ blob # None
    /\ LET seen == BlobWithLeaseUpdated(t)
           ok == WriteLeaseValid(seen, leaseId)
       IN /\ Responded("setBlobMetadata", leaseId, ok)
          /\ blob' = WriteLeaseSync(seen)
          /\ Written(seen, ok)
    /\ UNCHANGED <<now, issued, granted>>

\* Faulty variant: validates the lease as stored, not as of startTime.
SetBlobMetadataStale(t, leaseId) ==
    /\ "setBlobMetadata" \in Ops
    /\ blob # None
    /\ LET ok == WriteLeaseValid(blob, leaseId)
       IN /\ Responded("setBlobMetadata", leaseId, ok)
          /\ blob' = IF ok THEN WriteLeaseSync(blob) ELSE blob
          /\ Written(blob, ok)
    /\ UNCHANGED <<now, issued, granted>>

\* setBlobMetadata; setBlobHTTPHeaders, setTier, setBlobTag, appendBlock,
\* commitBlockList, uploadPages, clearRange, resizePageBlob and
\* updateSequenceNumber treat the lease the same way.
SetBlobMetadata(t, leaseId) ==
    /\ "setBlobMetadata" \in Ops
    /\ blob # None
    /\ LET seen == BlobWithLeaseUpdated(t)
           ok == WriteLeaseValid(seen, leaseId)
       IN /\ Responded("setBlobMetadata", leaseId, ok)
          /\ blob' = IF ok THEN WriteLeaseSync(seen) ELSE seen
          /\ Written(seen, ok)
    /\ UNCHANGED <<now, issued, granted>>

\* stageBlock creates an uncommitted blob when there is none.  The check on
\* the length of the block id comes after the lease has been synced.
StageBlock(t, leaseId, sameIdLength) ==
    /\ "stageBlock" \in Ops
    /\ IF blob = None
       THEN /\ Responded("stageBlock", leaseId, TRUE)
            /\ blob' = AvailableLease
            /\ dirty' = FALSE
       ELSE LET seen == BlobWithLeaseUpdated(t)
                valid == WriteLeaseValid(seen, leaseId)
            IN /\ last' = [op |-> "stageBlock", leaseId |-> leaseId,
                            outcome |-> CASE ~valid -> "refused"
                                          [] valid /\ ~sameIdLength -> "invalid"
                                          [] OTHER -> "ok"]
               /\ blob' = IF valid THEN WriteLeaseSync(seen) ELSE blob
               /\ Written(seen, valid /\ sameIdLength)
    /\ UNCHANGED <<now, issued, granted>>

\* startCopyFromURL onto this blob: keeps the destination's lease as it is,
\* so it is the one write after which an expired lease can be renewed.
StartCopyFromURL(t, leaseId) ==
    /\ "startCopyFromURL" \in Ops
    /\ IF blob = None
       THEN /\ Responded("startCopyFromURL", leaseId, TRUE)
            /\ blob' = AvailableLease
            /\ dirty' = FALSE
       ELSE LET seen == BlobWithLeaseUpdated(t)
                ok == WriteLeaseValid(seen, leaseId)
            IN /\ Responded("startCopyFromURL", leaseId, ok)
               /\ blob' = seen
               /\ dirty' = dirty
    /\ UNCHANGED <<now, issued, granted>>

\* copyFromURL onto this blob: syncs the destination before it validates.
CopyFromURL(t, leaseId) ==
    /\ "copyFromURL" \in Ops
    /\ IF blob = None
       THEN /\ Responded("copyFromURL", leaseId, TRUE)
            /\ blob' = AvailableLease
            /\ dirty' = FALSE
       ELSE LET seen == BlobWithLeaseUpdated(t)
                ok == WriteLeaseValid(seen, leaseId)
            IN /\ Responded("copyFromURL", leaseId, ok)
               /\ blob' = WriteLeaseSync(seen)
               /\ Written(seen, ok)
    /\ UNCHANGED <<now, issued, granted>>

\* sealBlob reads the document with getBlob, which does not update the lease.
SealBlob(t, leaseId) ==
    /\ "sealBlob" \in Ops
    /\ blob # None
    /\ LET ok == WriteLeaseValid(blob, leaseId)
       IN /\ Responded("sealBlob", leaseId, ok)
          /\ blob' = IF ok THEN WriteLeaseSync(blob) ELSE blob
          /\ Written(blob, ok)
    /\ UNCHANGED <<now, issued, granted>>

\* deleteBlob of a blob without snapshots.
DeleteBlob(t, leaseId) ==
    /\ "deleteBlob" \in Ops
    /\ blob # None
    /\ LET seen == BlobWithLeaseUpdated(t)
           ok == WriteLeaseValid(seen, leaseId)
       IN /\ Responded("deleteBlob", leaseId, ok)
          /\ blob' = IF ok THEN None ELSE seen
    /\ UNCHANGED <<now, issued, granted, dirty>>

\* downloadBlob; getBlobProperties, createSnapshot, getBlockList,
\* getPageRanges and getBlobTag treat the lease the same way.
DownloadBlob(t, leaseId) ==
    /\ "downloadBlob" \in Ops
    /\ blob # None
    /\ LET seen == BlobWithLeaseUpdated(t)
       IN /\ Responded("downloadBlob", leaseId, ReadLeaseValid(seen, leaseId))
          /\ blob' = seen
    /\ UNCHANGED <<now, issued, granted, dirty>>

Tick ==
    /\ now < MaxTime
    /\ now' = now + 1
    /\ UNCHANGED <<blob, issued, last, granted, dirty>>

Next ==
    \/ Tick
    \/ \E t \in StartTimes, id \in LeaseIdOption : CreateBlob(t, id)
    \/ \E t \in StartTimes, id \in LeaseIdOption : SetBlobMetadata(t, id)
    \/ \E t \in StartTimes, id \in LeaseIdOption, sameIdLength \in BOOLEAN :
          StageBlock(t, id, sameIdLength)
    \/ \E t \in StartTimes, id \in LeaseIdOption : StartCopyFromURL(t, id)
    \/ \E t \in StartTimes, id \in LeaseIdOption : CopyFromURL(t, id)
    \/ \E t \in StartTimes, id \in LeaseIdOption : SealBlob(t, id)
    \/ \E t \in StartTimes, id \in LeaseIdOption : DeleteBlob(t, id)
    \/ \E t \in StartTimes, id \in LeaseIdOption : DownloadBlob(t, id)
    \/ \E t \in StartTimes, duration \in Durations, id \in LeaseIdOption :
          AcquireBlobLease(t, duration, id)
    \/ \E t \in StartTimes, id \in LeaseIds : RenewBlobLease(t, id)
    \/ \E t \in StartTimes, id, proposed \in LeaseIds :
          ChangeBlobLease(t, id, proposed)
    \/ \E t \in StartTimes, id \in LeaseIds : ReleaseBlobLease(t, id)
    \/ \E t \in StartTimes, period \in BreakPeriods : BreakBlobLease(t, period)

Spec == Init /\ [][Next]_vars

----------------------------------------------------------------------------
(* Properties.                                                             *)

\* Types of all variables.
TypeOK ==
    /\ now \in Nat
    /\ blob \in ILease \cup {None}
    /\ issued \subseteq Uuids
    /\ last \in Response
    /\ granted \in Int \cup {None}
    /\ dirty \in BOOLEAN

\* Whatever operations were applied before, and however late, the stored
\* lease is one the Lease*State constructors accept: no request ends in one
\* of their RangeErrors (an internal error) when it reads the blob.
LeaseConstructible == blob # None => Constructible(blob)

\* A lease that was acquired for a fixed time holds the blob at most that
\* long after the server's clock: delayed renewals cannot extend it further,
\* and neither can breaking it, at once, late or again.  Its stored duration
\* is the one it was acquired with, through renewals, changes, expiry and
\* overwrites of the blob ("A lease duration cannot be changed using renew or
\* change").  An infinite lease (granted = None) has no such term: break gives
\* it any period asked for (see BreakAllowed), and nothing is claimed of it.
LeaseTermBounded ==
    blob # None =>
        /\ blob.leaseState \in {"leased", "expired"} =>
              blob.leaseDurationSeconds = granted
        /\ blob.leaseExpireTime # None => blob.leaseExpireTime =< now + granted
        /\ (blob.leaseBreakTime # None /\ granted # None) =>
              blob.leaseBreakTime =< now + granted

\* A lease that can still be renewed protects what its holder last saw: the
\* blob has not been written by anybody else since the lease was acquired,
\* but for startCopyFromURL (see there).
ExpiredLeaseIsUnwritten ==
    (blob # None /\ blob.leaseState \in {"leased", "breaking", "expired"}) => ~dirty

\* The lease is in force on the server's clock.
Live ==
    /\ blob # None
    /\ blob.leaseStatus = "locked"
    /\ blob.leaseExpireTime # None => now < blob.leaseExpireTime
    /\ blob.leaseBreakTime # None => now < blob.leaseBreakTime

\* The last operation presented the id of the lease in force.
PresentedId == last'.leaseId # None /\ Lowercase[last'.leaseId] = Lowercase[blob.leaseId]

\* While a lease is in force, nobody else takes it over, ends it or writes
\* or deletes the blob: the id changes only through an operation that named
\* it, the lease ends only by such an operation or a break, and an accepted
\* write named it.
LeaseIsExclusive ==
    [][Live /\ now' = now =>
          /\ (blob' = None \/ blob'.leaseStatus = "unlocked") =>
                PresentedId \/ last'.op = "break"
          /\ (blob' # None /\ blob'.leaseId # blob.leaseId) => PresentedId
          /\ (last'.op \in WriteOps /\ last'.outcome = "ok") => PresentedId]_vars

\* Breaking shortens a lease and never lengthens it: the break time is not
\* after the time remaining on the lease, and a second break only brings it
\* forward.
BreakOnlyShortens ==
    [][blob # None /\ blob' # None /\ blob'.leaseState = "breaking" =>
          /\ blob.leaseExpireTime # None => blob'.leaseBreakTime =< blob.leaseExpireTime
          /\ blob.leaseState = "breaking" => blob'.leaseBreakTime =< blob.leaseBreakTime]_vars

\* copyFromURL and stageBlock sync the lease before their last check.
SyncFirstOps == {"copyFromURL", "stageBlock"}

\* A refused operation leaves the lease alone, but for the passage of time
\* and the two operations that sync it before their last check.
RefusedLeavesLease ==
    [][now' = now /\ last'.outcome # "ok" /\ last'.op \notin SyncFirstOps =>
          \/ blob' = blob
          \/ \E t \in StartTimes : blob' = CreateLeaseState(blob, t)]_vars

\* A write without a lease id is refused only when the lease is in force at
\* some start time that a request applied now may carry: no request of the
\* last MaxDelay is refused for a lease that was over before all of them.
\* sealBlob, which judges the lease as stored, is left out.
OverdueLeaseDoesNotBlock ==
    [][(/\ now' = now /\ last'.op \in WriteOps \ {"sealBlob"}
        /\ last'.leaseId = None /\ last'.outcome = "refused")
          => \E t \in StartTimes :
                CreateLeaseState(blob, t).leaseStatus = "locked"]_vars
=============================================================================
