\* The SQL stores: uploads, staged blocks and deletions between two pages of
\* a listing.
\* A server that has been closed need not be started again.
SPECIFICATION FairGCSpec
CONSTANTS
    d1 = d1
    d2 = d2
    Closers = {c1}
    Extents = {e1, e2}
    Slots = {0}
    Docs = {d1, d2}
    Name <- DistinctNames
    PageSize = 1
    Reqs = {r1, r2}
    NoExtent = NoExtent
    FailInit = TRUE
    FailClosing = FALSE
    Sql = TRUE
    FillFirst = FALSE
    RotateCandidate = FALSE
    MoveInMark = FALSE
    CloseInMark = FALSE
INVARIANTS ReferredOnDisk LoopMatchesStatus ClosingLoopIsAwake
PROPERTIES GarbageCollected CloseResolves
CHECK_DEADLOCK FALSE
