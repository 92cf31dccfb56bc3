SPECIFICATION StoreSpec
CONSTANTS
    Jobs = {j1, j2, j3}
    MaxConcurrency = 2
    Extents = {e1, e2, e3, e4}
    MaxExtentSize = 2
    MaxBytes = 2
    MaxFd = 2
    NoExtent = NoExtent
    NoFd = NoFd
    Zero = Zero
    FailOpen = FALSE
    FailCleanup = FALSE
    BufferedAbort = FALSE
SYMMETRY Symmetry
INVARIANTS
    SlotHasOneWriter
    OffsetIsFileEnd
    ChunkHoldsData
CHECK_DEADLOCK FALSE
