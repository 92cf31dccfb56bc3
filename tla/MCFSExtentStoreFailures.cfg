\* Every failure of the file system, and more jobs than slots so that jobs
\* queue up.  Jobs are bounded, so the queue may run empty for good.
SPECIFICATION FairStoreSpec
CONSTANTS
    Jobs = {j1, j2, j3}
    MaxConcurrency = 1
    Extents = {e1, e2, e3}
    MaxExtentSize = 1
    MaxBytes = 1
    MaxFd = 1
    NoExtent = NoExtent
    NoFd = NoFd
    Zero = Zero
    FailOpen = TRUE
    FailCleanup = TRUE
    BufferedAbort = TRUE
PROPERTIES FifoOrder EveryJobSettles
CHECK_DEADLOCK FALSE
