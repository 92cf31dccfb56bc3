\* One queue, which may be deleted and created again, and two messages.
\* Messages, receipts and the clock are bounded.
SPECIFICATION Spec
CONSTANTS
    Queues = {q1}
    MaxMessages = 2
    MaxReceipts = 4
    MaxTime = 3
    MaxDelay = 1
    Timeouts <- MCTimeouts
    TTLs <- MCTTLs
    None = None
    MaxTimeout = 3
    DefaultTimeout = 1
    DefaultTTL = 3
    NeverExpires = 7
    MaxNumber = 2
INVARIANTS ReceiptIsExclusive NoOrphans
PROPERTIES OldestFirst
CHECK_DEADLOCK FALSE
