\* A client need not list again.
SPECIFICATION Spec
CONSTANTS
    Items = {1, 2, 3, 4}
    Name <- MCName
    Key <- MCKey
    Foldings <- MCFoldings
    Wheres <- MCWheres
    Listers = {"containers", "sqlContainers", "tables", "entities", "queues", "blobs", "sqlBlobs", "filterBlobs", "sqlFilterBlobs"}
    Limit = 2
    Isolated = TRUE
    InOrder = TRUE
    AllMatch = TRUE
    MaxIds = 5
    Unlimited = Unlimited
INVARIANT ListedExactlyOnce
PROPERTY MarkersAdvance
CHECK_DEADLOCK FALSE
