CONSTANTS
    None = None
    Wildcard = Wildcard
    NoDate = NoDate
    NoTags = NoTags
    Zero = Zero
    LeaseIds = {l1}
    Lowercase <- MCLowercase
    MinDuration = 15
    MaxDuration = 60
    MaxBreakPeriod = 60
    Containers = {c1}
    Names = {a, b}
    Data = {x}
    BlockIds = {i}
    IdLength <- MCIdLength
    Times = {1}
    CopyTypes = {"block"}
    Ops = {"ContainerCreate", "ContainerDelete",
           "ContainerLease", "BlockBlobUpload", "AppendBlobCreate", "PageBlobCreate", "BlobCreateSnapshot",
           "BlobDelete", "BlobStartCopyFromURL", "BlobCopyFromURL", "BlobSetHTTPHeaders", "BlobSetMetadata",
           "BlobSetTier", "AppendBlobAppendBlock", "AppendBlobSeal", "PageBlobUploadPages", "PageBlobClearPages", "PageBlobResize",
           "PageBlobUpdateSequenceNumber", "BlockBlobStageBlock", "BlockBlobCommitBlockList", "Restart"}
    MaxEtags = 3
    MaxDocs = 3
    MaxLen = 2
SYMMETRY Symmetry
SPECIFICATION Spec
CHECK_DEADLOCK FALSE
INVARIANTS WellFormed
PROPERTIES ImplementsBlobService
