CONSTANTS
    Stores = {"fs", "memory"}
    Kinds = {"block", "append", "page"}
    Asked <- MCAsked
    MaxLen = 3
    MaxUnits = 4
    MaxStaged = 1
    MaxBlocks = 2
SPECIFICATION ContentSpec
INVARIANTS ContentIsLastWrites PageRangesAreWritten DownloadIsOneVersion
