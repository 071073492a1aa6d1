SPECIFICATION FairSpec
CONSTANTS
    a = a
    b = b
    Null = Null
    Garbage = Garbage
    Data <- MCData
    FallbackThreshold = 1
    Schema <- MCSchema
    Batches <- MCBatches
    BatchColumns = {2}
    MaxPuts = 3
    MaxPages = 1
    MaxGroups = 1
INVARIANTS
    PagesReadable
    NothingLost
    ChunkMetaTrue
    ClosedFileComplete
    OffsetIsPosition
PROPERTIES
    TableSpec
    Finishes
