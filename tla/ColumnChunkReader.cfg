SPECIFICATION FairSpec
CONSTANTS
    Chunks <- MCChunks
    MaxBatch = 3
    MaxPages = 3
    Beyond = 99
CHECK_DEADLOCK FALSE
PROPERTIES
    ImplementsTriplets
    BatchesEnd
