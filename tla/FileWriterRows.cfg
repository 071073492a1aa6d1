SPECIFICATION Spec
CONSTANTS
    a = a
    b = b
    Null = Null
    Garbage = Garbage
    Data <- MCData
    FallbackThreshold = 1
    Schema <- MCNested
    Batches <- MCBatches
    BatchColumns = {}
    MaxPuts = 2
    MaxPages = 1
    MaxGroups = 1
INVARIANT
    RowsOfGroup
