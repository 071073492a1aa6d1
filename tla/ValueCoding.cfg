SPECIFICATION Spec
CONSTANTS
    ByteBits = 3
    BufferBits = 3
    BlockValues = 4
    Miniblocks = 2
    LengthBytes = 2
    TypeLength = 2
    BatchSize = 4
    IndexBatch = 2
    GroupSize = 2
    Streams <- MCStreams
    Data <- MCData
    FallbackThreshold = 1
    Columns <- MCColumns
    Inputs <- MCInputs
    Unset = {0, 7}
    Foreign <- MCForeign
    MaxValues <- MCMaxValues
    MaxPut = 2
    MaxBatch = 4
    MaxGiven = 8
INVARIANTS
    EncodedRight
    WithinMaxEncodedSize
    NothingMadeUp
    FirstRoundRight
PROPERTY
    ReadsInBatches
