SPECIFICATION Spec
CHECK_DEADLOCK FALSE
CONSTANTS
    Files <- MCFiles
    ByteBits = 2
    BatchSize = 2
    PageSizes = {1, 3}
INVARIANTS
    RowsRight
    AllRead
    TypesCreated
