SPECIFICATION AnySpec
CONSTANTS
    Length = 14
    MaxPeek = 6
    BufferSizes = {1, 2, 4, 8, 16, 32}
    Layouts <- MCLayouts
    ExpectedHeader = 1
    MaxHeader = 4
CHECK_DEADLOCK FALSE
INVARIANTS
    PagesInOrder
    InStep
    EndedRight
    SpaceToRead
    RewoundAtMostOnce
    BufferBounded
PROPERTIES
    ReaderEnds
    ImplementsByteStream
