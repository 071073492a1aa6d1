SPECIFICATION FairSpec
CONSTANTS
    Sources <- AllSources
    MaxBatch = 3
    MaxLevels = 7
    MaxCut = 5
    GroupSize = 2
INVARIANTS
    GivenInOrder
PROPERTIES
    ImplementsReader
    BatchesEnd
