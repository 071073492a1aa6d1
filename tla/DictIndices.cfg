SPECIFICATION DictSpec
CONSTANTS
    Values = {0, 1}
    GroupSize = 2
    MaxGroups = 7
    GroupBytes = 1
    ValueBytes = 1
    MaxIndices = 13
CHECK_DEADLOCK FALSE
INVARIANTS
    NoIndexLost
    WithinMaxBufferSize
