SPECIFICATION Spec
CHECK_DEADLOCK FALSE
CONSTANTS
    Files <- MCFiles
    Messages <- MCMessages
    LengthBits = 12
    ExpectedSizes = {1, 3, 5}
    MaxAllowed = 400
INVARIANTS
    ReadRight
    EndsRight
    OpenedRight
    SchemaKept
    LevelsNest
