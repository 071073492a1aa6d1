SPECIFICATION PageSpec
CONSTANTS
    Values = {0, 1}
    GroupSize = 2
    MaxGroups = 7
    GroupBytes = 1
    ValueBytes = 1
    MaxPuts = 15
    MaxLevel = 1
    ItemBytes = 1
    PrefixBytes = 4
    Slack = 8
INVARIANTS
    RoundTrip
    FitsBuffer
    RunsAreTheStream
    AssertionsHold
    PageHoldsValues
