SPECIFICATION AlternatingSpec
CONSTANTS
    Values = {0, 1}
    GroupSize = 8
    MaxGroups = 64
    GroupBytes = 1
    ValueBytes = 1
    MaxPuts = 504
    MaxLevel = 1
    ItemBytes = 4
    PrefixBytes = 4
    Slack = 0
INVARIANT
    PageHoldsValues
