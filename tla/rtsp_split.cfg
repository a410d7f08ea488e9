\* One request, cut anywhere.
CONSTANTS
    Messages <- MCOptions
    MaxMessages = 1
    Capacity = 1
    MaxSamples = 0
SPECIFICATION FairSpec
PROPERTY MoreDataAreEnough
CHECK_DEADLOCK FALSE
