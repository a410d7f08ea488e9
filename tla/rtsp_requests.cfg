\* Three messages of any kind, cut anywhere.
CONSTANTS
    Messages <- MCAll
    MaxMessages = 3
    Capacity = 1
    MaxSamples = 2
SPECIFICATION FairSpec
INVARIANTS TypeOK MessagesAreKeptApart SamplesFollowPlay
PROPERTIES RequestsAnswered
CHECK_DEADLOCK FALSE
