\* One client of each kind; the ring has one place.
CONSTANTS
    Custom = {c1}
    Raw = {r1}
    WebRtc = {w1}
    Capacity = 1
    MaxSamples = 2
    MaxSessions = 2
SPECIFICATION FairSpec
INVARIANTS TypeOK NeverTwoSamplesAhead
PROPERTIES FeedIsKept SamplesArrive
CHECK_DEADLOCK FALSE
