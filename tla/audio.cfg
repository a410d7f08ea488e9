\* One client of each protocol, one change of the device with two notices, packets of
\* two sounds cut from blocks of up to three, a channel of one place.
CONSTANTS
    Custom = {c1}
    WebRtc = {c2}
    PacketSize = 2
    MaxBlock = 3
    Capacity = 1
    Roles = 2
    MaxChanges = 1
    MaxSound = 6
SPECIFICATION FairSpec
INVARIANTS TypeOK NothingIsMissed NeverTwoPacketsAhead
PROPERTIES StreamFollowsDevice
CHECK_DEADLOCK FALSE
