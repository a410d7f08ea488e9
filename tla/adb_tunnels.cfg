\* Two devices, two changes of their states, one stop of the server and one garbled list.
CONSTANTS
    N = 2
    MaxChanges = 2
    MaxStops = 1
    MaxGarbled = 1
SPECIFICATION FairSpec
INVARIANTS TypeOK NoDeviceIsForgotten
PROPERTIES TunnelsOpen
CHECK_DEADLOCK FALSE
