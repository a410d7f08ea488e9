\* A switch between two modes of equal size, with frames of both.
CONSTANTS
    Modes <- MCTurnedModes
    FirstModes <- MCFirstModes
    TornModes = {}
    MaxSwitches = 1
    MaxTornCalls = 0
    MaxFrames = 2
    MaxClients = 1
    MaxDelay = 0
SPECIFICATION FairSpec
PROPERTIES NobodyWaitsForever NewestFrameIsEncoded
