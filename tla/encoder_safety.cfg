\* Two modes and a mixture of them, one switch, two frames; the codec may hold one back.
CONSTANTS
    Modes <- MCModes
    FirstModes <- MCFirstModes
    TornModes <- MCTornModes
    MaxSwitches = 1
    MaxTornCalls = 1
    MaxFrames = 2
    MaxClients = 1
    MaxDelay = 1
SPECIFICATION Spec
INVARIANTS TypeOK BufferStillWhileEncoding
PROPERTIES IsSampleSource SamplesInOrder AnnouncedWithItsSize
