\* Two shapes at two places, visible and hidden; failing queries; either process may
\* end once; the mixture of the two shapes cannot be encoded.
CONSTANTS
    Cursors <- MCCursors
    Unencodable <- MCUnencodable
    Clients = {c1}
    CacheSize = 1
    QueriesFail = TRUE
    MaxChanges = 1
    MaxDriverExits = 1
    MaxVdExits = 1
SPECIFICATION FairSpec
INVARIANTS TypeOK ClientShowsPosition ClientShowsShape ImageIsWhole
PROPERTY CursorReachesClient
CHECK_DEADLOCK FALSE
