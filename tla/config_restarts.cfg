\* The monitor is up when the service starts; then either process may end once.
CONSTANTS
    Modes <- MCModes
    MaxCommits = 2
    MaxDriverExits = 1
    MaxVdExits = 1
    DriverStartsFirst = TRUE
SPECIFICATION FairSpec
INVARIANTS TypeOK ReadsSucceed
PROPERTIES MakesConfigureCalls CommitReachesMonitor
CHECK_DEADLOCK FALSE
