\* Both processes start at once.
CONSTANTS
    Modes <- MCModes
    MaxCommits = 1
    MaxDriverExits = 0
    MaxVdExits = 0
    DriverStartsFirst = FALSE
SPECIFICATION Spec
INVARIANTS StartupReadSucceeds
CHECK_DEADLOCK FALSE
