SPECIFICATION FairSpec
CONSTANTS
    N = 2
    StrictClient = FALSE
    MaxCommands = 2
    MaxTimeouts = 0
PROPERTIES Stops
CHECK_DEADLOCK FALSE
