SPECIFICATION Spec
CONSTANTS
    N = 2
    StrictClient = TRUE
    MaxCommands = 1
    MaxTimeouts = 0
INVARIANTS ExitCodeKept
CHECK_DEADLOCK FALSE
