SPECIFICATION ApiLiveSpec
CONSTANTS
 MaxRequests = 4
 Events = FALSE

PROPERTY RequestIsAnswered
CHECK_DEADLOCK FALSE
