SPECIFICATION AllSpec
CONSTANTS
    Tuple = {a, b, c}
    Times = {1, 2, 3}
    max_connections = 2
    max_pending_resets = 2
    MaxFrames = 2
    MaxRx = 2
    MaxTx = 2
    MaxTapErrors = 1
    MaxThrottles = 1
    Overdraw = TRUE
    Word = 8
    Limit = 63
    MaxLen = 5
    Proto = 1
    U32 = 8
    Size = 4
    Byte = {0, 1}
    MaxPush = 3
    Wrap = 3
    TxBufSize = 2
    Threshold = 1
    GuestBuf = 1
    MaxPkt = 2
    MaxQueued = 1
    MaxPosts <- Posts
    MaxPending = 1
    MaxSnapshots = 1
    MaxRestores = 1
INVARIANTS
    FlowControlled TablesAgree VsockIsServed
    SummariesAgree NetIsServed ChecksumIsRight
PROPERTIES ImplementsChannel IsQueue StreamsIntact
