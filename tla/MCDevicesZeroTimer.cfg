SPECIFICATION AllSpec
CONSTANTS
    Components <- OnlyLimiter
    LimiterNs = 4
    LimiterConfigs <- Fast
    Heads = {1, 2, 3}
    Kinds = {"io", "id", "bad"}
    Engine = "Async"
    SqSize = 2
    CqSize = 3
    Limited = TRUE
    MaxUpdates = 1
    MaxSaves = 1
    MaxErrors = 1
    Wrap = 8
    SqCount = 2
    CqCount = 4
    MaxOps = 8
    PartialEnters = TRUE
    NumQueues = 1
    MaxSize = 2
    Sizes = {1, 4}
    Words = {0, 1}
    Features <- OfferedOrNot
    Address <- Addresses
    Lengths = {0, 1, 2, 3, 5}
INVARIANT BlockedIffArmed
