SPECIFICATION AllSpec
CONSTANTS
    N = 2
    StrictClient = TRUE
    MaxCommands = 3
    MaxTimeouts = 1
    MaxRequests = 4
    Events = TRUE
    VcpuCounts = {0, 1, 2, 3}
    MemSizes = {0, 1, 2}
    Amounts = {1, 2, 3}
    Drives = {"d1", "d2", "d3"}
    Ifaces = {"i1", "i2"}
    Macs = {"m1"}
    Addrs = {"a1", "a2"}
    MaxDrives = 3
    MaxSets = 4
    Threads = {"t1", "t2"}
    Destinations = {"d1", "d2"}
    MaxIncs = 3
    MaxFlushes = 2
    MaxCalls = 3
    Jailers = {"j1", "j2"}
    Ids = {"i1", "i2"}
    Depth = 2
    NumFiles = 2
    Configs <- BootConfigs
    IRQ_BASE = 5
    IRQ_MAX = 9
    MaxBoots = 3
    MaxRestores = 2
    Regions <- TwoRegions
    MaxWrites = 3
    MaxSnapshots = 2
    Faulty = TRUE
INVARIANTS
    SavedWhilePaused AnswersMatch ConfigIsConsistent FlushesAddUp
    DevicesAreFound DiffsAddUp StateIsKept VerdictIsRight KvmStateKept
    TopologyAgrees RoutesAsDocumented MmdsReadsRight
PROPERTY JailersKeepApart
