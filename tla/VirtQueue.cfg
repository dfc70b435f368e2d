SPECIFICATION Spec
CONSTANTS
    QueueSize = 2
    IdxMod = 4
    EventIdx = TRUE
    MaxBatch = 2
    Malformed = {}
INVARIANTS NoLostKick NoLostIrq
PROPERTY ImplementsPool
