SPECIFICATION Spec
CONSTANTS
    Heads = {h1, h2}
    Kinds = {"io"}
    Engine = "Async"
    SqSize = 1
    CqSize = 1
    Limited = FALSE
    MaxUpdates = 0
    MaxSaves = 1
    MaxErrors = 0
INVARIANTS UsedIsAnnounced
