SPECIFICATION FairSpec
CONSTANTS
    Heads = {h1, h2}
    Kinds = {"io"}
    Engine = "Async"
    SqSize = 1
    CqSize = 1
    Limited = FALSE
    MaxUpdates = 1
    MaxSaves = 0
    MaxErrors = 0
PROPERTIES Answered
