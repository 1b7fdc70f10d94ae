SPECIFICATION RecallSpec
CONSTANTS
    Collections <- MCCollections
    Keys <- MCKeys
    DenseK = 2
    LexicalK = 2
    FallbackMin = 2
    Limit = 3
    Policies = {"p", "q"}
    InitialPoints <- MCPoints
    MaxChanges = 1
    MaxRequests = 1
    MaxRecallFaults = 1
INVARIANT FallbackMerged
CHECK_DEADLOCK FALSE
