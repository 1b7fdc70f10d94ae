\* Two collections and a failure.
CONSTANTS
    Collections = {"main", "other"}
    Points = {1, 2}
    Chunks <- MCChunks
    MemoryFiles <- MCMemoryFiles
    BatchSize = 1
    SaveEvery = 1
    MaxStarts = 2
    MaxFaults = 1
SPECIFICATION PassSpec
INVARIANT PicksUpWhereLeftOff
CHECK_DEADLOCK FALSE
