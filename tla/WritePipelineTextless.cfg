\* One run of the re-embedding over points of which one has no text.
CONSTANTS
    Points <- MCSourcePoints
    Textless = {1}
    PageSize = 2
    Limits = {0}
    MaxStarts = 1
    MaxFaults = 0
    Chunks <- MCChunks
    MemoryFiles <- MCMemoryFiles
    BatchSize = 2
    SaveEvery = 2
SPECIFICATION PipelineSpec
INVARIANT VectorsMatchPoints
CHECK_DEADLOCK FALSE
