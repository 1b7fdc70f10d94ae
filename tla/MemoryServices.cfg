SPECIFICATION MCSpec
CONSTANTS
    DocKeys = {k1, k2}
    Terms = {"a", "b"}
    Documents <- MCDocuments
    MaxIndexOps = 5

    Collections <- MCCollections
    Keys <- MCKeys
    DenseK = 2
    LexicalK = 2
    FallbackMin = 2
    Limit = 3
    Policies = {"p", "q"}
    InitialPoints <- MCPoints
    MaxChanges = 1
    MaxRequests = 1
    MaxRecallFaults = 1

    Memories <- MCMemories
    TextRank <- MCTextRank
    TierOf <- MCTierOf
    TopicOf <- MCTopicOf
    DateOf <- MCDateOf
    Alike <- MCAlike
    NearAlike <- MCNearAlike
    Expirable = {2}
    Drifting = {1}
    Summaries = {2}
    Gap = 7
    MaxApply = 2
    InitialMemories = {1, 3}
    MaxJobRuns = 2
    MaxJobFaults = 1

    Governors = {"g1", "g2"}
    Dailies = {"d"}
    NumCollections = 1
    MaxGovRuns = 3
    MaxGovFaults = 1

    BrainCollections = {"main", "other"}
    Files = {"f", "g"}
    TextOf <- MCTextOf
    FilesPerRun = 2
    MaxTries = 1
    DreamMinHours = 1
    MaxHours = 1
    MaxBrainRuns = 2
    MaxBrainFaults = 2

    Tokens = {t1, t2}
    OldTokens = {t1}
    WebThreads = {h1, h2}
    MaxAge = 1
    MaxClock = 1
    MaxSignings = 2
    MaxWebFaults = 2

    Callers = {c1, c2}
    CandidateHits = {v1}
    OldVotes = {o1}
    MaxCalls = 3
    MaxStoreFaults = 2

    Writers = {"web", "cron"}
    Texts = {"old", "new"}
    MaxWrites = 3
    MaxWriteFaults = 2

    Points <- MCSourcePoints
    Textless = {}
    PageSize = 2
    Limits = {0, 1}
    MaxStarts = 3
    MaxFaults = 2
    Chunks <- MCChunks
    MemoryFiles <- MCMemoryFiles
    BatchSize = 2
    SaveEvery = 1
VIEW FocusView
INVARIANTS
    ServicesTypeOK
    IndexSound
    CacheFresh
    HitsHeld
    FailureReported
    FairComparison
    ActiveFirst
    ChainsEnd
    ProtectedKept
    OnePass
    EvolvesAfterWholePass
    StatusTruthful
    AccountedFor
    DreamsSpaced
    EndedStaysEnded
    ImportedOnce
    TornOnlyByOverlap
    ManifestSound
    CompleteMeansAll
    VectorsMatchPoints
    SuccessesCountedOnce
    IngestCheckpointSound
    ReadableIngested
PROPERTIES
    RevivalNeedsOverlap
    VotesKept
    ReindexSpec
    RegistrySpec
CHECK_DEADLOCK FALSE
