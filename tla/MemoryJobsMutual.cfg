\* One run of the pipeline with both flags.
SPECIFICATION JobsSpec
CONSTANTS
    Memories <- MCMemories
    TextRank <- MCTextRank
    TierOf <- MCTierOf
    TopicOf <- MCTopicOf
    DateOf <- MCDateOf
    Alike <- MCAlike
    NearAlike = {}
    Expirable = {}
    Drifting = {}
    Summaries = {}
    Gap = 7
    MaxApply = 2
    InitialMemories = {1, 2}
    MaxJobRuns = 1
    MaxJobFaults = 0
INVARIANT NeverMutual
CHECK_DEADLOCK FALSE
