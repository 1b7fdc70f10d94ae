\* One writer: the web server only recalls, the cycle promotes and rolls back, along a
\* line of candidates in which a version repeats.
CONSTANTS
    Policies <- ChainPolicies
    Baseline = "base"
    None = "none"
    Corrupt = "corrupt"
    Version <- ChainVersion
    Parent <- ChainParent
    Children <- ChainChildren
    Procs <- MCProcs
    Threads <- MCThreads
    Home <- MCHome
    Recallers = {"recall"}
    Operators = {}
    Runners = {"cycle"}
    Damageable = {"active", "previous", "candidate"}
    MaxFaults = 1
SPECIFICATION FairSpec
INVARIANTS PromotedHasPrevious
PROPERTIES StartupShadowFits RollbackRestoresReplaced HotReloadCatchesUp
