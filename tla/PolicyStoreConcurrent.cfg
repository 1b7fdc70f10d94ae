\* Web server (recalls and operator) and cycle, with faults of every kind.
CONSTANTS
    Policies <- MCPolicies
    Baseline = "base"
    None = "none"
    Corrupt = "corrupt"
    Version <- MCVersion
    Parent <- MCParent
    Children <- MCChildren
    Procs <- MCProcs
    Threads <- MCThreads
    Home <- MCHome
    Recallers = {"recall"}
    Operators = {"operator"}
    Runners = {"cycle"}
    Damageable = {"active", "previous", "candidate"}
    MaxFaults = 1
SPECIFICATION Spec
INVARIANTS TypeOK OnlyReleasedServed
PROPERTIES LifecycleSpec
