\* An operator rolls back what a cycle has promoted.
CONSTANTS
    Policies <- MCPolicies
    Baseline = "base"
    None = "none"
    Corrupt = "corrupt"
    Version <- MCVersion
    Parent <- MCParent
    Children <- MCChildren
    Procs <- MCProcs
    Threads <- MCThreads
    Home <- MCHome
    Recallers = {"recall"}
    Operators = {"operator"}
    Runners = {"cycle"}
    Damageable = {"active", "previous", "candidate"}
    MaxFaults = 0
SPECIFICATION Spec
PROPERTIES RollbackRestoresReplaced
