\* A recall reloads active.json while a cycle rolls it forward.
CONSTANTS
    Policies <- MCPolicies
    Baseline = "base"
    None = "none"
    Corrupt = "corrupt"
    Version <- MCVersion
    Parent <- MCParent
    Children <- MCChildren
    Procs <- MCProcs
    Threads <- MCThreads
    Home <- MCHome
    Recallers = {"recall"}
    Operators = {}
    Runners = {"cycle"}
    Damageable = {"active", "previous", "candidate"}
    MaxFaults = 0
SPECIFICATION Spec
PROPERTIES ReloadMatchesMtime
