\* Cycles, waiting runners, one request, one fault and a wider range: see Explored.
CONSTANTS
    Slots = {s1, s2}
    Requests = {"web"}
    Ops = {"pause", "resume", "reject", "rollback"}
    Never = Never
    Nil = Nil
    WindowGap = 1
    BreakerCooldown = 2
    PromotionCooldown = 2
    Period = 6
    MaxPromotions = 2
    MaxRollbacks = 2
    MaxTime = 5
    MaxDepth = 3
    MaxCount = 3
    MaxCycles = 6
    MaxRequests = 1
    MaxFaults = 1
SPECIFICATION Spec
CONSTRAINT Explored
SYMMETRY Symmetry
INVARIANTS TypeOK BankConsistent PromotionsRationed
PROPERTIES PromotionEarned BreakerHolds LifecycleSpec
