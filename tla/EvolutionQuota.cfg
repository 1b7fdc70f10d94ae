\* Nobody interferes, and 30 days pass.
CONSTANTS
    Slots = {s1}
    Requests = {"web"}
    Ops = {}
    Never = Never
    Nil = Nil
    WindowGap = 1
    BreakerCooldown = 2
    PromotionCooldown = 2
    Period = 3
    MaxPromotions = 2
    MaxRollbacks = 2
    MaxTime = 6
    MaxDepth = 3
    MaxCount = 3
    MaxCycles = 6
    MaxRequests = 0
    MaxFaults = 0
SPECIFICATION Spec
CONSTRAINT Undisturbed
PROPERTIES QuotaRefusalJustified
