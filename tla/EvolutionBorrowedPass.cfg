\* Two candidates of one version: a wider range, a waiting runner or a rollback.
CONSTANTS
    Slots = {s1, s2}
    Requests = {"web"}
    Ops = {"rollback"}
    Never = Never
    Nil = Nil
    WindowGap = 1
    BreakerCooldown = 2
    PromotionCooldown = 2
    Period = 6
    MaxPromotions = 2
    MaxRollbacks = 2
    MaxTime = 5
    MaxDepth = 2
    MaxCount = 3
    MaxCycles = 6
    MaxRequests = 1
    MaxFaults = 0
SPECIFICATION Spec
PROPERTIES WindowsOfSameCandidate
