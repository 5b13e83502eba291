CONSTANTS
    Authored = {s1}
    Foreign = {f}
    Probe = {}
    NoTask = NoTask
    Cap = 1
    OtherBaselines = TRUE
    MaxGen = 1
    MaxLinger = 1
    MaxCrash = 1
SPECIFICATION Spec
INVARIANTS RoundStaysWithItsWork QueuedSpecialistHolds
CHECK_DEADLOCK FALSE
