CONSTANTS
    Authored = {s1, s2}
    Foreign = {f}
    Probe = {}
    NoTask = NoTask
    Cap = 2
    OtherBaselines = FALSE
    MaxGen = 1
    MaxLinger = 0
    MaxCrash = 0
SPECIFICATION Spec
SYMMETRY Interchangeable
PROPERTIES StallChargesOwnRound
CHECK_DEADLOCK FALSE
