CONSTANTS
    Authored = {s1}
    Foreign = {}
    Probe = {p}
    NoTask = NoTask
    Cap = 1
    OtherBaselines = FALSE
    MaxGen = 2
    MaxLinger = 0
    MaxCrash = 0
SPECIFICATION Spec
SYMMETRY Interchangeable
PROPERTIES EveryKeepRemeasured
CHECK_DEADLOCK FALSE
