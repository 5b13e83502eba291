CONSTANTS
    Authored = {s1}
    Foreign = {}
    Probe = {p}
    NoTask = NoTask
    Cap = 1
    OtherBaselines = FALSE
    MaxGen = 2
    MaxLinger = 0
    MaxCrash = 1
SPECIFICATION FairSpec
INVARIANTS WindowBarsAuthoring
PROPERTIES PassedRevalidationCredited HeldRoundEnds WindowCloses
CHECK_DEADLOCK FALSE
