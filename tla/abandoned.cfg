CONSTANTS
    a = a
    b = b
    c = c
    serving = serving
    bench = bench
    NoTask = NoTask
    NoEnv = NoEnv
    NoCoord = NoCoord
    Lane = {serving, bench}
    Holder = {a}
    Env = {e1}
    Blind = {}
    Pid = {p1, p2}
    Gpu = {g1}
    SelfSettling = {}
    CloseTask = {a}
    RayExec = FALSE
    MaxBoots = 1
    Conflicts <- MCConflicts
    Capacity <- MCCapacity
    Needs <- MCNeeds
    GpuNeed <- MCGpuNeed
SPECIFICATION Spec
PROPERTIES
    AbandonedNeverPromoted
CHECK_DEADLOCK FALSE
