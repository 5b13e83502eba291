CONSTANTS
    a = a
    b = b
    c = c
    serving = serving
    bench = bench
    NoTask = NoTask
    NoEnv = NoEnv
    NoCoord = NoCoord
    Lane = {serving, bench}
    Holder = {a, b, c}
    Env = {e1}
    Blind = {}
    Pid = {p1}
    Gpu = {g1}
    SelfSettling = {}
    CloseTask = {}
    RayExec = TRUE
    MaxBoots = 1
    Conflicts <- MCConflicts
    Capacity <- MCCapacity
    Needs <- MCNeeds
    GpuNeed <- MCGpuNeed
SPECIFICATION Spec
INVARIANTS
    ExclusiveUse
    CountedOnce
CHECK_DEADLOCK FALSE
