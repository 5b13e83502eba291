CONSTANTS
    a = a
    b = b
    c = c
    serving = serving
    bench = bench
    NoTask = NoTask
    NoEnv = NoEnv
    NoCoord = NoCoord
    Lane = {serving, bench}
    Holder = {a, c}
    Env = {e1}
    Blind = {}
    Pid = {p1, p2}
    Gpu = {g1}
    SelfSettling = {}
    CloseTask = {}
    RayExec = FALSE
    MaxBoots = 1
    Conflicts <- MCConflicts
    Capacity <- MCCapacity
    Needs <- MCNeeds
    GpuNeed <- MCGpuNeed
SPECIFICATION Spec
INVARIANTS
    DeliveredOnce
CHECK_DEADLOCK FALSE
