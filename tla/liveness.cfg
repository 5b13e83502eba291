CONSTANTS
    a = a
    b = b
    c = c
    serving = serving
    bench = bench
    NoTask = NoTask
    NoEnv = NoEnv
    NoCoord = NoCoord
    Lane = {serving, bench}
    Holder = {a, b}
    Env = {e1}
    Blind = {}
    Pid = {p1, p2}
    Gpu = {g1}
    SelfSettling = {}
    CloseTask = {}
    RayExec = FALSE
    MaxBoots = 2
    Conflicts <- MCConflicts
    Capacity <- MCCapacity
    Needs <- MCNeeds
    GpuNeed <- MCOneCard
SPECIFICATION FairSpec
INVARIANTS CardExclusive
PROPERTIES QueueDrains DeadRowsFailed OrphanLanesFreed CompletionsBooked
CHECK_DEADLOCK FALSE
