CONSTANTS
    a = a
    b = b
    c = c
    serving = serving
    bench = bench
    NoTask = NoTask
    NoEnv = NoEnv
    NoCoord = NoCoord
    Lane = {serving, bench}
    Holder = {a, b}
    Env = {e1, e2}
    Blind = {e2}
    Pid = {p1, p2}
    Gpu = {g1}
    SelfSettling = {a}
    CloseTask = {a}
    RayExec = FALSE
    MaxBoots = 2
    Conflicts <- MCConflicts
    Capacity <- MCCapacity
    Needs <- MCNeeds
    GpuNeed <- MCGpuNeed
SPECIFICATION Spec
INVARIANTS
    TypeOK
    ExclusiveUse
    RunningKeepsLanes
    WithinCapacity
    CountedOnce
PROPERTIES
    TerminalIsFinal
    RecordBeforeLanes
    AdmissionPromise
CHECK_DEADLOCK FALSE
