CONSTANTS
    RoundId = {r1, r2}
    TaskId = {t1, t2}
    NoTask = NoTask
    Client = {c1, c2}
    MaxFence = 3
SPECIFICATION Spec
SYMMETRY Interchangeable
INVARIANTS OneOwnerOneLane FenceNamesHolder
PROPERTIES StaleCallerChangesNothing SettledIsFinal
CHECK_DEADLOCK FALSE
