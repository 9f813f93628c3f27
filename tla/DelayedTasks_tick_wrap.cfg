SPECIFICATION Spec
CONSTANTS
    Jobs = {a, b}
    HalfWrap = 4
    TickFreq = 1000
    Delays = {1, 3}
    MaxDelayedTasks = 2
    MaxTaskId = 3
    MayStop = FALSE
    LoopLag = 2
    MaxLag = 2
INVARIANTS
    OrderedByDueTick
CHECK_DEADLOCK FALSE
