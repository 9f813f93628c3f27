SPECIFICATION Spec
CONSTANTS
    Jobs = {a, b}
    HalfWrap = 5
    TickFreq = 1000
    Delays = {1, 3}
    MaxDelayedTasks = 2
    MaxTaskId = 3
    MayStop = TRUE
    LoopLag = 1
    MaxLag = 1
INVARIANTS
    NothingLeftByStop
CHECK_DEADLOCK FALSE
