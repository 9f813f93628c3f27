SPECIFICATION PlatformSpec
CONSTANTS
    Jobs = {a, b}
    HalfWrap = 5
    TickFreq = 1000
    Delays = {1, 2}
    MaxDelayedTasks = 2
    MaxTaskId = 3
    MayStop = FALSE
    LoopLag = 1
    MaxLag = 2
    t1 = t1
    t2 = t2
    u = u
    v = v
    w = w
    service = service
    timerTask = timerTask
    none = none
    forever = forever
VIEW View
INVARIANTS
    TableIsWatched
    AdapterIsSound
PROPERTIES
    ImplementsTimedTable
    TableIsServed
    TimersImplement
    TimersProgress
    UnitsArrive
CHECK_DEADLOCK FALSE
