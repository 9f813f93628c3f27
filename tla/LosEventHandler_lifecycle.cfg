SPECIFICATION Spec
CONSTANTS
    Callers = {p1, p2}
    TimerTask = timer
    Contexts = {c1, c2}
    NoContext = null
    QueueSize = 1
    MaxSyncWaiters = 1
    MaxDelayedTasks = 1
    TaskCreateCanFail = FALSE
    MayStop = TRUE
    PostKinds = {"sync", "delayed"}
SYMMETRY Symmetry
VIEW View
INVARIANTS
    TypeOK
    WaitersSound
    UninitIsClean
    NoLostWakeup
    NoUseAfterRelease
