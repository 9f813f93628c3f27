SPECIFICATION FairSpec
CONSTANTS
    Callers = {p1, p2}
    TimerTask = timer
    Contexts = {c1, c2}
    NoContext = null
    QueueSize = 1
    MaxSyncWaiters = 1
    MaxDelayedTasks = 1
    TaskCreateCanFail = TRUE
    MayStop = TRUE
    PostKinds = {"sync"}
CONSTRAINT Defined
PROPERTIES
    NobodyIsStuck
