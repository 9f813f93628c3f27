SPECIFICATION FairSpec
CONSTANTS
    Callers = {p1, p2}
    TimerTask = timer
    Contexts = {c1, c2}
    NoContext = null
    QueueSize = 1
    MaxSyncWaiters = 1
    MaxDelayedTasks = 2
    TaskCreateCanFail = FALSE
    MayStop = FALSE
    PostKinds = {"async", "delayed", "remove"}
INVARIANTS
    DelayedHasTimer
    TimerMessageFits
PROPERTY DelayedServed
