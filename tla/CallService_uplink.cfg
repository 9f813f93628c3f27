SPECIFICATION Spec
CONSTANTS
    Clients = {}
    Owner = owner
    Nobody = nobody
    Callbacks = {x}
    NoCallback = null
    Stacks = {s1, s2}
    NoStack = none
    QueueSize = 2
    MaxSyncWaiters = 1
    MaxCalls = 0
    FailingSteps = {}
    Granted = {}
    IsSystemApp = TRUE
\* Both are violated: the second is shown when the first is taken out.
INVARIANTS
    ReplacementIsServed
    StoppedHasNoUplink
