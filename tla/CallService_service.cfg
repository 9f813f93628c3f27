SPECIFICATION Spec
CONSTANTS
    Clients = {a}
    Owner = owner
    Nobody = nobody
    Callbacks = {x, y}
    NoCallback = null
    Stacks = {s}
    NoStack = none
    QueueSize = 2
    MaxSyncWaiters = 1
    MaxCalls = 1
    FailingSteps = {1}
    Granted = {"SET_TELEPHONY_STATE", "PLACE_CALL"}
    IsSystemApp = TRUE
VIEW View
SYMMETRY Symmetry
INVARIANTS
    ReportsAgree
    CleanWhenNotReady
    UplinkSound
PROPERTIES
    OnlyRegisteredIsCalled
    UplinkOnce
