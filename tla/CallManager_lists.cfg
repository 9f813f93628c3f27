SPECIFICATION FairSpec
CONSTANTS
    s1 = s1
    cs = cs
    Slots = {s1}
    Index = {1, 2}
    CallTypes = {cs}
    StackStates = {"DIALING", "ALERTING", "ACTIVE", "HOLDING", "INCOMING", "DISCONNECTING", "DISCONNECTED"}
    ReportKinds = {"list"}
    MaxCallObjects = 3
    EccReserved = 1
    MaxRequests = 1
    MaxCallId = 3
    Dials = {"normal"}
    Controls = {"hangup"}
VIEW View
INVARIANTS
    NoZombieCall
PROPERTIES
    PendingHangupResolved
CHECK_DEADLOCK FALSE
