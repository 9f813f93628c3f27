SPECIFICATION Spec
CONSTANTS
    s1 = s1
    cs = cs
    Slots = {s1}
    Index = {1, 2}
    CallTypes = {cs}
    StackStates = {"DIALING", "ALERTING", "ACTIVE", "HOLDING", "INCOMING", "WAITING", "DISCONNECTING", "DISCONNECTED"}
    ReportKinds = {"one"}
    MaxCallObjects = 3
    EccReserved = 1
    MaxRequests = 1
    MaxCallId = 3
    Dials = {}
    Controls = {"hangup"}
SYMMETRY Symmetry
VIEW View
PROPERTIES
    HangUpActiveIsActive
CHECK_DEADLOCK FALSE
