SPECIFICATION Spec
CONSTANTS
    s1 = s1
    cs = cs
    ims = ims
    Slots = {s1}
    Index = {1, 2}
    CallTypes = {cs, ims}
    StackStates = {"DIALING", "ALERTING", "ACTIVE", "HOLDING", "INCOMING", "WAITING", "DISCONNECTING", "DISCONNECTED"}
    ReportKinds = {"one"}
    MaxCallObjects = 2
    EccReserved = 1
    MaxRequests = 1
    MaxCallId = 3
    Dials = {"normal", "ecc"}
    Controls = {}
SYMMETRY Symmetry
VIEW View
PROPERTIES
    TransitionsBroadcast
CHECK_DEADLOCK FALSE
