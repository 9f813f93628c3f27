SPECIFICATION CallsSpec
CONSTANTS
    Slots = {s1, s2}
    Index = {1, 2}
    CallTypes = {cs, ims}
    StackStates = {"DIALING", "ALERTING", "ACTIVE", "HOLDING", "INCOMING", "WAITING", "DISCONNECTING", "DISCONNECTED"}
    ReportKinds = {"one"}
    MaxCallObjects = 3
    EccReserved = 1
    MaxRequests = 1
    MaxCallId = 3
    Dials = {"normal"}
    Controls = {"answer", "hangup"}
SYMMETRY Symmetry
VIEW View
INVARIANTS
    UniqueKey
    TableIsSound
PROPERTIES
    HangUpsKept
    TransitionsTold
    IdentityKept
    DialFailsClean
    AnswerOnlyRinging
    EccHasRoom
CHECK_DEADLOCK FALSE
