SPECIFICATION ObjectsSpec
CONSTANTS
    Tasks = {a, b, c}
    CounterCanFail = TRUE
    CallTypes = {cs, ims}
    Ims = ims
    FirstTime = 1
    MaxTime = 5
    MaxRequests = 2
    Slots = {slot}
    MaxCallId = 2
    StackStates = {"INCOMING", "ACTIVE", "HOLDING", "DISCONNECTED"}
    Dials = TRUE
SYMMETRY Symmetry
INVARIANTS
    PointersSound
    ObjectsSound
    OutcomeMatchesTalk
    TimesOrdered
PROPERTIES
    TalkBeginsOnce
CHECK_DEADLOCK FALSE
