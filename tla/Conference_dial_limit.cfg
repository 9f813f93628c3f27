SPECIFICATION Spec
CONSTANTS
    Slots = {s1}
    MaxCallId = 3
    Handovers <- ToCs
    StackStates = {"ACTIVE", "HOLDING"}
    Dials = TRUE
PROPERTIES
    DialKeepsLimit
CHECK_DEADLOCK FALSE
