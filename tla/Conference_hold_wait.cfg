SPECIFICATION Spec
CONSTANTS
    Slots = {s1}
    MaxCallId = 2
    Handovers <- ToCs
    StackStates = {"INCOMING", "ACTIVE", "HOLDING", "DISCONNECTING", "DISCONNECTED"}
    Dials = FALSE
PROPERTIES
    HoldWaitEndsHeld
CHECK_DEADLOCK FALSE
