SPECIFICATION Spec
CONSTANTS
    Slots = {s1}
    MaxCallId = 2
    Handovers <- ToCs
    StackStates = {"INCOMING", "ACTIVE", "HOLDING", "DISCONNECTED"}
    Dials = FALSE
INVARIANTS
    StopLeavesNothing
CHECK_DEADLOCK FALSE
