SPECIFICATION Spec
CONSTANTS
    Slots = {s1}
    MaxCallId = 2
    Handovers <- BothWays
    StackStates = {"INCOMING", "ACTIVE", "HOLDING", "DISCONNECTING", "DISCONNECTED"}
    Dials = FALSE
INVARIANTS
    NoStateLeaks
CHECK_DEADLOCK FALSE
