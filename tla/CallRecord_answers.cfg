SPECIFICATION RecordSpec
CONSTANTS
    cs = cs
    ims = ims
    CallTypes = {cs, ims}
    Ims = ims
    FirstTime = 1
    MaxTime = 2
    MaxRequests = 1
INVARIANTS
    TalkedIsNotRejected
PROPERTIES
    RingingBeginKept
CHECK_DEADLOCK FALSE
