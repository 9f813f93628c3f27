SPECIFICATION CmsisSpec
CONSTANTS
    Users = {a, b, c}
    InitialCount = 0
    MaxCount = 2
INVARIANT CountBounded
CHECK_DEADLOCK FALSE
