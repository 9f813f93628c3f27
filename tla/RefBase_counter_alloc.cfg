SPECIFICATION Spec
CONSTANTS
    Tasks = {a, b}
    CounterCanFail = TRUE
INVARIANTS
    DestroyedWithLastSptr
CHECK_DEADLOCK FALSE
