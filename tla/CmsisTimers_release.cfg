SPECIFICATION Spec
CONSTANTS
    Slots = {s1, s2}
    Tasks = {a, b}
    TimerTask = timerTask
    MaxQueue = 3
    None = none
INVARIANT ReleasedAfterCallback
