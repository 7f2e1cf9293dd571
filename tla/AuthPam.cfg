SPECIFICATION Spec
CONSTANTS
    MaxAttempts = 3
    Period = 3
    Lockout = 3
    MaxTime = 10
    MaxPerTick = 4
INVARIANTS
    TypeOK
    RingIsWindow
    GuessBound
PROPERTIES
    FreshLockoutJustified
CHECK_DEADLOCK FALSE
