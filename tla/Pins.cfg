SPECIFICATION Spec
CONSTANTS
    LevelPins = {"PLTRST", "PWRGD2"}
    Signals <- MCSignals
    MaxLost = 1
    MaxMoves = 3
INVARIANTS
    LevelsReported
    PrdyOnce
    PinsReleased
CHECK_DEADLOCK FALSE
