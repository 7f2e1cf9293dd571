SPECIFICATION Spec
CONSTANTS
    LevelPins = {"PLTRST"}
    Signals <- MCSignals2
    MaxLost = 1
    MaxMoves = 2
INVARIANT PowerTracked
CHECK_DEADLOCK FALSE
