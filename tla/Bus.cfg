SPECIFICATION Spec
CONSTANTS
    Buses = {1, 2, 3}
    NoBus = NoBus
    Tables <- MCTables
    Lens = {1}
    MaxDataSize = 5
    MaxCmds = 3
    MayFail = TRUE
INVARIANTS
    TypeOK
    HoldsNothingOutside
    TransfersLocked
    AnswersComplete
PROPERTIES
    MessageEnds
CHECK_DEADLOCK FALSE
