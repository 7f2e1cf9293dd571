SPECIFICATION Spec
CONSTANTS
    Buses = {1, 2, 3}
    NoBus = NoBus
    Tables <- MCI2cTables
    Lens = {1}
    MaxDataSize = 5
    MaxCmds = 3
    MayFail = FALSE
INVARIANTS
    SelectedBusLocked
CHECK_DEADLOCK FALSE
