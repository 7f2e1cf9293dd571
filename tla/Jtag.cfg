SPECIFICATION Spec
CONSTANTS
    MaxScanChains = 2
    MaxDataSize = 5
    Packets <- MCPackets
    MayFail = TRUE
INVARIANTS
    TypeOK
    TapTracked
PROPERTIES
    PaddedScan
    AnswerComplete
CONSTRAINT Followed
CHECK_DEADLOCK FALSE
