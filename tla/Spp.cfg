SPECIFICATION Spec
CONSTANTS
    MaxDevices = 2
    Ibis <- MCIbis
    MaxDataSize = 12
    IbiMaxCount = 1
    RxLen = 0
    OpcodeLen = 0
    EventBuffer = 6
    MaxMsgs = 1
    MaxCmds = 3
    MaxEvents = 2
INVARIANTS
    TypeOK
    EventsKept
    BulkClosed
    AnsweredOnce
PROPERTIES
    PrdyTrailRead
    MessageEnds
CHECK_DEADLOCK FALSE
