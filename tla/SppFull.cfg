SPECIFICATION Spec
CONSTANTS
    MaxDevices = 1
    Ibis <- MCIbis
    MaxDataSize = 10
    IbiMaxCount = 2
    RxLen = 4
    OpcodeLen = 0
    EventBuffer = 4
    MaxMsgs = 1
    MaxCmds = 4
    MaxEvents = 1
INVARIANT ResponsesFit
CHECK_DEADLOCK FALSE
