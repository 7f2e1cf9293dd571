SPECIFICATION Spec
CONSTANTS
    HeaderSize = 3
    MaxDataSize = 2
    Sizes = {0, 1, 2, 3}
    MaxMsgs = 2
    MaxConns = 2
    Transports = {TRUE, FALSE}
INVARIANTS
    TypeOK
    Framed
    HandledOrBuffered
PROPERTIES
    WaitsAtStart
CHECK_DEADLOCK FALSE
