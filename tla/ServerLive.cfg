SPECIFICATION FairSpec
CONSTANTS
    Fd = {f1, f2}
    NoFd = NoFd
    MaxRx = 1
    MaxBacklog = 1
    MaxSessions = 2
    AuthExpire = 1
    Encryption = {TRUE}
    TimeoutEnabled = TRUE
    IdleTimeout = 1
    ConnectMayFail = FALSE
    EnableSpp = FALSE
PROPERTIES
    LoopReturns
    ConnectorAnswered
    DeadPeerReleased
    QuietReleasesTarget
    ExpiredClosedByTraffic
CHECK_DEADLOCK FALSE
