SPECIFICATION Spec
CONSTANTS
    Fd = {f1, f2, f3, f4}
    NoFd = NoFd
    MaxRx = 1
    MaxBacklog = 1
    MaxSessions = 3
    AuthExpire = 1
    Encryption = {TRUE, FALSE}
    TimeoutEnabled = TRUE
    IdleTimeout = 1
    ConnectMayFail = TRUE
    EnableSpp = TRUE
SYMMETRY FdSymmetry
INVARIANTS
    TypeOK
    OneAuthenticated
    SocketsAccounted
    TargetHasOwner
    ReadsFromOwner
    PollEntriesFresh
    CleanExit
PROPERTIES
    OwnerKeepsSession
    AccessRefined
CHECK_DEADLOCK FALSE
