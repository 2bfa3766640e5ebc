SPECIFICATION Spec
CONSTANTS
    NumApps = 1
    Tokens = {t1, t2, t3, t4}
    SlabOrder <- AnyOrder
    UNIX_LISTENER_TOKEN = UNIX_LISTENER_TOKEN
    LOG_LISTENER_TOKEN = LOG_LISTENER_TOKEN
    SIGNALFD_TOKEN = SIGNALFD_TOKEN
    NoToken = NoToken
    AppParams <- ThreeKinds
    Pids = {p1, p2}
    NoPid = NoPid
    Faults = {}
    Forkers = {1}
    Writers = {}
    FailBound = 2
    Clients = {c1}
    NoClient = NoClient
    Requests <- AllRequests
    MaxConnections = 1
    ResponseChunks = 1
    SocketChunks = 1
    Patient = FALSE
    MaxLogConnections = 0
    LogClients = 0
    MaxSigints = 2
SYMMETRY Symmetry
INVARIANTS TypeOK NoPanic TokensAccounted TrackedChild RestartJustified ShutdownReachesEveryApp
PROPERTIES StopSticks ImplementsAppLife
