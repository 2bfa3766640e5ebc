SPECIFICATION Spec
CONSTANTS
    NumApps = 1
    Tokens = {t1, t2, t3, t4}
    SlabOrder <- AnyOrder
    UNIX_LISTENER_TOKEN = UNIX_LISTENER_TOKEN
    LOG_LISTENER_TOKEN = LOG_LISTENER_TOKEN
    SIGNALFD_TOKEN = SIGNALFD_TOKEN
    NoToken = NoToken
    AppParams <- Autostarted
    Pids = {p1, p2}
    NoPid = NoPid
    Faults = {"fork", "register", "accept", "kill", "timeout"}
    Forkers = {1}
    Writers = {}
    FailBound = 0
    Clients = {c1}
    NoClient = NoClient
    Requests <- StopStart
    MaxConnections = 1
    ResponseChunks = 1
    SocketChunks = 1
    Patient = TRUE
    MaxLogConnections = 1
    LogClients = 1
    MaxSigints = 0
SYMMETRY Symmetry
INVARIANTS NoSurvivors TokenOwnership
PROPERTY ImplementsAppLife
CHECK_DEADLOCK FALSE
