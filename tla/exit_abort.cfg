SPECIFICATION Spec
CONSTANTS
    NumApps = 1
    Tokens = {t1, t2, t3}
    SlabOrder <- AnyOrder
    UNIX_LISTENER_TOKEN = UNIX_LISTENER_TOKEN
    LOG_LISTENER_TOKEN = LOG_LISTENER_TOKEN
    SIGNALFD_TOKEN = SIGNALFD_TOKEN
    NoToken = NoToken
    AppParams <- Autostarted
    Pids = {p1, p2}
    NoPid = NoPid
    Faults = {}
    Forkers = {}
    Writers = {}
    FailBound = 1
    Clients = {c1}
    NoClient = NoClient
    Requests <- Queries
    MaxConnections = 1
    ResponseChunks = 1
    SocketChunks = 1
    Patient = TRUE
    MaxLogConnections = 0
    LogClients = 0
    MaxSigints = 1
SYMMETRY Symmetry
INVARIANT NoPanic
