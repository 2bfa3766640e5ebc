SPECIFICATION Spec
CONSTANTS
    NumApps = 0
    Tokens = {t1, t2, t3}
    SlabOrder <- AnyOrder
    UNIX_LISTENER_TOKEN = UNIX_LISTENER_TOKEN
    LOG_LISTENER_TOKEN = LOG_LISTENER_TOKEN
    SIGNALFD_TOKEN = SIGNALFD_TOKEN
    NoToken = NoToken
    AppParams = {}
    Pids = {}
    NoPid = NoPid
    Faults = {"eintr"}
    Forkers = {}
    Writers = {}
    FailBound = 0
    Clients = {c1, c2, c3}
    NoClient = NoClient
    Requests <- Queries
    MaxConnections = 2
    ResponseChunks = 2
    SocketChunks = 1
    Patient = FALSE
    MaxLogConnections = 1
    LogClients = 2
    MaxSigints = 0
SYMMETRY Symmetry
INVARIANTS TokensAccounted NoLostWakeup ClosedAfterFlush
