SPECIFICATION FairSpec
CONSTANTS
    NumApps = 1
    Tokens = {t1, t2, t3, t4}
    SlabOrder <- AnyOrder
    UNIX_LISTENER_TOKEN = UNIX_LISTENER_TOKEN
    LOG_LISTENER_TOKEN = LOG_LISTENER_TOKEN
    SIGNALFD_TOKEN = SIGNALFD_TOKEN
    NoToken = NoToken
    AppParams <- Autostarted
    Pids = {p1}
    NoPid = NoPid
    Faults = {}
    Forkers = {}
    Writers = {1}
    FailBound = 0
    Clients = {c1}
    NoClient = NoClient
    Requests <- StopStart
    MaxConnections = 1
    ResponseChunks = 1
    SocketChunks = 1
    Patient = TRUE
    MaxLogConnections = 0
    LogClients = 0
    MaxSigints = 2
PROPERTIES ExitNoticed RestartSettles ShutdownCompletes RequestAnswered
