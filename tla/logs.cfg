SPECIFICATION FairSpec
CONSTANTS
    Capacity = 3
    PosLimit = 9
    NoByte = NoByte
    Clients = {c1, c2}
    MaxConnections = 1
    SocketSize = 2
    MaxBytes = 6
    MaxCapture = 2
    NoBound = NoBound
INVARIANTS TypeOK StreamVerbatim FollowersCurrent
PROPERTIES BlockedProgresses 
