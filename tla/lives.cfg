SPECIFICATION Spec
CONSTANTS
    PageSize = 4
    Users <- MCUsers
    Groups <- MCGroups
    MaxLives = 2
    ConfigFiles <- MCConfigFiles
    Owners <- MCOwners
    Procs = {p1, p2, p3}
    NoProc = NoProc
    NobodysFile = 0
INVARIANTS FailureExplained ServesAll OrphansReaped LeavesNothing PanicExplained
    RunsAsConfigured
SYMMETRY Symmetry
CHECK_DEADLOCK FALSE
