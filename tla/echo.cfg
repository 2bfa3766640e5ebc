SPECIFICATION Spec
CONSTANTS
    Capacity = 2
    PosLimit = 4
    NoByte = NoByte
    Streams = {"stdout", "stderr"}
    PipeSize = 2
    MaxXfer = 2
    MaxBytes = 3
    MaxRuns = 1
    SpliceFails = FALSE
INVARIANT EchoesEverything
CHECK_DEADLOCK FALSE
