SPECIFICATION FairSpec
CONSTANTS
    Capacity = 2
    PosLimit = 4
    NoByte = NoByte
    Streams = {"stdout", "stderr"}
    PipeSize = 2
    MaxXfer = 2
    MaxBytes = 3
    MaxRuns = 2
    SpliceFails = TRUE
INVARIANTS RingVerbatim BytesAccounted StreamsInOrder NoOutputLost NoStrandedOutput EchoUntilDrain
PROPERTIES OutputCaptured
CHECK_DEADLOCK FALSE
