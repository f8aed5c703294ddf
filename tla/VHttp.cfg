SPECIFICATION Spec
CONSTANTS
    FileSize = 5
    BufferSize = 3
    SkipSize = 2
    MaxChunk = 2
    MaxRead = 3
    MaxRetry = 1
    MaxErrors = 1
    SizeAnnounced <- MCSizeAnnounced
    Bodies = {"file", "error"}
    StartSeesGap = FALSE
INVARIANT
    ReadExact
CHECK_DEADLOCK FALSE
