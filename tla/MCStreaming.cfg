SPECIFICATION FairSpec
CONSTANTS
    FileSize = 5
    BufferSize = 3
    SkipSize = 2
    MaxChunk = 2
    MaxRead = 3
    MaxRetry = 1
    MaxErrors = 2
    SizeAnnounced <- MCSizeAnnounced
    Bodies = {"file"}
    StartSeesGap = FALSE
INVARIANTS
    ReadExact
    StreamConsistent
PROPERTIES
    ShortReadExplained
    CallsReturn
CHECK_DEADLOCK FALSE
