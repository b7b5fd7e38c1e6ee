SPECIFICATION Spec
CONSTANTS
    VideoCapacity = 9
    AudioCapacity = 6
    BlockSectors = 2
    VlcRetries = 2
    TotalFrames = 6
    Streams <- MCStreams
    MaxRecoveries = 0
    CompareWindow = TRUE
INVARIANT AudioEntryValid
CHECK_DEADLOCK FALSE
