SPECIFICATION Spec
CONSTANTS
    VideoCapacity = 9
    AudioCapacity = 6
    BlockSectors = 2
    VlcRetries = 2
    TotalFrames = 6
    Streams <- MCStreams
    MaxRecoveries = 2
    CompareWindow = FALSE
INVARIANTS
    TypeOK
    VideoInOrder
    AudioInOrder
    AnnouncedOnce
    PauseRemembered
PROPERTIES
    MovieEnds
CHECK_DEADLOCK FALSE
