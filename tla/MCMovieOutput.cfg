SPECIFICATION Spec
CONSTANTS
    Slices = 20
    DeferThreshold = 2
    VlcRetries = 3
    TotalFrames = 4
    SliceWindow = FALSE
INVARIANTS
    TypeOK
    BuffersApart
    OneStepAhead
    UploadedAtOnce
PROPERTIES
    ShownInOrder
    PlaybackEnds
CHECK_DEADLOCK FALSE
