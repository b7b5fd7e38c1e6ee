SPECIFICATION Spec
CONSTANTS
    r1 = r1
    r2 = r2
    b1 = b1
    b2 = b2
    NULL = NULL
    StreamCallback = StreamCallback
    XaCallback = XaCallback
    Resources = {r1, r2}
    Buffers = {b1, b2}
    Extent <- MCExtent
    QueueSize = 3
    SectorRetryLimit = 1
    IdleStatusRetryLimit = 1
    DiscReadyRetryLimit = 1
    LastPosition = 3
    Offered <- DataRequests
    Uses = {"stop", "reset", "lock"}
    MaxCalls = 2
    FaultKinds = {"late", "poll", "command", "sector", "refuse", "lid"}
    MaxFaults = 2
    Inserted = {"game", "other", "rejected", "none"}
    Windows = {"published"}
INVARIANTS
    RolesInv
    ErrorDisarms
    ErrorInv
    TransferInv
    DiscInv
PROPERTIES
    ValidatedDisc
    StoredInPlace
    ShellOpenDetected
CHECK_DEADLOCK FALSE
