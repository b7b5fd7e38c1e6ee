SPECIFICATION FairSpec
CONSTANTS
    r1 = r1
    r2 = r2
    b1 = b1
    b2 = b2
    NULL = NULL
    StreamCallback = StreamCallback
    XaCallback = XaCallback
    Resources = {r1, r2}
    Buffers = {b1, b2}
    Extent <- MCExtent
    QueueSize = 3
    SectorRetryLimit = 1
    IdleStatusRetryLimit = 1
    DiscReadyRetryLimit = 1
    LastPosition = 3
    Offered <- DataRequests
    Uses = {"reconfigure"}
    MaxCalls = 1
    FaultKinds = {"command", "lost", "late", "sector"}
    MaxFaults = 2
    Inserted = {}
    Windows = {"published"}
INVARIANTS
    CallbackRoles
    QuietWhenIdle
PROPERTIES
    Reconfigured
CHECK_DEADLOCK FALSE
