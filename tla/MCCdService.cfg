SPECIFICATION Spec
CONSTANTS
    r1 = r1
    r2 = r2
    b1 = b1
    b2 = b2
    NULL = NULL
    StreamCallback = StreamCallback
    XaCallback = XaCallback
    Resources = {r1, r2}
    Buffers = {b1, b2}
    Extent <- MCExtent
    QueueSize = 3
    SectorRetryLimit = 1
    IdleStatusRetryLimit = 1
    DiscReadyRetryLimit = 1
    LastPosition = 3
    Offered <- OrderRequests
    Uses = {"stop", "reset", "lock"}
    MaxCalls = 3
    FaultKinds = {"sector", "command", "lost", "refuse", "late", "poll"}
    MaxFaults = 2
    Inserted = {}
    Windows = {"published", "checking", "observed"}
INVARIANTS
    TypeOK
    NoNullAccess
    CallbackRoles
PROPERTIES
    ServedInOrder
CHECK_DEADLOCK FALSE
