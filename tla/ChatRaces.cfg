SPECIFICATION Spec
CONSTANTS
    Requests = {r1, r2, r3}
    Bodies = {json, sse, bad}
    Streams = {sse}
    Unsafe = {bad}
    Cacheable = {json}
    MinuteLimit = 1
    DayLimit = 2
    MaxChain = 2
    None = None
    FaultKinds = {"redis", "provider", "db", "cancel", "crash", "expiry"}
    MaxFaults = 1
SYMMETRY Symmetry
CHECK_DEADLOCK FALSE
INVARIANTS
    TypeOK
    ReplayIsFaithful
    OneInFlight
    BilledOnce
    LockIsHeld
PROPERTIES
    StoredIsKept
