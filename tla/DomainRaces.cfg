SPECIFICATION FairSpec
CONSTANTS
    Free = FALSE
    Requests = {r1}
    Worker = w
    Directories = {d1}
    Containers = {k1}
    Proxy = Proxy
    None = None
    MaxTries = 1
    FaultKinds = {"acme", "files", "crash"}
    MaxFaults = 1
CHECK_DEADLOCK FALSE
INVARIANTS
    TypeOK
    PickedUp
PROPERTIES
    EventuallyLive
    RenewedInTime
