SPECIFICATION Spec
CONSTANTS
    Uploads = {u1, u2}
    Pushes = {p1}
    Rollbacks = {r1}
    Keyed = {u1, u2}
    Redelivered = {p1}
    Hosts = {free, own}
    FreeHost = free
    Custom = {u2}
    Nextjs = {u2, p1}
    None = None
    MaxRuntimes = 2
    FaultKinds = {"build", "start", "enqueue", "pending", "bind", "late", "error", "crash", "expiry", "hostname"}
    MaxFaults = 1
INVARIANTS
    TypeOK
    OneRunPerKey
    ServedIsUp
    Accounted
    CurrentIsBound
PROPERTIES
    OlderYields
