SPECIFICATION Spec
CONSTANTS
    Handlers = {h1}
    MaxCycles = 1
    OrderPays = {}
    Reported = {1}
    NoPay = NoPay
    NoEvent = NoEvent
    BodyEventIds = TRUE
    FaultKinds = {"crash", "raise"}
    MaxFaults = 1
CHECK_DEADLOCK FALSE
INVARIANTS
    ProcessedIsCredited
