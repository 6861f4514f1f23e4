SPECIFICATION Spec
CONSTANTS
    Handlers = {h1}
    MaxCycles = 1
    OrderPays = {o1}
    Reported = {1}
    NoPay = NoPay
    NoEvent = NoEvent
    BodyEventIds = TRUE
    FaultKinds = {"claim", "crash", "raise"}
    MaxFaults = 1
CHECK_DEADLOCK FALSE
INVARIANTS
    AckedIsApplied
