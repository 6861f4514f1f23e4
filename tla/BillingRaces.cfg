SPECIFICATION Spec
CONSTANTS
    Handlers = {h1, h2}
    MaxCycles = 1
    OrderPays = {o1}
    Reported = {}
    NoPay = NoPay
    NoEvent = NoEvent
    BodyEventIds = TRUE
    FaultKinds = {}
    MaxFaults = 0
SYMMETRY Symmetry
CHECK_DEADLOCK FALSE
INVARIANTS
    TypeOK
    AckedIsApplied
PROPERTIES
    LedgerRefined
