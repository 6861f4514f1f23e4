SPECIFICATION FairSpec
CONSTANTS
    Handlers = {h1}
    MaxCycles = 2
    OrderPays = {}
    Reported = {1}
    NoPay = NoPay
    NoEvent = NoEvent
    BodyEventIds = FALSE
    FaultKinds = {"cancel"}
    MaxFaults = 1
CHECK_DEADLOCK FALSE
PROPERTIES
    EveryChargeCredited
    DroppedIsRepaired
    DowngradeIsFinal
