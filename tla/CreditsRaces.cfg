SPECIFICATION FairSpec
CONSTANTS
    Calls = {c1, c2}
    Grants = {g1}
    Loop = {c1, c2, g1}
    Scale = 2
    Estimates = {3, 6}
    Actuals = {0, 5}
    Credits = 1
    Start = 2
    None = None
    FaultKinds = {"provider", "db", "invalid", "crash"}
    MaxFaults = 2
CHECK_DEADLOCK FALSE
INVARIANTS
    TypeOK
    Conserved
    NoOverdraft
    RowTells
PROPERTIES
    EveryCallEnds
