SPECIFICATION FairSpec
CONSTANTS
    Workers = {w1}
    Frameworks = {"static", "nextjs"}
    MaxGeneration = 2
    MaxCloses = 2
    MaxJobs = 2
    FaultKinds = {"enqueue", "build", "start", "late", "bind", "error", "unbind", "crash"}
    MaxFaults = 2
INVARIANTS
    TypeOK
    NoOrphan
    ServedIsThere
PROPERTIES
    GenerationsAdvance
    NeverStuck
    ClosedIsTornDown
CHECK_DEADLOCK FALSE
