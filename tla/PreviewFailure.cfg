SPECIFICATION Spec
CONSTANTS
    Workers = {w1}
    Frameworks = {"static", "nextjs"}
    MaxGeneration = 2
    MaxCloses = 1
    MaxJobs = 2
    FaultKinds = {"build"}
    MaxFaults = 1
PROPERTIES
    PreviousStaysUp
CHECK_DEADLOCK FALSE
