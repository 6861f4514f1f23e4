SPECIFICATION FairSpec
CONSTANTS
    Deliveries = {d1}
    Workers = {w1}
    Requests = {}
    NoJob = NoJob
    MaxAttempts = 2
    MaxJobs = 1
    MaxManual = 0
    HookChanges = {"active", "inactive"}
    MaxFaults = 2
PROPERTIES
    EventuallySettled
