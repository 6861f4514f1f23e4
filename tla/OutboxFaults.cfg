SPECIFICATION Spec
CONSTANTS
    Deliveries = {d1}
    Workers = {w1}
    Requests = {q1}
    NoJob = NoJob
    MaxAttempts = 2
    MaxJobs = 2
    MaxManual = 1
    HookChanges = {"active", "inactive", "deleted"}
    MaxFaults = 1
INVARIANTS
    TypeOK
    DeliveredIsHonest
    DeadIsJustified
    WrittenAhead
    OverBudgetIsManual
