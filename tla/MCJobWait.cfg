SPECIFICATION Spec
CONSTANTS
    w1 = w1
    Subs = {w1}
    Contents <- MCContents
    MaxEvents = 2
    BatchSize = 2
    Capacity = 1
    MaxJobs = 2
    MaxAttempts = 2
    MaxClaims = 2
INVARIANTS TypeOK CompletedHappened MisledWhenBehind
CHECK_DEADLOCK FALSE
