SPECIFICATION PartSpec
CONSTANTS
    Cap = 9
    Page = 4
    Sizes = {0, 1, 2}
    Callers = {a, b}
    QueueCap = 2
    Batch = 2
    MaxRecs = 3
    MaxFlushes = 1
    MaxFaults = 2
    MaxOpens = 2
INVARIANTS
    RecoverySound
    HeaderCoversData
    DurableLog
    CrashTestSound
PROPERTIES
    LogProgress
CHECK_DEADLOCK FALSE
