\* A command, its cancellation, and a child that may ignore SIGTERM.
CONSTANTS
    Parts = {"executor"}
    Attempts = 2  FailureThreshold = 2  MaxSlots = 2  MaxQueued = 1  MaxStray = 0
    CommandIds = {c1}  MaxRuns = 1
    OutputBufferSize = 2  HighWater = 4  MaxBytes = 6
    DashSockets = {s1, s2}  MaxReconnects = 2  BreakerLimit = 3  MaxRetries = 1
    OutboxLimit = 1  MaxSessions = 2  MaxLosses = 1
    Clis = {w1}  Logins = {l1}  Tabs = {t1}  MaxPairs = 1  MaxFailures = 0
SPECIFICATION ClientsSpec
PROPERTY CancelledEnds
CHECK_DEADLOCK FALSE
