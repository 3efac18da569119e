\* One process that renews its tokens, and one request that fails.
CONSTANTS
    Parts = {"login"}
    Attempts = 2  FailureThreshold = 2  MaxSlots = 2  MaxQueued = 1  MaxStray = 0
    CommandIds = {c1}  MaxRuns = 1
    OutputBufferSize = 2  HighWater = 4  MaxBytes = 6
    DashSockets = {s1, s2}  MaxReconnects = 2  BreakerLimit = 3  MaxRetries = 1
    OutboxLimit = 1  MaxSessions = 2  MaxLosses = 1
    Clis = {w1}  Logins = {l1}  Tabs = {t1}  MaxPairs = 3  MaxFailures = 1
SPECIFICATION ClientsSpec
PROPERTY OnlyInvalidCleared
CHECK_DEADLOCK FALSE
