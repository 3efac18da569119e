\* One session whose first two openings fail.
CONSTANTS
    Parts = {"dashboard"}
    Attempts = 2  FailureThreshold = 2  MaxSlots = 2  MaxQueued = 1  MaxStray = 0
    CommandIds = {c1}  MaxRuns = 1
    OutputBufferSize = 2  HighWater = 4  MaxBytes = 6
    DashSockets = {s1, s2}  MaxReconnects = 5  BreakerLimit = 5  MaxRetries = 3
    OutboxLimit = 1  MaxSessions = 1  MaxLosses = 2
    Clis = {w1}  Logins = {l1}  Tabs = {t1}  MaxPairs = 1  MaxFailures = 0
SPECIFICATION ClientsSpec
PROPERTY BackoffGrows
CHECK_DEADLOCK FALSE
