\* The wrapper's connection, a command id executed twice, an output stream; a browser's session; a command line's tokens.
CONSTANTS
    Parts = {"agent", "executor", "capture", "dashboard", "login"}
    Attempts = 2  FailureThreshold = 2  MaxSlots = 2  MaxQueued = 1  MaxStray = 0
    CommandIds = {c1}  MaxRuns = 2
    OutputBufferSize = 2  HighWater = 4  MaxBytes = 6
    DashSockets = {s1, s2}  MaxReconnects = 2  BreakerLimit = 3  MaxRetries = 1
    OutboxLimit = 1  MaxSessions = 2  MaxLosses = 2
    Clis = {w1, w2}  Logins = {l1, l2}  Tabs = {t1}  MaxPairs = 2  MaxFailures = 1
SPECIFICATION ClientsSpec
INVARIANTS
    ClientsTypeOK OneAnnouncedSocket LiveIsActive NothingLostOrDoubled SoleAnnounced StoredIsHonoured
PROPERTIES
    Reconnects EndNoticed ComesBack
CHECK_DEADLOCK FALSE
