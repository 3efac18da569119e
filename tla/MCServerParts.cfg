\* Token refreshes, output of one command, the rows of an agent's queue, two jobs, and three audit events.
CONSTANTS
    Parts = {"tokens", "stream", "table", "jobs", "audit"}
    TokenConns = {c1, c2}  RefreshThreshold = 2  MaxRefreshAttempts = 2  BatchSize = 1
    Lifetime = 3  KeepExpired = 1  MaxInits = 2  MaxCycles = 3
    MaxBufferedLines = 2  MaxLines = 3  MaxBreaks = 1  MaxStoreFaults = 1
    Priorities = {1, 2}  MaxCalls = 3
    Jobs = {j1, j2}  Unranked = {j2}  JobAgents = {a1}
    MaxJobs = 1  MaxAttempts = 2  Concurrency = 2
    Audits = {e1, e2, e3}  AuditBatchSize = 2  AuditAttempts = 2  MaxExits = 1
SPECIFICATION PartsSpec
INVARIANTS
    PartsTypeOK OneRefreshInFlight TriedBeforeExpiry RecordHasConnection
    OnlyRestartsAreSkipped ReorderHeals InterruptedIsOver QueuedHasTimer
PROPERTIES
    PublishesLog StreamedIsStored JobsEnd
CHECK_DEADLOCK FALSE
