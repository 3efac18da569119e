\* Three messages in a queue of two, or two dashboards that ask for the same command, come and go.
CONSTANTS
    a1 = a1  x1 = x1  d1 = d1  d2 = d2  c1 = c1  None = None
    AgentIds = {a1}  AgentConns = {x1}  DashConns = {d1, d2}  Commands = {c1}
    Topics <- Terminals
    Notices = {}
    MaxQueueSize = 2  MessageTimeout = 1  RetryAttempts = 2  BatchSize = 1
    MaxMessages = 3
SPECIFICATION TimersSpec
INVARIANTS TrackedDashboardIsConnected TrackedIsReachable TrackedWasRouted
PROPERTIES QueueDrains TrackingExpires
CHECK_DEADLOCK FALSE
