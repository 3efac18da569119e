\* One agent that may reconnect once, one crash or one failed call.
CONSTANTS
    a1 = a1  x1 = x1  x2 = x2  None = None  Monitor = Monitor
    AgentIds = {a1}  AgentConns = {x1, x2}
    Limit = 1  MaxFaults = 1
SPECIFICATION FairPresenceSpec
INVARIANTS PresenceTypeOK OnlineHasHeartbeat TimerHasConnection
PROPERTIES GhostGoesOffline
CHECK_DEADLOCK FALSE
