\* One agent's connection, through every timer of the pool and the heartbeat.
CONSTANTS
    a1 = a1  x1 = x1  d1 = d1  None = None
    AgentConns = {x1}  DashConns = {}  AgentIds = {a1}
    MaxMissedPings = 3  MaxOwed = 1
SPECIFICATION PoolSpec
INVARIANTS PoolTypeOK DeadPeerLeavesPool UnauthenticatedLeavesPool
PROPERTIES PromptPeerIsKept ImplementsConnections
CHECK_DEADLOCK FALSE
