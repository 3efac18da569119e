\* One agent that stays connected and answers every PING for 90 s.
CONSTANTS
    a1 = a1  x1 = x1  x2 = x2  None = None  Monitor = Monitor
    AgentIds = {a1}  AgentConns = {x1}
    Limit = 3  MaxFaults = 0
SPECIFICATION PresenceSpec
PROPERTY AnsweringAgentKeptAlive
CHECK_DEADLOCK FALSE
