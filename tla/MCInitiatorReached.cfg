\* Expected to fail: a tracked command's output never reaches its dashboard.
CONSTANTS
    a1 = a1  x1 = x1  x2 = x2  d1 = d1  d2 = d2  c1 = c1  None = None
    AgentIds = {a1}  AgentConns = {x1}  DashConns = {d1}  Commands = {c1}
    Topics <- NoTopics
    Notices <- NoNotices
    MaxQueueSize = 2  MessageTimeout = 1  RetryAttempts = 2  BatchSize = 1
    MaxMessages = 2
SPECIFICATION Spec
PROPERTY InitiatorReached

CHECK_DEADLOCK FALSE
