-------------------------- MODULE MCMessageRouter --------------------------
EXTENDS RouterPromises

CONSTANTS a1, x1, x2, d1, d2, c1

NoTopics == {}
NoNotices == {}
OneNotice == {<<"AGENT_CONNECTED", None>>}
=============================================================================
