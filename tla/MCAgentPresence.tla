-------------------------- MODULE MCAgentPresence --------------------------
EXTENDS AgentPresence

CONSTANTS a1, x1, x2
=============================================================================
