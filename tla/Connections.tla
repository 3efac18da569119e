---------------------------- MODULE Connections ----------------------------
(***************************************************************************)
(* What the message router may assume of a WebSocket connection: the       *)
(* socket, its entry in the ConnectionPool and the subscriptions of a      *)
(* dashboard, without the timers and counters by which the pool arrives at *)
(* its verdicts.  ConnectionPool.tla has those, and implements this        *)
(* module.  MessageRouter.tla extends it.                                  *)
(***************************************************************************)
EXTENDS Naturals, FiniteSets

CONSTANTS
    AgentConns,   \* connection ids given to sockets of /ws/agent
    DashConns,    \* connection ids given to sockets of /ws/dashboard
    AgentIds,     \* agents known to the database
    Topics,       \* what a dashboard can subscribe to: agents, commands,
                  \* "terminals", "traces" ('*' is the set of all of a kind)
    None

Conns == AgentConns \cup DashConns

ASSUME ConnsAssumption ==
    /\ AgentConns \cap DashConns = {}
    /\ Conns \cap AgentIds = {}
    /\ None \notin Conns \cup AgentIds

VARIABLE conn

(* A connection id is made for one socket and never used again, so a       *)
(* record only moves forward through its socket states.                    *)
SocketStates == {"new", "open", "closing", "closed"}

Connection == [sock : SocketStates, inPool : BOOLEAN, auth : BOOLEAN,
               healthy : BOOLEAN, agentId : AgentIds \cup {None},
               subs : SUBSET Topics]

NewConnection == [sock |-> "new", inPool |-> FALSE, auth |-> FALSE,
                  healthy |-> TRUE, agentId |-> None, subs |-> {}]

ConnTypeOK == conn \in [Conns -> Connection]

ConnInit == conn = [c \in Conns |-> NewConnection]

Pool == {c \in Conns : conn[c].inPool}

(* Messages are still handed to a handler while its socket is closing.     *)
Receives(c) == conn[c].sock \in {"open", "closing"}

IsConnectionHealthy(c) ==
    conn[c].inPool /\ conn[c].sock = "open" /\ conn[c].healthy

GetConnectionsByAgentId(a) == {c \in Pool : conn[c].agentId = a}

AddConnection(c) ==
    /\ conn[c].sock = "new"
    /\ conn' = [conn EXCEPT ![c].sock = "open", ![c].inPool = TRUE]

(* AGENT_CONNECT succeeded.  The handler's own record is authenticated in   *)
(* any case, the pool's only if the pool still has it; inPool says which.   *)
AuthenticateAgent(c, a) ==
    /\ c \in AgentConns /\ Receives(c)
    /\ conn' = [conn EXCEPT ![c].auth = TRUE, ![c].agentId = a]

(* DASHBOARD_INIT succeeded, with the initial subscriptions T.              *)
AuthenticateDashboard(c, T) ==
    /\ c \in DashConns /\ Receives(c)
    /\ conn' = [conn EXCEPT ![c].auth = TRUE, ![c].subs = @ \cup T]

(* The pool's entry shares the handler's subscription sets, so these two    *)
(* need no authentication and no update of the pool.                        *)
Subscribe(c, t) ==
    /\ c \in DashConns /\ Receives(c)
    /\ conn' = [conn EXCEPT ![c].subs = @ \cup {t}]

Unsubscribe(c, t) ==
    /\ c \in DashConns /\ Receives(c)
    /\ conn' = [conn EXCEPT ![c].subs = @ \ {t}]

(* The health of a connection that is not open decides nothing, and is left *)
(* out; so is what the handler's record says once the handler dropped it.   *)
SetHealth(c, h) ==
    /\ conn[c].sock = "open"
    /\ conn' = [conn EXCEPT ![c].healthy = h]

(* Someone closes the socket: the server, with or without dropping the pool *)
(* entry at once, or the peer.  The close event comes later.                *)
BeginClose(c, drop) ==
    /\ conn[c].sock = "open"
    /\ conn' = [conn EXCEPT ![c].sock = "closing",
                            ![c].inPool = ~drop, ![c].healthy = TRUE]

(* The clean-up finds an entry whose socket is closing already.             *)
RemoveConnection(c) ==
    /\ conn[c].sock = "closing"
    /\ conn' = [conn EXCEPT ![c].inPool = FALSE]

(* The close event: the pool's listener and the handler's both run in it.   *)
Closed(c) ==
    /\ Receives(c)
    /\ conn' = [conn EXCEPT ![c] = [NewConnection EXCEPT !.sock = "closed"]]

ConnNext ==
    \E c \in Conns :
        \/ AddConnection(c) \/ RemoveConnection(c) \/ Closed(c)
        \/ \E a \in AgentIds : AuthenticateAgent(c, a)
        \/ \E T \in SUBSET Topics : AuthenticateDashboard(c, T)
        \/ \E t \in Topics : Subscribe(c, t) \/ Unsubscribe(c, t)
        \/ \E b \in BOOLEAN : SetHealth(c, b) \/ BeginClose(c, b)

ConnSpec == ConnInit /\ [][ConnNext]_conn
=============================================================================
