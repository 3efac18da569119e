--------------------------- MODULE MessageRouter ---------------------------
(***************************************************************************)
(* The backend's message router: the bounded priority queue every message  *)
(* between agents and dashboards passes through, its delivery cycle with   *)
(* retries, back-off and timeout, and the handlers that feed it.           *)
(* Connections says what a connection is to it, CommandTracking how it     *)
(* finds the dashboard that asked for a command.                           *)
(*                                                                         *)
(* Time runs in seconds, relative to each message: Tick ages the queue.    *)
(***************************************************************************)
EXTENDS Connections, Sequences

CONSTANTS
    Commands,
    MaxQueueSize,     \* config.maxQueueSize: 1000 in setup.ts
    MessageTimeout,   \* config.messageTimeoutMs: 30 s in setup.ts
    RetryAttempts,    \* config.retryAttempts: 3 in setup.ts
    BatchSize,        \* deliveries of one cycle: 10
    Notices,          \* the <<type, topic>> pairs broadcast in this instance
    MaxMessages       \* bound of the model: messages ever queued

ASSUME RouterAssumption ==
    /\ MaxQueueSize \in Nat \ {0}
    /\ MessageTimeout \in Nat
    /\ RetryAttempts \in Nat \ {0}
    /\ BatchSize \in Nat \ {0}
    /\ MaxMessages \in Nat
    /\ Notices \subseteq
         ({"AGENT_STATUS", "QUEUE_UPDATE"} \X AgentIds)
         \cup ({"COMMAND_STATUS"} \X Commands)
         \cup {<<"TRACE_STREAM", "traces">>, <<"AGENT_CONNECTED", None>>}

VARIABLES commandToDashboard, dashboardCommands, commandTimestamps

INSTANCE CommandTracking WITH Dashboards <- DashConns, NoDashboard <- None

VARIABLES
    messageQueue,   \* id -> message, for the ids in the queue; ids grow in the
                    \* order of insertion, which is the order of the Map
    nextId,
    stats,          \* routingStats, and what clearQueue threw away
    sent,           \* history: the pairs <<id, connection>> of every send
    requested,      \* history: who had a command routed to an agent
    begun,          \* history: the commands some agent was sent
    running         \* the processing and clean-up timers are set

tracking == <<commandToDashboard, dashboardCommands, commandTimestamps>>
queueVars == <<messageQueue, nextId, stats>>
history == <<sent, requested, begun>>
vars == <<conn, tracking, queueVars, history, running>>

-----------------------------------------------------------------------------
(* Messages.  A route is the target and the filter closure a route*()       *)
(* function stores with the message; the closure runs at delivery.          *)

Priority ==
    [EMERGENCY_STOP |-> 10, COMMAND_CANCEL |-> 9, AGENT_CONTROL |-> 9,
     TERMINAL_STREAM |-> 9, AGENT_STATUS |-> 8, COMMAND_REQUEST |-> 8,
     AGENT_CONNECTED |-> 8, COMMAND_STATUS |-> 7, QUEUE_UPDATE |-> 7,
     TRACE_STREAM |-> 6]

ToAgent(a)    == [target |-> "specific", id |-> a, filter |-> "agentId", arg |-> a]
ToAllAgents   == [target |-> "agent", id |-> None, filter |-> "all", arg |-> None]
ToDashboards  == [target |-> "dashboard", id |-> None, filter |-> "all", arg |-> None]
ToTopic(t)    == [target |-> "dashboard", id |-> None, filter |-> "topic", arg |-> t]
ToDashboard(d) == [target |-> "specific", id |-> d, filter |-> "connection", arg |-> d]

AllTopics == AgentIds \cup Commands \cup {"terminals", "traces"}

Routes == {ToAllAgents, ToDashboards} \cup {ToAgent(a) : a \in AgentIds}
          \cup {ToTopic(t) : t \in AllTopics} \cup {ToDashboard(d) : d \in DashConns}

Message(type, route, about) ==
    [type |-> type, route |-> route, about |-> about,
     attempts |-> 0, age |-> 0, wait |-> 0]

Messages ==
    {m \in [type : DOMAIN Priority, route : Routes, about : Commands \cup {None},
            attempts : 0..(RetryAttempts - 1), age : 0..(MessageTimeout + 1),
            wait : 0..30] :
        m.type = "COMMAND_REQUEST" => m.about \in Commands}

Prio(m) == Priority[m.type]

-----------------------------------------------------------------------------
(* queueMessage: make room if the queue is full, then insert.               *)

\* Slip: one message too many.
FullLate(q) == Cardinality(DOMAIN q) > MaxQueueSize

Full(q) == Cardinality(DOMAIN q) >= MaxQueueSize

(* The lowest priority, and the oldest of those.                            *)
LowestPriority(q) ==
    CHOOSE i \in DOMAIN q : \A j \in DOMAIN q :
        \/ Prio(q[i]) < Prio(q[j])
        \/ Prio(q[i]) = Prio(q[j]) /\ i <= j

Keep(q, I) == [i \in DOMAIN q \cap I |-> q[i]]

MakeRoom(q) ==
    IF Full(q) THEN Keep(q, DOMAIN q \ {LowestPriority(q)}) ELSE q

Enqueue(q, id, m) ==
    [i \in DOMAIN MakeRoom(q) \cup {id} |-> IF i = id THEN m ELSE MakeRoom(q)[i]]

\* Slip: the eviction is not counted.
EvictsUncounted(q) == 0

Evicts(q) == IF Full(q) THEN 1 ELSE 0

QueueMessage(m) ==
    /\ nextId < MaxMessages
    /\ messageQueue' = Enqueue(messageQueue, nextId, m)
    /\ nextId' = nextId + 1
    /\ stats' = [stats EXCEPT !.queued = @ + 1,
                              !.dropped = @ + Evicts(messageQueue)]

QueueTwo(m, n) ==
    LET q == Enqueue(messageQueue, nextId, m) IN
    /\ nextId + 1 < MaxMessages
    /\ messageQueue' = Enqueue(q, nextId + 1, n)
    /\ nextId' = nextId + 2
    /\ stats' = [stats EXCEPT !.queued = @ + 2,
                              !.dropped = @ + Evicts(messageQueue) + Evicts(q)]

-----------------------------------------------------------------------------
(* deliverMessage: who gets a message, were it delivered now.               *)

\* Slip: the id of a specific target read as a connection id.
CandidatesByConnection(r) ==
    CASE r.target = "agent"     -> Pool \cap AgentConns
      [] r.target = "dashboard" -> Pool \cap DashConns
      [] r.target = "specific"  -> Pool \cap {r.id}

Candidates(r) ==
    CASE r.target = "agent"     -> Pool \cap AgentConns
      [] r.target = "dashboard" -> Pool \cap DashConns
      [] r.target = "specific"  -> GetConnectionsByAgentId(r.id)

(* isDashboardSubscribedTo*: the initiator of a command counts as           *)
(* subscribed to it.                                                        *)
Subscribed(c, t) ==
    \/ t \in conn[c].subs
    \/ t \in Commands /\ commandToDashboard[t] = c

Filter(r, c) ==
    CASE r.filter = "agentId"    -> conn[c].agentId = r.arg
      [] r.filter = "connection" -> c = r.arg /\ conn[c].auth
      [] r.filter = "topic"      -> conn[c].auth /\ Subscribed(c, r.arg)
      [] r.filter = "all"        -> conn[c].auth

Recipients(m) ==
    {c \in Candidates(m.route) :
        Filter(m.route, c) /\ conn[c].auth /\ IsConnectionHealthy(c)}

-----------------------------------------------------------------------------
(* processMessageQueue: one cycle, which no other step interrupts.  It      *)
(* walks the queue by descending priority, first in first out within one,   *)
(* and stops after BatchSize deliveries.                                    *)

RetryDelays == <<1, 2, 4, 8, 16>>
RetryDelay(n) == IF n <= Len(RetryDelays) THEN RetryDelays[n] ELSE 30

Due(i)         == messageQueue[i].wait = 0
TimedOut(i)    == messageQueue[i].age > MessageTimeout
Deliverable(i) == Due(i) /\ ~TimedOut(i) /\ Recipients(messageQueue[i]) # {}

\* Slip: insertion order only, no sort.
BeforeUnsorted(i, j) == i < j

Before(i, j) ==
    \/ Prio(messageQueue[i]) > Prio(messageQueue[j])
    \/ Prio(messageQueue[i]) = Prio(messageQueue[j]) /\ i < j

Reached == {i \in DOMAIN messageQueue : Due(i) /\
    Cardinality({j \in DOMAIN messageQueue : Before(j, i) /\ Deliverable(j)}) < BatchSize}

Delivered == {i \in Reached : Deliverable(i)}
Expiring  == {i \in Reached : TimedOut(i)}
Failing   == Reached \ (Delivered \cup Expiring)
\* Slip: one attempt more than configured.
GivenUpLate == {i \in Failing : messageQueue[i].attempts + 1 > RetryAttempts}

GivenUp   == {i \in Failing : messageQueue[i].attempts + 1 >= RetryAttempts}

\* Slip: a delivered message is not deleted.
FinishedButKept == Expiring \cup GivenUp

Finished == Delivered \cup Expiring \cup GivenUp

\* Slip: what could not be delivered is queued anew.
RetryAnew(m) == [Message(m.type, m.route, m.about) EXCEPT !.wait = RetryDelay(1)]

(* handleDeliveryFailure                                                    *)
Retry(m) == [m EXCEPT !.attempts = @ + 1, !.wait = RetryDelay(m.attempts + 1)]

ProcessMessageQueue ==
    /\ running /\ DOMAIN messageQueue # {}
    /\ messageQueue' =
         [i \in DOMAIN messageQueue \ Finished |->
            IF i \in Failing THEN Retry(messageQueue[i]) ELSE messageQueue[i]]
    /\ stats' = [stats EXCEPT !.sent = @ + Cardinality(Delivered),
                              !.failed = @ + Cardinality(GivenUp),
                              !.dropped = @ + Cardinality(Expiring)]
    /\ sent' = sent \cup UNION {{i} \X Recipients(messageQueue[i]) : i \in Delivered}
    /\ begun' = begun \cup {messageQueue[i].about : i \in
                   {j \in Delivered : messageQueue[j].type = "COMMAND_REQUEST"}}
    /\ UNCHANGED <<conn, tracking, nextId, requested, running>>

(* A second passes: ages grow, waits run out.                               *)
Tick ==
    /\ DOMAIN messageQueue # {}
    /\ messageQueue' =
         [i \in DOMAIN messageQueue |->
            [messageQueue[i] EXCEPT
               !.age = IF @ > MessageTimeout THEN @ ELSE @ + 1,
               !.wait = IF @ = 0 THEN 0 ELSE @ - 1]]
    /\ UNCHANGED <<conn, tracking, nextId, stats, history, running>>

Stop ==
    /\ running
    /\ running' = FALSE
    /\ messageQueue' = [i \in {} |-> Message("AGENT_CONNECTED", ToDashboards, None)]
    /\ stats' = [stats EXCEPT !.cleared = @ + Cardinality(DOMAIN messageQueue)]
    /\ UNCHANGED <<conn, tracking, nextId, history>>

-----------------------------------------------------------------------------
(* The handlers that call the router.                                       *)

Known(a) == GetConnectionsByAgentId(a) # {}

(* routeToAgent: nothing is queued for an agent without a pool entry.       *)
RouteToAgent(a, m) ==
    IF Known(a) THEN QueueMessage(m) ELSE UNCHANGED queueVars

CommandRequest(d, a, c) ==
    /\ Receives(d) /\ conn[d].auth
    /\ requested' = IF Known(a) THEN [requested EXCEPT ![c] = @ \cup {d}]
                                ELSE requested
    /\ conn' = [conn EXCEPT ![d].subs = @ \cup ({c} \cap Topics)]
    /\ RouteToAgent(a, Message("COMMAND_REQUEST", ToAgent(a), c))
    /\ IF Known(a) THEN RegisterCommandForDashboard(c, d)
                   ELSE RegisterAndCleanup(c, d)
    /\ UNCHANGED <<sent, begun, running>>

CommandCancel(d, a, c) ==
    /\ Receives(d) /\ conn[d].auth /\ commandToDashboard[c] = d
    /\ RouteToAgent(a, Message("COMMAND_CANCEL", ToAgent(a), c))
    /\ UNCHANGED <<conn, tracking, history, running>>

AgentControl(d, a) ==
    /\ Receives(d) /\ conn[d].auth
    /\ RouteToAgent(a, Message("AGENT_CONTROL", ToAgent(a), None))
    /\ UNCHANGED <<conn, tracking, history, running>>

EmergencyStop(d) ==
    /\ Receives(d) /\ conn[d].auth
    /\ QueueTwo(Message("EMERGENCY_STOP", ToAllAgents, None),
                Message("EMERGENCY_STOP", ToDashboards, None))
    /\ UNCHANGED <<conn, tracking, history, running>>

(* streamTerminalOutput: to the initiator if the command is tracked, to     *)
(* every dashboard with a terminal subscription if it is not.  An agent has *)
(* output for the commands it was sent, and, None, of its own session.      *)
StreamTerminalOutput(c) ==
    /\ c \in begun \cup {None}
    /\ QueueMessage(Message("TERMINAL_STREAM",
           IF c # None /\ Tracked(c)
                         THEN ToDashboard(commandToDashboard[c])
                         ELSE ToTopic("terminals"), c))
    /\ UNCHANGED <<conn, tracking, history, running>>

(* The broadcasts about an agent (AGENT_STATUS, QUEUE_UPDATE), a command   *)
(* (COMMAND_STATUS), the traces (TRACE_STREAM) or to every dashboard.       *)
Broadcast ==
    /\ \E n \in Notices :
          QueueMessage(Message(n[1], IF n[2] = None THEN ToDashboards
                                                   ELSE ToTopic(n[2]), None))
    /\ UNCHANGED <<conn, tracking, history, running>>

(* A dashboard's close event takes its tracked commands with it.            *)
DashboardClosed(d) ==
    /\ Closed(d)
    /\ CleanupDashboardCommands(d)
    /\ UNCHANGED <<queueVars, history, running>>

ConnectionChange ==
    /\ \E c \in Conns :
          \/ AddConnection(c) \/ RemoveConnection(c)
          \/ \E a \in AgentIds : AuthenticateAgent(c, a)
          \/ \E T \in SUBSET Topics : AuthenticateDashboard(c, T)
          \/ \E t \in Topics : Subscribe(c, t) \/ Unsubscribe(c, t)
          \/ \E b \in BOOLEAN : SetHealth(c, b) \/ BeginClose(c, b)
          \/ c \in AgentConns /\ Closed(c)
    /\ UNCHANGED <<tracking, queueVars, history, running>>

TimePasses(c) ==
    TimeToLivePasses(c) /\ UNCHANGED <<conn, queueVars, history, running>>

Sweep ==
    /\ running /\ CleanupExpiredCommands
    /\ UNCHANGED <<conn, queueVars, history, running>>

Init ==
    /\ ConnInit /\ TrackInit
    /\ messageQueue = [i \in {} |-> Message("AGENT_CONNECTED", ToDashboards, None)]
    /\ nextId = 0
    /\ stats = [queued |-> 0, sent |-> 0, failed |-> 0, dropped |-> 0, cleared |-> 0]
    /\ sent = {}
    /\ requested = [c \in Commands |-> {}]
    /\ begun = {}
    /\ running = TRUE

Next ==
    \/ ProcessMessageQueue \/ Tick \/ Stop \/ Broadcast
    \/ \E d \in DashConns :
          \/ EmergencyStop(d) \/ DashboardClosed(d)
          \/ \E a \in AgentIds : AgentControl(d, a)
          \/ \E a \in AgentIds, c \in Commands :
                CommandRequest(d, a, c) \/ CommandCancel(d, a, c)
    \/ \E c \in Commands \cup {None} : StreamTerminalOutput(c)
    \/ \E c \in Commands : TimePasses(c)
    \/ ConnectionChange \/ Sweep

Spec == Init /\ [][Next]_vars

(* The timers keep firing while the process runs, and time passes.          *)
FairSpec ==
    /\ Spec /\ WF_vars(ProcessMessageQueue) /\ WF_vars(Tick)
    /\ WF_vars(Sweep) /\ \A c \in Commands : WF_vars(TimePasses(c))
-----------------------------------------------------------------------------
TypeOK ==
    /\ ConnTypeOK /\ TrackTypeOK
    /\ nextId \in 0..MaxMessages
    /\ DOMAIN messageQueue \subseteq 0..(nextId - 1)
    /\ messageQueue \in [DOMAIN messageQueue -> Messages]
    /\ stats \in [queued : Nat, sent : Nat, failed : Nat, dropped : Nat, cleared : Nat]
    /\ sent \subseteq (0..(nextId - 1)) \X Conns
    /\ requested \in [Commands -> SUBSET DashConns]
    /\ begun \subseteq Commands
    /\ running \in BOOLEAN

(* The queue never outgrows its limit, two-message broadcasts included.     *)
QueueBounded == Cardinality(DOMAIN messageQueue) <= MaxQueueSize

(* A message that reached anyone has left the queue: no retry, timeout or   *)
(* eviction hands it out twice.                                             *)
AtMostOnce == \A p \in sent : p[1] \notin DOMAIN messageQueue

(* The routing statistics account for every message ever queued.            *)
StatsAccountForEveryMessage ==
    stats.queued = stats.sent + stats.failed + stats.dropped + stats.cleared
                   + Cardinality(DOMAIN messageQueue)

(* An entry of the tracking maps names a dashboard whose handler still      *)
(* listens: the close event leaves none behind.                             *)
TrackedDashboardIsConnected ==
    /\ \A c \in Commands : Tracked(c) =>
          Receives(commandToDashboard[c]) /\ conn[commandToDashboard[c]].auth
    /\ \A d \in DashConns : dashboardCommands[d] # {} => Receives(d)

(* A tracking entry stands for a request that went to an agent, and names   *)
(* one who made it: no refused request leaves an entry behind.              *)
TrackedWasRouted ==
    \A c \in Commands : Tracked(c) => commandToDashboard[c] \in requested[c]

SentNow(i, c) == <<i, c>> \in sent' \ sent

(* Within and across cycles no message is delivered while a due one that    *)
(* goes before it, by priority or by age, is left untried.                  *)
NoOvertaking ==
    [][\A i, j \in DOMAIN messageQueue :
          /\ \/ Prio(messageQueue[i]) > Prio(messageQueue[j])
             \/ Prio(messageQueue[i]) = Prio(messageQueue[j]) /\ i < j
          /\ messageQueue[i].wait = 0
          /\ \E c \in Conns : SentNow(j, c)
          => \/ i \notin DOMAIN messageQueue'
             \/ messageQueue'[i].attempts > messageQueue[i].attempts]_vars

UsableAgent(a) ==
    \E c \in AgentConns :
        conn[c].agentId = a /\ conn[c].auth /\ IsConnectionHealthy(c)

GoneUnsent(i) ==
    /\ i \in DOMAIN messageQueue /\ i \notin DOMAIN messageQueue'
    /\ \A c \in Conns : ~SentNow(i, c)

(* A delivery cycle gives a message to an agent up, before its timeout,     *)
(* only while the agent has no usable connection.                           *)
AgentMessageNotGivenUp ==
    [][\A i \in DOMAIN messageQueue, a \in AgentIds :
          /\ messageQueue[i].route = ToAgent(a)
          /\ GoneUnsent(i) /\ stats'.failed + stats'.sent > stats.failed + stats.sent
          /\ ~TimedOut(i)
          => ~UsableAgent(a)]_vars

(* Every queued message leaves the queue: delivered, given up, timed out    *)
(* or evicted, as long as the router runs, also while more urgent ones are  *)
(* queued after it, fill a batch and are retried.  The traffic of an        *)
(* instance is finite; without an end of it nothing bounds a message's wait *)
(* for its turn, since a full batch does not even look at its time limit.   *)
QueueDrains ==
    \A i \in 0..(MaxMessages - 1) :
        (i \in DOMAIN messageQueue) ~> (i \notin DOMAIN messageQueue \/ ~running)

(* Every tracking entry goes away: by the dashboard's disconnect, a failed  *)
(* request or at the latest the TTL sweep.                                  *)
TrackingExpires ==
    \A c \in Commands : Tracked(c) ~> (~Tracked(c) \/ ~running)
=============================================================================
