--------------------------- MODULE AgentPresence ---------------------------
(***************************************************************************)
(* Who says whether an agent is online: the agent handler's connect and    *)
(* disconnect, AgentService's map of connections and its timer per agent,  *)
(* and AgentHeartbeatMonitor, all of which write the agent's row of the    *)
(* database between their awaits.  The process may crash; the rows stay.   *)
(*                                                                         *)
(* An awaited database call that matters is a step of its own, and what    *)
(* follows it up to the next await is another.  Time runs in ticks of 30 s.*)
(***************************************************************************)
EXTENDS Naturals, Sequences, SequencesExt, FiniteSets

CONSTANTS
    AgentConns, AgentIds, None,
    Monitor,       \* the monitor's check; a timer's task has its agent's name
    Limit,         \* both timeouts, in ticks: 3 (90 s)
    MaxFaults      \* bound of the model: failed database calls and crashes

ASSUME PresenceAssumption ==
    Monitor \notin AgentIds /\ Limit \in Nat \ {0} /\ MaxFaults \in Nat

VARIABLES
    db,        \* the agents' rows: status is "connected", and last_ping
    sock,      \* the WebSocket of each connection
    claim,     \* the agent AGENT_CONNECT names
    connect,   \* how far handleAgentConnect has come
    agentId,   \* connection.agentId, set when it has succeeded
    leave,     \* handleDisconnection waits for its update
    update,    \* what a message's update in flight will write
    active,    \* agentService.activeConnections, in the order of insertion
    timer,     \* agentService.heartbeatTimers
    job,       \* the timers' tasks and the monitor's: agent, connection, place
    stale,     \* agents the monitor's check has yet to mark
    checkDue,  \* the monitor's interval has fired
    up,        \* the process runs
    faults

memory == <<connect, agentId, leave, update, active, timer, job, stale, checkDue>>
world  == <<db, up, faults>>
presenceVars == <<sock, claim, memory, world>>

Tasks == AgentIds \cup {Monitor}

Idle == [at |-> "idle", agent |-> None, conn |-> None]
TimerOff == [set |-> FALSE, left |-> 0]

EmptyMemory ==
    [connect |-> [c \in AgentConns |-> "none"],
     agentId |-> [c \in AgentConns |-> None],
     leave   |-> [c \in AgentConns |-> FALSE],
     update  |-> [c \in AgentConns |-> "none"],
     timer   |-> [a \in AgentIds |-> TimerOff],
     job     |-> [t \in Tasks |-> Idle]]

PresenceInit ==
    /\ db = [a \in AgentIds |-> [status |-> "disconnected", pinged |-> FALSE, age |-> 0]]
    /\ sock = [c \in AgentConns |-> "new"]
    /\ claim = [c \in AgentConns |-> None]
    /\ connect = EmptyMemory.connect /\ agentId = EmptyMemory.agentId
    /\ leave = EmptyMemory.leave /\ update = EmptyMemory.update
    /\ timer = EmptyMemory.timer /\ job = EmptyMemory.job
    /\ active = <<>> /\ stale = {} /\ checkDue = TRUE
    /\ up = TRUE /\ faults = 0

-----------------------------------------------------------------------------
(* Rows.  Every write names its columns, and the last one wins.             *)

\* Slip: a status is written as the handlers name it.
AsGiven(status) == status

(* The column's values are other than the ones the handlers write.          *)
ToDbStatus(status) == IF status = "online" THEN "connected" ELSE "disconnected"

IsOnline(a) == db[a].status = "connected"

Online == [status |-> ToDbStatus("online"), pinged |-> TRUE, age |-> 0]

\* Slip: last_ping is cleared without the status.
ForgetPing(row) == [row EXCEPT !.pinged = FALSE, !.age = 0]

Disconnected(row) == [status |-> ToDbStatus("OFFLINE"), pinged |-> FALSE, age |-> 0]

Marked(row, status) == [row EXCEPT !.status = ToDbStatus(status), !.age = 0]

(* A PONG would put the status back, but compares it with 'offline', which  *)
(* the column never is.                                                     *)
Pinged(row) ==
    [row EXCEPT !.status = IF @ = "offline" THEN ToDbStatus("online") ELSE @,
                !.pinged = TRUE, !.age = 0]

Write(a, row) == db' = [db EXCEPT ![a] = row]

-----------------------------------------------------------------------------
(* handleAgentConnect: connectAgent writes the row, then enters the         *)
(* connection and starts the timer, then writes the audit log; only then    *)
(* has the handler's record an agent.  None of it looks at the socket.      *)

AgentConnects(c, a) ==
    /\ up /\ sock[c] = "new"
    /\ sock' = [sock EXCEPT ![c] = "open"]
    /\ claim' = [claim EXCEPT ![c] = a]
    /\ connect' = [connect EXCEPT ![c] = "resolving"]
    /\ UNCHANGED <<agentId, leave, update, active, timer, job, stale, checkDue, world>>

WriteOnline(c) ==
    /\ connect[c] = "resolving"
    /\ connect' = [connect EXCEPT ![c] = "written"]
    /\ Write(claim[c], Online)
    /\ UNCHANGED <<sock, claim, agentId, leave, update, active, timer, job, stale,
                   checkDue, up, faults>>

EnterConnection(c) ==
    /\ connect[c] = "written"
    /\ connect' = [connect EXCEPT ![c] = "entered"]
    /\ active' = Append(active, c)
    /\ timer' = [timer EXCEPT ![claim[c]] = [set |-> TRUE, left |-> Limit]]
    /\ UNCHANGED <<sock, claim, agentId, leave, update, job, stale, checkDue, world>>

CompleteConnect(c) ==
    /\ connect[c] = "entered"
    /\ connect' = [connect EXCEPT ![c] = "done"]
    /\ agentId' = [agentId EXCEPT ![c] = claim[c]]
    /\ UNCHANGED <<sock, claim, leave, update, active, timer, job, stale, checkDue, world>>

Fault == faults < MaxFaults /\ faults' = faults + 1

(* The handler's catch leaves the connection open and unauthenticated, as   *)
(* the stream it calls close on has no such method.                         *)
ConnectFails(c) ==
    /\ connect[c] \in {"resolving", "written", "entered"} /\ Fault
    /\ connect' = [connect EXCEPT ![c] = "failed"]
    /\ UNCHANGED <<sock, claim, agentId, leave, update, active, timer, job, stale,
                   checkDue, db, up>>

(* handleDisconnection: the row is written only if the record has an agent  *)
(* by now; AgentService's map and timer are left alone.                     *)
ConnectionCloses(c) ==
    /\ sock[c] = "open"
    /\ sock' = [sock EXCEPT ![c] = "closed"]
    /\ leave' = [leave EXCEPT ![c] = agentId[c] # None]
    /\ UNCHANGED <<claim, connect, agentId, update, active, timer, job, stale, checkDue, world>>

WriteOffline(c) ==
    /\ leave[c]
    /\ leave' = [leave EXCEPT ![c] = FALSE]
    /\ Write(agentId[c], Disconnected(db[agentId[c]]))
    /\ UNCHANGED <<sock, claim, connect, agentId, update, active, timer, job, stale,
                   checkDue, up, faults>>

DisconnectFails(c) ==
    /\ leave[c] /\ Fault
    /\ leave' = [leave EXCEPT ![c] = FALSE]
    /\ UNCHANGED <<sock, claim, connect, agentId, update, active, timer, job, stale,
                   checkDue, db, up>>

Live(c) == sock[c] = "open" /\ agentId[c] # None

(* PONG, or an AGENT_ERROR that is not recoverable.                         *)
MessageArrives(c) ==
    /\ Live(c) /\ update[c] = "none"
    /\ \E u \in {"pong", "error"} : update' = [update EXCEPT ![c] = u]
    /\ UNCHANGED <<sock, claim, connect, agentId, leave, active, timer, job, stale,
                   checkDue, world>>

WriteUpdate(c) ==
    /\ update[c] # "none"
    /\ update' = [update EXCEPT ![c] = "none"]
    /\ Write(agentId[c], IF update[c] = "pong" THEN Pinged(db[agentId[c]])
                         ELSE Marked(db[agentId[c]], "ERROR"))
    /\ UNCHANGED <<sock, claim, connect, agentId, leave, active, timer, job, stale,
                   checkDue, up, faults>>

UpdateFails(c) ==
    /\ update[c] # "none" /\ Fault
    /\ update' = [update EXCEPT ![c] = "none"]
    /\ UNCHANGED <<sock, claim, connect, agentId, leave, active, timer, job, stale,
                   checkDue, db, up>>

-----------------------------------------------------------------------------
(* The two judges.  Both mark the row and then disconnect the first entry   *)
(* of the agent, which marks it again, stops the agent's timer and removes  *)
(* the entry; then it cancels the agent's commands.                         *)

TimerFires(a) ==
    /\ timer[a].set /\ timer[a].left = 0 /\ job[a] = Idle
    /\ timer' = [timer EXCEPT ![a] = TimerOff]
    /\ job' = [job EXCEPT ![a] = [Idle EXCEPT !.at = "mark", !.agent = a]]
    /\ UNCHANGED <<sock, claim, connect, agentId, leave, update, active, stale, checkDue, world>>

\* Slip: only the agents this process knows a connection of are checked.
StaleIfKnown(a) ==
    /\ IsOnline(a) /\ db[a].pinged /\ db[a].age > Limit
    /\ \E i \in DOMAIN active : claim[active[i]] = a

Stale(a) == IsOnline(a) /\ db[a].pinged /\ db[a].age > Limit

CheckForStaleAgents ==
    /\ checkDue /\ stale = {} /\ job[Monitor] = Idle
    /\ checkDue' = FALSE
    /\ stale' = {a \in AgentIds : Stale(a)}
    /\ UNCHANGED <<sock, claim, connect, agentId, leave, update, active, timer, job, world>>

MarkNext(a) ==
    /\ job[Monitor] = Idle /\ a \in stale
    /\ stale' = stale \ {a}
    /\ job' = [job EXCEPT ![Monitor] = [Idle EXCEPT !.at = "mark", !.agent = a]]
    /\ UNCHANGED <<sock, claim, connect, agentId, leave, update, active, timer, checkDue, world>>

MarkOffline(t) ==
    /\ job[t].at \in {"mark", "disconnect"}
    /\ job' = [job EXCEPT ![t].at = IF @ = "mark" THEN "find" ELSE "clear"]
    /\ Write(job[t].agent, Marked(db[job[t].agent], "offline"))
    /\ UNCHANGED <<sock, claim, connect, agentId, leave, update, active, timer, stale,
                   checkDue, up, faults>>

FindConnection(t) ==
    LET its == {i \in DOMAIN active : claim[active[i]] = job[t].agent} IN
    /\ job[t].at = "find"
    /\ \/ its = {} /\ job' = [job EXCEPT ![t] = Idle]
       \/ \E i \in its :
             /\ \A k \in its : i <= k
             /\ job' = [job EXCEPT ![t].at = "disconnect", ![t].conn = active[i]]
    /\ UNCHANGED <<sock, claim, connect, agentId, leave, update, active, timer, stale,
                   checkDue, world>>

\* Slip: the timer is left running.
KeepTimer(a) == timer

StopTimer(a) == [timer EXCEPT ![a] = TimerOff]

(* delete of the Map, which a connection enters only once.                  *)
Deleted(s, c) ==
    IF \E i \in DOMAIN s : s[i] = c
    THEN RemoveAt(s, CHOOSE i \in DOMAIN s : s[i] = c) ELSE s

ClearConnection(t) ==
    /\ job[t].at = "clear"
    /\ job' = [job EXCEPT ![t] = Idle]
    /\ timer' = StopTimer(job[t].agent)
    /\ active' = Deleted(active, job[t].conn)
    /\ UNCHANGED <<sock, claim, connect, agentId, leave, update, stale, checkDue, world>>

-----------------------------------------------------------------------------
ProcessEnds ==
    /\ up' = FALSE
    /\ sock' = [c \in AgentConns |-> IF sock[c] = "open" THEN "closed" ELSE sock[c]]
    /\ connect' = EmptyMemory.connect /\ agentId' = EmptyMemory.agentId
    /\ leave' = EmptyMemory.leave /\ update' = EmptyMemory.update
    /\ timer' = EmptyMemory.timer /\ job' = EmptyMemory.job
    /\ active' = <<>> /\ stale' = {} /\ checkDue' = FALSE
    /\ UNCHANGED <<claim, db>>

Crash ==
    /\ up /\ Fault
    /\ ProcessEnds

(* A database error ends the monitor's check; in a timer's task nothing     *)
(* catches it, and an unhandled rejection ends the process.                 *)
CheckFails ==
    /\ job[Monitor].at \in {"mark", "disconnect"} /\ Fault
    /\ job' = [job EXCEPT ![Monitor] = Idle]
    /\ stale' = {}
    /\ UNCHANGED <<sock, claim, connect, agentId, leave, update, active, timer,
                   checkDue, db, up>>

TimerTaskFails(a) ==
    /\ job[a].at \in {"mark", "disconnect"} /\ Fault
    /\ ProcessEnds

Restart ==
    /\ ~up /\ up' = TRUE /\ checkDue' = TRUE
    /\ UNCHANGED <<sock, claim, connect, agentId, leave, update, active, timer, job,
                   stale, db, faults>>

(* Timers fire in time; what they start may take any number of ticks.  The  *)
(* last_ping of a row that is not online is never read.                     *)
Tick ==
    /\ up
    /\ ~checkDue \/ job[Monitor] # Idle \/ stale # {}
    /\ \A a \in AgentIds : timer[a].set /\ timer[a].left = 0 => job[a] # Idle
    /\ checkDue' = TRUE
    /\ db' = [a \in AgentIds |->
                [db[a] EXCEPT !.age = IF IsOnline(a) /\ @ <= Limit THEN @ + 1 ELSE @]]
    /\ timer' = [a \in AgentIds |->
                [timer[a] EXCEPT !.left = IF @ > 0 THEN @ - 1 ELSE @]]
    /\ UNCHANGED <<sock, claim, connect, agentId, leave, update, active, job, stale,
                   up, faults>>

HandlerStep(c) ==
    WriteOnline(c) \/ EnterConnection(c) \/ CompleteConnect(c) \/ WriteOffline(c)
        \/ WriteUpdate(c)

TaskStep(t) ==
    MarkOffline(t) \/ FindConnection(t) \/ ClearConnection(t)

AgentStep(c) ==
    \/ \E a \in AgentIds : AgentConnects(c, a)
    \/ ConnectionCloses(c) \/ MessageArrives(c)

Failure ==
    \/ \E c \in AgentConns : ConnectFails(c) \/ DisconnectFails(c) \/ UpdateFails(c)
    \/ \E a \in AgentIds : TimerTaskFails(a)
    \/ CheckFails \/ Crash

TimerStep ==
    \/ \E a \in AgentIds : TimerFires(a) \/ MarkNext(a)
    \/ \E t \in Tasks : TaskStep(t)
    \/ CheckForStaleAgents

TimePasses == Restart \/ Tick

PresenceNext ==
    \/ \E c \in AgentConns : AgentStep(c) \/ HandlerStep(c)
    \/ TimerStep \/ TimePasses \/ Failure

PresenceSpec == PresenceInit /\ [][PresenceNext]_presenceVars

(* The event loop comes to the continuations and to the timers that are     *)
(* ready, time goes on, and a process that has ended is started again.      *)
PresenceFairness ==
    /\ WF_presenceVars(\E c \in AgentConns : HandlerStep(c))
    /\ WF_presenceVars(TimerStep)
    /\ WF_presenceVars(TimePasses)

FairPresenceSpec == PresenceSpec /\ PresenceFairness

-----------------------------------------------------------------------------
PresenceTypeOK ==
    /\ db \in [AgentIds -> [status : {"connected", "disconnected"}, pinged : BOOLEAN,
                          age : 0..(Limit + 1)]]
    /\ sock \in [AgentConns -> {"new", "open", "closed"}]
    /\ claim \in [AgentConns -> AgentIds \cup {None}]
    /\ connect \in [AgentConns ->
                      {"none", "resolving", "written", "entered", "done", "failed"}]
    /\ agentId \in [AgentConns -> AgentIds \cup {None}]
    /\ leave \in [AgentConns -> BOOLEAN]
    /\ update \in [AgentConns -> {"none", "pong", "error"}]
    /\ active \in Seq(AgentConns)
    /\ timer \in [AgentIds -> [set : BOOLEAN, left : 0..Limit]]
    /\ job \in [Tasks -> [at : {"idle", "mark", "find", "disconnect", "clear"},
                          agent : AgentIds \cup {None}, conn : AgentConns \cup {None}]]
    /\ stale \subseteq AgentIds
    /\ checkDue \in BOOLEAN /\ up \in BOOLEAN
    /\ faults \in 0..MaxFaults

(* The monitor skips a row without last_ping, taking the agent for cleanly  *)
(* disconnected: no row that says online is ever without it, whichever of   *)
(* the connect, disconnect, PONG and time-out writes come last.             *)
OnlineHasHeartbeat ==
    \A a \in AgentIds : IsOnline(a) => db[a].pinged

(* A timer that is running will find an entry to disconnect, whose         *)
(* agent's commands are then cancelled, also over reconnects that race with *)
(* the tasks of an earlier timer.                                           *)
TimerHasConnection ==
    \A a \in AgentIds : timer[a].set => \E i \in DOMAIN active : claim[active[i]] = a

(* An agent that never comes back ends up offline for good, although any    *)
(* one of the writes that should say so may fail, be overtaken by a connect *)
(* that was still under way, or be lost with the process.                   *)
Gone(a) == \A c \in AgentConns : claim[c] = a => sock[c] = "closed"

GhostGoesOffline ==
    \A a \in AgentIds : <>[]Gone(a) => <>[]~IsOnline(a)

-----------------------------------------------------------------------------
(* What comments in the code say, and the code does not do.                 *)

(* "Agent is responding to our PING - update database to keep agent alive": *)
(* the service's timer does not mark an agent offline that is connected and *)
(* whose PONG was recorded within the last 30 s.                            *)
AnsweringAgentKeptAlive ==
    [][\A a \in AgentIds :
          MarkOffline(a) /\ job[a].at = "mark" /\ IsOnline(a) /\ db[a].age = 0
          => ~\E c \in AgentConns : Live(c) /\ agentId[c] = a]_presenceVars
=============================================================================
