----------------------------- MODULE AgentClient -----------------------------
(***************************************************************************)
(* The agent wrapper's connection to the server: WebSocketClient           *)
(* (websocket-client.ts) and the reconnection managers (reconnection.ts)   *)
(* that call its connect().  The client creates a manager of its own; the  *)
(* headless wrapper (cli.ts) has a second one, the interactive one has     *)
(* not.  A connect() is in flight over two awaits, and several may be: a   *)
(* slot is a connect() and the socket it creates.                          *)
(*                                                                         *)
(* Times are not modelled: a timer that is set may fire.  The behaviours   *)
(* start with the connection the wrapper was started with; a start that    *)
(* fails ends the process.                                                 *)
(***************************************************************************)
EXTENDS Naturals, FiniteSets, FiniteSetsExt

CONSTANTS
    Attempts,         \* reconnectAttempts: 10
    FailureThreshold, \* of the circuit breaker: 5
    MaxSlots,         \* bound of the model: connects and sockets at a time
    MaxQueued,        \* bound of the model: AGENT_CONNECTs in the queue
    MaxStray          \* bound of the model: overwritten timers of a manager

ASSUME AgentClientAssumption ==
    /\ Attempts \in Nat \ {0} /\ FailureThreshold \in Nat \ {0}
    /\ MaxSlots \in Nat \ {0} /\ MaxQueued \in Nat /\ MaxStray \in Nat

VARIABLES
    headless,    \* the wrapper of cli.ts, or the interactive one
    ws,          \* this.ws: the slot of the newest socket, or NoSocket
    agentSock,   \* the sockets
    call,        \* the connect() calls in flight
    isConnected,
    pongDue,     \* a pong is waited for
    breaker,
    manager,     \* the reconnection managers
    queued,      \* messageQueue: AGENT_CONNECTs that were not sent
    announced,   \* sockets over which AGENT_CONNECT went
    timedOut,    \* history: a connect() gave its socket up after 10 s
    wrapper      \* "up", "stopping", "stopped" or "hung"

agentVars == <<headless, ws, agentSock, call, isConnected, pongDue, breaker, manager, queued,
               announced, timedOut, wrapper>>

Slots == 1..MaxSlots
Managers == {"client", "cli"}
NoSocket == 0
NoCall == [stage |-> "none", owner |-> "none"]

\* stray: timers that were set and then overwritten, so that none clears them.
Idle == [on |-> FALSE, attempts |-> 0, timer |-> FALSE, stray |-> 0]

AgentInit ==
    /\ headless \in BOOLEAN
    /\ ws = 1
    /\ agentSock = [s \in Slots |-> IF s = 1 THEN "open" ELSE "closed"]
    /\ call = [s \in Slots |-> NoCall]
    /\ isConnected = TRUE /\ pongDue = FALSE
    /\ breaker = [state |-> "closed", failures |-> 0]
    /\ manager = [o \in Managers |-> Idle]
    /\ queued = 0 /\ announced = {1} /\ timedOut = FALSE
    /\ wrapper = "up"

-----------------------------------------------------------------------------
(* ConnectionCircuitBreaker.                                                *)

Failure(b) ==
    [failures |-> IF b.failures < FailureThreshold THEN b.failures + 1 ELSE b.failures,
     state |-> IF b.state = "half-open" \/ b.failures + 1 >= FailureThreshold
               THEN "open" ELSE b.state]

Success == [state |-> "closed", failures |-> 0]

-----------------------------------------------------------------------------
(* ReconnectionManager, on the record of one manager.                       *)

ScheduleNextAttempt(m) ==
    IF ~m.on THEN m
    ELSE [m EXCEPT !.timer = TRUE, !.stray = IF m.timer THEN @ + 1 ELSE @]

StartReconnection(m) ==
    IF m.on THEN m ELSE ScheduleNextAttempt([m EXCEPT !.on = TRUE, !.attempts = 0])

StopReconnection(m) ==
    IF m.on THEN [m EXCEPT !.on = FALSE, !.attempts = 0, !.timer = FALSE] ELSE m

GivesUp(m) == m.attempts >= Attempts

\* Slip: a refused attempt is not followed by another.
AttemptFailedForGood(m) == [m EXCEPT !.on = FALSE]

AttemptFailed(m) ==
    IF GivesUp(m) THEN [m EXCEPT !.on = FALSE] ELSE ScheduleNextAttempt(m)

AttemptSucceeded(m) == [m EXCEPT !.on = FALSE, !.attempts = 0]

(* What the failure of an attempt of owner o leaves of the managers ms, of  *)
(* the calls cs and of the wrapper: the client's own manager is thrown away *)
(* at the last attempt (calls it still has report to nobody), cli's stops   *)
(* the wrapper.                                                             *)
Orphaned(cs) ==
    [s \in Slots |-> IF cs[s].owner = "client" THEN [cs[s] EXCEPT !.owner = "none"] ELSE cs[s]]

OwnerFails(o, ms, cs) ==
    LET last == o # "none" /\ GivesUp(ms[o]) IN
    /\ manager' = IF o = "none" THEN ms
                  ELSE [ms EXCEPT ![o] = IF last /\ o = "client" THEN Idle
                                         ELSE AttemptFailed(@)]
    /\ call' = IF last /\ o = "client" THEN Orphaned(cs) ELSE cs
    /\ wrapper' = IF last /\ o = "cli" /\ wrapper = "up" THEN "stopping" ELSE wrapper

-----------------------------------------------------------------------------
(* connect().                                                               *)

(* The timer of a manager fires: the held one, or one that strayed.         *)
TimerGone(m) == {n \in {[m EXCEPT !.timer = FALSE],
                        [m EXCEPT !.stray = IF m.stray = 0 THEN 0 ELSE @ - 1]} : n # m}

TimerOfIdle(o) ==
    /\ ~manager[o].on
    /\ \E m \in TimerGone(manager[o]) : manager' = [manager EXCEPT ![o] = m]
    /\ UNCHANGED <<ws, agentSock, call, isConnected, pongDue, breaker, queued, announced,
                   timedOut, wrapper>>

\* attemptReconnection up to the first await of connect().
Attempt(o) ==
    /\ manager[o].on
    /\ \E m \in TimerGone(manager[o]) :
         LET tried == [manager EXCEPT ![o] = [m EXCEPT !.attempts = @ + 1]] IN
         \/ /\ ws # NoSocket /\ isConnected
            /\ manager' = [tried EXCEPT ![o] = AttemptSucceeded(@)]
            /\ UNCHANGED <<call, breaker, wrapper>>
         \/ /\ ~(ws # NoSocket /\ isConnected) /\ breaker.state = "open"
            /\ OwnerFails(o, tried, call)
            /\ UNCHANGED breaker
         \/ /\ ~(ws # NoSocket /\ isConnected)
            /\ breaker' = IF breaker.state = "open" THEN [breaker EXCEPT !.state = "half-open"]
                          ELSE breaker
            /\ \E s \in Slots :
                  /\ call[s] = NoCall /\ agentSock[s] = "closed"
                  /\ \A r \in 1..(s - 1) : call[r] # NoCall \/ agentSock[r] # "closed"
                  /\ call' = [call EXCEPT ![s] = [stage |-> "token", owner |-> o]]
            /\ manager' = tried
            /\ UNCHANGED wrapper
    /\ UNCHANGED <<ws, agentSock, isConnected, pongDue, queued, announced, timedOut>>

\* The stored tokens are asked for twice: a failure of the second is counted.
TokenFails(s) ==
    /\ call[s].stage = "token"
    /\ breaker' \in {breaker, Failure(breaker)}
    /\ OwnerFails(call[s].owner, manager, [call EXCEPT ![s] = NoCall])
    /\ UNCHANGED <<ws, agentSock, isConnected, pongDue, queued, announced, timedOut>>

CreateSocket(s) ==
    /\ call[s].stage = "token"
    /\ call' = [call EXCEPT ![s].stage = "opening"]
    /\ ws' = s
    /\ agentSock' = [agentSock EXCEPT ![s] = "connecting"]
    /\ announced' = announced \ {s}
    /\ UNCHANGED <<isConnected, pongDue, breaker, manager, queued, timedOut, wrapper>>

\* The socket is left alone.  Bound of the model: another slot is free.
CallTimesOut(s) ==
    /\ call[s].stage = "opening"
    /\ \E r \in Slots \ {s} : call[r] = NoCall /\ agentSock[r] = "closed"
    /\ timedOut' = TRUE
    /\ breaker' = Failure(breaker)
    /\ OwnerFails(call[s].owner, manager, [call EXCEPT ![s] = NoCall])
    /\ UNCHANGED <<ws, agentSock, isConnected, pongDue, queued, announced>>

(* send() goes to the newest socket, whichever it is: one that is still     *)
(* connecting throws (and the queue is tried again, one longer), one that   *)
(* closes loses the message, and without one the queue is emptied into      *)
(* itself for ever.                                                         *)
Enqueued(n) == IF n < MaxQueued THEN n + 1 ELSE n

Sent(socks) == IF socks[ws] = "open" THEN announced \cup {ws} ELSE announced

OpenedInTime(s) ==
    /\ agentSock[s] = "connecting" /\ call[s].stage = "opening"
    /\ agentSock' = [agentSock EXCEPT ![s] = "open"]
    /\ UNCHANGED <<ws, timedOut>>
    /\ \/ /\ ws # NoSocket /\ agentSock'[ws] = "connecting" /\ isConnected
          /\ queued' = Enqueued(queued)
          /\ breaker' = Failure(breaker)
          /\ OwnerFails(call[s].owner, manager, [call EXCEPT ![s] = NoCall])
          /\ UNCHANGED <<isConnected, pongDue, announced>>
       \/ /\ ws = NoSocket
          /\ wrapper' = "hung"
          /\ UNCHANGED <<call, isConnected, pongDue, breaker, manager, queued, announced>>
       \/ /\ ws # NoSocket /\ ~(agentSock'[ws] = "connecting" /\ isConnected)
          /\ IF agentSock'[ws] = "connecting"
             THEN queued' = Enqueued(Enqueued(queued)) /\ UNCHANGED announced
             ELSE queued' = 0 /\ announced' = Sent(agentSock')
          /\ isConnected' = TRUE /\ pongDue' = FALSE
          /\ breaker' = Success
          /\ manager' = [o \in Managers |->
                           IF o = call[s].owner
                           THEN AttemptSucceeded(StopReconnection(manager[o]))
                           ELSE StopReconnection(manager[o])]
          /\ call' = [call EXCEPT ![s] = NoCall]
          /\ UNCHANGED wrapper

\* Nobody waits for this socket any more, and nobody closes it.
OpenedLate(s) ==
    /\ agentSock[s] = "connecting" /\ call[s] = NoCall
    /\ agentSock' = [agentSock EXCEPT ![s] = "open"]
    /\ UNCHANGED <<ws, call, isConnected, pongDue, breaker, manager, queued, announced,
                   timedOut, wrapper>>

-----------------------------------------------------------------------------
(* The events of a socket.  The 'close' handler does not ask whether its    *)
(* socket is still the one in use.                                          *)

\* Slip: the interactive wrapper starts a manager of its own as well.
ReconnectingTwice(ms, unexpected) ==
    [o \in Managers |->
        IF (o = "cli" /\ wrapper = "up") \/ (o = "client" /\ unexpected)
        THEN StartReconnection(ms[o]) ELSE ms[o]]

Reconnecting(ms, unexpected) ==
    [o \in Managers |->
        IF (o = "cli" /\ headless /\ wrapper = "up") \/ (o = "client" /\ unexpected)
        THEN StartReconnection(ms[o]) ELSE ms[o]]

SocketCloses(s) ==
    \E unexpected \in BOOLEAN :
       /\ \/ agentSock[s] = "open"
          \/ agentSock[s] = "closing" /\ unexpected
          \/ agentSock[s] = "closingNormally" /\ ~unexpected
       /\ agentSock' = [agentSock EXCEPT ![s] = "closed"]
       /\ isConnected' = FALSE /\ pongDue' = FALSE
       /\ breaker' = IF unexpected THEN Failure(breaker) ELSE breaker
       /\ manager' = Reconnecting(manager, unexpected)
       /\ UNCHANGED <<ws, call, queued, announced, timedOut, wrapper>>

(* A socket that does not open: 'close' first, then the rejected connect(), *)
(* and each counts a failure.                                               *)
OpenFails(s) ==
    /\ agentSock[s] \in {"connecting", "aborting"}
    /\ agentSock' = [agentSock EXCEPT ![s] = "closed"]
    /\ isConnected' = FALSE /\ pongDue' = FALSE
    /\ IF call[s].stage = "opening"
       THEN /\ breaker' = Failure(Failure(breaker))
            /\ OwnerFails(call[s].owner, Reconnecting(manager, TRUE), [call EXCEPT ![s] = NoCall])
       ELSE /\ breaker' = Failure(breaker)
            /\ manager' = Reconnecting(manager, TRUE)
            /\ UNCHANGED <<call, wrapper>>
    /\ UNCHANGED <<ws, queued, announced, timedOut>>

-----------------------------------------------------------------------------
(* Heartbeat and stop.                                                      *)

CloseWs(how) ==
    IF ws = NoSocket THEN agentSock
    ELSE [agentSock EXCEPT ![ws] = CASE @ = "open" -> how
                                     [] @ = "connecting" -> "aborting"
                                     [] OTHER -> @]

HeartbeatFailure ==
    /\ breaker' = Failure(breaker)
    /\ agentSock' = CloseWs("closing")
    /\ UNCHANGED <<ws, call, isConnected, manager, queued, announced, timedOut, wrapper>>

\* ping() throws on a socket that is still connecting.
Heartbeat ==
    /\ isConnected /\ ws # NoSocket
    /\ IF agentSock[ws] = "connecting" THEN HeartbeatFailure /\ UNCHANGED pongDue
       ELSE /\ pongDue' = TRUE
            /\ UNCHANGED <<ws, agentSock, call, isConnected, breaker, manager, queued,
                           announced, timedOut, wrapper>>

Pong(s) ==
    /\ agentSock[s] = "open" /\ pongDue
    /\ pongDue' = FALSE
    /\ UNCHANGED <<ws, agentSock, call, isConnected, breaker, manager, queued, announced,
                   timedOut, wrapper>>

PongTimeout ==
    /\ pongDue /\ pongDue' = FALSE
    /\ HeartbeatFailure

Stop ==
    /\ wrapper = "up" /\ wrapper' = "stopping"
    /\ UNCHANGED <<ws, agentSock, call, isConnected, pongDue, breaker, manager, queued,
                   announced, timedOut>>

\* disconnect() and cleanup(), once the commands and the agent are stopped.
Disconnect ==
    /\ wrapper = "stopping" /\ wrapper' = "stopped"
    /\ isConnected' = FALSE /\ pongDue' = FALSE
    /\ agentSock' = CloseWs("closingNormally")
    /\ ws' = NoSocket
    /\ manager' = [o \in Managers |-> IF o = "client" THEN Idle ELSE StopReconnection(manager[o])]
    /\ call' = Orphaned(call)
    /\ UNCHANGED <<breaker, queued, announced, timedOut>>

ConnectStep(s) ==
    TokenFails(s) \/ CreateSocket(s) \/ CallTimesOut(s) \/ OpenedInTime(s)
    \/ OpenedLate(s) \/ OpenFails(s)

ManagerStep(o) == Attempt(o) \/ TimerOfIdle(o)

AgentNext ==
    /\ wrapper # "hung"
    /\ \/ \E o \in Managers : ManagerStep(o)
       \/ \E s \in Slots : ConnectStep(s) \/ SocketCloses(s) \/ Pong(s)
       \/ Heartbeat \/ PongTimeout \/ Stop \/ Disconnect
    /\ \A o \in Managers : manager'[o].stray <= MaxStray
    /\ UNCHANGED headless

AgentSpec == AgentInit /\ [][AgentNext]_agentVars

FairAgentSpec ==
    /\ AgentSpec
    /\ \A o \in Managers : SF_agentVars(ManagerStep(o) /\ AgentNext)
    /\ \A s \in Slots : WF_agentVars(ConnectStep(s) /\ AgentNext)

-----------------------------------------------------------------------------
AgentTypeOK ==
    /\ headless \in BOOLEAN /\ ws \in Slots \cup {NoSocket}
    /\ agentSock \in [Slots -> {"connecting", "aborting", "open", "closing",
                                "closingNormally", "closed"}]
    /\ call \in [Slots -> [stage : {"none", "token", "opening"}, owner : Managers \cup {"none"}]]
    /\ \A s \in Slots :
          /\ call[s].stage = "token" => agentSock[s] = "closed"
          /\ call[s].stage = "opening" /\ wrapper # "hung" =>
                agentSock[s] \in {"connecting", "aborting"}
    /\ isConnected \in BOOLEAN /\ pongDue \in BOOLEAN /\ timedOut \in BOOLEAN
    /\ breaker \in [state : {"closed", "open", "half-open"}, failures : 0..FailureThreshold]
    /\ \A o \in Managers :
          /\ manager[o].on \in BOOLEAN /\ manager[o].timer \in BOOLEAN
          /\ manager[o].attempts \in Nat /\ manager[o].stray \in 0..MaxStray
    /\ queued \in 0..MaxQueued /\ announced \subseteq Slots
    /\ wrapper \in {"up", "stopping", "stopped", "hung"}

(* The server gets to know the agent over the socket the wrapper believes   *)
(* in: AGENT_CONNECT, which is queued and then sent to the newest socket    *)
(* rather than to the one that opened, went over it (unless a connect()     *)
(* left a socket to open by itself).  And one manager alone keeps one       *)
(* socket: the interactive wrapper has no second one the server would count *)
(* as its agent, and no stop that hangs.                                    *)
OneAnnouncedSocket ==
    ~timedOut =>
        /\ isConnected /\ ws # NoSocket /\ agentSock[ws] = "open" => ws \in announced
        /\ ~headless => /\ Cardinality({s \in Slots : agentSock[s] # "closed"}) <= 1
                        /\ wrapper # "hung"

(* A lost connection comes back or the attempts end: with the wrapper's     *)
(* stop, or, in the interactive wrapper, in nothing (its client throws the  *)
(* manager away, and no one is told).                                       *)
Reconnects ==
    ~isConnected ~> \/ isConnected
                    \/ wrapper # "up"
                    \/ ~headless /\ manager["client"] = Idle
=============================================================================
