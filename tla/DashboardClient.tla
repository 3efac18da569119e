-------------------------- MODULE DashboardClient --------------------------
(***************************************************************************)
(* The browser's connection (websocket.service.ts): its sockets, their     *)
(* events, the reconnection manager and circuit breaker                    *)
(* (reconnection.service.ts), and the provider that connects with a        *)
(* session (websocket-provider.tsx).  JavaScript runs one task at a time:  *)
(* an action is a task.  A replaced socket still has its events to come,   *)
(* and every handler knows the endpoint only, not the socket.              *)
(***************************************************************************)
EXTENDS Naturals, Sequences, SequencesExt

CONSTANTS
    DashSockets,     \* the WebSocket objects alive at a time; at least two
    MaxReconnects,   \* reconnect.maxAttempts: 5
    BreakerLimit,    \* failureThreshold: 5
    MaxRetries,      \* the provider's retries: 3
    OutboxLimit,     \* 100
    MaxSessions,     \* bound: sign-ins and changes of the token
    MaxLosses        \* bound: sockets that fail, die, or are lost

NoDashSock == "none"

ASSUME DashboardAssumption ==
    /\ {MaxReconnects, BreakerLimit, MaxRetries, OutboxLimit} \subseteq Nat \ {0}
    /\ {MaxSessions, MaxLosses} \subseteq Nat
    /\ NoDashSock \notin DashSockets

VARIABLES
    dashSock,        \* the state of each socket
    first,           \* the first message sent on each
    caller,          \* whose connect() awaits each
    current,         \* connections.get('dashboard')
    initialized,     \* dashboardInitialized
    outbox,          \* how many messages messageQueue holds
    circuit,         \* the circuit breaker
    reconnector,     \* the reconnection manager; a destroyed one is as new
    watched,         \* heartbeat timers and health monitor are running
    provider,        \* session, retryCountRef, whether previousToken is set
    retryTimers,     \* its pending retries, with the count each captured
    givenUp,         \* nobody tries any more, and the user was told
    sessions, losses

dashVars == <<dashSock, first, caller, current, initialized, outbox, circuit, reconnector,
              watched, provider, retryTimers, givenUp, sessions, losses>>

NoManager == [on |-> FALSE, attempts |-> 0, timer |-> FALSE]

DashInit ==
    /\ dashSock = [s \in DashSockets |-> "gone"]
    /\ first = [s \in DashSockets |-> "nothing"]
    /\ caller = [s \in DashSockets |-> "nobody"]
    /\ current = NoDashSock /\ initialized = FALSE /\ outbox = 0
    /\ circuit = [state |-> "closed", failures |-> 0]
    /\ reconnector = NoManager /\ watched = FALSE
    /\ provider = [in |-> FALSE, retries |-> 0, known |-> FALSE]
    /\ retryTimers = <<>> /\ givenUp = FALSE
    /\ sessions = 0 /\ losses = 0

Loses(s) == losses < MaxLosses /\ losses' = losses + 1

-----------------------------------------------------------------------------
(* ConnectionCircuitBreaker and ReconnectionManager.                        *)

BreakerFailure(c) ==
    LET n == IF c.failures < BreakerLimit THEN c.failures + 1 ELSE BreakerLimit
    IN  [state |-> IF c.state = "half-open" \/ n >= BreakerLimit THEN "open" ELSE c.state,
         failures |-> n]

BreakerSuccess == [state |-> "closed", failures |-> 0]

\* The reset timer, thirty seconds after the breaker opened.
BreakerRecovers ==
    /\ circuit.state = "open"
    /\ circuit' = [circuit EXCEPT !.state = "half-open"]
    /\ UNCHANGED <<dashSock, first, caller, current, initialized, outbox, reconnector, watched,
                   provider, retryTimers, givenUp, sessions, losses>>

\* Slip: a reconnection starts only if none was ever under way.
ReconnectorDropped == reconnector

ReconnectorStarted ==
    IF reconnector.on THEN reconnector ELSE [on |-> TRUE, attempts |-> 0, timer |-> TRUE]

(* A failed attempt, the n-th: the next is scheduled, or the manager tells  *)
(* that it gave up.                                                         *)
AttemptRejected(n) ==
    IF n < MaxReconnects
    THEN reconnector' = [on |-> TRUE, attempts |-> n, timer |-> TRUE] /\ UNCHANGED givenUp
    ELSE reconnector' = NoManager /\ givenUp' = TRUE

-----------------------------------------------------------------------------
(* disconnect() and connect().  disconnect() without an entry for the       *)
(* endpoint does nothing; with one, it destroys the reconnection manager,   *)
(* also the one whose attempt is calling.                                   *)

HasEntry == current # NoDashSock

SocketClosed ==
    IF ~HasEntry THEN dashSock
    ELSE [dashSock EXCEPT ![current] =
            CASE @ = "connecting" -> "aborting"
              [] @ = "open" -> "left"
              [] @ = "dead" -> "failing"
              [] OTHER -> @]

ManagerDestroyed == IF HasEntry THEN NoManager ELSE reconnector

CallersLeft ==
    [s \in DashSockets |-> IF HasEntry /\ caller[s] = "manager" THEN "former" ELSE caller[s]]

InitializedAfter == initialized /\ ~HasEntry

DisconnectDashboard ==
    /\ dashSock' = SocketClosed
    /\ reconnector' = ManagerDestroyed
    /\ caller' = CallersLeft
    /\ current' = NoDashSock
    /\ initialized' = InitializedAfter
    /\ watched' = (watched /\ ~HasEntry)

NewDashSock(who) ==
    \E s \in DashSockets :
        /\ dashSock[s] = "gone"
        /\ dashSock' = [SocketClosed EXCEPT ![s] = "connecting"]
        /\ first' = [first EXCEPT ![s] = "nothing"]
        /\ caller' = [CallersLeft EXCEPT ![s] = who]
        /\ current' = s
        /\ initialized' = InitializedAfter
        /\ watched' = (watched /\ ~HasEntry)

(* The timer of the manager: a refusal by the breaker is a failed attempt,  *)
(* before disconnect().                                                     *)
ReconnectNow ==
    /\ reconnector.on /\ reconnector.timer
    /\ \/ /\ circuit.state = "open"
          /\ AttemptRejected(reconnector.attempts + 1)
          /\ UNCHANGED <<dashSock, first, caller, current, initialized, watched>>
       \/ /\ circuit.state # "open"
          /\ NewDashSock(IF HasEntry THEN "former" ELSE "manager")
          /\ reconnector' = IF HasEntry THEN NoManager
                            ELSE [reconnector EXCEPT !.attempts = @ + 1, !.timer = FALSE]
          /\ UNCHANGED givenUp
    /\ UNCHANGED <<outbox, circuit, provider, retryTimers, sessions, losses>>

-----------------------------------------------------------------------------
(* The provider.                                                            *)

\* Its connect() threw: retry, if the count allows one.
RetryLater(queue) ==
    IF provider.retries < MaxRetries
    THEN retryTimers' = Append(queue, provider.retries) /\ UNCHANGED givenUp
    ELSE retryTimers' = queue /\ givenUp' = TRUE

(* A sign-in or another token.  The effect's clean-up has disconnected the  *)
(* session before; a token that is not previousToken does so again.         *)
SessionStarts ==
    /\ sessions < MaxSessions /\ sessions' = sessions + 1
    /\ \/ /\ circuit.state # "open"
          /\ NewDashSock("provider")
          /\ reconnector' = ManagerDestroyed
          /\ givenUp' = FALSE
          /\ UNCHANGED retryTimers
       \/ /\ circuit.state = "open"
          /\ IF provider.in \/ provider.known
             THEN DisconnectDashboard
             ELSE UNCHANGED <<dashSock, reconnector, caller, current, initialized, watched>>
          /\ RetryLater(retryTimers)
          /\ UNCHANGED first
    /\ provider' = [provider EXCEPT !.in = TRUE]
    /\ UNCHANGED <<outbox, circuit, losses>>

\* The pending retries go on: nobody clears their timers.
SignOut ==
    /\ provider.in
    /\ DisconnectDashboard
    /\ provider' = [provider EXCEPT !.in = FALSE]
    /\ UNCHANGED <<first, outbox, circuit, retryTimers, givenUp, sessions, losses>>

Retry(i) ==
    LET rest == RemoveAt(retryTimers, i)
        count == retryTimers[i] + 1
    IN  /\ provider' = [provider EXCEPT !.retries = count]
        /\ \/ /\ circuit.state # "open"
              /\ NewDashSock("provider")
              /\ reconnector' = ManagerDestroyed
              /\ retryTimers' = rest
              /\ UNCHANGED givenUp
           \/ /\ circuit.state = "open"
              /\ IF count < MaxRetries
                 THEN retryTimers' = Append(rest, count) /\ UNCHANGED givenUp
                 ELSE retryTimers' = rest /\ givenUp' = TRUE
              /\ UNCHANGED <<dashSock, first, caller, current, initialized, watched, reconnector>>
        /\ UNCHANGED <<outbox, circuit, sessions, losses>>

RetryFires == \E i \in DOMAIN retryTimers : Retry(i)

-----------------------------------------------------------------------------
(* The events of a socket.                                                  *)

\* Slip: the queue is sent before the state listeners hear of the connection.
QueueFirst == IF outbox > 0 THEN "command" ELSE "init"

(* The listeners of the state 'connected' send DASHBOARD_INIT, unless this  *)
(* was done; the queue follows.                                             *)
FirstSent ==
    IF ~initialized THEN "init" ELSE IF outbox > 0 THEN "command" ELSE "nothing"

DashOpens(s) ==
    /\ dashSock[s] = "connecting"
    /\ dashSock' = [dashSock EXCEPT ![s] = "open"]
    /\ first' = [first EXCEPT ![s] = FirstSent]
    /\ initialized' = TRUE
    /\ outbox' = 0
    /\ circuit' = BreakerSuccess
    /\ reconnector' = NoManager
    /\ watched' = TRUE
    /\ caller' = [caller EXCEPT ![s] = "nobody"]
    /\ provider' = IF caller[s] = "provider"
                   THEN [provider EXCEPT !.retries = 0, !.known = TRUE] ELSE provider
    /\ givenUp' = FALSE
    /\ UNCHANGED <<current, retryTimers, sessions, losses>>

(* 'error', then 'close' with 1006.  handleConnectionError has changed the  *)
(* state when it is compared with 'connecting': the promise never settles.  *)
DashFails(s) ==
    /\ \/ dashSock[s] = "aborting" /\ UNCHANGED losses
       \/ dashSock[s] = "connecting" /\ Loses(s)
    /\ dashSock' = [dashSock EXCEPT ![s] = "gone"]
    /\ caller' = [caller EXCEPT ![s] = "nobody"]
    /\ circuit' = BreakerFailure(BreakerFailure(circuit))
    /\ reconnector' = ReconnectorStarted
    /\ watched' = FALSE
    /\ UNCHANGED <<first, current, initialized, outbox, provider, retryTimers, givenUp, sessions>>

\* Ten seconds without 'open': the one way a socket makes connect() fail.
DashTimesOut(s) ==
    /\ dashSock[s] = "connecting" /\ Loses(s)
    /\ dashSock' = [dashSock EXCEPT ![s] = "aborting"]
    /\ circuit' = BreakerFailure(circuit)
    /\ watched' = FALSE
    /\ caller' = [caller EXCEPT ![s] = "nobody"]
    /\ \/ caller[s] = "provider" /\ RetryLater(retryTimers) /\ UNCHANGED reconnector
       \/ caller[s] = "manager" /\ AttemptRejected(reconnector.attempts) /\ UNCHANGED retryTimers
       \/ caller[s] \in {"former", "nobody"} /\ UNCHANGED <<reconnector, retryTimers, givenUp>>
    /\ UNCHANGED <<first, current, initialized, outbox, provider, sessions>>

(* 'close': also that of a replaced socket stops the timers of the endpoint *)
(* and, unless its code is 1000, starts a reconnection.                     *)
DashCloses(s) ==
    /\ \/ /\ dashSock[s] = "left" /\ UNCHANGED <<circuit, reconnector, losses>>
       \/ /\ \/ dashSock[s] = "failing" /\ UNCHANGED losses
             \/ dashSock[s] \in {"open", "left"} /\ Loses(s)
          /\ circuit' = BreakerFailure(circuit)
          /\ reconnector' = ReconnectorStarted
    /\ dashSock' = [dashSock EXCEPT ![s] = "gone"]
    /\ watched' = FALSE
    /\ UNCHANGED <<first, caller, current, initialized, outbox, provider, retryTimers, givenUp,
                   sessions>>

\* The peer is gone and no packet says so.
DashDies(s) ==
    /\ dashSock[s] = "open" /\ Loses(s)
    /\ dashSock' = [dashSock EXCEPT ![s] = "dead"]
    /\ UNCHANGED <<first, caller, current, initialized, outbox, circuit, reconnector, watched,
                   provider, retryTimers, givenUp, sessions>>

(* The heartbeat timeout, which counts as a failure, or the health monitor; *)
(* of a living peer, when an answer takes too long.                         *)
Watchdog ==
    /\ watched /\ HasEntry
    /\ \/ dashSock[current] = "dead" /\ UNCHANGED losses
       \/ dashSock[current] = "open" /\ Loses(current)
    /\ dashSock' = [dashSock EXCEPT ![current] = "failing"]
    /\ circuit' \in {circuit, BreakerFailure(circuit)}
    /\ UNCHANGED <<first, caller, current, initialized, outbox, reconnector, watched, provider,
                   retryTimers, givenUp, sessions>>

\* Any message arms the heartbeat timeout anew.
MessageArrives(s) ==
    /\ dashSock[s] = "open"
    /\ watched' = TRUE
    /\ UNCHANGED <<dashSock, first, caller, current, initialized, outbox, circuit, reconnector,
                   provider, retryTimers, givenUp, sessions, losses>>

SendCommand ==
    /\ IF HasEntry /\ dashSock[current] \in {"open", "dead"}
       THEN /\ first' = [first EXCEPT ![current] = IF @ = "nothing" THEN "command" ELSE @]
            /\ UNCHANGED outbox
       ELSE /\ outbox' = IF outbox < OutboxLimit THEN outbox + 1 ELSE OutboxLimit
            /\ UNCHANGED first
    /\ UNCHANGED <<dashSock, caller, current, initialized, circuit, reconnector, watched, provider,
                   retryTimers, givenUp, sessions, losses>>

-----------------------------------------------------------------------------
DashNext ==
    \/ SessionStarts \/ SignOut \/ RetryFires \/ ReconnectNow \/ BreakerRecovers
    \/ Watchdog \/ SendCommand
    \/ \E s \in DashSockets :
          \/ DashOpens(s) \/ DashFails(s) \/ DashTimesOut(s) \/ DashCloses(s)
          \/ DashDies(s) \/ MessageArrives(s)

DashSpec == DashInit /\ [][DashNext]_dashVars

SocketEnds(s) == dashSock[s] \in {"aborting", "left", "failing"} /\ (DashFails(s) \/ DashCloses(s))

(* Timers fire and closed sockets report it; an opening that is tried again *)
(* and again is once faster than the one-second timer that would abort it.  *)
FairDashSpec ==
    /\ DashSpec
    /\ WF_dashVars(ReconnectNow) /\ WF_dashVars(RetryFires)
    /\ WF_dashVars(BreakerRecovers) /\ WF_dashVars(Watchdog)
    /\ SF_dashVars(\E s \in DashSockets : DashOpens(s))
    /\ \A s \in DashSockets : WF_dashVars(SocketEnds(s))

-----------------------------------------------------------------------------
DashTypeOK ==
    /\ dashSock \in [DashSockets -> {"gone", "connecting", "aborting", "open", "dead", "left", "failing"}]
    /\ first \in [DashSockets -> {"nothing", "init", "command"}]
    /\ caller \in [DashSockets -> {"nobody", "provider", "manager", "former"}]
    /\ current \in DashSockets \cup {NoDashSock}
    /\ initialized \in BOOLEAN /\ watched \in BOOLEAN /\ givenUp \in BOOLEAN
    /\ outbox \in 0..OutboxLimit
    /\ circuit \in [state : {"closed", "open", "half-open"}, failures : 0..BreakerLimit]
    /\ reconnector \in [on : BOOLEAN, attempts : 0..MaxReconnects, timer : BOOLEAN]
    /\ provider \in [in : BOOLEAN, retries : 0..MaxRetries, known : BOOLEAN]
    /\ \A i \in DOMAIN retryTimers : retryTimers[i] \in 0..(MaxRetries - 1)
    /\ sessions \in 0..MaxSessions /\ losses \in 0..MaxLosses

(* Provider, retries and reconnection managers may all connect, and no      *)
(* handler knows whose event it has: still the one socket in use is the     *)
(* current one, and DASHBOARD_INIT went first on it, before what was queued.*)
SoleAnnounced ==
    \A s \in DashSockets :
        /\ dashSock[s] \in {"connecting", "open", "dead"} => s = current
        /\ dashSock[s] \in {"open", "dead"} => first[s] = "init"

Served ==
    HasEntry /\ (dashSock[current] = "open" \/ (dashSock[current] = "dead" /\ ~watched))

(* A session without a connection gets one again, or the user is told that  *)
(* nobody tries any more (a dead connection whose timers a replaced socket  *)
(* stopped is not noticed).                                                 *)
ComesBack == (provider.in /\ ~Served) ~> (Served \/ ~provider.in \/ givenUp)

(* "System MUST handle reconnection with exponential backoff": after an     *)
(* attempt that failed, the manager does not start over with its first      *)
(* delay.                                                                   *)
BackoffGrows ==
    [][\A s \in DashSockets :
          /\ dashSock[s] = "connecting" /\ dashSock'[s] = "gone"
          /\ caller[s] \in {"manager", "former"}
          /\ reconnector'.on
          => reconnector'.attempts > 0]_dashVars
=============================================================================
