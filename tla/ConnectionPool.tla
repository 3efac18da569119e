--------------------------- MODULE ConnectionPool ---------------------------
(***************************************************************************)
(* The pool's entry of every WebSocket connection, the WebSocket pings by  *)
(* which ConnectionPool judges its health, the PING messages by which      *)
(* HeartbeatManager does the same once more, the clean-up of stale         *)
(* entries and the closing of sockets.  Implements Connections.            *)
(*                                                                         *)
(* Time passes in ticks of ten seconds, the greatest common divisor of all *)
(* periods and deadlines here; Tick waits for the timers that are due, and *)
(* between two ticks they and the peer's answers come in any order.        *)
(***************************************************************************)
EXTENDS Naturals, FiniteSets

CONSTANTS
    AgentConns, DashConns, AgentIds, None,
    MaxMissedPings,  \* config.maxMissedPings: 3 in setup.ts
    MaxOwed          \* bound of the model: pings a peer answers late; it
                     \* ignores further ones

Conns == AgentConns \cup DashConns

ASSUME PoolAssumption ==
    /\ MaxMissedPings \in Nat \ {0} /\ MaxOwed \in Nat \ {0}
    /\ AgentConns \cap DashConns = {}
    /\ None \notin Conns \cup AgentIds

PingPeriod    == 3   \* pool and heartbeat: 30 s
CleanupPeriod == 6   \* config.cleanupInterval: 60 s
IdleLimit     == 9   \* config.connectionTimeout: 90 s
AuthLimit     == 6   \* unauthenticated connections in performCleanup: 60 s
AuthTimeout   == 3   \* the handler's own limit: 30 s
CloseTimeout  == 3   \* ws gives the closing handshake 30 s

VARIABLES
    sock,      \* the WebSocket's readyState; "new" before the upgrade
    entry,     \* connections: the pool's entry, or NoEntry
    agent,     \* the handler's record: None until authenticated
    ping,      \* the pool's ping: when the last one left, its timeout
    health,    \* healthMap: the heartbeat's record, or NotMonitored
    owed,      \* answers under way: pongs to the pool's pings, PONG messages
    left,      \* ticks left to the handler's auth timeout and to the end of
               \* the closing handshake
    phase,     \* ticks since the last clean-up
    due,       \* the interval timers that have to fire in this tick
    up,        \* the server has not been shut down
    silent,    \* history: ticks since the peer was heard or accepted
    prompt     \* history: every answer so far came before the next tick and
               \* soon enough not to be counted as ill health

poolVars == <<sock, entry, agent, ping, health, owed, left, phase, due, up,
              silent, prompt>>

Health == {"healthy", "degraded", "unhealthy"}
Timer  == {"off", "set", "due"}

NoEntry == [inPool |-> FALSE, auth |-> FALSE, status |-> "healthy",
            failedPings |-> 0, idle |-> 0, age |-> 0]
NewEntry == [NoEntry EXCEPT !.inPool = TRUE]

NoPing == [last |-> "never", timeout |-> "off"]

NotMonitored == [monitored |-> FALSE, missedPings |-> 0, answered |-> TRUE,
                 check |-> "off"]
Monitored == [NotMonitored EXCEPT !.monitored = TRUE]

AllTime == [auth |-> AuthTimeout, close |-> CloseTimeout]

NothingOwed == [pongs |-> 0, messages |-> 0]

(* What a silent peer gets: MaxMissedPings PINGs, the deadline of the last   *)
(* and the closing handshake.  The history counts one tick further.         *)
SilenceLimit == MaxMissedPings * PingPeriod + 1 + CloseTimeout

UpTo(limit, n) == IF n >= limit THEN limit ELSE n + 1

IsConnectionHealthy(c) ==
    entry[c].inPool /\ sock[c] = "open" /\ entry[c].status # "unhealthy"

PoolInit ==
    /\ sock = [c \in Conns |-> "new"]
    /\ entry = [c \in Conns |-> NoEntry]
    /\ agent = [c \in Conns |-> None]
    /\ ping = [c \in Conns |-> NoPing]
    /\ health = [c \in Conns |-> NotMonitored]
    /\ owed = [c \in Conns |-> NothingOwed]
    /\ left = [c \in Conns |-> AllTime]
    /\ phase = 0 /\ due = {} /\ up = TRUE
    /\ silent = [c \in Conns |-> 0]
    /\ prompt = [c \in Conns |-> TRUE]

-----------------------------------------------------------------------------
(* The handlers: a connection comes, authenticates, talks and goes.         *)

AddConnection(c) ==
    /\ up /\ sock[c] = "new"
    /\ sock' = [sock EXCEPT ![c] = "open"]
    /\ entry' = [entry EXCEPT ![c] = NewEntry]
    /\ UNCHANGED <<agent, ping, health, owed, left, phase, due, up, silent, prompt>>

Listening(c) == sock[c] \in {"open", "closing"}

\* Slip: an entry that has been removed is entered again.
UpdateOrInsert(c) == [entry EXCEPT ![c].inPool = TRUE, ![c].auth = TRUE, ![c].idle = 0]

UpdateConnection(c) ==
    IF entry[c].inPool THEN [entry EXCEPT ![c].auth = TRUE, ![c].idle = 0] ELSE entry

(* AGENT_CONNECT or DASHBOARD_INIT has succeeded, after awaits over which   *)
(* the connection may have closed: the entry is updated if there still is   *)
(* one, and the connection monitored unless it already is, for good if its  *)
(* close event is past.                                                     *)
Authenticate(c, a) ==
    /\ sock[c] # "new"
    /\ IF c \in AgentConns THEN a \in AgentIds ELSE a = c
    /\ agent' = [agent EXCEPT ![c] = a]
    /\ entry' = UpdateConnection(c)
    /\ health' = IF health[c].monitored THEN health
                 ELSE [health EXCEPT ![c] = Monitored]
    /\ silent' = [silent EXCEPT ![c] = 0]
    /\ UNCHANGED <<sock, ping, owed, left, phase, due, up, prompt>>

Authenticated(c) == agent[c] # None

(* recordActivity, and the pool's own listener to messages.                 *)
Active(c) == IF entry[c].inPool THEN [entry EXCEPT ![c].idle = 0] ELSE entry

PeerSpeaks(c) ==
    /\ Listening(c)
    /\ entry' = Active(c)
    /\ silent' = [silent EXCEPT ![c] = 0]
    /\ UNCHANGED <<sock, agent, ping, health, owed, left, phase, due, up, prompt>>

ServerSends(c) ==
    /\ IsConnectionHealthy(c) /\ entry[c].auth
    /\ entry' = Active(c)
    /\ UNCHANGED <<sock, agent, ping, health, owed, left, phase, due, up, silent, prompt>>

AuthTimesOut(c) ==
    /\ sock[c] = "open" /\ left[c].auth = 0 /\ ~Authenticated(c)
    /\ sock' = [sock EXCEPT ![c] = "closing"]
    /\ UNCHANGED <<entry, agent, ping, health, owed, left, phase, due, up, silent, prompt>>

PeerCloses(c) ==
    /\ sock[c] = "open"
    /\ sock' = [sock EXCEPT ![c] = "closing"]
    /\ UNCHANGED <<entry, agent, ping, health, owed, left, phase, due, up, silent, prompt>>

SocketError(c) ==
    /\ sock[c] = "open"
    /\ sock' = [sock EXCEPT ![c] = "closing"]
    /\ entry' = IF entry[c].inPool
                THEN [entry EXCEPT ![c].status = "unhealthy"] ELSE entry
    /\ UNCHANGED <<agent, ping, health, owed, left, phase, due, up, silent, prompt>>

\* Slip: the close event leaves the entry to the clean-up.
KeepEntry(c) == entry

RemoveConnection(c) == [entry EXCEPT ![c] = NoEntry]

(* The close event: the pool's listener and the handler's both run.  No     *)
(* time counts for a connection that is gone.                               *)
SocketClosed(c) ==
    /\ sock[c] = "closing"
    /\ sock' = [sock EXCEPT ![c] = "closed"]
    /\ entry' = RemoveConnection(c)
    /\ agent' = [agent EXCEPT ![c] = None]
    /\ ping' = [ping EXCEPT ![c] = NoPing]
    /\ health' = [health EXCEPT ![c] = NotMonitored]
    /\ owed' = [owed EXCEPT ![c] = NothingOwed]
    /\ left' = [left EXCEPT ![c] = AllTime]
    /\ silent' = [silent EXCEPT ![c] = 0]
    /\ prompt' = [prompt EXCEPT ![c] = TRUE]
    /\ UNCHANGED <<phase, due, up>>

-----------------------------------------------------------------------------
(* The pool's pings.                                                        *)

(* performHealthChecks: a ping on a socket that is closing is not sent, but *)
(* its timeout is set all the same.                                         *)
PerformHealthChecks ==
    LET pinged == {c \in Conns : entry[c].inPool /\ entry[c].auth} IN
    /\ "ping" \in due
    /\ due' = due \ {"ping"}
    /\ ping' = [c \in Conns |-> IF c \in pinged
                                THEN [last |-> "fresh", timeout |-> "set"] ELSE ping[c]]
    /\ owed' = [c \in Conns |-> IF c \in pinged /\ sock[c] = "open"
                                THEN [owed[c] EXCEPT !.pongs = UpTo(MaxOwed, @)] ELSE owed[c]]
    /\ UNCHANGED <<sock, entry, agent, health, left, phase, up, silent, prompt>>

(* The status follows the latency since the last ping: below one second,    *)
(* below five, or more; a pong that took a tick is in the last class.       *)
HandlePong(c) ==
    /\ Listening(c) /\ owed[c].pongs > 0
    /\ owed' = [owed EXCEPT ![c].pongs = @ - 1]
    /\ silent' = [silent EXCEPT ![c] = 0]
    /\ IF entry[c].inPool
       THEN /\ \E status \in (IF ping[c].last = "fresh" THEN Health ELSE {"unhealthy"}) :
                  /\ entry' = [entry EXCEPT ![c].status = status,
                                            ![c].failedPings = 0, ![c].idle = 0]
                  /\ prompt' = [prompt EXCEPT ![c] = @ /\ status # "unhealthy"]
            /\ ping' = [ping EXCEPT ![c].timeout = "off"]
       ELSE UNCHANGED <<entry, ping, prompt>>
    /\ UNCHANGED <<sock, agent, health, left, phase, due, up>>

HandlePingTimeout(c) ==
    LET failed == entry[c].failedPings + 1
        status == CASE failed >= 3 -> "unhealthy"
                    [] failed = 2  -> "degraded"
                    [] OTHER       -> entry[c].status
    IN
    /\ ping[c].timeout = "due"
    /\ ping' = [ping EXCEPT ![c].timeout = "off"]
    /\ entry' = IF entry[c].inPool
                THEN [entry EXCEPT ![c].failedPings = failed, ![c].status = status]
                ELSE entry
    /\ sock' = IF entry[c].inPool /\ failed >= 5 /\ sock[c] = "open"
               THEN [sock EXCEPT ![c] = "closing"] ELSE sock
    /\ UNCHANGED <<agent, health, owed, left, phase, due, up, silent, prompt>>

-----------------------------------------------------------------------------
(* The heartbeat's PING messages.                                           *)

PingAllConnections ==
    LET pinged == {c \in Conns : entry[c].inPool /\ entry[c].auth /\ health[c].monitored} IN
    /\ "heartbeat" \in due
    /\ due' = due \ {"heartbeat"}
    /\ health' = [c \in Conns |->
                    IF c \in pinged
                    THEN [health[c] EXCEPT !.missedPings = @ + 1,
                                           !.answered = FALSE, !.check = "set"]
                    ELSE health[c]]
    /\ owed' = [c \in Conns |-> IF c \in pinged /\ sock[c] = "open"
                                THEN [owed[c] EXCEPT !.messages = UpTo(MaxOwed, @)] ELSE owed[c]]
    /\ UNCHANGED <<sock, entry, agent, ping, left, phase, up, silent, prompt>>

(* A PONG takes back one missed ping only, whichever PING it answers.       *)
RecordPong(c) ==
    /\ Listening(c) /\ owed[c].messages > 0
    /\ owed' = [owed EXCEPT ![c].messages = @ - 1]
    /\ entry' = Active(c)
    /\ silent' = [silent EXCEPT ![c] = 0]
    /\ health' = IF health[c].monitored
                 THEN [health EXCEPT ![c].missedPings = IF @ = 0 THEN 0 ELSE @ - 1,
                                     ![c].answered = TRUE]
                 ELSE health
    /\ UNCHANGED <<sock, agent, ping, left, phase, due, up, prompt>>

\* Slip: one miss more than configured.
TimedOutLate(c) == ~health[c].answered /\ health[c].missedPings > MaxMissedPings

TimedOut(c) == ~health[c].answered /\ health[c].missedPings >= MaxMissedPings

(* checkPongTimeout, and the handler's listener to connectionTimeout.       *)
CheckPongTimeout(c) ==
    /\ health[c].check = "due"
    /\ health' = [health EXCEPT ![c].check = "off"]
    /\ sock' = IF TimedOut(c) /\ sock[c] = "open"
               THEN [sock EXCEPT ![c] = "closing"] ELSE sock
    /\ UNCHANGED <<entry, agent, ping, owed, left, phase, due, up, silent, prompt>>

-----------------------------------------------------------------------------
\* Slip: the health is left to the handlers.
StaleByIdleness(c) == entry[c].inPool /\ entry[c].idle > IdleLimit

\* Slip: one PING interval of idleness, without a margin.
StaleAtNextPing(c) ==
    entry[c].inPool /\ (entry[c].idle >= PingPeriod \/ ~IsConnectionHealthy(c))

Stale(c) ==
    /\ entry[c].inPool
    /\ \/ entry[c].idle > IdleLimit
       \/ ~IsConnectionHealthy(c)

Unauthenticated(c) ==
    entry[c].inPool /\ ~entry[c].auth /\ entry[c].age > AuthLimit

(* The branch for five failed pings is left out: it is below the test of    *)
(* the health, which is the weaker one.                                     *)
PerformCleanup ==
    LET gone == {c \in Conns : Stale(c) \/ Unauthenticated(c)} IN
    /\ "cleanup" \in due
    /\ due' = due \ {"cleanup"}
    /\ sock' = [c \in Conns |-> IF c \in gone /\ sock[c] = "open"
                                THEN "closing" ELSE sock[c]]
    /\ entry' = [c \in Conns |-> IF c \in gone THEN NoEntry ELSE entry[c]]
    /\ health' = [c \in Conns |-> IF c \in gone THEN NotMonitored ELSE health[c]]
    /\ UNCHANGED <<agent, ping, owed, left, phase, up, silent, prompt>>

(* The onClose hook: heartbeatManager.stop, connectionPool.closeAll.        *)
CloseAll ==
    /\ up
    /\ up' = FALSE
    /\ due' = {}
    /\ sock' = [c \in Conns |-> IF entry[c].inPool /\ sock[c] = "open"
                                THEN "closing" ELSE sock[c]]
    /\ entry' = [c \in Conns |-> NoEntry]
    /\ ping' = [c \in Conns |-> [ping[c] EXCEPT !.timeout = "off"]]
    /\ health' = [c \in Conns |-> NotMonitored]
    /\ UNCHANGED <<agent, owed, left, phase, silent, prompt>>

(* Ten seconds pass; no timer is overdue.                                   *)
Elapse(timer) == IF timer = "set" THEN "due" ELSE timer

Tick ==
    LET next == (phase + 1) % CleanupPeriod IN
    /\ due = {}
    /\ \A c \in Conns :
          /\ ping[c].timeout # "due" /\ health[c].check # "due"
          /\ sock[c] = "open" /\ left[c].auth = 0 => Authenticated(c)
          /\ sock[c] = "closing" => left[c].close > 0
    /\ phase' = next
    /\ due' = IF up THEN (IF next % PingPeriod = 0 THEN {"ping", "heartbeat"} ELSE {})
                         \cup (IF next = 0 THEN {"cleanup"} ELSE {})
                    ELSE {}
    /\ ping' = [c \in Conns |->
                  [last |-> IF ping[c].last = "fresh" THEN "old" ELSE ping[c].last,
                   timeout |-> Elapse(ping[c].timeout)]]
    /\ health' = [c \in Conns |-> [health[c] EXCEPT !.check = Elapse(@)]]
    /\ entry' = [c \in Conns |->
                  IF entry[c].inPool
                  THEN [entry[c] EXCEPT !.idle = UpTo(IdleLimit + 1, @),
                                        !.age = IF entry[c].auth THEN @
                                                ELSE UpTo(AuthLimit + 1, @)]
                  ELSE entry[c]]
    /\ left' = [c \in Conns |->
                  [auth |-> IF sock[c] = "open" /\ ~Authenticated(c)
                            THEN left[c].auth - 1 ELSE left[c].auth,
                   close |-> IF sock[c] = "closing"
                             THEN left[c].close - 1 ELSE left[c].close]]
    /\ silent' = [c \in Conns |-> IF Listening(c) THEN UpTo(SilenceLimit + 1, silent[c]) ELSE 0]
    /\ prompt' = [c \in Conns |-> prompt[c] /\ owed[c] = NothingOwed]
    /\ UNCHANGED <<sock, agent, owed, up>>

ConnectionStep(c) ==
    \/ AddConnection(c) \/ PeerSpeaks(c) \/ ServerSends(c)
    \/ AuthTimesOut(c) \/ PeerCloses(c) \/ SocketError(c) \/ SocketClosed(c)
    \/ \E a \in AgentIds \cup {c} : Authenticate(c, a)
    \/ HandlePong(c) \/ HandlePingTimeout(c)
    \/ RecordPong(c) \/ CheckPongTimeout(c)

TimerStep ==
    PerformHealthChecks \/ PingAllConnections \/ PerformCleanup \/ Tick

PoolNext == (\E c \in Conns : ConnectionStep(c)) \/ TimerStep \/ CloseAll

PoolSpec == PoolInit /\ [][PoolNext]_poolVars

-----------------------------------------------------------------------------
PoolTypeOK ==
    /\ sock \in [Conns -> {"new", "open", "closing", "closed"}]
    /\ entry \in [Conns -> [inPool : BOOLEAN, auth : BOOLEAN, status : Health,
                            failedPings : 0..5, idle : 0..(IdleLimit + 1),
                            age : 0..(AuthLimit + 1)]]
    /\ agent \in [Conns -> AgentIds \cup DashConns \cup {None}]
    /\ ping \in [Conns -> [last : {"never", "fresh", "old"}, timeout : Timer]]
    /\ health \in [Conns -> [monitored : BOOLEAN, missedPings : Nat,
                             answered : BOOLEAN, check : Timer]]
    /\ owed \in [Conns -> [pongs : 0..MaxOwed, messages : 0..MaxOwed]]
    /\ left \in [Conns -> [auth : 0..AuthTimeout, close : 0..CloseTimeout]]
    /\ phase \in 0..(CleanupPeriod - 1)
    /\ due \subseteq {"ping", "heartbeat", "cleanup"}
    /\ up \in BOOLEAN
    /\ silent \in [Conns -> 0..(SilenceLimit + 1)]
    /\ prompt \in [Conns -> BOOLEAN]

(* A peer that has fallen silent is out of the pool after three missed      *)
(* PINGs, the deadline of the last and the closing handshake, however much  *)
(* the server goes on sending to it, and whatever the pool's own pings say. *)
DeadPeerLeavesPool ==
    \A c \in Conns : entry[c].inPool => silent[c] <= SilenceLimit

(* No connection waits in the pool for its authentication for longer than   *)
(* its two time limits and the closing handshake allow.                     *)
UnauthenticatedLeavesPool ==
    \A c \in Conns : entry[c].inPool /\ ~Authenticated(c) =>
        entry[c].age <= AuthTimeout + CloseTimeout

ClosedByServer(c) == sock[c] = "open" /\ sock'[c] = "closing"

(* While the server runs, neither judge closes an authenticated connection  *)
(* whose peer answered every ping in time and keeps talking.                *)
PromptPeerIsKept ==
    [][TimerStep \/ (\E c \in Conns : HandlePingTimeout(c) \/ CheckPongTimeout(c))
       => \A c \in Conns :
            ClosedByServer(c) => ~entry[c].auth \/ ~prompt[c]]_poolVars

(* What the message router assumes of each connection.  Nothing looks at    *)
(* the record of a connection whose handler has dropped it.                 *)
View(c) ==
    [sock |-> sock[c], inPool |-> entry[c].inPool,
     auth |-> Authenticated(c) /\ sock[c] # "closed",
     healthy |-> sock[c] = "open" => entry[c].status # "unhealthy",
     agentId |-> IF c \in AgentConns /\ sock[c] # "closed" THEN agent[c] ELSE None, subs |-> {}]

Abs(c) == INSTANCE Connections
            WITH AgentConns <- AgentConns \cap {c}, DashConns <- DashConns \cap {c},
                 Topics <- {}, conn <- [x \in {c} |-> View(x)]

(* Each connection, taken alone, behaves as Connections says: this is       *)
(* \A c : Abs(c)!ConnSpec, with the boxes brought together.                 *)
ImplementsConnections ==
    /\ \A c \in Conns : Abs(c)!ConnInit
    /\ [][\A c \in Conns : Abs(c)!ConnNext \/ UNCHANGED View(c)]_poolVars

=============================================================================
