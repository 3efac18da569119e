# Onsembl: a verification project

Onsembl runs AI coding agents from a control centre. An agent wrapper on a developer's machine and the dashboards in
browsers connect by WebSocket to one backend process, which routes commands to the agents, their output back to the
dashboards, and keeps agents, commands and audit records in a database. This directory models the real-time core of
the backend and its two clients in TLA+, checks it with TLC and proves part of it with TLAPS. Paths below are relative
to the repository.

## 1. The system

What runs is what `backend/src/websocket/setup.ts` wires together, the wrapper's `cli.ts`, and the providers of the
frontend.

| Component | State | Operations | Hard behaviour | What makes it correct |
|---|---|---|---|---|
| MessageRouter (`websocket/message-router.ts`) | `messageQueue`, statistics | route, broadcast, emergency stop, delivery every 100 ms, retry, evict, stop | recipients resolved at delivery, not at queueing; back-off; a full queue | bounded, at most once, in order, everything accounted for, drains |
| Command tracking (same file) | `commandToDashboard`, `dashboardCommands`, `commandTimestamps` | register, clean up by command, by dashboard, by TTL | two dashboards with one command id; disconnect between request and answer | the maps stay in step; nothing outlives its dashboard |
| ConnectionPool, HeartbeatManager (`websocket/`) | entries, ping timers, `healthMap` | add, update, remove, pings, PINGs, deadlines, clean-up | two judges of one connection, late answers, close events | silent peers go in time, prompt ones stay |
| Agent handler, AgentService, AgentHeartbeatMonitor | records, `activeConnections`, timers, the agents' rows | connect, disconnect, PONG, time-outs | awaits between writes, reconnect, crash | an agent that is gone ends up offline, one that answers stays online |
| Dashboard handler | records, subscriptions | init, subscribe, request, cancel, control, stop | disconnect with commands running | as the router |
| TokenManager (`websocket/token-manager.ts`) | token records | register, refresh cycles, expire, unregister | cycles overlap, answers come after the record went | one refresh of a token at a time; none expires untried |
| TerminalStreamManager (`websocket/terminal-stream.ts`) | a buffer per session, numbers seen | receive, flush, stop | flushes whose inserts nobody awaits; counters that start again | published once, in order; stored in the end |
| `models/command-queue.ts` | rows with positions | add, dequeue, move, reorder | read-then-write without transactions | a reorder heals what came before |
| `packages/command-queue` | BullMQ jobs, agents | add, fetch, retry, interrupt, pause | interruption against the worker | what was interrupted is over, jobs end |
| AuditService (`services/audit.service.ts`) | batch, timer | log, write, retry | the batch's timer against full batches and failures | no event waits without a timer |
| Wrapper: connection (`websocket-client.ts`, `reconnection.ts`) | sockets, managers, breaker | connect, reconnect, heartbeat, stop | two managers over one client; overlapping connects | one announced socket; it reconnects |
| Wrapper: commands (`command-executor.ts`, `stream-capture.ts`) | children, timers, buffers | execute, cancel, time out, capture | exit against cancel and timers, bytes cut anywhere | the table knows every child; output whole and in order |
| Wrapper: login (`auth/`), `api/auth.ts`, the device page | `cli_tokens` rows, a credential store per machine | device flow, renew, revoke | rotation against a lost answer or a second process | what is stored is what the server honours |
| Dashboard client (`frontend/src/services`, `websocket-provider.tsx`) | sockets, reconnection manager, breaker, retries | connect, retry, reconnect, sign out | handlers that know the endpoint and not the socket | one announced socket; a session comes back |
| Other REST routes, validation of tokens, database health, tracing, views | database | one call each | little | not modelled |

Interaction: handlers call the pool, the router, the heartbeat and the services directly; pool and heartbeat answer by
events (`connectionRemoved`, `connectionTimeout`). Node and the browser run one callback at a time, so a callback up
to its first `await` is atomic and everything else interleaves.

## 2. Modules

Server:

- **Connections**: what a connection is to the router: a socket, a place in the pool, authentication, health,
  subscriptions, and the steps that change them. It is the abstract specification of the pool.
- **CommandTracking**: the three maps and their operations, instantiated by the router.
- **MessageRouter**: the queue, one action per handler that feeds it (each the whole handler, with registering and
  cleaning up the command), `ProcessMessageQueue` for one delivery cycle (sort, timeout, up to ten deliveries, each
  with its retry), `Tick`, `Stop`, and `ConnectionChange` for everything `Connections` allows. Ids of messages grow
  in the order of insertion. Time is relative: a message's age and its wait in back-off, in seconds.
- **MCRouterTimers** joins two instances of the router, between which the initial state chooses.
- **RouterPromises**: what the documents promise of the router and the code does not keep.
- **ConnectionPool**: the pool with its heartbeat, in ticks of ten seconds, the common divisor of all periods in the
  code. Timers due at a tick fire in any order among the peer's answers and the close events. `silent` and `prompt`
  are history. `Abs(c)` maps each connection to `Connections`.
- **AgentPresence**: handlers, service and monitor around the agents' rows; each database write is a step and each
  continuation another, so that every interleaving of the awaits is there. A tick is 30 s. `job` holds the tasks
  that take agents offline, the service's timer of each agent and the monitor, at their place in the code.
- **TokenManager**: one record per connection and the cycles that wait for answers, each with the record's generation
  that it asked for, as the code's batches keep references to records that may have been replaced.
- **TerminalStream**: the agent's counter and what it resends, the session of the agent and the one without (a line
  that comes before AGENT_CONNECT is through), the buffers, the timer in half intervals, the inserts in flight.
  It implements **OutputLog**, an append-only log: published is always a prefix of accepted.
- **CommandQueueTable**: the rows of one agent; a call is a program of reads and writes, one await each. A sort or an
  ORDER BY is an **Arrangement**: a set in a given order, by counting what does not come after each element, which is
  what any sort leaves and needs no recursion, so that it can be proved about.
- **JobQueue**: `queue.ts` and `processor.ts`; states, locks, retries and pause are BullMQ's, modelled from their use.
- **AuditService**: the batch, its timer (whose field is also the flag that one is pending), each entry's retries, the
  process's exits.
- **MCServerParts** joins the last five: they share no state, and in a behaviour one of them moves while the others
  stay, so the states of the instance are the sum of theirs.

Clients:

- **AgentClient**: a slot is a connect() over its two awaits with its socket. Both managers, the circuit breaker,
  heartbeat and pong, the messages that wait, stop and disconnect. `headless` chooses the wrapper with the second
  manager.
- **CommandExecutor**: a run is an accepted executeCommand; a later run may have an earlier one's id. Child, signals,
  the two timers, the reports.
- **StreamCapture**: one output stream as bytes; chunks, the flush timer and the buffer limit cut it, pieces are
  decoded one by one (`Decode`), and the Transform that nobody reads fills up. Decoding keeps the places where a
  character starts, in ascending order, and encoding the halves of all characters: Arrangements again.
- **DashboardClient**: an action is a task of the browser. The service's connect, disconnect and handlers, the
  reconnection manager and breaker, the watchdogs, the provider with its retries, sign-in and sign-out, the
  DASHBOARD_INIT of the bridge and the commands that wait.
- **CliLogin**: `cli_tokens` as one row per login with the pair of tokens it holds; pages that confirm; processes that
  log in, renew and log out over one store. Every handler that reads a row or the store and then writes is two steps.
- **MCClients** joins these five in the same way.

**MessageRouterProofs**, **ConnectionPoolProofs**, **AgentPresenceProofs**, **TokenManagerProofs**,
**TerminalStreamProofs**, **ServerPartsProofs**, **ClientProofs** and **ArrangementProofs** hold the theorems; **MC…**
modules add the model values.

Definitions with the comment "Slip" are wrong versions of the definition below them. They are used by no
specification; each is what its neighbour would be after a plausible mistake, and shows that a property notices.

## 3. Runs

| Run | Shows | Bounds |
|---|---|---|
| MCRouterQueue | bounded queue, at most once, statistics, order, no message for a usable agent given up | queue of 2, 3 messages: eviction, retry, time-out and shutdown all happen |
| MCRouterTimers | the timers keep firing: every queued message leaves the queue, tracking against connects and closes, every tracking entry goes away | a behaviour is one of two instances: 3 messages in a queue of 2 with a batch of 1, which compete, evict each other, are retried, time out; or 2 dashboards that ask for one command, the second overwriting the first one's entry, come and go |
| MCPool | silent peers leave within 13 ticks, unauthenticated ones within 6, prompt peers are kept, Connections is implemented | 1 connection (connections do not meet in the pool), all real periods, 1 late answer of each kind |
| MCPresence | online rows have a heartbeat, a running timer has an entry, a ghost goes offline | 1 agent, 2 connections, 1 crash or failed call, time-outs of 1 tick |
| MCServerParts | tokens: one refresh in flight, tried before expiry, no record of a closed connection but by a late validation. Stream: only restarts are skipped, OutputLog is implemented, everything is stored. Rows: a reorder heals. Jobs: interrupted is over, jobs end. Audit: no event without a timer | 2 tokens and overlapping cycles; 3 lines, 1 break, 1 failed insert; 3 calls; 2 jobs, 1 agent; 3 events in batches of 2 |
| MCClients | wrapper: one announced socket, it reconnects, the table knows every child, output is whole, its end is noticed. Browser: one announced socket, a session comes back. Login: what is stored is honoured | 2 sockets at a time, breaker of 2; 2 runs of one id; 6 bytes in a buffer of 2; 2 sign-ins and 2 losses; 2 processes, 2 logins, 2 pairs |
| MCInitiatorReached, MCEmergencyStopAll, MCKeptAlive, MCForceKilled, MCBackoff, MCCredentials | each ends in a counterexample to a statement of a document or comment: see section 6 | as small as shows it |

The bounds. The router's properties speak of one or two messages and of the queue being full; with a limit of two and
three messages the queue is full while a third comes, one message is in back-off while another is delivered, and the
oldest differs from the least important. `BatchSize`, ten in the code, is one, so that a cycle stops short.
MCRouterTimers has the same limits; its first instance leaves out the commands, whose requests would only be further
messages to the agent, its second the messages that are about no command, except one. Its traffic is finite, like every instance's: if urgent messages never ceased to fill the batches, a less urgent
one would wait for good, as a cycle that stops short does not look at its time limit either.
Retries are two instead of three: one failure that is retried and one that is not. In the pool only one connection
is needed, as no action reads two; the number of answers owed at a time is capped by `MaxOwed`, and as a PONG takes
back one miss whichever PING it answers, a late answer and a lost one are both in. In the presence model the length
of the time-outs only says how many checks go by before they end, so that one tick is enough; two connections give
a reconnect that races with everything the first one left behind. Faults are limited to one: the property says that a
single write that never comes is made up for. Two tokens in batches of one make a cycle wait with one of them still
to do while the next cycle meets both. A token is presented with any lifetime, from none to a new one's. (That it is tried in time holds for as many
connections as there are intervals at which it counts as expiring, which are fewer if it was presented late, or as a
batch takes, whichever is more: `Chances`, `HasItsTurn`. A token presented with one interval left or less has no
chance at all and may lapse untried. With one chance more TLC finds a counterexample, as it does for three connections
in batches of two with a threshold of two.) Every query of the three calls on the rows may fail, before or after the
database carried it out. Three lines in a buffer of two give a flush by size with a line to follow.
Two jobs for one agent are the fewest that compete. One of them at most is interrupted (`OneInterrupted`),
as an interruption reads only the job it is about. Limits of two or three attempts keep one failure that is followed
by another try, one that is not, and a breaker that opens in between; two sockets are one in use and one replaced
whose events are still to come. Six bytes fill the capture's high-water mark of four with a cut before it.
In MCClients, the one page that confirms takes turns; two of them confirming the same code are in the model, and
what follows is the same as for two processes.

`CHECK_DEADLOCK FALSE` stands in every configuration because the instances do end: all connections have come and
gone, the messages are used up, or the process has stopped.

Fairness. `FairSpec` of the router: the delivery timer, the clock, the TTL sweep, while the router runs; nothing is
assumed of the dashboards, the agents or the connections. `FairPresenceSpec`: continuations of handlers that are
ready, the timers and their tasks, and time; a process that has ended is restarted. Nothing is assumed of the agents,
of the failing calls or of any single connection. The event loop justifies the first two, as no callback in these
files blocks; the restart is the process manager's. The stream: its timer, and the database answers. Jobs: Redis
answers, a worker takes a job it may fetch again and again, although in between the queue may be paused or every slot
taken (strong fairness), and back-off passes. Nothing makes a handler end: `processor.ts` waits for the agent without a
limit of time. `JobsEnd` therefore speaks of a job whose own agent answers, if it is at work, while other agents may
never answer, as long as they leave the worker a slot. Wrapper: timers that are set fire although stray ones and the other manager may disable them
for a while (strong), and a connect() gets past its awaits, as both have time limits. Executor: its timers fire, a
child that was killed ends and its streams close; a child by itself owes nothing. Browser: its timers, the close
event of every socket, and (strong) an opening that is tried again and again succeeds once before the one-second
timer of a further attempt, without which no client could promise anything; losses are bounded by `MaxLosses`.
The login has no liveness: a user may never confirm.

## 4. Proofs

Every invariant, every action property and both refinements that the passing runs check are proved for any values of
the constants; liveness is what TLC alone has checked. Each component has one inductive invariant; TLC checked it on a small instance before it was proved. The
assumptions are the ones on the constants, in the modules that declare them.

`MessageRouterProofs`, for any limits, sets of connections, agents, commands and topics:

- `RouterTypeCorrect`, `QueueNeverOutgrowsLimit`, `NoMessageSentTwice`, `StatisticsAreComplete`,
  `NoEntryOutlivesItsDashboard`, `TrackingStaysInStep` follow from `RouterInv`. It joins the queue's part (`QueueInv`:
  types, the limit, that everything sent has an id and is out of the queue, and the balance of the statistics) with
  the connections' part (`ConnsInv`: types, the maps in step, tracked dashboards still listening). Neither bound nor
  balance is inductive alone: that the count stays right when a full queue makes room needs that the evicted id is in
  the queue, that a new id is not, and that the queue is finite, which are facts on types; that a dashboard's close
  leaves no entry needs that the entry is in the dashboard's own set, which is `TrackedIsReachable`. The delivery
  cycle is proved by splitting the queue into messages that stay, are delivered, expire or are given up, and counting
  the parts.
- `EntriesAreRouted` adds the history of requests. `NothingOvertakes` and `GivesUpOnAbsentAgents` are properties of a
  step: what a cycle takes is a top part of the sorted queue, and an attempt for an agent with a usable connection
  succeeds.

`ConnectionPoolProofs`, for any number of connections and any periods that satisfy `PoolAssumption`:

- `SilentPeersLeave`, `UnauthenticatedLeave` and `PoolTypeCorrect` follow from `PoolInv`. The deadlines are bounds on
  counters that other timers reset; the invariant gives each connection a bound on `silent` for every number of
  missed PINGs and every state of the socket (`SilenceIsCounted`), so that the clauses add up to `SilenceLimit`.
- `PromptPeersStay`: nothing a prompt peer's timers can find is a reason to close it. A by-product is
  `FailuresAreCleaned`: by the time five pings have failed the clean-up has closed the connection, so that the pool's
  own branch for them is never taken.
- `PoolImplementsConnections`: the initial states and each step map by `Abs` to `Connections`, one connection at a time.
  What the router assumes of its connections is thus not an assumption.

`AgentPresenceProofs`, for any agents, connections, faults and crashes: `OnlineRowsHaveHeartbeat` (each write leaves a
row the monitor's scan sees), `PresenceTypeCorrect` and `TimersHaveConnections`. The last needs to know that
an entry of the map is of a connection whose socket was accepted, so that its claim no longer changes, and that what
a task will still delete is a connection claimed by the very agent whose timer the task clears (`EntriesAreKnown`). The code's deletion of an array's elements is
written as `Deleted`, of which only membership matters, as nothing can be proved of SelectSeq here.

`TokenManagerProofs`, for any connections, thresholds, batches and attempts: `RecordsHaveConnections`,
`RefreshesAreSingle` and `NoneExpiresUntried`, whatever is left of a token when it is presented. The first two need that what a cycle waits for carries a generation no
newer than the record's (`RecordsAreNamed`). The third counts: an untried token has been missed by one cycle for every
interval since it came below the threshold, or was recorded below it (`UntriedIsMissed`), each of them waits for an answer, and no two for the
same connection (`OthersAreAwaited`, an injection from cycles to other connections). The proof corrected the
property: as each cycle may wait for a single answer of a batch, five connections are safe with the shipped
five intervals and batches of five, and not the twenty-five that batches times intervals suggest. For a token presented
with less than that left, the intervals that remain of it are what the connections are compared with.

`TerminalStreamProofs`, for any number of lines, buffer and faults: `DuplicatesAreRestarts` and `StreamImplementsLog`.
Between acceptance and publication stands the buffer, so that the invariant says of each session that what it
accepted is what it published with the buffer appended; `accepted` is a history variable.

`ArrangementProofs`: in a finite set with a total order (`IsOrder`) every element has a place of its own, the places
are 1 up to the number of elements (`PlacesAreTaken`), an arrangement runs through the set in its order
(`ArrangedInOrder`), and it is the only sequence that does (`OnlyArranged`). What is sorted or decoded below is
compared by that last fact, without induction over sequences.

`ServerPartsProofs`, with an invariant for each of three parts:

- `InterruptedStaysOver` and `JobTypesCorrect`, for any jobs, agents and limits. The invariant adds that a handler
  awaits the processor exactly while its job is active, so that no late answer meets a job that is over; `OneJobMoves`
  says once what every operation has to show of the one job it is about.
- `WaitingEventsHaveTimer` and `AuditTypeCorrect`, for any events, batch size, attempts and exits. `QueuedHasTimer` is
  not inductive: from a state with an empty batch and a timer, the callback leaves the field set and the next event
  would take it for a timer. `TimerMatchesBatch` says that this state is never reached, as the field is set exactly
  while something waits. `RowsMatch` bounds the rows of an event by its inserts.
- `ReordersHeal`, for any priorities and number of calls, and whichever queries fail: while a reorder writes undisturbed,
  what it still has to
  write is right for the rows as they are now, and reaches each row that is out of place (`Heals`). A write of a
  position keeps this because the order by priority and age does not look at positions; the write of another call, or
  one of its own that fails, ends it. When nothing is left to write every row is at its place, and by counting its place is its rank and what
  `getPosition` finds (`PlacesAreRanks`). That positions stay within one more than there are calls needs that
  a gap among them always is free (`FreePositionIsOne`).
- `PartsBehave`: MCServerParts implies the specification of each part, so that whatever is proved of a part holds in the
  instance that is checked, and `PartsTypesCorrect`: all five keep their types, with `TokenTypesCorrect` and
  `StreamTypesCorrect` of the two modules above, whose invariants needed the counters' bounds (`TokenBounds`) added.

`ClientProofs`, with an invariant for each of five clients:

- `LiveCommandsAreActive`, for any runs and ids: an entry of the table names a run of its id that has not closed
  (`IdsMatch`), so that the end of a run can only delete its own entry or one whose run had an error.
- `NobodyIsKilled`: finding 4 below, proved for every way of cancelling. While the second timer of a cancellation is
  set, a living child has been sent SIGTERM (`TimerMeansSignalled`), and that is what keeps SIGKILL from it.
- `OneSocketAnnounced` and `DashTypeCorrect`, for any sockets, limits, sign-ins and losses: as handlers know the
  endpoint only, the invariant adds that DASHBOARD_INIT counts as sent from the first open socket on, and is forgotten
  with the endpoint's entry or while a new socket connects (`InitOnOpened`), and that the manager has a timer only
  while attempts are left (`ManagerInv`).
- `StoredPairIsHonoured`, for any processes, logins, pages and pairs: a pair is of one row at most (`RowsApart`), what
  the store and each process hold is a pair of the row they hold it with or of none any more (`AllKnown`), the row of
  a login under way is nobody else's (`LoginsApart`), and as long as nothing disturbs them at most one process is at
  work on the store, with what is stored there (`Undisturbed`). `CliInv` joins them with the property itself.
- `OneSocketKnown`, for any limits of attempts, breaker and slots: in the interactive wrapper the manager waits for
  its timer, for its one call, or for nothing (`OneManager`), and a slot is taken only when the last was left
  (`OneSocket`). A connect() that times out ends this, as it leaves its socket to open by itself, and so does the
  headless wrapper's second manager; the theorem claims nothing of them beyond the announcement.
- `OutputArrives`, for any output, chunks and sizes: what is held is the end of what was taken and what was passed on
  decodes the rest, or a cut has gone through a character (`Faithful`). Decoding two sequences joined is joining the
  two decoded, unless the cut between them is inside a character, which leaves a torn one for good (`DecodeJoins`,
  `TornTogether`); a cut behind a newline is not (`CutAtNewline`); and encoding undoes decoding where nothing is torn
  (`EncodeUndoes`), so that the rest the capture keeps as text is the bytes it was. `EncodeNoLonger` keeps it within
  the buffer.
- `ClientsBehave` and `ClientsTypesCorrect`: MCClients implies each client's specification, and all five keep their
  types. For the wrapper's connection `AgentRest` adds what its invariant leaves out: flags, breaker, queue.

Some definitions have the form the proofs need: sorting and decoding are Arrangements and not recursive, and the
bound on the initialisations in TokenManager is the cardinality of a set (`Inits`) and not a sum.

Only model-checked: liveness (`QueueDrains`, `TrackingExpires`, `GhostGoesOffline`, `StreamedIsStored`, `JobsEnd`,
`Reconnects`, `EndNoticed`, `ComesBack`), which is beyond this prover, as are ENABLED and fairness. The proofs are of
the specifications without it.

## 5. Not modelled

Most of the repository's lines hold no state over time: the pages and components of the frontend, the REST routes that
read or write one row and answer, database types and migrations, schemas of messages, configuration, encryption of the
credential store, logging, metrics. Files that nothing loads (`plugins/websocket.ts`, `connection-manager.ts`,
`broadcaster.ts`, several files of `websocket/`, `message-retry.ts`, the trace collector) stand outside. So does
`CommandService`: its methods with state have no callers, and the handlers call methods it does not have
(`updateCommandStatus`, `addTraceEvent`, `getRunningCommands` and more), so that COMMAND_ACK, COMMAND_COMPLETE and
TRACE_EVENT end in a logged TypeError. The map covers the lines a definition stands for and no more, and its share
of all lines is small for these reasons.

Within the modelled parts: message contents, error replies, latency and stream statistics; send errors other than
through a closed socket (`ws` does not throw on one); `restartAgent`, which never finds a socket in its map; the
commands a disconnect cancels. In the presence model a connection sends AGENT_CONNECT once and has at most one
PONG or AGENT_ERROR being handled; a timer of an agent does not fire while the task of the previous one is still
waiting for the database, which would take 90 s. In JobQueue a worker does not stop or lose its locks, so that no job
is taken back as stalled (`processor.ts:58`), jobs are added without the delay that only `example-usage.ts` asks for,
and a count that Redis does not answer, which reads as zero, is left out. In AgentClient a timer that is set may fire at any time. In CliLogin
each signing gives a new pair, although two in the same second would be equal, and the store is read and written in
one step each, although its file variant has a key and a file.

## 6. Where code and documents part

With a run each:

1. Terminal output of a tracked command never reaches the dashboard that asked: its connection id is looked up as an
   agent id (`message-router.ts:518`; MCInitiatorReached).
2. An emergency stop is done when the first agent has it (`message-router.ts:543`; MCEmergencyStopAll).
3. Every agent is marked offline 90 s after it connected, as only AGENT_HEARTBEAT, since removed, restarts the timer
   (`agent.service.ts:600`; MCKeptAlive).
4. A cancelled command that ignores SIGTERM is never killed: `killed` is set by the SIGTERM that was sent
   (`command-executor.ts:193`; MCForceKilled).
5. The browser's back-off never grows: each attempt destroys the manager that counts the attempts
   (`websocket.service.ts:135`; MCBackoff).
6. A renewal that fails for any reason deletes credentials that are still valid (`auth-manager.ts:200`;
   MCCredentials).

Seen while modelling, without a run.

Server:
- Once the dashboard that asked for a command is gone, others see its output (`message-router.ts:313`); its
  disconnect leaves the timestamps of its commands for good (`message-router.ts:804`).
- A command for an agent that is offline is refused, not queued (`message-router.ts:124`); a full queue drops a
  message of higher priority than the new one (`message-router.ts:413`); a cancellation, of priority 9, overtakes the
  request it cancels, of priority 8 (`message-router.ts:390`).
- PONGs take back one miss each, so misses that are not consecutive add up (`heartbeat.ts:139`). One pong slower than
  five seconds costs the connection at the next clean-up, and the branch for five failed pings is dead
  (`connection-pool.ts:684`).
- A PONG would put an agent back online but compares the row with `offline`, which `toDbStatus` never stores
  (`agent-handler.ts:821`); the close of an agent's old connection may mark it offline after its new one is up
  (`agent-handler.ts:895`); `handleDisconnection` asks for `getRunningCommands`, which does not exist, so no command
  is cancelled (`agent-handler.ts:904`).
- A command sent right behind DASHBOARD_INIT is refused while the token is still being validated
  (`dashboard-handler.ts:254`), and that is what the browser does with commands that waited.
- A cycle of token refreshes waits for the slowest answer of a batch before the next batch, and later cycles meet the
  same batch first: with more than five connections a token may expire without an attempt (`token-manager.ts:451`). So
  may one that is presented with no more than an interval left (`dashboard-handler.ts:264`, `agent-handler.ts:408`).
- Each line of output is streamed twice, to its session and as a message; a wrapper that starts again counts from one
  under a session nobody ends, so its lines are skipped (`endSession` has no caller); lines before AGENT_CONNECT is
  through go to a session the database refuses.
- Two dequeues may return one row, and the size check of an added command is outdated when it is used
  (`models/command-queue.ts`). A position whose update fails stays wrong, and the call succeeds, until a later reorder
  (`models/command-queue.ts:684`). A job whose agent never answers stays active for good: the time limit is passed on to
  the agent and nobody on the server measures it (`processor.ts:203`). In `processor.ts:222` a job that fails because its agent is busy marks the agent
  as free, and the next fetch gives it a second command; `shutdown()` leaves the queue paused in Redis.
- The job queue's limit does not count what waits: a job with a priority other than zero is prioritized to BullMQ 4
  and not waiting (`packages/command-queue/src/queue.ts:140`). By the same lists a command that waits for its first
  attempt is not found when it is to be removed or interrupted (`:200`, `:258`).
- Audit events that wait are lost at every exit: `flush()` and `cleanup()` have no caller.

Clients:
- A command that was killed is reported COMPLETED: its exit code is null, and `code || 0` is 0.
- A capture nobody reads takes 16 KB; then the child blocks on its pipe (`stream-capture.ts:113`).
- The headless wrapper's two managers leave two sockets, and the interactive client gives up without a word.
- The close of a replaced socket in the browser stops the timers of the one in use (`websocket.service.ts:412`); a
  disconnect during the handshake is followed by a reconnection, as the close code is 1006 (`:415`); the promise of a
  provider's failed opening never settles; retry timers outlive a sign-out (`websocket-provider.tsx:86`).
- Terminal history that arrives late is put behind the lines that came meanwhile (`terminal.store.ts:207`).

## 7. Plan

To model: the terminal view of the frontend, whose history and live lines meet in one buffer; the close of an agent's
old connection against the connect of its new one (`agent-handler.ts:895`), with what the row and the router keep of
each. With them, the invariants of AgentPresence that such a close can break would have to be weakened or proved anew.
