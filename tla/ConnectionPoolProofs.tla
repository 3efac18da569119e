------------------------ MODULE ConnectionPoolProofs ------------------------
(***************************************************************************)
(* For any connections and any number of PINGs that may be missed: silent  *)
(* and unauthenticated connections leave the pool in time, the prompt ones *)
(* are kept, and each connection behaves as Connections says.              *)
(***************************************************************************)
EXTENDS ConnectionPool, TLAPS

Open(c) == sock[c] = "open"

\* Ticks since the interval timers last came due.
SinceDue == IF phase < PingPeriod THEN phase ELSE phase - PingPeriod

\* Ticks since one of them last fired.
Since(timer) == IF timer \in due THEN PingPeriod ELSE SinceDue

(* Interval timers come due in their phases, and are not left behind.       *)
TimersInPhase ==
    /\ due # {} => up /\ SinceDue = 0
    /\ "cleanup" \in due => phase = 0

(* The deadline of a ping ends one tick after the ping.                     *)
DeadlinesInPhase(c) ==
    /\ ping[c].timeout = "set" => SinceDue = 0 /\ "ping" \notin due
    /\ ping[c].timeout = "due" => SinceDue = 1
    /\ health[c].check = "set" => SinceDue = 0 /\ "heartbeat" \notin due
    /\ health[c].check = "due" => SinceDue = 1

(* The socket, the pool's entry, the handler's record and the heartbeat's   *)
(* agree about a connection that is in the pool.                            *)
PartsAgree(c) ==
    /\ Open(c) => entry[c].inPool /\ left[c].close = CloseTimeout
    /\ entry[c].inPool =>
         /\ up /\ Listening(c)
         /\ entry[c].auth <=> Authenticated(c)
         /\ entry[c].auth <=> health[c].monitored
    /\ ~health[c].monitored => health[c] = NotMonitored
    /\ sock[c] = "new" =>
         /\ agent[c] = None /\ ping[c] = NoPing /\ health[c] = NotMonitored
         /\ left[c] = AllTime /\ silent[c] = 0

(* Three failed pings make an entry unhealthy, and the next clean-up takes  *)
(* it before there could be five.                                           *)
FailuresAreCleaned(c) ==
    entry[c].inPool =>
        /\ entry[c].failedPings >= 3 =>
             /\ entry[c].status = "unhealthy"
             /\ phase = 0 => "cleanup" \in due
             /\ phase = 1 => ping[c].timeout # "due"
        /\ entry[c].failedPings >= 4 =>
             /\ ping[c].timeout # "due"
             /\ phase \in {4, 5} \/ "cleanup" \in due
        /\ entry[c].failedPings <= 4

(* Until a connection has authenticated, its two time limits run.           *)
WaitsForAuth(c) ==
    entry[c].inPool /\ ~entry[c].auth =>
        /\ entry[c].age <= AuthTimeout + CloseTimeout - left[c].auth - left[c].close
        /\ silent[c] <= AuthTimeout + CloseTimeout - left[c].auth - left[c].close

(* Every PING since the peer was last heard counts as missed, and the       *)
(* deadline of the one that is too many is still to come.                   *)
SilenceIsCounted(c) ==
    entry[c].inPool /\ entry[c].auth =>
        /\ Open(c) =>
             /\ silent[c] <= PingPeriod * health[c].missedPings + Since("heartbeat")
             /\ health[c].answered => silent[c] <= Since("heartbeat")
             /\ \/ health[c].answered
                \/ health[c].missedPings < MaxMissedPings
                \/ health[c].check # "off"
             /\ silent[c] <= PingPeriod * MaxMissedPings + 1
             /\ health[c].check # "due" => silent[c] <= PingPeriod * MaxMissedPings
        /\ ~Open(c) => silent[c] <= SilenceLimit - left[c].close

(* What a peer that answers in time looks like: nothing against it, and the *)
(* answer it owes is still to come.                                         *)
PromptIsHealthy(c) ==
    Open(c) /\ prompt[c] =>
        /\ entry[c].failedPings = 0 /\ entry[c].status # "unhealthy"
        /\ ping[c].timeout # "due"
        /\ ping[c].timeout = "set" => owed[c].pongs > 0
        /\ health[c].answered \/ (health[c].check # "due" /\ owed[c].messages > 0)
        /\ entry[c].auth =>
             entry[c].idle <= (IF ping[c].timeout = "set" THEN PingPeriod ELSE Since("ping"))

ConnInv(c) ==
    /\ DeadlinesInPhase(c) /\ PartsAgree(c) /\ FailuresAreCleaned(c)
    /\ WaitsForAuth(c) /\ SilenceIsCounted(c) /\ PromptIsHealthy(c)

PoolInv == PoolTypeOK /\ TimersInPhase /\ \A c \in Conns : ConnInv(c)

-----------------------------------------------------------------------------
EntryRecord == [inPool : BOOLEAN, auth : BOOLEAN, status : Health,
                failedPings : 0..5, idle : 0..(IdleLimit + 1), age : 0..(AuthLimit + 1)]
PingRecord == [last : {"never", "fresh", "old"}, timeout : Timer]
HealthRecord == [monitored : BOOLEAN, missedPings : Nat, answered : BOOLEAN, check : Timer]
OwedRecord == [pongs : 0..MaxOwed, messages : 0..MaxOwed]
LeftRecord == [auth : 0..AuthTimeout, close : 0..CloseTimeout]

(* The state of one connection.                                             *)
ConnTypeOK(c) ==
    /\ sock[c] \in {"new", "open", "closing", "closed"}
    /\ entry[c] \in EntryRecord
    /\ agent[c] \in AgentIds \cup DashConns \cup {None}
    /\ ping[c] \in PingRecord
    /\ health[c] \in HealthRecord
    /\ owed[c] \in OwedRecord
    /\ left[c] \in LeftRecord
    /\ silent[c] \in 0..(SilenceLimit + 1)
    /\ prompt[c] \in BOOLEAN

AreFunctions ==
    /\ sock = [c \in Conns |-> sock[c]] /\ entry = [c \in Conns |-> entry[c]]
    /\ agent = [c \in Conns |-> agent[c]] /\ ping = [c \in Conns |-> ping[c]]
    /\ health = [c \in Conns |-> health[c]] /\ owed = [c \in Conns |-> owed[c]]
    /\ left = [c \in Conns |-> left[c]] /\ silent = [c \in Conns |-> silent[c]]
    /\ prompt = [c \in Conns |-> prompt[c]]

ClockTypeOK ==
    /\ phase \in 0..5 /\ due \subseteq {"ping", "heartbeat", "cleanup"} /\ up \in BOOLEAN

LEMMA TypeByConnection ==
    PoolTypeOK <=> AreFunctions /\ ClockTypeOK /\ \A c \in Conns : ConnTypeOK(c)
  <1>1. PoolTypeOK => AreFunctions /\ ClockTypeOK
    BY DEF PoolTypeOK, AreFunctions, ClockTypeOK, CleanupPeriod
  <1>2. PoolTypeOK => \A c \in Conns : ConnTypeOK(c)
    BY DEF PoolTypeOK, ConnTypeOK, EntryRecord, PingRecord, HealthRecord, OwedRecord, LeftRecord
  <1>3. AreFunctions /\ ClockTypeOK /\ (\A c \in Conns : ConnTypeOK(c)) => PoolTypeOK
    BY DEF PoolTypeOK, ConnTypeOK, AreFunctions, ClockTypeOK, CleanupPeriod,
           EntryRecord, PingRecord, HealthRecord, OwedRecord, LeftRecord
  <1>4. QED  BY <1>1, <1>2, <1>3

\* The same for the state after a step.
LEMMA TypeByConnectionNext ==
    AreFunctions' /\ ClockTypeOK' /\ (\A c \in Conns : ConnTypeOK(c)') => PoolTypeOK'
  BY DEF PoolTypeOK, ConnTypeOK, AreFunctions, ClockTypeOK, CleanupPeriod,
         EntryRecord, PingRecord, HealthRecord, OwedRecord, LeftRecord

Unmoved(d) ==
    /\ sock'[d] = sock[d] /\ entry'[d] = entry[d] /\ agent'[d] = agent[d]
    /\ ping'[d] = ping[d] /\ health'[d] = health[d] /\ owed'[d] = owed[d]
    /\ left'[d] = left[d] /\ silent'[d] = silent[d] /\ prompt'[d] = prompt[d]

LEMMA UnmovedKeeps ==
    ASSUME NEW d \in Conns, Unmoved(d), UNCHANGED <<phase, due, up>>
    PROVE  /\ ConnTypeOK(d) => ConnTypeOK(d)'
           /\ ConnInv(d) => ConnInv(d)'
  <1>1. ConnTypeOK(d) => ConnTypeOK(d)'
    BY DEF ConnTypeOK, Unmoved
  <1>2. ConnInv(d) => ConnInv(d)'
    BY DEF ConnInv, Unmoved, DeadlinesInPhase, PartsAgree, FailuresAreCleaned, WaitsForAuth,
           SilenceIsCounted, PromptIsHealthy, Open, SinceDue, Since, Listening, Authenticated
  <1>3. QED  BY <1>1, <1>2

(* Every step but the timers' is about one connection.                      *)
LEMMA OneConnectionMoves ==
    ASSUME PoolInv, NEW c \in Conns, UNCHANGED <<phase, due, up>>, AreFunctions',
           \A d \in Conns \ {c} : Unmoved(d),
           ConnTypeOK(c)', ConnInv(c)'
    PROVE  PoolInv'
  <1>1. ClockTypeOK' /\ TimersInPhase'
    BY TypeByConnection DEF PoolInv, ClockTypeOK, TimersInPhase, SinceDue
  <1>2. \A d \in Conns : ConnTypeOK(d)' /\ ConnInv(d)'
    BY UnmovedKeeps, TypeByConnection DEF PoolInv
  <1>3. PoolTypeOK'
    BY <1>1, <1>2, TypeByConnectionNext
  <1>4. QED  BY <1>1, <1>2, <1>3 DEF PoolInv

LEMMA InitIsSound == PoolInit => PoolInv
  <1> SUFFICES ASSUME PoolInit PROVE PoolInv
    OBVIOUS
  <1>1. AreFunctions /\ ClockTypeOK
    BY DEF PoolInit, AreFunctions, ClockTypeOK
  <1>2. SilenceLimit \in Nat
    BY PoolAssumption DEF SilenceLimit, PingPeriod, CloseTimeout
  <1>3. ASSUME NEW c \in Conns PROVE ConnTypeOK(c)
    BY <1>2, PoolAssumption
       DEF PoolInit, ConnTypeOK, EntryRecord, PingRecord, HealthRecord, OwedRecord, LeftRecord,
           NoEntry, NoPing, NotMonitored, NothingOwed, AllTime, Health, Timer, IdleLimit, AuthLimit,
       AuthTimeout, CloseTimeout
  <1>4. ASSUME NEW c \in Conns PROVE ConnInv(c)
    BY DEF PoolInit, ConnInv, DeadlinesInPhase, PartsAgree, FailuresAreCleaned, WaitsForAuth,
           SilenceIsCounted, PromptIsHealthy, Open, Listening, Authenticated,
           NoEntry, NoPing, NotMonitored
  <1>5. TimersInPhase
    BY DEF PoolInit, TimersInPhase
  <1>6. QED  BY <1>1, <1>3, <1>4, <1>5, TypeByConnection DEF PoolInv

-----------------------------------------------------------------------------
USE DEF PingPeriod, AuthTimeout, CloseTimeout, Open, Listening, Authenticated,
        NoPing, NotMonitored, AllTime, NothingOwed, NoEntry

LEMMA PoolFacts ==
    ASSUME PoolInv, NEW c \in Conns
    PROVE  /\ AreFunctions /\ ClockTypeOK /\ TimersInPhase /\ ConnTypeOK(c) /\ ConnInv(c)
           /\ SilenceLimit \in Nat /\ SilenceLimit = 3 * MaxMissedPings + 4
           /\ MaxMissedPings \in Nat /\ MaxMissedPings > 0
           /\ MaxOwed \in Nat /\ MaxOwed > 0
  BY TypeByConnection, PoolAssumption DEF PoolInv, SilenceLimit

LEMMA ClockFacts ==
    ASSUME PoolInv
    PROVE  /\ SinceDue \in 0..2
           /\ phase = 0 => SinceDue = 0
           /\ Since("ping") \in 0..3 /\ Since("heartbeat") \in 0..3
  BY TypeByConnection DEF PoolInv, TimersInPhase, SinceDue, Since, ClockTypeOK

LEMMA ClockStands ==
    ASSUME UNCHANGED <<phase, due, up>>
    PROVE  /\ SinceDue' = SinceDue
           /\ Since("ping")' = Since("ping") /\ Since("heartbeat")' = Since("heartbeat")
  BY DEF SinceDue, Since

(* What there is to count with.                                             *)
LEMMA Counters ==
    ASSUME PoolInv, NEW c \in Conns
    PROVE  /\ entry[c].failedPings \in 0..5 /\ entry[c].idle \in 0..10 /\ entry[c].age \in 0..7
           /\ entry[c].inPool \in BOOLEAN /\ entry[c].auth \in BOOLEAN
           /\ health[c].missedPings \in Nat /\ health[c].answered \in BOOLEAN
           /\ health[c].monitored \in BOOLEAN
           /\ owed[c].pongs \in 0..MaxOwed /\ owed[c].messages \in 0..MaxOwed
           /\ left[c].auth \in 0..3 /\ left[c].close \in 0..3
           /\ silent[c] \in 0..(SilenceLimit + 1) /\ prompt[c] \in BOOLEAN
           /\ phase \in 0..5
  BY PoolFacts DEF ConnTypeOK, EntryRecord, HealthRecord, OwedRecord, LeftRecord, ClockTypeOK,
     IdleLimit, AuthLimit

LEMMA Zeros == 0 \in 0..5 /\ 0 \in 0..(IdleLimit + 1) /\ 0 \in 0..(SilenceLimit + 1)
  BY PoolAssumption DEF IdleLimit, SilenceLimit

LEMMA RecordTypes ==
    ASSUME PoolInv, NEW c \in Conns
    PROVE  entry[c] \in EntryRecord /\ ping[c] \in PingRecord /\ health[c] \in HealthRecord
           /\ owed[c] \in OwedRecord
  BY PoolFacts DEF ConnTypeOK

LEMMA Fresh ==
    /\ NoEntry \in EntryRecord /\ NewEntry \in EntryRecord /\ NoPing \in PingRecord
    /\ NotMonitored \in HealthRecord /\ Monitored \in HealthRecord
    /\ NothingOwed \in OwedRecord /\ AllTime \in LeftRecord
  <1>1. NoEntry \in EntryRecord
    BY DEF EntryRecord, Health, IdleLimit, AuthLimit
  <1>2. NewEntry \in EntryRecord
    BY <1>1 DEF NewEntry, EntryRecord
  <1>3. NoPing \in PingRecord
    BY DEF PingRecord, Timer
  <1>4. NotMonitored \in HealthRecord /\ Monitored \in HealthRecord
    BY DEF HealthRecord, Monitored, Timer
  <1>5. NothingOwed \in OwedRecord
    BY PoolAssumption DEF OwedRecord
  <1>6. AllTime \in LeftRecord
    BY DEF LeftRecord
  <1>7. QED  BY <1>1, <1>2, <1>3, <1>4, <1>5, <1>6

LEMMA OneLess ==
    ASSUME NEW n \in 0..MaxOwed, n > 0
    PROVE  n - 1 \in 0..MaxOwed
  <1>1. MaxOwed \in Nat  BY PoolAssumption
  <1>2. QED  BY <1>1

LEMMA AddConnectionKeeps ==
    ASSUME PoolInv, NEW c \in Conns, AddConnection(c)
    PROVE  PoolInv'
  <1>1. UNCHANGED <<phase, due, up>>
    BY DEF AddConnection
  <1>2. AreFunctions' /\ \A d \in Conns \ {c} : Unmoved(d)
    BY PoolFacts DEF AddConnection, NewEntry, AreFunctions, Unmoved
  <1>3. /\ sock'[c] = "open"
        /\ entry'[c] = NewEntry
        /\ agent'[c] = agent[c]
        /\ ping'[c] = ping[c]
        /\ health'[c] = health[c]
        /\ owed'[c] = owed[c]
        /\ left'[c] = left[c]
        /\ silent'[c] = silent[c]
        /\ prompt'[c] = prompt[c]
    BY PoolFacts DEF AddConnection, AreFunctions
  <1>4. ConnTypeOK(c)'
    BY <1>3, PoolFacts, Zeros, Fresh DEF AddConnection, ConnTypeOK
  <1>5. DeadlinesInPhase(c)' /\ PartsAgree(c)' /\ FailuresAreCleaned(c)'
    BY <1>1, <1>3, PoolFacts, Counters, ClockFacts, ClockStands
       DEF AddConnection, NewEntry, ConnInv, DeadlinesInPhase, PartsAgree,
           FailuresAreCleaned
  <1>6. WaitsForAuth(c)' /\ SilenceIsCounted(c)'
    BY <1>1, <1>3, PoolFacts, Counters, ClockFacts, ClockStands
       DEF AddConnection, NewEntry, ConnInv, DeadlinesInPhase, PartsAgree, WaitsForAuth,
           SilenceIsCounted
  <1>7. PromptIsHealthy(c)'
    BY <1>1, <1>3, PoolFacts, Counters, ClockFacts, ClockStands
       DEF AddConnection, NewEntry, ConnInv, DeadlinesInPhase, PartsAgree, PromptIsHealthy
  <1>8. QED
    BY <1>1, <1>2, <1>4, <1>5, <1>6, <1>7, OneConnectionMoves DEF ConnInv

LEMMA ActivityKeeps ==
    ASSUME PoolInv, NEW c \in Conns, PeerSpeaks(c) \/ ServerSends(c)
    PROVE  PoolInv'
  <1>1. UNCHANGED <<phase, due, up>>
    BY DEF PeerSpeaks, ServerSends
  <1>2. AreFunctions' /\ \A d \in Conns \ {c} : Unmoved(d)
    BY PoolFacts DEF PeerSpeaks, ServerSends, Active, AreFunctions, Unmoved
  <1>3. /\ sock'[c] = sock[c]
        /\ entry'[c] = IF entry[c].inPool THEN [entry[c] EXCEPT !.idle = 0] ELSE entry[c]
        /\ agent'[c] = agent[c]
        /\ ping'[c] = ping[c]
        /\ health'[c] = health[c]
        /\ owed'[c] = owed[c]
        /\ left'[c] = left[c]
        /\ silent'[c] \in {0, silent[c]}
        /\ prompt'[c] = prompt[c]
    BY PoolFacts DEF PeerSpeaks, ServerSends, Active, AreFunctions
  <1>4. ConnTypeOK(c)'
    <2>1. entry'[c] \in EntryRecord
      BY <1>3, RecordTypes, Zeros DEF EntryRecord
    <2>2. QED  BY <1>3, <2>1, PoolFacts, Zeros DEF ConnTypeOK
  <1>5. /\ entry'[c].inPool = entry[c].inPool
        /\ entry'[c].auth = entry[c].auth
        /\ entry'[c].status = entry[c].status
        /\ entry'[c].failedPings = entry[c].failedPings
        /\ entry'[c].idle = IF entry[c].inPool THEN 0 ELSE entry[c].idle
        /\ entry'[c].age = entry[c].age
    BY <1>3, PoolFacts
       DEF ConnTypeOK, EntryRecord, PingRecord, HealthRecord, OwedRecord
  <1>6. DeadlinesInPhase(c)' /\ PartsAgree(c)' /\ FailuresAreCleaned(c)'
    BY <1>1, <1>3, <1>5, PoolFacts, Counters, ClockFacts, ClockStands
       DEF ConnInv, DeadlinesInPhase, PartsAgree,
           FailuresAreCleaned
  <1>7. WaitsForAuth(c)' /\ SilenceIsCounted(c)'
    <2>1. CASE silent'[c] = silent[c]
      BY <1>1, <1>3, <1>5, <2>1, PoolFacts, ClockStands
         DEF ConnInv, WaitsForAuth, SilenceIsCounted
    <2>2. CASE silent'[c] = 0
      <3>1. WaitsForAuth(c)'
        BY <1>3, <1>5, <2>2, PoolFacts, Counters DEF ConnInv, WaitsForAuth
      <3>2. SilenceIsCounted(c)'
        BY <1>1, <1>3, <1>5, <2>2, PoolFacts, Counters, ClockFacts, ClockStands
           DEF ConnInv, SilenceIsCounted
      <3>3. QED  BY <3>1, <3>2
    <2>3. QED  BY <1>3, <2>1, <2>2
  <1>8. PromptIsHealthy(c)'
    <2>1. Open(c) => entry'[c].idle = 0
      BY <1>5, PoolFacts DEF ConnInv, PartsAgree
    <2>2. 0 <= Since("ping")' /\ 0 <= PingPeriod
      BY <1>1, ClockFacts, ClockStands
    <2>3. QED
      BY <1>3, <1>5, <2>1, <2>2, PoolFacts DEF ConnInv, PromptIsHealthy
  <1>9. QED
    BY <1>1, <1>2, <1>4, <1>6, <1>7, <1>8, OneConnectionMoves DEF ConnInv

LEMMA ClosingKeeps ==
    ASSUME PoolInv, NEW c \in Conns, AuthTimesOut(c) \/ PeerCloses(c) \/ SocketError(c)
    PROVE  PoolInv'
  <1>1. UNCHANGED <<phase, due, up>>
    BY DEF AuthTimesOut, PeerCloses, SocketError
  <1>2. AreFunctions' /\ \A d \in Conns \ {c} : Unmoved(d)
    BY PoolFacts DEF AuthTimesOut, PeerCloses, SocketError, AreFunctions, Unmoved
  <1>3. /\ sock'[c] = "closing"
        /\ entry'[c] = entry[c] \/ entry'[c] = [entry[c] EXCEPT !.status = "unhealthy"]
        /\ agent'[c] = agent[c]
        /\ ping'[c] = ping[c]
        /\ health'[c] = health[c]
        /\ owed'[c] = owed[c]
        /\ left'[c] = left[c]
        /\ silent'[c] = silent[c]
        /\ prompt'[c] = prompt[c]
    BY PoolFacts DEF AuthTimesOut, PeerCloses, SocketError, AreFunctions
  <1>4. ConnTypeOK(c)'
    <2>0. "unhealthy" \in Health  BY DEF Health
    <2>1. entry'[c] \in EntryRecord
      BY <1>3, <2>0, RecordTypes DEF EntryRecord
    <2>2. QED  BY <1>3, <2>1, PoolFacts, Zeros DEF ConnTypeOK
  <1>5. /\ entry'[c].inPool = entry[c].inPool
        /\ entry'[c].auth = entry[c].auth
        /\ entry'[c].status \in {entry[c].status, "unhealthy"}
        /\ entry'[c].failedPings = entry[c].failedPings
        /\ entry'[c].idle = entry[c].idle
        /\ entry'[c].age = entry[c].age
    BY <1>3, PoolFacts
       DEF ConnTypeOK, EntryRecord, PingRecord, HealthRecord, OwedRecord
  <1>6. DeadlinesInPhase(c)' /\ PartsAgree(c)' /\ FailuresAreCleaned(c)'
    BY <1>1, <1>3, <1>5, PoolFacts, Counters, ClockFacts, ClockStands
       DEF ConnInv, DeadlinesInPhase, PartsAgree,
           FailuresAreCleaned
  <1>7. WaitsForAuth(c)' /\ SilenceIsCounted(c)'
    BY <1>1, <1>3, <1>5, PoolFacts, Counters, ClockFacts, ClockStands
       DEF ConnInv, DeadlinesInPhase, PartsAgree,
           WaitsForAuth, SilenceIsCounted
  <1>8. PromptIsHealthy(c)'
    BY <1>1, <1>3, <1>5, PoolFacts, Counters, ClockFacts, ClockStands
       DEF ConnInv, DeadlinesInPhase, PartsAgree,
           PromptIsHealthy
  <1>9. QED
    BY <1>1, <1>2, <1>4, <1>6, <1>7, <1>8, OneConnectionMoves DEF ConnInv

LEMMA SocketClosedKeeps ==
    ASSUME PoolInv, NEW c \in Conns, SocketClosed(c)
    PROVE  PoolInv'
  <1>1. UNCHANGED <<phase, due, up>>
    BY DEF SocketClosed
  <1>2. AreFunctions' /\ \A d \in Conns \ {c} : Unmoved(d)
    BY PoolFacts DEF SocketClosed, RemoveConnection, AreFunctions, Unmoved
  <1>3. /\ sock'[c] = "closed"
        /\ entry'[c] = NoEntry
        /\ agent'[c] = None
        /\ ping'[c] = NoPing
        /\ health'[c] = NotMonitored
        /\ owed'[c] = NothingOwed
        /\ left'[c] = AllTime
        /\ silent'[c] = 0
        /\ prompt'[c] = TRUE
    BY PoolFacts DEF SocketClosed, RemoveConnection, AreFunctions
  <1>4. ConnTypeOK(c)'
    BY <1>3, PoolFacts, Zeros, Fresh DEF SocketClosed, ConnTypeOK
  <1>5. DeadlinesInPhase(c)' /\ PartsAgree(c)' /\ FailuresAreCleaned(c)'
    BY <1>1, <1>3, PoolFacts, Counters, ClockFacts, ClockStands
       DEF ConnInv, DeadlinesInPhase, PartsAgree, FailuresAreCleaned
  <1>6. WaitsForAuth(c)' /\ SilenceIsCounted(c)'
    BY <1>1, <1>3, PoolFacts, Counters, ClockFacts, ClockStands
       DEF ConnInv, DeadlinesInPhase, PartsAgree, WaitsForAuth,
           SilenceIsCounted
  <1>7. PromptIsHealthy(c)'
    BY <1>1, <1>3, PoolFacts, Counters, ClockFacts, ClockStands
       DEF ConnInv, DeadlinesInPhase, PartsAgree, PromptIsHealthy
  <1>8. QED
    BY <1>1, <1>2, <1>4, <1>5, <1>6, <1>7, OneConnectionMoves DEF ConnInv

LEMMA RecordPongKeeps ==
    ASSUME PoolInv, NEW c \in Conns, RecordPong(c)
    PROVE  PoolInv'
  <1> DEFINE fewer == IF health[c].missedPings = 0 THEN 0 ELSE health[c].missedPings - 1
  <1>1. UNCHANGED <<phase, due, up>>
    BY DEF RecordPong
  <1>2. AreFunctions' /\ \A d \in Conns \ {c} : Unmoved(d)
    BY PoolFacts DEF RecordPong, Active, AreFunctions, Unmoved
  <1>3. /\ sock'[c] = sock[c] /\ agent'[c] = agent[c] /\ ping'[c] = ping[c]
        /\ left'[c] = left[c] /\ silent'[c] = 0 /\ prompt'[c] = prompt[c]
        /\ Listening(c)
    BY PoolFacts DEF RecordPong, AreFunctions
  <1>4. entry'[c] = IF entry[c].inPool THEN [entry[c] EXCEPT !.idle = 0] ELSE entry[c]
    BY PoolFacts DEF RecordPong, Active, AreFunctions
  <1>5. health'[c] = IF health[c].monitored
                     THEN [health[c] EXCEPT !.missedPings = fewer, !.answered = TRUE]
                     ELSE health[c]
    BY PoolFacts DEF RecordPong, AreFunctions
  <1>6. owed[c].messages > 0 /\ owed'[c] = [owed[c] EXCEPT !.messages = owed[c].messages - 1]
    BY PoolFacts DEF RecordPong, AreFunctions
  <1>7. fewer \in Nat /\ fewer <= health[c].missedPings /\ health[c].missedPings <= fewer + 1
    BY Counters
  <1> HIDE DEF fewer
  <1>8. ConnTypeOK(c)'
    <2>1. entry'[c] \in EntryRecord
      BY <1>4, RecordTypes, Zeros DEF EntryRecord
    <2>2. health'[c] \in HealthRecord
      BY <1>5, <1>7, RecordTypes DEF HealthRecord
    <2>3. owed[c].messages - 1 \in 0..MaxOwed
      BY <1>6, OneLess, Counters
    <2>4. owed'[c] \in OwedRecord
      BY <1>6, <2>3, RecordTypes DEF OwedRecord
    <2>5. QED  BY <1>3, <2>1, <2>2, <2>4, PoolFacts, Zeros DEF ConnTypeOK
  <1>9. /\ entry'[c].inPool = entry[c].inPool /\ entry'[c].auth = entry[c].auth
        /\ entry'[c].status = entry[c].status /\ entry'[c].age = entry[c].age
        /\ entry'[c].failedPings = entry[c].failedPings
        /\ entry'[c].idle = IF entry[c].inPool THEN 0 ELSE entry[c].idle
    BY <1>4, RecordTypes DEF EntryRecord
  <1>10. /\ health'[c].monitored = health[c].monitored /\ health'[c].check = health[c].check
         /\ health[c].monitored => health'[c].missedPings = fewer /\ health'[c].answered
         /\ ~health[c].monitored => health'[c] = health[c]
    BY <1>5, RecordTypes DEF HealthRecord
  <1>11. owed'[c].pongs = owed[c].pongs
    BY <1>6, RecordTypes DEF OwedRecord
  <1>12. DeadlinesInPhase(c)' /\ PartsAgree(c)' /\ FailuresAreCleaned(c)'
    BY <1>1, <1>3, <1>9, <1>10, PoolFacts, ClockStands
       DEF ConnInv, DeadlinesInPhase, PartsAgree, FailuresAreCleaned
  <1>13. WaitsForAuth(c)' /\ SilenceIsCounted(c)'
    BY <1>1, <1>3, <1>7, <1>9, <1>10, PoolFacts, Counters, ClockFacts, ClockStands
       DEF ConnInv, PartsAgree, WaitsForAuth, SilenceIsCounted
  <1>14. PromptIsHealthy(c)'
    <2>1. health'[c].answered
      BY <1>10, PoolFacts DEF ConnInv, PartsAgree
    <2>2. Open(c) => entry'[c].idle = 0
      BY <1>9, PoolFacts DEF ConnInv, PartsAgree
    <2>3. entry'[c].idle = 0 => entry'[c].idle <= Since("ping")' /\ entry'[c].idle <= PingPeriod
      BY <1>1, ClockFacts, ClockStands
    <2>4. QED
      BY <1>3, <1>9, <1>11, <2>1, <2>2, <2>3, PoolFacts DEF ConnInv, PromptIsHealthy
  <1>15. QED
    BY <1>1, <1>2, <1>8, <1>12, <1>13, <1>14, OneConnectionMoves DEF ConnInv

LEMMA CheckPongTimeoutKeeps ==
    ASSUME PoolInv, NEW c \in Conns, CheckPongTimeout(c)
    PROVE  PoolInv'
  <1>1. UNCHANGED <<phase, due, up>>
    BY DEF CheckPongTimeout
  <1>2. AreFunctions' /\ \A d \in Conns \ {c} : Unmoved(d)
    BY PoolFacts DEF CheckPongTimeout, AreFunctions, Unmoved
  <1>3. /\ sock'[c] = IF TimedOut(c) /\ sock[c] = "open" THEN "closing" ELSE sock[c]
        /\ entry'[c] = entry[c]
        /\ agent'[c] = agent[c]
        /\ ping'[c] = ping[c]
        /\ health'[c] = [health[c] EXCEPT !.check = "off"]
        /\ owed'[c] = owed[c]
        /\ left'[c] = left[c]
        /\ silent'[c] = silent[c]
        /\ prompt'[c] = prompt[c]
    BY PoolFacts DEF CheckPongTimeout, AreFunctions
  <1>4. ConnTypeOK(c)'
    <2>1. health'[c] \in HealthRecord
      BY <1>3, RecordTypes DEF HealthRecord, Timer
    <2>2. QED  BY <1>3, <2>1, PoolFacts DEF ConnTypeOK
  <1>5. /\ health'[c].monitored = health[c].monitored
        /\ health'[c].missedPings = health[c].missedPings
        /\ health'[c].answered = health[c].answered
        /\ health'[c].check = "off"
    BY <1>3, PoolFacts
       DEF ConnTypeOK, EntryRecord, PingRecord, HealthRecord, OwedRecord
  <1>6. DeadlinesInPhase(c)' /\ PartsAgree(c)' /\ FailuresAreCleaned(c)'
    BY <1>1, <1>3, <1>5, PoolFacts, Counters, ClockFacts, ClockStands
       DEF CheckPongTimeout, TimedOut, ConnInv, DeadlinesInPhase, PartsAgree,
           FailuresAreCleaned
  <1>7. WaitsForAuth(c)' /\ SilenceIsCounted(c)'
    BY <1>1, <1>3, <1>5, PoolFacts, Counters, ClockFacts, ClockStands
       DEF CheckPongTimeout, TimedOut, ConnInv, DeadlinesInPhase, PartsAgree, WaitsForAuth,
           SilenceIsCounted
  <1>8. PromptIsHealthy(c)'
    BY <1>1, <1>3, <1>5, PoolFacts, Counters, ClockFacts, ClockStands
       DEF CheckPongTimeout, TimedOut, ConnInv, DeadlinesInPhase, PartsAgree,
           PromptIsHealthy
  <1>9. QED
    BY <1>1, <1>2, <1>4, <1>6, <1>7, <1>8, OneConnectionMoves DEF ConnInv

LEMMA HandlePongKeeps ==
    ASSUME PoolInv, NEW c \in Conns, HandlePong(c)
    PROVE  PoolInv'
  <1>1. UNCHANGED <<phase, due, up>>
    BY DEF HandlePong
  <1>2. AreFunctions' /\ \A d \in Conns \ {c} : Unmoved(d)
    BY PoolFacts DEF HandlePong, AreFunctions, Unmoved
  <1>3. /\ sock'[c] = sock[c] /\ agent'[c] = agent[c] /\ health'[c] = health[c]
        /\ left'[c] = left[c] /\ silent'[c] = 0 /\ Listening(c)
    BY PoolFacts DEF HandlePong, AreFunctions
  <1>4. owed[c].pongs > 0 /\ owed'[c] = [owed[c] EXCEPT !.pongs = owed[c].pongs - 1]
    BY PoolFacts DEF HandlePong, AreFunctions
  <1>5. owed'[c] \in OwedRecord /\ owed'[c].messages = owed[c].messages
    <2>1. owed[c].pongs - 1 \in 0..MaxOwed
      BY <1>4, OneLess, Counters
    <2>2. QED  BY <1>4, <2>1, RecordTypes DEF OwedRecord
  <1>6. CASE entry[c].inPool
    <2>1. PICK status \in Health :
            /\ entry' = [entry EXCEPT ![c].status = status, ![c].failedPings = 0, ![c].idle = 0]
            /\ prompt' = [prompt EXCEPT ![c] = @ /\ status # "unhealthy"]
            /\ ping' = [ping EXCEPT ![c].timeout = "off"]
      BY <1>6 DEF HandlePong, Health
    <2>2. /\ entry'[c] = [entry[c] EXCEPT !.status = status, !.failedPings = 0, !.idle = 0]
          /\ ping'[c] = [ping[c] EXCEPT !.timeout = "off"]
          /\ prompt'[c] = (prompt[c] /\ status # "unhealthy")
      BY <2>1, PoolFacts DEF AreFunctions
    <2>3. entry'[c] \in EntryRecord
      BY <2>2, RecordTypes, Zeros DEF EntryRecord
    <2>4. ping'[c] \in PingRecord
      BY <2>2, RecordTypes DEF PingRecord, Timer
    <2>5. prompt'[c] \in BOOLEAN /\ (prompt'[c] => prompt[c] /\ status # "unhealthy")
      BY <2>2
    <2>6. ConnTypeOK(c)'
      BY <1>3, <1>5, <2>3, <2>4, <2>5, PoolFacts, Zeros DEF ConnTypeOK
    <2>7. /\ entry'[c].inPool = entry[c].inPool /\ entry'[c].auth = entry[c].auth
          /\ entry'[c].status = status /\ entry'[c].age = entry[c].age
          /\ entry'[c].failedPings = 0 /\ entry'[c].idle = 0
      BY <2>2, RecordTypes DEF EntryRecord
    <2>8. ping'[c].timeout = "off"
      BY <2>2, RecordTypes DEF PingRecord
    <2>9. DeadlinesInPhase(c)' /\ PartsAgree(c)' /\ FailuresAreCleaned(c)'
      BY <1>1, <1>3, <2>7, <2>8, PoolFacts, ClockStands
         DEF ConnInv, DeadlinesInPhase, PartsAgree, FailuresAreCleaned
    <2>10. WaitsForAuth(c)' /\ SilenceIsCounted(c)'
      BY <1>1, <1>3, <2>7, PoolFacts, Counters, ClockFacts, ClockStands
         DEF ConnInv, WaitsForAuth, SilenceIsCounted
    <2>11. PromptIsHealthy(c)'
      <3>1. SUFFICES ASSUME Open(c)', prompt'[c]
                     PROVE  PromptIsHealthy(c)'
        BY DEF PromptIsHealthy
      <3>2. Open(c) /\ prompt[c] /\ status # "unhealthy"
        BY <1>3, <2>5, <3>1
      <3>3. health'[c].answered \/ (health'[c].check # "due" /\ owed'[c].messages > 0)
        BY <1>3, <1>5, <3>2, PoolFacts DEF ConnInv, PromptIsHealthy
      <3>4. entry'[c].idle <= Since("ping")'
        BY <1>1, <2>7, ClockFacts, ClockStands
      <3>5. QED  BY <2>7, <2>8, <3>2, <3>3, <3>4 DEF PromptIsHealthy
    <2>12. QED
      BY <1>1, <1>2, <2>6, <2>9, <2>10, <2>11, OneConnectionMoves DEF ConnInv
  <1>7. CASE ~entry[c].inPool
    <2>1. entry'[c] = entry[c] /\ ping'[c] = ping[c] /\ prompt'[c] = prompt[c]
      BY <1>7 DEF HandlePong
    <2>2. ConnTypeOK(c)'
      BY <1>3, <1>5, <2>1, PoolFacts, Zeros DEF ConnTypeOK
    <2>3. ConnInv(c)'
      BY <1>1, <1>3, <1>7, <2>1, PoolFacts, ClockStands
         DEF ConnInv, DeadlinesInPhase, PartsAgree, FailuresAreCleaned, WaitsForAuth,
             SilenceIsCounted, PromptIsHealthy
    <2>4. QED  BY <1>1, <1>2, <2>2, <2>3, OneConnectionMoves
  <1>8. QED  BY <1>6, <1>7

LEMMA HandlePingTimeoutKeeps ==
    ASSUME PoolInv, NEW c \in Conns, HandlePingTimeout(c)
    PROVE  PoolInv'
  <1> DEFINE failed == entry[c].failedPings + 1
             status == IF failed >= 3 THEN "unhealthy"
                       ELSE IF failed = 2 THEN "degraded" ELSE entry[c].status
  <1>1. UNCHANGED <<phase, due, up>> /\ ping[c].timeout = "due"
    BY DEF HandlePingTimeout
  <1>2. AreFunctions' /\ \A d \in Conns \ {c} : Unmoved(d)
    <2>1. \E s : entry' = IF entry[c].inPool
                         THEN [entry EXCEPT ![c].failedPings = failed, ![c].status = s]
                         ELSE entry
      BY DEF HandlePingTimeout
    <2>2. entry' = [d \in Conns |-> entry'[d]] /\ \A d \in Conns \ {c} : entry'[d] = entry[d]
      BY <2>1, PoolFacts DEF AreFunctions
    <2>3. sock' = sock \/ sock' = [sock EXCEPT ![c] = "closing"]
      BY DEF HandlePingTimeout
    <2>4. UNCHANGED <<agent, health, owed, left, silent, prompt>>
          /\ ping' = [ping EXCEPT ![c].timeout = "off"]
      BY DEF HandlePingTimeout
    <2>5. QED  BY <2>2, <2>3, <2>4, PoolFacts DEF AreFunctions, Unmoved
  <1>3. /\ agent'[c] = agent[c] /\ health'[c] = health[c] /\ owed'[c] = owed[c]
        /\ left'[c] = left[c] /\ silent'[c] = silent[c] /\ prompt'[c] = prompt[c]
        /\ ping'[c] = [ping[c] EXCEPT !.timeout = "off"]
    BY PoolFacts DEF HandlePingTimeout, AreFunctions
  <1>4. ping'[c] \in PingRecord /\ ping'[c].timeout = "off"
    BY <1>3, RecordTypes DEF PingRecord, Timer
  <1>5. CASE entry[c].inPool
    <2>1. failed \in 1..4 /\ failed \in 0..5 /\ status \in Health
      BY <1>1, <1>5, PoolFacts, Counters, RecordTypes
         DEF ConnInv, FailuresAreCleaned, EntryRecord, Health
    <2>2. status = CASE failed >= 3 -> "unhealthy" [] failed = 2 -> "degraded"
                     [] OTHER -> entry[c].status
      BY <2>1
    <2>3. entry' = [entry EXCEPT ![c].failedPings = failed, ![c].status = status]
      BY <1>5, <2>2 DEF HandlePingTimeout
    <2>4. sock'[c] = sock[c]
      BY <1>5, <2>1 DEF HandlePingTimeout
    <2>5. entry'[c] = [entry[c] EXCEPT !.failedPings = failed, !.status = status]
      BY <2>3, PoolFacts DEF AreFunctions
    <2>6. status # "unhealthy" => failed < 3
      BY <2>1
    <2> HIDE DEF failed, status
    <2>7. entry'[c] \in EntryRecord
      BY <2>1, <2>5, RecordTypes DEF EntryRecord
    <2>8. ConnTypeOK(c)'
      BY <1>3, <1>4, <2>4, <2>7, PoolFacts DEF ConnTypeOK
    <2>9. /\ entry'[c].inPool = entry[c].inPool /\ entry'[c].auth = entry[c].auth
          /\ entry'[c].status = status /\ entry'[c].age = entry[c].age
          /\ entry'[c].failedPings = failed /\ entry'[c].idle = entry[c].idle
      BY <2>5, RecordTypes DEF EntryRecord
    <2>10. DeadlinesInPhase(c)' /\ PartsAgree(c)'
      BY <1>1, <1>3, <1>4, <2>4, <2>9, PoolFacts, ClockStands
         DEF ConnInv, DeadlinesInPhase, PartsAgree
    <2>11. FailuresAreCleaned(c)'
      BY <1>1, <1>4, <1>5, <2>1, <2>6, <2>9, PoolFacts, Counters DEF ConnInv,
         DeadlinesInPhase, FailuresAreCleaned, SinceDue, failed
    <2>12. WaitsForAuth(c)' /\ SilenceIsCounted(c)'
      BY <1>1, <1>3, <2>4, <2>9, PoolFacts, ClockStands
         DEF ConnInv, WaitsForAuth, SilenceIsCounted
    <2>13. PromptIsHealthy(c)'
      BY <1>1, <1>3, <2>4, PoolFacts DEF ConnInv, PromptIsHealthy
    <2>14. QED
      BY <1>1, <1>2, <2>8, <2>10, <2>11, <2>12, <2>13, OneConnectionMoves DEF ConnInv
  <1>6. CASE ~entry[c].inPool
    <2>1. entry'[c] = entry[c] /\ sock'[c] = sock[c]
      BY <1>6 DEF HandlePingTimeout
    <2>2. ConnTypeOK(c)'
      BY <1>3, <1>4, <2>1, PoolFacts DEF ConnTypeOK
    <2>3. ConnInv(c)'
      BY <1>1, <1>3, <1>4, <1>6, <2>1, PoolFacts, ClockStands
         DEF ConnInv, DeadlinesInPhase, PartsAgree, FailuresAreCleaned, WaitsForAuth,
             SilenceIsCounted, PromptIsHealthy
    <2>4. QED  BY <1>1, <1>2, <2>2, <2>3, OneConnectionMoves
  <1>7. QED  BY <1>5, <1>6

LEMMA AuthenticateKeeps ==
    ASSUME PoolInv, NEW c \in Conns, NEW a \in AgentIds \cup {c}, Authenticate(c, a)
    PROVE  PoolInv'
  <1>0. a # None /\ a \in AgentIds \cup DashConns
    BY PoolAssumption DEF Authenticate, Conns
  <1>1. UNCHANGED <<phase, due, up>>
    BY DEF Authenticate
  <1>2. AreFunctions' /\ \A d \in Conns \ {c} : Unmoved(d)
    BY <1>0, PoolFacts DEF Authenticate, UpdateConnection, AreFunctions, Unmoved
  <1>3. /\ sock'[c] = sock[c]
        /\ entry'[c] = IF entry[c].inPool
                       THEN [entry[c] EXCEPT !.auth = TRUE, !.idle = 0] ELSE entry[c]
        /\ agent'[c] = a
        /\ ping'[c] = ping[c]
        /\ health'[c] = IF health[c].monitored THEN health[c] ELSE Monitored
        /\ owed'[c] = owed[c]
        /\ left'[c] = left[c]
        /\ silent'[c] = 0
        /\ prompt'[c] = prompt[c]
    BY <1>0, PoolFacts DEF Authenticate, UpdateConnection, AreFunctions
  <1>4. ConnTypeOK(c)'
    <2>1. entry'[c] \in EntryRecord
      BY <1>3, RecordTypes, Zeros DEF EntryRecord
    <2>2. QED  BY <1>0, <1>3, <2>1, PoolFacts, Zeros, Fresh DEF ConnTypeOK
  <1>5. /\ entry'[c].inPool = entry[c].inPool
        /\ entry'[c].auth = IF entry[c].inPool THEN TRUE ELSE entry[c].auth
        /\ entry'[c].status = entry[c].status
        /\ entry'[c].failedPings = entry[c].failedPings
        /\ entry'[c].idle = IF entry[c].inPool THEN 0 ELSE entry[c].idle
        /\ entry'[c].age = entry[c].age
    BY <1>0, <1>3, PoolFacts
       DEF ConnTypeOK, EntryRecord, PingRecord, HealthRecord, OwedRecord
  <1>6. DeadlinesInPhase(c)' /\ PartsAgree(c)' /\ FailuresAreCleaned(c)'
    BY <1>0, <1>5, <1>1, <1>3, PoolFacts, Counters, ClockFacts, ClockStands
       DEF Authenticate, Monitored, ConnInv, DeadlinesInPhase, PartsAgree,
           FailuresAreCleaned
  <1>7. WaitsForAuth(c)' /\ SilenceIsCounted(c)'
    BY <1>0, <1>5, <1>1, <1>3, PoolFacts, Counters, ClockFacts, ClockStands
       DEF Authenticate, Monitored, ConnInv, DeadlinesInPhase, PartsAgree, WaitsForAuth,
           SilenceIsCounted
  <1>8. PromptIsHealthy(c)'
    BY <1>0, <1>5, <1>1, <1>3, PoolFacts, Counters, ClockFacts, ClockStands
       DEF Authenticate, Monitored, ConnInv, DeadlinesInPhase, PartsAgree, PromptIsHealthy
  <1>9. QED
    BY <1>1, <1>2, <1>4, <1>6, <1>7, <1>8, OneConnectionMoves DEF ConnInv

-----------------------------------------------------------------------------
(* The interval timers and the shutdown are about every connection.         *)
LEMMA AllMove ==
    ASSUME AreFunctions', ClockTypeOK', TimersInPhase',
           \A c \in Conns : ConnTypeOK(c)' /\ ConnInv(c)'
    PROVE  PoolInv'
  BY TypeByConnectionNext DEF PoolInv

LEMMA UpToBound ==
    ASSUME NEW limit \in Nat, NEW n \in 0..limit
    PROVE  /\ UpTo(limit, n) \in 0..limit /\ UpTo(limit, n) <= n + 1
           /\ limit > 0 => UpTo(limit, n) > 0
  BY DEF UpTo

LEMMA HealthChecksKeep ==
    ASSUME PoolInv, PerformHealthChecks
    PROVE  PoolInv'
  <1>1. /\ UNCHANGED <<sock, entry, agent, health, left, phase, up, silent, prompt>>
        /\ "ping" \in due /\ due' = due \ {"ping"}
    BY DEF PerformHealthChecks
  <1>2. AreFunctions'
    BY <1>1, TypeByConnection DEF PoolInv, PerformHealthChecks, AreFunctions
  <1>3. ClockTypeOK' /\ TimersInPhase'
    BY <1>1, TypeByConnection DEF PoolInv, ClockTypeOK, TimersInPhase, SinceDue
  <1>4. /\ SinceDue' = SinceDue /\ SinceDue = 0
        /\ Since("heartbeat")' = Since("heartbeat") /\ Since("ping") = 3
    BY <1>1 DEF PoolInv, TimersInPhase, SinceDue, Since
  <1>5. ASSUME NEW c \in Conns
        PROVE  ConnTypeOK(c)' /\ ConnInv(c)'
    <2>1. CASE entry[c].inPool /\ entry[c].auth
      <3>1. ping'[c] = [last |-> "fresh", timeout |-> "set"]
        BY <2>1 DEF PerformHealthChecks
      <3>2. owed'[c] = IF sock[c] = "open"
                       THEN [owed[c] EXCEPT !.pongs = UpTo(MaxOwed, owed[c].pongs)] ELSE owed[c]
        BY <2>1 DEF PerformHealthChecks
      <3>3. UpTo(MaxOwed, owed[c].pongs) \in 0..MaxOwed /\ UpTo(MaxOwed, owed[c].pongs) > 0
        BY PoolFacts, Counters, UpToBound
      <3>4. /\ owed'[c] \in OwedRecord /\ owed'[c].messages = owed[c].messages
            /\ sock[c] = "open" => owed'[c].pongs > 0
        BY <3>2, <3>3, RecordTypes DEF OwedRecord
      <3>5. ping'[c] \in PingRecord /\ ping'[c].timeout = "set"
        BY <3>1 DEF PingRecord, Timer
      <3>6. ConnTypeOK(c)'
        BY <1>1, <3>4, <3>5, PoolFacts DEF ConnTypeOK
      <3>7. DeadlinesInPhase(c)' /\ PartsAgree(c)' /\ FailuresAreCleaned(c)'
        BY <1>1, <1>4, <2>1, <3>5, PoolFacts
           DEF ConnInv, DeadlinesInPhase, PartsAgree, FailuresAreCleaned
      <3>8. WaitsForAuth(c)' /\ SilenceIsCounted(c)'
        BY <1>1, <1>4, <2>1, PoolFacts DEF ConnInv, WaitsForAuth, SilenceIsCounted
      <3>9. PromptIsHealthy(c)'
        BY <1>1, <1>4, <2>1, <3>4, <3>5, PoolFacts
           DEF ConnInv, DeadlinesInPhase, PromptIsHealthy
      <3>10. QED  BY <3>6, <3>7, <3>8, <3>9 DEF ConnInv
    <2>2. CASE ~(entry[c].inPool /\ entry[c].auth)
      <3>1. ping'[c] = ping[c] /\ owed'[c] = owed[c]
        BY <2>2 DEF PerformHealthChecks
      <3>2. ConnTypeOK(c)'
        BY <1>1, <3>1, PoolFacts DEF ConnTypeOK
      <3>3. DeadlinesInPhase(c)' /\ PartsAgree(c)' /\ FailuresAreCleaned(c)'
        BY <1>1, <1>4, <3>1, PoolFacts
           DEF ConnInv, DeadlinesInPhase, PartsAgree, FailuresAreCleaned
      <3>4. WaitsForAuth(c)' /\ SilenceIsCounted(c)' /\ PromptIsHealthy(c)'
        BY <1>1, <1>4, <2>2, <3>1, PoolFacts
           DEF ConnInv, PartsAgree, WaitsForAuth, SilenceIsCounted, PromptIsHealthy
      <3>5. QED  BY <3>2, <3>3, <3>4 DEF ConnInv
    <2>3. QED  BY <2>1, <2>2
  <1>6. QED  BY <1>2, <1>3, <1>5, AllMove

LEMMA PingAllKeeps ==
    ASSUME PoolInv, PingAllConnections
    PROVE  PoolInv'
  <1>1. /\ UNCHANGED <<sock, entry, agent, ping, left, phase, up, silent, prompt>>
        /\ "heartbeat" \in due /\ due' = due \ {"heartbeat"}
    BY DEF PingAllConnections
  <1>2. AreFunctions'
    BY <1>1, TypeByConnection DEF PoolInv, PingAllConnections, AreFunctions
  <1>3. ClockTypeOK' /\ TimersInPhase'
    BY <1>1, TypeByConnection DEF PoolInv, ClockTypeOK, TimersInPhase, SinceDue
  <1>4. /\ SinceDue' = SinceDue /\ SinceDue = 0 /\ Since("ping")' = Since("ping")
        /\ Since("heartbeat") = 3 /\ Since("heartbeat")' = 0
    BY <1>1 DEF PoolInv, TimersInPhase, SinceDue, Since
  <1>5. ASSUME NEW c \in Conns
        PROVE  ConnTypeOK(c)' /\ ConnInv(c)'
    <2>1. CASE entry[c].inPool /\ entry[c].auth /\ health[c].monitored
      <3>1. health'[c] = [health[c] EXCEPT !.missedPings = health[c].missedPings + 1,
                                           !.answered = FALSE, !.check = "set"]
        BY <2>1 DEF PingAllConnections
      <3>2. owed'[c] = IF sock[c] = "open"
                       THEN [owed[c] EXCEPT !.messages = UpTo(MaxOwed, owed[c].messages)]
                       ELSE owed[c]
        BY <2>1 DEF PingAllConnections
      <3>3. /\ UpTo(MaxOwed, owed[c].messages) \in 0..MaxOwed
            /\ UpTo(MaxOwed, owed[c].messages) > 0
        BY PoolFacts, Counters, UpToBound
      <3>4. /\ owed'[c] \in OwedRecord /\ owed'[c].pongs = owed[c].pongs
            /\ sock[c] = "open" => owed'[c].messages > 0
        BY <3>2, <3>3, RecordTypes DEF OwedRecord
      <3>5. /\ health'[c] \in HealthRecord /\ health'[c].check = "set"
            /\ health'[c].missedPings = health[c].missedPings + 1
            /\ ~health'[c].answered /\ health'[c].monitored
        <4>1. health[c].missedPings + 1 \in Nat
          BY Counters
        <4>2. QED  BY <2>1, <3>1, <4>1, RecordTypes DEF HealthRecord, Timer
      <3>6. ConnTypeOK(c)'
        BY <1>1, <3>4, <3>5, PoolFacts DEF ConnTypeOK
      <3>7. DeadlinesInPhase(c)' /\ PartsAgree(c)' /\ FailuresAreCleaned(c)'
        BY <1>1, <1>4, <2>1, <3>5, PoolFacts
           DEF ConnInv, DeadlinesInPhase, PartsAgree, FailuresAreCleaned
      <3>8. WaitsForAuth(c)'
        BY <1>1, <2>1, PoolFacts DEF ConnInv, WaitsForAuth
      <3>9. health[c].check # "due"
        BY <1>4, PoolFacts DEF ConnInv, DeadlinesInPhase
      <3>10. SilenceIsCounted(c)'
        BY <1>1, <1>4, <2>1, <3>5, <3>9, PoolFacts, Counters DEF ConnInv, SilenceIsCounted
      <3>11. PromptIsHealthy(c)'
        BY <1>1, <1>4, <2>1, <3>4, <3>5, PoolFacts DEF ConnInv, PromptIsHealthy
      <3>12. QED  BY <3>6, <3>7, <3>8, <3>10, <3>11 DEF ConnInv
    <2>2. CASE ~(entry[c].inPool /\ entry[c].auth /\ health[c].monitored)
      <3>1. health'[c] = health[c] /\ owed'[c] = owed[c]
        BY <2>2 DEF PingAllConnections
      <3>2. ConnTypeOK(c)'
        BY <1>1, <3>1, PoolFacts DEF ConnTypeOK
      <3>3. DeadlinesInPhase(c)' /\ PartsAgree(c)' /\ FailuresAreCleaned(c)'
        BY <1>1, <1>4, <3>1, PoolFacts
           DEF ConnInv, DeadlinesInPhase, PartsAgree, FailuresAreCleaned
      <3>4. WaitsForAuth(c)' /\ SilenceIsCounted(c)' /\ PromptIsHealthy(c)'
        BY <1>1, <1>4, <2>2, <3>1, PoolFacts
           DEF ConnInv, PartsAgree, WaitsForAuth, SilenceIsCounted, PromptIsHealthy
      <3>5. QED  BY <3>2, <3>3, <3>4 DEF ConnInv
    <2>3. QED  BY <2>1, <2>2
  <1>6. QED  BY <1>2, <1>3, <1>5, AllMove

LEMMA CleanupKeeps ==
    ASSUME PoolInv, PerformCleanup
    PROVE  PoolInv'
  <1>1. /\ UNCHANGED <<agent, ping, owed, left, phase, up, silent, prompt>>
        /\ "cleanup" \in due /\ due' = due \ {"cleanup"}
    BY DEF PerformCleanup
  <1>2. AreFunctions'
    BY <1>1, TypeByConnection DEF PoolInv, PerformCleanup, AreFunctions
  <1>3. ClockTypeOK' /\ TimersInPhase'
    BY <1>1, TypeByConnection DEF PoolInv, ClockTypeOK, TimersInPhase, SinceDue
  <1>4. /\ SinceDue' = SinceDue
        /\ Since("ping")' = Since("ping") /\ Since("heartbeat")' = Since("heartbeat")
    BY <1>1 DEF SinceDue, Since
  <1>5. ASSUME NEW c \in Conns
        PROVE  ConnTypeOK(c)' /\ ConnInv(c)'
    <2>1. CASE Stale(c) \/ Unauthenticated(c)
      <3>1. /\ entry'[c] = NoEntry /\ health'[c] = NotMonitored
            /\ sock'[c] = IF sock[c] = "open" THEN "closing" ELSE sock[c]
        BY <2>1 DEF PerformCleanup
      <3>2. sock'[c] = "closing"
        BY <2>1, <3>1, PoolFacts DEF Stale, Unauthenticated, ConnInv, PartsAgree
      <3>3. ConnTypeOK(c)'
        BY <1>1, <3>1, <3>2, Fresh, PoolFacts DEF ConnTypeOK
      <3>4. ConnInv(c)'
        BY <1>1, <1>4, <3>1, <3>2, PoolFacts
           DEF ConnInv, DeadlinesInPhase, PartsAgree, FailuresAreCleaned, WaitsForAuth,
               SilenceIsCounted, PromptIsHealthy
      <3>5. QED  BY <3>3, <3>4
    <2>2. CASE ~(Stale(c) \/ Unauthenticated(c))
      <3>1. entry'[c] = entry[c] /\ health'[c] = health[c] /\ sock'[c] = sock[c]
        BY <2>2 DEF PerformCleanup
      <3>2. ConnTypeOK(c)'
        BY <1>1, <3>1, PoolFacts DEF ConnTypeOK
      <3>3. FailuresAreCleaned(c)'
        <4>1. entry[c].inPool => entry[c].failedPings < 3
          BY <2>2, PoolFacts, Counters
             DEF Stale, IsConnectionHealthy, ConnInv, FailuresAreCleaned
        <4>2. QED  BY <3>1, <4>1, Counters DEF FailuresAreCleaned
      <3>4. DeadlinesInPhase(c)' /\ PartsAgree(c)' /\ WaitsForAuth(c)'
            /\ SilenceIsCounted(c)' /\ PromptIsHealthy(c)'
        BY <1>1, <1>4, <3>1, PoolFacts
           DEF ConnInv, DeadlinesInPhase, PartsAgree, WaitsForAuth, SilenceIsCounted,
               PromptIsHealthy
      <3>5. QED  BY <3>2, <3>3, <3>4 DEF ConnInv
    <2>3. QED  BY <2>1, <2>2
  <1>6. QED  BY <1>2, <1>3, <1>5, AllMove

LEMMA CloseAllKeeps ==
    ASSUME PoolInv, CloseAll
    PROVE  PoolInv'
  <1>1. /\ UNCHANGED <<agent, owed, left, phase, silent, prompt>>
        /\ ~up' /\ up' \in BOOLEAN /\ due' = {}
    BY DEF CloseAll
  <1>2. AreFunctions'
    BY <1>1, TypeByConnection DEF PoolInv, CloseAll, AreFunctions
  <1>3. ClockTypeOK' /\ TimersInPhase'
    BY <1>1, TypeByConnection DEF PoolInv, ClockTypeOK, TimersInPhase
  <1>4. ASSUME NEW c \in Conns
        PROVE  ConnTypeOK(c)' /\ ConnInv(c)'
    <2>1. /\ entry'[c] = NoEntry /\ health'[c] = NotMonitored
          /\ sock'[c] = IF entry[c].inPool /\ sock[c] = "open" THEN "closing" ELSE sock[c]
          /\ ping'[c] = [ping[c] EXCEPT !.timeout = "off"]
      BY DEF CloseAll
    <2>2. sock'[c] # "open" /\ (sock'[c] = "new" => sock[c] = "new")
      BY <2>1, PoolFacts DEF ConnInv, PartsAgree
    <2>3. ping'[c] \in PingRecord /\ ping'[c].timeout = "off"
          /\ (ping[c] = NoPing => ping'[c] = NoPing)
      BY <2>1, RecordTypes DEF PingRecord, Timer
    <2>4. ConnTypeOK(c)'
      BY <1>1, <2>1, <2>3, Fresh, PoolFacts DEF ConnTypeOK
    <2>5. ConnInv(c)'
      BY <1>1, <2>1, <2>2, <2>3, PoolFacts
         DEF ConnInv, DeadlinesInPhase, PartsAgree, FailuresAreCleaned, WaitsForAuth,
             SilenceIsCounted, PromptIsHealthy
    <2>6. QED  BY <2>4, <2>5
  <1>5. QED  BY <1>2, <1>3, <1>4, AllMove

\* The phases, and what a tick does to what is counted in them.
LEMMA NextPhase ==
    ASSUME PoolInv, Tick
    PROVE  /\ ClockTypeOK' /\ TimersInPhase' /\ due = {} /\ up' = up
           /\ phase' = IF phase = 5 THEN 0 ELSE phase + 1
           /\ SinceDue' = IF SinceDue = 2 THEN 0 ELSE SinceDue + 1
           /\ up => /\ Since("ping")' = Since("ping") + 1
                    /\ Since("heartbeat")' = Since("heartbeat") + 1
                    /\ phase' = 0 => "cleanup" \in due'
           /\ Since("ping") = SinceDue /\ Since("heartbeat") = SinceDue
  <1>1. phase \in 0..5 /\ up \in BOOLEAN
    BY TypeByConnection DEF PoolInv, ClockTypeOK
  <1>2. \A p \in 0..5 : /\ (p + 1) % 6 = (IF p = 5 THEN 0 ELSE p + 1)
                        /\ p % 3 = 0 <=> p \in {0, 3}
    OBVIOUS
  <1>3. due = {} /\ up' = up /\ phase' = IF phase = 5 THEN 0 ELSE phase + 1
    BY <1>1, <1>2 DEF Tick, CleanupPeriod
  <1>4. due' = IF up THEN (IF phase' \in {0, 3} THEN {"ping", "heartbeat"} ELSE {})
                         \cup (IF phase' = 0 THEN {"cleanup"} ELSE {})
               ELSE {}
    <2>1. phase' \in 0..5 /\ phase' = (phase + 1) % CleanupPeriod
      <3>1. phase' \in 0..5
        BY <1>1, <1>3
      <3>2. phase' = (phase + 1) % CleanupPeriod
        BY DEF Tick
      <3>3. QED  BY <3>1, <3>2
    <2>2. due' = IF up THEN (IF phase' % PingPeriod = 0 THEN {"ping", "heartbeat"} ELSE {})
                            \cup (IF phase' = 0 THEN {"cleanup"} ELSE {})
                 ELSE {}
      BY <2>1 DEF Tick
    <2>3. QED  BY <1>2, <2>1, <2>2
  <1>5. phase' \in 0..5 /\ SinceDue' = IF SinceDue = 2 THEN 0 ELSE SinceDue + 1
    BY <1>1, <1>3 DEF SinceDue
  <1>6. ClockTypeOK' /\ TimersInPhase'
    BY <1>1, <1>3, <1>4, <1>5 DEF ClockTypeOK, TimersInPhase, SinceDue
  <1>7. Since("ping") = SinceDue /\ Since("heartbeat") = SinceDue
    BY <1>3 DEF Since
  <1>8. ASSUME up
        PROVE  /\ Since("ping")' = Since("ping") + 1
               /\ Since("heartbeat")' = Since("heartbeat") + 1
               /\ phase' = 0 => "cleanup" \in due'
    BY <1>1, <1>3, <1>4, <1>5, <1>8 DEF Since, SinceDue
  <1>9. QED  BY <1>3, <1>5, <1>6, <1>7, <1>8

LEMMA TickKeeps ==
    ASSUME PoolInv, Tick
    PROVE  PoolInv'
  <1>1. AreFunctions'
    BY TypeByConnection DEF PoolInv, Tick, AreFunctions
  <1>2. ASSUME NEW c \in Conns
        PROVE  ConnTypeOK(c)' /\ ConnInv(c)'
    <2>1. /\ sock'[c] = sock[c] /\ agent'[c] = agent[c] /\ owed'[c] = owed[c]
          /\ ping[c].timeout # "due" /\ health[c].check # "due"
          /\ Open(c) /\ left[c].auth = 0 => Authenticated(c)
          /\ sock[c] = "closing" => left[c].close > 0
      BY DEF Tick
    <2>2. /\ ping'[c] = [last |-> IF ping[c].last = "fresh" THEN "old" ELSE ping[c].last,
                         timeout |-> Elapse(ping[c].timeout)]
          /\ health'[c] = [health[c] EXCEPT !.check = Elapse(@)]
          /\ entry'[c] = IF entry[c].inPool
                THEN [entry[c] EXCEPT !.idle = UpTo(IdleLimit + 1, entry[c].idle),
                                      !.age = IF entry[c].auth THEN entry[c].age
                                              ELSE UpTo(AuthLimit + 1, entry[c].age)]
                ELSE entry[c]
          /\ left'[c] = [auth |-> IF Open(c) /\ ~Authenticated(c)
                                  THEN left[c].auth - 1 ELSE left[c].auth,
                         close |-> IF sock[c] = "closing"
                                   THEN left[c].close - 1 ELSE left[c].close]
          /\ silent'[c] = IF Listening(c) THEN UpTo(SilenceLimit + 1, silent[c]) ELSE 0
          /\ prompt'[c] = (prompt[c] /\ owed[c] = NothingOwed)
      BY DEF Tick
    <2>3. /\ ping'[c] \in PingRecord /\ ping'[c].timeout = Elapse(ping[c].timeout)
          /\ ping[c] = NoPing => ping'[c] = NoPing
      BY <2>2, RecordTypes DEF PingRecord, Timer, Elapse
    <2>4. /\ health'[c] \in HealthRecord /\ health'[c].check = Elapse(health[c].check)
          /\ health'[c].missedPings = health[c].missedPings
          /\ health'[c].answered = health[c].answered
          /\ health'[c].monitored = health[c].monitored
          /\ health[c] = NotMonitored => health'[c] = NotMonitored
      BY <2>2, RecordTypes DEF HealthRecord, Timer, Elapse
    <2>5. /\ UpTo(10, entry[c].idle) \in 0..10 /\ UpTo(10, entry[c].idle) <= entry[c].idle + 1
          /\ UpTo(7, entry[c].age) \in 0..7 /\ UpTo(7, entry[c].age) <= entry[c].age + 1
      BY Counters, UpToBound
    <2>6. /\ entry'[c] \in EntryRecord
          /\ entry'[c].inPool = entry[c].inPool /\ entry'[c].auth = entry[c].auth
          /\ entry'[c].status = entry[c].status
          /\ entry'[c].failedPings = entry[c].failedPings
          /\ entry'[c].idle <= entry[c].idle + 1 /\ entry'[c].age <= entry[c].age + 1
      <3>1. CASE entry[c].inPool
        <4> DEFINE idle == UpTo(10, entry[c].idle)
                   age == IF entry[c].auth THEN entry[c].age ELSE UpTo(7, entry[c].age)
        <4>1. entry'[c] = [entry[c] EXCEPT !.idle = idle, !.age = age]
          BY <2>2, <3>1 DEF IdleLimit, AuthLimit
        <4>2. /\ idle \in 0..(IdleLimit + 1) /\ idle <= entry[c].idle + 1
              /\ age \in 0..(AuthLimit + 1) /\ age <= entry[c].age + 1
          BY <2>5, Counters DEF IdleLimit, AuthLimit
        <4> HIDE DEF idle, age
        <4>3. /\ entry'[c].idle = idle /\ entry'[c].age = age
              /\ entry'[c].inPool = entry[c].inPool /\ entry'[c].auth = entry[c].auth
              /\ entry'[c].status = entry[c].status
              /\ entry'[c].failedPings = entry[c].failedPings
          BY <4>1, RecordTypes DEF EntryRecord
        <4>4. entry'[c] \in EntryRecord
          BY <4>1, <4>2, RecordTypes DEF EntryRecord
        <4>5. QED  BY <4>2, <4>3, <4>4
      <3>2. CASE ~entry[c].inPool
        <4>1. entry'[c] = entry[c]
          BY <2>2, <3>2
        <4>2. QED  BY <4>1, RecordTypes, Counters
      <3>3. QED  BY <3>1, <3>2
    <2>7. /\ left'[c].auth = IF Open(c) /\ ~Authenticated(c)
                             THEN left[c].auth - 1 ELSE left[c].auth
          /\ left'[c].close = IF sock[c] = "closing" THEN left[c].close - 1 ELSE left[c].close
          /\ left'[c] \in LeftRecord
          /\ sock[c] = "new" /\ left[c] = AllTime => left'[c] = AllTime
      BY <2>1, <2>2, Counters DEF LeftRecord
    <2>8. silent'[c] \in 0..(SilenceLimit + 1) /\ silent'[c] <= silent[c] + 1
          /\ (sock[c] = "new" => silent'[c] = 0)
      BY <2>2, PoolFacts, Counters, UpToBound, Zeros
    <2>9. prompt'[c] \in BOOLEAN
          /\ (prompt'[c] => prompt[c] /\ owed[c].pongs = 0 /\ owed[c].messages = 0)
      <3>1. prompt[c] \in BOOLEAN
        BY Counters
      <3>2. owed[c] = NothingOwed => owed[c].pongs = 0 /\ owed[c].messages = 0
        OBVIOUS
      <3>3. prompt'[c] \in BOOLEAN /\ (prompt'[c] => prompt[c] /\ owed[c] = NothingOwed)
        BY <2>2, <3>1, Zenon
      <3>4. QED  BY <3>2, <3>3
    <2>10. ConnTypeOK(c)'
      BY <2>1, <2>3, <2>4, <2>6, <2>7, <2>8, <2>9, PoolFacts DEF ConnTypeOK
    <2>11. DeadlinesInPhase(c)'
      BY <2>1, <2>3, <2>4, NextPhase, PoolFacts, RecordTypes, ClockFacts
         DEF ConnInv, DeadlinesInPhase, Elapse, PingRecord, HealthRecord, Timer
    <2>12. PartsAgree(c)'
      BY <2>1, <2>3, <2>4, <2>6, <2>7, <2>8, NextPhase, PoolFacts DEF ConnInv, PartsAgree
    <2>13. FailuresAreCleaned(c)'
      <3>1. ping'[c].timeout = "due" => ping[c].timeout = "set"
        BY <2>1, <2>3 DEF Elapse
      <3>2. ping[c].timeout = "set" => phase \in {0, 3}
        BY PoolFacts, Counters DEF ConnInv, DeadlinesInPhase, SinceDue
      <3>3. /\ due = {} /\ phase' = IF phase = 5 THEN 0 ELSE phase + 1
            /\ entry[c].inPool /\ phase' = 0 => "cleanup" \in due'
        BY NextPhase, PoolFacts DEF ConnInv, PartsAgree
      <3>4. entry[c].inPool =>
              /\ entry[c].failedPings >= 3 =>
                   /\ entry[c].status = "unhealthy"
                   /\ phase # 0
              /\ entry[c].failedPings >= 4 => phase \in {4, 5}
              /\ entry[c].failedPings <= 4
        BY <3>3, PoolFacts DEF ConnInv, FailuresAreCleaned
      <3>5. phase \in 0..5 /\ entry[c].failedPings \in 0..5
        BY Counters
      <3>6. phase' = 1 => phase = 0
        BY <3>3, <3>5
      <3>7. phase \in {4, 5} => /\ ping'[c].timeout # "due"
                                /\ phase' = 5 \/ phase' = 0
        BY <3>1, <3>2, <3>3
      <3>8. QED
        BY <2>6, <3>3, <3>4, <3>6, <3>7 DEF FailuresAreCleaned
    <2>14. WaitsForAuth(c)'
      <3>1. entry[c].inPool /\ ~entry[c].auth =>
              /\ ~Authenticated(c) /\ sock[c] \in {"open", "closing"}
              /\ entry[c].age <= 6 - left[c].auth - left[c].close
              /\ silent[c] <= 6 - left[c].auth - left[c].close
        BY PoolFacts, Counters DEF ConnInv, PartsAgree, WaitsForAuth
      <3>2. entry[c].inPool /\ ~entry[c].auth =>
              left'[c].auth + left'[c].close = left[c].auth + left[c].close - 1
        BY <2>7, <3>1, Counters
      <3>3. /\ left'[c].auth \in 0..3 /\ left'[c].close \in 0..3
            /\ entry'[c].age \in 0..7 /\ silent'[c] \in Nat
        <4>1. left'[c].auth \in 0..3 /\ left'[c].close \in 0..3
          BY <2>7 DEF LeftRecord
        <4>2. entry'[c].age \in 0..7
          BY <2>6 DEF EntryRecord, AuthLimit
        <4>3. silent'[c] \in Nat
          BY <2>8, PoolFacts
        <4>4. QED  BY <4>1, <4>2, <4>3
      <3>4. QED  BY <2>6, <2>8, <3>1, <3>2, <3>3, Counters DEF WaitsForAuth
    <2>15. SilenceIsCounted(c)'
      <3> SUFFICES ASSUME entry'[c].inPool, entry'[c].auth PROVE SilenceIsCounted(c)'
        BY DEF SilenceIsCounted
      <3>1. entry[c].inPool /\ entry[c].auth /\ Authenticated(c) /\ up
        BY <2>6, PoolFacts DEF ConnInv, PartsAgree
      <3>2. /\ Since("heartbeat")' = Since("heartbeat") + 1 /\ Since("heartbeat") \in 0..2
            /\ health[c].check = "set" => Since("heartbeat") = 0
        <4>1. Since("heartbeat")' = Since("heartbeat") + 1 /\ Since("heartbeat") = SinceDue
          BY <3>1, NextPhase
        <4>2. SinceDue \in 0..2
          BY ClockFacts
        <4>3. health[c].check = "set" => SinceDue = 0
          BY PoolFacts DEF ConnInv, DeadlinesInPhase
        <4>4. QED  BY <4>1, <4>2, <4>3
      <3>3. health'[c].check = (IF health[c].check = "set" THEN "due" ELSE health[c].check)
        BY <2>4 DEF Elapse
      <3>4. /\ silent'[c] \in Nat /\ silent[c] \in Nat /\ health[c].missedPings \in Nat
            /\ MaxMissedPings \in Nat /\ health[c].answered \in BOOLEAN
            /\ SilenceLimit = 3 * MaxMissedPings + 4
        BY <2>8, PoolFacts, Counters
      <3>5. CASE Open(c)
        <4>1. /\ silent[c] <= 3 * health[c].missedPings + Since("heartbeat")
              /\ health[c].answered => silent[c] <= Since("heartbeat")
              /\ \/ health[c].answered
                 \/ health[c].missedPings < MaxMissedPings
                 \/ health[c].check # "off"
              /\ silent[c] <= 3 * MaxMissedPings
          BY <2>1, <3>1, <3>5, PoolFacts DEF ConnInv, SilenceIsCounted
        <4>2. /\ silent'[c] <= 3 * health[c].missedPings + Since("heartbeat")'
              /\ health[c].answered => silent'[c] <= Since("heartbeat")'
              /\ silent'[c] <= 3 * MaxMissedPings + 1
          BY <2>8, <3>2, <3>4, <4>1
        <4>3. health'[c].check # "due" => silent'[c] <= 3 * MaxMissedPings
          <5> SUFFICES ASSUME health'[c].check # "due" PROVE silent'[c] <= 3 * MaxMissedPings
            OBVIOUS
          <5>1. health[c].check \in {"off", "set", "due"}
            BY RecordTypes DEF HealthRecord, Timer
          <5>2. health[c].check = "off"
            BY <2>1, <3>3, <5>1
          <5>3. CASE health[c].answered
            BY <3>2, <3>4, <4>2, <5>3, PoolFacts
          <5>4. CASE health[c].missedPings < MaxMissedPings
            BY <3>2, <3>4, <4>2, <5>4
          <5>5. QED  BY <4>1, <5>2, <5>3, <5>4
        <4>4. health'[c].check = "off" => health[c].check = "off"
          BY <3>3
        <4>5. sock'[c] = "open"
          BY <2>1, <3>5
        <4>6. QED  BY <2>4, <4>1, <4>2, <4>3, <4>4, <4>5 DEF SilenceIsCounted
      <3>6. CASE ~Open(c)
        <4>1. sock[c] = "closing" /\ silent[c] <= SilenceLimit - left[c].close
          BY <3>1, <3>6, PoolFacts DEF ConnInv, PartsAgree, SilenceIsCounted
        <4>2. left'[c].close = left[c].close - 1 /\ left[c].close \in 0..3
          BY <2>7, <4>1, Counters
        <4>3. silent'[c] <= SilenceLimit - left'[c].close /\ sock'[c] = "closing"
          BY <2>1, <2>8, <3>4, <4>1, <4>2
        <4>4. QED  BY <4>3 DEF SilenceIsCounted
      <3>7. QED  BY <3>5, <3>6
    <2>16. PromptIsHealthy(c)'
      <3> SUFFICES ASSUME sock'[c] = "open", prompt'[c] PROVE PromptIsHealthy(c)'
        BY DEF PromptIsHealthy
      <3>1. Open(c) /\ prompt[c] /\ owed[c].pongs = 0 /\ owed[c].messages = 0
        BY <2>1, <2>9
      <3>2. /\ entry[c].inPool /\ up
            /\ entry[c].failedPings = 0 /\ entry[c].status # "unhealthy"
            /\ ping[c].timeout \notin {"set", "due"} /\ health[c].answered
            /\ entry[c].auth => entry[c].idle <= Since("ping")
        BY <3>1, PoolFacts DEF ConnInv, PartsAgree, PromptIsHealthy
      <3>3. Since("ping")' = Since("ping") + 1 /\ Since("ping") \in 0..3
        BY <3>2, NextPhase, ClockFacts
      <3>4. ping'[c].timeout \notin {"set", "due"}
        BY <2>3, <3>2 DEF Elapse
      <3>5. entry[c].auth => entry'[c].idle <= Since("ping")'
        <4>1. entry'[c].idle \in 0..10
          BY <2>6 DEF EntryRecord, IdleLimit
        <4>2. QED  BY <2>6, <3>2, <3>3, <4>1, Counters
      <3>6. QED  BY <2>4, <2>6, <3>2, <3>4, <3>5 DEF PromptIsHealthy
    <2>17. QED  BY <2>10, <2>11, <2>12, <2>13, <2>14, <2>15, <2>16 DEF ConnInv
  <1>3. QED  BY <1>1, <1>2, NextPhase, AllMove

LEMMA StepKeeps == PoolInv /\ [PoolNext]_poolVars => PoolInv'
  <1> SUFFICES ASSUME PoolInv, [PoolNext]_poolVars PROVE PoolInv'
    OBVIOUS
  <1>1. ASSUME NEW c \in Conns, ConnectionStep(c) PROVE PoolInv'
    <2>1. CASE AddConnection(c)
      BY <2>1, AddConnectionKeeps
    <2>2. CASE PeerSpeaks(c) \/ ServerSends(c)
      BY <2>2, ActivityKeeps
    <2>3. CASE AuthTimesOut(c) \/ PeerCloses(c) \/ SocketError(c)
      BY <2>3, ClosingKeeps
    <2>4. CASE SocketClosed(c)
      BY <2>4, SocketClosedKeeps
    <2>5. ASSUME NEW a \in AgentIds \cup {c}, Authenticate(c, a) PROVE PoolInv'
      BY <2>5, AuthenticateKeeps
    <2>6. CASE HandlePong(c)
      BY <2>6, HandlePongKeeps
    <2>7. CASE HandlePingTimeout(c)
      BY <2>7, HandlePingTimeoutKeeps
    <2>8. CASE RecordPong(c)
      BY <2>8, RecordPongKeeps
    <2>9. CASE CheckPongTimeout(c)
      BY <2>9, CheckPongTimeoutKeeps
    <2>10. QED
      BY <1>1, <2>1, <2>2, <2>3, <2>4, <2>5, <2>6, <2>7, <2>8, <2>9 DEF ConnectionStep
  <1>2. CASE TimerStep
    BY <1>2, HealthChecksKeep, PingAllKeeps, CleanupKeeps, TickKeeps DEF TimerStep
  <1>3. CASE CloseAll
    BY <1>3, CloseAllKeeps
  <1>4. CASE UNCHANGED poolVars
    <2>1. AreFunctions' /\ ClockTypeOK' /\ TimersInPhase'
      BY <1>4, TypeByConnection
         DEF PoolInv, poolVars, AreFunctions, ClockTypeOK, TimersInPhase, SinceDue
    <2>2. ASSUME NEW c \in Conns PROVE ConnTypeOK(c)' /\ ConnInv(c)'
      BY <1>4, UnmovedKeeps, PoolFacts DEF poolVars, Unmoved
    <2>3. QED  BY <2>1, <2>2, AllMove
  <1>5. QED  BY <1>1, <1>2, <1>3, <1>4 DEF PoolNext

-----------------------------------------------------------------------------
(* The inductive invariant holds in every state of the pool.                *)
THEOREM PoolInvariant == PoolSpec => []PoolInv
  BY InitIsSound, StepKeeps, PTL DEF PoolSpec

(* The state is well-typed: above all no entry counts more than five failed *)
(* pings, no connection waits longer than its two time limits, and ages and *)
(* idleness stop where performCleanup compares them.                        *)
THEOREM PoolTypeCorrect == PoolSpec => []PoolTypeOK
  <1>1. PoolInv => PoolTypeOK
    BY DEF PoolInv
  <1>2. QED  BY <1>1, PoolInvariant, PTL

(* However many PINGs may be missed, the entry of a peer that has fallen    *)
(* silent is gone by the deadline of the last of them and the closing       *)
(* handshake: pingAllConnections, checkPongTimeout and the handlers' close  *)
(* see to that, whatever the pool's own pings and the server's sending do.  *)
THEOREM SilentPeersLeave == PoolSpec => []DeadPeerLeavesPool
  <1>1. PoolInv => DeadPeerLeavesPool
    <2> SUFFICES ASSUME PoolInv, NEW c \in Conns, entry[c].inPool
                 PROVE  silent[c] <= SilenceLimit
      BY DEF DeadPeerLeavesPool
    <2>1. /\ ConnInv(c) /\ SilenceLimit = 3 * MaxMissedPings + 4
          /\ MaxMissedPings \in Nat /\ MaxMissedPings > 0
          /\ silent[c] \in Nat /\ left[c].auth \in 0..3 /\ left[c].close \in 0..3
      BY PoolFacts, Counters
    <2>2. CASE ~entry[c].auth
      <3>1. silent[c] <= 6 - left[c].auth - left[c].close
        BY <2>1, <2>2 DEF ConnInv, WaitsForAuth
      <3>2. QED  BY <2>1, <3>1
    <2>3. CASE entry[c].auth /\ Open(c)
      <3>1. silent[c] <= 3 * MaxMissedPings + 1
        BY <2>1, <2>3 DEF ConnInv, SilenceIsCounted
      <3>2. QED  BY <2>1, <3>1
    <2>4. CASE entry[c].auth /\ ~Open(c)
      <3>1. silent[c] <= SilenceLimit - left[c].close
        BY <2>1, <2>4 DEF ConnInv, SilenceIsCounted
      <3>2. QED  BY <2>1, <3>1
    <2>5. QED  BY <2>2, <2>3, <2>4
  <1>2. QED  BY <1>1, PoolInvariant, PTL

(* No connection is in the pool for longer than the handler's limit for the *)
(* authentication and the closing handshake without being authenticated.    *)
THEOREM UnauthenticatedLeave == PoolSpec => []UnauthenticatedLeavesPool
  <1>1. PoolInv => UnauthenticatedLeavesPool
    <2> SUFFICES ASSUME PoolInv, NEW c \in Conns, entry[c].inPool, ~Authenticated(c)
                 PROVE  entry[c].age <= AuthTimeout + CloseTimeout
      BY DEF UnauthenticatedLeavesPool
    <2>1. /\ left[c].auth \in 0..3 /\ left[c].close \in 0..3 /\ entry[c].age \in 0..7
          /\ entry[c].age <= 6 - left[c].auth - left[c].close
      BY PoolFacts, Counters DEF ConnInv, PartsAgree, WaitsForAuth
    <2>2. QED  BY <2>1
  <1>2. QED  BY <1>1, PoolInvariant, PTL

LEMMA PromptStep ==
    ASSUME PoolInv, NEW c \in Conns, ClosedByServer(c), entry[c].auth, prompt[c],
           TimerStep \/ \E d \in Conns : HandlePingTimeout(d) \/ CheckPongTimeout(d)
    PROVE  FALSE
  <1>1. /\ entry[c].inPool /\ entry[c].failedPings = 0 /\ entry[c].status # "unhealthy"
        /\ ping[c].timeout # "due"
        /\ health[c].answered \/ health[c].check # "due"
        /\ entry[c].idle <= 3
    <2>1. PromptIsHealthy(c) /\ Open(c) /\ PartsAgree(c)
      BY PoolFacts DEF ConnInv, ClosedByServer
    <2>2. Since("ping") <= 3 /\ Since("ping") \in Nat /\ entry[c].idle \in Nat
      BY ClockFacts, Counters
    <2>3. entry[c].idle <= (IF ping[c].timeout = "set" THEN PingPeriod ELSE Since("ping"))
      BY <2>1 DEF PromptIsHealthy
    <2>4. entry[c].idle <= 3
      BY <2>2, <2>3
    <2>5. QED  BY <2>1, <2>4 DEF PromptIsHealthy, PartsAgree
  <1>2. CASE PerformHealthChecks \/ PingAllConnections \/ Tick
    BY <1>2 DEF PerformHealthChecks, PingAllConnections, Tick, ClosedByServer
  <1>3. CASE PerformCleanup
    <2>1. Stale(c) \/ Unauthenticated(c)
      BY <1>3 DEF PerformCleanup, ClosedByServer
    <2>2. entry[c].idle <= IdleLimit /\ entry[c].idle \in Nat /\ IdleLimit \in Nat
      BY <1>1, Counters DEF IdleLimit
    <2>3. ~(entry[c].idle > IdleLimit)
      BY <2>2
    <2>4. IsConnectionHealthy(c)
      BY <1>1 DEF IsConnectionHealthy, ClosedByServer
    <2>5. QED  BY <2>1, <2>3, <2>4 DEF Stale, Unauthenticated
  <1>4. ASSUME NEW d \in Conns, HandlePingTimeout(d) PROVE FALSE
    <2>1. d # c
      BY <1>1, <1>4 DEF HandlePingTimeout
    <2>2. sock'[c] = sock[c]
      BY <1>4, <2>1, PoolFacts DEF HandlePingTimeout, AreFunctions
    <2>3. QED  BY <2>2 DEF ClosedByServer
  <1>5. ASSUME NEW d \in Conns, CheckPongTimeout(d) PROVE FALSE
    <2>1. d = c => ~TimedOut(d)
      BY <1>1, <1>5 DEF CheckPongTimeout, TimedOut
    <2>2. sock'[c] = sock[c]
      BY <1>5, <2>1, PoolFacts DEF CheckPongTimeout, AreFunctions
    <2>3. QED  BY <2>2 DEF ClosedByServer
  <1>6. QED  BY <1>2, <1>3, <1>4, <1>5 DEF TimerStep

(* Whatever the interleaving of timers, pings and answers, neither judge    *)
(* closes an authenticated connection whose peer has answered in time: not  *)
(* performCleanup, not the fifth failed ping, and not checkPongTimeout.     *)
THEOREM PromptPeersStay == PoolSpec => PromptPeerIsKept
  <1>1. PoolInv /\ [PoolNext]_poolVars =>
          [TimerStep \/ (\E c \in Conns : HandlePingTimeout(c) \/ CheckPongTimeout(c))
           => \A c \in Conns :
                ClosedByServer(c) => ~entry[c].auth \/ ~prompt[c]]_poolVars
    BY PromptStep
  <1>2. QED  BY <1>1, PoolInvariant, PTL DEF PoolSpec, PromptPeerIsKept

-----------------------------------------------------------------------------
(* Each step of Connections, as what it does to one connection's view.      *)
LEMMA OnlyOne == ASSUME NEW c \in Conns PROVE Abs(c)!Conns = {c}
  BY DEF Abs!Conns, Conns

\* What a view is made of, before a step and after it.
LEMMA ViewFields ==
    ASSUME NEW c
    PROVE  /\ View(c) = [sock |-> View(c).sock, inPool |-> View(c).inPool,
                         auth |-> View(c).auth, healthy |-> View(c).healthy,
                         agentId |-> View(c).agentId, subs |-> View(c).subs]
           /\ View(c).sock = sock[c] /\ View(c).inPool = entry[c].inPool
           /\ View(c).auth \in BOOLEAN /\ View(c).healthy \in BOOLEAN
           /\ View(c).auth <=> (agent[c] # None /\ sock[c] # "closed")
           /\ View(c).healthy <=> (sock[c] = "open" => entry[c].status # "unhealthy")
           /\ View(c).agentId = (IF c \in AgentConns /\ sock[c] # "closed" THEN agent[c] ELSE None)
           /\ View(c).subs = {}
  BY DEF View

LEMMA ViewFieldsNext ==
    ASSUME NEW c
    PROVE  /\ View(c)' = [sock |-> View(c)'.sock, inPool |-> View(c)'.inPool,
                          auth |-> View(c)'.auth, healthy |-> View(c)'.healthy,
                          agentId |-> View(c)'.agentId, subs |-> View(c)'.subs]
           /\ View(c)'.sock = sock'[c] /\ View(c)'.inPool = entry'[c].inPool
           /\ View(c)'.auth \in BOOLEAN /\ View(c)'.healthy \in BOOLEAN
           /\ View(c)'.auth <=> (agent'[c] # None /\ sock'[c] # "closed")
           /\ View(c)'.healthy <=> (sock'[c] = "open" => entry'[c].status # "unhealthy")
           /\ View(c)'.agentId =
                (IF c \in AgentConns /\ sock'[c] # "closed" THEN agent'[c] ELSE None)
           /\ View(c)'.subs = {}
  BY DEF View

LEMMA AbsAdd ==
    ASSUME NEW c \in Conns, sock[c] = "new", sock'[c] = "open", agent'[c] = agent[c],
           entry'[c].inPool = TRUE, entry'[c].status # "unhealthy"
    PROVE  Abs(c)!ConnNext
  <1>1. /\ View(c).sock = "new" /\ View(c)'.sock = "open" /\ View(c)'.inPool = TRUE
        /\ View(c)'.agentId = View(c).agentId /\ View(c)'.subs = View(c).subs
    BY ViewFields, ViewFieldsNext
  <1>2. View(c)'.auth = View(c).auth
    BY ViewFields, ViewFieldsNext
  <1>3. View(c)'.healthy = View(c).healthy
    BY ViewFields, ViewFieldsNext
  <1>4. View(c)' = [View(c) EXCEPT !.sock = "open", !.inPool = TRUE]
    <2> DEFINE u == [View(c) EXCEPT !.sock = "open"]
    <2>1. u = [sock |-> "open", inPool |-> View(c).inPool, auth |-> View(c).auth,
               healthy |-> View(c).healthy, agentId |-> View(c).agentId, subs |-> View(c).subs]
      BY ViewFields
    <2> HIDE DEF u
    <2>2. View(c)' = [u EXCEPT !.inPool = TRUE]
      BY <1>1, <1>2, <1>3, <2>1, ViewFields, ViewFieldsNext
    <2>3. QED  BY <2>2 DEF u
  <1>5. Abs(c)!AddConnection(c)
    BY <1>1, <1>4 DEF Abs!AddConnection
  <1>6. QED  BY <1>5, OnlyOne DEF Abs!ConnNext

LEMMA AbsAuthenticate ==
    ASSUME NEW c \in Conns, Listening(c), sock'[c] = sock[c], NEW a, agent'[c] = a, a # None,
           entry'[c].inPool = entry[c].inPool, entry'[c].status = entry[c].status,
           c \in AgentConns => a \in AgentIds
    PROVE  Abs(c)!ConnNext
  <1>1. /\ View(c).sock \in {"open", "closing"}
        /\ View(c)'.sock = View(c).sock /\ View(c)'.inPool = View(c).inPool
        /\ View(c)'.subs = View(c).subs
    BY ViewFields, ViewFieldsNext
  <1>0. /\ View(c) = [sock |-> View(c).sock, inPool |-> View(c).inPool,
                      auth |-> View(c).auth, healthy |-> View(c).healthy,
                      agentId |-> View(c).agentId, subs |-> View(c).subs]
        /\ View(c)' = [sock |-> View(c)'.sock, inPool |-> View(c)'.inPool,
                       auth |-> View(c)'.auth, healthy |-> View(c)'.healthy,
                       agentId |-> View(c)'.agentId, subs |-> View(c)'.subs]
        /\ View(c)'.auth \in BOOLEAN
    BY ViewFields, ViewFieldsNext
  <1>2. View(c)'.auth = TRUE
    BY ViewFields, ViewFieldsNext
  <1>3. View(c)'.healthy = View(c).healthy
    BY ViewFields, ViewFieldsNext
  <1>4. CASE c \in AgentConns
    <2>1. View(c)' = [View(c) EXCEPT !.auth = TRUE, !.agentId = a]
      <3> DEFINE u == [View(c) EXCEPT !.auth = View(c)'.auth]
      <3>1. u = [sock |-> View(c).sock, inPool |-> View(c).inPool, auth |-> View(c)'.auth,
                 healthy |-> View(c).healthy, agentId |-> View(c).agentId,
                 subs |-> View(c).subs]
        BY <1>0
      <3>2. u = [View(c) EXCEPT !.auth = TRUE]
        BY <1>0, <1>2
      <3> HIDE DEF u
      <3>3. View(c)'.agentId = a
        BY <1>1, <1>4, ViewFieldsNext
      <3>4. View(c)' = [u EXCEPT !.agentId = a]
        BY <1>0, <1>1, <1>3, <3>1, <3>3
      <3>5. QED  BY <3>2, <3>4
    <2>2. Abs(c)!AuthenticateAgent(c, a)
      BY <1>1, <1>4, <2>1 DEF Abs!AuthenticateAgent, Abs!Receives
    <2>3. QED  BY <1>4, <2>2, OnlyOne DEF Abs!ConnNext
  <1>5. CASE c \notin AgentConns
    <2>1. View(c)' = [View(c) EXCEPT !.auth = TRUE, !.subs = View(c).subs \cup {}]
      <3> DEFINE u == [View(c) EXCEPT !.auth = View(c)'.auth]
      <3>1. u = [sock |-> View(c).sock, inPool |-> View(c).inPool, auth |-> View(c)'.auth,
                 healthy |-> View(c).healthy, agentId |-> View(c).agentId,
                 subs |-> View(c).subs]
        BY <1>0
      <3>2. u = [View(c) EXCEPT !.auth = TRUE]
        BY <1>0, <1>2
      <3> HIDE DEF u
      <3>3. View(c)'.agentId = View(c).agentId
        BY <1>5, ViewFields, ViewFieldsNext
      <3>4. View(c)' = [u EXCEPT !.subs = View(c).subs]
        BY <1>0, <1>1, <1>3, <3>1, <3>3
      <3>5. View(c).subs \cup {} = View(c).subs
        OBVIOUS
      <3>6. QED  BY <3>2, <3>4, <3>5
    <2>2. Abs(c)!AuthenticateDashboard(c, {})
      BY <1>1, <1>5, <2>1 DEF Abs!AuthenticateDashboard, Abs!Receives, Conns
    <2>3. QED  BY <2>2, OnlyOne DEF Abs!ConnNext
  <1>6. QED  BY <1>4, <1>5

LEMMA AbsHealth ==
    ASSUME NEW c \in Conns, Open(c), sock'[c] = sock[c], agent'[c] = agent[c],
           entry'[c].inPool = entry[c].inPool
    PROVE  Abs(c)!ConnNext
  <1> DEFINE h == View(c)'.healthy
  <1>1. /\ View(c).sock = "open" /\ View(c)'.sock = "open"
        /\ View(c)'.inPool = View(c).inPool
        /\ View(c)'.agentId = View(c).agentId /\ View(c)'.subs = View(c).subs
    BY ViewFields, ViewFieldsNext
  <1>2. View(c)'.auth = View(c).auth
    BY ViewFields, ViewFieldsNext
  <1>3. View(c)' = [View(c) EXCEPT !.healthy = h] /\ h \in BOOLEAN
    BY <1>1, <1>2, ViewFields, ViewFieldsNext
  <1>4. Abs(c)!SetHealth(c, h)
    BY <1>1, <1>3 DEF Abs!SetHealth
  <1>5. QED  BY <1>3, <1>4, OnlyOne DEF Abs!ConnNext

LEMMA AbsBeginClose ==
    ASSUME NEW c \in Conns, Open(c), sock'[c] = "closing", agent'[c] = agent[c],
           NEW drop \in BOOLEAN, entry'[c].inPool = ~drop
    PROVE  Abs(c)!ConnNext
  <1>1. /\ View(c).sock = "open" /\ View(c)'.sock = "closing" /\ View(c)'.inPool = ~drop
        /\ View(c)'.agentId = View(c).agentId /\ View(c)'.subs = View(c).subs
    BY ViewFields, ViewFieldsNext
  <1>2. View(c)'.auth = View(c).auth
    BY ViewFields, ViewFieldsNext
  <1>3. View(c)'.healthy = TRUE
    BY ViewFields, ViewFieldsNext
  <1>4. View(c)' = [View(c) EXCEPT !.sock = "closing", !.inPool = ~drop, !.healthy = TRUE]
    <2> DEFINE u == [View(c) EXCEPT !.sock = "closing"]
               v == [u EXCEPT !.inPool = ~drop]
    <2>1. u = [sock |-> "closing", inPool |-> View(c).inPool, auth |-> View(c).auth,
               healthy |-> View(c).healthy, agentId |-> View(c).agentId, subs |-> View(c).subs]
      BY ViewFields
    <2> HIDE DEF u
    <2>2. v = [sock |-> "closing", inPool |-> ~drop, auth |-> View(c).auth,
               healthy |-> View(c).healthy, agentId |-> View(c).agentId, subs |-> View(c).subs]
      BY <2>1
    <2> HIDE DEF v
    <2>3. View(c)' = [v EXCEPT !.healthy = TRUE]
      BY <1>1, <1>2, <1>3, <2>2, ViewFields, ViewFieldsNext
    <2>4. QED  BY <2>3 DEF u, v
  <1>5. Abs(c)!BeginClose(c, drop)
    BY <1>1, <1>4 DEF Abs!BeginClose
  <1>6. QED  BY <1>5, OnlyOne DEF Abs!ConnNext

LEMMA AbsRemove ==
    ASSUME NEW c \in Conns, sock[c] = "closing", sock'[c] = "closing", agent'[c] = agent[c],
           entry'[c].inPool = FALSE
    PROVE  Abs(c)!ConnNext
  <1>1. /\ View(c).sock = "closing" /\ View(c)'.sock = View(c).sock /\ View(c)'.inPool = FALSE
        /\ View(c)'.agentId = View(c).agentId /\ View(c)'.subs = View(c).subs
    BY ViewFields, ViewFieldsNext
  <1>2. View(c)'.auth = View(c).auth
    BY ViewFields, ViewFieldsNext
  <1>3. View(c)'.healthy = View(c).healthy
    BY ViewFields, ViewFieldsNext
  <1>4. View(c)' = [View(c) EXCEPT !.inPool = FALSE]
    BY <1>1, <1>2, <1>3, ViewFields, ViewFieldsNext
  <1>5. Abs(c)!RemoveConnection(c)
    BY <1>1, <1>4 DEF Abs!RemoveConnection
  <1>6. QED  BY <1>5, OnlyOne DEF Abs!ConnNext

LEMMA AbsClosed ==
    ASSUME NEW c \in Conns, sock[c] = "closing", sock'[c] = "closed", agent'[c] = None,
           entry'[c] = NoEntry
    PROVE  Abs(c)!ConnNext
  <1>1. View(c).sock = "closing"
    BY ViewFields
  <1>2. View(c)' = [sock |-> "closed", inPool |-> FALSE, auth |-> FALSE,
                    healthy |-> TRUE, agentId |-> None, subs |-> {}]
    BY ViewFieldsNext
  <1>3. Abs(c)!Closed(c)
    BY <1>1, <1>2 DEF Abs!Closed, Abs!Receives, Abs!NewConnection
  <1>4. QED  BY <1>3, OnlyOne DEF Abs!ConnNext

Implemented(c) == Abs(c)!ConnNext \/ UNCHANGED View(c)

\* A step that leaves alone what the router sees.
LEMMA NothingSeen ==
    ASSUME NEW c, sock'[c] = sock[c], agent'[c] = agent[c],
           entry'[c].inPool = entry[c].inPool,
           entry'[c].status = entry[c].status \/ sock[c] # "open"
    PROVE  UNCHANGED View(c)
  BY DEF View

LEMMA ConnectionSteps ==
    ASSUME PoolInv, NEW c \in Conns, ConnectionStep(c)
    PROVE  Implemented(c)
  <1>1. CASE AddConnection(c)
    <2>1. /\ sock[c] = "new" /\ sock'[c] = "open" /\ entry'[c] = NewEntry
          /\ agent'[c] = agent[c]
      BY <1>1, PoolFacts DEF AddConnection, AreFunctions
    <2>2. QED  BY <2>1, AbsAdd DEF Implemented, NewEntry
  <1>2. CASE PeerSpeaks(c) \/ ServerSends(c)
    <2>1. /\ sock'[c] = sock[c] /\ agent'[c] = agent[c]
          /\ entry'[c].inPool = entry[c].inPool /\ entry'[c].status = entry[c].status
      BY <1>2, PoolFacts, RecordTypes
         DEF PeerSpeaks, ServerSends, Active, AreFunctions, EntryRecord
    <2>2. QED  BY <2>1, NothingSeen DEF Implemented
  <1>3. CASE AuthTimesOut(c) \/ PeerCloses(c) \/ SocketError(c)
    <2>1. /\ sock[c] = "open" /\ sock'[c] = "closing" /\ agent'[c] = agent[c]
          /\ entry'[c].inPool = entry[c].inPool
      BY <1>3, PoolFacts, RecordTypes
         DEF AuthTimesOut, PeerCloses, SocketError, AreFunctions, EntryRecord
    <2>2. entry'[c].inPool = ~FALSE
      BY <2>1, PoolFacts, Counters DEF ConnInv, PartsAgree
    <2>3. QED  BY <2>1, <2>2, AbsBeginClose DEF Implemented
  <1>4. CASE SocketClosed(c)
    <2>1. /\ sock[c] = "closing" /\ sock'[c] = "closed" /\ entry'[c] = NoEntry
          /\ agent'[c] = None
      BY <1>4, PoolFacts DEF SocketClosed, RemoveConnection, AreFunctions
    <2>2. QED  BY <2>1, AbsClosed DEF Implemented
  <1>5. ASSUME NEW a \in AgentIds \cup {c}, Authenticate(c, a) PROVE Implemented(c)
    <2>1. /\ sock[c] # "new" /\ sock'[c] = sock[c] /\ agent'[c] = a
          /\ entry'[c].inPool = entry[c].inPool /\ entry'[c].status = entry[c].status
          /\ IF c \in AgentConns THEN a \in AgentIds ELSE a = c
      BY <1>5, PoolFacts, RecordTypes
         DEF Authenticate, UpdateConnection, AreFunctions, EntryRecord
    <2>2. a # None
      BY <2>1, PoolAssumption
    <2>3. CASE sock[c] = "closed"
      BY <2>1, <2>3 DEF View, Implemented
    <2>4. CASE Listening(c)
      BY <2>1, <2>2, <2>4, AbsAuthenticate DEF Implemented
    <2>5. sock[c] \in {"new", "open", "closing", "closed"}
      BY PoolFacts DEF ConnTypeOK
    <2>6. QED  BY <2>1, <2>3, <2>4, <2>5
  <1>6. ASSUME sock'[c] = sock[c], agent'[c] = agent[c], entry'[c].inPool = entry[c].inPool
        PROVE  Implemented(c)
    <2>1. CASE sock[c] = "open"
      BY <1>6, <2>1, AbsHealth DEF Implemented
    <2>2. CASE sock[c] # "open"
      BY <1>6, <2>2, NothingSeen DEF Implemented
    <2>3. QED  BY <2>1, <2>2
  <1>7. CASE HandlePong(c)
    <2>1. sock'[c] = sock[c] /\ agent'[c] = agent[c]
      BY <1>7, PoolFacts DEF HandlePong, AreFunctions
    <2>2. CASE entry[c].inPool
      <3>1. PICK status \in Health :
              entry' = [entry EXCEPT ![c].status = status, ![c].failedPings = 0, ![c].idle = 0]
        BY <1>7, <2>2 DEF HandlePong, Health
      <3>2. entry'[c].inPool = entry[c].inPool
        BY <3>1, PoolFacts, RecordTypes DEF AreFunctions, EntryRecord
      <3>3. QED  BY <1>6, <2>1, <3>2
    <2>3. CASE ~entry[c].inPool
      <3>1. entry'[c].inPool = entry[c].inPool
        BY <1>7, <2>3 DEF HandlePong
      <3>2. QED  BY <1>6, <2>1, <3>1
    <2>4. QED  BY <2>2, <2>3
  <1>8. CASE HandlePingTimeout(c)
    <2>1. agent'[c] = agent[c] /\ entry'[c].inPool = entry[c].inPool
      BY <1>8, PoolFacts, RecordTypes DEF HandlePingTimeout, AreFunctions, EntryRecord
    <2>2. sock'[c] = sock[c]
      <3>1. entry[c].inPool => ~(entry[c].failedPings + 1 >= 5)
        BY <1>8, PoolFacts, Counters DEF HandlePingTimeout, ConnInv, FailuresAreCleaned
      <3>2. QED  BY <1>8, <3>1 DEF HandlePingTimeout
    <2>3. QED  BY <1>6, <2>1, <2>2
  <1>9. CASE RecordPong(c)
    <2>1. sock'[c] = sock[c] /\ agent'[c] = agent[c] /\ entry'[c].inPool = entry[c].inPool
      BY <1>9, PoolFacts, RecordTypes DEF RecordPong, Active, AreFunctions, EntryRecord
    <2>2. QED  BY <1>6, <2>1
  <1>10. CASE CheckPongTimeout(c)
    <2>1. /\ agent'[c] = agent[c] /\ entry'[c] = entry[c]
          /\ sock'[c] = IF TimedOut(c) /\ sock[c] = "open" THEN "closing" ELSE sock[c]
      BY <1>10, PoolFacts DEF CheckPongTimeout, AreFunctions
    <2>2. CASE TimedOut(c) /\ sock[c] = "open"
      <3>1. entry'[c].inPool = ~FALSE
        BY <2>1, <2>2, PoolFacts, Counters DEF ConnInv, PartsAgree
      <3>2. QED  BY <2>1, <2>2, <3>1, AbsBeginClose DEF Implemented
    <2>3. CASE ~(TimedOut(c) /\ sock[c] = "open")
      BY <1>6, <2>1, <2>3
    <2>4. QED  BY <2>2, <2>3
  <1>11. QED
    BY <1>1, <1>2, <1>3, <1>4, <1>5, <1>7, <1>8, <1>9, <1>10 DEF ConnectionStep

\* A connection that is dropped from the pool, as the clean-up and closeAll do it.
LEMMA Dropped ==
    ASSUME PoolInv, NEW c \in Conns, entry[c].inPool, entry'[c] = NoEntry,
           agent'[c] = agent[c],
           sock'[c] = IF sock[c] = "open" THEN "closing" ELSE sock[c]
    PROVE  Implemented(c)
  <1>1. CASE sock[c] = "open"
    <2>1. entry'[c].inPool = ~TRUE
      BY Fresh DEF EntryRecord
    <2>2. QED  BY <1>1, <2>1, AbsBeginClose DEF Implemented
  <1>2. CASE sock[c] = "closing"
    <2>1. entry'[c].inPool = FALSE
      BY Fresh DEF EntryRecord
    <2>2. QED  BY <1>2, <2>1, AbsRemove DEF Implemented
  <1>3. QED  BY <1>1, <1>2, PoolFacts DEF ConnInv, PartsAgree

LEMMA StepImplements ==
    ASSUME PoolInv, [PoolNext]_poolVars, NEW c \in Conns
    PROVE  Implemented(c)
  <1>1. ASSUME NEW d \in Conns, ConnectionStep(d) PROVE Implemented(c)
    <2>1. CASE d = c
      BY <1>1, <2>1, ConnectionSteps
    <2>2. CASE d # c
      <3>1. sock'[c] = sock[c] /\ agent'[c] = agent[c] /\ entry'[c] = entry[c]
        BY <1>1, <2>2, PoolFacts
           DEF ConnectionStep, AddConnection, PeerSpeaks, ServerSends, AuthTimesOut, PeerCloses,
               SocketError, SocketClosed, Authenticate, HandlePong, HandlePingTimeout,
               RecordPong, CheckPongTimeout, Active, UpdateConnection, RemoveConnection,
               AreFunctions
      <3>2. QED  BY <3>1, NothingSeen DEF Implemented
    <2>3. QED  BY <2>1, <2>2
  <1>2. CASE PerformHealthChecks \/ PingAllConnections \/ UNCHANGED poolVars
    <2>1. sock' = sock /\ agent' = agent /\ entry' = entry
      BY <1>2 DEF PerformHealthChecks, PingAllConnections, poolVars
    <2>2. QED  BY <2>1, NothingSeen DEF Implemented
  <1>3. CASE Tick
    <2>1. /\ sock' = sock /\ agent' = agent
          /\ entry'[c].inPool = entry[c].inPool /\ entry'[c].status = entry[c].status
      BY <1>3, RecordTypes DEF Tick, EntryRecord
    <2>2. QED  BY <2>1, NothingSeen DEF Implemented
  <1>4. CASE PerformCleanup
    <2>1. CASE Stale(c) \/ Unauthenticated(c)
      <3>1. /\ entry[c].inPool /\ entry'[c] = NoEntry /\ agent'[c] = agent[c]
            /\ sock'[c] = IF sock[c] = "open" THEN "closing" ELSE sock[c]
        BY <1>4, <2>1 DEF PerformCleanup, Stale, Unauthenticated
      <3>2. QED  BY <3>1, Dropped
    <2>2. CASE ~(Stale(c) \/ Unauthenticated(c))
      <3>1. entry'[c] = entry[c] /\ agent'[c] = agent[c] /\ sock'[c] = sock[c]
        BY <1>4, <2>2 DEF PerformCleanup
      <3>2. QED  BY <3>1, NothingSeen DEF Implemented
    <2>3. QED  BY <2>1, <2>2
  <1>5. CASE CloseAll
    <2>1. /\ entry'[c] = NoEntry /\ agent'[c] = agent[c]
          /\ sock'[c] = IF entry[c].inPool /\ sock[c] = "open" THEN "closing" ELSE sock[c]
      BY <1>5 DEF CloseAll
    <2>2. CASE entry[c].inPool
      BY <2>1, <2>2, Dropped
    <2>3. CASE ~entry[c].inPool
      <3>1. sock[c] # "open" /\ entry[c].inPool = FALSE
        BY <2>3, PoolFacts, Counters DEF ConnInv, PartsAgree
      <3>2. sock'[c] = sock[c] /\ agent'[c] = agent[c]
        BY <2>1, <2>3
      <3>3. entry'[c].inPool = FALSE
        BY <2>1, Fresh DEF EntryRecord
      <3>4. entry'[c].inPool = entry[c].inPool
        BY <3>1, <3>3
      <3>5. QED  BY <3>1, <3>2, <3>4, NothingSeen DEF Implemented
    <2>4. QED  BY <2>2, <2>3
  <1>6. QED  BY <1>1, <1>2, <1>3, <1>4, <1>5 DEF PoolNext, TimerStep

(* Every step of the pool, the pings, the heartbeat and the handlers is,    *)
(* for each connection, a step of Connections or none: what the message     *)
(* router assumes of connections is what the server's parts provide.        *)
THEOREM PoolImplementsConnections == PoolSpec => ImplementsConnections
  <1>1. ASSUME PoolInit, NEW c \in Conns PROVE Abs(c)!ConnInit
    <2>1. View(c) = [sock |-> "new", inPool |-> FALSE, auth |-> FALSE,
                     healthy |-> TRUE, agentId |-> None, subs |-> {}]
      BY <1>1 DEF PoolInit, View
    <2>2. QED  BY <2>1, OnlyOne DEF Abs!ConnInit, Abs!NewConnection
  <1>2. PoolInv /\ [PoolNext]_poolVars =>
          [\A c \in Conns : Abs(c)!ConnNext \/ UNCHANGED View(c)]_poolVars
    BY StepImplements DEF Implemented
  <1>3. PoolInit => \A c \in Conns : Abs(c)!ConnInit
    BY <1>1
  <1>4. QED  BY <1>2, <1>3, PoolInvariant, PTL DEF PoolSpec, ImplementsConnections
=============================================================================
