----------------------- MODULE AgentPresenceProofs -----------------------
(***************************************************************************)
(* For any number of agents, connections, failed calls and crashes: rows   *)
(* that say online carry a heartbeat, so that the monitor's scan, which    *)
(* skips rows without one, overlooks no agent; and a running timer has an  *)
(* entry to disconnect.                                                    *)
(***************************************************************************)
EXTENDS AgentPresence, SequenceTheorems, TLAPS

Row == [status : {"connected", "disconnected"}, pinged : BOOLEAN,
        age : 0..(Limit + 1)]

Scanned(row) == row.status = "connected" => row.pinged

RowsInv == db \in [AgentIds -> Row] /\ \A a \in AgentIds : Scanned(db[a])

(* Whichever of the writes comes, the row it leaves is one the scan sees.   *)
LEMMA WrittenRows ==
    ASSUME NEW row \in Row, Scanned(row), NEW status
    PROVE  /\ Online \in Row /\ Scanned(Online)
           /\ Disconnected(row) \in Row /\ Scanned(Disconnected(row))
           /\ Marked(row, status) \in Row
           /\ status # "online" => Scanned(Marked(row, status))
           /\ Pinged(row) \in Row /\ Scanned(Pinged(row))
  <1>1. \A s : ToDbStatus(s) \in {"connected", "disconnected"}
    BY DEF ToDbStatus
  <1>2. status # "online" => ToDbStatus(status) = "disconnected"
    BY DEF ToDbStatus
  <1>3. ToDbStatus("OFFLINE") = "disconnected"
    BY DEF ToDbStatus
  <1>4. 0 \in 0..(Limit + 1)
    BY PresenceAssumption
  <1>5. QED
    BY <1>1, <1>2, <1>3, <1>4
       DEF Row, Scanned, Online, Disconnected, Marked, Pinged

LEMMA WriteKeepsRows ==
    ASSUME RowsInv, NEW a, NEW row,
           a \in AgentIds => row \in Row /\ Scanned(row),
           Write(a, row)
    PROVE  RowsInv'
  <1>1. CASE a \in AgentIds
    BY <1>1 DEF RowsInv, Write
  <1>2. CASE a \notin AgentIds
    BY <1>2 DEF RowsInv, Write
  <1>3. QED  BY <1>1, <1>2

LEMMA HandlerKeepsRows ==
    ASSUME RowsInv, NEW c \in AgentConns, HandlerStep(c)
    PROVE  RowsInv'
  <1>1. ASSUME NEW a \in AgentIds
        PROVE  db[a] \in Row /\ Scanned(db[a])
    BY DEF RowsInv
  <1>2. CASE WriteOnline(c)
    <2>1. claim[c] \in AgentIds => Online \in Row /\ Scanned(Online)
      BY <1>1, WrittenRows
    <2>2. QED  BY <1>2, <2>1, WriteKeepsRows DEF WriteOnline
  <1>3. CASE WriteOffline(c)
    <2>1. agentId[c] \in AgentIds =>
            /\ Disconnected(db[agentId[c]]) \in Row
            /\ Scanned(Disconnected(db[agentId[c]]))
      BY <1>1, WrittenRows
    <2>2. QED  BY <1>3, <2>1, WriteKeepsRows DEF WriteOffline
  <1>4. CASE WriteUpdate(c)
    <2> DEFINE row == IF update[c] = "pong" THEN Pinged(db[agentId[c]])
                      ELSE Marked(db[agentId[c]], "ERROR")
    <2>1. agentId[c] \in AgentIds => row \in Row /\ Scanned(row)
      BY <1>1, WrittenRows
    <2>2. Write(agentId[c], row)
      BY <1>4 DEF WriteUpdate
    <2> HIDE DEF row
    <2>3. QED  BY <2>1, <2>2, WriteKeepsRows
  <1>5. CASE EnterConnection(c) \/ CompleteConnect(c)
    BY <1>5 DEF RowsInv, EnterConnection, CompleteConnect, world
  <1>6. QED  BY <1>2, <1>3, <1>4, <1>5 DEF HandlerStep

LEMMA TaskKeepsRows ==
    ASSUME RowsInv, NEW t \in Tasks, TaskStep(t)
    PROVE  RowsInv'
  <1>1. CASE MarkOffline(t)
    <2> DEFINE a == job[t].agent
    <2>1. a \in AgentIds =>
            Marked(db[a], "offline") \in Row /\ Scanned(Marked(db[a], "offline"))
      BY WrittenRows DEF RowsInv
    <2>2. Write(a, Marked(db[a], "offline"))
      BY <1>1 DEF MarkOffline
    <2> HIDE DEF a
    <2>3. QED  BY <2>1, <2>2, WriteKeepsRows
  <1>2. CASE FindConnection(t) \/ ClearConnection(t)
    BY <1>2 DEF RowsInv, FindConnection, ClearConnection, world
  <1>3. QED  BY <1>1, <1>2 DEF TaskStep

LEMMA TickKeepsRows ==
    ASSUME RowsInv, Tick
    PROVE  RowsInv'
  <1> DEFINE age(a) == IF IsOnline(a) /\ db[a].age <= Limit THEN db[a].age + 1 ELSE db[a].age
  <1>1. Limit \in Nat
    BY PresenceAssumption
  <1>2. ASSUME NEW a \in AgentIds
        PROVE  db'[a] \in Row /\ Scanned(db'[a])
    <2>1. db[a] \in Row /\ Scanned(db[a]) /\ db[a].age \in 0..(Limit + 1)
      BY DEF RowsInv, Row
    <2>2. age(a) \in 0..(Limit + 1)
      BY <1>1, <2>1
    <2>3. db'[a] = [db[a] EXCEPT !.age = age(a)]
      BY DEF Tick
    <2> HIDE DEF age
    <2>4. QED  BY <2>1, <2>2, <2>3 DEF Row, Scanned
  <1>3. db' = [a \in AgentIds |-> db'[a]]
    BY DEF Tick
  <1>4. QED  BY <1>2, <1>3 DEF RowsInv

(* No other step touches a row.                                             *)
LEMMA RowsUntouched ==
    ASSUME \/ \E c \in AgentConns : AgentStep(c)
           \/ \E a \in AgentIds : TimerFires(a) \/ MarkNext(a)
           \/ CheckForStaleAgents \/ Failure \/ Restart \/ UNCHANGED presenceVars
    PROVE  db' = db
  <1>1. CASE \E c \in AgentConns : AgentStep(c)
    BY <1>1 DEF AgentStep, AgentConnects, ConnectionCloses, MessageArrives, world
  <1>2. CASE \E a \in AgentIds : TimerFires(a) \/ MarkNext(a)
    BY <1>2 DEF TimerFires, MarkNext, world
  <1>3. CASE CheckForStaleAgents \/ Restart \/ UNCHANGED presenceVars
    BY <1>3 DEF CheckForStaleAgents, Restart, presenceVars, world
  <1>4. CASE Failure
    BY <1>4 DEF Failure, ConnectFails, DisconnectFails, UpdateFails, TimerTaskFails,
                CheckFails, Crash, ProcessEnds
  <1>5. QED  BY <1>1, <1>2, <1>3, <1>4

(* What the rows of the agents keep over every write.                       *)
THEOREM RowsInvariant == PresenceSpec => []RowsInv
  <1>1. PresenceInit => RowsInv
    BY PresenceAssumption DEF PresenceInit, RowsInv, Row, Scanned
  <1>2. RowsInv /\ [PresenceNext]_presenceVars => RowsInv'
    <2> SUFFICES ASSUME RowsInv, [PresenceNext]_presenceVars  PROVE RowsInv'
      OBVIOUS
    <2>1. CASE db' = db
      BY <2>1 DEF RowsInv
    <2>2. CASE \E c \in AgentConns : HandlerStep(c)
      BY <2>2, HandlerKeepsRows
    <2>3. CASE \E t \in Tasks : TaskStep(t)
      BY <2>3, TaskKeepsRows
    <2>4. CASE Tick
      BY <2>4, TickKeepsRows
    <2>5. QED
      BY <2>1, <2>2, <2>3, <2>4, RowsUntouched DEF PresenceNext, TimerStep, TimePasses
  <1>3. QED  BY <1>1, <1>2, PTL DEF PresenceSpec

(* Every row that says online has a last_ping, over all interleavings of    *)
(* connects, disconnects, PONGs, time-outs, failed calls and crashes.       *)
THEOREM OnlineRowsHaveHeartbeat == PresenceSpec => []OnlineHasHeartbeat
  <1>1. RowsInv => OnlineHasHeartbeat
    BY DEF RowsInv, Scanned, OnlineHasHeartbeat, IsOnline
  <1>2. QED  BY <1>1, RowsInvariant, PTL

-----------------------------------------------------------------------------
(* The process's memory: its entries, timers and tasks.                     *)

Job == [at : {"idle", "mark", "find", "disconnect", "clear"},
        agent : AgentIds \cup {None}, conn : AgentConns \cup {None}]

MemoryTypes ==
    /\ sock \in [AgentConns -> {"new", "open", "closed"}]
    /\ claim \in [AgentConns -> AgentIds \cup {None}]
    /\ connect \in [AgentConns ->
                      {"none", "resolving", "written", "entered", "done", "failed"}]
    /\ agentId \in [AgentConns -> AgentIds \cup {None}]
    /\ leave \in [AgentConns -> BOOLEAN]
    /\ update \in [AgentConns -> {"none", "pong", "error"}]
    /\ active \in Seq(AgentConns)
    /\ timer \in [AgentIds -> [set : BOOLEAN, left : 0..Limit]]
    /\ job \in [Tasks -> Job]
    /\ stale \subseteq AgentIds
    /\ checkDue \in BOOLEAN /\ up \in BOOLEAN
    /\ faults \in 0..MaxFaults

(* Entries and tasks are about connections that have named their agent, and *)
(* a task disconnects an entry of the agent it has marked.                  *)
EntriesAreKnown ==
    /\ \A c \in AgentConns : sock[c] = "new" => connect[c] = "none"
    /\ \A i \in DOMAIN active : sock[active[i]] # "new"
    /\ \A t \in Tasks : job[t].at \in {"disconnect", "clear"} =>
          /\ job[t].conn \in AgentConns /\ sock[job[t].conn] # "new"
          /\ claim[job[t].conn] = job[t].agent

MemoryInv == MemoryTypes /\ EntriesAreKnown /\ TimerHasConnection

LEMMA DeletedFacts ==
    ASSUME NEW S, NEW s \in Seq(S), NEW c
    PROVE  /\ Deleted(s, c) \in Seq(S)
           /\ \A i \in DOMAIN s : s[i] # c => \E j \in DOMAIN Deleted(s, c) : Deleted(s, c)[j] = s[i]
           /\ \A j \in DOMAIN Deleted(s, c) : \E i \in DOMAIN s : Deleted(s, c)[j] = s[i]
  <1>1. CASE ~\E i \in DOMAIN s : s[i] = c
    BY <1>1 DEF Deleted
  <1>2. CASE \E i \in DOMAIN s : s[i] = c
    <2> DEFINE k == CHOOSE i \in DOMAIN s : s[i] = c
               n == Len(s)
               l == SubSeq(s, 1, k - 1)
               m == SubSeq(s, k + 1, n)
               r == l \o m
    <2>1. k \in DOMAIN s /\ s[k] = c
      BY <1>2
    <2>2. Deleted(s, c) = r
      BY <1>2 DEF Deleted, RemoveAt
    <2> HIDE DEF k
    <2>3. n \in Nat /\ DOMAIN s = 1..n /\ k \in 1..n /\ \A i \in 1..n : s[i] \in S
      BY <2>1
    <2>4. /\ l \in Seq(S) /\ Len(l) = k - 1
          /\ \A i \in 1..(k - 1) : l[i] = s[i]
      <3>1. 1 \in Int /\ k - 1 \in Int /\ \A i \in 1..(k - 1) : s[i] \in S
        BY <2>3
      <3>2. /\ l \in Seq(S) /\ Len(l) = IF 1 <= k - 1 THEN (k - 1) - 1 + 1 ELSE 0
            /\ \A i \in 1..((k - 1) - 1 + 1) : l[i] = s[1 + i - 1]
        BY <3>1, SubSeqProperties
      <3>3. QED  BY <2>3, <3>2
    <2>5. /\ m \in Seq(S) /\ Len(m) = n - k
          /\ \A i \in 1..(n - k) : m[i] = s[k + i]
      <3>1. k + 1 \in Int /\ n \in Int /\ \A i \in (k + 1)..n : s[i] \in S
        BY <2>3
      <3>2. /\ m \in Seq(S) /\ Len(m) = IF k + 1 <= n THEN n - (k + 1) + 1 ELSE 0
            /\ \A i \in 1..(n - (k + 1) + 1) : m[i] = s[(k + 1) + i - 1]
        BY <3>1, SubSeqProperties
      <3> HIDE DEF m, n
      <3>3. n - (k + 1) + 1 = n - k /\ (IF k + 1 <= n THEN n - (k + 1) + 1 ELSE 0) = n - k
        BY <2>3
      <3>4. \A i \in 1..(n - k) : (k + 1) + i - 1 = k + i
        BY <2>3
      <3>5. QED  BY <3>2, <3>3, <3>4
    <2> HIDE DEF l, m, n
    <2>6. /\ r \in Seq(S) /\ Len(r) = n - 1
          /\ \A i \in 1..(k - 1) : r[i] = s[i]
          /\ \A i \in 1..(n - k) : r[k - 1 + i] = s[k + i]
      <3>1. /\ r \in Seq(S) /\ Len(r) = Len(l) + Len(m)
            /\ \A i \in 1..(Len(l) + Len(m)) :
                  r[i] = IF i <= Len(l) THEN l[i] ELSE m[i - Len(l)]
        BY <2>4, <2>5, ConcatProperties
      <3>2. Len(r) = n - 1
        BY <2>3, <2>4, <2>5, <3>1
      <3>3. ASSUME NEW i \in 1..(k - 1) PROVE r[i] = s[i]
        BY <2>3, <2>4, <2>5, <3>1
      <3>4. ASSUME NEW i \in 1..(n - k) PROVE r[k - 1 + i] = s[k + i]
        <4>1. k - 1 + i \in 1..(Len(l) + Len(m)) /\ ~(k - 1 + i <= Len(l))
              /\ (k - 1 + i) - Len(l) = i
          BY <2>3, <2>4, <2>5
        <4>2. QED  BY <2>5, <3>1, <4>1
      <3>5. QED  BY <3>1, <3>2, <3>3, <3>4
    <2>7. DOMAIN r = 1..(n - 1)
      BY <2>6
    <2>8. ASSUME NEW i \in DOMAIN s, s[i] # c
          PROVE  \E j \in DOMAIN r : r[j] = s[i]
      <3>1. CASE i < k
        <4>1. i \in 1..(k - 1) /\ i \in 1..(n - 1)
          BY <2>3, <3>1
        <4>2. QED  BY <2>6, <2>7, <4>1
      <3>2. CASE i > k
        <4>1. i - k \in 1..(n - k) /\ k - 1 + (i - k) = i - 1 /\ k + (i - k) = i
              /\ i - 1 \in 1..(n - 1)
          BY <2>3, <3>2
        <4>2. QED  BY <2>6, <2>7, <4>1
      <3>3. QED  BY <2>1, <2>3, <2>8, <3>1, <3>2
    <2>9. ASSUME NEW j \in DOMAIN r
          PROVE  \E i \in DOMAIN s : r[j] = s[i]
      <3>1. CASE j < k
        <4>1. j \in 1..(k - 1) /\ j \in 1..n
          BY <2>3, <2>7, <3>1
        <4>2. QED  BY <2>3, <2>6, <4>1
      <3>2. CASE j >= k
        <4>1. j + 1 - k \in 1..(n - k) /\ k - 1 + (j + 1 - k) = j /\ k + (j + 1 - k) = j + 1
              /\ j + 1 \in 1..n
          BY <2>3, <2>7, <3>2
        <4>2. QED  BY <2>3, <2>6, <4>1
      <3>3. QED  BY <2>3, <2>7, <3>1, <3>2
    <2>10. QED  BY <2>2, <2>6, <2>8, <2>9
  <1>3. QED  BY <1>1, <1>2

LEMMA JobUpdate ==
    ASSUME job \in [Tasks -> Job], NEW t \in Tasks, NEW r \in Job,
           job' = [job EXCEPT ![t] = r]
    PROVE  /\ job' \in [Tasks -> Job] /\ job'[t] = r
           /\ \A u \in Tasks : u # t => job'[u] = job[u]
  OBVIOUS

(* The handlers of a connection.                                            *)
LEMMA ConnectsKeeps ==
    ASSUME MemoryInv, NEW c \in AgentConns, NEW a \in AgentIds, AgentConnects(c, a)
    PROVE  MemoryInv'
  <1>1. /\ sock[c] = "new"
        /\ sock' = [sock EXCEPT ![c] = "open"]
        /\ claim' = [claim EXCEPT ![c] = a]
        /\ connect' = [connect EXCEPT ![c] = "resolving"]
        /\ UNCHANGED <<agentId, leave, update, active, timer, job, stale, checkDue, up, faults>>
    BY DEF AgentConnects, world
  <1>2. MemoryTypes /\ EntriesAreKnown /\ TimerHasConnection
    BY DEF MemoryInv
  <1>3. MemoryTypes'
    BY <1>1, <1>2 DEF MemoryTypes
  <1>4. \A x \in AgentConns : sock[x] # "new" => sock'[x] # "new" /\ claim'[x] = claim[x]
    BY <1>1, <1>2 DEF MemoryTypes
  <1>5. \A i \in DOMAIN active : active[i] \in AgentConns /\ claim'[active[i]] = claim[active[i]]
    BY <1>2, <1>4 DEF MemoryTypes, EntriesAreKnown
  <1>6. EntriesAreKnown'
    <2>1. \A x \in AgentConns : sock'[x] = "new" => connect'[x] = "none"
      BY <1>1, <1>2 DEF MemoryTypes, EntriesAreKnown
    <2>2. \A i \in DOMAIN active' : sock'[active'[i]] # "new"
      BY <1>1, <1>2, <1>4, <1>5 DEF EntriesAreKnown
    <2>3. \A t \in Tasks : job'[t].at \in {"disconnect", "clear"} =>
             /\ job'[t].conn \in AgentConns /\ sock'[job'[t].conn] # "new"
             /\ claim'[job'[t].conn] = job'[t].agent
      BY <1>1, <1>2, <1>4 DEF EntriesAreKnown
    <2>4. QED  BY <2>1, <2>2, <2>3 DEF EntriesAreKnown
  <1>7. TimerHasConnection'
    BY <1>1, <1>2, <1>5 DEF TimerHasConnection
  <1>8. QED  BY <1>3, <1>6, <1>7 DEF MemoryInv

LEMMA EnterKeeps ==
    ASSUME MemoryInv, NEW c \in AgentConns, EnterConnection(c)
    PROVE  MemoryInv'
  <1>1. /\ connect[c] = "written"
        /\ connect' = [connect EXCEPT ![c] = "entered"]
        /\ active' = Append(active, c)
        /\ timer' = [timer EXCEPT ![claim[c]] = [set |-> TRUE, left |-> Limit]]
        /\ UNCHANGED <<sock, claim, agentId, leave, update, job, stale, checkDue, up, faults>>
    BY DEF EnterConnection, world
  <1>2. MemoryTypes /\ EntriesAreKnown /\ TimerHasConnection
    BY DEF MemoryInv
  <1>3. /\ active' \in Seq(AgentConns) /\ Len(active) \in Nat /\ Len(active') = Len(active) + 1
        /\ \A i \in DOMAIN active : i \in DOMAIN active' /\ active'[i] = active[i]
        /\ Len(active) + 1 \in DOMAIN active' /\ active'[Len(active) + 1] = c
        /\ \A i \in DOMAIN active' : i \in DOMAIN active \/ i = Len(active) + 1
    <2>1. active \in Seq(AgentConns)
      BY <1>2 DEF MemoryTypes
    <2>2. /\ active' \in Seq(AgentConns) /\ Len(active') = Len(active) + 1
          /\ \A i \in 1..Len(active) : active'[i] = active[i]
          /\ active'[Len(active) + 1] = c
      BY <1>1, <2>1, AppendProperties
    <2>3. /\ Len(active) \in Nat /\ DOMAIN active = 1..Len(active)
          /\ DOMAIN active' = 1..Len(active')
      BY <2>1, <2>2
    <2>4. QED  BY <2>2, <2>3
  <1>4. MemoryTypes'
    <2> DEFINE on == [set |-> TRUE, left |-> Limit]
    <2>1. on \in [set : BOOLEAN, left : 0..Limit]
      BY PresenceAssumption
    <2> HIDE DEF on
    <2>2. timer' = [timer EXCEPT ![claim[c]] = on]
      BY <1>1 DEF on
    <2>3. timer' \in [AgentIds -> [set : BOOLEAN, left : 0..Limit]]
      BY <1>2, <2>1, <2>2 DEF MemoryTypes
    <2>4. QED  BY <1>1, <1>2, <1>3, <2>3 DEF MemoryTypes
  <1>5. sock[c] # "new"
    BY <1>1, <1>2 DEF EntriesAreKnown
  <1>6. EntriesAreKnown'
    <2>1. \A x \in AgentConns : sock'[x] = "new" => connect'[x] = "none"
      BY <1>1, <1>2, <1>5 DEF MemoryTypes, EntriesAreKnown
    <2>2. \A i \in DOMAIN active' : sock'[active'[i]] # "new"
      BY <1>1, <1>2, <1>3, <1>5 DEF EntriesAreKnown
    <2>3. QED  BY <1>1, <1>2, <2>1, <2>2 DEF EntriesAreKnown
  <1>7. TimerHasConnection'
    <2> SUFFICES ASSUME NEW a \in AgentIds, timer'[a].set
                 PROVE  \E i \in DOMAIN active' : claim'[active'[i]] = a
      BY DEF TimerHasConnection
    <2>1. CASE a = claim[c]
      BY <1>1, <1>3, <2>1
    <2>2. CASE a # claim[c]
      <3>1. timer'[a] = timer[a]
        BY <1>1, <1>2, <2>2 DEF MemoryTypes
      <3>2. PICK i \in DOMAIN active : claim[active[i]] = a
        BY <1>2, <3>1 DEF TimerHasConnection
      <3>3. QED  BY <1>1, <1>3, <3>2
    <2>3. QED  BY <2>1, <2>2
  <1>8. QED  BY <1>4, <1>6, <1>7 DEF MemoryInv

(* Steps of a connection that leave entries, timers and tasks alone.        *)
LEMMA ConnectionKeeps ==
    ASSUME MemoryInv, NEW c \in AgentConns,
           \/ WriteOnline(c) \/ CompleteConnect(c) \/ WriteOffline(c) \/ WriteUpdate(c)
           \/ ConnectionCloses(c) \/ MessageArrives(c) \/ ConnectFails(c)
           \/ DisconnectFails(c) \/ UpdateFails(c)
    PROVE  MemoryInv'
  <1>1. UNCHANGED <<claim, active, timer, job, stale, checkDue, up>>
    BY DEF WriteOnline, CompleteConnect, WriteOffline, WriteUpdate, ConnectionCloses,
           MessageArrives, ConnectFails, DisconnectFails, UpdateFails, world
  <1>2. MemoryTypes /\ EntriesAreKnown /\ TimerHasConnection
    BY DEF MemoryInv
  <1>3. sock' = sock \/ (sock[c] = "open" /\ sock' = [sock EXCEPT ![c] = "closed"])
    BY DEF WriteOnline, CompleteConnect, WriteOffline, WriteUpdate, ConnectionCloses,
           MessageArrives, ConnectFails, DisconnectFails, UpdateFails
  <1>4. \/ connect' = connect
        \/ /\ connect[c] # "none"
           /\ \E s \in {"written", "done", "failed"} : connect' = [connect EXCEPT ![c] = s]
    BY DEF WriteOnline, CompleteConnect, WriteOffline, WriteUpdate, ConnectionCloses,
           MessageArrives, ConnectFails, DisconnectFails, UpdateFails
  <1>5. agentId' = agentId \/ agentId' = [agentId EXCEPT ![c] = claim[c]]
    BY DEF WriteOnline, CompleteConnect, WriteOffline, WriteUpdate, ConnectionCloses,
           MessageArrives, ConnectFails, DisconnectFails, UpdateFails
  <1>6. leave' = leave \/ \E b \in BOOLEAN : leave' = [leave EXCEPT ![c] = b]
    BY DEF WriteOnline, CompleteConnect, WriteOffline, WriteUpdate, ConnectionCloses,
           MessageArrives, ConnectFails, DisconnectFails, UpdateFails
  <1>7. update' = update \/ \E u \in {"none", "pong", "error"} : update' = [update EXCEPT ![c] = u]
    BY DEF WriteOnline, CompleteConnect, WriteOffline, WriteUpdate, ConnectionCloses,
           MessageArrives, ConnectFails, DisconnectFails, UpdateFails
  <1>8. faults' = faults \/ Fault
    BY DEF WriteOnline, CompleteConnect, WriteOffline, WriteUpdate, ConnectionCloses,
           MessageArrives, ConnectFails, DisconnectFails, UpdateFails, world
  <1>9. faults' \in 0..MaxFaults
    BY <1>2, <1>8, PresenceAssumption DEF MemoryTypes, Fault
  <1>10. /\ sock' \in [AgentConns -> {"new", "open", "closed"}]
         /\ \A x \in AgentConns : sock'[x] = "new" <=> sock[x] = "new"
    BY <1>2, <1>3 DEF MemoryTypes
  <1>11. /\ connect' \in [AgentConns ->
                            {"none", "resolving", "written", "entered", "done", "failed"}]
         /\ \A x \in AgentConns : connect[x] = "none" => connect'[x] = "none"
    BY <1>2, <1>4 DEF MemoryTypes
  <1>12. agentId' \in [AgentConns -> AgentIds \cup {None}]
    BY <1>2, <1>5 DEF MemoryTypes
  <1>13. leave' \in [AgentConns -> BOOLEAN]
    BY <1>2, <1>6 DEF MemoryTypes
  <1>14. update' \in [AgentConns -> {"none", "pong", "error"}]
    BY <1>2, <1>7 DEF MemoryTypes
  <1>15. MemoryTypes'
    BY <1>1, <1>2, <1>9, <1>10, <1>11, <1>12, <1>13, <1>14 DEF MemoryTypes
  <1>16. EntriesAreKnown'
    <2>1. \A i \in DOMAIN active : active[i] \in AgentConns
      BY <1>2 DEF MemoryTypes
    <2>2. QED  BY <1>1, <1>2, <1>10, <1>11, <2>1 DEF EntriesAreKnown
  <1>17. TimerHasConnection'
    BY <1>1, <1>2 DEF TimerHasConnection
  <1>18. QED  BY <1>15, <1>16, <1>17 DEF MemoryInv

(* The timers' tasks and the monitor's.                                     *)
LEMMA NewTaskKeeps ==
    ASSUME MemoryInv, NEW a \in AgentIds, TimerFires(a) \/ MarkNext(a)
    PROVE  MemoryInv'
  <1> DEFINE t == IF TimerFires(a) THEN a ELSE Monitor
             r == [Idle EXCEPT !.at = "mark", !.agent = a]
  <1>1. /\ t \in Tasks /\ job' = [job EXCEPT ![t] = r]
        /\ timer' = timer \/ timer' = [timer EXCEPT ![a] = TimerOff]
        /\ stale' = stale \/ stale' = stale \ {a}
        /\ UNCHANGED <<sock, claim, connect, agentId, leave, update, active, checkDue, up, faults>>
    BY DEF TimerFires, MarkNext, Tasks, world
  <1>2. r = [[Idle EXCEPT !.at = "mark"] EXCEPT !.agent = a]
    OBVIOUS
  <1>3. r \in Job /\ r.at = "mark"
    <2> DEFINE q == [Idle EXCEPT !.at = "mark"]
    <2>1. q \in Job /\ q.at = "mark"
      BY DEF Idle, Job
    <2> HIDE DEF q
    <2>2. [q EXCEPT !.agent = a] \in Job /\ [q EXCEPT !.agent = a].at = "mark"
      BY <2>1 DEF Job
    <2>3. QED  BY <1>2, <2>2 DEF q
  <1> HIDE DEF t, r
  <1>4. MemoryTypes /\ EntriesAreKnown /\ TimerHasConnection
    BY DEF MemoryInv
  <1>5. /\ job' \in [Tasks -> Job] /\ job'[t] = r
        /\ \A u \in Tasks : u # t => job'[u] = job[u]
    BY <1>1, <1>3, <1>4, JobUpdate DEF MemoryTypes
  <1>6. TimerOff \in [set : BOOLEAN, left : 0..Limit] /\ ~TimerOff.set
    BY PresenceAssumption DEF TimerOff
  <1>7. /\ timer' \in [AgentIds -> [set : BOOLEAN, left : 0..Limit]]
        /\ \A b \in AgentIds : timer'[b].set => timer[b].set
    BY <1>1, <1>4, <1>6 DEF MemoryTypes
  <1>8. MemoryTypes'
    BY <1>1, <1>4, <1>5, <1>7 DEF MemoryTypes
  <1>9. EntriesAreKnown'
    BY <1>1, <1>3, <1>4, <1>5 DEF EntriesAreKnown
  <1>10. TimerHasConnection'
    BY <1>1, <1>4, <1>7 DEF TimerHasConnection
  <1>11. QED  BY <1>8, <1>9, <1>10 DEF MemoryInv

LEMMA MarkKeeps ==
    ASSUME MemoryInv, NEW t \in Tasks, MarkOffline(t)
    PROVE  MemoryInv'
  <1> DEFINE s == IF job[t].at = "mark" THEN "find" ELSE "clear"
             r == [job[t] EXCEPT !.at = s]
  <1>1. /\ job[t].at \in {"mark", "disconnect"}
        /\ job' = [job EXCEPT ![t].at = s]
        /\ UNCHANGED <<sock, claim, connect, agentId, leave, update, active, timer, stale,
                       checkDue, up, faults>>
    BY DEF MarkOffline
  <1>2. MemoryTypes /\ EntriesAreKnown /\ TimerHasConnection
    BY DEF MemoryInv
  <1>3. job \in [Tasks -> Job] /\ job[t] \in Job
    BY <1>2 DEF MemoryTypes
  <1>4. job' = [job EXCEPT ![t] = r]
    BY <1>1
  <1>5. s \in {"find", "clear"} /\ (s = "clear" => job[t].at = "disconnect")
    BY <1>1
  <1> HIDE DEF s
  <1>6. r \in Job /\ r.at = s /\ r.agent = job[t].agent /\ r.conn = job[t].conn
    BY <1>3, <1>5 DEF Job
  <1> HIDE DEF r
  <1>7. /\ job' \in [Tasks -> Job] /\ job'[t] = r
        /\ \A u \in Tasks : u # t => job'[u] = job[u]
    BY <1>3, <1>4, <1>6, JobUpdate
  <1>8. MemoryTypes'
    BY <1>1, <1>2, <1>7 DEF MemoryTypes
  <1>9. EntriesAreKnown'
    BY <1>1, <1>2, <1>5, <1>6, <1>7 DEF EntriesAreKnown
  <1>10. TimerHasConnection'
    BY <1>1, <1>2 DEF TimerHasConnection
  <1>11. QED  BY <1>8, <1>9, <1>10 DEF MemoryInv

LEMMA FindKeeps ==
    ASSUME MemoryInv, NEW t \in Tasks, FindConnection(t)
    PROVE  MemoryInv'
  <1>1. UNCHANGED <<sock, claim, connect, agentId, leave, update, active, timer, stale,
                    checkDue, up, faults>>
    BY DEF FindConnection, world
  <1>2. MemoryTypes /\ EntriesAreKnown /\ TimerHasConnection
    BY DEF MemoryInv
  <1>3. job \in [Tasks -> Job] /\ job[t] \in Job
    BY <1>2 DEF MemoryTypes
  <1>4. PICK r \in Job :
           /\ job' = [job EXCEPT ![t] = r]
           /\ r.at \in {"disconnect", "clear"} =>
                 /\ r.conn \in AgentConns /\ sock[r.conn] # "new" /\ claim[r.conn] = r.agent
    <2>1. CASE job' = [job EXCEPT ![t] = Idle]
      <3>1. Idle \in Job /\ Idle.at = "idle"
        BY DEF Idle, Job
      <3>2. QED  BY <2>1, <3>1
    <2>2. ASSUME NEW i \in DOMAIN active, claim[active[i]] = job[t].agent,
                 job' = [job EXCEPT ![t].at = "disconnect", ![t].conn = active[i]]
          PROVE  \E r \in Job :
                    /\ job' = [job EXCEPT ![t] = r]
                    /\ r.at \in {"disconnect", "clear"} =>
                          /\ r.conn \in AgentConns /\ sock[r.conn] # "new"
                          /\ claim[r.conn] = r.agent
      <3> DEFINE x == active[i]
                 q == [job[t] EXCEPT !.at = "disconnect"]
                 r == [q EXCEPT !.conn = x]
      <3>1. x \in AgentConns /\ sock[x] # "new" /\ claim[x] = job[t].agent
        BY <1>2, <2>2 DEF MemoryTypes, EntriesAreKnown
      <3>2. job' = [job EXCEPT ![t] = r]
        BY <1>3, <2>2
      <3>3. q \in Job /\ q.at = "disconnect" /\ q.agent = job[t].agent
        BY <1>3 DEF Job
      <3> HIDE DEF q, x
      <3>4. r \in Job /\ r.at = "disconnect" /\ r.conn = x /\ r.agent = job[t].agent
        BY <3>1, <3>3 DEF Job
      <3>5. QED  BY <3>1, <3>2, <3>4
    <2>3. QED  BY <2>1, <2>2 DEF FindConnection
  <1>5. /\ job' \in [Tasks -> Job] /\ job'[t] = r
        /\ \A u \in Tasks : u # t => job'[u] = job[u]
    BY <1>3, <1>4, JobUpdate
  <1>6. MemoryTypes'
    BY <1>1, <1>2, <1>5 DEF MemoryTypes
  <1>7. EntriesAreKnown'
    BY <1>1, <1>2, <1>4, <1>5 DEF EntriesAreKnown
  <1>8. TimerHasConnection'
    BY <1>1, <1>2 DEF TimerHasConnection
  <1>9. QED  BY <1>6, <1>7, <1>8 DEF MemoryInv

LEMMA ClearKeeps ==
    ASSUME MemoryInv, NEW t \in Tasks, ClearConnection(t)
    PROVE  MemoryInv'
  <1> DEFINE c == job[t].conn
             a == job[t].agent
  <1>1. /\ job[t].at = "clear" /\ job' = [job EXCEPT ![t] = Idle]
        /\ timer' = [timer EXCEPT ![a] = TimerOff] /\ active' = Deleted(active, c)
        /\ UNCHANGED <<sock, claim, connect, agentId, leave, update, stale, checkDue, up, faults>>
    BY DEF ClearConnection, StopTimer, world
  <1>2. MemoryTypes /\ EntriesAreKnown /\ TimerHasConnection
    BY DEF MemoryInv
  <1>3. claim[c] = a
    BY <1>1, <1>2 DEF EntriesAreKnown
  <1> HIDE DEF a, c
  <1>4. active \in Seq(AgentConns)
    BY <1>2 DEF MemoryTypes
  <1>5. /\ active' \in Seq(AgentConns)
        /\ \A i \in DOMAIN active : active[i] # c => \E j \in DOMAIN active' : active'[j] = active[i]
        /\ \A j \in DOMAIN active' : \E i \in DOMAIN active : active'[j] = active[i]
    BY <1>1, <1>4, DeletedFacts
  <1>6. Idle \in Job /\ Idle.at = "idle"
    BY DEF Idle, Job
  <1>7. /\ job' \in [Tasks -> Job] /\ job'[t] = Idle
        /\ \A u \in Tasks : u # t => job'[u] = job[u]
    BY <1>1, <1>2, <1>6, JobUpdate DEF MemoryTypes
  <1>8. TimerOff \in [set : BOOLEAN, left : 0..Limit] /\ ~TimerOff.set
    BY PresenceAssumption DEF TimerOff
  <1>9. /\ timer' \in [AgentIds -> [set : BOOLEAN, left : 0..Limit]]
        /\ \A b \in AgentIds : timer'[b].set => timer[b].set /\ b # a
    BY <1>1, <1>2, <1>8 DEF MemoryTypes
  <1>10. MemoryTypes'
    BY <1>1, <1>2, <1>5, <1>7, <1>9 DEF MemoryTypes
  <1>11. EntriesAreKnown'
    <2>1. \A j \in DOMAIN active' : sock'[active'[j]] # "new"
      BY <1>1, <1>2, <1>5 DEF EntriesAreKnown
    <2>2. QED  BY <1>1, <1>2, <1>6, <1>7, <2>1 DEF EntriesAreKnown
  <1>12. TimerHasConnection'
    <2> SUFFICES ASSUME NEW b \in AgentIds, timer'[b].set
                 PROVE  \E j \in DOMAIN active' : claim'[active'[j]] = b
      BY DEF TimerHasConnection
    <2>1. timer[b].set /\ b # a
      BY <1>9
    <2>2. PICK i \in DOMAIN active : claim[active[i]] = b
      BY <1>2, <2>1 DEF TimerHasConnection
    <2>3. active[i] # c
      BY <1>3, <2>1, <2>2
    <2>4. QED  BY <1>1, <1>5, <2>2, <2>3
  <1>13. QED  BY <1>10, <1>11, <1>12 DEF MemoryInv

LEMMA CheckKeeps ==
    ASSUME MemoryInv, CheckForStaleAgents \/ CheckFails \/ Restart
    PROVE  MemoryInv'
  <1>1. UNCHANGED <<sock, claim, connect, agentId, leave, update, active, timer>>
    BY DEF CheckForStaleAgents, CheckFails, Restart
  <1>2. MemoryTypes /\ EntriesAreKnown /\ TimerHasConnection
    BY DEF MemoryInv
  <1>3. job' = job \/ job' = [job EXCEPT ![Monitor] = Idle]
    BY DEF CheckForStaleAgents, CheckFails, Restart
  <1>4. Idle \in Job /\ Idle.at = "idle" /\ Monitor \in Tasks
    BY DEF Idle, Job, Tasks
  <1>5. /\ job' \in [Tasks -> Job]
        /\ \A u \in Tasks : job'[u] = job[u] \/ job'[u].at = "idle"
    BY <1>2, <1>3, <1>4 DEF MemoryTypes
  <1>6. stale' \subseteq AgentIds /\ checkDue' \in BOOLEAN /\ up' \in BOOLEAN
    BY <1>2 DEF CheckForStaleAgents, CheckFails, Restart, MemoryTypes, world
  <1>7. faults' = faults \/ Fault
    BY DEF CheckForStaleAgents, CheckFails, Restart, world
  <1>8. faults' \in 0..MaxFaults
    BY <1>2, <1>7, PresenceAssumption DEF MemoryTypes, Fault
  <1>9. MemoryTypes'
    BY <1>1, <1>2, <1>5, <1>6, <1>8 DEF MemoryTypes
  <1>10. EntriesAreKnown'
    BY <1>1, <1>2, <1>5 DEF EntriesAreKnown
  <1>11. TimerHasConnection'
    BY <1>1, <1>2 DEF TimerHasConnection
  <1>12. QED  BY <1>9, <1>10, <1>11 DEF MemoryInv

(* The process's memory as it starts.                                       *)
LEMMA EmptyMemoryFields ==
    /\ EmptyMemory.connect = [c \in AgentConns |-> "none"]
    /\ EmptyMemory.agentId = [c \in AgentConns |-> None]
    /\ EmptyMemory.leave = [c \in AgentConns |-> FALSE]
    /\ EmptyMemory.update = [c \in AgentConns |-> "none"]
    /\ EmptyMemory.timer = [a \in AgentIds |-> TimerOff]
    /\ EmptyMemory.job = [t \in Tasks |-> Idle]
  BY DEF EmptyMemory

LEMMA EmptyMemoryTypes ==
    /\ EmptyMemory.connect \in [AgentConns ->
                      {"none", "resolving", "written", "entered", "done", "failed"}]
    /\ \A c \in AgentConns : EmptyMemory.connect[c] = "none"
    /\ EmptyMemory.agentId \in [AgentConns -> AgentIds \cup {None}]
    /\ EmptyMemory.leave \in [AgentConns -> BOOLEAN]
    /\ EmptyMemory.update \in [AgentConns -> {"none", "pong", "error"}]
    /\ EmptyMemory.timer \in [AgentIds -> [set : BOOLEAN, left : 0..Limit]]
    /\ \A a \in AgentIds : ~EmptyMemory.timer[a].set
    /\ EmptyMemory.job \in [Tasks -> Job]
    /\ \A t \in Tasks : EmptyMemory.job[t].at = "idle"
  <1>1. Idle \in Job /\ Idle.at = "idle"
    BY DEF Idle, Job
  <1>2. TimerOff \in [set : BOOLEAN, left : 0..Limit] /\ ~TimerOff.set
    BY PresenceAssumption DEF TimerOff
  <1>3. QED  BY <1>1, <1>2, EmptyMemoryFields

LEMMA EmptyMemoryIsSound ==
    ASSUME sock \in [AgentConns -> {"new", "open", "closed"}],
           claim \in [AgentConns -> AgentIds \cup {None}],
           connect = EmptyMemory.connect, agentId = EmptyMemory.agentId,
           leave = EmptyMemory.leave, update = EmptyMemory.update,
           timer = EmptyMemory.timer, job = EmptyMemory.job,
           active = <<>>, stale = {}, checkDue \in BOOLEAN, up \in BOOLEAN,
           faults \in 0..MaxFaults
    PROVE  MemoryInv
  <1>1. active \in Seq(AgentConns) /\ DOMAIN active = {}
    OBVIOUS
  <1>2. MemoryTypes
    BY <1>1, EmptyMemoryTypes DEF MemoryTypes
  <1>3. EntriesAreKnown
    BY <1>1, EmptyMemoryTypes DEF EntriesAreKnown
  <1>4. TimerHasConnection
    BY EmptyMemoryTypes DEF TimerHasConnection
  <1>5. QED  BY <1>2, <1>3, <1>4 DEF MemoryInv

LEMMA EndKeeps ==
    ASSUME MemoryInv, ProcessEnds, Fault
    PROVE  MemoryInv'
  <1>1. MemoryTypes
    BY DEF MemoryInv
  <1>2. /\ connect' = EmptyMemory.connect /\ agentId' = EmptyMemory.agentId
        /\ leave' = EmptyMemory.leave /\ update' = EmptyMemory.update
        /\ timer' = EmptyMemory.timer /\ job' = EmptyMemory.job
        /\ active' = <<>> /\ stale' = {} /\ checkDue' = FALSE /\ up' = FALSE
        /\ sock' = [c \in AgentConns |-> IF sock[c] = "open" THEN "closed" ELSE sock[c]]
        /\ claim' = claim
    BY DEF ProcessEnds
  <1>3. faults' \in 0..MaxFaults
    BY <1>1, PresenceAssumption DEF MemoryTypes, Fault
  <1>4. sock' \in [AgentConns -> {"new", "open", "closed"}]
    BY <1>1, <1>2 DEF MemoryTypes
  <1>5. active' \in Seq(AgentConns) /\ DOMAIN active' = {}
    BY <1>2
  <1>6. MemoryTypes'
    BY <1>1, <1>2, <1>3, <1>4, <1>5, EmptyMemoryTypes DEF MemoryTypes
  <1>7. EntriesAreKnown'
    BY <1>2, <1>5, EmptyMemoryTypes DEF EntriesAreKnown
  <1>8. TimerHasConnection'
    BY <1>2, EmptyMemoryTypes DEF TimerHasConnection
  <1>9. QED  BY <1>6, <1>7, <1>8 DEF MemoryInv

LEMMA TickKeepsMemory ==
    ASSUME MemoryInv, Tick
    PROVE  MemoryInv'
  <1> DEFINE left(a) == IF timer[a].left > 0 THEN timer[a].left - 1 ELSE timer[a].left
  <1>1. /\ checkDue' = TRUE
        /\ timer' = [a \in AgentIds |-> [timer[a] EXCEPT !.left = left(a)]]
        /\ UNCHANGED <<sock, claim, connect, agentId, leave, update, active, job, stale,
                       up, faults>>
    BY DEF Tick
  <1>2. MemoryTypes /\ EntriesAreKnown /\ TimerHasConnection
    BY DEF MemoryInv
  <1>3. ASSUME NEW a \in AgentIds
        PROVE  /\ timer'[a] \in [set : BOOLEAN, left : 0..Limit]
               /\ timer'[a].set = timer[a].set
    <2>1. timer[a] \in [set : BOOLEAN, left : 0..Limit] /\ timer[a].left \in 0..Limit
      BY <1>2 DEF MemoryTypes
    <2>2. left(a) \in 0..Limit
      BY <2>1, PresenceAssumption
    <2>3. timer'[a] = [timer[a] EXCEPT !.left = left(a)]
      BY <1>1
    <2> HIDE DEF left
    <2>4. QED  BY <2>1, <2>2, <2>3
  <1>4. timer' = [a \in AgentIds |-> timer'[a]]
    BY <1>1
  <1>5. timer' \in [AgentIds -> [set : BOOLEAN, left : 0..Limit]]
    BY <1>3, <1>4
  <1>6. MemoryTypes'
    BY <1>1, <1>2, <1>5 DEF MemoryTypes
  <1>7. EntriesAreKnown'
    BY <1>1, <1>2 DEF EntriesAreKnown
  <1>8. TimerHasConnection'
    BY <1>1, <1>2, <1>3 DEF TimerHasConnection
  <1>9. QED  BY <1>6, <1>7, <1>8 DEF MemoryInv

LEMMA MemoryStepKeeps ==
    MemoryInv /\ [PresenceNext]_presenceVars => MemoryInv'
  <1> SUFFICES ASSUME MemoryInv, [PresenceNext]_presenceVars PROVE MemoryInv'
    OBVIOUS
  <1>1. ASSUME NEW c \in AgentConns, AgentStep(c) PROVE MemoryInv'
    BY <1>1, ConnectsKeeps, ConnectionKeeps DEF AgentStep
  <1>2. ASSUME NEW c \in AgentConns, HandlerStep(c) PROVE MemoryInv'
    BY <1>2, EnterKeeps, ConnectionKeeps DEF HandlerStep
  <1>3. CASE TimerStep
    <2>1. ASSUME NEW t \in Tasks, TaskStep(t) PROVE MemoryInv'
      BY <2>1, MarkKeeps, FindKeeps, ClearKeeps DEF TaskStep
    <2>2. QED  BY <1>3, <2>1, NewTaskKeeps, CheckKeeps DEF TimerStep
  <1>4. CASE TimePasses
    BY <1>4, CheckKeeps, TickKeepsMemory DEF TimePasses
  <1>5. CASE Failure
    <2>1. ASSUME NEW a \in AgentIds, TimerTaskFails(a) PROVE MemoryInv'
      BY <2>1, EndKeeps DEF TimerTaskFails
    <2>2. CASE Crash
      BY <2>2, EndKeeps DEF Crash
    <2>3. QED  BY <1>5, <2>1, <2>2, ConnectionKeeps, CheckKeeps DEF Failure
  <1>6. CASE UNCHANGED presenceVars
    BY <1>6 DEF presenceVars, memory, world, MemoryInv, MemoryTypes, EntriesAreKnown,
                TimerHasConnection
  <1>7. QED
    BY <1>1, <1>2, <1>3, <1>4, <1>5, <1>6 DEF PresenceNext

(* What records, timers and pending tasks keep over every handler and close.*)
THEOREM MemoryInvariant == PresenceSpec => []MemoryInv
  <1>1. PresenceInit => MemoryInv
    BY EmptyMemoryIsSound, PresenceAssumption DEF PresenceInit
  <1>2. QED  BY <1>1, MemoryStepKeeps, PTL DEF PresenceSpec

(* Every variable keeps its type: the rows' ages, the timers and the faults *)
(* stay within their limits.                                                *)
THEOREM PresenceTypeCorrect == PresenceSpec => []PresenceTypeOK
  <1>1. RowsInv /\ MemoryInv => PresenceTypeOK
    BY DEF RowsInv, Row, MemoryInv, MemoryTypes, Job, PresenceTypeOK
  <1>2. QED  BY <1>1, RowsInvariant, MemoryInvariant, PTL

(* A running timer finds an entry to disconnect, over reconnects that race  *)
(* with the tasks of an earlier timer (disconnectAgent stops the timer of   *)
(* the agent whose entry it deletes).                                       *)
THEOREM TimersHaveConnections == PresenceSpec => []TimerHasConnection
  <1>1. MemoryInv => TimerHasConnection
    BY DEF MemoryInv
  <1>2. QED  BY <1>1, MemoryInvariant, PTL
=============================================================================
