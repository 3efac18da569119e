------------------------ MODULE MessageRouterProofs ------------------------
(***************************************************************************)
(* Safety of the message router for any connections, agents, commands and  *)
(* limits: the queue half of the state first, then the connections and     *)
(* tracking maps.                                                          *)
(***************************************************************************)
EXTENDS MessageRouter, FiniteSetTheorems, WellFoundedInduction, TLAPS

-----------------------------------------------------------------------------
(* The least element a priority queue search relies on.                     *)

LEMMA LeastNatural ==
    ASSUME NEW S \in SUBSET Nat, S # {}
    PROVE  \E x \in S : \A y \in S : x <= y
  <1> DEFINE R == {p \in Nat \X Nat : p[1] < p[2]}
  <1>0. IsWellFoundedOn(R, Nat)
    BY NatLessThanWellFounded DEF OpToRel
  <1>1. PICK x \in S : \A y \in S : ~ (<<y, x>> \in R)
    BY <1>0, WFMin
  <1>2. ASSUME NEW y \in S PROVE x <= y
    <2>1. x \in Nat /\ y \in Nat
      OBVIOUS
    <2>2. ~ (y < x)
      BY <1>1, <2>1
    <2>3. QED  BY <2>1, <2>2
  <1>3. QED  BY <1>2

LEMMA IdsAreFinite ==
    ASSUME NEW n \in Nat, NEW S, S \subseteq 0..(n - 1)
    PROVE  IsFiniteSet(S) /\ Cardinality(S) \in Nat
  <1> DEFINE k == n - 1
  <1>1. k \in Int /\ 0 \in Int /\ S \subseteq 0..k
    OBVIOUS
  <1>2. IsFiniteSet(S)
    BY <1>1, FS_Interval, FS_Subset
  <1>3. QED  BY <1>2, FS_CardinalityType

LEMMA DisjointUnion ==
    ASSUME NEW S, NEW T, IsFiniteSet(S), IsFiniteSet(T), S \cap T = {}
    PROVE  Cardinality(S \cup T) = Cardinality(S) + Cardinality(T)
  <1>1. Cardinality(S \cap T) = 0
    BY FS_EmptySet
  <1>2. Cardinality(S) \in Nat /\ Cardinality(T) \in Nat
    BY FS_CardinalityType
  <1>3. Cardinality(S \cup T)
          = Cardinality(S) + Cardinality(T) - Cardinality(S \cap T)
    BY FS_Union
  <1>4. QED  BY <1>1, <1>2, <1>3

LEMMA PrioIsNatural == ASSUME NEW m \in Messages PROVE Prio(m) \in Nat
  BY DEF Prio, Messages, Priority

LEMMA LowestPriorityInQueue ==
    ASSUME NEW q, q \in [DOMAIN q -> Messages], DOMAIN q \subseteq Nat, DOMAIN q # {}
    PROVE  LowestPriority(q) \in DOMAIN q
  <1> DEFINE P == {Prio(q[i]) : i \in DOMAIN q}
  <1>1. P \in SUBSET Nat /\ P # {}
    BY PrioIsNatural
  <1>2. PICK p \in P : \A r \in P : p <= r
    BY <1>1, LeastNatural
  <1> DEFINE L == {i \in DOMAIN q : Prio(q[i]) = p}
  <1>3. L \in SUBSET Nat /\ L # {}
    OBVIOUS
  <1>4. PICK i \in L : \A j \in L : i <= j
    BY <1>3, LeastNatural
  <1>5. \A j \in DOMAIN q : \/ Prio(q[i]) < Prio(q[j])
                            \/ Prio(q[i]) = Prio(q[j]) /\ i <= j
    <2> TAKE j \in DOMAIN q
    <2>1. Prio(q[i]) = p /\ Prio(q[j]) \in P /\ p <= Prio(q[j])
      BY <1>2
    <2>2. Prio(q[i]) \in Nat /\ Prio(q[j]) \in Nat
      BY PrioIsNatural
    <2>3. CASE Prio(q[j]) = p
      BY <1>4, <2>1, <2>3
    <2>4. CASE Prio(q[j]) # p
      BY <2>1, <2>2, <2>4, SMT
    <2>5. QED  BY <2>3, <2>4
  <1>6. QED  BY <1>5 DEF LowestPriority

(* What inserting a message does to the queue: it stays within its limit,   *)
(* and grows by one unless it evicts.                                       *)
LEMMA EnqueueFacts ==
    ASSUME NEW q, NEW id \in Nat, NEW m \in Messages,
           q \in [DOMAIN q -> Messages], DOMAIN q \subseteq 0..(id - 1),
           Cardinality(DOMAIN q) <= MaxQueueSize
    PROVE  LET e == Enqueue(q, id, m) IN
           /\ e \in [DOMAIN e -> Messages]
           /\ DOMAIN e \subseteq DOMAIN q \cup {id}
           /\ DOMAIN e \subseteq 0..id
           /\ Cardinality(DOMAIN e) \in Nat
           /\ Cardinality(DOMAIN e) <= MaxQueueSize
           /\ Cardinality(DOMAIN e) + Evicts(q) = Cardinality(DOMAIN q) + 1
           /\ Evicts(q) \in Nat
  <1> DEFINE e == Enqueue(q, id, m)
             r == MakeRoom(q)
  <1>1. IsFiniteSet(DOMAIN q) /\ Cardinality(DOMAIN q) \in Nat
    BY IdsAreFinite
  <1>2. /\ DOMAIN r \subseteq DOMAIN q
        /\ \A i \in DOMAIN r : r[i] = q[i]
        /\ IsFiniteSet(DOMAIN r)
        /\ Cardinality(DOMAIN r) + Evicts(q) = Cardinality(DOMAIN q)
        /\ Cardinality(DOMAIN r) \in Nat
        /\ Cardinality(DOMAIN r) < MaxQueueSize
    <2>1. CASE Full(q)
      <3>1. DOMAIN q # {} /\ DOMAIN q \subseteq Nat
        BY <2>1, FS_EmptySet, RouterAssumption DEF Full
      <3>2. LowestPriority(q) \in DOMAIN q
        BY <3>1, LowestPriorityInQueue
      <3>3. DOMAIN r = DOMAIN q \ {LowestPriority(q)} /\ \A i \in DOMAIN r : r[i] = q[i]
        BY <2>1 DEF MakeRoom, Keep
      <3>4. /\ IsFiniteSet(DOMAIN r)
            /\ Cardinality(DOMAIN r) = Cardinality(DOMAIN q) - 1
            /\ Cardinality(DOMAIN r) \in Nat
        BY <1>1, <3>2, <3>3, FS_RemoveElement, FS_CardinalityType
      <3>5. QED  BY <1>1, <2>1, <3>3, <3>4, RouterAssumption DEF Evicts
    <2>2. CASE ~Full(q)
      <3>1. r = q  BY <2>2 DEF MakeRoom
      <3>2. QED  BY <1>1, <2>2, <3>1, RouterAssumption DEF Evicts, Full
    <2>3. QED  BY <2>1, <2>2
  <1>3. DOMAIN e = DOMAIN r \cup {id} /\ e \in [DOMAIN e -> Messages]
    BY <1>2 DEF Enqueue
  <1>4. id \notin DOMAIN r
    BY <1>2
  <1>5. Cardinality(DOMAIN e) = Cardinality(DOMAIN r) + 1
    BY <1>2, <1>3, <1>4, FS_AddElement
  <1>6. Evicts(q) \in Nat
    BY DEF Evicts
  <1>7. Cardinality(DOMAIN e) \in Nat /\ DOMAIN e \subseteq 0..id
    BY <1>2, <1>3, <1>5
  <1>8. QED  BY <1>1, <1>2, <1>3, <1>5, <1>6, <1>7, RouterAssumption
-----------------------------------------------------------------------------
(* The queue half of the state.                                             *)

Statistics == [queued : Nat, sent : Nat, failed : Nat, dropped : Nat, cleared : Nat]

QueueTypeOK ==
    /\ nextId \in 0..MaxMessages
    /\ DOMAIN messageQueue \subseteq 0..(nextId - 1)
    /\ messageQueue \in [DOMAIN messageQueue -> Messages]
    /\ stats \in Statistics
    /\ sent \subseteq (0..(nextId - 1)) \X Conns

QueueInv ==
    QueueTypeOK /\ QueueBounded /\ AtMostOnce /\ StatsAccountForEveryMessage

LEMMA CountingKeepsStatistics ==
    ASSUME NEW s \in Statistics, NEW k \in Nat, NEW v \in Nat
    PROVE  [s EXCEPT !.queued = @ + k, !.dropped = @ + v] \in Statistics
  <1> DEFINE a == s.queued + k
             b == s.dropped + v
  <1>1. a \in Nat /\ b \in Nat
    BY DEF Statistics
  <1> HIDE DEF a, b
  <1>2. [s EXCEPT !.queued = a, !.dropped = b] \in Statistics
    BY <1>1 DEF Statistics
  <1>3. QED  BY <1>2 DEF a, b

LEMMA MessageInMessages ==
    ASSUME NEW type \in DOMAIN Priority, NEW route \in Routes,
           NEW about \in Commands \cup {None},
           type = "COMMAND_REQUEST" => about \in Commands
    PROVE  Message(type, route, about) \in Messages
  BY RouterAssumption DEF Message, Messages

(* One message is queued, then another: the invariant of the queue with the *)
(* statistics of either insertion.                                          *)
LEMMA QueueMessageKeeps ==
    ASSUME QueueInv, NEW m \in Messages, QueueMessage(m), UNCHANGED sent
    PROVE  QueueInv'
  <1> DEFINE e == Enqueue(messageQueue, nextId, m)
  <1>1. /\ nextId \in Nat /\ nextId + 1 \in 0..MaxMessages
        /\ nextId' = nextId + 1 /\ messageQueue' = e
    BY RouterAssumption DEF QueueMessage, QueueInv, QueueTypeOK
  <1>2. /\ e \in [DOMAIN e -> Messages]
        /\ DOMAIN e \subseteq DOMAIN messageQueue \cup {nextId}
        /\ DOMAIN e \subseteq 0..nextId
        /\ Cardinality(DOMAIN e) \in Nat
        /\ Cardinality(DOMAIN e) <= MaxQueueSize
        /\ Cardinality(DOMAIN e) + Evicts(messageQueue) = Cardinality(DOMAIN messageQueue) + 1
        /\ Evicts(messageQueue) \in Nat
    BY <1>1, EnqueueFacts DEF QueueInv, QueueTypeOK, QueueBounded
  <1>3. QueueTypeOK'
    <2>1. nextId' \in 0..MaxMessages /\ DOMAIN messageQueue' \subseteq 0..(nextId' - 1)
      BY <1>1, <1>2
    <2>2. messageQueue' \in [DOMAIN messageQueue' -> Messages]
      BY <1>1, <1>2
    <2>3. stats' \in Statistics
      BY <1>2, CountingKeepsStatistics DEF QueueInv, QueueTypeOK, QueueMessage
    <2>4. sent' \subseteq (0..(nextId' - 1)) \X Conns
      <3>1. sent \subseteq (0..(nextId - 1)) \X Conns
        BY DEF QueueInv, QueueTypeOK
      <3>2. 0..(nextId - 1) \subseteq 0..(nextId' - 1)
        BY <1>1
      <3>3. QED  BY <3>1, <3>2
    <2>5. QED  BY <2>1, <2>2, <2>3, <2>4 DEF QueueTypeOK
  <1>4. QueueBounded'
    BY <1>1, <1>2 DEF QueueBounded
  <1>5. AtMostOnce'
    <2>1. \A p \in sent : p[1] \notin DOMAIN messageQueue /\ p[1] # nextId
      BY <1>1 DEF QueueInv, QueueTypeOK, AtMostOnce
    <2>2. QED  BY <1>1, <1>2, <2>1 DEF AtMostOnce
  <1>6. StatsAccountForEveryMessage'
    <2>1. Cardinality(DOMAIN messageQueue) \in Nat
      BY <1>1, IdsAreFinite DEF QueueInv, QueueTypeOK
    <2>2. QED
      BY <1>1, <1>2, <2>1 DEF QueueInv, QueueTypeOK, Statistics, StatsAccountForEveryMessage, QueueMessage
  <1>7. QED  BY <1>3, <1>4, <1>5, <1>6 DEF QueueInv

LEMMA QueueTwoKeeps ==
    ASSUME QueueInv, NEW m \in Messages, NEW n \in Messages,
           QueueTwo(m, n), UNCHANGED sent
    PROVE  QueueInv'
  <1> DEFINE q == Enqueue(messageQueue, nextId, m)
             e == Enqueue(q, nextId + 1, n)
  <1>1. /\ nextId \in Nat /\ nextId + 2 \in 0..MaxMessages
        /\ nextId' = nextId + 2 /\ messageQueue' = e
    BY RouterAssumption DEF QueueTwo, QueueInv, QueueTypeOK
  <1>2. /\ q \in [DOMAIN q -> Messages]
        /\ DOMAIN q \subseteq DOMAIN messageQueue \cup {nextId}
        /\ DOMAIN q \subseteq 0..nextId
        /\ Cardinality(DOMAIN q) \in Nat
        /\ Cardinality(DOMAIN q) <= MaxQueueSize
        /\ Cardinality(DOMAIN q) + Evicts(messageQueue) = Cardinality(DOMAIN messageQueue) + 1
        /\ Evicts(messageQueue) \in Nat
    BY <1>1, EnqueueFacts DEF QueueInv, QueueTypeOK, QueueBounded
  <1>3. nextId + 1 \in Nat /\ DOMAIN q \subseteq 0..((nextId + 1) - 1)
    BY <1>1, <1>2
  <1> HIDE DEF q
  <1>4. /\ e \in [DOMAIN e -> Messages]
        /\ DOMAIN e \subseteq DOMAIN q \cup {nextId + 1}
        /\ DOMAIN e \subseteq 0..(nextId + 1)
        /\ Cardinality(DOMAIN e) \in Nat
        /\ Cardinality(DOMAIN e) <= MaxQueueSize
        /\ Cardinality(DOMAIN e) + Evicts(q) = Cardinality(DOMAIN q) + 1
        /\ Evicts(q) \in Nat
    BY <1>2, <1>3, EnqueueFacts
  <1>5. stats' = [stats EXCEPT !.queued = @ + 2,
                     !.dropped = @ + Evicts(messageQueue) + Evicts(q)]
    BY DEF QueueTwo, q
  <1>6. QueueTypeOK'
    <2>1. nextId' \in 0..MaxMessages /\ DOMAIN messageQueue' \subseteq 0..(nextId' - 1)
      BY <1>1, <1>4
    <2>2. messageQueue' \in [DOMAIN messageQueue' -> Messages]
      BY <1>1, <1>4
    <2>3. stats' \in Statistics
      <3>1. /\ stats \in Statistics
            /\ stats' = [stats EXCEPT !.queued = @ + 2,
                    !.dropped = @ + (Evicts(messageQueue) + Evicts(q))]
        <4>1. stats \in Statistics /\ stats.dropped \in Nat
          BY DEF QueueInv, QueueTypeOK, Statistics
        <4>2. stats.dropped + Evicts(messageQueue) + Evicts(q)
                = stats.dropped + (Evicts(messageQueue) + Evicts(q))
          BY <4>1, <1>2, <1>4
        <4>3. QED  BY <4>1, <4>2, <1>5
      <3>2. Evicts(messageQueue) + Evicts(q) \in Nat
        BY <1>2, <1>4
      <3>3. QED  BY <3>1, <3>2, CountingKeepsStatistics
    <2>4. sent' \subseteq (0..(nextId' - 1)) \X Conns
      <3>1. sent \subseteq (0..(nextId - 1)) \X Conns
        BY DEF QueueInv, QueueTypeOK
      <3>2. 0..(nextId - 1) \subseteq 0..(nextId' - 1)
        BY <1>1
      <3>3. QED  BY <3>1, <3>2
    <2>5. QED  BY <2>1, <2>2, <2>3, <2>4 DEF QueueTypeOK
  <1>7. QueueBounded'
    BY <1>1, <1>4 DEF QueueBounded
  <1>8. AtMostOnce'
    <2>1. \A p \in sent : /\ p[1] \notin DOMAIN messageQueue
                          /\ p[1] # nextId /\ p[1] # nextId + 1
      BY <1>1 DEF QueueInv, QueueTypeOK, AtMostOnce
    <2>2. QED  BY <1>1, <1>2, <1>4, <2>1 DEF AtMostOnce
  <1>9. StatsAccountForEveryMessage'
    <2>1. Cardinality(DOMAIN messageQueue) \in Nat
      BY <1>1, IdsAreFinite DEF QueueInv, QueueTypeOK
    <2>2. QED
      BY <1>1, <1>2, <1>4, <1>5, <2>1 DEF QueueInv, QueueTypeOK, Statistics, StatsAccountForEveryMessage
  <1>10. QED  BY <1>6, <1>7, <1>8, <1>9 DEF QueueInv
(* The delay before the next attempt is one a message can carry.            *)
LEMMA RetryDelayBounded == ASSUME NEW k \in Nat \ {0} PROVE RetryDelay(k) \in 0..30
  <1>1. Len(RetryDelays) = 5
    BY DEF RetryDelays
  <1>2. CASE k > 5
    BY <1>1, <1>2 DEF RetryDelay
  <1>3. CASE k <= 5
    <2>1. k = 1 \/ k = 2 \/ k = 3 \/ k = 4 \/ k = 5
      BY <1>3
    <2>2. QED  BY <1>1, <2>1 DEF RetryDelay, RetryDelays
  <1>4. QED  BY <1>2, <1>3

LEMMA RetryIsMessage ==
    ASSUME NEW m \in Messages, m.attempts + 1 < RetryAttempts
    PROVE  Retry(m) \in Messages
  <1>1. m.attempts + 1 \in 0..(RetryAttempts - 1) /\ m.attempts + 1 \in Nat \ {0}
    BY RouterAssumption DEF Messages
  <1>2. RetryDelay(m.attempts + 1) \in 0..30
    BY <1>1, RetryDelayBounded
  <1>3. QED  BY <1>1, <1>2 DEF Retry, Messages

(* What a cycle takes out of the queue, and that it takes each message for  *)
(* one reason only.                                                         *)
LEMMA FinishedFacts ==
    ASSUME QueueTypeOK
    PROVE  /\ Finished \subseteq DOMAIN messageQueue
           /\ Delivered \subseteq Finished
           /\ Cardinality(Delivered) \in Nat
           /\ Cardinality(Expiring) \in Nat
           /\ Cardinality(GivenUp) \in Nat
           /\ Cardinality(DOMAIN messageQueue) \in Nat
           /\ Cardinality(DOMAIN messageQueue \ Finished)
                + Cardinality(Delivered) + Cardinality(Expiring) + Cardinality(GivenUp)
                = Cardinality(DOMAIN messageQueue)
  <1> DEFINE D == DOMAIN messageQueue
             R == D \ Finished
  <1>1. Delivered \subseteq D /\ Expiring \subseteq D /\ GivenUp \subseteq D
    BY DEF Delivered, Expiring, GivenUp, Failing, Reached
  <1>2. nextId \in Nat /\ D \subseteq 0..(nextId - 1)
    BY RouterAssumption DEF QueueTypeOK
  <1>3. IsFiniteSet(D) /\ Cardinality(D) \in Nat
    BY <1>2, IdsAreFinite
  <1>4. /\ Delivered \cap Expiring = {}
        /\ (Delivered \cup Expiring) \cap GivenUp = {}
    BY DEF Delivered, Expiring, GivenUp, Failing, Deliverable
  <1>5. Finished = (Delivered \cup Expiring) \cup GivenUp
    BY DEF Finished
  <1>6. /\ IsFiniteSet(Delivered) /\ IsFiniteSet(Expiring) /\ IsFiniteSet(GivenUp)
        /\ IsFiniteSet(Delivered \cup Expiring) /\ IsFiniteSet(Finished) /\ IsFiniteSet(R)
    <2>1. Delivered \cup Expiring \subseteq D /\ Finished \subseteq D /\ R \subseteq D
      BY <1>1, <1>5
    <2>2. QED  BY <1>1, <1>3, <2>1, FS_Subset
  <1>7. /\ Cardinality(Delivered) \in Nat /\ Cardinality(Expiring) \in Nat
        /\ Cardinality(GivenUp) \in Nat /\ Cardinality(R) \in Nat
        /\ Cardinality(Finished) \in Nat /\ Cardinality(Delivered \cup Expiring) \in Nat
    BY <1>6, FS_CardinalityType
  <1>8. Cardinality(Delivered \cup Expiring) = Cardinality(Delivered) + Cardinality(Expiring)
    BY <1>4, <1>6, DisjointUnion
  <1>9. Cardinality(Finished) = Cardinality(Delivered \cup Expiring) + Cardinality(GivenUp)
    BY <1>4, <1>5, <1>6, DisjointUnion
  <1>10. Cardinality(D) = Cardinality(R) + Cardinality(Finished)
    <2>1. D = R \cup Finished /\ R \cap Finished = {}
      BY <1>1, <1>5
    <2>2. Cardinality(R \cup Finished) = Cardinality(R) + Cardinality(Finished)
      BY <2>1, <1>6, DisjointUnion
    <2>3. QED  BY <2>1, <2>2
  <1>11. QED  BY <1>1, <1>3, <1>5, <1>7, <1>8, <1>9, <1>10

LEMMA ProcessKeeps ==
    ASSUME QueueInv, ProcessMessageQueue
    PROVE  QueueInv'
  <1>1. /\ QueueTypeOK
        /\ DOMAIN messageQueue' = DOMAIN messageQueue \ Finished
        /\ nextId' = nextId
    BY DEF QueueInv, ProcessMessageQueue
  <1>2. QueueTypeOK'
    <2>1. nextId' \in 0..MaxMessages /\ DOMAIN messageQueue' \subseteq 0..(nextId' - 1)
      BY <1>1 DEF QueueTypeOK
    <2>2. messageQueue' \in [DOMAIN messageQueue' -> Messages]
      <3>1. ASSUME NEW i \in DOMAIN messageQueue \ Finished PROVE messageQueue'[i] \in Messages
        <4>1. messageQueue[i] \in Messages
          BY <1>1 DEF QueueTypeOK
        <4>2. CASE i \in Failing
          <5>1. messageQueue[i].attempts + 1 < RetryAttempts
            BY <3>1, <4>1, <4>2, RouterAssumption DEF Finished, GivenUp, Messages
          <5>2. messageQueue'[i] = Retry(messageQueue[i])
            BY <3>1, <4>2 DEF ProcessMessageQueue
          <5>3. QED  BY <4>1, <5>1, <5>2, RetryIsMessage
        <4>3. CASE i \notin Failing
          BY <3>1, <4>1, <4>3 DEF ProcessMessageQueue
        <4>4. QED  BY <4>2, <4>3
      <3>2. messageQueue' = [i \in DOMAIN messageQueue \ Finished |-> messageQueue'[i]]
        BY DEF ProcessMessageQueue
      <3>3. QED  BY <1>1, <3>1, <3>2
    <2>3. stats' \in Statistics
      <3>1. stats \in Statistics
        BY <1>1 DEF QueueTypeOK
      <3>2. /\ stats.sent + Cardinality(Delivered) \in Nat
            /\ stats.failed + Cardinality(GivenUp) \in Nat
            /\ stats.dropped + Cardinality(Expiring) \in Nat
        BY <1>1, <3>1, FinishedFacts DEF Statistics
      <3>3. stats' = [stats EXCEPT !.sent = stats.sent + Cardinality(Delivered),
                              !.failed = stats.failed + Cardinality(GivenUp),
                              !.dropped = stats.dropped + Cardinality(Expiring)]
        BY DEF ProcessMessageQueue
      <3>4. QED  BY <3>1, <3>2, <3>3 DEF Statistics
    <2>4. sent' \subseteq (0..(nextId' - 1)) \X Conns
      <3>1. ASSUME NEW i \in Delivered
            PROVE  {i} \X Recipients(messageQueue[i]) \subseteq (0..(nextId - 1)) \X Conns
        <4>1. i \in 0..(nextId - 1)
          BY <1>1, FinishedFacts DEF QueueTypeOK
        <4>2. Recipients(messageQueue[i]) \subseteq Conns
          <5>1. messageQueue[i].route \in Routes
            BY <1>1, FinishedFacts DEF QueueTypeOK, Messages
          <5>2. messageQueue[i].route.target \in {"agent", "dashboard", "specific"}
            BY <5>1 DEF Routes, ToAgent, ToAllAgents, ToDashboards, ToTopic, ToDashboard
          <5>3. Candidates(messageQueue[i].route) \subseteq Conns
            BY <5>2 DEF Candidates, GetConnectionsByAgentId, Pool
          <5>4. QED  BY <5>3 DEF Recipients
        <4>3. QED  BY <4>1, <4>2
      <3>2. sent \subseteq (0..(nextId - 1)) \X Conns
        BY <1>1 DEF QueueTypeOK
      <3>3. QED  BY <1>1, <3>1, <3>2 DEF ProcessMessageQueue
    <2>5. QED  BY <2>1, <2>2, <2>3, <2>4 DEF QueueTypeOK
  <1>3. QueueBounded'
    <2>1. Cardinality(DOMAIN messageQueue \ Finished) <= Cardinality(DOMAIN messageQueue)
      <3>1. IsFiniteSet(DOMAIN messageQueue)
        BY <1>1, IdsAreFinite, RouterAssumption DEF QueueTypeOK
      <3>2. QED  BY <3>1, FS_Subset
    <2>2. QueueBounded  BY DEF QueueInv
    <2>3. Cardinality(DOMAIN messageQueue \ Finished) \in Nat /\ Cardinality(DOMAIN messageQueue) \in Nat
      BY <1>1, IdsAreFinite, RouterAssumption DEF QueueTypeOK
    <2>4. QED  BY <1>1, <2>1, <2>2, <2>3, RouterAssumption DEF QueueBounded
  <1>4. AtMostOnce'
    <2>1. ASSUME NEW p \in sent' PROVE p[1] \notin DOMAIN messageQueue \ Finished
      <3>1. CASE p \in sent
        BY <3>1 DEF QueueInv, AtMostOnce
      <3>2. CASE p \notin sent
        <4>1. PICK i \in Delivered : p \in {i} \X Recipients(messageQueue[i])
          BY <2>1, <3>2 DEF ProcessMessageQueue
        <4>2. QED  BY <1>1, <4>1, FinishedFacts
      <3>3. QED  BY <3>1, <3>2
    <2>2. QED  BY <1>1, <2>1 DEF AtMostOnce
  <1>5. StatsAccountForEveryMessage'
    <2>1. stats' = [stats EXCEPT !.sent = @ + Cardinality(Delivered),
                              !.failed = @ + Cardinality(GivenUp),
                              !.dropped = @ + Cardinality(Expiring)]
      BY DEF ProcessMessageQueue
    <2>2. stats \in Statistics /\ StatsAccountForEveryMessage
      BY DEF QueueInv, QueueTypeOK
    <2>3. Cardinality(DOMAIN messageQueue \ Finished) \in Nat
      BY <1>1, IdsAreFinite, RouterAssumption DEF QueueTypeOK
    <2>4. QED
      BY <1>1, <2>1, <2>2, <2>3, FinishedFacts DEF Statistics, StatsAccountForEveryMessage
  <1>6. QED  BY <1>2, <1>3, <1>4, <1>5 DEF QueueInv
(* A second passes: the same messages are in the queue.                     *)
LEMMA TickKeeps ==
    ASSUME QueueInv, Tick
    PROVE  QueueInv'
  <1>1. /\ DOMAIN messageQueue' = DOMAIN messageQueue
        /\ UNCHANGED <<nextId, stats, sent>>
    BY DEF Tick, history
  <1>2. messageQueue' \in [DOMAIN messageQueue' -> Messages]
    <2>1. ASSUME NEW i \in DOMAIN messageQueue PROVE messageQueue'[i] \in Messages
      <3> DEFINE m == messageQueue[i]
                 a == IF m.age > MessageTimeout THEN m.age ELSE m.age + 1
                 w == IF m.wait = 0 THEN 0 ELSE m.wait - 1
      <3>1. m \in Messages
        BY DEF QueueInv, QueueTypeOK
      <3>2. a \in 0..(MessageTimeout + 1) /\ w \in 0..30
        BY <3>1, RouterAssumption DEF Messages
      <3>3. messageQueue'[i] = [m EXCEPT !.age = a, !.wait = w]
        BY DEF Tick
      <3> HIDE DEF a, w
      <3>4. QED  BY <3>1, <3>2, <3>3 DEF Messages
    <2>2. messageQueue' = [i \in DOMAIN messageQueue |-> messageQueue'[i]]
      BY DEF Tick
    <2>3. QED  BY <1>1, <2>1, <2>2
  <1>3. QED
    BY <1>1, <1>2 DEF QueueInv, QueueTypeOK, QueueBounded, AtMostOnce,
                      StatsAccountForEveryMessage

LEMMA StopKeeps ==
    ASSUME QueueInv, Stop
    PROVE  QueueInv'
  <1>1. /\ DOMAIN messageQueue' = {} /\ nextId' = nextId /\ sent' = sent
        /\ stats' = [stats EXCEPT !.cleared = @ + Cardinality(DOMAIN messageQueue)]
    BY DEF Stop, history
  <1>2. Cardinality(DOMAIN messageQueue) \in Nat
    BY IdsAreFinite, RouterAssumption DEF QueueInv, QueueTypeOK
  <1>3. Cardinality(DOMAIN messageQueue') = 0
    BY <1>1, FS_EmptySet
  <1>4. stats \in Statistics
    BY DEF QueueInv, QueueTypeOK
  <1>5. stats' \in Statistics
    BY <1>1, <1>2, <1>4 DEF Statistics
  <1>6. messageQueue' \in [DOMAIN messageQueue' -> Messages]
    BY <1>1 DEF Stop
  <1>7. QueueTypeOK'
    BY <1>1, <1>5, <1>6 DEF QueueInv, QueueTypeOK
  <1>8. StatsAccountForEveryMessage'
    BY <1>1, <1>2, <1>3, <1>4 DEF QueueInv, Statistics, StatsAccountForEveryMessage
  <1>9. QueueBounded' /\ AtMostOnce'
    BY <1>1, <1>3, RouterAssumption DEF QueueBounded, AtMostOnce
  <1>10. QED  BY <1>7, <1>8, <1>9 DEF QueueInv

LEMMA QueueUnchangedKeeps ==
    ASSUME QueueInv, UNCHANGED <<messageQueue, nextId, stats, sent>>
    PROVE  QueueInv'
  BY DEF QueueInv, QueueTypeOK, QueueBounded, AtMostOnce, StatsAccountForEveryMessage

LEMMA RouteToAgentKeeps ==
    ASSUME QueueInv, NEW a, NEW m \in Messages, RouteToAgent(a, m), UNCHANGED sent
    PROVE  QueueInv'
  BY QueueMessageKeeps, QueueUnchangedKeeps DEF RouteToAgent, queueVars

-----------------------------------------------------------------------------
(* The messages the handlers queue are messages.                            *)

LEMMA MessagesQueued ==
    /\ \A a \in AgentIds, c \in Commands :
          /\ Message("COMMAND_REQUEST", ToAgent(a), c) \in Messages
          /\ Message("COMMAND_CANCEL", ToAgent(a), c) \in Messages
    /\ \A a \in AgentIds : Message("AGENT_CONTROL", ToAgent(a), None) \in Messages
    /\ Message("EMERGENCY_STOP", ToAllAgents, None) \in Messages
    /\ Message("EMERGENCY_STOP", ToDashboards, None) \in Messages
    /\ \A c \in Commands \cup {None}, d \in DashConns :
          Message("TERMINAL_STREAM", ToDashboard(d), c) \in Messages
    /\ \A c \in Commands \cup {None} :
          Message("TERMINAL_STREAM", ToTopic("terminals"), c) \in Messages
    /\ \A n \in Notices :
          Message(n[1], IF n[2] = None THEN ToDashboards ELSE ToTopic(n[2]), None)
             \in Messages
  <1>1. /\ \A a \in AgentIds : ToAgent(a) \in Routes
        /\ ToAllAgents \in Routes /\ ToDashboards \in Routes
        /\ \A d \in DashConns : ToDashboard(d) \in Routes
        /\ \A t \in AllTopics : ToTopic(t) \in Routes
    BY DEF Routes
  <1>2. {"EMERGENCY_STOP", "COMMAND_CANCEL", "AGENT_CONTROL", "TERMINAL_STREAM",
         "AGENT_STATUS", "COMMAND_REQUEST", "AGENT_CONNECTED", "COMMAND_STATUS",
         "QUEUE_UPDATE", "TRACE_STREAM"} \subseteq DOMAIN Priority
    BY DEF Priority
  <1>3. ASSUME NEW n \in Notices
        PROVE  /\ n[1] \in DOMAIN Priority /\ n[1] # "COMMAND_REQUEST"
               /\ n[2] = None \/ n[2] \in AllTopics
    BY <1>2, RouterAssumption DEF AllTopics
  <1>4. \A n \in Notices :
           (IF n[2] = None THEN ToDashboards ELSE ToTopic(n[2])) \in Routes
    BY <1>1, <1>3
  <1>5. "terminals" \in AllTopics
    BY DEF AllTopics
  <1>6. ASSUME NEW n \in Notices
        PROVE  Message(n[1], IF n[2] = None THEN ToDashboards ELSE ToTopic(n[2]), None)
                  \in Messages
    <2> DEFINE r == IF n[2] = None THEN ToDashboards ELSE ToTopic(n[2])
    <2>1. r \in Routes  BY <1>4
    <2> HIDE DEF r
    <2>2. Message(n[1], r, None) \in Messages
      BY <1>3, <2>1, MessageInMessages
    <2>3. QED  BY <2>2 DEF r
  <1>7. QED  BY <1>1, <1>2, <1>5, <1>6, MessageInMessages
-----------------------------------------------------------------------------
(* The connections and the tracking maps.                                   *)

ConnsInv ==
    /\ ConnTypeOK /\ TrackTypeOK /\ TrackedIsReachable
    /\ TrackedDashboardIsConnected
    /\ requested \in [Commands -> SUBSET DashConns]
    /\ begun \subseteq Commands
    /\ running \in BOOLEAN

(* No step but a dashboard's own close event makes an authenticated         *)
(* dashboard connection unauthenticated or takes its handler away.          *)
StillListens ==
    \A d \in DashConns :
        /\ Receives(d) => Receives(d)'
        /\ conn[d].auth => conn'[d].auth

LEMMA ConnectionUpdate ==
    ASSUME ConnTypeOK, NEW c \in Conns, NEW r \in Connection,
           conn' = [conn EXCEPT ![c] = r],
           \/ c \notin DashConns
           \/ /\ conn[c].auth => r.auth
              /\ conn[c].sock \in {"open", "closing"} => r.sock \in {"open", "closing"}
    PROVE  ConnTypeOK' /\ StillListens
  <1>1. conn' \in [Conns -> Connection] /\ conn \in [Conns -> Connection]
    BY DEF ConnTypeOK
  <1>2. ASSUME NEW d \in DashConns
        PROVE  /\ Receives(d) => Receives(d)'
               /\ conn[d].auth => conn'[d].auth
    <2>1. CASE d = c
      BY <1>1, <2>1 DEF Receives
    <2>2. CASE d # c
      BY <1>1, <2>2 DEF Receives, Conns
    <2>3. QED  BY <2>1, <2>2
  <1>3. QED  BY <1>1, <1>2 DEF ConnTypeOK, StillListens

LEMMA ConnectionStep ==
    ASSUME ConnTypeOK, NEW c \in Conns,
           \/ AddConnection(c) \/ RemoveConnection(c)
           \/ \E a \in AgentIds : AuthenticateAgent(c, a)
           \/ \E T \in SUBSET Topics : AuthenticateDashboard(c, T)
           \/ \E t \in Topics : Subscribe(c, t) \/ Unsubscribe(c, t)
           \/ \E b \in BOOLEAN : SetHealth(c, b) \/ BeginClose(c, b)
           \/ c \in AgentConns /\ Closed(c)
    PROVE  ConnTypeOK' /\ StillListens
  <1>0. conn \in [Conns -> Connection] /\ conn[c] \in Connection
    BY DEF ConnTypeOK
  <1>1. CASE AddConnection(c)
    <2> DEFINE r == [conn[c] EXCEPT !.sock = "open", !.inPool = TRUE]
    <2>1. conn' = [conn EXCEPT ![c] = r]
      BY <1>0, <1>1 DEF AddConnection
    <2>2. /\ r \in Connection /\ r.auth = conn[c].auth /\ r.sock = "open"
      BY <1>0 DEF Connection, SocketStates
    <2> HIDE DEF r
    <2>3. QED  BY <2>1, <2>2, ConnectionUpdate
  <1>2. ASSUME NEW a \in AgentIds, AuthenticateAgent(c, a) PROVE ConnTypeOK' /\ StillListens
    <2> DEFINE r == [conn[c] EXCEPT !.auth = TRUE, !.agentId = a]
    <2>1. conn' = [conn EXCEPT ![c] = r]
      BY <1>0, <1>2 DEF AuthenticateAgent
    <2>2. r \in Connection /\ r.auth /\ r.sock = conn[c].sock
      BY <1>0 DEF Connection
    <2> HIDE DEF r
    <2>3. QED  BY <2>1, <2>2, ConnectionUpdate
  <1>3. ASSUME NEW T \in SUBSET Topics, AuthenticateDashboard(c, T)
        PROVE  ConnTypeOK' /\ StillListens
    <2> DEFINE r == [conn[c] EXCEPT !.auth = TRUE, !.subs = @ \cup T]
    <2>1. conn' = [conn EXCEPT ![c] = r]
      BY <1>0, <1>3 DEF AuthenticateDashboard
    <2>2. r \in Connection /\ r.auth /\ r.sock = conn[c].sock
      BY <1>0 DEF Connection
    <2> HIDE DEF r
    <2>3. QED  BY <2>1, <2>2, ConnectionUpdate
  <1>4. ASSUME NEW t \in Topics, Subscribe(c, t) \/ Unsubscribe(c, t)
        PROVE  ConnTypeOK' /\ StillListens
    <2>1. PICK S \in SUBSET Topics : conn' = [conn EXCEPT ![c] = [conn[c] EXCEPT !.subs = S]]
      <3>1. conn[c].subs \cup {t} \in SUBSET Topics /\ conn[c].subs \ {t} \in SUBSET Topics
        BY <1>0 DEF Connection
      <3>2. \/ conn' = [conn EXCEPT ![c] = [conn[c] EXCEPT !.subs = conn[c].subs \cup {t}]]
            \/ conn' = [conn EXCEPT ![c] = [conn[c] EXCEPT !.subs = conn[c].subs \ {t}]]
        BY <1>0, <1>4 DEF Subscribe, Unsubscribe
      <3>3. QED  BY <3>1, <3>2
    <2> DEFINE r == [conn[c] EXCEPT !.subs = S]
    <2>2. r \in Connection /\ r.auth = conn[c].auth /\ r.sock = conn[c].sock
      BY <1>0 DEF Connection
    <2>3. conn' = [conn EXCEPT ![c] = r]  BY <2>1
    <2> HIDE DEF r
    <2>4. QED  BY <2>2, <2>3, ConnectionUpdate
  <1>5. ASSUME NEW b \in BOOLEAN, SetHealth(c, b) PROVE ConnTypeOK' /\ StillListens
    <2> DEFINE r == [conn[c] EXCEPT !.healthy = b]
    <2>1. conn' = [conn EXCEPT ![c] = r]
      BY <1>0, <1>5 DEF SetHealth
    <2>2. r \in Connection /\ r.auth = conn[c].auth /\ r.sock = conn[c].sock
      BY <1>0 DEF Connection
    <2> HIDE DEF r
    <2>3. QED  BY <2>1, <2>2, ConnectionUpdate
  <1>6. ASSUME NEW b \in BOOLEAN, BeginClose(c, b) PROVE ConnTypeOK' /\ StillListens
    <2> DEFINE r == [conn[c] EXCEPT !.sock = "closing", !.inPool = ~b, !.healthy = TRUE]
    <2>1. conn' = [conn EXCEPT ![c] = r]
      BY <1>0, <1>6 DEF BeginClose
    <2>2. r \in Connection /\ r.auth = conn[c].auth /\ r.sock = "closing"
      BY <1>0 DEF Connection, SocketStates
    <2> HIDE DEF r
    <2>3. QED  BY <2>1, <2>2, ConnectionUpdate
  <1>7. CASE c \in AgentConns /\ Closed(c)
    <2> DEFINE r == [NewConnection EXCEPT !.sock = "closed"]
    <2>1. conn' = [conn EXCEPT ![c] = r]
      BY <1>7 DEF Closed
    <2>2. r \in Connection /\ c \notin DashConns
      BY <1>7, ConnsAssumption DEF Connection, SocketStates, NewConnection
    <2> HIDE DEF r
    <2>3. QED  BY <2>1, <2>2, ConnectionUpdate
  <1>8. CASE RemoveConnection(c)
    <2> DEFINE r == [conn[c] EXCEPT !.inPool = FALSE]
    <2>1. conn' = [conn EXCEPT ![c] = r]
      BY <1>0, <1>8 DEF RemoveConnection
    <2>2. r \in Connection /\ r.auth = conn[c].auth /\ r.sock = conn[c].sock
      BY <1>0 DEF Connection
    <2> HIDE DEF r
    <2>3. QED  BY <2>1, <2>2, ConnectionUpdate
  <1>9. QED  BY <1>1, <1>2, <1>3, <1>4, <1>5, <1>6, <1>7, <1>8

(* What the tracking maps say stays true while the dashboards listen.       *)
LEMMA ListeningKeeps ==
    ASSUME TrackTypeOK, TrackedIsReachable, TrackedDashboardIsConnected,
           StillListens, UNCHANGED tracking
    PROVE  (TrackTypeOK /\ TrackedIsReachable /\ TrackedDashboardIsConnected)'
  <1>1. /\ TrackTypeOK' /\ TrackedIsReachable'
        /\ commandToDashboard' = commandToDashboard
        /\ dashboardCommands' = dashboardCommands
    BY DEF TrackTypeOK, TrackedIsReachable, Tracked, tracking
  <1>2. ASSUME NEW c \in Commands, Tracked(c)'
        PROVE  (Receives(commandToDashboard[c]) /\ conn[commandToDashboard[c]].auth)'
    <2>1. commandToDashboard[c] \in DashConns
      BY <1>1, <1>2 DEF Tracked, TrackTypeOK
    <2>2. Receives(commandToDashboard[c]) /\ conn[commandToDashboard[c]].auth
      BY <1>1, <1>2 DEF TrackedDashboardIsConnected, Tracked
    <2>3. QED  BY <1>1, <2>1, <2>2 DEF StillListens, Receives
  <1>3. ASSUME NEW d \in DashConns, dashboardCommands'[d] # {} PROVE Receives(d)'
    BY <1>1, <1>3 DEF TrackedDashboardIsConnected, StillListens
  <1>4. QED  BY <1>1, <1>2, <1>3 DEF TrackedDashboardIsConnected

LEMMA CommandRequestKeeps ==
    ASSUME ConnsInv, NEW d \in DashConns, NEW a \in AgentIds, NEW c \in Commands,
           CommandRequest(d, a, c)
    PROVE  ConnsInv'
  <1> USE ConnsAssumption
  <1>1. /\ Receives(d) /\ conn[d].auth
        /\ conn' = [conn EXCEPT ![d].subs = @ \cup ({c} \cap Topics)]
        /\ RegisterCommandForDashboard(c, d) \/ RegisterAndCleanup(c, d)
        /\ requested' \in [Commands -> SUBSET DashConns]
        /\ UNCHANGED <<begun, running>>
    BY DEF CommandRequest, ConnsInv
  <1>2. ConnTypeOK'
    BY <1>1 DEF ConnsInv, ConnTypeOK, Connection, Conns
  <1>3. \A x \in DashConns : /\ Receives(x)' <=> Receives(x)
                             /\ conn'[x].auth = conn[x].auth
    BY <1>1 DEF ConnsInv, ConnTypeOK, Connection, Conns, Receives
  <1>4. TrackTypeOK' /\ TrackedIsReachable'
    <2>1. CASE RegisterCommandForDashboard(c, d)
      BY <2>1 DEF ConnsInv, RegisterCommandForDashboard, TrackTypeOK,
                  TrackedIsReachable, Tracked
    <2>2. CASE RegisterAndCleanup(c, d)
      BY <2>2 DEF ConnsInv, RegisterAndCleanup, TrackTypeOK, TrackedIsReachable, Tracked
    <2>3. QED  BY <1>1, <2>1, <2>2
  <1>5. TrackedDashboardIsConnected'
    <2>1. \A k \in Commands : commandToDashboard'[k] \in {commandToDashboard[k], d, None}
      BY <1>1 DEF ConnsInv, RegisterCommandForDashboard, RegisterAndCleanup, TrackTypeOK
    <2>2. \A x \in DashConns : dashboardCommands'[x] # {} => dashboardCommands[x] # {} \/ x = d
      BY <1>1 DEF ConnsInv, RegisterCommandForDashboard, RegisterAndCleanup, TrackTypeOK
    <2>3. \A k \in Commands : commandToDashboard'[k] \in DashConns \cup {None}
      BY <1>4 DEF TrackTypeOK
    <2>4. ASSUME NEW k \in Commands, Tracked(k)'
          PROVE  (Receives(commandToDashboard[k]) /\ conn[commandToDashboard[k]].auth)'
      <3>1. commandToDashboard'[k] \in DashConns
        BY <2>3, <2>4 DEF Tracked
      <3>2. Receives(commandToDashboard'[k]) /\ conn[commandToDashboard'[k]].auth
        BY <1>1, <2>1, <2>4 DEF Tracked, TrackedDashboardIsConnected, ConnsInv
      <3>3. QED  BY <1>3, <3>1, <3>2 DEF Receives
    <2>5. \A x \in DashConns : dashboardCommands'[x] # {} => Receives(x)'
      BY <1>1, <1>3, <2>2 DEF TrackedDashboardIsConnected, ConnsInv
    <2>6. QED  BY <2>4, <2>5 DEF TrackedDashboardIsConnected
  <1>6. QED  BY <1>1, <1>2, <1>4, <1>5 DEF ConnsInv

(* The close event: every command that named the dashboard was in its set.  *)
LEMMA DashboardClosedKeeps ==
    ASSUME ConnsInv, NEW d \in DashConns, DashboardClosed(d)
    PROVE  ConnsInv'
  <1> USE ConnsAssumption
  <1>1. /\ conn' = [conn EXCEPT ![d] = [NewConnection EXCEPT !.sock = "closed"]]
        /\ CleanupDashboardCommands(d)
        /\ UNCHANGED <<requested, begun, running>>
    BY DEF DashboardClosed, Closed, history
  <1>2. ConnTypeOK'
    BY <1>1 DEF ConnsInv, ConnTypeOK, Connection, Conns, NewConnection, SocketStates
  <1>3. \A x \in DashConns \ {d} : Receives(x)' = Receives(x) /\ conn'[x] = conn[x]
    BY <1>1 DEF ConnsInv, ConnTypeOK, Conns, Receives
  <1>4. TrackTypeOK' /\ TrackedIsReachable'
    BY <1>1 DEF ConnsInv, CleanupDashboardCommands, TrackTypeOK, TrackedIsReachable, Tracked
  <1>5. \A k \in Commands : Tracked(k)' =>
            /\ commandToDashboard'[k] = commandToDashboard[k]
            /\ commandToDashboard'[k] \in DashConns \ {d}
            /\ Tracked(k)
    BY <1>1 DEF ConnsInv, CleanupDashboardCommands, TrackTypeOK, TrackedIsReachable, Tracked
  <1>6. \A x \in DashConns : dashboardCommands'[x] # {} =>
            x # d /\ dashboardCommands[x] # {}
    BY <1>1 DEF ConnsInv, CleanupDashboardCommands, TrackTypeOK
  <1>7. TrackedDashboardIsConnected'
    <2>1. ASSUME NEW k \in Commands, Tracked(k)'
          PROVE  (Receives(commandToDashboard[k]) /\ conn[commandToDashboard[k]].auth)'
      BY <1>3, <1>5, <2>1 DEF ConnsInv, TrackedDashboardIsConnected, Receives
    <2>2. \A x \in DashConns : dashboardCommands'[x] # {} => Receives(x)'
      BY <1>3, <1>6 DEF ConnsInv, TrackedDashboardIsConnected
    <2>3. QED  BY <2>1, <2>2 DEF TrackedDashboardIsConnected
  <1>8. QED  BY <1>1, <1>2, <1>4, <1>7 DEF ConnsInv
(* Steps that can only take tracking entries away.                          *)
LEMMA ForgettingKeeps ==
    ASSUME ConnsInv, UNCHANGED <<conn, requested, begun, running>>,
           TrackTypeOK', TrackedIsReachable',
           \A k \in Commands : commandToDashboard'[k] \in {commandToDashboard[k], None},
           \A d \in DashConns : dashboardCommands'[d] \subseteq dashboardCommands[d]
    PROVE  ConnsInv'
  <1>1. ASSUME NEW k \in Commands, Tracked(k)'
        PROVE  (Receives(commandToDashboard[k]) /\ conn[commandToDashboard[k]].auth)'
    <2>1. commandToDashboard'[k] = commandToDashboard[k] /\ Tracked(k)
      BY <1>1 DEF Tracked
    <2>2. QED  BY <2>1 DEF ConnsInv, TrackedDashboardIsConnected, Receives
  <1>2. \A d \in DashConns : dashboardCommands'[d] # {} => Receives(d)'
    BY DEF ConnsInv, TrackedDashboardIsConnected, Receives
  <1>3. TrackedDashboardIsConnected'
    BY <1>1, <1>2 DEF TrackedDashboardIsConnected
  <1>4. QED  BY <1>3 DEF ConnsInv, ConnTypeOK

LEMMA TimePassesKeeps ==
    ASSUME ConnsInv, NEW c \in Commands, TimePasses(c)
    PROVE  ConnsInv'
  <1>1. /\ UNCHANGED <<conn, requested, begun, running>>
        /\ TimeToLivePasses(c)
    BY DEF TimePasses, history
  <1>2. TrackTypeOK' /\ TrackedIsReachable'
    BY <1>1 DEF ConnsInv, TimeToLivePasses, TrackTypeOK, TrackedIsReachable, Tracked
  <1>3. QED  BY <1>1, <1>2, ForgettingKeeps DEF TimeToLivePasses

LEMMA SweepKeeps ==
    ASSUME ConnsInv, Sweep
    PROVE  ConnsInv'
  <1>1. /\ UNCHANGED <<conn, requested, begun, running>>
        /\ CleanupCommands(Expired)
    BY DEF Sweep, CleanupExpiredCommands, history
  <1>2. TrackTypeOK' /\ TrackedIsReachable'
    BY <1>1, ConnsAssumption DEF ConnsInv, CleanupCommands, TrackTypeOK, TrackedIsReachable, Tracked
  <1>3. QED  BY <1>1, <1>2, ForgettingKeeps DEF CleanupCommands

LEMMA ConnsUnchangedKeeps ==
    ASSUME ConnsInv, UNCHANGED <<conn, tracking, requested, begun, running>>
    PROVE  ConnsInv'
  <1>1. TrackTypeOK' /\ TrackedIsReachable'
    BY DEF ConnsInv, tracking, TrackTypeOK, TrackedIsReachable, Tracked
  <1>2. QED  BY <1>1, ForgettingKeeps DEF tracking

(* A cycle can only begin commands that a request in the queue is about.    *)
LEMMA ProcessKeepsConns ==
    ASSUME QueueTypeOK, ConnsInv, ProcessMessageQueue
    PROVE  ConnsInv'
  <1>1. \A j \in Delivered : messageQueue[j].type = "COMMAND_REQUEST" =>
            messageQueue[j].about \in Commands
    BY FinishedFacts DEF QueueTypeOK, Messages
  <1>2. begun' \subseteq Commands
    BY <1>1 DEF ProcessMessageQueue, ConnsInv
  <1>3. UNCHANGED <<conn, tracking, requested, running>>
    BY DEF ProcessMessageQueue
  <1>4. TrackTypeOK' /\ TrackedIsReachable' /\ TrackedDashboardIsConnected' /\ ConnTypeOK'
    BY <1>3 DEF ConnsInv, tracking, TrackTypeOK, TrackedIsReachable, Tracked,
                TrackedDashboardIsConnected, ConnTypeOK, Receives
  <1>5. QED  BY <1>2, <1>3, <1>4 DEF ConnsInv

LEMMA ConnectionChangeKeeps ==
    ASSUME ConnsInv, ConnectionChange
    PROVE  ConnsInv'
  <1>1. ConnTypeOK' /\ StillListens
    BY ConnectionStep DEF ConnectionChange, ConnsInv
  <1>2. UNCHANGED <<tracking, requested, begun, running>>
    BY DEF ConnectionChange, history
  <1>3. QED  BY <1>1, <1>2, ListeningKeeps DEF ConnsInv

-----------------------------------------------------------------------------
(* The invariant of the specification.                                      *)

RouterInv == QueueInv /\ ConnsInv

LEMMA InitEstablishes == Init => RouterInv
  <1> SUFFICES ASSUME Init PROVE RouterInv
    OBVIOUS
  <1> USE DEF Init
  <1>1. /\ DOMAIN messageQueue = {} /\ Cardinality(DOMAIN messageQueue) = 0
        /\ messageQueue \in [DOMAIN messageQueue -> Messages]
    BY FS_EmptySet
  <1>2. stats \in Statistics
    BY DEF Statistics
  <1>3. QueueInv
    BY <1>1, <1>2, RouterAssumption DEF QueueInv, QueueTypeOK, QueueBounded,
         AtMostOnce, StatsAccountForEveryMessage
  <1>4. ConnTypeOK
    BY DEF ConnTypeOK, ConnInit, NewConnection, Connection, SocketStates
  <1>5. TrackTypeOK /\ TrackedIsReachable /\ TrackedDashboardIsConnected
    BY DEF TrackInit, TrackTypeOK, TrackedIsReachable, Tracked, TrackedDashboardIsConnected
  <1>6. QED  BY <1>3, <1>4, <1>5 DEF RouterInv, ConnsInv

LEMMA StepKeeps == RouterInv /\ [Next]_vars => RouterInv'
  <1> SUFFICES ASSUME QueueInv, ConnsInv, [Next]_vars PROVE QueueInv' /\ ConnsInv'
    BY DEF RouterInv
  <1>1. CASE ProcessMessageQueue
    BY <1>1, ProcessKeeps, ProcessKeepsConns DEF QueueInv
  <1>2. CASE Tick
    BY <1>2, TickKeeps, ConnsUnchangedKeeps DEF Tick, history
  <1>3. CASE Stop
    <2>1. UNCHANGED <<conn, tracking, requested, begun>> /\ running' \in BOOLEAN
      BY <1>3 DEF Stop, history
    <2>2. ConnsInv'
      BY <2>1 DEF ConnsInv, tracking, TrackTypeOK, TrackedIsReachable, Tracked,
                  TrackedDashboardIsConnected, ConnTypeOK, Receives
    <2>3. QED  BY <1>3, <2>2, StopKeeps
  <1>4. CASE Broadcast
    BY <1>4, MessagesQueued, QueueMessageKeeps, ConnsUnchangedKeeps DEF Broadcast, history
  <1>5. ASSUME NEW d \in DashConns, EmergencyStop(d) PROVE QueueInv' /\ ConnsInv'
    BY <1>5, MessagesQueued, QueueTwoKeeps, ConnsUnchangedKeeps DEF EmergencyStop, history
  <1>6. ASSUME NEW d \in DashConns, DashboardClosed(d) PROVE QueueInv' /\ ConnsInv'
    BY <1>6, QueueUnchangedKeeps, DashboardClosedKeeps DEF DashboardClosed, queueVars, history
  <1>7. ASSUME NEW d \in DashConns, NEW a \in AgentIds, AgentControl(d, a)
        PROVE  QueueInv' /\ ConnsInv'
    BY <1>7, MessagesQueued, RouteToAgentKeeps, ConnsUnchangedKeeps DEF AgentControl, history
  <1>8. ASSUME NEW d \in DashConns, NEW a \in AgentIds, NEW c \in Commands,
               CommandRequest(d, a, c)
        PROVE  QueueInv' /\ ConnsInv'
    <2>1. QueueInv'
      BY <1>8, MessagesQueued, RouteToAgentKeeps DEF CommandRequest
    <2>2. QED  BY <1>8, <2>1, CommandRequestKeeps
  <1>9. ASSUME NEW d \in DashConns, NEW a \in AgentIds, NEW c \in Commands,
               CommandCancel(d, a, c)
        PROVE  QueueInv' /\ ConnsInv'
    BY <1>9, MessagesQueued, RouteToAgentKeeps, ConnsUnchangedKeeps DEF CommandCancel, history
  <1>10. ASSUME NEW c \in Commands \cup {None}, StreamTerminalOutput(c)
         PROVE  QueueInv' /\ ConnsInv'
    <2>1. ConnsInv'
      BY <1>10, ConnsUnchangedKeeps DEF StreamTerminalOutput, history
    <2>2. c # None /\ Tracked(c) => commandToDashboard[c] \in DashConns
      BY DEF ConnsInv, TrackTypeOK, Tracked
    <2> DEFINE r == IF c # None /\ Tracked(c) THEN ToDashboard(commandToDashboard[c])
                                              ELSE ToTopic("terminals")
    <2>3. Message("TERMINAL_STREAM", r, c) \in Messages
      BY <2>2, MessagesQueued
    <2>4. QueueMessage(Message("TERMINAL_STREAM", r, c)) /\ UNCHANGED sent
      BY <1>10 DEF StreamTerminalOutput, history
    <2> HIDE DEF r
    <2>5. QED  BY <2>1, <2>3, <2>4, QueueMessageKeeps
  <1>11. ASSUME NEW c \in Commands, TimePasses(c) PROVE QueueInv' /\ ConnsInv'
    BY <1>11, TimePassesKeeps, QueueUnchangedKeeps DEF TimePasses, queueVars, history
  <1>12. CASE ConnectionChange
    BY <1>12, ConnectionChangeKeeps, QueueUnchangedKeeps DEF ConnectionChange, queueVars, history
  <1>13. CASE Sweep
    BY <1>13, SweepKeeps, QueueUnchangedKeeps DEF Sweep, queueVars, history
  <1>14. CASE UNCHANGED vars
    BY <1>14, QueueUnchangedKeeps, ConnsUnchangedKeeps DEF vars, queueVars, history
  <1>15. QED
    BY <1>1, <1>2, <1>3, <1>4, <1>5, <1>6, <1>7, <1>8, <1>9, <1>10, <1>11, <1>12,
       <1>13, <1>14 DEF Next

(* The invariant holds in every reachable state, whatever the limits, the   *)
(* connections, agents and commands.                                        *)
THEOREM RouterInvariant == Spec => []RouterInv
  BY InitEstablishes, StepKeeps, PTL DEF Spec

(* Every variable keeps its type.                                           *)
THEOREM RouterTypeCorrect == Spec => []TypeOK
  <1>1. RouterInv => TypeOK
    BY DEF RouterInv, QueueInv, ConnsInv, QueueTypeOK, TypeOK, Statistics
  <1>2. QED  BY <1>1, RouterInvariant, PTL

(* queueMessage never lets the queue outgrow maxQueueSize, whatever the     *)
(* order of requests, broadcasts and delivery cycles.                       *)
THEOREM QueueNeverOutgrowsLimit == Spec => []QueueBounded
  <1>1. RouterInv => QueueBounded  BY DEF RouterInv, QueueInv
  <1>2. QED  BY <1>1, RouterInvariant, PTL

(* No message is handed to its recipients in two cycles: what deliverMessage *)
(* sent is out of the queue for good.                                        *)
THEOREM NoMessageSentTwice == Spec => []AtMostOnce
  <1>1. RouterInv => AtMostOnce  BY DEF RouterInv, QueueInv
  <1>2. QED  BY <1>1, RouterInvariant, PTL

(* The routing statistics never lose or double-count a message.             *)
THEOREM StatisticsAreComplete == Spec => []StatsAccountForEveryMessage
  <1>1. RouterInv => StatsAccountForEveryMessage  BY DEF RouterInv, QueueInv
  <1>2. QED  BY <1>1, RouterInvariant, PTL

(* No tracking entry survives its dashboard's close event: terminal output  *)
(* is never addressed to a dashboard whose handler is gone.                 *)
THEOREM NoEntryOutlivesItsDashboard == Spec => []TrackedDashboardIsConnected
  <1>1. RouterInv => TrackedDashboardIsConnected  BY DEF RouterInv, ConnsInv
  <1>2. QED  BY <1>1, RouterInvariant, PTL

(* The tracking maps stay in step, so that a disconnect and the TTL sweep   *)
(* find every entry there is.                                               *)
THEOREM TrackingStaysInStep == Spec => []TrackedIsReachable
  <1>1. RouterInv => TrackedIsReachable  BY DEF RouterInv, ConnsInv
  <1>2. QED  BY <1>1, RouterInvariant, PTL

-----------------------------------------------------------------------------
(* Who a tracking entry names.                                              *)

(* Steps after which every entry is one there was.                          *)
LEMMA RoutedUnlessForgotten ==
    ASSUME TrackedWasRouted, UNCHANGED requested,
           \A k \in Commands : commandToDashboard'[k] \in {commandToDashboard[k], None}
    PROVE  TrackedWasRouted'
  BY DEF TrackedWasRouted, Tracked

LEMMA RequestKeepsRouted ==
    ASSUME ConnsInv, TrackedWasRouted, NEW d \in DashConns, NEW a \in AgentIds,
           NEW c \in Commands, CommandRequest(d, a, c)
    PROVE  TrackedWasRouted'
  <1>1. /\ commandToDashboard \in [Commands -> DashConns \cup {None}]
        /\ requested \in [Commands -> SUBSET DashConns]
    BY DEF ConnsInv, TrackTypeOK
  <1>2. CASE Known(a)
    <2>1. /\ requested' = [requested EXCEPT ![c] = @ \cup {d}]
          /\ commandToDashboard' = [commandToDashboard EXCEPT ![c] = d]
      BY <1>2 DEF CommandRequest, RegisterCommandForDashboard
    <2>2. ASSUME NEW k \in Commands, Tracked(k)'
          PROVE  commandToDashboard'[k] \in requested'[k]
      <3>1. CASE k = c
        BY <1>1, <2>1, <3>1
      <3>2. CASE k # c
        BY <1>1, <2>1, <2>2, <3>2 DEF TrackedWasRouted, Tracked
      <3>3. QED  BY <3>1, <3>2
    <2>3. QED  BY <2>2 DEF TrackedWasRouted
  <1>3. CASE ~Known(a)
    <2>1. /\ requested' = requested
          /\ commandToDashboard' = [commandToDashboard EXCEPT ![c] = None]
      BY <1>3 DEF CommandRequest, RegisterAndCleanup
    <2>2. \A k \in Commands : commandToDashboard'[k] \in {commandToDashboard[k], None}
      BY <1>1, <2>1
    <2>3. QED  BY <2>1, <2>2, RoutedUnlessForgotten
  <1>4. QED  BY <1>2, <1>3

LEMMA StepKeepsRouted ==
    RouterInv /\ TrackedWasRouted /\ [Next]_vars => TrackedWasRouted'
  <1> SUFFICES ASSUME ConnsInv, TrackedWasRouted, [Next]_vars PROVE TrackedWasRouted'
    BY DEF RouterInv
  <1>1. ASSUME UNCHANGED <<tracking, requested>> PROVE TrackedWasRouted'
    BY <1>1, RoutedUnlessForgotten DEF tracking
  <1>2. CASE \/ ProcessMessageQueue \/ Tick \/ Stop \/ Broadcast \/ ConnectionChange
             \/ UNCHANGED vars
    BY <1>1, <1>2 DEF ProcessMessageQueue, Tick, Stop, Broadcast, ConnectionChange, vars, history
  <1>3. ASSUME NEW d \in DashConns, NEW a \in AgentIds,
               AgentControl(d, a) \/ \E c \in Commands : CommandCancel(d, a, c)
        PROVE  TrackedWasRouted'
    BY <1>1, <1>3 DEF AgentControl, CommandCancel, history
  <1>4. ASSUME NEW d \in DashConns, EmergencyStop(d) PROVE TrackedWasRouted'
    BY <1>1, <1>4 DEF EmergencyStop, history
  <1>5. ASSUME NEW d \in DashConns, DashboardClosed(d) PROVE TrackedWasRouted'
    <2>1. UNCHANGED requested
      BY <1>5 DEF DashboardClosed, history
    <2>2. \A k \in Commands : commandToDashboard'[k] \in {commandToDashboard[k], None}
      BY <1>5 DEF DashboardClosed, CleanupDashboardCommands
    <2>3. QED  BY <2>1, <2>2, RoutedUnlessForgotten
  <1>6. ASSUME NEW d \in DashConns, NEW a \in AgentIds, NEW c \in Commands,
               CommandRequest(d, a, c)
        PROVE  TrackedWasRouted'
    BY <1>6, RequestKeepsRouted
  <1>7. ASSUME NEW c, StreamTerminalOutput(c) \/ TimePasses(c) PROVE TrackedWasRouted'
    <2>1. UNCHANGED <<commandToDashboard, requested>>
      BY <1>7 DEF StreamTerminalOutput, TimePasses, TimeToLivePasses, tracking, history
    <2>2. QED  BY <2>1, RoutedUnlessForgotten
  <1>8. CASE Sweep
    <2>1. /\ UNCHANGED requested
          /\ \A k \in Commands : commandToDashboard'[k] \in {commandToDashboard[k], None}
      BY <1>8 DEF Sweep, CleanupExpiredCommands, CleanupCommands, history
    <2>2. QED  BY <2>1, RoutedUnlessForgotten
  <1>9. QED
    BY <1>2, <1>3, <1>4, <1>5, <1>6, <1>7, <1>8 DEF Next

(* A tracking entry stands for a request that went to an agent and names    *)
(* one who made it: the entry of a request that routeToAgent refused is     *)
(* taken back in the same handler.                                          *)
THEOREM EntriesAreRouted == Spec => []TrackedWasRouted
  <1>1. Init => TrackedWasRouted
    BY DEF Init, TrackInit, TrackedWasRouted, Tracked
  <1>2. QED  BY <1>1, StepKeepsRouted, RouterInvariant, PTL DEF Spec

-----------------------------------------------------------------------------
(* What a step of the router may never do.                                  *)

(* Only a delivery cycle sends, or gives a message up.                      *)
LEMMA OthersSendNothing ==
    ASSUME QueueInv, [Next]_vars, ~ProcessMessageQueue
    PROVE  /\ UNCHANGED sent
           /\ stats'.sent = stats.sent /\ stats'.failed = stats.failed
  <1>0. stats \in Statistics
    BY DEF QueueInv, QueueTypeOK
  <1>1. ASSUME NEW m, QueueMessage(m)
        PROVE  stats'.sent = stats.sent /\ stats'.failed = stats.failed
    BY <1>0, <1>1 DEF QueueMessage, Statistics
  <1>2. ASSUME NEW m, NEW n, QueueTwo(m, n)
        PROVE  stats'.sent = stats.sent /\ stats'.failed = stats.failed
    BY <1>0, <1>2 DEF QueueTwo, Statistics
  <1>3. ASSUME NEW a, NEW m, RouteToAgent(a, m)
        PROVE  stats'.sent = stats.sent /\ stats'.failed = stats.failed
    BY <1>1, <1>3 DEF RouteToAgent, queueVars
  <1>4. CASE Tick \/ ConnectionChange \/ Sweep \/ UNCHANGED vars
    BY <1>4 DEF Tick, ConnectionChange, Sweep, vars, queueVars, history
  <1>5. CASE Stop
    BY <1>0, <1>5 DEF Stop, history, Statistics
  <1>6. CASE Broadcast
    BY <1>1, <1>6 DEF Broadcast, history
  <1>7. ASSUME NEW d \in DashConns, EmergencyStop(d) \/ DashboardClosed(d)
        PROVE  /\ UNCHANGED sent
               /\ stats'.sent = stats.sent /\ stats'.failed = stats.failed
    <2>1. CASE EmergencyStop(d)
      BY <1>2, <2>1 DEF EmergencyStop, history
    <2>2. CASE DashboardClosed(d)
      BY <2>2 DEF DashboardClosed, queueVars, history
    <2>3. QED  BY <1>7, <2>1, <2>2
  <1>8. ASSUME NEW d \in DashConns, NEW a \in AgentIds,
               \/ AgentControl(d, a)
               \/ \E c \in Commands : CommandRequest(d, a, c) \/ CommandCancel(d, a, c)
        PROVE  /\ UNCHANGED sent
               /\ stats'.sent = stats.sent /\ stats'.failed = stats.failed
    <2>1. CASE AgentControl(d, a)
      BY <1>3, <2>1 DEF AgentControl, history
    <2>2. ASSUME NEW c \in Commands, CommandRequest(d, a, c)
          PROVE  /\ UNCHANGED sent
                 /\ stats'.sent = stats.sent /\ stats'.failed = stats.failed
      BY <1>3, <2>2 DEF CommandRequest
    <2>3. ASSUME NEW c \in Commands, CommandCancel(d, a, c)
          PROVE  /\ UNCHANGED sent
                 /\ stats'.sent = stats.sent /\ stats'.failed = stats.failed
      BY <1>3, <2>3 DEF CommandCancel, history
    <2>4. QED  BY <1>8, <2>1, <2>2, <2>3
  <1>9. ASSUME NEW c, StreamTerminalOutput(c) \/ TimePasses(c)
        PROVE  /\ UNCHANGED sent
               /\ stats'.sent = stats.sent /\ stats'.failed = stats.failed
    <2>1. CASE StreamTerminalOutput(c)
      BY <1>1, <2>1 DEF StreamTerminalOutput, history
    <2>2. CASE TimePasses(c)
      BY <2>2 DEF TimePasses, queueVars, history
    <2>3. QED  BY <1>9, <2>1, <2>2
  <1>10. QED
    BY <1>4, <1>5, <1>6, <1>7, <1>8, <1>9 DEF Next

LEMMA SentIsDelivered ==
    ASSUME QueueInv, ProcessMessageQueue, NEW j, NEW c, SentNow(j, c)
    PROVE  j \in Delivered
  <1>1. PICK i \in Delivered : <<j, c>> \in {i} \X Recipients(messageQueue[i])
    BY DEF SentNow, ProcessMessageQueue
  <1>2. QED  BY <1>1

(* A due message that goes before one the cycle reaches is reached too.     *)
LEMMA EarlierIsReached ==
    ASSUME QueueInv, NEW i \in DOMAIN messageQueue, NEW j \in Reached, Before(i, j), Due(i)
    PROVE  i \in Reached
  <1> DEFINE D == DOMAIN messageQueue
             I == {k \in D : Before(k, i) /\ Deliverable(k)}
             J == {k \in D : Before(k, j) /\ Deliverable(k)}
  <1>1. \A k \in D : k \in Nat /\ Prio(messageQueue[k]) \in Nat
    <2>1. nextId \in Nat /\ D \subseteq 0..(nextId - 1)
      BY RouterAssumption DEF QueueInv, QueueTypeOK
    <2>2. QED  BY <2>1, PrioIsNatural DEF QueueInv, QueueTypeOK
  <1>2. j \in D /\ Cardinality(J) < BatchSize
    BY DEF Reached
  <1>3. \A k \in D : Before(k, i) => Before(k, j)
    BY <1>1, <1>2 DEF Before
  <1>4. I \subseteq J /\ J \subseteq D
    BY <1>3
  <1>5. IsFiniteSet(D)
    BY IdsAreFinite, RouterAssumption DEF QueueInv, QueueTypeOK
  <1>6. /\ IsFiniteSet(I) /\ IsFiniteSet(J) /\ Cardinality(I) <= Cardinality(J)
        /\ Cardinality(I) \in Nat /\ Cardinality(J) \in Nat
    BY <1>4, <1>5, FS_Subset, FS_CardinalityType
  <1>7. Cardinality(I) < BatchSize
    BY <1>2, <1>6, RouterAssumption
  <1>8. QED  BY <1>7 DEF Reached

LEMMA StepKeepsOrder ==
    ASSUME RouterInv, [Next]_vars,
           NEW i \in DOMAIN messageQueue, NEW j \in DOMAIN messageQueue,
           Before(i, j), messageQueue[i].wait = 0, NEW c \in Conns, SentNow(j, c)
    PROVE  \/ i \notin DOMAIN messageQueue'
           \/ messageQueue'[i].attempts > messageQueue[i].attempts
  <1>0. QueueInv
    BY DEF RouterInv
  <1>1. ProcessMessageQueue
    BY <1>0, OthersSendNothing DEF SentNow
  <1>2. j \in Reached
    BY <1>0, <1>1, SentIsDelivered DEF Delivered
  <1>3. i \in Reached
    BY <1>0, <1>2, EarlierIsReached DEF Due
  <1>4. i \in Finished \/ (i \in Failing /\ i \notin Finished)
    BY <1>3 DEF Finished, Failing
  <1>5. CASE i \in Finished
    BY <1>1, <1>5 DEF ProcessMessageQueue
  <1>6. CASE i \in Failing /\ i \notin Finished
    <2>1. messageQueue'[i] = Retry(messageQueue[i])
      BY <1>1, <1>6 DEF ProcessMessageQueue
    <2>2. messageQueue[i] \in Messages
      BY <1>0 DEF QueueInv, QueueTypeOK
    <2>3. /\ messageQueue[i].attempts \in Nat
          /\ Retry(messageQueue[i]).attempts = messageQueue[i].attempts + 1
      BY <2>2, RouterAssumption DEF Messages, Retry
    <2>4. QED  BY <2>1, <2>3
  <1>7. QED  BY <1>4, <1>5, <1>6

(* Within and across cycles no message is delivered while a due one that    *)
(* goes before it, by priority or by age, is left untried: the batch limit  *)
(* of processMessageQueue cuts its sorted queue, and never skips in it.     *)
THEOREM NothingOvertakes == Spec => NoOvertaking
  <1>1. RouterInv /\ [Next]_vars =>
          [\A i, j \in DOMAIN messageQueue :
              /\ \/ Prio(messageQueue[i]) > Prio(messageQueue[j])
                 \/ Prio(messageQueue[i]) = Prio(messageQueue[j]) /\ i < j
              /\ messageQueue[i].wait = 0
              /\ \E c \in Conns : SentNow(j, c)
              => \/ i \notin DOMAIN messageQueue'
                 \/ messageQueue'[i].attempts > messageQueue[i].attempts]_vars
    BY StepKeepsOrder DEF Before
  <1>2. QED  BY <1>1, RouterInvariant, PTL DEF Spec, NoOvertaking

LEMMA GivenUpWithoutAgent ==
    ASSUME RouterInv, [Next]_vars, NEW i \in DOMAIN messageQueue, NEW a \in AgentIds,
           messageQueue[i].route = ToAgent(a), GoneUnsent(i),
           stats'.failed + stats'.sent > stats.failed + stats.sent,
           ~TimedOut(i)
    PROVE  ~UsableAgent(a)
  <1>0. QueueInv /\ ConnsInv
    BY DEF RouterInv
  <1>1. ProcessMessageQueue
    <2>1. stats.failed \in Nat /\ stats.sent \in Nat
      BY <1>0 DEF QueueInv, QueueTypeOK, Statistics
    <2>2. QED  BY <1>0, <2>1, OthersSendNothing
  <1>2. i \in Finished
    BY <1>1 DEF GoneUnsent, ProcessMessageQueue
  <1>3. i \notin Expiring
    BY DEF Expiring
  <1>4. i \notin Delivered
    <2> SUFFICES ASSUME i \in Delivered PROVE FALSE
      OBVIOUS
    <2>1. Recipients(messageQueue[i]) # {}
      BY DEF Delivered, Deliverable
    <2>2. PICK c \in Conns : c \in Recipients(messageQueue[i])
      <3>1. Candidates(messageQueue[i].route) \subseteq Conns
        BY DEF ToAgent, Candidates, GetConnectionsByAgentId, Pool
      <3>2. QED  BY <2>1, <3>1 DEF Recipients
    <2>3. <<i, c>> \in sent'
      BY <1>1, <2>2 DEF ProcessMessageQueue
    <2>4. <<i, c>> \notin sent
      BY <1>0 DEF QueueInv, AtMostOnce
    <2>5. QED  BY <2>3, <2>4 DEF GoneUnsent, SentNow
  <1>5. Recipients(messageQueue[i]) = {}
    <2>1. i \in Failing /\ i \notin Delivered
      BY <1>2, <1>3, <1>4 DEF Finished, GivenUp
    <2>2. QED  BY <2>1 DEF Failing, Delivered, Deliverable, Reached
  <1>6. ASSUME NEW c \in AgentConns, conn[c].agentId = a, conn[c].auth, IsConnectionHealthy(c)
        PROVE  FALSE
    <2>1. c \in Pool
      BY <1>6 DEF Pool, Conns, IsConnectionHealthy
    <2>2. c \in Candidates(ToAgent(a))
      BY <1>6, <2>1 DEF Candidates, ToAgent, GetConnectionsByAgentId
    <2>3. Filter(ToAgent(a), c)
      BY <1>6 DEF Filter, ToAgent
    <2>4. QED  BY <1>5, <1>6, <2>2, <2>3 DEF Recipients
  <1>7. QED  BY <1>6 DEF UsableAgent

(* A delivery cycle gives a message to an agent up (handleDeliveryFailure), *)
(* before its timeout, only while the agent has no usable connection.       *)
THEOREM GivesUpOnAbsentAgents == Spec => AgentMessageNotGivenUp
  <1>1. RouterInv /\ [Next]_vars =>
          [\A i \in DOMAIN messageQueue, a \in AgentIds :
              /\ messageQueue[i].route = ToAgent(a)
              /\ GoneUnsent(i) /\ stats'.failed + stats'.sent > stats.failed + stats.sent
              /\ ~TimedOut(i)
              => ~UsableAgent(a)]_vars
    BY GivenUpWithoutAgent
  <1>2. QED  BY <1>1, RouterInvariant, PTL DEF Spec, AgentMessageNotGivenUp
=============================================================================
