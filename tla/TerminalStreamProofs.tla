------------------------ MODULE TerminalStreamProofs ------------------------
(***************************************************************************)
(* For any limits, numbers of lines and of breaks: a line is taken for a   *)
(* duplicate only after the agent's counter has started again, and the     *)
(* flushes of the agent's session implement the output log.                *)
(***************************************************************************)
EXTENDS TerminalStream, SequenceTheorems, TLAPS

LineId == 1..MaxLines
Line == [id : LineId, seq : LineId, err : BOOLEAN]
Session == [buffer : Seq(LineId), seen : SUBSET LineId, sinceFlush : 0..4]

StreamShape ==
    /\ counter \in Nat /\ produced \in 0..MaxLines /\ counter <= produced
    /\ wire \in Seq(Line)
    /\ resolved \in BOOLEAN /\ halfway \in BOOLEAN /\ streamUp \in BOOLEAN
    /\ breaks \in 0..MaxBreaks /\ counterLost \in BOOLEAN
    /\ session \in [Filed -> Session]
    /\ accepted \in [Filed -> Seq(LineId)]
    /\ streamed \in [Filed -> Seq(LineId)]
    /\ skipped \subseteq LineId
    /\ storeFaults \in 0..MaxStoreFaults

BuffersFit == \A f \in Filed : Len(session[f].buffer) < MaxBufferedLines

(* The numbers on the connection grow, and none of them was seen before, in *)
(* whichever session the line will be filed.                                *)
NumbersGrow ==
    ~counterLost =>
        /\ \A i \in 1..Len(wire) : wire[i].seq <= counter
        /\ \A i, j \in 1..Len(wire) : i < j => wire[i].seq < wire[j].seq
        /\ \A f \in Filed : \A n \in session[f].seen :
              n <= counter /\ \A i \in 1..Len(wire) : n < wire[i].seq

(* What a session has accepted it has published or still holds.             *)
NothingHeldBack == \A f \in Filed : accepted[f] = streamed[f] \o session[f].buffer

StreamInv ==
    /\ StreamShape /\ BuffersFit /\ NumbersGrow /\ NothingHeldBack
    /\ OnlyRestartsAreSkipped

-----------------------------------------------------------------------------
(* A session after the operations on it.                                    *)
LEMMA NewSessionFields ==
    /\ NewSession \in Session
    /\ NewSession.buffer = <<>> /\ NewSession.seen = {} /\ NewSession.sinceFlush = 0
  BY DEF NewSession, Session

LEMMA FlushedFields ==
    ASSUME NEW s \in Session
    PROVE  /\ Flushed(s) \in Session
           /\ Flushed(s).buffer = <<>> /\ Flushed(s).seen = s.seen
  <1> DEFINE r == [s EXCEPT !.buffer = <<>>]
  <1>0. <<>> \in Seq(LineId)
    OBVIOUS
  <1>1. r \in Session /\ r.buffer = <<>> /\ r.seen = s.seen
    BY <1>0 DEF Session
  <1>2. Flushed(s) = [r EXCEPT !.sinceFlush = 0]
    BY DEF Flushed, Session
  <1> HIDE DEF r
  <1>3. QED  BY <1>1, <1>2 DEF Session

LEMMA OlderFields ==
    ASSUME NEW s \in Session
    PROVE  /\ Older(s) \in Session
           /\ Older(s).buffer = s.buffer /\ Older(s).seen = s.seen
  <1> DEFINE n == IF s.sinceFlush < 4 THEN s.sinceFlush + 1 ELSE s.sinceFlush
  <1>1. s.sinceFlush \in 0..4
    BY DEF Session
  <1>2. n \in 0..4
    BY <1>1
  <1>3. Older(s) = [s EXCEPT !.sinceFlush = n]
    BY DEF Older
  <1> HIDE DEF n
  <1>4. QED  BY <1>2, <1>3 DEF Session

LEMMA TakenFields ==
    ASSUME NEW s \in Session, NEW l \in Line
    PROVE  /\ Taken(s, l) \in Session
           /\ Taken(s, l).buffer = Append(s.buffer, l.id)
           /\ Taken(s, l).seen = s.seen \cup {l.seq}
  <1> DEFINE r == [s EXCEPT !.seen = @ \cup {l.seq}]
             b == Append(s.buffer, l.id)
  <1>1. l.id \in LineId /\ l.seq \in LineId
    BY DEF Line
  <1>2. /\ s.buffer \in Seq(LineId) /\ s.seen \in SUBSET LineId
    BY DEF Session
  <1>3. b \in Seq(LineId)
    BY <1>1, <1>2, AppendProperties
  <1>4. r \in Session /\ r.seen = s.seen \cup {l.seq} /\ r.buffer = s.buffer
    BY <1>1, <1>2 DEF Session
  <1>5. Taken(s, l) = [r EXCEPT !.buffer = b]
    BY DEF Taken, Session
  <1> HIDE DEF r, b
  <1>6. /\ Taken(s, l) \in Session /\ Taken(s, l).buffer = b
        /\ Taken(s, l).seen = s.seen \cup {l.seq}
    BY <1>3, <1>4, <1>5 DEF Session
  <1>7. QED  BY <1>6 DEF b

(* A flush of some sessions publishes all they hold and nothing else.       *)
FlushEffect(fs, new) ==
    /\ session' \in [Filed -> Session]
    /\ streamed' \in [Filed -> Seq(LineId)]
    /\ \A f \in Filed :
          /\ session'[f].seen = new[f].seen
          /\ session'[f].buffer = IF f \in fs THEN <<>> ELSE new[f].buffer
          /\ streamed'[f] = IF f \in fs THEN streamed[f] \o new[f].buffer ELSE streamed[f]
          /\ streamed'[f] \o session'[f].buffer = streamed[f] \o new[f].buffer

LEMMA FlushPublishes ==
    ASSUME NEW fs \in SUBSET Filed, NEW new \in [Filed -> Session],
           FlushSessions(fs, new),
           streamed \in [Filed -> Seq(LineId)]
    PROVE  FlushEffect(fs, new)
  <1>1. /\ session' = [f \in Filed |-> IF f \in fs THEN Flushed(new[f]) ELSE new[f]]
        /\ streamed' = [f \in Filed |->
                          IF f \in fs THEN streamed[f] \o new[f].buffer ELSE streamed[f]]
    BY DEF FlushSessions
  <1>2. ASSUME NEW f \in Filed
        PROVE  /\ session'[f] \in Session
               /\ streamed'[f] \in Seq(LineId)
               /\ session'[f].seen = new[f].seen
               /\ session'[f].buffer = IF f \in fs THEN <<>> ELSE new[f].buffer
               /\ streamed'[f] = IF f \in fs THEN streamed[f] \o new[f].buffer
                                             ELSE streamed[f]
               /\ streamed'[f] \o session'[f].buffer = streamed[f] \o new[f].buffer
    <2>1. new[f] \in Session /\ new[f].buffer \in Seq(LineId) /\ streamed[f] \in Seq(LineId)
      BY DEF Session
    <2>2. streamed[f] \o new[f].buffer \in Seq(LineId)
      BY <2>1, ConcatProperties
    <2>3. (streamed[f] \o new[f].buffer) \o <<>> = streamed[f] \o new[f].buffer
      BY <2>2, ConcatEmptySeq
    <2>4. CASE f \in fs
      BY <1>1, <2>1, <2>2, <2>3, <2>4, FlushedFields
    <2>5. CASE f \notin fs
      BY <1>1, <2>1, <2>5
    <2>6. QED  BY <2>4, <2>5
  <1>3. /\ session' = [f \in Filed |-> session'[f]]
        /\ streamed' = [f \in Filed |-> streamed'[f]]
    BY <1>1
  <1>4. QED  BY <1>2, <1>3 DEF FlushEffect

-----------------------------------------------------------------------------
LEMMA StreamInitIsSound == StreamInit => StreamInv
  <1> SUFFICES ASSUME StreamInit PROVE StreamInv
    OBVIOUS
  <1>1. <<>> \in Seq(LineId) /\ <<>> \in Seq(Line) /\ Len(<<>>) = 0 /\ <<>> \o <<>> = <<>>
    OBVIOUS
  <1>2. StreamShape
    <2>1. MaxLines \in Nat /\ MaxBreaks \in Nat /\ MaxStoreFaults \in Nat
      BY StreamAssumption
    <2>2. /\ session \in [Filed -> Session]
          /\ accepted \in [Filed -> Seq(LineId)]
          /\ streamed \in [Filed -> Seq(LineId)]
      BY <1>1, NewSessionFields DEF StreamInit
    <2>3. 0 \in 0..MaxLines /\ 0 \in 0..MaxBreaks /\ 0 \in 0..MaxStoreFaults
      BY <2>1
    <2>4. /\ counter = 0 /\ produced = 0 /\ wire = <<>> /\ skipped = {} /\ breaks = 0
          /\ resolved = FALSE /\ counterLost = FALSE /\ halfway = FALSE /\ streamUp = TRUE
          /\ storeFaults = 0
      BY DEF StreamInit
    <2>5. wire \in Seq(Line) /\ skipped \subseteq LineId
      BY <1>1, <2>4
    <2>6. /\ counter \in Nat /\ produced \in 0..MaxLines /\ counter <= produced
          /\ breaks \in 0..MaxBreaks /\ storeFaults \in 0..MaxStoreFaults
      BY <2>3, <2>4
    <2>7. /\ resolved \in BOOLEAN /\ halfway \in BOOLEAN /\ streamUp \in BOOLEAN
          /\ counterLost \in BOOLEAN
      BY <2>4
    <2>8. QED  BY <2>2, <2>5, <2>6, <2>7 DEF StreamShape
  <1>3. BuffersFit /\ NothingHeldBack
    BY <1>1, NewSessionFields, StreamAssumption DEF StreamInit, BuffersFit, NothingHeldBack
  <1>4. NumbersGrow /\ OnlyRestartsAreSkipped
    BY <1>1, NewSessionFields DEF StreamInit, NumbersGrow, OnlyRestartsAreSkipped
  <1>5. QED  BY <1>2, <1>3, <1>4 DEF StreamInv

(* The agent's steps.                                                       *)
LEMMA PrintingKeeps ==
    ASSUME StreamInv, NEW err \in BOOLEAN, AgentPrints(err)
    PROVE  StreamInv'
  <1> DEFINE l == [id |-> produced + 1, seq |-> counter + 1, err |-> err]
  <1>1. /\ counter \in Nat /\ produced \in Nat /\ MaxLines \in Nat
        /\ counter <= produced /\ produced < MaxLines
    BY StreamAssumption DEF StreamInv, StreamShape, AgentPrints
  <1>2. produced + 1 \in LineId /\ counter + 1 \in LineId /\ counter + 1 \in Nat
    BY <1>1 DEF LineId
  <1>3. l \in Line /\ l.seq = counter + 1
    BY <1>2 DEF Line
  <1>4. /\ produced' = produced + 1 /\ counter' = counter + 1 /\ wire' = Append(wire, l)
        /\ UNCHANGED <<resolved, breaks, counterLost, session, accepted, skipped, streamed,
                       halfway, streamUp, inserts, stored, storeFaults>>
    BY DEF AgentPrints, logVars, storeVars
  <1> HIDE DEF l
  <1>5. wire \in Seq(Line)
    BY DEF StreamInv, StreamShape
  <1>6. /\ wire' \in Seq(Line) /\ Len(wire') = Len(wire) + 1
        /\ \A i \in 1..Len(wire) : wire'[i] = wire[i]
        /\ wire'[Len(wire) + 1] = l
    BY <1>3, <1>4, <1>5, AppendProperties
  <1>7. StreamShape'
    BY <1>1, <1>2, <1>4, <1>6 DEF StreamInv, StreamShape
  <1>8. NumbersGrow'
    <2> SUFFICES ASSUME ~counterLost PROVE NumbersGrow'
      BY <1>4 DEF NumbersGrow
    <2>1. /\ \A i \in 1..Len(wire) : wire[i].seq <= counter
          /\ \A i, j \in 1..Len(wire) : i < j => wire[i].seq < wire[j].seq
          /\ \A f \in Filed : \A n \in session[f].seen :
                n <= counter /\ \A i \in 1..Len(wire) : n < wire[i].seq
      BY DEF StreamInv, NumbersGrow
    <2>2. Len(wire) \in Nat
      BY <1>5
    <2>3. ASSUME NEW i \in 1..Len(wire)
          PROVE  wire[i].seq \in Nat
      <3>1. wire[i] \in Line
        BY <1>5, ElementOfSeq
      <3>2. wire[i].seq \in LineId
        BY <3>1 DEF Line
      <3>3. QED  BY <3>2, StreamAssumption DEF LineId
    <2>4. \A f \in Filed : session[f].seen \subseteq Nat
      BY DEF StreamInv, StreamShape, Session, LineId
    <2>5. \A i \in 1..Len(wire') :
             \/ i \in 1..Len(wire) /\ wire'[i] = wire[i]
             \/ i = Len(wire) + 1 /\ wire'[i].seq = counter + 1
      BY <1>3, <1>6, <2>2
    <2>6. \A i \in 1..Len(wire') : wire'[i].seq <= counter'
      BY <1>1, <1>4, <2>1, <2>3, <2>5
    <2>7. \A i, j \in 1..Len(wire') : i < j => wire'[i].seq < wire'[j].seq
      BY <1>1, <2>1, <2>2, <2>3, <2>5
    <2>8. ASSUME NEW f \in Filed, NEW n \in session[f].seen
          PROVE  n <= counter' /\ \A i \in 1..Len(wire') : n < wire'[i].seq
      <3>1. n \in Nat /\ n <= counter /\ \A i \in 1..Len(wire) : n < wire[i].seq
        BY <2>1, <2>4
      <3>2. QED  BY <1>1, <1>4, <2>5, <3>1
    <2>9. QED  BY <1>4, <2>6, <2>7, <2>8 DEF NumbersGrow
  <1>9. (BuffersFit /\ NothingHeldBack /\ OnlyRestartsAreSkipped)'
    BY <1>4 DEF StreamInv, BuffersFit, NothingHeldBack, OnlyRestartsAreSkipped
  <1>10. QED  BY <1>7, <1>8, <1>9 DEF StreamInv

LEMMA ConnectingKeeps ==
    ASSUME StreamInv, ConnectResolved
    PROVE  StreamInv'
  <1>1. /\ resolved' = TRUE
        /\ UNCHANGED <<counter, produced, breaks, counterLost, wire, session, accepted,
                       skipped, streamed, halfway, streamUp, inserts, stored, storeFaults>>
    BY DEF ConnectResolved, logVars, storeVars
  <1>2. QED
    BY <1>1 DEF StreamInv, StreamShape, BuffersFit, NumbersGrow, NothingHeldBack,
                OnlyRestartsAreSkipped

LEMMA BreakingKeeps ==
    ASSUME StreamInv, AgentReconnects \/ AgentRestarts \/ CommandRepeated
    PROVE  StreamInv'
  <1>1. /\ counter' \in {0, counter} /\ wire' \in {<<>>, wire} /\ resolved' \in {FALSE, resolved}
        /\ breaks < MaxBreaks /\ breaks' = breaks + 1
        /\ UNCHANGED <<produced, session, accepted, skipped, streamed, halfway, streamUp,
                       inserts, stored, storeFaults>>
    BY DEF AgentReconnects, AgentRestarts, CommandRepeated, Break, CounterKept, logVars,
           storeVars
  <1>2. \/ counterLost' = TRUE
        \/ counter' = counter /\ counterLost' = counterLost /\ wire' = <<>>
    BY DEF AgentReconnects, AgentRestarts, CommandRepeated, CounterKept
  <1>3. <<>> \in Seq(Line) /\ Len(<<>>) = 0
    OBVIOUS
  <1>4. StreamShape'
    <2>1. MaxBreaks \in Nat /\ breaks \in 0..MaxBreaks
      BY StreamAssumption DEF StreamInv, StreamShape
    <2>2. breaks' \in 0..MaxBreaks
      BY <1>1, <2>1
    <2>3. counter' \in Nat /\ counter' <= produced' /\ produced' \in 0..MaxLines
      BY <1>1, StreamAssumption DEF StreamInv, StreamShape
    <2>4. wire' \in Seq(Line)
      BY <1>1, <1>3 DEF StreamInv, StreamShape
    <2>5. QED  BY <1>1, <1>2, <2>2, <2>3, <2>4 DEF StreamInv, StreamShape
  <1>5. NumbersGrow' /\ OnlyRestartsAreSkipped'
    <2>1. CASE counterLost' = TRUE
      BY <2>1 DEF NumbersGrow, OnlyRestartsAreSkipped
    <2>2. CASE counter' = counter /\ counterLost' = counterLost /\ wire' = <<>>
      BY <1>1, <1>3, <2>2 DEF StreamInv, NumbersGrow, OnlyRestartsAreSkipped
    <2>3. QED  BY <1>2, <2>1, <2>2
  <1>6. BuffersFit' /\ NothingHeldBack'
    BY <1>1 DEF StreamInv, BuffersFit, NothingHeldBack
  <1>7. QED  BY <1>4, <1>5, <1>6 DEF StreamInv

-----------------------------------------------------------------------------
(* The stream manager's steps.                                              *)
LEMMA ArrivalKeeps ==
    ASSUME StreamInv, LineArrives
    PROVE  /\ StreamInv'
           /\ \/ UNCHANGED <<accepted, streamed>>
              \/ \E f \in Filed, i \in LineId :
                    /\ accepted' = [accepted EXCEPT ![f] = Append(@, i)]
                    /\ \A g \in Filed : streamed'[g] \in {streamed[g], accepted'[g]}
  <1> DEFINE l == Head(wire)
             f == IF resolved THEN "agent" ELSE "undefined"
             t == Taken(session[f], l)
             fs == IF ShouldFlushImmediately(t, l.err) THEN {f} ELSE {}
             new == [session EXCEPT ![f] = t]
  <1>1. /\ wire # <<>> /\ wire' = Tail(wire)
        /\ UNCHANGED <<counter, produced, resolved, breaks, counterLost, halfway, streamUp,
                       stored, storeFaults>>
    BY DEF LineArrives, agentVars, storeVars
  <1>2. \/ /\ Seen(session[f], l.seq)
           /\ skipped' = skipped \cup {l.id} /\ UNCHANGED <<session, accepted, streamed>>
        \/ /\ ~Seen(session[f], l.seq)
           /\ accepted' = [accepted EXCEPT ![f] = Append(@, l.id)]
           /\ FlushSessions(fs, new)
           /\ UNCHANGED skipped
    BY DEF LineArrives
  <1>3. f \in Filed
    BY DEF Filed
  <1> HIDE DEF f
  <1>4. /\ wire \in Seq(Line) /\ session \in [Filed -> Session]
        /\ accepted \in [Filed -> Seq(LineId)] /\ streamed \in [Filed -> Seq(LineId)]
        /\ skipped \subseteq LineId
    BY DEF StreamInv, StreamShape
  <1>5. /\ l \in Line /\ l = wire[1] /\ wire' \in Seq(Line)
        /\ Len(wire) \in Nat /\ 1 \in 1..Len(wire) /\ Len(wire') = Len(wire) - 1
        /\ \A i \in 1..Len(wire') : wire'[i] = wire[i + 1]
    BY <1>1, <1>4, HeadTailProperties, ElementOfSeq
  <1>6. l.id \in LineId /\ l.seq \in LineId
    BY <1>5 DEF Line
  <1> HIDE DEF l
  <1>7. CASE Seen(session[f], l.seq)
    <2>1. skipped' = skipped \cup {l.id} /\ UNCHANGED <<session, accepted, streamed>>
      BY <1>2, <1>7
    <2>2. StreamShape'
      BY <1>1, <1>4, <1>5, <1>6, <2>1 DEF StreamInv, StreamShape
    <2>3. counterLost
      <3>1. l.seq \in session[f].seen
        BY <1>7 DEF Seen
      <3>2. l.seq \in Nat
        BY <1>6, StreamAssumption DEF LineId
      <3>3. ~counterLost => l.seq < wire[1].seq
        BY <1>3, <1>5, <3>1 DEF StreamInv, NumbersGrow
      <3>4. QED  BY <1>5, <3>2, <3>3
    <2>4. NumbersGrow' /\ OnlyRestartsAreSkipped'
      BY <1>1, <2>3 DEF NumbersGrow, OnlyRestartsAreSkipped
    <2>5. BuffersFit' /\ NothingHeldBack'
      BY <2>1 DEF StreamInv, BuffersFit, NothingHeldBack
    <2>6. QED  BY <2>1, <2>2, <2>4, <2>5 DEF StreamInv
  <1>8. CASE ~Seen(session[f], l.seq)
    <2>1. /\ accepted' = [accepted EXCEPT ![f] = Append(@, l.id)]
          /\ FlushSessions(fs, new) /\ UNCHANGED skipped
      BY <1>2, <1>8
    <2>2. /\ t \in Session /\ t.buffer = Append(session[f].buffer, l.id)
          /\ t.seen = session[f].seen \cup {l.seq}
      BY <1>3, <1>4, <1>5, TakenFields
    <2>3. /\ new \in [Filed -> Session] /\ new[f] = t
          /\ \A g \in Filed : g # f => new[g] = session[g]
      BY <1>3, <1>4, <2>2
    <2>4. fs \in SUBSET Filed /\ (f \notin fs => Len(t.buffer) < MaxBufferedLines) /\ fs \subseteq {f}
      <3>1. t.buffer \in Seq(LineId)
        BY <2>2 DEF Session
      <3>2. Len(t.buffer) \in Nat /\ MaxBufferedLines \in Nat
        BY <3>1, LenProperties, StreamAssumption
      <3>3. QED  BY <1>3, <3>2 DEF ShouldFlushImmediately
    <2> HIDE DEF t, fs, new
    <2> FlushEffect(fs, new)
      BY <1>4, <2>1, <2>3, <2>4, FlushPublishes
    <2>5. /\ session' \in [Filed -> Session]
          /\ streamed' \in [Filed -> Seq(LineId)]
          /\ \A g \in Filed :
                /\ session'[g].seen = new[g].seen
                /\ session'[g].buffer = IF g \in fs THEN <<>> ELSE new[g].buffer
                /\ streamed'[g] \o session'[g].buffer = streamed[g] \o new[g].buffer
                /\ streamed'[g] = IF g \in fs THEN streamed[g] \o new[g].buffer
                                              ELSE streamed[g]
      BY DEF FlushEffect
    <2>6. /\ accepted'[f] = Append(accepted[f], l.id)
          /\ accepted' \in [Filed -> Seq(LineId)]
          /\ \A g \in Filed : g # f => accepted'[g] = accepted[g]
      <3>1. Append(accepted[f], l.id) \in Seq(LineId)
        BY <1>3, <1>4, <1>6, AppendProperties
      <3>2. QED  BY <1>3, <1>4, <2>1, <3>1
    <2>7. \A g \in Filed : accepted'[g] = streamed[g] \o new[g].buffer
      <3>1. \A g \in Filed : accepted[g] = streamed[g] \o session[g].buffer
        BY DEF StreamInv, NothingHeldBack
      <3>2. session[f].buffer \in Seq(LineId) /\ streamed[f] \in Seq(LineId)
        BY <1>3, <1>4 DEF Session
      <3>3. Append(streamed[f] \o session[f].buffer, l.id)
              = streamed[f] \o Append(session[f].buffer, l.id)
        <4>1. streamed[f] \o session[f].buffer \in Seq(LineId)
          BY <3>2, ConcatProperties
        <4>2. Append(streamed[f] \o session[f].buffer, l.id)
                = (streamed[f] \o session[f].buffer) \o <<l.id>>
          BY <1>6, <4>1, AppendIsConcat
        <4>3. Append(session[f].buffer, l.id) = session[f].buffer \o <<l.id>>
          BY <1>6, <3>2, AppendIsConcat
        <4>4. <<l.id>> \in Seq(LineId)
          BY <1>6
        <4>5. (streamed[f] \o session[f].buffer) \o <<l.id>>
                = streamed[f] \o (session[f].buffer \o <<l.id>>)
          <5>1. \A s1, s2, s3 \in Seq(LineId) : (s1 \o s2) \o s3 = s1 \o (s2 \o s3)
            BY ConcatAssociative
          <5>2. QED  BY <3>2, <4>4, <5>1
        <4>6. QED  BY <4>2, <4>3, <4>5
      <3>4. QED  BY <1>3, <2>2, <2>3, <2>6, <3>1, <3>3
    <2>8. NothingHeldBack'
      BY <2>5, <2>7 DEF NothingHeldBack
    <2>9. BuffersFit'
      <3> SUFFICES ASSUME NEW g \in Filed
                   PROVE  Len(session'[g].buffer) < MaxBufferedLines
        BY DEF BuffersFit
      <3>1. MaxBufferedLines \in Nat \ {0} /\ Len(<<>>) = 0
        BY StreamAssumption
      <3>2. Len(session[g].buffer) < MaxBufferedLines
        BY DEF StreamInv, BuffersFit
      <3>3. CASE g \in fs
        <4>1. session'[g].buffer = <<>>
          BY <2>5, <3>3
        <4>2. QED  BY <3>1, <4>1
      <3>4. CASE g \notin fs /\ g = f
        BY <2>3, <2>4, <2>5, <3>4
      <3>5. CASE g \notin fs /\ g # f
        BY <2>3, <2>5, <3>2, <3>5
      <3>6. QED  BY <3>3, <3>4, <3>5
    <2>10. StreamShape'
      BY <1>1, <1>5, <2>1, <2>5, <2>6 DEF StreamInv, StreamShape
    <2>11. NumbersGrow'
      <3> SUFFICES ASSUME ~counterLost PROVE NumbersGrow'
        BY <1>1 DEF NumbersGrow
      <3>1. /\ \A i \in 1..Len(wire) : wire[i].seq <= counter
            /\ \A i, j \in 1..Len(wire) : i < j => wire[i].seq < wire[j].seq
            /\ \A g \in Filed : \A n \in session[g].seen :
                  n <= counter /\ \A i \in 1..Len(wire) : n < wire[i].seq
        BY DEF StreamInv, NumbersGrow
      <3>2. \A i \in 1..Len(wire') : i + 1 \in 1..Len(wire) /\ 1 < i + 1 /\ wire'[i] = wire[i + 1]
        BY <1>5
      <3>3. \A i, j \in 1..Len(wire') : i < j => i + 1 < j + 1
        BY <1>5
      <3>4. ASSUME NEW g \in Filed, NEW n \in session'[g].seen
            PROVE  n \in session[g].seen \/ n = l.seq
        BY <2>2, <2>3, <2>5
      <3>5. l.seq <= counter /\ \A i \in 1..Len(wire') : l.seq < wire'[i].seq
        BY <1>5, <3>1, <3>2
      <3>6. \A i \in 1..Len(wire') : wire'[i].seq <= counter'
        BY <1>1, <3>1, <3>2
      <3>7. \A i, j \in 1..Len(wire') : i < j => wire'[i].seq < wire'[j].seq
        BY <3>1, <3>2, <3>3
      <3>8. ASSUME NEW g \in Filed, NEW n \in session'[g].seen
            PROVE  n <= counter' /\ \A i \in 1..Len(wire') : n < wire'[i].seq
        <4>1. CASE n \in session[g].seen
          BY <1>1, <3>1, <3>2, <4>1
        <4>2. CASE n = l.seq
          BY <1>1, <3>5, <4>2
        <4>3. QED  BY <3>4, <4>1, <4>2
      <3>9. QED  BY <3>6, <3>7, <3>8 DEF NumbersGrow
    <2>12. OnlyRestartsAreSkipped'
      BY <1>1, <2>1 DEF StreamInv, OnlyRestartsAreSkipped
    <2>13. \A g \in Filed : streamed'[g] \in {streamed[g], accepted'[g]}
      BY <2>5, <2>7
    <2>14. QED
      BY <1>3, <1>6, <2>1, <2>8, <2>9, <2>10, <2>11, <2>12, <2>13 DEF StreamInv
  <1>9. QED  BY <1>7, <1>8

(* A flush of sessions whose lines and numbers are the ones they had.       *)
LEMMA FlushingKeeps ==
    ASSUME StreamInv, NEW fs \in SUBSET Filed, NEW new \in [Filed -> Session],
           \A f \in Filed : /\ new[f].buffer = session[f].buffer
                            /\ new[f].seen = session[f].seen,
           FlushSessions(fs, new),
           halfway' \in BOOLEAN, streamUp' \in BOOLEAN,
           UNCHANGED <<counter, produced, wire, resolved, breaks, counterLost, accepted,
                       skipped, storeFaults>>
    PROVE  StreamInv' /\ \A f \in Filed : streamed'[f] \in {streamed[f], accepted'[f]}
  <1>1. streamed \in [Filed -> Seq(LineId)]
    BY DEF StreamInv, StreamShape
  <1> FlushEffect(fs, new)
    BY <1>1, FlushPublishes
  <1>2. /\ session' \in [Filed -> Session]
        /\ streamed' \in [Filed -> Seq(LineId)]
        /\ \A f \in Filed :
              /\ session'[f].seen = new[f].seen
              /\ session'[f].buffer = IF f \in fs THEN <<>> ELSE new[f].buffer
              /\ streamed'[f] \o session'[f].buffer = streamed[f] \o new[f].buffer
              /\ streamed'[f] = IF f \in fs THEN streamed[f] \o new[f].buffer
                                            ELSE streamed[f]
    BY DEF FlushEffect
  <1>3. \A f \in Filed : accepted[f] = streamed[f] \o new[f].buffer
    BY DEF StreamInv, NothingHeldBack
  <1>4. StreamShape'
    BY <1>2 DEF StreamInv, StreamShape
  <1>5. BuffersFit'
    <2>1. MaxBufferedLines \in Nat \ {0} /\ Len(<<>>) = 0
      BY StreamAssumption
    <2>2. \A f \in Filed : Len(session[f].buffer) < MaxBufferedLines
      BY DEF StreamInv, BuffersFit
    <2>3. ASSUME NEW f \in Filed PROVE Len(session'[f].buffer) < MaxBufferedLines
      <3>1. session'[f].buffer = <<>> \/ session'[f].buffer = session[f].buffer
        BY <1>2
      <3>2. QED  BY <2>1, <2>2, <3>1
    <2>4. QED  BY <2>3 DEF BuffersFit
  <1>6. NumbersGrow'
    BY <1>2 DEF StreamInv, NumbersGrow
  <1>7. NothingHeldBack' /\ OnlyRestartsAreSkipped'
    BY <1>2, <1>3 DEF StreamInv, NothingHeldBack, OnlyRestartsAreSkipped
  <1>8. \A f \in Filed : streamed'[f] \in {streamed[f], accepted'[f]}
    BY <1>2, <1>3
  <1>9. QED  BY <1>4, <1>5, <1>6, <1>7, <1>8 DEF StreamInv

LEMMA ClockKeeps ==
    ASSUME StreamInv, FlushClock
    PROVE  /\ StreamInv' /\ UNCHANGED accepted
           /\ \A f \in Filed : streamed'[f] \in {streamed[f], accepted'[f]}
  <1> DEFINE older == [f \in Filed |-> Older(session[f])]
             fs == IF halfway THEN {f \in Filed : Due(older[f])} ELSE {}
  <1>1. /\ halfway' = ~halfway /\ FlushSessions(fs, older)
        /\ UNCHANGED <<counter, produced, resolved, breaks, counterLost, wire, accepted,
                       skipped, streamUp, stored, storeFaults>>
    BY DEF FlushClock, agentVars, storeVars
  <1>2. session \in [Filed -> Session] /\ halfway \in BOOLEAN /\ streamUp \in BOOLEAN
    BY DEF StreamInv, StreamShape
  <1>3. /\ older \in [Filed -> Session]
        /\ \A f \in Filed : /\ older[f].buffer = session[f].buffer
                            /\ older[f].seen = session[f].seen
    BY <1>2, OlderFields
  <1>4. fs \in SUBSET Filed
    OBVIOUS
  <1>5. halfway' \in BOOLEAN /\ streamUp' \in BOOLEAN
    BY <1>1, <1>2
  <1> HIDE DEF older, fs
  <1>6. QED  BY <1>1, <1>3, <1>4, <1>5, FlushingKeeps

LEMMA StopKeeps ==
    ASSUME StreamInv, StreamStops
    PROVE  /\ StreamInv' /\ UNCHANGED accepted
           /\ \A f \in Filed : streamed'[f] = accepted[f]
  <1>1. /\ streamUp' = FALSE
        /\ session' = [f \in Filed |-> NewSession]
        /\ streamed' = [f \in Filed |-> streamed[f] \o session[f].buffer]
        /\ UNCHANGED <<counter, produced, resolved, breaks, counterLost, wire, accepted,
                       skipped, halfway, stored, storeFaults>>
    BY DEF StreamStops, agentVars, storeVars
  <1>2. /\ session \in [Filed -> Session] /\ streamed \in [Filed -> Seq(LineId)]
        /\ accepted \in [Filed -> Seq(LineId)]
    BY DEF StreamInv, StreamShape
  <1>3. \A f \in Filed : streamed'[f] = accepted[f]
    BY <1>1 DEF StreamInv, NothingHeldBack
  <1>4. streamed' \in [Filed -> Seq(LineId)]
    BY <1>1, <1>2, <1>3
  <1>5. \A f \in Filed : session'[f].buffer = <<>> /\ session'[f].seen = {}
    BY <1>1, NewSessionFields
  <1>6. session' \in [Filed -> Session]
    BY <1>1, NewSessionFields
  <1>7. StreamShape'
    BY <1>1, <1>4, <1>6 DEF StreamInv, StreamShape
  <1>8. BuffersFit'
    BY <1>5, StreamAssumption DEF BuffersFit
  <1>9. NumbersGrow'
    BY <1>1, <1>5 DEF StreamInv, NumbersGrow
  <1>10. NothingHeldBack'
    BY <1>1, <1>2, <1>3, <1>5, ConcatEmptySeq DEF NothingHeldBack
  <1>11. OnlyRestartsAreSkipped'
    BY <1>1 DEF StreamInv, OnlyRestartsAreSkipped
  <1>12. QED  BY <1>1, <1>3, <1>7, <1>8, <1>9, <1>10, <1>11 DEF StreamInv

LEMMA InsertAnswerKeeps ==
    ASSUME StreamInv, NEW b \in inserts, InsertAnswered(b)
    PROVE  StreamInv'
  <1>1. /\ storeFaults' = storeFaults \/ (storeFaults < MaxStoreFaults
                                          /\ storeFaults' = storeFaults + 1)
        /\ UNCHANGED <<counter, produced, resolved, breaks, counterLost, wire, session,
                       accepted, skipped, streamed, halfway, streamUp>>
    BY DEF InsertAnswered, agentVars, logVars, storeVars
  <1>2. storeFaults' \in 0..MaxStoreFaults
    BY <1>1, StreamAssumption DEF StreamInv, StreamShape
  <1>3. QED
    BY <1>1, <1>2 DEF StreamInv, StreamShape, BuffersFit, NumbersGrow, NothingHeldBack,
                      OnlyRestartsAreSkipped

-----------------------------------------------------------------------------
LEMMA StreamStepKeeps == StreamInv /\ [StreamNext]_streamVars => StreamInv'
  <1> SUFFICES ASSUME StreamInv, [StreamNext]_streamVars PROVE StreamInv'
    OBVIOUS
  <1>1. ASSUME NEW err \in BOOLEAN, AgentPrints(err) PROVE StreamInv'
    BY <1>1, PrintingKeeps
  <1>2. CASE ConnectResolved
    BY <1>2, ConnectingKeeps
  <1>3. CASE AgentReconnects \/ AgentRestarts \/ CommandRepeated
    BY <1>3, BreakingKeeps
  <1>4. CASE LineArrives
    BY <1>4, ArrivalKeeps
  <1>5. CASE FlushClock
    BY <1>5, ClockKeeps
  <1>6. CASE StreamStops
    BY <1>6, StopKeeps
  <1>7. ASSUME NEW b \in inserts, InsertAnswered(b) PROVE StreamInv'
    BY <1>7, InsertAnswerKeeps
  <1>8. CASE UNCHANGED streamVars
    BY <1>8 DEF streamVars, agentVars, logVars, storeVars, StreamInv, StreamShape, BuffersFit,
                NumbersGrow, NothingHeldBack, OnlyRestartsAreSkipped
  <1>9. QED
    BY <1>1, <1>2, <1>3, <1>4, <1>5, <1>6, <1>7, <1>8 DEF StreamNext

(* The numbers on the connection grow past every number a session has seen, *)
(* as long as the agent's counter has not started again, and a session has  *)
(* published what it accepted but for its buffer, whatever the flushes, the *)
(* stop and the answers of the database do.                                 *)
THEOREM StreamInvariant == StreamSpec => []StreamInv
  BY StreamInitIsSound, StreamStepKeeps, PTL DEF StreamSpec

(* A line is taken for a duplicate (processOutput) only once the agent's    *)
(* counter has started again: after a restart of the agent, or after the    *)
(* command was reported complete and its id requested again.                *)
THEOREM DuplicatesAreRestarts == StreamSpec => []OnlyRestartsAreSkipped
  <1>1. StreamInv => OnlyRestartsAreSkipped
    BY DEF StreamInv
  <1>2. QED  BY <1>1, StreamInvariant, PTL

(* Every step of the stream is a step of the log of the agent's session, or *)
(* leaves it alone: lines are published in the order of their acceptance,   *)
(* each once, and a flush publishes everything accepted so far.             *)
LEMMA StreamStepPublishes ==
    StreamInv /\ [StreamNext]_streamVars
        => [(\E l \in 1..MaxLines : Log!Accept(l)) \/ Log!Publish]_<<accepted["agent"],
                                                                     streamed["agent"]>>
  <1> DEFINE a == accepted["agent"]
             p == streamed["agent"]
             Step == \/ \E l \in 1..MaxLines : a' = Append(a, l) /\ p' \in {p, a'}
                     \/ p' = a /\ UNCHANGED a
                     \/ UNCHANGED a /\ UNCHANGED p
  <1> SUFFICES ASSUME StreamInv, [StreamNext]_streamVars PROVE Step
    BY DEF Log!Accept, Log!Publish
  <1>0. "agent" \in Filed
    BY DEF Filed
  <1>1. CASE UNCHANGED <<accepted, streamed>>
    BY <1>1
  <1>2. CASE LineArrives
    <2>1. CASE UNCHANGED <<accepted, streamed>>
      BY <2>1
    <2>2. ASSUME NEW f \in Filed, NEW i \in LineId,
                 accepted' = [accepted EXCEPT ![f] = Append(@, i)],
                 \A g \in Filed : streamed'[g] \in {streamed[g], accepted'[g]}
          PROVE  Step
      <3>1. accepted \in [Filed -> Seq(LineId)]
        BY DEF StreamInv, StreamShape
      <3>2. CASE f = "agent"
        <4>1. a' = Append(a, i) /\ p' \in {p, a'}
          BY <1>0, <2>2, <3>1, <3>2
        <4>2. QED  BY <4>1 DEF LineId
      <3>3. CASE f # "agent"
        <4>1. a' = a /\ p' \in {p, a'}
          BY <1>0, <2>2, <3>1, <3>3
        <4>2. QED  BY <4>1
      <3>4. QED  BY <3>2, <3>3
    <2>3. QED  BY <1>2, <2>1, <2>2, ArrivalKeeps
  <1>3. CASE FlushClock
    <2>1. UNCHANGED accepted /\ p' \in {p, a'}
      BY <1>0, <1>3, ClockKeeps
    <2>2. QED  BY <2>1
  <1>4. CASE StreamStops
    <2>1. UNCHANGED accepted /\ p' = a
      BY <1>0, <1>4, StopKeeps
    <2>2. QED  BY <2>1
  <1>5. ASSUME NEW err \in BOOLEAN, AgentPrints(err) PROVE Step
    BY <1>1, <1>5 DEF AgentPrints, logVars
  <1>6. CASE ConnectResolved \/ AgentReconnects \/ AgentRestarts \/ CommandRepeated
    BY <1>1, <1>6 DEF ConnectResolved, AgentReconnects, AgentRestarts, CommandRepeated, logVars
  <1>7. ASSUME NEW b \in inserts, InsertAnswered(b) PROVE Step
    BY <1>1, <1>7 DEF InsertAnswered, logVars
  <1>8. CASE UNCHANGED streamVars
    BY <1>1, <1>8 DEF streamVars, logVars
  <1>9. QED
    BY <1>2, <1>3, <1>4, <1>5, <1>6, <1>7, <1>8 DEF StreamNext

(* The terminal stream of the agent's session implements OutputLog.         *)
THEOREM StreamImplementsLog == StreamSpec => PublishesLog
  <1>1. StreamInit => Log!LogInit
    BY DEF StreamInit, Log!LogInit, Filed
  <1>2. QED
    BY <1>1, StreamStepPublishes, StreamInvariant, PTL
       DEF StreamSpec, PublishesLog, Log!LogSpec

LEMMA StreamTypesHold == StreamInv => StreamTypeOK
  <1> SUFFICES ASSUME StreamInv PROVE StreamTypeOK
    OBVIOUS
  <1>1. StreamShape /\ BuffersFit /\ MaxLines \in Nat
    BY StreamAssumption DEF StreamInv
  <1>2. \A i \in DOMAIN wire : wire[i] \in [id : 1..MaxLines, seq : 1..MaxLines, err : BOOLEAN]
    <2>1. wire \in Seq(Line)
      BY <1>1 DEF StreamShape
    <2>2. \A i \in DOMAIN wire : wire[i] \in Line
      BY <2>1
    <2>3. QED  BY <2>2 DEF Line, LineId
  <1>3. counter \in 0..MaxLines
    BY <1>1 DEF StreamShape
  <1>4. \A f \in Filed : /\ Len(session[f].buffer) < MaxBufferedLines
                         /\ session[f].seen \subseteq 1..MaxLines
                         /\ session[f].sinceFlush \in 0..4
    BY <1>1 DEF StreamShape, BuffersFit, Session, LineId
  <1>5. QED  BY <1>1, <1>2, <1>3, <1>4 DEF StreamTypeOK, StreamShape, LineId

(* The buffer never reaches its limit, and numbers and sessions stay those  *)
(* of lines that were printed.                                              *)
THEOREM StreamTypesCorrect == StreamSpec => []StreamTypeOK
  BY StreamInvariant, StreamTypesHold, PTL
=============================================================================
