--------------------------- MODULE TerminalStream ---------------------------
(***************************************************************************)
(* The terminal output of one command id, from the agent's sequence        *)
(* counter (websocket-client.ts) over its connection to                    *)
(* TerminalStreamManager, which drops sequence numbers it has seen,        *)
(* buffers the lines and flushes them to the message router and, without   *)
(* waiting, to the database (terminal-stream.ts).                          *)
(*                                                                         *)
(* A line is filed under the agent its connection has by then: none until  *)
(* the awaits of AGENT_CONNECT are over.  Time runs in halves of the flush *)
(* interval, so that a flush may come between two firings of the timer.    *)
(***************************************************************************)
EXTENDS Naturals, Sequences, SequencesExt, FiniteSets

CONSTANTS
    MaxBufferedLines,   \* 1000; the limit in bytes acts in the same way
    MaxLines,           \* bound of the model: lines the agent prints
    MaxBreaks,          \* bound of the model: reconnects, restarts, repeats
    MaxStoreFaults      \* bound of the model: inserts that fail

ASSUME StreamAssumption ==
    /\ MaxBufferedLines \in Nat \ {0}
    /\ MaxLines \in Nat /\ MaxBreaks \in Nat /\ MaxStoreFaults \in Nat

VARIABLES
    counter,    \* sequenceCounters of the agent
    produced,   \* lines printed so far: a line is named by its number
    wire,       \* lines on the connection
    resolved,   \* the handler's record of the connection has its agent
    breaks,
    counterLost,\* history: the counter has started again
    session,    \* the session of the agent, and of the agent "undefined"
    accepted,   \* history: the lines taken into the buffer, per session
    skipped,    \* history: the lines taken for duplicates
    streamed,   \* history: the lines flushed to the router, per session
    halfway,    \* half an interval has passed since the timer fired
    streamUp,   \* stop has not been called
    inserts,    \* batches the database has not answered
    stored, storeFaults

agentVars   == <<counter, produced, resolved, breaks, counterLost>>
logVars     == <<accepted, skipped, streamed>>
storeVars   == <<stored, storeFaults>>
streamVars  == <<agentVars, wire, session, logVars, halfway, streamUp, inserts, storeVars>>

Filed == {"agent", "undefined"}
NewSession == [buffer |-> <<>>, seen |-> {}, sinceFlush |-> 0]

StreamInit ==
    /\ counter = 0 /\ produced = 0 /\ wire = <<>> /\ resolved = FALSE
    /\ breaks = 0 /\ counterLost = FALSE
    /\ session = [f \in Filed |-> NewSession]
    /\ accepted = [f \in Filed |-> <<>>] /\ skipped = {}
    /\ streamed = [f \in Filed |-> <<>>]
    /\ halfway = FALSE /\ streamUp = TRUE
    /\ inserts = {} /\ stored = <<>> /\ storeFaults = 0

-----------------------------------------------------------------------------
(* The agent.  Output while it is not connected is dropped before it gets a *)
(* number.                                                                  *)

AgentPrints(err) ==
    /\ produced < MaxLines
    /\ produced' = produced + 1 /\ counter' = counter + 1
    /\ wire' = Append(wire, [id |-> produced', seq |-> counter', err |-> err])
    /\ UNCHANGED <<resolved, breaks, counterLost, session, logVars, halfway, streamUp,
                   inserts, storeVars>>

ConnectResolved ==
    /\ ~resolved /\ resolved' = TRUE
    /\ UNCHANGED <<counter, produced, breaks, counterLost, wire, session, logVars,
                   halfway, streamUp, inserts, storeVars>>

Break == breaks < MaxBreaks /\ breaks' = breaks + 1

\* Slip: a reconnect starts the numbers again.
CounterFromZero == 0

CounterKept == counter

(* What was on the connection is lost; the counters stay with the process.  *)
AgentReconnects ==
    /\ Break
    /\ wire' = <<>> /\ resolved' = FALSE
    /\ counter' = CounterKept
    /\ UNCHANGED <<produced, counterLost, session, logVars, halfway, streamUp, inserts,
                   storeVars>>

AgentRestarts ==
    /\ Break
    /\ wire' = <<>> /\ resolved' = FALSE
    /\ counter' = 0 /\ counterLost' = TRUE
    /\ UNCHANGED <<produced, session, logVars, halfway, streamUp, inserts, storeVars>>

(* sendCommandComplete forgets the counter; the same id is requested again. *)
CommandRepeated ==
    /\ Break
    /\ counter' = 0 /\ counterLost' = TRUE
    /\ UNCHANGED <<produced, wire, resolved, session, logVars, halfway, streamUp, inserts,
                   storeVars>>

-----------------------------------------------------------------------------
(* The stream manager.                                                      *)

(* shouldFlushImmediately; an error line never stays in the buffer, so only *)
(* the line that has just come can be one.                                  *)
ShouldFlushImmediately(s, err) ==
    Len(s.buffer) >= MaxBufferedLines \/ s.sinceFlush >= 4 \/ err

\* Slip: the flush forgets to clear the buffer.
FlushedKeeping(s) == [s EXCEPT !.sinceFlush = 0]

Flushed(s) == [s EXCEPT !.buffer = <<>>, !.sinceFlush = 0]

\* flushSession of the sessions in fs: the insert is started, not awaited.
FlushSessions(fs, new) ==
    /\ session' = [f \in Filed |-> IF f \in fs THEN Flushed(new[f]) ELSE new[f]]
    /\ streamed' = [f \in Filed |->
                      IF f \in fs THEN streamed[f] \o new[f].buffer ELSE streamed[f]]
    /\ inserts' = inserts \cup {[filed |-> f, lines |-> new[f].buffer] :
                                f \in {g \in fs : new[g].buffer # <<>>}}

Seen(s, seq) == seq \in s.seen

Taken(s, l) == [s EXCEPT !.seen = @ \cup {l.seq}, !.buffer = Append(@, l.id)]

(* handleTerminalOutput and processOutput, which waits for nothing.  (The   *)
(* handler then streams the line a second time, also a skipped one.)        *)
LineArrives ==
    LET l == Head(wire)
        f == IF resolved THEN "agent" ELSE "undefined"
        t == Taken(session[f], l)
    IN
    /\ wire # <<>>
    /\ wire' = Tail(wire)
    /\ IF Seen(session[f], l.seq)
       THEN skipped' = skipped \cup {l.id} /\ UNCHANGED <<session, accepted, streamed, inserts>>
       ELSE /\ accepted' = [accepted EXCEPT ![f] = Append(@, l.id)]
            /\ FlushSessions(IF ShouldFlushImmediately(t, l.err) THEN {f} ELSE {},
                             [session EXCEPT ![f] = t])
            /\ UNCHANGED skipped
    /\ UNCHANGED <<agentVars, halfway, streamUp, storeVars>>

Older(s) == [s EXCEPT !.sinceFlush = IF @ < 4 THEN @ + 1 ELSE @]

Due(s) == s.buffer # <<>> /\ s.sinceFlush >= 2

(* Half an interval passes; at the end of each whole one the timer fires.   *)
FlushClock ==
    LET older == [f \in Filed |-> Older(session[f])] IN
    /\ streamUp
    /\ halfway' = ~halfway
    /\ FlushSessions(IF halfway THEN {f \in Filed : Due(older[f])} ELSE {}, older)
    /\ UNCHANGED <<agentVars, wire, accepted, skipped, streamUp, storeVars>>

(* stop flushes and forgets the sessions; the agent's socket may still      *)
(* deliver, as closeAll waits for no answer.                                *)
StreamStops ==
    /\ streamUp /\ streamUp' = FALSE
    /\ session' = [f \in Filed |-> NewSession]
    /\ streamed' = [f \in Filed |-> streamed[f] \o session[f].buffer]
    /\ inserts' = inserts \cup {[filed |-> f, lines |-> session[f].buffer] :
                                f \in {g \in Filed : session[g].buffer # <<>>}}
    /\ UNCHANGED <<agentVars, wire, accepted, skipped, halfway, storeVars>>

\* Slip: of a batch only the first line is inserted.
FirstOf(b) == SubSeq(b.lines, 1, 1)

RowsOf(b) == b.lines

(* A batch filed under no agent is refused, as the column must have one.    *)
InsertAnswered(b) ==
    /\ inserts' = inserts \ {b}
    /\ \/ /\ b.filed = "agent" /\ stored' = stored \o RowsOf(b)
          /\ UNCHANGED storeFaults
       \/ /\ b.filed = "undefined" /\ UNCHANGED storeVars
       \/ /\ storeFaults < MaxStoreFaults /\ storeFaults' = storeFaults + 1
          /\ UNCHANGED stored
    /\ UNCHANGED <<agentVars, wire, session, logVars, halfway, streamUp>>

StreamNext ==
    \/ \E err \in BOOLEAN : AgentPrints(err)
    \/ ConnectResolved \/ AgentReconnects \/ AgentRestarts \/ CommandRepeated
    \/ LineArrives \/ FlushClock \/ StreamStops
    \/ \E b \in inserts : InsertAnswered(b)

StreamSpec == StreamInit /\ [][StreamNext]_streamVars

(* Time goes on, and the database answers.                                  *)
FairStreamSpec ==
    /\ StreamSpec
    /\ WF_streamVars(FlushClock)
    /\ WF_streamVars(\E b \in inserts : InsertAnswered(b))

-----------------------------------------------------------------------------
StreamTypeOK ==
    /\ counter \in 0..MaxLines /\ produced \in 0..MaxLines
    /\ \A i \in DOMAIN wire :
          wire[i] \in [id : 1..MaxLines, seq : 1..MaxLines, err : BOOLEAN]
    /\ resolved \in BOOLEAN /\ halfway \in BOOLEAN /\ streamUp \in BOOLEAN
    /\ breaks \in 0..MaxBreaks /\ counterLost \in BOOLEAN
    /\ \A f \in Filed :
          /\ Len(session[f].buffer) < MaxBufferedLines
          /\ session[f].seen \subseteq 1..MaxLines
          /\ session[f].sinceFlush \in 0..4
    /\ skipped \subseteq 1..MaxLines
    /\ storeFaults \in 0..MaxStoreFaults

(* A number that comes a second time stands for a line that comes a second  *)
(* time, unless the agent's counter was started again under a session that  *)
(* remembers the numbers of the run before.                                 *)
OnlyRestartsAreSkipped ==
    skipped # {} => counterLost

(* The flushes of a session publish what it has accepted, once and in       *)
(* order, whatever mix of full buffers, errors, timer and shutdown cut the  *)
(* lines into flushes.                                                      *)
Log == INSTANCE OutputLog WITH Lines <- 1..MaxLines,
          accepted <- accepted["agent"], published <- streamed["agent"]

PublishesLog == Log!LogSpec

(* No line of a batch the database was given is forgotten: in the end       *)
(* everything streamed for the agent is stored, unless an insert failed.    *)
StreamedIsStored ==
    <>[](ToSet(streamed["agent"]) \subseteq ToSet(stored) \/ storeFaults > 0)
=============================================================================
