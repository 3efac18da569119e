-------------------------- MODULE CommandQueueTable --------------------------
(***************************************************************************)
(* The command_queue table of one agent and the operations of              *)
(* CommandQueueModel (models/command-queue.ts) on it.  None of them runs   *)
(* in a transaction: each awaited query is a step, calls interleave, and   *)
(* every call that changes the table ends by re-reading it and writing the *)
(* positions that differ one after the other.  A query can fail, before or *)
(* after the database carried it out.                                      *)
(***************************************************************************)
EXTENDS Naturals, Sequences, FiniteSets, FiniteSetsExt, Arrangement

CONSTANTS
    Priorities,
    MaxCalls     \* bound of the model: the calls that are made

ASSUME QueueTableAssumption == Priorities \subseteq Nat \ {0} /\ MaxCalls \in Nat

VARIABLES
    table,       \* the rows: Absent, or priority and position
    call,        \* how far each call has come
    now,         \* enqueued so far: a row is named by its created_at
    exact        \* history: the last writes were a whole reorder nothing disturbed

tableVars == <<table, call, now, exact>>

Calls == 1..MaxCalls
Rows == 1..MaxCalls
Nobody == 0

Absent == [priority |-> 0, position |-> 0]
Queued(t) == {r \in Rows : t[r] # Absent}

(* at: the next query.  undisturbed: no other call has written since this   *)
(* one read the table for its reorder, and none of its own writes failed.   *)
NewCall == [at |-> "new", row |-> Nobody, values |-> Absent, writes |-> <<>>,
            undisturbed |-> FALSE]

TableInit ==
    /\ table = [r \in Rows |-> Absent]
    /\ call = [c \in Calls |-> NewCall]
    /\ now = 0 /\ exact = TRUE

-----------------------------------------------------------------------------
(* Orders, each as what comes after a row.                                  *)

(* findAll and dequeue: priority desc, position asc, created_at asc.        *)
QueryOrder(t) ==
    [r \in Rows |-> {s \in Rows :
        \/ t[r].priority > t[s].priority
        \/ t[r].priority = t[s].priority /\
             \/ t[r].position < t[s].position
             \/ t[r].position = t[s].position /\ r < s}]

\* Slip: the new positions follow the old ones.
ReorderByPosition(t) == QueryOrder(t)

ReorderOrder(t) ==
    [r \in Rows |-> {s \in Rows :
        \/ t[r].priority > t[s].priority
        \/ t[r].priority = t[s].priority /\ r < s}]

First(t) == Arranged(Queued(t), QueryOrder(t))[1]

(* calculateQueuePosition: the first gap in the positions of the rows that  *)
(* do not come after it.                                                    *)
FreePosition(priority) ==
    LET taken == {table[r].position : r \in {q \in Queued(table) : table[q].priority >= priority}}
    IN  Min((1..(MaxCalls + 1)) \ taken)

-----------------------------------------------------------------------------
(* A write of call c: reorders under way no longer know the table.          *)
Writes(c, new, then) ==
    /\ table' = new
    /\ exact' = FALSE
    /\ call' = [d \in Calls |-> IF d = c THEN then
                                ELSE [call[d] EXCEPT !.undisturbed = FALSE]]

GoesOn(c, then) ==
    /\ call' = [call EXCEPT ![c] = then]
    /\ UNCHANGED <<table, exact>>

(* The error of an awaited query ends the call, with what it wrote so far.  *)
QueryFails(c) ==
    /\ call[c].at \in {"insert", "find", "delete", "priority", "clear", "read"}
    /\ GoesOn(c, [call[c] EXCEPT !.at = "done"])
    /\ UNCHANGED now

(* What a call does after a write: goes on to its reorder or, if the answer *)
(* was lost, ends with an error.                                            *)
Answers == {"read", "done"}

\* The calls are numbered in the order in which they are made.
Starts(c) == call[c].at = "new" /\ \A d \in 1..(c - 1) : call[d].at # "new"

Enqueue(c, p) ==
    /\ Starts(c)
    /\ now' = now + 1
    /\ GoesOn(c, [NewCall EXCEPT !.at = "insert", !.row = now',
                    !.values = [priority |-> p, position |-> FreePosition(p)]])

Insert(c) ==
    /\ call[c].at = "insert"
    /\ \E at \in Answers : Writes(c, [table EXCEPT ![call[c].row] = call[c].values],
                                 [call[c] EXCEPT !.at = at])
    /\ UNCHANGED now

(* dequeue chooses, then removes by id like a removal by the caller.        *)
Dequeue(c) ==
    /\ Starts(c)
    /\ GoesOn(c, IF Queued(table) = {} THEN [NewCall EXCEPT !.at = "done"]
                 ELSE [NewCall EXCEPT !.at = "find", !.row = First(table)])
    /\ UNCHANGED now

RemoveRow(c, r) ==
    /\ Starts(c) /\ table[r] # Absent
    /\ GoesOn(c, [NewCall EXCEPT !.at = "find", !.row = r])
    /\ UNCHANGED now

UpdatePriority(c, r, p) ==
    /\ Starts(c) /\ table[r] # Absent
    /\ GoesOn(c, [NewCall EXCEPT !.at = "find", !.row = r, !.values = [Absent EXCEPT !.priority = p]])
    /\ UNCHANGED now

\* A row that is gone ends the call with an error.
FindById(c) ==
    /\ call[c].at = "find"
    /\ GoesOn(c, [call[c] EXCEPT !.at = IF table[call[c].row] = Absent THEN "done"
                                        ELSE IF call[c].values = Absent THEN "delete"
                                        ELSE "priority"])
    /\ UNCHANGED now

Delete(c) ==
    /\ call[c].at = "delete"
    /\ \E at \in Answers : Writes(c, [table EXCEPT ![call[c].row] = Absent],
                                 [call[c] EXCEPT !.at = at])
    /\ UNCHANGED now

(* The update of a row that was deleted after it was found touches nothing, *)
(* and single() then throws.                                                *)
WritePriority(c) ==
    LET r == call[c].row IN
    /\ call[c].at = "priority"
    /\ IF table[r] = Absent THEN GoesOn(c, [call[c] EXCEPT !.at = "done"])
       ELSE \E at \in Answers :
               Writes(c, [table EXCEPT ![r].priority = call[c].values.priority],
                      [call[c] EXCEPT !.at = at])
    /\ UNCHANGED now

(* clearQueue reads first, but deletes whatever there is by then, and       *)
(* leaves no positions to mend.                                             *)
ClearQueue(c) ==
    /\ Starts(c)
    /\ GoesOn(c, [NewCall EXCEPT !.at = IF Queued(table) = {} THEN "done" ELSE "clear"])
    /\ UNCHANGED now

DeleteAll(c) ==
    /\ call[c].at = "clear"
    /\ Writes(c, [r \in Rows |-> Absent], [call[c] EXCEPT !.at = "done"])
    /\ UNCHANGED now

-----------------------------------------------------------------------------
(* reorderQueue.                                                            *)

NewPosition(t, r) == Place(Queued(t), ReorderOrder(t), r)

ReadForReorder(c) ==
    LET wrong  == {r \in Queued(table) : table[r].position # NewPosition(table, r)}
        order  == Arranged(wrong, ReorderOrder(table))
        needed == [i \in DOMAIN order |-> [row |-> order[i], position |-> NewPosition(table, order[i])]]
    IN
    /\ call[c].at = "read"
    /\ call' = [call EXCEPT ![c].at = IF needed = <<>> THEN "done" ELSE "reorder",
                            ![c].writes = needed, ![c].undisturbed = TRUE]
    /\ exact' = (exact \/ needed = <<>>)
    /\ UNCHANGED <<table, now>>

Placed(t, w) ==
    IF t[w.row] = Absent THEN t ELSE [t EXCEPT ![w.row].position = w.position]

AfterPosition(c) ==
    [call[c] EXCEPT !.at = IF Len(call[c].writes) = 1 THEN "done" ELSE "reorder",
                    !.writes = Tail(@)]

WritePosition(c) ==
    LET last == Len(call[c].writes) = 1 IN
    /\ call[c].at = "reorder"
    /\ table' = Placed(table, Head(call[c].writes))
    /\ exact' = (last /\ call[c].undisturbed)
    /\ call' = [d \in Calls |->
                  IF d # c THEN [call[d] EXCEPT !.undisturbed = FALSE]
                  ELSE AfterPosition(c)]
    /\ UNCHANGED now

(* The error of a position's update is not looked at: the reorder goes on,  *)
(* and the call succeeds.                                                   *)
PositionFails(c) ==
    /\ call[c].at = "reorder"
    /\ GoesOn(c, [AfterPosition(c) EXCEPT !.undisturbed = FALSE])
    /\ UNCHANGED now

TableNext ==
    \E c \in Calls :
       \/ \E p \in Priorities : Enqueue(c, p) \/ \E r \in Rows : UpdatePriority(c, r, p)
       \/ \E r \in Rows : RemoveRow(c, r)
       \/ Dequeue(c) \/ ClearQueue(c)
       \/ Insert(c) \/ FindById(c) \/ Delete(c) \/ WritePriority(c) \/ DeleteAll(c)
       \/ ReadForReorder(c) \/ WritePosition(c) \/ PositionFails(c) \/ QueryFails(c)

TableSpec == TableInit /\ [][TableNext]_tableVars

-----------------------------------------------------------------------------
TableTypeOK ==
    /\ \A r \in Queued(table) :
          r <= now /\ table[r] \in [priority : Priorities, position : 1..(MaxCalls + 1)]
    /\ \A c \in Calls :
          /\ call[c].at \in {"new", "insert", "find", "delete", "priority", "clear", "read",
                             "reorder", "done"}
          /\ call[c].row \in Rows \cup {Nobody}
          /\ call[c].at = "reorder" => call[c].writes # <<>>
    /\ exact \in BOOLEAN

(* However the positions got out of step before (calls that interleaved, a  *)
(* write that failed unnoticed, a call that ended before its reorder), one  *)
(* reorder that no other write disturbs and whose own writes all succeed    *)
(* puts them right: ranks by priority, then age, and getPosition, which     *)
(* counts by position, tells the rank.                                      *)
Rank(r) ==
    Cardinality({s \in Queued(table) :
                   \/ table[s].priority > table[r].priority
                   \/ table[s].priority = table[r].priority
                      /\ s <= r})

GetPosition(r) ==
    Cardinality({s \in Queued(table) :
                   \/ table[s].priority > table[r].priority
                   \/ table[s].priority = table[r].priority
                      /\ table[s].position < table[r].position}) + 1

ReorderHeals ==
    exact => \A r \in Queued(table) : table[r].position = Rank(r) /\ GetPosition(r) = Rank(r)
=============================================================================
