---------------------------- MODULE AuditService ----------------------------
(***************************************************************************)
(* services/audit.service.ts: events are gathered in a batch, which is     *)
(* written when it is full or five seconds old; each entry of a batch is   *)
(* inserted on its own and retried on its own.  flush() and cleanup() are  *)
(* called by nobody: the process stops with what it has not written.       *)
(***************************************************************************)
EXTENDS Naturals, FiniteSets

CONSTANTS
    Audits,          \* the events of an execution
    AuditBatchSize,  \* batchSize: 10
    AuditAttempts,   \* maxRetries: 3
    MaxExits         \* bound: stops of the process

ASSUME AuditAssumption ==
    /\ IsFiniteSet(Audits)
    /\ AuditBatchSize \in Nat \ {0} /\ AuditAttempts \in Nat \ {0} /\ MaxExits \in Nat

VARIABLES
    audit,           \* how far each event has come, and its attempts
    auditRows,       \* how often it is in the audit log
    batchTimer,      \* "none"; "pending"; "fired", and the field not cleared
    exits

auditVars == <<audit, auditRows, batchTimer, exits>>

AuditInit ==
    /\ audit = [e \in Audits |-> [at |-> "new", attempts |-> 0]]
    /\ auditRows = [e \in Audits |-> 0]
    /\ batchTimer = "none" /\ exits = 0

AuditsAt(places) == {e \in Audits : audit[e].at \in places}
BatchQueue == AuditsAt({"queued"})
Inserting == [at |-> "inserting", attempts |-> 1]
LogBatch(batch) == [e \in Audits |-> IF e \in batch THEN Inserting ELSE audit[e]]

LogEvent(e) ==
    /\ audit[e].at = "new"
    /\ IF Cardinality(BatchQueue) + 1 >= AuditBatchSize
       THEN audit' = LogBatch(BatchQueue \cup {e}) /\ batchTimer' = "none"
       ELSE /\ audit' = [audit EXCEPT ![e].at = "queued"]
            /\ batchTimer' = IF batchTimer = "none" THEN "pending" ELSE batchTimer
    /\ UNCHANGED <<auditRows, exits>>

\* Slip: the callback does not clear the field.
TimerKept == "fired"

\* The callback clears the field only if it finds entries.
TimerCleared == IF BatchQueue = {} THEN "fired" ELSE "none"

BatchTimer ==
    /\ batchTimer = "pending"
    /\ audit' = LogBatch(BatchQueue)
    /\ batchTimer' = TimerCleared
    /\ UNCHANGED <<auditRows, exits>>

InsertSucceeds(e) ==
    /\ audit[e].at = "inserting"
    /\ audit' = [audit EXCEPT ![e].at = "logged"]
    /\ auditRows' = [auditRows EXCEPT ![e] = @ + 1]
    /\ UNCHANGED <<batchTimer, exits>>

\* An error that comes back may hide a row that was written.
InsertFails(e) ==
    /\ audit[e].at = "inserting"
    /\ audit' = [audit EXCEPT ![e].at =
                   IF audit[e].attempts < AuditAttempts THEN "backoff" ELSE "failed"]
    /\ \E n \in {0, 1} : auditRows' = [auditRows EXCEPT ![e] = @ + n]
    /\ UNCHANGED <<batchTimer, exits>>

InsertAgain(e) ==
    /\ audit[e].at = "backoff"
    /\ audit' = [audit EXCEPT ![e] = [at |-> "inserting", attempts |-> @.attempts + 1]]
    /\ UNCHANGED <<auditRows, batchTimer, exits>>

\* The process stops, or is stopped, and another one starts.
AuditExit ==
    /\ exits < MaxExits /\ exits' = exits + 1
    /\ audit' = [e \in Audits |->
                   IF e \in AuditsAt({"queued", "inserting", "backoff"})
                   THEN [audit[e] EXCEPT !.at = "lost"] ELSE audit[e]]
    /\ batchTimer' = "none"
    /\ UNCHANGED auditRows

AuditNext ==
    \/ \E e \in Audits : LogEvent(e) \/ InsertSucceeds(e) \/ InsertFails(e) \/ InsertAgain(e)
    \/ BatchTimer \/ AuditExit

AuditSpec == AuditInit /\ [][AuditNext]_auditVars

-----------------------------------------------------------------------------
(* A logged event is in the log, and is there no more often than it was     *)
(* tried.                                                                   *)
AuditTypeOK ==
    /\ audit \in [Audits -> [at : {"new", "queued", "inserting", "backoff", "logged", "failed",
                                   "lost"},
                             attempts : 0..AuditAttempts]]
    /\ batchTimer \in {"none", "pending", "fired"} /\ exits \in 0..MaxExits
    /\ \A e \in Audits : /\ auditRows[e] <= audit[e].attempts
                         /\ audit[e].at = "logged" => auditRows[e] > 0

(* An event that waits in the batch has a timer that will write it: no      *)
(* order of full batches, timers and exits leaves one behind that only a    *)
(* later event would take along.                                            *)
QueuedHasTimer == BatchQueue # {} => batchTimer = "pending"
=============================================================================
