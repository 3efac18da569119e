--------------------------- MODULE MCServerParts ---------------------------
(***************************************************************************)
(* Five components of the server that share no state: in a behaviour one    *)
(* of them moves and the others stay as they began, so the states of the   *)
(* instance are the sum of theirs, not the product.                        *)
(***************************************************************************)
EXTENDS TokenManager, TerminalStream, CommandQueueTable, JobQueue, AuditService

CONSTANT Parts

VARIABLE part

PartsInit == part \in Parts /\ TokenInit /\ StreamInit /\ TableInit /\ JobInit /\ AuditInit

partsVars == <<part, tokenVars, streamVars, tableVars, jobVars, auditVars>>

(* Bound of the model: at most one job is ever interrupted, as              *)
(* interruptCommand only looks at the job it is called for.                 *)
OneInterrupted == \E j \in Jobs : \A k \in Jobs \ {j} : interrupt[k] = "no"

PartsNext ==
    /\ UNCHANGED part
    /\ \/ part = "tokens" /\ TokenNext /\ UNCHANGED <<streamVars, tableVars, jobVars, auditVars>>
       \/ part = "stream" /\ StreamNext /\ UNCHANGED <<tokenVars, tableVars, jobVars, auditVars>>
       \/ part = "table" /\ TableNext /\ UNCHANGED <<tokenVars, streamVars, jobVars, auditVars>>
       \/ part = "jobs" /\ JobNext /\ UNCHANGED <<tokenVars, streamVars, tableVars, auditVars>>
       \/ part = "audit" /\ AuditNext /\ UNCHANGED <<tokenVars, streamVars, tableVars, jobVars>>
    /\ OneInterrupted'

(* The fairness of FairTokenSpec, FairStreamSpec and FairJobSpec.           *)
PartsSpec ==
    /\ PartsInit /\ [][PartsNext]_partsVars
    /\ WF_tokenVars(part = "tokens" /\ RefreshStep)
    /\ WF_streamVars(part = "stream" /\ FlushClock)
    /\ WF_streamVars(part = "stream" /\ \E b \in inserts : InsertAnswered(b))
    /\ \A j \in Jobs : /\ SF_jobVars(part = "jobs" /\ Fetch(j))
                       /\ WF_jobVars(part = "jobs" /\ BackoffOver(j))
                       /\ WF_jobVars(part = "jobs" /\ Added(j))

-----------------------------------------------------------------------------
(* Every part's state is of its shape: the limits of the refresh attempts,  *)
(* the stream's buffer, the table's positions, and the attempts of jobs and *)
(* audit entries hold.                                                      *)
PartsTypeOK == TokenTypeOK /\ StreamTypeOK /\ TableTypeOK /\ JobTypeOK /\ AuditTypeOK
=============================================================================
