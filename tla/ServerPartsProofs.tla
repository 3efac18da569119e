------------------------- MODULE ServerPartsProofs -------------------------
(***************************************************************************)
(* Proofs about five parts of the server that share no state, for any      *)
(* parameters: the jobs of the queue package (JobQueue), the audit batch   *)
(* (AuditService), the rows of an agent's queue (CommandQueueTable), each  *)
(* with its own inductive invariant, and, with those of TokenManagerProofs *)
(* and TerminalStreamProofs, the types of all five.                        *)
(***************************************************************************)
EXTENDS MCServerParts, TokenManagerProofs, TerminalStreamProofs, ArrangementProofs

-----------------------------------------------------------------------------
(* Jobs.                                                                    *)

Over == {"completed", "failed", "removed"}

Progress ==
    {"no", "active", "inactive", "remove", "flag", "wait", "refused", "interrupted"}

JobRecord ==
    [state : {"new", "adding", "waiting", "prioritized", "active", "delayed"} \cup Over,
     wants : JobAgents \cup {NoAgent}, attempts : Nat, flagged : BOOLEAN]

(* A handler awaits the processor exactly while its job is active: an       *)
(* answer cannot come for a job that is over.                               *)
JobInv ==
    /\ job \in [Jobs -> JobRecord]
    /\ running \in [Jobs -> JobAgents \cup {NoAgent}]
    /\ interrupt \in [Jobs -> Progress]
    /\ \A j \in Jobs : IsRunning(j) <=> job[j].state = "active"
    /\ \A j \in Jobs : interrupt[j] = "interrupted" => job[j].state \in Over

(* Every operation is about one job: its record, the handler that runs it   *)
(* and its interruption.                                                    *)
LEMMA OneJobMoves ==
    ASSUME JobInv, NEW j \in Jobs,
           NEW r \in JobRecord, NEW a \in JobAgents \cup {NoAgent}, NEW i \in Progress,
           job' = [job EXCEPT ![j] = r],
           running' = [running EXCEPT ![j] = a],
           interrupt' = [interrupt EXCEPT ![j] = i],
           a # NoAgent <=> r.state = "active",
           i = "interrupted" => r.state \in Over
    PROVE  JobInv'
  <1>1. /\ job' \in [Jobs -> JobRecord]
        /\ running' \in [Jobs -> JobAgents \cup {NoAgent}]
        /\ interrupt' \in [Jobs -> Progress]
    BY DEF JobInv
  <1>2. ASSUME NEW k \in Jobs
        PROVE  /\ IsRunning(k)' <=> job'[k].state = "active"
               /\ interrupt'[k] = "interrupted" => job'[k].state \in Over
    <2>1. CASE k = j
      <3>1. job'[k] = r /\ running'[k] = a /\ interrupt'[k] = i
        BY <2>1 DEF JobInv
      <3>2. QED  BY <3>1 DEF IsRunning
    <2>2. CASE k # j
      <3>1. job'[k] = job[k] /\ running'[k] = running[k] /\ interrupt'[k] = interrupt[k]
        BY <2>2 DEF JobInv
      <3>2. QED  BY <3>1 DEF JobInv, IsRunning
    <2>3. QED  BY <2>1, <2>2
  <1>3. QED  BY <1>1, <1>2 DEF JobInv

\* What an operation leaves alone is what it was.
LEMMA JobFacts ==
    ASSUME JobInv, NEW j \in Jobs
    PROVE  /\ job[j] \in JobRecord /\ running[j] \in JobAgents \cup {NoAgent}
           /\ interrupt[j] \in Progress
           /\ running[j] # NoAgent <=> job[j].state = "active"
           /\ interrupt[j] = "interrupted" => job[j].state \in Over
           /\ job = [job EXCEPT ![j] = job[j]]
           /\ running = [running EXCEPT ![j] = running[j]]
           /\ interrupt = [interrupt EXCEPT ![j] = interrupt[j]]
  BY DEF JobInv, IsRunning

\* A job whose new state is not "active", while no handler has it.
LEMMA StateMoves ==
    ASSUME JobInv, NEW j \in Jobs, NEW r \in JobRecord,
           job[j].state # "active", r.state # "active",
           job[j].state \in Over => r.state \in Over,
           job' = [job EXCEPT ![j] = r], UNCHANGED <<running, interrupt>>
    PROVE  JobInv'
  <1>1. /\ running' = [running EXCEPT ![j] = NoAgent]
        /\ interrupt' = [interrupt EXCEPT ![j] = interrupt[j]]
    BY JobFacts
  <1>2. interrupt[j] \in Progress /\ (interrupt[j] = "interrupted" => r.state \in Over)
    BY JobFacts
  <1>3. QED  BY <1>1, <1>2, OneJobMoves

LEMMA InterruptMoves ==
    ASSUME JobInv, NEW j \in Jobs, NEW i \in Progress,
           i = "interrupted" => job[j].state \in Over,
           interrupt' = [interrupt EXCEPT ![j] = i], UNCHANGED <<job, running>>
    PROVE  JobInv'
  <1>1. job' = [job EXCEPT ![j] = job[j]] /\ running' = [running EXCEPT ![j] = running[j]]
    BY JobFacts
  <1>2. job[j] \in JobRecord /\ running[j] \in JobAgents \cup {NoAgent}
        /\ (running[j] # NoAgent <=> job[j].state = "active")
    BY JobFacts
  <1>3. QED  BY <1>1, <1>2, OneJobMoves

LEMMA JobInitIsSound == JobInit => JobInv
  <1> SUFFICES ASSUME JobInit PROVE JobInv
    OBVIOUS
  <1>1. job \in [Jobs -> JobRecord] /\ running \in [Jobs -> JobAgents \cup {NoAgent}]
        /\ interrupt \in [Jobs -> Progress]
    BY DEF JobInit, JobRecord, Over, Progress
  <1>2. \A j \in Jobs : job[j].state = "new" /\ running[j] = NoAgent /\ interrupt[j] = "no"
    BY DEF JobInit
  <1>3. QED  BY <1>1, <1>2 DEF JobInv, IsRunning

LEMMA LanesAreTwo == \A j \in Jobs : Lane(j) \in {"waiting", "prioritized"}
  BY DEF Lane

LEMMA QueueManagerKeeps ==
    ASSUME JobInv, NEW j \in Jobs,
           AddCommand(j) \/ Added(j) \/ RemoveCommand(j) \/ Interrupt(j) \/ BackoffOver(j)
    PROVE  JobInv'
  <1>1. CASE AddCommand(j)
    <2>1. PICK a \in JobAgents \cup {NoAgent} :
            job' = [job EXCEPT ![j].state = "adding", ![j].wants = a]
      BY <1>1 DEF AddCommand
    <2> DEFINE r == [job[j] EXCEPT !.state = "adding", !.wants = a]
    <2>2. r \in JobRecord /\ r.state = "adding"
      BY JobFacts DEF JobRecord
    <2>3. job' = [job EXCEPT ![j] = r]
      BY <2>1 DEF JobInv
    <2>4. QED  BY <1>1, <2>2, <2>3, StateMoves DEF AddCommand, Over
  <1>2. ASSUME NEW s \in {"waiting", "prioritized", "removed"},
               job' = [job EXCEPT ![j].state = s], UNCHANGED <<running, interrupt>>,
               job[j].state # "active", job[j].state \in Over => s = "removed"
        PROVE  JobInv'
    <2> DEFINE r == [job[j] EXCEPT !.state = s]
    <2>1. r \in JobRecord /\ r.state = s
      BY JobFacts DEF JobRecord, Over
    <2>2. job' = [job EXCEPT ![j] = r]
      BY <1>2
    <2>3. QED  BY <1>2, <2>1, <2>2, StateMoves DEF Over
  <1>3. CASE Added(j)
    BY <1>2, <1>3, LanesAreTwo DEF Added, Over
  <1>4. CASE BackoffOver(j)
    BY <1>2, <1>4, LanesAreTwo DEF BackoffOver, Over
  <1>5. CASE RemoveCommand(j)
    BY <1>2, <1>5 DEF RemoveCommand, Removable
  <1>6. CASE Interrupt(j)
    BY <1>6, InterruptMoves DEF Interrupt, Progress
  <1>7. QED  BY <1>1, <1>3, <1>4, <1>5, <1>6

(* Only a removal that went through and a job that completed are reported   *)
(* as an interruption.                                                      *)
LEMMA InterruptionKeeps ==
    ASSUME JobInv, NEW j \in Jobs, InterruptStep(j)
    PROVE  JobInv'
  <1>1. CASE AsksIsWaiting(j)
    <2>1. PICK i \in {"remove", "refused", "flag"} : interrupt' = [interrupt EXCEPT ![j] = i]
      BY <1>1 DEF AsksIsWaiting
    <2>2. QED  BY <1>1, <2>1, InterruptMoves DEF AsksIsWaiting, Progress
  <1>2. CASE RemoveJob(j) /\ Removable(j)
    <2> DEFINE r == [job[j] EXCEPT !.state = "removed"]
    <2>1. r \in JobRecord /\ r.state = "removed"
      BY JobFacts DEF JobRecord, Over
    <2>2. job' = [job EXCEPT ![j] = r] /\ interrupt' = [interrupt EXCEPT ![j] = "interrupted"]
          /\ running' = running
      BY <1>2 DEF RemoveJob, RemoveResult
    <2>3. running[j] = NoAgent
      BY <1>2, JobFacts DEF Removable
    <2>4. QED  BY <2>1, <2>2, <2>3, JobFacts, OneJobMoves DEF Over, Progress
  <1>3. CASE RemoveJob(j) /\ ~Removable(j)
    BY <1>3, InterruptMoves DEF RemoveJob, RemoveResult, Progress
  <1>4. CASE FlagJob(j)
    <2> DEFINE r == [job[j] EXCEPT !.flagged = TRUE]
    <2>1. r \in JobRecord /\ r.state = job[j].state
      BY JobFacts DEF JobRecord
    <2>2. job' = [job EXCEPT ![j] = r] /\ interrupt' = [interrupt EXCEPT ![j] = "wait"]
          /\ running' = [running EXCEPT ![j] = running[j]]
      BY <1>4, JobFacts DEF FlagJob
    <2>3. running[j] \in JobAgents \cup {NoAgent} /\ (running[j] # NoAgent <=> r.state = "active")
      BY <2>1, JobFacts
    <2>4. QED  BY <2>1, <2>2, <2>3, OneJobMoves DEF Progress
  <1>5. CASE InterruptFinished(j)
    BY <1>5, InterruptMoves DEF InterruptFinished, Over, Progress
  <1>6. CASE InterruptTimesOut(j)
    BY <1>6, InterruptMoves DEF InterruptTimesOut, Progress
  <1>7. QED  BY <1>1, <1>2, <1>3, <1>4, <1>5, <1>6 DEF InterruptStep

\* The error path leaves no handler, and a job to be retried or failed.
LEMMA FailureKeeps ==
    ASSUME JobInv, NEW j \in Jobs, job[j].state \in {"waiting", "prioritized", "active"},
           NEW a, JobFails(j, a), UNCHANGED interrupt
    PROVE  JobInv'
  <1> DEFINE r == [job[j] EXCEPT !.state = Retried(j), !.attempts = @ + 1]
  <1>1. Retried(j) \in {"delayed", "failed"}
    BY DEF Retried
  <1>2. job[j].attempts + 1 \in Nat
    BY JobFacts DEF JobRecord
  <1>3. r \in JobRecord /\ r.state \in {"delayed", "failed"}
    BY <1>1, <1>2, JobFacts DEF JobRecord, Over
  <1>4. job' = [job EXCEPT ![j] = r] /\ running' = [running EXCEPT ![j] = NoAgent]
    BY DEF JobFails
  <1>5. interrupt[j] # "interrupted"
    BY JobFacts DEF Over
  <1>6. QED  BY <1>3, <1>4, <1>5, JobFacts, OneJobMoves

LEMMA WorkerKeeps ==
    ASSUME JobInv, NEW j \in Jobs, Fetch(j) \/ HandlerEnds(j)
    PROVE  JobInv'
  <1>1. CASE Fetch(j) /\ CannotRun(j)
    BY <1>1, LanesAreTwo, FailureKeeps DEF Fetch
  <1>2. CASE Fetch(j) /\ ~CannotRun(j)
    <2>1. PICK a \in JobAgents : running' = [running EXCEPT ![j] = a]
      BY <1>2 DEF Fetch
    <2> DEFINE r == [job[j] EXCEPT !.state = "active"]
    <2>2. r \in JobRecord /\ r.state = "active" /\ job' = [job EXCEPT ![j] = r]
      BY <1>2, LanesAreTwo, JobFacts DEF JobRecord, Fetch
    <2>3. a # NoAgent
      BY JobQueueAssumption DEF NoAgent
    <2>4. interrupt[j] # "interrupted" /\ interrupt' = interrupt
      BY <1>2, LanesAreTwo, JobFacts DEF Fetch, Over
    <2>5. QED  BY <2>1, <2>2, <2>3, <2>4, JobFacts, OneJobMoves
  <1>3. CASE Processed(j)
    <2> DEFINE r == [job[j] EXCEPT !.state = "completed"]
    <2>1. r \in JobRecord /\ r.state = "completed"
      BY JobFacts DEF JobRecord, Over
    <2>2. job' = [job EXCEPT ![j] = r] /\ running' = [running EXCEPT ![j] = NoAgent]
          /\ interrupt' = interrupt
      BY <1>3 DEF Processed
    <2>3. QED  BY <2>1, <2>2, JobFacts, OneJobMoves DEF Over
  <1>4. CASE ProcessorThrows(j)
    BY <1>4, JobFacts, FailureKeeps DEF ProcessorThrows, IsRunning
  <1>5. QED  BY <1>1, <1>2, <1>3, <1>4 DEF HandlerEnds

LEMMA StepKeepsJobInv == JobInv /\ [JobNext]_jobVars => JobInv'
  <1> SUFFICES ASSUME JobInv, [JobNext]_jobVars
               PROVE  JobInv'
    OBVIOUS
  <1>1. ASSUME NEW j \in Jobs,
               AddCommand(j) \/ Added(j) \/ RemoveCommand(j) \/ Interrupt(j) \/ BackoffOver(j)
        PROVE  JobInv'
    BY <1>1, QueueManagerKeeps
  <1>2. ASSUME NEW j \in Jobs, InterruptStep(j) PROVE JobInv'
    BY <1>2, InterruptionKeeps
  <1>3. ASSUME NEW j \in Jobs, Fetch(j) \/ HandlerEnds(j) PROVE JobInv'
    BY <1>3, WorkerKeeps
  <1>4. CASE UNCHANGED <<job, running, interrupt>>
    BY <1>4 DEF JobInv, IsRunning
  <1>5. ASSUME NEW a \in JobAgents, UpdateAgent(a) \/ RemoveAgent(a) PROVE JobInv'
    BY <1>4, <1>5 DEF UpdateAgent, RemoveAgent
  <1>6. CASE Shutdown \/ Resume
    BY <1>4, <1>6 DEF Shutdown, Resume
  <1>7. CASE UNCHANGED jobVars
    BY <1>4, <1>7 DEF jobVars
  <1>8. QED
    BY <1>1, <1>2, <1>3, <1>5, <1>6, <1>7 DEF JobNext

(* No job that was reported as interrupted is ever at work, waiting or to   *)
(* be retried again: neither a fetch, a retry, a late answer nor a pause    *)
(* comes in between.                                                        *)
THEOREM InterruptedStaysOver == JobSpec => []InterruptedIsOver
  <1>1. JobSpec => []JobInv
    BY JobInitIsSound, StepKeepsJobInv, PTL DEF JobSpec
  <1>2. JobInv => InterruptedIsOver
    BY DEF JobInv, InterruptedIsOver, Over
  <1>3. QED  BY <1>1, <1>2, PTL

(* Attempts: a job that is not over has one left.                           *)
AttemptFits(r) ==
    r.attempts \in 0..MaxAttempts /\ (r.state \notin Over => r.attempts < MaxAttempts)

JobBounds ==
    /\ \A j \in Jobs : AttemptFits(job[j])
    /\ agent \in [JobAgents -> {"gone", "free", "busy"}] /\ paused \in BOOLEAN

LEMMA JobInitFits == JobInit => JobBounds
  <1> SUFFICES ASSUME JobInit PROVE JobBounds
    OBVIOUS
  <1>1. agent \in [JobAgents -> {"gone", "free", "busy"}] /\ paused \in BOOLEAN
    BY DEF JobInit
  <1>2. ASSUME NEW j \in Jobs PROVE AttemptFits(job[j])
    <2>1. job[j].attempts = 0 /\ MaxAttempts \in Nat \ {0}
      BY JobQueueAssumption DEF JobInit
    <2>2. QED  BY <2>1 DEF AttemptFits
  <1>3. QED  BY <1>1, <1>2 DEF JobBounds

LEMMA JobStepFits == JobInv /\ JobBounds /\ [JobNext]_jobVars => JobBounds'
  <1> SUFFICES ASSUME JobInv, JobBounds, [JobNext]_jobVars PROVE JobBounds'
    OBVIOUS
  <1>1. /\ agent \in [JobAgents -> {"gone", "free", "busy"}] /\ paused \in BOOLEAN
        /\ job \in [Jobs -> JobRecord] /\ running \in [Jobs -> JobAgents \cup {NoAgent}]
        /\ \A j \in Jobs : AttemptFits(job[j])
    BY DEF JobBounds, JobInv
  <1>2. agent' \in [JobAgents -> {"gone", "free", "busy"}]
    <2>1. CASE UNCHANGED agent
      BY <1>1, <2>1
    <2>2. ASSUME NEW j \in Jobs, Fetch(j) \/ HandlerEnds(j)
          PROVE  agent' \in [JobAgents -> {"gone", "free", "busy"}]
      BY <1>1, <2>2 DEF Fetch, HandlerEnds, Processed, ProcessorThrows, JobFails, FreedOnError
    <2>3. ASSUME NEW a \in JobAgents, UpdateAgent(a) \/ RemoveAgent(a)
          PROVE  agent' \in [JobAgents -> {"gone", "free", "busy"}]
      BY <1>1, <2>3 DEF UpdateAgent, RemoveAgent
    <2>4. ASSUME NEW j \in Jobs, AddCommand(j) \/ Added(j) \/ BackoffOver(j) \/ RemoveCommand(j)
                                 \/ Interrupt(j) \/ InterruptStep(j)
          PROVE  UNCHANGED agent
      BY <2>4 DEF AddCommand, Added, BackoffOver, RemoveCommand, Interrupt, InterruptStep,
                  AsksIsWaiting, RemoveJob, FlagJob, InterruptFinished, InterruptTimesOut
    <2>5. CASE Shutdown \/ Resume \/ UNCHANGED jobVars
      BY <2>1, <2>5 DEF Shutdown, Resume, jobVars
    <2>6. QED  BY <2>1, <2>2, <2>3, <2>4, <2>5 DEF JobNext
  <1>3. paused' \in BOOLEAN
    <2>1. CASE Shutdown \/ Resume
      BY <2>1 DEF Shutdown, Resume
    <2>2. ASSUME NEW j \in Jobs, \/ AddCommand(j) \/ Added(j) \/ BackoffOver(j) \/ RemoveCommand(j)
                                 \/ Interrupt(j) \/ InterruptStep(j) \/ Fetch(j) \/ HandlerEnds(j)
          PROVE  UNCHANGED paused
      BY <2>2 DEF AddCommand, Added, BackoffOver, RemoveCommand, Interrupt, InterruptStep,
                  AsksIsWaiting, RemoveJob, FlagJob, InterruptFinished, InterruptTimesOut,
                  Fetch, HandlerEnds, Processed, ProcessorThrows
    <2>3. ASSUME NEW a \in JobAgents, UpdateAgent(a) \/ RemoveAgent(a) PROVE UNCHANGED paused
      BY <2>3 DEF UpdateAgent, RemoveAgent
    <2>4. ASSUME UNCHANGED jobVars PROVE UNCHANGED paused
      BY <2>4 DEF jobVars
    <2>5. ASSUME UNCHANGED paused PROVE paused' \in BOOLEAN
      BY <1>1, <2>5
    <2>6. UNCHANGED paused \/ Shutdown \/ Resume
      BY <2>2, <2>3, <2>4 DEF JobNext
    <2>7. QED  BY <2>1, <2>5, <2>6
  <1>4. \A j \in Jobs : AttemptFits(job'[j])
    <2>1. ASSUME NEW j \in Jobs, NEW s \in {"adding", "waiting", "prioritized", "active", "completed", "removed"},
                 NEW a, NEW f,
                 \/ job' = [job EXCEPT ![j].state = s]
                 \/ job' = [job EXCEPT ![j].state = s, ![j].wants = a]
                 \/ job' = [job EXCEPT ![j].flagged = f],
                 s \in Over \/ job[j].state \notin Over
          PROVE  \A k \in Jobs : AttemptFits(job'[k])
      <3> SUFFICES ASSUME NEW k \in Jobs PROVE AttemptFits(job'[k])
        OBVIOUS
      <3>1. job[k] \in JobRecord /\ AttemptFits(job[k])
        BY <1>1
      <3>2. job'[k].attempts = job[k].attempts
        BY <1>1, <2>1, <3>1 DEF JobRecord
      <3>3. job'[k].state \in Over \/ job[k].state \notin Over \/ job'[k].state = job[k].state
        BY <1>1, <2>1, <3>1 DEF JobRecord
      <3>4. QED  BY <3>1, <3>2, <3>3, JobQueueAssumption DEF AttemptFits
    <2>2. CASE UNCHANGED job
      BY <1>1, <2>2
    <2>3. ASSUME NEW j \in Jobs, NEW a, JobFails(j, a), job[j].state \notin Over
          PROVE  \A k \in Jobs : AttemptFits(job'[k])
      <3> SUFFICES ASSUME NEW k \in Jobs PROVE AttemptFits(job'[k])
        OBVIOUS
      <3>1. job[k] \in JobRecord /\ AttemptFits(job[k]) /\ MaxAttempts \in Nat
        BY <1>1, JobQueueAssumption
      <3>2. CASE k # j
        <4>1. job'[k] = job[k]
          BY <1>1, <2>3, <3>2 DEF JobFails
        <4>2. QED  BY <3>1, <4>1
      <3>3. CASE k = j
        <4>1. job'[k].state = Retried(k) /\ job'[k].attempts = job[k].attempts + 1
          BY <1>1, <2>3, <3>1, <3>3 DEF JobFails, JobRecord
        <4>2. job[k].attempts \in Nat /\ job[k].attempts < MaxAttempts
          BY <2>3, <3>1, <3>3 DEF AttemptFits
        <4>3. QED  BY <3>1, <4>1, <4>2 DEF AttemptFits, Retried, Over
      <3>4. QED  BY <3>2, <3>3
    <2>4. ASSUME NEW j \in Jobs, AddCommand(j) PROVE \A k \in Jobs : AttemptFits(job'[k])
      BY <2>1, <2>4 DEF AddCommand, Over
    <2>5. ASSUME NEW j \in Jobs, Added(j) PROVE \A k \in Jobs : AttemptFits(job'[k])
      BY <2>1, <2>5, LanesAreTwo DEF Added, Over
    <2>6. ASSUME NEW j \in Jobs, BackoffOver(j) PROVE \A k \in Jobs : AttemptFits(job'[k])
      BY <2>1, <2>6, LanesAreTwo DEF BackoffOver, Over
    <2>7. ASSUME NEW j \in Jobs, RemoveCommand(j) PROVE \A k \in Jobs : AttemptFits(job'[k])
      BY <2>1, <2>7 DEF RemoveCommand, Over
    <2>8. ASSUME NEW j \in Jobs, Fetch(j) PROVE \A k \in Jobs : AttemptFits(job'[k])
      <3>1. job[j].state \in {"waiting", "prioritized"} /\ job[j].state \notin Over
        BY <2>8, LanesAreTwo DEF Fetch, Over
      <3>2. CASE JobFails(j, job[j].wants)
        BY <2>3, <3>1, <3>2
      <3>3. CASE job' = [job EXCEPT ![j].state = "active"]
        BY <2>1, <3>1, <3>3
      <3>4. QED  BY <2>8, <3>2, <3>3 DEF Fetch
    <2>9. ASSUME NEW j \in Jobs, HandlerEnds(j) PROVE \A k \in Jobs : AttemptFits(job'[k])
      <3>1. job[j].state \notin Over
        BY <2>9 DEF HandlerEnds, Processed, ProcessorThrows, JobInv, Over
      <3>2. CASE Processed(j)
        BY <2>1, <3>2 DEF Processed, Over
      <3>3. CASE ProcessorThrows(j)
        BY <2>3, <3>1, <3>3 DEF ProcessorThrows
      <3>4. QED  BY <2>9, <3>2, <3>3 DEF HandlerEnds
    <2>10. ASSUME NEW j \in Jobs, InterruptStep(j) PROVE \A k \in Jobs : AttemptFits(job'[k])
      <3>1. CASE RemoveJob(j)
        BY <2>1, <2>2, <3>1 DEF RemoveJob, Over
      <3>2. CASE FlagJob(j)
        BY <2>1, <3>2 DEF FlagJob, Over
      <3>3. CASE AsksIsWaiting(j) \/ InterruptFinished(j) \/ InterruptTimesOut(j)
        BY <2>2, <3>3 DEF AsksIsWaiting, InterruptFinished, InterruptTimesOut
      <3>4. QED  BY <2>10, <3>1, <3>2, <3>3 DEF InterruptStep
    <2>11. ASSUME NEW j \in Jobs, Interrupt(j) PROVE UNCHANGED job
      BY <2>11 DEF Interrupt
    <2>12. ASSUME NEW a \in JobAgents, UpdateAgent(a) \/ RemoveAgent(a) PROVE UNCHANGED job
      BY <2>12 DEF UpdateAgent, RemoveAgent
    <2>13. CASE Shutdown \/ Resume \/ UNCHANGED jobVars
      BY <2>2, <2>13 DEF Shutdown, Resume, jobVars
    <2>14. QED
      BY <2>2, <2>4, <2>5, <2>6, <2>7, <2>8, <2>9, <2>10, <2>11, <2>12, <2>13 DEF JobNext
  <1>5. QED  BY <1>2, <1>3, <1>4 DEF JobBounds, AttemptFits

LEMMA JobTypesHold == JobInv /\ JobBounds => JobTypeOK
  <1> SUFFICES ASSUME JobInv, JobBounds PROVE JobTypeOK
    OBVIOUS
  <1>1. \A j \in Jobs :
           job[j] \in [state : {"new", "adding", "waiting", "prioritized", "active", "delayed",
                                "completed", "failed", "removed"},
                       wants : JobAgents \cup {NoAgent}, attempts : 0..MaxAttempts,
                       flagged : BOOLEAN]
    BY DEF JobInv, JobBounds, JobRecord, AttemptFits, Over
  <1>2. QED  BY <1>1 DEF JobInv, JobBounds, JobTypeOK, Progress

(* No job is tried more often than is allowed, and a handler has a job      *)
(* exactly while it is active.                                              *)
THEOREM JobTypesCorrect == JobSpec => []JobTypeOK
  <1>1. JobSpec => [](JobInv /\ JobBounds)
    BY JobInitIsSound, StepKeepsJobInv, JobInitFits, JobStepFits, PTL DEF JobSpec
  <1>2. QED  BY <1>1, JobTypesHold, PTL

-----------------------------------------------------------------------------
(* The audit batch.                                                         *)

(* The timer's field is set exactly while something waits.  Only this is    *)
(* inductive: a callback that found the batch empty would leave the field   *)
(* set, and the next event would take it for a timer.                       *)
TimerMatchesBatch ==
    batchTimer = IF BatchQueue = {} THEN "none" ELSE "pending"

AuditEntry == [at : {"new", "queued", "inserting", "backoff", "logged", "failed", "lost"},
          attempts : 0..AuditAttempts]

\* How often an event may be in the log, by how far it has come.
RowsMatch(entry, n) ==
    /\ n \in Nat /\ n <= entry.attempts
    /\ entry.at = "inserting" => entry.attempts > n
    /\ entry.at = "backoff" => entry.attempts < AuditAttempts
    /\ entry.at = "logged" => n > 0

AuditInv ==
    /\ audit \in [Audits -> AuditEntry]
    /\ auditRows \in [Audits -> Nat]
    /\ \A e \in Audits : RowsMatch(audit[e], auditRows[e])
    /\ \A e \in Audits : audit[e].at \in {"new", "queued"} => auditRows[e] = 0
    /\ exits \in 0..MaxExits
    /\ TimerMatchesBatch

LEMMA AuditInitIsSound == AuditInit => AuditInv
  <1> SUFFICES ASSUME AuditInit PROVE AuditInv
    OBVIOUS
  <1>1. audit \in [Audits -> AuditEntry] /\ auditRows \in [Audits -> Nat] /\ exits \in 0..MaxExits
    BY AuditAssumption DEF AuditInit, AuditEntry
  <1>2. \A e \in Audits : RowsMatch(audit[e], auditRows[e]) /\ auditRows[e] = 0
    <2> SUFFICES ASSUME NEW e \in Audits
                 PROVE  RowsMatch(audit[e], auditRows[e]) /\ auditRows[e] = 0
      OBVIOUS
    <2>1. audit[e] = [at |-> "new", attempts |-> 0] /\ auditRows[e] = 0
      BY DEF AuditInit
    <2>2. QED  BY <2>1 DEF RowsMatch
  <1>3. TimerMatchesBatch
    BY DEF AuditInit, TimerMatchesBatch, BatchQueue, AuditsAt
  <1>4. QED  BY <1>1, <1>2, <1>3 DEF AuditInv

(* A batch that is given to the database leaves no event waiting.           *)
LEMMA LoggedBatch ==
    ASSUME AuditInv, NEW batch \in SUBSET Audits, BatchQueue \subseteq batch,
           \A e \in batch : audit[e].at \in {"new", "queued"},
           audit' = LogBatch(batch), UNCHANGED auditRows
    PROVE  /\ audit' \in [Audits -> AuditEntry]
           /\ \A e \in Audits : RowsMatch(audit'[e], auditRows[e])
           /\ \A e \in Audits : audit'[e].at \in {"new", "queued"} => auditRows[e] = 0
           /\ BatchQueue' = {}
  <1>1. Inserting \in AuditEntry /\ Inserting.at = "inserting" /\ Inserting.attempts = 1
    BY AuditAssumption DEF Inserting, AuditEntry
  <1>2. audit' \in [Audits -> AuditEntry]
    BY <1>1 DEF AuditInv, LogBatch
  <1>3. ASSUME NEW e \in Audits
        PROVE  /\ RowsMatch(audit'[e], auditRows[e])
               /\ audit'[e].at \in {"new", "queued"} => auditRows[e] = 0
               /\ audit'[e].at # "queued"
    <2>1. CASE e \in batch
      <3>1. audit'[e] = Inserting /\ auditRows[e] = 0
        BY <2>1 DEF LogBatch, AuditInv
      <3>2. QED  BY <3>1, <1>1 DEF RowsMatch
    <2>2. CASE e \notin batch
      <3>1. audit'[e] = audit[e]
        BY <2>2 DEF LogBatch
      <3>2. audit[e].at # "queued"
        BY <2>2 DEF BatchQueue, AuditsAt
      <3>3. QED  BY <3>1, <3>2 DEF AuditInv
    <2>3. QED  BY <2>1, <2>2
  <1>4. QED
    BY <1>2, <1>3 DEF BatchQueue, AuditsAt

\* An event that is not in the batch goes on by itself.
LEMMA OneEventMoves ==
    ASSUME AuditInv, NEW e \in Audits, audit[e].at \notin {"new", "queued"},
           NEW entry \in AuditEntry, entry.at \notin {"new", "queued"}, NEW n,
           RowsMatch(entry, n),
           audit' = [audit EXCEPT ![e] = entry],
           auditRows' = [auditRows EXCEPT ![e] = n],
           UNCHANGED <<batchTimer, exits>>
    PROVE  AuditInv'
  <1>1. audit' \in [Audits -> AuditEntry] /\ auditRows' \in [Audits -> Nat]
    BY DEF AuditInv, RowsMatch
  <1>2. \A d \in Audits :
          /\ RowsMatch(audit'[d], auditRows'[d])
          /\ audit'[d].at \in {"new", "queued"} => auditRows'[d] = 0
    BY DEF AuditInv
  <1>3. BatchQueue' = BatchQueue
    BY DEF BatchQueue, AuditsAt, AuditInv
  <1>4. QED
    BY <1>1, <1>2, <1>3 DEF AuditInv, TimerMatchesBatch

(* What is known of an event before its insert ends.                        *)
LEMMA EntryFacts ==
    ASSUME AuditInv, NEW e \in Audits
    PROVE  /\ audit[e] \in AuditEntry
           /\ audit[e].attempts \in Nat /\ AuditAttempts \in Nat /\ auditRows[e] \in Nat
           /\ audit[e].attempts <= AuditAttempts
           /\ auditRows[e] <= audit[e].attempts
           /\ audit[e].at = "inserting" => auditRows[e] + 1 <= audit[e].attempts
           /\ audit[e].at = "backoff" => audit[e].attempts + 1 <= AuditAttempts
  <1>1. audit[e] \in AuditEntry /\ auditRows[e] \in Nat /\ RowsMatch(audit[e], auditRows[e])
    BY DEF AuditInv
  <1>2. AuditAttempts \in Nat
    BY AuditAssumption
  <1>3. audit[e].attempts \in 0..AuditAttempts
    BY <1>1 DEF AuditEntry
  <1>4. audit[e].attempts \in Nat /\ audit[e].attempts <= AuditAttempts
    BY <1>2, <1>3
  <1>5. /\ auditRows[e] <= audit[e].attempts
        /\ audit[e].at = "inserting" => audit[e].attempts > auditRows[e]
        /\ audit[e].at = "backoff" => audit[e].attempts < AuditAttempts
    BY <1>1 DEF RowsMatch
  <1>6. auditRows[e] \in Nat
    BY <1>1
  <1>7. /\ audit[e].at = "inserting" => auditRows[e] + 1 <= audit[e].attempts
        /\ audit[e].at = "backoff" => audit[e].attempts + 1 <= AuditAttempts
    BY <1>2, <1>4, <1>5, <1>6
  <1>8. QED  BY <1>1, <1>2, <1>4, <1>5, <1>6, <1>7

LEMMA LogEventKeeps ==
    ASSUME AuditInv, NEW e \in Audits, LogEvent(e)
    PROVE  AuditInv'
  <1>1. CASE Cardinality(BatchQueue) + 1 >= AuditBatchSize
    <2>1. audit' = LogBatch(BatchQueue \cup {e}) /\ batchTimer' = "none"
          /\ UNCHANGED <<auditRows, exits>>
      BY <1>1 DEF LogEvent
    <2>2. \A d \in BatchQueue \cup {e} : audit[d].at \in {"new", "queued"}
      BY DEF LogEvent, BatchQueue, AuditsAt
    <2>3. BatchQueue \cup {e} \in SUBSET Audits
      BY DEF BatchQueue, AuditsAt
    <2>4. QED
      BY <2>1, <2>2, <2>3, LoggedBatch DEF AuditInv, TimerMatchesBatch
  <1>2. CASE ~(Cardinality(BatchQueue) + 1 >= AuditBatchSize)
    <2>1. /\ audit' = [audit EXCEPT ![e].at = "queued"]
          /\ batchTimer' = IF batchTimer = "none" THEN "pending" ELSE batchTimer
          /\ UNCHANGED <<auditRows, exits>>
      BY <1>2 DEF LogEvent
    <2>2. audit[e].at = "new" /\ audit \in [Audits -> AuditEntry]
      BY DEF LogEvent, AuditInv
    <2>3. audit' \in [Audits -> AuditEntry]
      BY <2>1, <2>2 DEF AuditEntry
    <2>4. \A d \in Audits :
            /\ RowsMatch(audit'[d], auditRows'[d])
            /\ audit'[d].at \in {"new", "queued"} => auditRows'[d] = 0
      BY <2>1, <2>2 DEF AuditInv, RowsMatch, AuditEntry
    <2>5. e \in BatchQueue'
      BY <2>1, <2>2 DEF BatchQueue, AuditsAt
    <2>6. batchTimer' = "pending"
      BY <2>1 DEF AuditInv, TimerMatchesBatch
    <2>7. QED
      BY <2>1, <2>3, <2>4, <2>5, <2>6 DEF AuditInv, TimerMatchesBatch
  <1>3. QED  BY <1>1, <1>2

LEMMA ExitKeeps == ASSUME AuditInv, AuditExit PROVE AuditInv'
  <1>1. audit' \in [Audits -> AuditEntry] /\ auditRows' \in [Audits -> Nat]
    BY DEF AuditExit, AuditInv, AuditsAt, AuditEntry
  <1>2. \A d \in Audits :
          /\ \/ audit'[d].at = "lost"
             \/ /\ audit'[d].at = audit[d].at
                /\ audit[d].at \notin {"queued", "inserting", "backoff"}
          /\ audit'[d].attempts = audit[d].attempts
    BY DEF AuditExit, AuditInv, AuditsAt, AuditEntry
  <1>3. \A d \in Audits :
          /\ RowsMatch(audit'[d], auditRows'[d])
          /\ audit'[d].at \in {"new", "queued"} => auditRows'[d] = 0
    BY <1>2 DEF AuditInv, AuditExit, RowsMatch
  <1>4. BatchQueue' = {}
    BY <1>2 DEF BatchQueue, AuditsAt
  <1>5. exits' \in 0..MaxExits
    <2>1. exits \in 0..MaxExits /\ exits < MaxExits /\ exits' = exits + 1
      BY DEF AuditExit, AuditInv
    <2>2. MaxExits \in Nat
      BY AuditAssumption
    <2>3. QED  BY <2>1, <2>2
  <1>6. QED
    BY <1>1, <1>3, <1>4, <1>5 DEF AuditInv, TimerMatchesBatch, AuditExit

LEMMA StepKeepsAuditInv == AuditInv /\ [AuditNext]_auditVars => AuditInv'
  <1> SUFFICES ASSUME AuditInv, [AuditNext]_auditVars
               PROVE  AuditInv'
    OBVIOUS
  <1>1. ASSUME NEW e \in Audits, LogEvent(e) PROVE AuditInv'
    BY <1>1, LogEventKeeps
  <1>2. ASSUME NEW e \in Audits, InsertSucceeds(e) PROVE AuditInv'
    <2> DEFINE entry == [audit[e] EXCEPT !.at = "logged"]
    <2>1. entry \in AuditEntry /\ RowsMatch(entry, auditRows[e] + 1)
      <3>1. entry \in AuditEntry /\ entry.at = "logged" /\ entry.attempts = audit[e].attempts
        BY EntryFacts DEF AuditEntry
      <3>2. QED  BY <1>2, <3>1, EntryFacts DEF InsertSucceeds, RowsMatch
    <2>2. QED
      BY <1>2, <2>1, OneEventMoves DEF InsertSucceeds, AuditInv, AuditEntry
  <1>3. ASSUME NEW e \in Audits, InsertFails(e) PROVE AuditInv'
    <2> DEFINE entry == [audit[e] EXCEPT !.at =
                           IF audit[e].attempts < AuditAttempts THEN "backoff" ELSE "failed"]
    <2>1. PICK n \in {0, 1} : auditRows' = [auditRows EXCEPT ![e] = @ + n]
      BY <1>3 DEF InsertFails
    <2>2. entry \in AuditEntry /\ RowsMatch(entry, auditRows[e] + n)
      <3>1. entry \in AuditEntry /\ entry.attempts = audit[e].attempts
        BY EntryFacts DEF AuditEntry
      <3>2. entry.at \in {"backoff", "failed"}
            /\ (entry.at = "backoff" => audit[e].attempts < AuditAttempts)
        BY EntryFacts DEF AuditEntry
      <3>3. audit[e].at = "inserting"
        BY <1>3 DEF InsertFails
      <3>4. QED  BY <3>1, <3>2, <3>3, EntryFacts DEF RowsMatch
    <2>3. entry.at \notin {"new", "queued"}
      BY EntryFacts DEF AuditEntry
    <2>4. audit' = [audit EXCEPT ![e] = entry]
      BY <1>3 DEF InsertFails
    <2>5. QED
      BY <1>3, <2>1, <2>2, <2>3, <2>4, OneEventMoves DEF InsertFails
  <1>4. ASSUME NEW e \in Audits, InsertAgain(e) PROVE AuditInv'
    <2> DEFINE entry == [at |-> "inserting", attempts |-> audit[e].attempts + 1]
    <2>1. entry \in AuditEntry /\ RowsMatch(entry, auditRows[e])
      <3>1. audit[e].attempts + 1 \in 0..AuditAttempts
        BY <1>4, EntryFacts DEF InsertAgain
      <3>2. entry \in AuditEntry
        BY <3>1 DEF AuditEntry
      <3>3. QED  BY <3>2, EntryFacts DEF RowsMatch
    <2>2. audit' = [audit EXCEPT ![e] = entry] /\ auditRows' = [auditRows EXCEPT ![e] = auditRows[e]]
      BY <1>4 DEF InsertAgain, AuditInv
    <2>3. QED
      BY <1>4, <2>1, <2>2, OneEventMoves DEF InsertAgain
  <1>5. CASE BatchTimer
    <2>1. BatchQueue # {}
      BY <1>5 DEF BatchTimer, AuditInv, TimerMatchesBatch
    <2>2. \A d \in BatchQueue : audit[d].at \in {"new", "queued"}
      BY DEF BatchQueue, AuditsAt
    <2>3. BatchQueue \in SUBSET Audits
      BY DEF BatchQueue, AuditsAt
    <2>4. batchTimer' = "none" /\ audit' = LogBatch(BatchQueue) /\ UNCHANGED <<auditRows, exits>>
      BY <1>5, <2>1 DEF BatchTimer, TimerCleared
    <2>5. QED
      BY <2>2, <2>3, <2>4, LoggedBatch DEF AuditInv, TimerMatchesBatch
  <1>6. CASE AuditExit
    BY <1>6, ExitKeeps
  <1>7. CASE UNCHANGED auditVars
    BY <1>7 DEF auditVars, AuditInv, TimerMatchesBatch, BatchQueue, AuditsAt
  <1>8. QED
    BY <1>1, <1>2, <1>3, <1>4, <1>5, <1>6, <1>7 DEF AuditNext

LEMMA AuditInvariant == AuditSpec => []AuditInv
  BY AuditInitIsSound, StepKeepsAuditInv, PTL DEF AuditSpec

(* No waiting event is ever without a timer that will write it, however     *)
(* full batches, callbacks, failing inserts and exits follow on each other. *)
THEOREM WaitingEventsHaveTimer == AuditSpec => []QueuedHasTimer
  <1>1. AuditInv => QueuedHasTimer
    BY DEF AuditInv, TimerMatchesBatch, QueuedHasTimer
  <1>2. QED  BY <1>1, AuditInvariant, PTL

LEMMA AuditTypesHold == AuditInv => AuditTypeOK
  BY DEF AuditInv, AuditTypeOK, TimerMatchesBatch, AuditEntry, RowsMatch

(* An event is in the log no more often than it was inserted, once at least *)
(* if the service was told so, and is given up in the end.                  *)
THEOREM AuditTypeCorrect == AuditSpec => []AuditTypeOK
  BY AuditTypesHold, AuditInvariant, PTL

-----------------------------------------------------------------------------
(* The rows of an agent's queue.                                            *)

Positions == 1..(MaxCalls + 1)
RowShape == [priority : Priorities, position : Positions]
WriteShape == [row : Rows, position : Positions]

CallShape ==
    [at : {"new", "insert", "find", "delete", "priority", "clear", "read", "reorder", "done"},
     row : Rows \cup {Nobody},
     values : {Absent} \cup [priority : Priorities, position : 0..(MaxCalls + 1)],
     writes : Seq(WriteShape), undisturbed : BOOLEAN]

TableTyped ==
    /\ table \in [Rows -> RowShape \cup {Absent}]
    /\ call \in [Calls -> CallShape]
    /\ now \in Nat /\ exact \in BOOLEAN

(* What a call awaits, it knows enough for; calls yet to be made outnumber  *)
(* the names of rows that are left.                                         *)
Knows(c, x, n) ==
    /\ x.at \in {"insert", "find", "delete", "priority"} => x.row \in Rows
    /\ x.at = "insert" => x.values \in RowShape /\ x.row <= n
    /\ x.at = "priority" => x.values # Absent
    /\ x.at = "reorder" => x.writes # <<>>
    /\ x.at = "new" => n < c

RowsNamed == \A r \in Queued(table) : r <= now

InPlace(t, r) == t[r].position = NewPosition(t, r)

(* A reorder that was not disturbed still writes what is right, and to      *)
(* every row that is not.                                                   *)
Heals(t, writes) ==
    /\ \A i \in DOMAIN writes :
          writes[i].row \in Queued(t) /\ writes[i].position = NewPosition(t, writes[i].row)
    /\ \A r \in Queued(t) : InPlace(t, r) \/ \E i \in DOMAIN writes : writes[i].row = r

Undisturbed(x) == x.at = "reorder" /\ x.undisturbed

TableInv ==
    /\ TableTyped /\ RowsNamed
    /\ \A c \in Calls : Knows(c, call[c], now)
    /\ \A c \in Calls : Undisturbed(call[c]) => Heals(table, call[c].writes)
    /\ exact => \A r \in Queued(table) : InPlace(table, r)

LEMMA TableFacts ==
    /\ MaxCalls \in Nat /\ Priorities \subseteq Nat \ {0}
    /\ Absent \notin RowShape
    /\ Rows = Calls /\ Nobody \notin Rows
  BY QueueTableAssumption DEF Absent, RowShape, Rows, Calls, Nobody

(* Rows are ranked by priority, then age.                                   *)
LEMMA Ranked ==
    ASSUME NEW t \in [Rows -> RowShape \cup {Absent}], NEW S \in SUBSET Queued(t)
    PROVE  IsFiniteSet(S) /\ Cardinality(S) \in Nat /\ Cardinality(S) <= MaxCalls
           /\ IsOrder(S, ReorderOrder(t)) /\ IsOrder(S, QueryOrder(t))
<1>1. S \in SUBSET Rows /\ \A r \in S : t[r] \in RowShape
  BY DEF Queued
<1>2. IsFiniteSet(Rows) /\ Cardinality(Rows) = MaxCalls
  BY TableFacts, FS_Interval DEF Rows
<1>3. IsFiniteSet(S) /\ Cardinality(S) \in Nat /\ Cardinality(S) <= MaxCalls
  BY <1>1, <1>2, FS_Subset, FS_CardinalityType
<1>4. \A r \in S : r \in Int /\ t[r].priority \in Nat /\ t[r].position \in Nat
  <2>1. ASSUME NEW r \in S PROVE r \in Int
    BY <1>1, TableFacts DEF Rows
  <2>2. ASSUME NEW x \in RowShape PROVE x.priority \in Nat /\ x.position \in Nat
    <3>1. x.priority \in Priorities /\ x.position \in Positions
      BY DEF RowShape
    <3>2. Priorities \subseteq Nat /\ Positions \subseteq Nat
      BY QueueTableAssumption DEF Positions
    <3>3. QED  BY <3>1, <3>2
  <2>3. QED  BY <1>1, <2>1, <2>2
<1>5. \A r, s \in S : s \in ReorderOrder(t)[r] <=>
         t[r].priority > t[s].priority \/ (t[r].priority = t[s].priority /\ r < s)
  BY <1>1 DEF ReorderOrder
<1>6. IsOrder(S, ReorderOrder(t))
  BY <1>4, <1>5 DEF IsOrder
<1>7. \A r, s \in S : s \in QueryOrder(t)[r] <=>
         \/ t[r].priority > t[s].priority
         \/ t[r].priority = t[s].priority /\
              (t[r].position < t[s].position \/ (t[r].position = t[s].position /\ r < s))
  BY <1>1 DEF QueryOrder
<1>8. IsOrder(S, QueryOrder(t))
  BY <1>4, <1>7 DEF IsOrder
<1>9. QED  BY <1>3, <1>6, <1>8

LEMMA NewPositionIsOne ==
    ASSUME NEW t \in [Rows -> RowShape \cup {Absent}], NEW r \in Queued(t)
    PROVE  NewPosition(t, r) \in Positions
<1> DEFINE S == Queued(t)
<1>1. IsFiniteSet(S) /\ Cardinality(S) \in Nat /\ Cardinality(S) <= MaxCalls
      /\ IsOrder(S, ReorderOrder(t))
  BY Ranked
<1>2. NewPosition(t, r) \in 1..Cardinality(S)
  BY <1>1, UpToGrows DEF NewPosition
<1>3. QED  BY <1>1, <1>2, TableFacts DEF Positions

(* There always is a free position.                                         *)
LEMMA FreePositionIsOne ==
    ASSUME TableTyped, NEW p \in Priorities
    PROVE  FreePosition(p) \in Positions
<1> DEFINE Q == {q \in Queued(table) : table[q].priority >= p}
           T == {table[r].position : r \in Q}
           G == Positions \ T
<1>1. Q \in SUBSET Queued(table)
  OBVIOUS
<1>2. IsFiniteSet(Q) /\ Cardinality(Q) \in Nat /\ Cardinality(Q) <= MaxCalls
  BY <1>1, Ranked DEF TableTyped
<1>3. IsFiniteSet(T) /\ Cardinality(T) <= Cardinality(Q)
  <2> DEFINE f == [r \in Q |-> table[r].position]
  <2>1. f \in Surjection(Q, T)
    BY DEF Surjection
  <2> HIDE DEF f, T, Q
  <2>2. QED  BY <1>2, <2>1, FS_Surjection
<1>4. G # {}
  <2> SUFFICES ASSUME Positions \subseteq T PROVE FALSE
    OBVIOUS
  <2>1. Positions \in SUBSET T
    OBVIOUS
  <2>2. Cardinality(Positions) <= Cardinality(T)
    <3> HIDE DEF T
    <3> QED BY <1>3, <2>1, FS_Subset
  <2>3. Cardinality(Positions) = MaxCalls + 1
    BY TableFacts, FS_Interval DEF Positions
  <2>4. Cardinality(T) \in Nat
    <3> HIDE DEF T
    <3> QED BY <1>3, FS_CardinalityType
  <2> HIDE DEF T, Q
  <2>5. QED  BY <1>2, <1>3, <2>2, <2>3, <2>4, TableFacts
<1>5. \E x \in G : \A y \in G : x <= y
  <2>1. G \in SUBSET Int /\ IsFiniteSet(G)
    <3>1. IsFiniteSet(Positions) /\ Positions \in SUBSET Int
      BY TableFacts, FS_Interval DEF Positions
    <3>2. G \in SUBSET Positions
      OBVIOUS
    <3> HIDE DEF G
    <3>3. QED  BY <3>1, <3>2, FS_Subset
  <2>2. IsOrder(G, Ascending(G)) /\ Cardinality(G) \in Nat /\ Cardinality(G) # 0
    <3> HIDE DEF G
    <3> QED  BY <1>4, <2>1, AscendingIsOrder, FS_EmptySet, FS_CardinalityType
  <2> DEFINE a == Arranged(G, Ascending(G))
             n == Cardinality(G)
  <2> HIDE DEF G
  <2>3. a \in [1..n -> G] /\ \A i \in G : Place(G, Ascending(G), i) \in 1..n /\ a[Place(G, Ascending(G), i)] = i
    BY <2>1, <2>2, ArrangedInOrder
  <2>4. \A k, l \in 1..n : a[l] \in Ascending(G)[a[k]] <=> k < l
    BY <2>1, <2>2, ArrangedInOrder
  <2> HIDE DEF a, n
  <2>5. n \in Nat /\ 1 \in 1..n
    BY <2>2 DEF n
  <2>6. ASSUME NEW y \in G PROVE a[1] <= y
    <3>1. PICK l \in 1..n : a[l] = y
      BY <2>3
    <3>2. CASE l = 1
      BY <2>1, <3>1, <3>2
    <3>3. CASE 1 < l
      <4>1. a[l] \in Ascending(G)[a[1]]
        BY <2>4, <2>5, <3>3
      <4>2. a[1] \in G
        BY <2>3, <2>5
      <4>3. a[1] < y
        BY <3>1, <4>1, <4>2 DEF Ascending
      <4>4. a[1] \in Int /\ y \in Int
        BY <2>1, <4>2
      <4>5. QED  BY <4>3, <4>4
    <3>4. QED  BY <2>5, <3>2, <3>3
  <2>7. QED  BY <2>3, <2>5, <2>6
<1>6. Min(G) \in G
  BY <1>5 DEF Min
<1>7. FreePosition(p) = Min(G)
  BY DEF FreePosition, Positions
<1>8. QED  BY <1>6, <1>7

LEMMA TableInitSound == TableInit => TableInv
<1> SUFFICES ASSUME TableInit PROVE TableInv
  OBVIOUS
<1>1. NewCall \in CallShape
  BY TableFacts, EmptySeq DEF NewCall, CallShape
<1>2. TableTyped
  BY <1>1 DEF TableInit, TableTyped
<1>3. Queued(table) = {}
  BY DEF TableInit, Queued
<1>4. \A c \in Calls : Knows(c, call[c], now) /\ ~Undisturbed(call[c])
  BY TableFacts DEF TableInit, NewCall, Knows, Undisturbed, Calls
<1>5. QED  BY <1>2, <1>3, <1>4 DEF TableInv, RowsNamed

(* A call that goes on without a write.                                     *)
LEMMA GoingOnKeeps ==
    ASSUME TableInv, NEW c \in Calls, NEW x \in CallShape, GoesOn(c, x),
           ~Undisturbed(x), now' \in Nat, now <= now', Knows(c, x, now'),
           \A d \in Calls \ {c} : call[d].at = "new" => now' < d
    PROVE  TableInv'
<1>1. call' = [call EXCEPT ![c] = x] /\ table' = table /\ exact' = exact
  BY DEF GoesOn
<1>2. call \in [Calls -> CallShape]
  BY DEF TableInv, TableTyped
<1>3. TableTyped'
  BY <1>1, <1>2 DEF TableInv, TableTyped
<1>4. RowsNamed'
  <2>1. \A r \in Queued(table) : r \in Nat /\ r <= now
    BY TableFacts DEF TableInv, RowsNamed, Queued, Rows
  <2>2. now \in Nat
    BY DEF TableInv, TableTyped
  <2>3. \A r \in Queued(table) : r <= now'
    BY <2>1, <2>2
  <2>4. QED  BY <1>1, <2>3 DEF RowsNamed, Queued
<1>5. ASSUME NEW d \in Calls PROVE Knows(d, call'[d], now')
  <2>1. CASE d = c
    BY <1>1, <1>2, <2>1
  <2>2. CASE d # c
    <3>1. call'[d] = call[d] /\ Knows(d, call[d], now) /\ (call[d].at = "new" => now' < d)
      BY <1>1, <1>2, <2>2 DEF TableInv
    <3>2. call[d].at = "insert" => call[d].row \in Nat /\ call[d].row <= now'
      <4>1. SUFFICES ASSUME call[d].at = "insert" PROVE call[d].row \in Nat /\ call[d].row <= now'
        OBVIOUS
      <4>2. call[d].row \in Nat /\ call[d].row <= now /\ now \in Nat
        BY <3>1, <4>1, TableFacts DEF Knows, Rows, TableInv, TableTyped
      <4>3. QED  BY <4>2
    <3>3. QED  BY <3>1, <3>2 DEF Knows
  <2>3. QED  BY <2>1, <2>2
<1>6. ASSUME NEW d \in Calls, Undisturbed(call'[d])
      PROVE  Heals(table, call'[d].writes)
  <2>1. d # c
    BY <1>1, <1>2, <1>6
  <2>2. call'[d] = call[d]
    BY <1>1, <1>2, <2>1
  <2>3. QED  BY <1>6, <2>2 DEF TableInv
<1>7. \A d \in Calls : Undisturbed(call'[d]) => Heals(table', call'[d].writes)
  BY <1>1, <1>6
<1>8. exact' => \A r \in Queued(table') : InPlace(table', r)
  BY <1>1 DEF TableInv
<1>9. QED  BY <1>3, <1>4, <1>5, <1>7, <1>8 DEF TableInv

(* A write that is no position's.                                           *)
LEMMA WritingKeeps ==
    ASSUME TableInv, NEW c \in Calls, NEW x \in CallShape, NEW new, Writes(c, new, x),
           new \in [Rows -> RowShape \cup {Absent}], \A r \in Queued(new) : r <= now,
           ~Undisturbed(x), Knows(c, x, now), UNCHANGED now
    PROVE  TableInv'
<1>1. table' = new /\ exact' = FALSE
  BY DEF Writes
<1>2. call \in [Calls -> CallShape] /\ now \in Nat
  BY DEF TableInv, TableTyped
<1>3. call'[c] = x
  BY DEF Writes
<1>4. ASSUME NEW d \in Calls, d # c
      PROVE  /\ call'[d] \in CallShape /\ ~call'[d].undisturbed
             /\ call'[d].at = call[d].at /\ call'[d].row = call[d].row
             /\ call'[d].values = call[d].values /\ call'[d].writes = call[d].writes
  <2>1. call'[d] = [call[d] EXCEPT !.undisturbed = FALSE]
    BY <1>4 DEF Writes
  <2>2. call[d] \in CallShape
    BY <1>2
  <2>3. QED  BY <2>1, <2>2 DEF CallShape
<1>5. TableTyped'
  <2>1. call' \in [Calls -> CallShape]
    BY <1>3, <1>4 DEF Writes
  <2>2. QED  BY <1>1, <1>2, <2>1 DEF TableTyped
<1>6. RowsNamed'
  BY <1>1 DEF RowsNamed
<1>7. ASSUME NEW d \in Calls PROVE Knows(d, call'[d], now') /\ ~Undisturbed(call'[d])
  <2>1. CASE d = c
    BY <1>3, <2>1 DEF Knows
  <2>2. CASE d # c
    <3>1. Knows(d, call[d], now)
      BY DEF TableInv
    <3>2. QED  BY <1>4, <2>2, <3>1 DEF Knows, Undisturbed
  <2>3. QED  BY <2>1, <2>2
<1>8. QED  BY <1>1, <1>5, <1>6, <1>7 DEF TableInv

(* What a reorder reads, it is going to put right.                          *)
LEMMA ReadingKeeps ==
    ASSUME TableInv, NEW c \in Calls, ReadForReorder(c)
    PROVE  TableInv'
<1> DEFINE wrong  == {r \in Queued(table) : table[r].position # NewPosition(table, r)}
           order  == Arranged(wrong, ReorderOrder(table))
           n      == Cardinality(wrong)
           needed == [i \in DOMAIN order |->
                        [row |-> order[i], position |-> NewPosition(table, order[i])]]
           at     == IF needed = <<>> THEN "done" ELSE "reorder"
<1>1. table \in [Rows -> RowShape \cup {Absent}] /\ call \in [Calls -> CallShape]
      /\ now \in Nat /\ exact \in BOOLEAN
  BY DEF TableInv, TableTyped
<1>2. /\ call[c].at = "read"
      /\ call' = [call EXCEPT ![c].at = at, ![c].writes = needed, ![c].undisturbed = TRUE]
      /\ exact' = (exact \/ needed = <<>>)
      /\ table' = table /\ now' = now
  BY DEF ReadForReorder
<1>3. wrong \in SUBSET Queued(table) /\ wrong \in SUBSET Rows
  BY DEF Queued
<1>4. IsFiniteSet(wrong) /\ n \in Nat /\ IsOrder(wrong, ReorderOrder(table))
  <2> HIDE DEF wrong
  <2> QED  BY <1>1, <1>3, Ranked
<1>5. /\ order \in [1..n -> wrong]
      /\ \A r \in wrong : \E i \in 1..n : order[i] = r
  <2> HIDE DEF wrong
  <2> QED  BY <1>4, ArrangedInOrder
<1>6. needed \in Seq(WriteShape) /\ Len(needed) = n /\ DOMAIN needed = 1..n
      /\ \A i \in 1..n : needed[i].row = order[i] /\ needed[i].position = NewPosition(table, order[i])
  <2>1. DOMAIN order = 1..n
    BY <1>5
  <2>2. \A i \in 1..n : order[i] \in wrong
    BY <1>5
  <2> HIDE DEF order, n
  <2>3. ASSUME NEW i \in 1..n PROVE needed[i] \in WriteShape
    <3>1. order[i] \in Rows /\ NewPosition(table, order[i]) \in Positions
      BY <1>1, <1>3, <2>2, NewPositionIsOne
    <3>2. needed[i] = [row |-> order[i], position |-> NewPosition(table, order[i])]
      BY <2>1
    <3> HIDE DEF needed
    <3>3. QED  BY <3>1, <3>2 DEF WriteShape
  <2>4. needed \in [1..n -> WriteShape]
    BY <2>1, <2>3
  <2>5. \A i \in 1..n : needed[i] = [row |-> order[i], position |-> NewPosition(table, order[i])]
    BY <2>1
  <2> HIDE DEF needed
  <2>6. QED  BY <1>4, <2>4, <2>5
<1>7. Heals(table, needed)
  <2>1. \A i \in 1..n : order[i] \in wrong
    BY <1>5
  <2>2. \A i \in DOMAIN needed :
           needed[i].row \in Queued(table) /\ needed[i].position = NewPosition(table, needed[i].row)
    <3> HIDE DEF needed, order, n
    <3> QED  BY <1>3, <1>6, <2>1
  <2>3. \A r \in Queued(table) : r \in wrong \/ InPlace(table, r)
    BY DEF InPlace
  <2> HIDE DEF needed, order, n, wrong
  <2>4. \A r \in Queued(table) :
           InPlace(table, r) \/ \E i \in DOMAIN needed : needed[i].row = r
    BY <1>5, <1>6, <2>3
  <2>5. QED  BY <2>2, <2>4 DEF Heals
<1>8. needed = <<>> => \A r \in Queued(table) : InPlace(table, r)
  <2> HIDE DEF needed
  <2>1. SUFFICES ASSUME needed = <<>> PROVE \A r \in Queued(table) : InPlace(table, r)
    OBVIOUS
  <2>2. DOMAIN needed = {}
    BY <2>1
  <2>3. QED  BY <1>7, <2>2 DEF Heals
<1> HIDE DEF needed, order, n, wrong
<1>9. /\ call'[c] \in CallShape /\ call'[c].at = at /\ call'[c].writes = needed
      /\ call' = [call EXCEPT ![c] = call'[c]]
  <2>1. call[c] \in CallShape
    BY <1>1
  <2>2. call'[c] = [call[c] EXCEPT !.at = at, !.writes = needed, !.undisturbed = TRUE]
    BY <1>1, <1>2
  <2>3. QED  BY <1>1, <1>2, <1>6, <2>1, <2>2 DEF CallShape
<1>10. TableTyped'
  BY <1>1, <1>2, <1>9 DEF TableTyped
<1>11. \A d \in Calls \ {c} : call'[d] = call[d]
  BY <1>1, <1>9
<1>12. RowsNamed'
  BY <1>2 DEF TableInv, RowsNamed
<1>13. ASSUME NEW d \in Calls
       PROVE  Knows(d, call'[d], now') /\ (Undisturbed(call'[d]) => Heals(table, call'[d].writes))
  <2>1. CASE d = c
    BY <1>7, <1>9, <2>1 DEF Knows
  <2>2. CASE d # c
    BY <1>2, <1>11, <2>2 DEF TableInv, Knows
  <2>3. QED  BY <2>1, <2>2
<1>14. exact' => \A r \in Queued(table) : InPlace(table, r)
  BY <1>2, <1>8 DEF TableInv
<1>15. QED  BY <1>2, <1>10, <1>12, <1>13, <1>14 DEF TableInv

(* A position more or less does not change what the positions are to be.    *)
LEMMA PositionsMove ==
    ASSUME NEW t \in [Rows -> RowShape \cup {Absent}], NEW w \in WriteShape
    PROVE  /\ Placed(t, w) \in [Rows -> RowShape \cup {Absent}]
           /\ Queued(Placed(t, w)) = Queued(t)
           /\ \A r \in Rows : NewPosition(Placed(t, w), r) = NewPosition(t, r)
           /\ \A r \in Queued(t) :
                 Placed(t, w)[r].position = IF r = w.row THEN w.position ELSE t[r].position
<1> DEFINE u == Placed(t, w)
<1>1. w.row \in Rows /\ w.position \in Positions
  BY DEF WriteShape
<1>2. ASSUME NEW r \in Rows
      PROVE  /\ u[r] \in RowShape \cup {Absent} /\ u[r].priority = t[r].priority
             /\ u[r] = Absent <=> t[r] = Absent
             /\ t[r] # Absent => u[r].position = IF r = w.row THEN w.position ELSE t[r].position
  <2>1. CASE t[w.row] = Absent \/ r # w.row
    BY <1>1, <2>1 DEF Placed
  <2>2. CASE t[w.row] # Absent /\ r = w.row
    <3>1. t[r] \in RowShape
      BY <2>2
    <3>2. u[r] = [t[r] EXCEPT !.position = w.position]
      BY <1>1, <2>2 DEF Placed
    <3>3. u[r] \in RowShape /\ u[r].priority = t[r].priority /\ u[r].position = w.position
      BY <1>1, <3>1, <3>2 DEF RowShape
    <3>4. QED  BY <2>2, <3>3, TableFacts
  <2>3. QED  BY <2>1, <2>2
<1>3. u \in [Rows -> RowShape \cup {Absent}]
  <2>1. u = [r \in Rows |-> u[r]]
    BY DEF Placed
  <2> HIDE DEF u
  <2>2. QED  BY <1>2, <2>1
<1> HIDE DEF u
<1>4. Queued(u) = Queued(t)
  BY <1>2 DEF Queued
<1>5. ReorderOrder(u) = ReorderOrder(t)
  BY <1>2 DEF ReorderOrder
<1>6. \A r \in Rows : NewPosition(u, r) = NewPosition(t, r)
  BY <1>4, <1>5 DEF NewPosition
<1>7. \A r \in Queued(t) : u[r].position = IF r = w.row THEN w.position ELSE t[r].position
  BY <1>2 DEF Queued
<1>8. QED  BY <1>3, <1>4, <1>6, <1>7 DEF u

LEMMA PlacingKeeps ==
    ASSUME TableInv, NEW c \in Calls, WritePosition(c)
    PROVE  TableInv'
<1> DEFINE writes == call[c].writes
           w == Head(writes)
           last == Len(writes) = 1
<1>1. table \in [Rows -> RowShape \cup {Absent}] /\ call \in [Calls -> CallShape] /\ now \in Nat
  BY DEF TableInv, TableTyped
<1>2. /\ call[c].at = "reorder" /\ table' = Placed(table, w) /\ now' = now
      /\ exact' = (last /\ call[c].undisturbed)
      /\ call' = [d \in Calls |->
                    IF d # c THEN [call[d] EXCEPT !.undisturbed = FALSE]
                    ELSE [call[c] EXCEPT !.at = IF last THEN "done" ELSE "reorder",
                                         !.writes = Tail(@)]]
  BY DEF WritePosition, AfterPosition
<1>3. writes \in Seq(WriteShape) /\ writes # <<>>
  BY <1>1, <1>2 DEF CallShape, TableInv, Knows
<1>4. /\ w \in WriteShape /\ w = writes[1] /\ Tail(writes) \in Seq(WriteShape)
      /\ Len(writes) \in Nat \ {0} /\ Len(Tail(writes)) = Len(writes) - 1
      /\ \A i \in 1..Len(Tail(writes)) : Tail(writes)[i] = writes[i + 1]
  BY <1>3, HeadTailProperties, EmptySeq
<1>5. /\ table' \in [Rows -> RowShape \cup {Absent}] /\ Queued(table') = Queued(table)
      /\ \A r \in Rows : NewPosition(table', r) = NewPosition(table, r)
      /\ \A r \in Queued(table) :
            table'[r].position = IF r = w.row THEN w.position ELSE table[r].position
  BY <1>1, <1>2, <1>4, PositionsMove
<1>6. /\ call'[c] \in CallShape /\ call'[c].undisturbed = call[c].undisturbed
      /\ call'[c].at = (IF last THEN "done" ELSE "reorder") /\ call'[c].writes = Tail(writes)
  <2>1. call'[c] = [call[c] EXCEPT !.at = IF last THEN "done" ELSE "reorder", !.writes = Tail(writes)]
    BY <1>2
  <2>2. call[c] \in CallShape
    BY <1>1
  <2> HIDE DEF last
  <2>3. QED  BY <1>4, <2>1, <2>2 DEF CallShape
<1>7. ASSUME NEW d \in Calls, d # c
      PROVE  /\ call'[d] \in CallShape /\ ~call'[d].undisturbed
             /\ call'[d].at = call[d].at /\ call'[d].row = call[d].row
             /\ call'[d].values = call[d].values /\ call'[d].writes = call[d].writes
  <2>1. call'[d] = [call[d] EXCEPT !.undisturbed = FALSE]
    BY <1>2, <1>7
  <2>2. call[d] \in CallShape
    BY <1>1
  <2>3. QED  BY <2>1, <2>2 DEF CallShape
<1>8. TableTyped'
  <2>1. call' \in [Calls -> CallShape]
    BY <1>2, <1>6, <1>7
  <2>2. call[c].undisturbed \in BOOLEAN
    BY <1>1 DEF CallShape
  <2>3. QED  BY <1>1, <1>2, <1>5, <2>1, <2>2 DEF TableTyped
<1>9. RowsNamed'
  BY <1>2, <1>5 DEF TableInv, RowsNamed
<1>10. call[c].undisturbed => Heals(table', Tail(writes))
  <2> SUFFICES ASSUME call[c].undisturbed PROVE Heals(table', Tail(writes))
    OBVIOUS
  <2>1. Heals(table, writes)
    BY <1>2 DEF TableInv, Undisturbed
  <2> DEFINE tail == Tail(writes)
  <2>2. DOMAIN tail = 1..Len(tail) /\ DOMAIN writes = 1..Len(writes)
    BY <1>3, <1>4
  <2> HIDE DEF tail, writes
  <2>3. ASSUME NEW i \in DOMAIN tail
        PROVE  tail[i].row \in Queued(table') /\ tail[i].position = NewPosition(table', tail[i].row)
    <3>1. i + 1 \in DOMAIN writes /\ tail[i] = writes[i + 1]
      BY <1>4, <2>2 DEF tail
    <3>2. tail[i].row \in Queued(table) /\ tail[i].position = NewPosition(table, tail[i].row)
      BY <2>1, <3>1 DEF Heals
    <3>3. QED  BY <1>5, <3>2 DEF Queued
  <2>4. w.position = NewPosition(table, w.row) /\ w.row \in Queued(table)
    BY <1>4, <2>1, <2>2 DEF Heals
  <2>5. ASSUME NEW r \in Queued(table')
        PROVE  InPlace(table', r) \/ \E i \in DOMAIN tail : tail[i].row = r
    <3>1. r \in Queued(table) /\ r \in Rows
      BY <1>5 DEF Queued
    <3>2. CASE r = w.row
      BY <1>5, <2>4, <3>1, <3>2 DEF InPlace
    <3>3. CASE r # w.row /\ InPlace(table, r)
      BY <1>5, <3>1, <3>3 DEF InPlace
    <3>4. CASE r # w.row /\ \E i \in DOMAIN writes : writes[i].row = r
      <4>1. PICK i \in DOMAIN writes : writes[i].row = r
        BY <3>4
      <4>2. i # 1
        BY <1>4, <3>4, <4>1
      <4>3. i - 1 \in DOMAIN tail /\ tail[i - 1] = writes[i]
        BY <1>4, <2>2, <4>2 DEF tail
      <4>4. QED  BY <4>1, <4>3
    <3>5. QED  BY <2>1, <3>1, <3>2, <3>3, <3>4 DEF Heals
  <2>6. Heals(table', tail)
    BY <2>3, <2>5 DEF Heals
  <2>7. QED  BY <2>6 DEF tail
<1>11. ASSUME NEW d \in Calls
       PROVE  Knows(d, call'[d], now') /\ (Undisturbed(call'[d]) => Heals(table', call'[d].writes))
  <2>1. CASE d = c
    <3>1. ~last => Tail(writes) # <<>>
      <4>1. Tail(writes) = <<>> => Len(Tail(writes)) = 0
        BY EmptySeq
      <4>2. QED  BY <1>4, <4>1
    <3>2. QED  BY <1>6, <1>10, <2>1, <3>1 DEF Knows, Undisturbed
  <2>2. CASE d # c
    <3>1. Knows(d, call[d], now)
      BY DEF TableInv
    <3>2. QED  BY <1>2, <1>7, <2>2, <3>1 DEF Knows, Undisturbed
  <2>3. QED  BY <2>1, <2>2
<1>12. exact' => \A r \in Queued(table') : InPlace(table', r)
  <2> SUFFICES ASSUME exact' PROVE \A r \in Queued(table') : InPlace(table', r)
    OBVIOUS
  <2>1. last /\ call[c].undisturbed
    BY <1>2
  <2>2. DOMAIN Tail(writes) = {}
    <3> DEFINE tail == Tail(writes)
    <3>1. tail \in Seq(WriteShape) /\ Len(tail) = 0
      BY <1>4, <2>1
    <3> HIDE DEF tail
    <3>2. DOMAIN tail = {}
      BY <3>1
    <3>3. QED  BY <3>2 DEF tail
  <2>3. QED  BY <1>10, <2>1, <2>2 DEF Heals
<1>13. QED  BY <1>8, <1>9, <1>11, <1>12 DEF TableInv

LEMMA StepKeepsTableInv == TableInv /\ [TableNext]_tableVars => TableInv'
<1> SUFFICES ASSUME TableInv, [TableNext]_tableVars PROVE TableInv'
  OBVIOUS
<1>1. table \in [Rows -> RowShape \cup {Absent}] /\ call \in [Calls -> CallShape] /\ now \in Nat
  BY DEF TableInv, TableTyped
<1>2. NewCall \in CallShape /\ NewCall.values = Absent /\ NewCall.writes = <<>>
  BY TableFacts, EmptySeq DEF NewCall, CallShape
<1>3. \A c \in Calls : call[c] \in CallShape /\ Knows(c, call[c], now)
  BY <1>1 DEF TableInv
<1>4. ASSUME NEW c \in Calls, NEW x \in CallShape, GoesOn(c, x), UNCHANGED now,
             ~Undisturbed(x), Knows(c, x, now)
      PROVE  TableInv'
  <2>1. Knows(c, x, now')
    BY <1>4 DEF Knows
  <2>2. \A d \in Calls \ {c} : call[d].at = "new" => now' < d
    BY <1>3, <1>4 DEF Knows
  <2>3. QED  BY <1>1, <1>4, <2>1, <2>2, GoingOnKeeps
<1>5. ASSUME NEW c \in Calls, NEW p \in Priorities, Enqueue(c, p)
      PROVE  TableInv'
  <2> DEFINE v == [priority |-> p, position |-> FreePosition(p)]
             x == [NewCall EXCEPT !.at = "insert", !.row = now', !.values = v]
  <2>1. call[c].at = "new" /\ (\A d \in 1..(c - 1) : call[d].at # "new") /\ now' = now + 1
        /\ GoesOn(c, x)
    BY <1>5 DEF Enqueue, Starts
  <2>2. FreePosition(p) \in Positions
    BY FreePositionIsOne DEF TableInv
  <2>3. now < c /\ c \in 1..MaxCalls
    BY <1>3, <2>1 DEF Knows, Calls
  <2>4. now' \in Rows /\ now' \in Nat /\ now <= now'
    BY <1>1, <2>1, <2>3, TableFacts DEF Rows
  <2>5. v \in RowShape /\ v \in [priority : Priorities, position : 0..(MaxCalls + 1)]
    <3>1. FreePosition(p) \in 0..(MaxCalls + 1)
      BY <2>2, TableFacts DEF Positions
    <3>2. QED  BY <2>2, <3>1 DEF RowShape
  <2> HIDE DEF v
  <2>6. x \in CallShape /\ x.at = "insert" /\ x.row = now' /\ x.values = v
    BY <1>2, <2>4, <2>5 DEF CallShape
  <2>7. \A d \in Calls \ {c} : call[d].at = "new" => now' < d
    <3> SUFFICES ASSUME NEW d \in Calls, d # c, call[d].at = "new" PROVE now' < d
      OBVIOUS
    <3>1. d \notin 1..(c - 1) /\ d \in Int /\ 1 <= d /\ c \in Int
      BY <2>1, TableFacts DEF Calls
    <3>2. QED  BY <1>1, <2>1, <2>3, <3>1
  <2> HIDE DEF x
  <2>8. PICK y \in CallShape : y.at = "insert" /\ y.row = now' /\ y.values = v /\ GoesOn(c, y)
    BY <2>1, <2>6
  <2>9. Knows(c, y, now')
    <3>1. y.row <= now'
      BY <2>4, <2>8
    <3>2. QED  BY <2>4, <2>5, <2>8, <3>1 DEF Knows
  <2>10. QED  BY <2>4, <2>7, <2>8, <2>9, GoingOnKeeps DEF Undisturbed
<1>6. ASSUME NEW c \in Calls, Insert(c) PROVE TableInv'
  <2> DEFINE new == [table EXCEPT ![call[c].row] = call[c].values]
  <2>1. PICK at \in Answers : /\ call[c].at = "insert" /\ now' = now
                              /\ Writes(c, new, [call[c] EXCEPT !.at = at])
    BY <1>6 DEF Insert
  <2> DEFINE x == [call[c] EXCEPT !.at = at]
  <2>2. call[c].row \in Rows /\ call[c].values \in RowShape /\ call[c].row <= now
    BY <1>3, <2>1 DEF Knows
  <2>3. new \in [Rows -> RowShape \cup {Absent}] /\ \A r \in Queued(new) : r <= now
    BY <1>1, <2>2 DEF TableInv, RowsNamed, Queued
  <2>4. x \in CallShape /\ x.at \in {"read", "done"}
    BY <1>3 DEF Answers, CallShape
  <2>5. Writes(c, new, x)
    BY <2>1
  <2> HIDE DEF x, new
  <2>6. QED  BY <2>1, <2>3, <2>4, <2>5, WritingKeeps DEF Undisturbed, Knows
<1>7. ASSUME NEW c \in Calls, Dequeue(c) PROVE TableInv'
  <2>1. CASE Queued(table) = {}
    <3> DEFINE x == [NewCall EXCEPT !.at = "done"]
    <3>1. GoesOn(c, x) /\ now' = now
      BY <1>7, <2>1 DEF Dequeue
    <3>2. x \in CallShape /\ x.at = "done"
      BY <1>2 DEF CallShape
    <3> HIDE DEF x
    <3>3. QED  BY <1>4, <3>1, <3>2 DEF Undisturbed, Knows
  <2>2. CASE Queued(table) # {}
    <3> DEFINE x == [NewCall EXCEPT !.at = "find", !.row = First(table)]
               S == Queued(table)
    <3>1. GoesOn(c, x) /\ now' = now
      BY <1>7, <2>2 DEF Dequeue
    <3>2. First(table) \in Rows
      <4>1. IsFiniteSet(S) /\ Cardinality(S) \in Nat /\ IsOrder(S, QueryOrder(table)) /\ S \in SUBSET Rows
        BY <1>1, Ranked DEF Queued
      <4>2. Cardinality(S) # 0
        BY <2>2, <4>1, FS_EmptySet
      <4>3. Arranged(S, QueryOrder(table)) \in [1..Cardinality(S) -> S]
        BY <4>1, ArrangedInOrder
      <4>4. QED  BY <4>1, <4>2, <4>3 DEF First
    <3>3. x \in CallShape /\ x.at = "find" /\ x.row = First(table)
      BY <1>2, <3>2 DEF CallShape
    <3> HIDE DEF x
    <3>4. QED  BY <1>4, <3>1, <3>2, <3>3 DEF Undisturbed, Knows
  <2>3. QED  BY <2>1, <2>2
<1>8. ASSUME NEW c \in Calls, NEW r \in Rows, RemoveRow(c, r) PROVE TableInv'
  <2> DEFINE x == [NewCall EXCEPT !.at = "find", !.row = r]
  <2>1. GoesOn(c, x) /\ now' = now
    BY <1>8 DEF RemoveRow
  <2>2. x \in CallShape /\ x.at = "find" /\ x.row = r
    BY <1>2 DEF CallShape
  <2> HIDE DEF x
  <2>3. QED  BY <1>4, <2>1, <2>2 DEF Undisturbed, Knows
<1>9. ASSUME NEW c \in Calls, NEW r \in Rows, NEW p \in Priorities, UpdatePriority(c, r, p)
      PROVE  TableInv'
  <2> DEFINE v == [Absent EXCEPT !.priority = p]
             x == [NewCall EXCEPT !.at = "find", !.row = r, !.values = v]
  <2>1. GoesOn(c, x) /\ now' = now
    BY <1>9 DEF UpdatePriority
  <2>2. v \in [priority : Priorities, position : 0..(MaxCalls + 1)]
    BY TableFacts DEF Absent
  <2> HIDE DEF v
  <2>3. x \in CallShape /\ x.at = "find" /\ x.row = r
    BY <1>2, <2>2 DEF CallShape
  <2> HIDE DEF x
  <2>4. QED  BY <1>4, <2>1, <2>3 DEF Undisturbed, Knows
<1>10. ASSUME NEW c \in Calls, FindById(c) PROVE TableInv'
  <2> DEFINE at == IF table[call[c].row] = Absent THEN "done"
                   ELSE IF call[c].values = Absent THEN "delete" ELSE "priority"
             x == [call[c] EXCEPT !.at = at]
  <2>1. call[c].at = "find" /\ GoesOn(c, x) /\ now' = now
    BY <1>10 DEF FindById
  <2>2. call[c].row \in Rows
    BY <1>3, <2>1 DEF Knows
  <2>3. /\ at \in {"done", "delete", "priority"}
        /\ at = "priority" => call[c].values # Absent
    OBVIOUS
  <2> HIDE DEF at
  <2>4. x \in CallShape /\ x.at = at /\ x.row = call[c].row /\ x.values = call[c].values
    BY <1>3, <2>3 DEF CallShape
  <2> HIDE DEF x
  <2>5. QED  BY <1>4, <2>1, <2>2, <2>3, <2>4 DEF Undisturbed, Knows
<1>11. ASSUME NEW c \in Calls, Delete(c) PROVE TableInv'
  <2> DEFINE new == [table EXCEPT ![call[c].row] = Absent]
  <2>1. PICK at \in Answers : /\ call[c].at = "delete" /\ now' = now
                              /\ Writes(c, new, [call[c] EXCEPT !.at = at])
    BY <1>11 DEF Delete
  <2> DEFINE x == [call[c] EXCEPT !.at = at]
  <2>2. call[c].row \in Rows
    BY <1>3, <2>1 DEF Knows
  <2>3. new \in [Rows -> RowShape \cup {Absent}] /\ \A r \in Queued(new) : r <= now
    BY <1>1, <2>2 DEF TableInv, RowsNamed, Queued
  <2>4. x \in CallShape /\ x.at \in {"read", "done"}
    BY <1>3 DEF Answers, CallShape
  <2>5. Writes(c, new, x)
    BY <2>1
  <2> HIDE DEF x, new
  <2>6. QED  BY <2>1, <2>3, <2>4, <2>5, WritingKeeps DEF Undisturbed, Knows
<1>12. ASSUME NEW c \in Calls, WritePriority(c) PROVE TableInv'
  <2> DEFINE r == call[c].row
  <2>1. call[c].at = "priority" /\ r \in Rows /\ now' = now
    BY <1>3, <1>12 DEF Knows, WritePriority
  <2>2. CASE table[r] = Absent
    <3> DEFINE x == [call[c] EXCEPT !.at = "done"]
    <3>1. GoesOn(c, x)
      BY <1>12, <2>2 DEF WritePriority
    <3>2. x \in CallShape /\ x.at = "done"
      BY <1>3 DEF CallShape
    <3> HIDE DEF x
    <3>3. QED  BY <1>4, <2>1, <3>1, <3>2 DEF Undisturbed, Knows
  <2>3. CASE table[r] # Absent
    <3> DEFINE p == call[c].values.priority
               new == [table EXCEPT ![r].priority = p]
    <3>1. PICK at \in Answers : Writes(c, new, [call[c] EXCEPT !.at = at])
      BY <1>12, <2>3 DEF WritePriority
    <3> DEFINE x == [call[c] EXCEPT !.at = at]
    <3>2. p \in Priorities
      <4>1. call[c].values # Absent
        BY <1>3, <2>1 DEF Knows
      <4>2. QED  BY <1>3, <4>1 DEF CallShape
    <3>3. table[r] \in RowShape
      BY <1>1, <2>1, <2>3
    <3>4. [table[r] EXCEPT !.priority = p] \in RowShape
      BY <3>2, <3>3 DEF RowShape
    <3>5. new = [table EXCEPT ![r] = [table[r] EXCEPT !.priority = p]]
      BY <1>1, <2>1
    <3> HIDE DEF new, p
    <3>6. new \in [Rows -> RowShape \cup {Absent}] /\ \A s \in Queued(new) : s <= now
      BY <1>1, <2>1, <2>3, <3>4, <3>5 DEF TableInv, RowsNamed, Queued
    <3>7. x \in CallShape /\ x.at \in {"read", "done"}
      BY <1>3 DEF Answers, CallShape
    <3>8. Writes(c, new, x)
      BY <3>1
    <3> HIDE DEF x
    <3>9. QED  BY <2>1, <3>6, <3>7, <3>8, WritingKeeps DEF Undisturbed, Knows
  <2>4. QED  BY <2>2, <2>3
<1>13. ASSUME NEW c \in Calls, ClearQueue(c) PROVE TableInv'
  <2> DEFINE at == IF Queued(table) = {} THEN "done" ELSE "clear"
             x == [NewCall EXCEPT !.at = at]
  <2>1. GoesOn(c, x) /\ now' = now
    BY <1>13 DEF ClearQueue
  <2>2. at \in {"done", "clear"}
    OBVIOUS
  <2> HIDE DEF at
  <2>3. x \in CallShape /\ x.at = at
    BY <1>2, <2>2 DEF CallShape
  <2> HIDE DEF x
  <2>4. QED  BY <1>4, <2>1, <2>2, <2>3 DEF Undisturbed, Knows
<1>14. ASSUME NEW c \in Calls, DeleteAll(c) PROVE TableInv'
  <2> DEFINE x == [call[c] EXCEPT !.at = "done"]
             new == [r \in Rows |-> Absent]
  <2>1. Writes(c, new, x) /\ now' = now
    BY <1>14 DEF DeleteAll
  <2>2. new \in [Rows -> RowShape \cup {Absent}] /\ \A r \in Queued(new) : r <= now
    BY DEF Queued
  <2>3. x \in CallShape /\ x.at = "done"
    BY <1>3 DEF CallShape
  <2> HIDE DEF x, new
  <2>4. QED  BY <2>1, <2>2, <2>3, WritingKeeps DEF Undisturbed, Knows
<1>15. ASSUME NEW c \in Calls, QueryFails(c) PROVE TableInv'
  <2> DEFINE x == [call[c] EXCEPT !.at = "done"]
  <2>1. GoesOn(c, x) /\ now' = now
    BY <1>15 DEF QueryFails
  <2>2. x \in CallShape /\ x.at = "done"
    BY <1>3 DEF CallShape
  <2> HIDE DEF x
  <2>3. QED  BY <1>4, <2>1, <2>2 DEF Undisturbed, Knows
<1>16. ASSUME NEW c \in Calls, PositionFails(c) PROVE TableInv'
  <2> DEFINE writes == call[c].writes
             x == [AfterPosition(c) EXCEPT !.undisturbed = FALSE]
  <2>1. call[c].at = "reorder" /\ GoesOn(c, x) /\ now' = now
    BY <1>16 DEF PositionFails
  <2>2. writes \in Seq(WriteShape) /\ writes # <<>>
    BY <1>3, <2>1 DEF CallShape, Knows
  <2>3. /\ Tail(writes) \in Seq(WriteShape) /\ Len(writes) \in Nat \ {0}
        /\ Len(Tail(writes)) = Len(writes) - 1
    BY <2>2, HeadTailProperties, EmptySeq
  <2>4. Len(writes) # 1 => Tail(writes) # <<>>
    <3>1. Tail(writes) = <<>> => Len(Tail(writes)) = 0
      BY EmptySeq
    <3>2. QED  BY <2>3, <3>1
  <2>5. /\ x \in CallShape /\ ~x.undisturbed /\ x.writes = Tail(writes)
        /\ x.at = IF Len(writes) = 1 THEN "done" ELSE "reorder"
    BY <1>3, <2>3 DEF AfterPosition, CallShape
  <2> HIDE DEF x
  <2>6. QED  BY <1>4, <2>1, <2>4, <2>5 DEF Undisturbed, Knows
<1>17. CASE UNCHANGED tableVars
  BY <1>17 DEF tableVars, TableInv, TableTyped, RowsNamed, Knows
<1>18. QED
  BY <1>5, <1>6, <1>7, <1>8, <1>9, <1>10, <1>11, <1>12, <1>13, <1>14, <1>15, <1>16, <1>17,
     ReadingKeeps, PlacingKeeps DEF TableNext

LEMMA TableInvariant == TableSpec => []TableInv
  BY TableInitSound, StepKeepsTableInv, PTL DEF TableSpec

LEMMA TableTypesHold == TableInv => TableTypeOK
<1> SUFFICES ASSUME TableInv PROVE TableTypeOK
  OBVIOUS
<1>1. \A r \in Queued(table) : r <= now /\ table[r] \in RowShape
  BY DEF TableInv, RowsNamed, TableTyped, Queued
<1>2. \A c \in Calls : call[c] \in CallShape /\ Knows(c, call[c], now)
  BY DEF TableInv, TableTyped
<1>3. QED  BY <1>1, <1>2 DEF TableTypeOK, TableInv, TableTyped, RowShape, Positions, CallShape, Knows

(* Where every row has the position it is to have, this is its rank, and    *)
(* what is counted by position is the same.                                 *)
LEMMA PlacesAreRanks ==
    ASSUME TableInv, \A r \in Queued(table) : InPlace(table, r), NEW r \in Queued(table)
    PROVE  table[r].position = Rank(r) /\ GetPosition(r) = Rank(r)
<1> DEFINE S == Queued(table)
           after == ReorderOrder(table)
           U == UpTo(S, after, r)
           B == {s \in S :
                   \/ table[s].priority > table[r].priority
                   \/ table[s].priority = table[r].priority
                      /\ table[s].position < table[r].position}
<1>1. table \in [Rows -> RowShape \cup {Absent}]
  BY DEF TableInv, TableTyped
<1>2. IsFiniteSet(S) /\ Cardinality(S) \in Nat /\ IsOrder(S, after) /\ S \in SUBSET Rows
  BY <1>1, Ranked DEF Queued
<1>3. \A s \in S : s \in Int /\ table[s].priority \in Int
  <2>1. \A s \in Rows : s \in Int
    BY TableFacts DEF Rows
  <2>2. \A s \in S : table[s] \in RowShape
    BY <1>1 DEF Queued
  <2>3. Priorities \subseteq Int
    BY TableFacts
  <2>4. QED  BY <1>2, <2>1, <2>2, <2>3 DEF RowShape
<1>4. \A s, q \in S : q \in after[s] <=>
         \/ table[s].priority > table[q].priority
         \/ (table[s].priority = table[q].priority /\ s < q)
  BY <1>2 DEF ReorderOrder
<1>5. U = {s \in S :
               \/ table[s].priority > table[r].priority
               \/ table[s].priority = table[r].priority /\ s <= r}
  BY <1>3, <1>4 DEF UpTo
<1>6. Rank(r) = Cardinality(U) /\ table[r].position = Cardinality(U)
  BY <1>5 DEF Rank, InPlace, NewPosition, Place
<1>7. \A s \in S : table[s].position = Place(S, after, s)
  BY DEF InPlace, NewPosition
<1>8. \A s \in S :
         /\ Place(S, after, s) \in Int
         /\ r \in after[s] => Place(S, after, s) < Place(S, after, r)
         /\ s \in after[r] => Place(S, after, r) < Place(S, after, s)
  <2> HIDE DEF S, after
  <2>1. \A i \in S : Place(S, after, i) \in 1..Cardinality(S)
    BY <1>2, UpToGrows
  <2>2. QED  BY <1>2, <2>1, UpToGrows DEF S
<1>9. B = U \ {r}
  <2> SUFFICES ASSUME NEW s \in S PROVE s \in B <=> s \in U /\ s # r
    BY DEF UpTo
  <2>1. s \in U <=> s = r \/ r \in after[s]
    BY DEF UpTo
  <2> DEFINE ps == table[s].position  pr == table[r].position
             qs == table[s].priority  qr == table[r].priority
  <2>2. s \in B <=> qs > qr \/ (qs = qr /\ ps < pr)
    OBVIOUS
  <2>3. r \in after[s] <=> qs > qr \/ (qs = qr /\ s < r)
    BY <1>4
  <2>4. s \in after[r] <=> qr > qs \/ (qr = qs /\ r < s)
    BY <1>4
  <2>5. ps \in Int /\ pr \in Int /\ (r \in after[s] => ps < pr) /\ (s \in after[r] => pr < ps)
    <3>1. ps = Place(S, after, s) /\ pr = Place(S, after, r)
      BY <1>7
    <3> HIDE DEF ps, pr, after, S
    <3>2. s \in S /\ r \in S
      BY DEF S
    <3>3. QED  BY <1>8, <3>1, <3>2
  <2>6. s \in Int /\ r \in Int /\ qs \in Int /\ qr \in Int /\ (s = r => ps = pr)
    BY <1>3
  <2> HIDE DEF ps, pr, qs, qr, B, U, after
  <2>7. QED  BY <2>1, <2>2, <2>3, <2>4, <2>5, <2>6
<1>10. GetPosition(r) = Cardinality(B) + 1
  BY DEF GetPosition
<1>11. r \in U /\ U \in SUBSET S
  BY DEF UpTo
<1> HIDE DEF U, B, S
<1>12. IsFiniteSet(U) /\ Cardinality(U) \in Nat /\ Cardinality(U \ {r}) = Cardinality(U) - 1
  BY <1>2, <1>11, FS_Subset, FS_CardinalityType, FS_RemoveElement
<1>13. QED  BY <1>6, <1>9, <1>10, <1>12

(* One reorder that no other write disturbed puts every position right,     *)
(* however far out of step interleaved calls had left them.                 *)
THEOREM ReordersHeal == TableSpec => []ReorderHeals
<1>1. TableInv => ReorderHeals
  BY PlacesAreRanks DEF ReorderHeals, TableInv
<1>2. QED  BY <1>1, TableInvariant, PTL

-----------------------------------------------------------------------------
(* The parts together.                                                      *)

PartsInv ==
    /\ TokenInv /\ TokenBounds /\ StreamInv /\ TableInv
    /\ JobInv /\ JobBounds /\ AuditInv

(* A part that does not move keeps its invariant too.                       *)
LEMMA PartsMove ==
    [PartsNext]_partsVars =>
        /\ [TokenNext]_tokenVars /\ [StreamNext]_streamVars /\ [TableNext]_tableVars
        /\ [JobNext]_jobVars /\ [AuditNext]_auditVars
  BY DEF PartsNext, partsVars

LEMMA PartsStart == PartsInit => PartsInv
  BY TokenInitIsSound, TokenInitFits, StreamInitIsSound, TableInitSound, JobInitIsSound,
     JobInitFits, AuditInitIsSound
  DEF PartsInit, PartsInv

LEMMA PartsStep == PartsInv /\ [PartsNext]_partsVars => PartsInv'
  BY PartsMove, TokenStepKeeps, TokenStepFits, StreamStepKeeps, StepKeepsTableInv,
     StepKeepsJobInv, JobStepFits, StepKeepsAuditInv
  DEF PartsInv

LEMMA PartsTypesHold == PartsInv => PartsTypeOK
  BY TokenTypesHold, StreamTypesHold, TableTypesHold, JobTypesHold, AuditTypesHold
  DEF PartsInv, PartsTypeOK

(* Each part behaves as it does alone: what is proved of its own            *)
(* specification holds of it in the composition.                            *)
THEOREM PartsBehave ==
    PartsSpec => TokenSpec /\ StreamSpec /\ TableSpec /\ JobSpec /\ AuditSpec
  <1>1. PartsInit => TokenInit /\ StreamInit /\ TableInit /\ JobInit /\ AuditInit
    BY DEF PartsInit
  <1>2. QED
    BY <1>1, PartsMove, PTL DEF PartsSpec, TokenSpec, StreamSpec, TableSpec, JobSpec, AuditSpec

(* Whichever part moves, every part's state is of its shape.                *)
THEOREM PartsTypesCorrect == PartsSpec => []PartsTypeOK
  BY PartsStart, PartsStep, PartsTypesHold, PTL DEF PartsSpec
=============================================================================
