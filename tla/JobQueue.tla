------------------------------ MODULE JobQueue ------------------------------
(***************************************************************************)
(* packages/command-queue: QueueManager (queue.ts), which adds, removes    *)
(* and interrupts jobs, and CommandQueueProcessor (processor.ts), whose    *)
(* handler runs them on agents.  The job states, the lock of an active     *)
(* job, retries and pausing are BullMQ's (4.18): a job that waits and has  *)
(* a priority is "prioritized", which is not "waiting" to BullMQ.  A job   *)
(* that is at work is worked at with the data it had when it was fetched.  *)
(***************************************************************************)
EXTENDS Naturals, FiniteSets

CONSTANTS
    Jobs,
    Unranked,    \* those added with a negative priority, which becomes 0: none
    JobAgents,
    MaxJobs,     \* maxQueueSize: 1000
    MaxAttempts, \* 3
    Concurrency  \* 10

ASSUME JobQueueAssumption ==
    /\ MaxJobs \in Nat /\ MaxAttempts \in Nat \ {0} /\ Concurrency \in Nat \ {0}
    /\ IsFiniteSet(Jobs) /\ Unranked \subseteq Jobs /\ "none" \notin JobAgents

VARIABLES
    job,         \* the jobs in Redis
    running,     \* the agent of each handler that awaits the processor
    agent,       \* agentAvailability: available, busy or no record; load and scores left out
    interrupt,   \* how far interruptCommand has come with each job
    paused       \* the queue is paused, which Redis keeps

jobVars == <<job, running, agent, interrupt, paused>>

NoAgent == "none"

JobInit ==
    /\ job = [j \in Jobs |-> [state |-> "new", wants |-> NoAgent, attempts |-> 0, flagged |-> FALSE]]
    /\ running = [j \in Jobs |-> NoAgent]
    /\ agent = [a \in JobAgents |-> "gone"]
    /\ interrupt = [j \in Jobs |-> "no"]
    /\ paused = FALSE

InState(states) == {j \in Jobs : job[j].state \in states}
QueueSize == Cardinality(InState({"waiting", "active", "delayed"}))

\* Where a job waits for a worker.
Lane(j) == IF j \in Unranked THEN "waiting" ELSE "prioritized"

Slots == Concurrency - Cardinality(InState({"active"}))
IsRunning(j) == running[j] # NoAgent

-----------------------------------------------------------------------------
(* QueueManager.                                                            *)

\* A count that Redis does not answer reads as zero, which is left out.
IsFull == QueueSize >= MaxJobs

AddCommand(j) ==
    /\ job[j].state = "new" /\ ~IsFull
    /\ \E a \in JobAgents \cup {NoAgent} :
          job' = [job EXCEPT ![j].state = "adding", ![j].wants = a]
    /\ UNCHANGED <<running, agent, interrupt, paused>>

\* queue.add; its delay option, which only example-usage.ts uses, is left out.
Added(j) ==
    /\ job[j].state = "adding"
    /\ job' = [job EXCEPT ![j].state = Lane(j)]
    /\ UNCHANGED <<running, agent, interrupt, paused>>

\* getCommand asks for five lists; the prioritized jobs are in none of them.
Listed(j) == job[j].state \in {"waiting", "active", "completed", "failed", "delayed"}

Removable(j) == job[j].state # "active"

(* removeCommand looks the job up and removes it, which throws while the    *)
(* job's lock is held.  What was found may wait for its retry by then.      *)
RemoveCommand(j) ==
    /\ Removable(j)
    /\ Listed(j) \/ (job[j].state = "prioritized" /\ job[j].attempts > 0)
    /\ job' = [job EXCEPT ![j].state = "removed"]
    /\ UNCHANGED <<running, agent, interrupt, paused>>

(* interruptCommand looks the job up and awaits isActive, then isWaiting: a *)
(* job that is fetched in between is found to be neither.                   *)
Interrupt(j) ==
    /\ interrupt[j] = "no" /\ Listed(j)
    /\ interrupt' = [interrupt EXCEPT ![j] =
                       IF job[j].state = "active" THEN "active" ELSE "inactive"]
    /\ UNCHANGED <<job, running, agent, paused>>

AsksIsWaiting(j) ==
    /\ \/ interrupt[j] = "inactive"
          /\ interrupt' = [interrupt EXCEPT ![j] =
                             IF job[j].state = "waiting" THEN "remove" ELSE "refused"]
       \/ interrupt[j] = "active"
          /\ \E way \in {"remove", "flag"} : interrupt' = [interrupt EXCEPT ![j] = way]
    /\ UNCHANGED <<job, running, agent, paused>>

\* Slip: an interruption that cannot remove the job says it did.
RemovedOrNot(j) == "interrupted"

RemoveResult(j) == IF Removable(j) THEN "interrupted" ELSE "refused"

(* job.remove() throws while a worker holds the job's lock: with force, for *)
(* a waiting job that was fetched meanwhile, and after the time limit.      *)
RemoveJob(j) ==
    /\ interrupt[j] = "remove"
    /\ job' = IF Removable(j) THEN [job EXCEPT ![j].state = "removed"] ELSE job
    /\ interrupt' = [interrupt EXCEPT ![j] = RemoveResult(j)]
    /\ UNCHANGED <<running, agent, paused>>

FlagJob(j) ==
    /\ interrupt[j] = "flag"
    /\ job' = [job EXCEPT ![j].flagged = TRUE]
    /\ interrupt' = [interrupt EXCEPT ![j] = "wait"]
    /\ UNCHANGED <<running, agent, paused>>

\* The handler does not look at the flag: a job that completes counts too.
InterruptFinished(j) ==
    /\ interrupt[j] = "wait" /\ job[j].state = "completed"
    /\ interrupt' = [interrupt EXCEPT ![j] = "interrupted"]
    /\ UNCHANGED <<job, running, agent, paused>>

InterruptTimesOut(j) ==
    /\ interrupt[j] = "wait" /\ job[j].state # "completed"
    /\ interrupt' = [interrupt EXCEPT ![j] = "remove"]
    /\ UNCHANGED <<job, running, agent, paused>>

(* shutdown() pauses the queue, in Redis; no later initialize() resumes it. *)
Shutdown ==
    /\ ~paused /\ paused' = TRUE
    /\ UNCHANGED <<job, running, agent, interrupt>>

Resume ==
    /\ paused /\ paused' = FALSE
    /\ UNCHANGED <<job, running, agent, interrupt>>

-----------------------------------------------------------------------------
(* CommandQueueProcessor.                                                   *)

UpdateAgent(a) ==
    /\ agent' = [agent EXCEPT ![a] = "free"]
    /\ UNCHANGED <<job, running, interrupt, paused>>

RemoveAgent(a) ==
    /\ agent' = [agent EXCEPT ![a] = "gone"]
    /\ UNCHANGED <<job, running, interrupt, paused>>

Retried(j) == IF job[j].attempts + 1 < MaxAttempts THEN "delayed" ELSE "failed"

(* The error path frees the agent the job asked for or was given, whether   *)
(* or not this job had it; its record is the one of now.                    *)
FreedOnError(a) ==
    IF a # NoAgent /\ agent[a] # "gone" THEN [agent EXCEPT ![a] = "free"] ELSE agent

JobFails(j, a) ==
    /\ agent' = FreedOnError(a)
    /\ job' = [job EXCEPT ![j].state = Retried(j), ![j].attempts = @ + 1]
    /\ running' = [running EXCEPT ![j] = NoAgent]

\* Slip: a job whose agent is not there waits for it.
CannotRunFlagged(j) == job[j].flagged

CannotRun(j) ==
    \/ job[j].flagged
    \/ job[j].wants # NoAgent /\ agent[job[j].wants] # "free"
    \/ job[j].wants = NoAgent /\ \A a \in JobAgents : agent[a] # "free"

\* The handler up to the await of the processor; the best of the available
\* agents depends on scores the model leaves out.
Fetch(j) ==
    /\ job[j].state = Lane(j) /\ ~paused /\ Slots > 0
    /\ \/ CannotRun(j) /\ JobFails(j, job[j].wants)
       \/ /\ ~CannotRun(j)
          /\ \E a \in JobAgents :
                /\ job[j].wants \in {a, NoAgent} /\ agent[a] = "free"
                /\ agent' = [agent EXCEPT ![a] = "busy"]
                /\ running' = [running EXCEPT ![j] = a]
          /\ job' = [job EXCEPT ![j].state = "active"]
    /\ UNCHANGED <<interrupt, paused>>

(* Done, or failed on the agent (which is a result too): the agent's record *)
(* is written as it was before the job, also when it is gone by now.  An    *)
(* agent that does not answer is waited for without a limit of time.        *)
Processed(j) ==
    /\ IsRunning(j)
    /\ agent' = [agent EXCEPT ![running[j]] = "free"]
    /\ job' = [job EXCEPT ![j].state = "completed"]
    /\ running' = [running EXCEPT ![j] = NoAgent]
    /\ UNCHANGED <<interrupt, paused>>

ProcessorThrows(j) ==
    /\ IsRunning(j)
    /\ JobFails(j, running[j])
    /\ UNCHANGED <<interrupt, paused>>

BackoffOver(j) ==
    /\ job[j].state = "delayed"
    /\ job' = [job EXCEPT ![j].state = Lane(j)]
    /\ UNCHANGED <<running, agent, interrupt, paused>>

HandlerEnds(j) == Processed(j) \/ ProcessorThrows(j)

InterruptStep(j) ==
    AsksIsWaiting(j) \/ RemoveJob(j) \/ FlagJob(j) \/ InterruptFinished(j) \/ InterruptTimesOut(j)

JobNext ==
    \/ \E j \in Jobs :
          \/ AddCommand(j) \/ Added(j) \/ Fetch(j) \/ HandlerEnds(j) \/ BackoffOver(j)
          \/ RemoveCommand(j) \/ Interrupt(j) \/ InterruptStep(j)
    \/ \E a \in JobAgents : UpdateAgent(a) \/ RemoveAgent(a)
    \/ Shutdown \/ Resume

JobSpec == JobInit /\ [][JobNext]_jobVars

(* Redis answers and serves the worker, and timers fire.  Nothing makes a   *)
(* handler end: that is for its agent to answer.                            *)
FairJobSpec ==
    /\ JobSpec
    /\ \A j \in Jobs : /\ SF_jobVars(Fetch(j))
                       /\ WF_jobVars(BackoffOver(j)) /\ WF_jobVars(Added(j))

-----------------------------------------------------------------------------
JobTypeOK ==
    /\ job \in [Jobs -> [state : {"new", "adding", "waiting", "prioritized", "active", "delayed",
                                  "completed", "failed", "removed"},
                         wants : JobAgents \cup {NoAgent}, attempts : 0..MaxAttempts,
                         flagged : BOOLEAN]]
    /\ \A j \in Jobs :
          /\ running[j] \in JobAgents \cup {NoAgent}
          /\ IsRunning(j) <=> job[j].state = "active"
    /\ agent \in [JobAgents -> {"gone", "free", "busy"}]
    /\ interrupt \in [Jobs -> {"no", "active", "inactive", "remove", "flag", "wait",
                               "refused", "interrupted"}]
    /\ paused \in BOOLEAN

(* What interruptCommand reports as interrupted is over: no later fetch,    *)
(* retry or late answer of the processor has anything to do with it.        *)
InterruptedIsOver ==
    \A j \in Jobs : interrupt[j] = "interrupted" =>
        job[j].state \in {"completed", "failed", "removed"} /\ ~IsRunning(j)

(* A job that was added comes to an end, by way of its retries, whatever    *)
(* happens to the agents: if its own agent answers whenever it is at work,  *)
(* and the jobs whose agents do not answer leave the worker a slot (and the *)
(* queue does not stay paused).  The agent another job holds for good costs *)
(* it attempts, not its end.                                                *)
JobsEnd ==
    \A j \in Jobs :
        []<>~IsRunning(j) /\ []<>(Slots > 0) =>
            (job[j].state = Lane(j) ~> \/ job[j].state \in {"completed", "failed", "removed"}
                                       \/ paused)
=============================================================================
