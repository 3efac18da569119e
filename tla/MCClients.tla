----------------------------- MODULE MCClients -----------------------------
(***************************************************************************)
(* The clients of the server: the parts of the agent wrapper, and the      *)
(* browser's connection.  They share no state: in a behaviour one of them  *)
(* moves, as in MCServerParts.                                             *)
(***************************************************************************)
EXTENDS AgentClient, CommandExecutor, StreamCapture, DashboardClient, CliLogin

CONSTANT Parts

VARIABLE part

\* One initial state of the wrapper is enough where it does not move.
ClientsInit ==
    /\ part \in Parts /\ AgentInit /\ ExecutorInit /\ CaptureInit /\ DashInit /\ CliInit
    /\ part # "agent" => ~headless

clientsVars == <<part, agentVars, executorVars, captureVars, dashVars, cliVars>>

ClientsNext ==
    /\ UNCHANGED part
    /\ \/ part = "agent" /\ AgentNext /\ UNCHANGED <<executorVars, captureVars, dashVars, cliVars>>
       \/ part = "executor" /\ ExecutorNext /\ UNCHANGED <<agentVars, captureVars, dashVars, cliVars>>
       \/ part = "capture" /\ CaptureNext /\ UNCHANGED <<agentVars, executorVars, dashVars, cliVars>>
       \/ part = "dashboard" /\ DashNext /\ UNCHANGED <<agentVars, executorVars, captureVars, cliVars>>
       \/ part = "login" /\ CliNext /\ UNCHANGED <<agentVars, executorVars, captureVars, dashVars>>

(* The fairness of FairAgentSpec, FairExecutorSpec, FairCaptureSpec and     *)
(* FairDashSpec.                                                            *)
ClientsSpec ==
    /\ ClientsInit /\ [][ClientsNext]_clientsVars
    /\ \A o \in Managers : SF_agentVars(part = "agent" /\ ManagerStep(o) /\ AgentNext)
    /\ \A s \in Slots : WF_agentVars(part = "agent" /\ ConnectStep(s) /\ AgentNext)
    /\ \A r \in Runs : /\ WF_executorVars(part = "executor" /\ KillTimer(r))
                       /\ WF_executorVars(part = "executor" /\ TimeLimit(r))
                       /\ WF_executorVars(part = "executor" /\ ChildClosed(r))
                       /\ WF_executorVars(part = "executor" /\ EndsBySignal(r))
    /\ WF_captureVars(part = "capture" /\ HandleChunk)
    /\ WF_captureVars(part = "capture" /\ Destroy)
    /\ WF_dashVars(part = "dashboard" /\ ReconnectNow)
    /\ WF_dashVars(part = "dashboard" /\ RetryFires)
    /\ WF_dashVars(part = "dashboard" /\ BreakerRecovers)
    /\ WF_dashVars(part = "dashboard" /\ Watchdog)
    /\ SF_dashVars(part = "dashboard" /\ \E s \in DashSockets : DashOpens(s))
    /\ \A s \in DashSockets : WF_dashVars(part = "dashboard" /\ SocketEnds(s))

-----------------------------------------------------------------------------
(* Every part's state is of its shape: attempts and retries, queues, runs   *)
(* and buffered bytes stay within their limits.                             *)
ClientsTypeOK == AgentTypeOK /\ ExecutorTypeOK /\ CaptureTypeOK /\ DashTypeOK /\ CliTypeOK
=============================================================================
