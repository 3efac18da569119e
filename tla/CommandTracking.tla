-------------------------- MODULE CommandTracking --------------------------
(***************************************************************************)
(* The MessageRouter's record of which dashboard connection asked for      *)
(* which command, by which the answers find their way back: three maps     *)
(* that registering, cleaning up and expiring have to keep in step.        *)
(***************************************************************************)
EXTENDS Naturals, FiniteSets

CONSTANTS Commands, Dashboards, NoDashboard

VARIABLES
    commandToDashboard,   \* NoDashboard when the map has no entry
    dashboardCommands,    \* {} when the map has no entry
    commandTimestamps     \* "none", or whether the command's TTL is over

trackVars == <<commandToDashboard, dashboardCommands, commandTimestamps>>

TrackTypeOK ==
    /\ commandToDashboard \in [Commands -> Dashboards \cup {NoDashboard}]
    /\ dashboardCommands \in [Dashboards -> SUBSET Commands]
    /\ commandTimestamps \in [Commands -> {"none", "live", "expired"}]

TrackInit ==
    /\ commandToDashboard = [c \in Commands |-> NoDashboard]
    /\ dashboardCommands = [d \in Dashboards |-> {}]
    /\ commandTimestamps = [c \in Commands |-> "none"]

Tracked(c) == commandToDashboard[c] # NoDashboard

\* Slip: the timestamp is left out.
RegisterUntimed(c, d) ==
    /\ commandToDashboard' = [commandToDashboard EXCEPT ![c] = d]
    /\ dashboardCommands' = [dashboardCommands EXCEPT ![d] = @ \cup {c}]
    /\ UNCHANGED commandTimestamps

(* A second registration of the same command overwrites the first one's     *)
(* entry, and leaves the command in the first dashboard's set.              *)
RegisterCommandForDashboard(c, d) ==
    /\ commandToDashboard' = [commandToDashboard EXCEPT ![c] = d]
    /\ dashboardCommands' = [dashboardCommands EXCEPT ![d] = @ \cup {c}]
    /\ commandTimestamps' = [commandTimestamps EXCEPT ![c] = "live"]

\* Slip: the dashboard's own set is dropped, the commands' entries are not.
CleanupOwnSetOnly(d) ==
    /\ dashboardCommands' = [dashboardCommands EXCEPT ![d] = {}]
    /\ UNCHANGED <<commandToDashboard, commandTimestamps>>

(* Every command of the dashboard's set loses its entry, whoever that entry *)
(* names by now; the timestamps stay.                                       *)
CleanupDashboardCommands(d) ==
    /\ commandToDashboard' =
         [c \in Commands |-> IF c \in dashboardCommands[d]
                             THEN NoDashboard ELSE commandToDashboard[c]]
    /\ dashboardCommands' = [dashboardCommands EXCEPT ![d] = {}]
    /\ UNCHANGED commandTimestamps

(* cleanupCommand for each command of C: a command without a dashboard is   *)
(* left as it is, timestamp included.                                       *)
CleanupCommands(C) ==
    LET known == {c \in C : Tracked(c)} IN
    /\ commandToDashboard' =
         [c \in Commands |-> IF c \in known THEN NoDashboard
                                            ELSE commandToDashboard[c]]
    /\ dashboardCommands' =
         [d \in Dashboards |->
            dashboardCommands[d] \ {c \in known : commandToDashboard[c] = d}]
    /\ commandTimestamps' =
         [c \in Commands |-> IF c \in known THEN "none"
                                            ELSE commandTimestamps[c]]

\* Slip: a request that cannot be routed stays registered.
RegisterAndLeave(c, d) == RegisterCommandForDashboard(c, d)

(* A request that cannot be routed is registered first and cleaned up in    *)
(* the same step: the command is forgotten, even if it had been another's.  *)
RegisterAndCleanup(c, d) ==
    /\ commandToDashboard' = [commandToDashboard EXCEPT ![c] = NoDashboard]
    /\ dashboardCommands' = [dashboardCommands EXCEPT ![d] = @ \ {c}]
    /\ commandTimestamps' = [commandTimestamps EXCEPT ![c] = "none"]

Expired == {c \in Commands : commandTimestamps[c] = "expired"}

CleanupExpiredCommands == Expired # {} /\ CleanupCommands(Expired)

TimeToLivePasses(c) ==
    /\ commandTimestamps[c] = "live"
    /\ commandTimestamps' = [commandTimestamps EXCEPT ![c] = "expired"]
    /\ UNCHANGED <<commandToDashboard, dashboardCommands>>

-----------------------------------------------------------------------------
(* Every command that has an entry is in the set of the dashboard the entry *)
(* names, and has a timestamp: so the dashboard's disconnect and the TTL    *)
(* sweep both find it, and no entry outlives both.                          *)
TrackedIsReachable ==
    \A c \in Commands : Tracked(c) =>
        /\ c \in dashboardCommands[commandToDashboard[c]]
        /\ commandTimestamps[c] # "none"
=============================================================================
