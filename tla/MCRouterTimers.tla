--------------------------- MODULE MCRouterTimers ---------------------------
(***************************************************************************)
(* The router with its timers, in two instances between which a behaviour  *)
(* chooses, so that the states are the sum of theirs: messages that        *)
(* compete for a queue of two and a batch of one, and two dashboards that  *)
(* ask for a command, one after the other.  Left out of each is input of   *)
(* the router (and the health of dashboards, which MCRouterQueue varies);  *)
(* the timers are free in both.                                            *)
(***************************************************************************)
EXTENDS MessageRouter

CONSTANTS a1, x1, d1, d2, c1

Terminals == {"terminals"}

VARIABLE busy   \* many messages about no command, from one dashboard

TimersInit == Init /\ busy \in BOOLEAN

Traffic == UNCHANGED <<tracking, conn[d2]>> /\ conn'[d1].subs = {}

(* The second request overwrites the first dashboard's entry, after the     *)
(* first was delivered or given up; from then on the agent's connection     *)
(* stays as it is.                                                          *)
Overwriting ==
    /\ nextId' <= Cardinality(requested'[c1]) /\ Cardinality(DOMAIN messageQueue') <= 1
    /\ UNCHANGED conn[x1]

\* One of the dashboards may subscribe, as long as nothing is requested.
Commanding ==
    /\ conn'[d2].subs = {} /\ (requested'[c1] = {} \/ conn'[d1].subs = {})
    /\ nextId' <= 1 \/ Overwriting

TimersNext ==
    /\ Next /\ UNCHANGED busy
    /\ IF busy THEN Traffic ELSE Commanding
    /\ \A d \in DashConns : conn'[d].healthy

(* The fairness of FairSpec.                                                *)
TimersSpec ==
    /\ TimersInit /\ [][TimersNext]_<<vars, busy>>
    /\ WF_vars(ProcessMessageQueue) /\ WF_vars(Tick)
    /\ WF_vars(Sweep) /\ \A c \in Commands : WF_vars(TimePasses(c))
=============================================================================
