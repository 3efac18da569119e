-------------------------- MODULE RouterPromises ---------------------------
(***************************************************************************)
(* What specs/004-fix-ons-5 and the comments of the code promise of the    *)
(* router, and the code of MessageRouter.tla does not keep.  Each of these *)
(* is the property of a run that ends in a counterexample.                 *)
(***************************************************************************)
EXTENDS MessageRouter

CycleStep     == stats'.failed + stats'.sent > stats.failed + stats.sent

(* routeToSpecificDashboard: a message to one dashboard connection is not   *)
(* given up while that connection is authenticated, open and healthy.       *)
InitiatorReached ==
    [][\A i \in DOMAIN messageQueue, d \in DashConns :
          /\ messageQueue[i].route = ToDashboard(d)
          /\ GoneUnsent(i) /\ CycleStep /\ ~TimedOut(i)
          => ~(conn[d].auth /\ IsConnectionHealthy(d))]_vars

(* FR-004: an emergency stop that goes out reaches every agent connection   *)
(* that is authenticated and open.                                          *)
EmergencyStopReachesAllAgents ==
    [][\A i \in DOMAIN messageQueue, c \in AgentConns :
          /\ messageQueue[i].route = ToAllAgents
          /\ \E x \in AgentConns : SentNow(i, x)
          /\ conn[c].inPool /\ conn[c].auth /\ conn[c].sock = "open"
          => SentNow(i, c)]_vars
=============================================================================
