---------------------------- MODULE TokenManager ----------------------------
(***************************************************************************)
(* TokenManager (token-manager.ts): a record per authenticated connection, *)
(* refreshed in cycles by an interval that does not wait for the cycle     *)
(* before.  The handlers register a token after the await of its           *)
(* validation and unregister it when the socket closes.                    *)
(*                                                                         *)
(* Time runs in intervals of refreshIntervalMs (60 s); what is left of a   *)
(* token is the number of intervals that fire until it has expired,        *)
(* negative from then on.                                                  *)
(***************************************************************************)
EXTENDS Integers, FiniteSets, FiniteSetsExt

CONSTANTS
    TokenConns,         \* connections of dashboards and agents
    RefreshThreshold,   \* refreshThresholdMs, in intervals: 5
    MaxRefreshAttempts, \* 3
    BatchSize,          \* 5
    Lifetime,           \* what is left of a token the service has just issued
    KeepExpired,        \* an expired record is kept that long: 60
    MaxInits,           \* bound of the model: initialisations in all
    MaxCycles           \* bound of the model: cycles that wait at a time

ASSUME TokenAssumption ==
    /\ IsFiniteSet(TokenConns)
    /\ RefreshThreshold \in Nat \ {0} /\ MaxRefreshAttempts \in Nat \ {0}
    /\ BatchSize \in Nat \ {0} /\ KeepExpired \in Nat
    /\ Lifetime \in Nat /\ Lifetime > RefreshThreshold
    /\ MaxInits \in Nat \ {0} /\ MaxCycles \in Nat

VARIABLES
    tokenSock,    \* the socket of each connection
    validating,   \* initialisations that await the validation of the token
    registered,   \* how often a connection was registered: names its record
    lateInit,     \* history: a validation came back after the socket closed
    tokens,       \* the records, or NoToken
    cycles        \* refreshes a cycle waits for, and the connections to come

tokenVars == <<tokenSock, validating, registered, lateInit, tokens, cycles>>

\* given: expiresAt - lastRefreshAt, what was left when it was recorded.
NoToken == [left |-> 0, given |-> 0, attempts |-> 0, refreshing |-> FALSE, gen |-> 0]

Recorded(left, gen) ==
    [left |-> left, given |-> left, attempts |-> 0, refreshing |-> FALSE, gen |-> gen]

Cycles == 1..MaxCycles
NoCycle == [waiting |-> {}, rest |-> {}]

TokenInit ==
    /\ tokenSock = [c \in TokenConns |-> "open"]
    /\ validating = [c \in TokenConns |-> 0]
    /\ registered = [c \in TokenConns |-> 0]
    /\ lateInit = [c \in TokenConns |-> FALSE]
    /\ tokens = [c \in TokenConns |-> NoToken]
    /\ cycles = [i \in Cycles |-> NoCycle]

HasToken(c) == tokens[c] # NoToken

-----------------------------------------------------------------------------
(* The handlers.                                                            *)

\* The initialisations so far, numbered for each connection: their bound.
Inits == {p \in TokenConns \X (1..MaxInits) : p[2] <= registered[p[1]] + validating[p[1]]}

InitArrives(c) ==
    /\ tokenSock[c] = "open"
    /\ Cardinality(Inits) < MaxInits
    /\ validating' = [validating EXCEPT ![c] = @ + 1]
    /\ UNCHANGED <<tokenSock, registered, lateInit, tokens, cycles>>

\* Or accepted, but of a token without expiresAt, which is not registered.
InitRefused(c) ==
    /\ validating[c] > 0
    /\ validating' = [validating EXCEPT ![c] = @ - 1]
    /\ UNCHANGED <<tokenSock, registered, lateInit, tokens, cycles>>

(* The handler goes on after its await without looking at the socket, and a *)
(* second registration replaces the record of the first.  The token is the  *)
(* one the client presented, with whatever is left of it: it may lapse      *)
(* before the next interval, or have lapsed while it was validated.         *)
RegisterToken(c) ==
    /\ validating[c] > 0
    /\ validating' = [validating EXCEPT ![c] = @ - 1]
    /\ registered' = [registered EXCEPT ![c] = @ + 1]
    /\ lateInit' = [lateInit EXCEPT ![c] = @ \/ tokenSock[c] = "closed"]
    /\ \E left \in 0..Lifetime :
          tokens' = [tokens EXCEPT ![c] = Recorded(left, registered[c] + 1)]
    /\ UNCHANGED <<tokenSock, cycles>>

UnregisterToken(c) ==
    /\ tokenSock[c] = "open"
    /\ tokenSock' = [tokenSock EXCEPT ![c] = "closed"]
    /\ tokens' = [tokens EXCEPT ![c] = NoToken]
    /\ UNCHANGED <<validating, registered, lateInit, cycles>>

-----------------------------------------------------------------------------
(* The cycles.                                                              *)

\* Slips: one attempt too many; the flag is not looked at.
MayRefreshOnceMore(t) ==
    t # NoToken /\ ~t.refreshing /\ t.attempts <= MaxRefreshAttempts

MayRefreshTwice(t) == t # NoToken /\ t.attempts < MaxRefreshAttempts

MayRefresh(t) == t # NoToken /\ ~t.refreshing /\ t.attempts < MaxRefreshAttempts

(* refreshToken of a whole batch up to the await, which those that may not  *)
(* be refreshed never reach.                                                *)
Started(batch, toks) == {c \in batch : MayRefresh(toks[c])}

StartRefreshes(batch, toks) ==
    tokens' = [c \in TokenConns |->
                 IF c \in Started(batch, toks)
                 THEN [toks[c] EXCEPT !.refreshing = TRUE, !.attempts = @ + 1]
                 ELSE toks[c]]

Batches(conns) ==
    kSubset(IF Cardinality(conns) < BatchSize THEN Cardinality(conns) ELSE BatchSize, conns)

\* The next batch of a cycle, in the order of the map, which is not kept.
NextBatch(i, conns, toks) ==
    \E batch \in Batches(conns) :
       /\ StartRefreshes(batch, toks)
       /\ cycles' = [cycles EXCEPT ![i] =
                       [waiting |-> {<<c, toks[c].gen>> : c \in Started(batch, toks)},
                        rest |-> conns \ batch]]

Free(i) == cycles[i] = NoCycle

ContinueCycle(i) ==
    /\ cycles[i].waiting = {} /\ cycles[i].rest # {}
    /\ NextBatch(i, cycles[i].rest, tokens)
    /\ UNCHANGED <<tokenSock, validating, registered, lateInit>>

\* Slip: the record of a connection that has gone is put back.
UpdateOrInsert(c, gen) == Recorded(Lifetime, gen)

(* updateToken: also when the record is another one by now; a record that   *)
(* is gone stays so.                                                        *)
UpdateToken(c, gen) ==
    IF HasToken(c) THEN Recorded(Lifetime, tokens[c].gen) ELSE NoToken

\* The error path clears the flag of the record it started with.
RefreshFailed(c, gen) ==
    IF tokens[c].gen = gen THEN [tokens[c] EXCEPT !.refreshing = FALSE] ELSE tokens[c]

RefreshAnswered(i, c, gen) ==
    /\ <<c, gen>> \in cycles[i].waiting
    /\ cycles' = [cycles EXCEPT ![i].waiting = @ \ {<<c, gen>>}]
    /\ \/ tokens' = [tokens EXCEPT ![c] = UpdateToken(c, gen)]
       \/ tokens' = [tokens EXCEPT ![c] = RefreshFailed(c, gen)]
    /\ UNCHANGED <<tokenSock, validating, registered, lateInit>>

Aged(t) ==
    IF t = NoToken \/ t.left - 1 < 0 - KeepExpired THEN NoToken
    ELSE [t EXCEPT !.left = @ - 1]

\* Slip: the threshold itself does not count.
ExpiringLate(toks) ==
    {c \in TokenConns : toks[c] # NoToken /\ toks[c].left \in 1..(RefreshThreshold - 1)}

Expiring(toks) ==
    {c \in TokenConns : toks[c] # NoToken /\ toks[c].left \in 1..RefreshThreshold}

(* An interval passes and fires: clean-up, then the first batch.  Pauses    *)
(* between batches are over before the next interval.                       *)
RefreshInterval(i) ==
    LET aged == [c \in TokenConns |-> Aged(tokens[c])] IN
    /\ Free(i) /\ \A j \in Cycles : j < i => ~Free(j)
    /\ ~\E j \in Cycles : cycles[j].waiting = {} /\ cycles[j].rest # {}
    /\ NextBatch(i, Expiring(aged), aged)
    /\ UNCHANGED <<tokenSock, validating, registered, lateInit>>

RefreshStep ==
    \/ \E i \in Cycles, c \in TokenConns, gen \in 1..MaxInits : RefreshAnswered(i, c, gen)
    \/ \E i \in Cycles : ContinueCycle(i)

TokenNext ==
    \/ \E c \in TokenConns :
          InitArrives(c) \/ InitRefused(c) \/ RegisterToken(c) \/ UnregisterToken(c)
    \/ RefreshStep
    \/ \E i \in Cycles : RefreshInterval(i)

TokenSpec == TokenInit /\ [][TokenNext]_tokenVars

(* The authentication service answers or fails, and a cycle is gone on with. *)
FairTokenSpec == TokenSpec /\ WF_tokenVars(RefreshStep)

-----------------------------------------------------------------------------
TokenTypeOK ==
    /\ tokenSock \in [TokenConns -> {"open", "closed"}]
    /\ validating \in [TokenConns -> 0..MaxInits]
    /\ registered \in [TokenConns -> 0..MaxInits]
    /\ lateInit \in [TokenConns -> BOOLEAN]
    /\ tokens \in [TokenConns -> [left : (0 - KeepExpired)..Lifetime,
                                  given : 0..Lifetime, attempts : 0..MaxRefreshAttempts,
                                  refreshing : BOOLEAN, gen : 0..MaxInits]]
    /\ cycles \in [Cycles -> [waiting : SUBSET (TokenConns \X (1..MaxInits)),
                              rest : SUBSET TokenConns]]

(* A refresh token is spent by its use: although cycles overlap and answers *)
(* come late, a connection that was registered once never has two refreshes *)
(* in flight, and the flag is set exactly while one is.                     *)
InFlight(c) == {i \in Cycles : \E gen \in 1..MaxInits : <<c, gen>> \in cycles[i].waiting}

OneRefreshInFlight ==
    \A c \in TokenConns : registered[c] = 1 =>
        /\ Cardinality(InFlight(c)) <= 1
        /\ HasToken(c) => (tokens[c].refreshing <=> InFlight(c) # {})

(* No token expires untried while the service is slow to answer for others, *)
(* if there are no more connections than intervals at which it counts as    *)
(* expiring (the threshold, or fewer of a token that was presented late) or *)
(* than a batch takes, given one such interval: a cycle that has not come   *)
(* to the token by then waits for one of the others, and each for another   *)
(* one.  A connection that registers again takes the place of one more.     *)
Chances(t) == IF t.given > RefreshThreshold THEN RefreshThreshold ELSE t.given - 1

HasItsTurn(t) ==
    \/ Cardinality(TokenConns) <= Chances(t)
    \/ Cardinality(TokenConns) <= BatchSize /\ Chances(t) > 0

TriedBeforeExpiry ==
    (\A c \in TokenConns : registered[c] <= 1) =>
        \A c \in TokenConns :
            HasToken(c) /\ tokens[c].left <= 0 /\ HasItsTurn(tokens[c]) => tokens[c].attempts > 0

(* An answer that comes after the disconnect does not bring the record      *)
(* back: records without a connection come from validations that outlived   *)
(* their socket (and are then refreshed for as long as the service agrees). *)
RecordHasConnection ==
    \A c \in TokenConns : HasToken(c) /\ tokenSock[c] = "closed" => lateInit[c]
=============================================================================
