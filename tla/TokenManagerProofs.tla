------------------------- MODULE TokenManagerProofs -------------------------
(***************************************************************************)
(* For any connections, batches, thresholds and numbers of attempts: no    *)
(* record outlives its connection but by a late validation, a token that   *)
(* was registered once is never refreshed twice at a time, and none        *)
(* expires untried that has its turn before it does.                       *)
(***************************************************************************)
EXTENDS TokenManager, FiniteSetTheorems, TLAPS

TokenRecord ==
    [left : Int, given : Nat, attempts : Nat, refreshing : BOOLEAN, gen : Nat]
CycleRecord == [waiting : SUBSET (TokenConns \X Nat), rest : SUBSET TokenConns]

(* The types without the bounds of the model.                               *)
TokenShape ==
    /\ tokenSock \in [TokenConns -> {"open", "closed"}]
    /\ validating \in [TokenConns -> Nat]
    /\ registered \in [TokenConns -> Nat]
    /\ lateInit \in [TokenConns -> BOOLEAN]
    /\ tokens \in [TokenConns -> TokenRecord]
    /\ cycles \in [Cycles -> CycleRecord]

(* A record is the one of the latest registration, and what cycles wait for *)
(* was started for this one or an earlier one.                              *)
RecordsAreNamed ==
    \A c \in TokenConns :
        /\ HasToken(c) => tokens[c].gen = registered[c] /\ registered[c] > 0
        /\ \A i \in Cycles, gen \in Nat :
              <<c, gen>> \in cycles[i].waiting => gen > 0 /\ gen <= registered[c]

(* Of a connection's only record, at most one cycle awaits a refresh, and   *)
(* the flag says whether one does.                                          *)
FirstIsSingle ==
    \A c \in TokenConns : registered[c] = 1 =>
        /\ \A i, j \in Cycles :
              <<c, 1>> \in cycles[i].waiting /\ <<c, 1>> \in cycles[j].waiting => i = j
        /\ HasToken(c) =>
              (tokens[c].refreshing <=> \E i \in Cycles : <<c, 1>> \in cycles[i].waiting)

TokenInv == TokenShape /\ RecordsAreNamed /\ FirstIsSingle /\ RecordHasConnection

-----------------------------------------------------------------------------
LEMMA TokenInitIsSound == TokenInit => TokenInv
  <1> SUFFICES ASSUME TokenInit PROVE TokenInv
    OBVIOUS
  <1>1. TokenShape
    BY DEF TokenInit, TokenShape, TokenRecord, CycleRecord, NoToken, NoCycle
  <1>2. RecordsAreNamed /\ RecordHasConnection
    BY DEF TokenInit, RecordsAreNamed, RecordHasConnection, HasToken, NoCycle
  <1>3. FirstIsSingle
    BY DEF TokenInit, FirstIsSingle
  <1>4. QED  BY <1>1, <1>2, <1>3 DEF TokenInv

(* The handlers' steps.                                                     *)
LEMMA ValidationKeeps ==
    ASSUME TokenInv, NEW c \in TokenConns, InitArrives(c) \/ InitRefused(c)
    PROVE  TokenInv'
  <1>1. UNCHANGED <<tokenSock, registered, lateInit, tokens, cycles>>
    BY DEF InitArrives, InitRefused
  <1>2. validating' \in [TokenConns -> Nat]
    <2>1. validating[c] \in Nat /\ validating \in [TokenConns -> Nat]
      BY DEF TokenInv, TokenShape
    <2>2. CASE InitArrives(c)
      <3>1. validating' = [validating EXCEPT ![c] = validating[c] + 1]
        BY <2>2 DEF InitArrives
      <3>2. QED  BY <2>1, <3>1
    <2>3. CASE InitRefused(c)
      <3>1. /\ validating[c] > 0
            /\ validating' = [validating EXCEPT ![c] = validating[c] - 1]
        BY <2>3 DEF InitRefused
      <3>2. QED  BY <2>1, <3>1
    <2>4. QED  BY <2>2, <2>3
  <1>3. QED
    BY <1>1, <1>2 DEF TokenInv, TokenShape, RecordsAreNamed, FirstIsSingle,
                      RecordHasConnection, HasToken

LEMMA NoTokenFields ==
    NoToken \in TokenRecord /\ ~NoToken.refreshing /\ NoToken.gen = 0
  BY DEF NoToken, TokenRecord

LEMMA RecordedFields ==
    ASSUME NEW left \in Nat, NEW gen \in Nat, gen > 0
    PROVE  /\ Recorded(left, gen) \in TokenRecord /\ Recorded(left, gen) # NoToken
           /\ Recorded(left, gen).gen = gen /\ ~Recorded(left, gen).refreshing
           /\ Recorded(left, gen).left = left /\ Recorded(left, gen).given = left
           /\ Recorded(left, gen).attempts = 0
  <1>1. Recorded(left, gen) = [left |-> left, given |-> left, attempts |-> 0,
                               refreshing |-> FALSE, gen |-> gen]
    BY DEF Recorded
  <1>2. Recorded(left, gen).gen = gen
    BY <1>1
  <1>3. Recorded(left, gen) # NoToken
    BY <1>2, NoTokenFields
  <1>4. Recorded(left, gen) \in TokenRecord
    BY <1>1 DEF TokenRecord
  <1>5. QED  BY <1>1, <1>2, <1>3, <1>4

LEMMA RegisterKeeps ==
    ASSUME TokenInv, NEW c \in TokenConns, RegisterToken(c)
    PROVE  TokenInv'
  <1>0. PICK left \in 0..Lifetime :
          tokens' = [tokens EXCEPT ![c] = Recorded(left, registered[c] + 1)]
    BY DEF RegisterToken
  <1> DEFINE new == Recorded(left, registered[c] + 1)
  <1>1. registered[c] \in Nat /\ validating[c] \in Nat /\ lateInit[c] \in BOOLEAN
    BY DEF TokenInv, TokenShape
  <1>2. /\ new \in TokenRecord /\ new.gen = registered[c] + 1 /\ ~new.refreshing
        /\ new # NoToken
    <2>1. registered[c] + 1 \in Nat /\ registered[c] + 1 > 0
      BY <1>1
    <2>2. left \in Nat
      BY TokenAssumption
    <2>3. QED  BY <2>1, <2>2, RecordedFields
  <1>3. /\ validating[c] > 0
        /\ validating' = [validating EXCEPT ![c] = validating[c] - 1]
        /\ registered' = [registered EXCEPT ![c] = registered[c] + 1]
        /\ lateInit' = [lateInit EXCEPT ![c] = lateInit[c] \/ tokenSock[c] = "closed"]
        /\ tokens' = [tokens EXCEPT ![c] = new]
        /\ UNCHANGED <<tokenSock, cycles>>
    BY <1>0 DEF RegisterToken
  <1> HIDE DEF new
  <1>4. TokenShape'
    <2>1. validating[c] - 1 \in Nat /\ registered[c] + 1 \in Nat
      BY <1>1, <1>3
    <2>2. QED  BY <1>2, <1>3, <2>1 DEF TokenInv, TokenShape
  <1>5. /\ registered'[c] = registered[c] + 1 /\ tokens'[c] = new
        /\ \A d \in TokenConns \ {c} :
              registered'[d] = registered[d] /\ tokens'[d] = tokens[d]
    BY <1>3 DEF TokenInv, TokenShape
  <1>6. RecordsAreNamed'
    BY <1>1, <1>2, <1>3, <1>5 DEF TokenInv, RecordsAreNamed, HasToken
  <1>7. FirstIsSingle'
    <2> SUFFICES ASSUME NEW d \in TokenConns, registered'[d] = 1
                 PROVE  /\ \A i, j \in Cycles :
                              <<d, 1>> \in cycles'[i].waiting /\ <<d, 1>> \in cycles'[j].waiting
                              => i = j
                        /\ HasToken(d)' => (tokens'[d].refreshing <=>
                              \E i \in Cycles : <<d, 1>> \in cycles'[i].waiting)
      BY DEF FirstIsSingle
    <2>1. CASE d = c
      <3>1. registered[c] = 0
        BY <1>1, <1>5, <2>1
      <3>2. \A i \in Cycles : <<c, 1>> \notin cycles[i].waiting
        BY <3>1 DEF TokenInv, RecordsAreNamed
      <3>3. QED  BY <1>2, <1>3, <1>5, <2>1, <3>2
    <2>2. CASE d # c
      BY <1>3, <1>5, <2>2 DEF TokenInv, FirstIsSingle, HasToken
    <2>3. QED  BY <2>1, <2>2
  <1>8. RecordHasConnection'
    <2>1. lateInit'[c] <=> (lateInit[c] \/ tokenSock[c] = "closed")
      BY <1>3 DEF TokenInv, TokenShape
    <2>2. \A d \in TokenConns \ {c} : lateInit'[d] = lateInit[d]
      BY <1>3 DEF TokenInv, TokenShape
    <2>3. QED  BY <1>3, <1>5, <2>1, <2>2 DEF TokenInv, RecordHasConnection, HasToken
  <1>9. QED  BY <1>4, <1>6, <1>7, <1>8 DEF TokenInv

LEMMA UnregisterKeeps ==
    ASSUME TokenInv, NEW c \in TokenConns, UnregisterToken(c)
    PROVE  TokenInv'
  <1>1. /\ tokenSock' = [tokenSock EXCEPT ![c] = "closed"]
        /\ tokens' = [tokens EXCEPT ![c] = NoToken]
        /\ UNCHANGED <<validating, registered, lateInit, cycles>>
    BY DEF UnregisterToken
  <1>2. TokenShape'
    BY <1>1 DEF TokenInv, TokenShape, TokenRecord, NoToken
  <1>3. /\ tokens'[c] = NoToken
        /\ \A d \in TokenConns \ {c} :
              tokens'[d] = tokens[d] /\ tokenSock'[d] = tokenSock[d]
    BY <1>1 DEF TokenInv, TokenShape
  <1>4. RecordsAreNamed' /\ RecordHasConnection'
    BY <1>1, <1>3 DEF TokenInv, RecordsAreNamed, RecordHasConnection, HasToken
  <1>5. FirstIsSingle'
    BY <1>1, <1>3 DEF TokenInv, FirstIsSingle, HasToken
  <1>6. QED  BY <1>2, <1>4, <1>5 DEF TokenInv

-----------------------------------------------------------------------------
(* Every batch comes from the connections it is taken from.                 *)
LEMMA BatchIsPart ==
    ASSUME NEW conns, NEW batch \in Batches(conns)
    PROVE  batch \subseteq conns
  BY DEF Batches, kSubset

\* Records that may have aged, as the next batch finds them.
NoYounger(toks) ==
    /\ toks \in [TokenConns -> TokenRecord]
    /\ \A c \in TokenConns :
          \/ toks[c] = NoToken
          \/ /\ HasToken(c)
             /\ toks[c].gen = tokens[c].gen /\ toks[c].refreshing = tokens[c].refreshing

LEMMA BatchKeeps ==
    ASSUME TokenInv, NEW i \in Cycles, cycles[i].waiting = {},
           NEW conns \in SUBSET TokenConns, NEW toks, NoYounger(toks),
           NextBatch(i, conns, toks),
           UNCHANGED <<tokenSock, validating, registered, lateInit>>
    PROVE  TokenInv'
  <1>1. PICK batch \in Batches(conns) :
          /\ StartRefreshes(batch, toks)
          /\ cycles' = [cycles EXCEPT ![i] =
                          [waiting |-> {<<c, toks[c].gen>> : c \in Started(batch, toks)},
                           rest |-> conns \ batch]]
    BY DEF NextBatch
  <1> DEFINE S == Started(batch, toks)
  <1>2. S \subseteq TokenConns /\ \A c \in S : MayRefresh(toks[c])
    BY BatchIsPart DEF Started
  <1>3. tokens' = [c \in TokenConns |->
                     IF c \in S THEN [toks[c] EXCEPT !.refreshing = TRUE,
                                                     !.attempts = toks[c].attempts + 1]
                     ELSE toks[c]]
    BY <1>1 DEF StartRefreshes
  <1>4. /\ cycles'[i].waiting = {<<c, toks[c].gen>> : c \in S}
        /\ cycles'[i].rest = conns \ batch
        /\ \A j \in Cycles \ {i} : cycles'[j] = cycles[j]
        /\ cycles' = [j \in Cycles |-> cycles'[j]]
        /\ cycles'[i] = [waiting |-> cycles'[i].waiting, rest |-> cycles'[i].rest]
    BY <1>1 DEF TokenInv, TokenShape
  <1> HIDE DEF S
  <1>5. ASSUME NEW c \in TokenConns
        PROVE  /\ tokens'[c] \in TokenRecord /\ tokens'[c].gen = toks[c].gen
               /\ c \in S => tokens'[c].refreshing = TRUE
               /\ c \notin S => tokens'[c] = toks[c]
    <2>1. toks[c] \in TokenRecord
      BY DEF NoYounger
    <2>2. CASE c \in S
      <3>1. toks[c].attempts + 1 \in Nat
        BY <2>1 DEF TokenRecord
      <3>2. QED  BY <1>3, <2>1, <2>2, <3>1 DEF TokenRecord
    <2>3. CASE c \notin S
      BY <1>3, <2>1, <2>3
    <2>4. QED  BY <2>2, <2>3
  <1>6. ASSUME NEW c \in S
        PROVE  /\ c \in TokenConns /\ toks[c] # NoToken /\ HasToken(c)
               /\ toks[c].gen = registered[c] /\ registered[c] > 0 /\ registered[c] \in Nat
               /\ ~tokens[c].refreshing
    <2>1. c \in TokenConns /\ toks[c] # NoToken /\ ~toks[c].refreshing
      BY <1>2, <1>6 DEF MayRefresh
    <2>2. /\ HasToken(c) /\ toks[c].gen = tokens[c].gen
          /\ toks[c].refreshing = tokens[c].refreshing
      BY <2>1 DEF NoYounger
    <2>3. QED  BY <2>1, <2>2 DEF TokenInv, RecordsAreNamed, TokenShape
  <1>7. TokenShape'
    <2>1. tokens' \in [TokenConns -> TokenRecord]
      BY <1>3, <1>5
    <2>2. cycles'[i] \in CycleRecord
      <3>1. cycles'[i].waiting \in SUBSET (TokenConns \X Nat)
        BY <1>4, <1>6
      <3>2. QED  BY <1>4, <3>1 DEF CycleRecord
    <2>3. cycles' \in [Cycles -> CycleRecord]
      BY <1>4, <2>2 DEF TokenInv, TokenShape
    <2>4. QED  BY <2>1, <2>3 DEF TokenInv, TokenShape
  <1>8. ASSUME NEW c \in TokenConns, NEW j \in Cycles, NEW gen,
               <<c, gen>> \in cycles'[j].waiting
        PROVE  \/ j = i /\ c \in S /\ gen = registered[c]
               \/ j # i /\ <<c, gen>> \in cycles[j].waiting
    BY <1>4, <1>6, <1>8
  <1>9. \A c \in TokenConns : HasToken(c)' => HasToken(c) /\ tokens'[c].gen = tokens[c].gen
    BY <1>5, <1>6 DEF NoYounger, HasToken
  <1>10. RecordsAreNamed'
    <2>1. ASSUME NEW c \in TokenConns, NEW j \in Cycles, NEW gen \in Nat,
                 <<c, gen>> \in cycles'[j].waiting
          PROVE  gen > 0 /\ gen <= registered'[c]
      BY <1>6, <1>8, <2>1 DEF TokenInv, RecordsAreNamed
    <2>2. QED  BY <1>9, <2>1 DEF TokenInv, RecordsAreNamed
  <1>11. FirstIsSingle'
    <2> SUFFICES ASSUME NEW c \in TokenConns, registered[c] = 1
                 PROVE  /\ \A j, k \in Cycles :
                              <<c, 1>> \in cycles'[j].waiting /\ <<c, 1>> \in cycles'[k].waiting
                              => j = k
                        /\ HasToken(c)' => (tokens'[c].refreshing <=>
                              \E j \in Cycles : <<c, 1>> \in cycles'[j].waiting)
      BY DEF FirstIsSingle
    <2>1. CASE c \in S
      <3>1. \A j \in Cycles : <<c, 1>> \notin cycles[j].waiting
        BY <1>6, <2>1 DEF TokenInv, FirstIsSingle
      <3>2. <<c, 1>> \in cycles'[i].waiting
        BY <1>4, <1>6, <2>1
      <3>3. \A j \in Cycles : <<c, 1>> \in cycles'[j].waiting => j = i
        BY <1>8, <3>1
      <3>4. QED  BY <1>5, <2>1, <3>2, <3>3
    <2>2. CASE c \notin S
      <3>1. \A j \in Cycles :
              <<c, 1>> \in cycles'[j].waiting <=> <<c, 1>> \in cycles[j].waiting
        BY <1>4, <1>8, <2>2
      <3>2. HasToken(c)' => HasToken(c) /\ tokens'[c].refreshing = tokens[c].refreshing
        BY <1>5, <2>2 DEF NoYounger, HasToken
      <3>3. QED  BY <3>1, <3>2 DEF TokenInv, FirstIsSingle
    <2>3. QED  BY <2>1, <2>2
  <1>12. RecordHasConnection'
    BY <1>9 DEF TokenInv, RecordHasConnection
  <1>13. QED  BY <1>7, <1>10, <1>11, <1>12 DEF TokenInv

LEMMA AgedIsOlder ==
    ASSUME TokenInv
    PROVE  NoYounger([c \in TokenConns |-> Aged(tokens[c])])
  <1>1. ASSUME NEW c \in TokenConns
        PROVE  /\ Aged(tokens[c]) \in TokenRecord
               /\ \/ Aged(tokens[c]) = NoToken
                  \/ /\ HasToken(c) /\ Aged(tokens[c]).gen = tokens[c].gen
                     /\ Aged(tokens[c]).refreshing = tokens[c].refreshing
    <2>1. tokens[c] \in TokenRecord /\ NoToken \in TokenRecord
      BY DEF TokenInv, TokenShape, TokenRecord, NoToken
    <2>2. tokens[c].left - 1 \in Int
      BY <2>1 DEF TokenRecord
    <2>3. CASE Aged(tokens[c]) = NoToken
      BY <2>1, <2>3
    <2>4. CASE Aged(tokens[c]) # NoToken
      <3>1. /\ tokens[c] # NoToken
            /\ Aged(tokens[c]) = [tokens[c] EXCEPT !.left = tokens[c].left - 1]
        BY <2>4 DEF Aged
      <3>2. QED  BY <2>1, <2>2, <3>1 DEF TokenRecord, HasToken
    <2>5. QED  BY <2>3, <2>4
  <1>2. QED  BY <1>1 DEF NoYounger

LEMMA IntervalKeeps ==
    ASSUME TokenInv, NEW i \in Cycles, RefreshInterval(i)
    PROVE  TokenInv'
  <1> DEFINE aged == [c \in TokenConns |-> Aged(tokens[c])]
  <1>1. /\ cycles[i] = NoCycle /\ NextBatch(i, Expiring(aged), aged)
        /\ UNCHANGED <<tokenSock, validating, registered, lateInit>>
    BY DEF RefreshInterval, Free
  <1>2. NoYounger(aged)
    BY AgedIsOlder
  <1> HIDE DEF aged
  <1>3. cycles[i].waiting = {} /\ Expiring(aged) \in SUBSET TokenConns
    BY <1>1 DEF NoCycle, Expiring
  <1>4. QED  BY <1>1, <1>2, <1>3, BatchKeeps

LEMMA ContinueKeeps ==
    ASSUME TokenInv, NEW i \in Cycles, ContinueCycle(i)
    PROVE  TokenInv'
  <1>1. /\ cycles[i].waiting = {} /\ NextBatch(i, cycles[i].rest, tokens)
        /\ UNCHANGED <<tokenSock, validating, registered, lateInit>>
    BY DEF ContinueCycle
  <1>2. cycles[i].rest \in SUBSET TokenConns
    BY DEF TokenInv, TokenShape, CycleRecord
  <1>3. NoYounger(tokens)
    BY DEF TokenInv, TokenShape, NoYounger, HasToken
  <1>4. QED  BY <1>1, <1>2, <1>3, BatchKeeps

LEMMA AnswerKeeps ==
    ASSUME TokenInv, NEW i \in Cycles, NEW c \in TokenConns, NEW gen \in 1..MaxInits,
           RefreshAnswered(i, c, gen)
    PROVE  TokenInv'
  <1>1. /\ <<c, gen>> \in cycles[i].waiting
        /\ cycles' = [cycles EXCEPT ![i].waiting = cycles[i].waiting \ {<<c, gen>>}]
        /\ UNCHANGED <<tokenSock, validating, registered, lateInit>>
    BY DEF RefreshAnswered
  <1>2. PICK t \in {UpdateToken(c, gen), RefreshFailed(c, gen)} :
          tokens' = [tokens EXCEPT ![c] = t]
    BY DEF RefreshAnswered
  <1>3. /\ tokens[c] \in TokenRecord /\ Lifetime \in Nat /\ gen \in Nat
        /\ registered[c] \in Nat /\ gen > 0 /\ gen <= registered[c]
        /\ HasToken(c) => tokens[c].gen = registered[c] /\ registered[c] > 0
    BY <1>1, TokenAssumption DEF TokenInv, TokenShape, RecordsAreNamed
  <1>4. /\ t \in TokenRecord /\ (~t.refreshing \/ tokens[c].gen # gen)
        /\ HasToken(c) => t # NoToken /\ t.gen = tokens[c].gen
        /\ ~HasToken(c) => t = NoToken
    <2>1. CASE HasToken(c)
      <3>1. CASE t = UpdateToken(c, gen)
        <4>1. t = Recorded(Lifetime, tokens[c].gen)
          BY <2>1, <3>1 DEF UpdateToken
        <4>2. QED  BY <1>3, <2>1, <4>1, RecordedFields
      <3>2. CASE t = RefreshFailed(c, gen)
        <4>1. t = tokens[c] \/ (t = [tokens[c] EXCEPT !.refreshing = FALSE])
          BY <3>2 DEF RefreshFailed
        <4>2. tokens[c].gen = gen => t = [tokens[c] EXCEPT !.refreshing = FALSE]
          BY <3>2 DEF RefreshFailed
        <4>3. t \in TokenRecord /\ t.gen = tokens[c].gen
          BY <1>3, <4>1 DEF TokenRecord
        <4>4. tokens[c].gen = gen => ~t.refreshing
          BY <1>3, <4>2 DEF TokenRecord
        <4>5. t # NoToken
          BY <1>3, <2>1, <4>3, NoTokenFields
        <4>6. QED  BY <2>1, <4>3, <4>4, <4>5
      <3>3. QED  BY <1>2, <3>1, <3>2
    <2>2. CASE ~HasToken(c)
      <3>1. tokens[c] = NoToken /\ NoToken.gen # gen
        BY <1>3, <2>2, NoTokenFields DEF HasToken
      <3>2. UpdateToken(c, gen) = NoToken /\ RefreshFailed(c, gen) = NoToken
        BY <2>2, <3>1 DEF UpdateToken, RefreshFailed
      <3>3. t = NoToken
        BY <1>2, <3>2
      <3>4. QED  BY <2>2, <3>1, <3>3, NoTokenFields
    <2>3. QED  BY <2>1, <2>2
  <1>5. /\ tokens'[c] = t
        /\ \A d \in TokenConns \ {c} : tokens'[d] = tokens[d]
        /\ \A j \in Cycles : cycles'[j].waiting \subseteq cycles[j].waiting
        /\ cycles'[i].waiting = cycles[i].waiting \ {<<c, gen>>}
        /\ \A j \in Cycles \ {i} : cycles'[j] = cycles[j]
    BY <1>1, <1>2 DEF TokenInv, TokenShape, CycleRecord
  <1>6. TokenShape'
    <2>1. tokens' \in [TokenConns -> TokenRecord]
      BY <1>2, <1>4 DEF TokenInv, TokenShape
    <2>2. cycles' \in [Cycles -> CycleRecord]
      BY <1>1 DEF TokenInv, TokenShape, CycleRecord
    <2>3. QED  BY <1>1, <2>1, <2>2 DEF TokenInv, TokenShape
  <1>7. \A d \in TokenConns : /\ HasToken(d)' <=> HasToken(d)
                              /\ HasToken(d) => tokens'[d].gen = tokens[d].gen
    BY <1>4, <1>5 DEF HasToken
  <1>8. RecordsAreNamed' /\ RecordHasConnection'
    BY <1>1, <1>5, <1>7 DEF TokenInv, RecordsAreNamed, RecordHasConnection
  <1>9. FirstIsSingle'
    <2> SUFFICES ASSUME NEW d \in TokenConns, registered[d] = 1
                 PROVE  /\ \A j, k \in Cycles :
                              <<d, 1>> \in cycles'[j].waiting /\ <<d, 1>> \in cycles'[k].waiting
                              => j = k
                        /\ HasToken(d)' => (tokens'[d].refreshing <=>
                              \E j \in Cycles : <<d, 1>> \in cycles'[j].waiting)
      BY <1>1 DEF FirstIsSingle
    <2>1. \A j, k \in Cycles :
            <<d, 1>> \in cycles[j].waiting /\ <<d, 1>> \in cycles[k].waiting => j = k
      BY DEF TokenInv, FirstIsSingle
    <2>2. CASE d = c
      <3>1. gen = 1
        BY <1>3, <2>2
      <3>2. \A j \in Cycles : <<c, 1>> \notin cycles'[j].waiting
        BY <1>1, <1>5, <2>1, <2>2, <3>1
      <3>3. HasToken(c)' => ~tokens'[c].refreshing
        BY <1>3, <1>4, <1>5, <1>7, <2>2, <3>1
      <3>4. QED  BY <2>2, <3>2, <3>3
    <2>3. CASE d # c
      <3>1. \A j \in Cycles :
              <<d, 1>> \in cycles'[j].waiting <=> <<d, 1>> \in cycles[j].waiting
        BY <1>5, <2>3
      <3>2. tokens'[d] = tokens[d]
        BY <1>5, <2>3
      <3>3. QED  BY <3>1, <3>2 DEF TokenInv, FirstIsSingle, HasToken
    <2>4. QED  BY <2>2, <2>3
  <1>10. QED  BY <1>6, <1>8, <1>9 DEF TokenInv

LEMMA TokenStepKeeps == TokenInv /\ [TokenNext]_tokenVars => TokenInv'
  <1> SUFFICES ASSUME TokenInv, [TokenNext]_tokenVars PROVE TokenInv'
    OBVIOUS
  <1>1. ASSUME NEW c \in TokenConns,
               InitArrives(c) \/ InitRefused(c) \/ RegisterToken(c) \/ UnregisterToken(c)
        PROVE  TokenInv'
    BY <1>1, ValidationKeeps, RegisterKeeps, UnregisterKeeps
  <1>2. CASE RefreshStep
    BY <1>2, AnswerKeeps, ContinueKeeps DEF RefreshStep
  <1>3. ASSUME NEW i \in Cycles, RefreshInterval(i) PROVE TokenInv'
    BY <1>3, IntervalKeeps
  <1>4. CASE UNCHANGED tokenVars
    BY <1>4 DEF tokenVars, TokenInv, TokenShape, RecordsAreNamed, FirstIsSingle,
                RecordHasConnection, HasToken
  <1>5. QED  BY <1>1, <1>2, <1>3, <1>4 DEF TokenNext

-----------------------------------------------------------------------------
(* The inductive invariant holds in every state of the token manager.       *)
THEOREM TokenInvariant == TokenSpec => []TokenInv
  BY TokenInitIsSound, TokenStepKeeps, PTL DEF TokenSpec

(* Only a validation that outlived its socket leaves a record without a     *)
(* connection: unregisterToken takes the record away, and no answer to a    *)
(* refresh, however late, brings it back.                                   *)
THEOREM RecordsHaveConnections == TokenSpec => []RecordHasConnection
  <1>1. TokenInv => RecordHasConnection
    BY DEF TokenInv
  <1>2. QED  BY <1>1, TokenInvariant, PTL

(* However many cycles overlap and however late the service answers, the    *)
(* flag that refreshToken tests and sets before its await keeps a           *)
(* connection that was registered once from being refreshed twice at a      *)
(* time, and it is set exactly while a refresh is awaited.                  *)
THEOREM RefreshesAreSingle == TokenSpec => []OneRefreshInFlight
  <1>1. TokenInv => OneRefreshInFlight
    <2> SUFFICES ASSUME TokenInv, NEW c \in TokenConns, registered[c] = 1
                 PROVE  /\ Cardinality(InFlight(c)) <= 1
                        /\ HasToken(c) => (tokens[c].refreshing <=> InFlight(c) # {})
      BY DEF OneRefreshInFlight
    <2>1. InFlight(c) = {i \in Cycles : <<c, 1>> \in cycles[i].waiting}
      <3>1. 1 \in 1..MaxInits
        BY TokenAssumption
      <3>2. \A i \in Cycles, gen \in 1..MaxInits :
              <<c, gen>> \in cycles[i].waiting => gen = 1
        BY DEF TokenInv, RecordsAreNamed
      <3>3. QED  BY <3>1, <3>2 DEF InFlight
    <2>2. \A i, j \in InFlight(c) : i = j
      BY <2>1 DEF TokenInv, FirstIsSingle
    <2>3. Cardinality(InFlight(c)) <= 1
      <3>1. CASE InFlight(c) = {}
        BY <3>1, FS_EmptySet
      <3>2. ASSUME NEW i \in InFlight(c) PROVE Cardinality(InFlight(c)) <= 1
        <4>1. InFlight(c) = {i}
          BY <2>2
        <4>2. QED  BY <4>1, FS_Singleton
      <3>3. QED  BY <3>1, <3>2
    <2>4. HasToken(c) => (tokens[c].refreshing <=> InFlight(c) # {})
      BY <2>1 DEF TokenInv, FirstIsSingle
    <2>5. QED  BY <2>3, <2>4
  <1>2. QED  BY <1>1, TokenInvariant, PTL

-----------------------------------------------------------------------------
(* No token expires untried.                                                *)

Untried(c) == HasToken(c) /\ tokens[c].attempts = 0

\* The cycles that have found the connection's token expiring and not come to it.
Missed(c) == {i \in Cycles : c \in cycles[i].rest}

FlaggedIsTried == \A c \in TokenConns : tokens[c].refreshing => tokens[c].attempts > 0

Once == \A c \in TokenConns : registered[c] <= 1

OneBatch == Cardinality(TokenConns) <= BatchSize => \A i \in Cycles : cycles[i].rest = {}

(* An untried token that has its turn was missed in every interval at which *)
(* it counted as expiring.                                                  *)
MissedEveryTime(c) ==
    tokens[c].left >= 1 /\ Cardinality(Missed(c)) > Chances(tokens[c]) - tokens[c].left

UntriedIsMissed ==
    Once => \A c \in TokenConns : Untried(c) /\ HasItsTurn(tokens[c]) => MissedEveryTime(c)

TriedInv == FlaggedIsTried /\ OneBatch /\ UntriedIsMissed

LEMMA ChancesAreBounded ==
    ASSUME NEW t \in TokenRecord
    PROVE  Chances(t) \in Int /\ Chances(t) <= RefreshThreshold /\ Chances(t) < t.given
  BY TokenAssumption DEF Chances, TokenRecord

\* What has its turn counts as expiring at least once.
LEMMA TurnsAreChances ==
    ASSUME NEW c \in TokenConns, NEW t \in TokenRecord, HasItsTurn(t)
    PROVE  Chances(t) > 0
  <1>1. Cardinality(TokenConns) \in Nat /\ Cardinality(TokenConns) # 0
    <2>1. IsFiniteSet(TokenConns) /\ TokenConns # {}
      BY TokenAssumption
    <2>2. QED  BY <2>1, FS_CardinalityType, FS_EmptySet
  <1>2. QED  BY <1>1, ChancesAreBounded DEF HasItsTurn

LEMMA CyclesAreFinite ==
    /\ IsFiniteSet(Cycles)
    /\ \A c \in TokenConns : IsFiniteSet(Missed(c)) /\ Cardinality(Missed(c)) \in Nat
  <1>1. IsFiniteSet(Cycles)
    BY FS_Interval, TokenAssumption DEF Cycles
  <1>2. \A c \in TokenConns : Missed(c) \subseteq Cycles
    BY DEF Missed
  <1>3. QED  BY <1>1, <1>2, FS_Subset, FS_CardinalityType

(* When an interval fires, each cycle that has missed an untried token      *)
(* waits for a refresh of another connection, and no two for the same.      *)
LEMMA OthersAreAwaited ==
    ASSUME TokenInv, FlaggedIsTried, Once, NEW c \in TokenConns, Untried(c),
           ~\E j \in Cycles : cycles[j].waiting = {} /\ cycles[j].rest # {}
    PROVE  Cardinality(Missed(c)) < Cardinality(TokenConns)
  <1> DEFINE Awaited(i) == {d \in TokenConns : <<d, 1>> \in cycles[i].waiting}
             others == TokenConns \ {c}
             f == [i \in Missed(c) |-> CHOOSE d \in others : d \in Awaited(i)]
  <1>1. \A d \in TokenConns, i \in Cycles, gen \in Nat :
          <<d, gen>> \in cycles[i].waiting => gen = 1 /\ registered[d] = 1
    BY DEF TokenInv, TokenShape, RecordsAreNamed, Once
  <1>2. \A i \in Cycles : <<c, 1>> \notin cycles[i].waiting
    BY <1>1 DEF TokenInv, FirstIsSingle, FlaggedIsTried, Untried
  <1>3. \A i \in Missed(c) : \E d \in others : d \in Awaited(i)
    <2> SUFFICES ASSUME NEW i \in Missed(c) PROVE \E d \in others : d \in Awaited(i)
      OBVIOUS
    <2>1. i \in Cycles /\ cycles[i].waiting # {} /\ cycles[i].waiting \subseteq TokenConns \X Nat
      BY DEF Missed, TokenInv, TokenShape, CycleRecord
    <2>2. PICK d \in TokenConns, gen \in Nat : <<d, gen>> \in cycles[i].waiting
      BY <2>1
    <2>3. QED  BY <1>1, <1>2, <2>1, <2>2
  <1>4. \A i \in Missed(c) : f[i] \in others /\ f[i] \in Awaited(i)
    BY <1>3
  <1>5. \A i, j \in Missed(c) : f[i] = f[j] => i = j
    <2> SUFFICES ASSUME NEW i \in Missed(c), NEW j \in Missed(c), f[i] = f[j] PROVE i = j
      OBVIOUS
    <2> DEFINE d == f[i]
    <2>1. d \in TokenConns /\ <<d, 1>> \in cycles[i].waiting /\ <<d, 1>> \in cycles[j].waiting
      BY <1>4
    <2> HIDE DEF d, f
    <2>2. i \in Cycles /\ j \in Cycles
      BY DEF Missed
    <2>3. registered[d] = 1
      BY <1>1, <2>1, <2>2
    <2>4. QED  BY <2>1, <2>2, <2>3 DEF TokenInv, FirstIsSingle
  <1>6. f \in Injection(Missed(c), others)
    <2>1. f \in [Missed(c) -> others]
      BY <1>4
    <2> HIDE DEF f
    <2>2. QED  BY <1>5, <2>1 DEF Injection, IsInjective
  <1>7. /\ IsFiniteSet(others) /\ Cardinality(others) = Cardinality(TokenConns) - 1
        /\ Cardinality(TokenConns) \in Nat
    BY FS_RemoveElement, FS_CardinalityType, TokenAssumption
  <1>8. Cardinality(Missed(c)) <= Cardinality(others)
    BY <1>6, <1>7, FS_Injection
  <1>9. QED  BY <1>7, <1>8, CyclesAreFinite

(* A batch that holds all of a few connections.                             *)
LEMMA FewAreOneBatch ==
    ASSUME Cardinality(TokenConns) <= BatchSize, NEW conns \in SUBSET TokenConns,
           NEW batch \in Batches(conns)
    PROVE  conns \ batch = {}
  <1>1. /\ IsFiniteSet(conns) /\ Cardinality(conns) <= Cardinality(TokenConns)
        /\ Cardinality(conns) \in Nat /\ Cardinality(TokenConns) \in Nat
    BY FS_Subset, FS_CardinalityType, TokenAssumption
  <1>2. batch \subseteq conns /\ Cardinality(batch) = Cardinality(conns)
    BY <1>1, TokenAssumption DEF Batches, kSubset
  <1>3. batch = conns
    BY <1>1, <1>2, FS_Subset
  <1>4. QED  BY <1>3

(* What a batch leaves untried, it leaves to the cycle.                     *)
LEMMA BatchTries ==
    ASSUME TokenInv, FlaggedIsTried, OneBatch, NEW i \in Cycles,
           NEW conns \in SUBSET TokenConns,
           NEW toks \in [TokenConns -> TokenRecord],
           \A c \in TokenConns : toks[c].refreshing => toks[c].attempts > 0,
           NextBatch(i, conns, toks)
    PROVE  /\ FlaggedIsTried' /\ OneBatch'
           /\ \A c \in TokenConns : Untried(c)' =>
                 /\ tokens'[c] = toks[c] /\ toks[c] # NoToken
                 /\ c \in cycles'[i].rest <=> c \in conns
           /\ \A j \in Cycles \ {i} : cycles'[j] = cycles[j]
  <1>1. PICK batch \in Batches(conns) :
          /\ StartRefreshes(batch, toks)
          /\ cycles' = [cycles EXCEPT ![i] =
                          [waiting |-> {<<c, toks[c].gen>> : c \in Started(batch, toks)},
                           rest |-> conns \ batch]]
    BY DEF NextBatch
  <1>2. /\ cycles'[i].rest = conns \ batch
        /\ \A j \in Cycles \ {i} : cycles'[j] = cycles[j]
    BY <1>1 DEF TokenInv, TokenShape
  <1>3. ASSUME NEW c \in TokenConns
        PROVE  /\ c \in Started(batch, toks) => tokens'[c].attempts > 0
               /\ c \notin Started(batch, toks) => tokens'[c] = toks[c]
    <2>1. toks[c].attempts + 1 > 0 /\ toks[c] \in TokenRecord
      BY DEF TokenRecord
    <2>2. tokens'[c] = IF c \in Started(batch, toks)
                       THEN [toks[c] EXCEPT !.refreshing = TRUE,
                                            !.attempts = toks[c].attempts + 1]
                       ELSE toks[c]
      BY <1>1 DEF StartRefreshes
    <2>3. QED  BY <2>1, <2>2 DEF TokenRecord
  <1>4. FlaggedIsTried'
    BY <1>3 DEF FlaggedIsTried
  <1>5. OneBatch'
    BY <1>2, FewAreOneBatch DEF OneBatch
  <1>6. ASSUME NEW c \in TokenConns, Untried(c)'
        PROVE  /\ tokens'[c] = toks[c] /\ toks[c] # NoToken
               /\ c \in cycles'[i].rest <=> c \in conns
    <2>1. tokens'[c] = toks[c] /\ toks[c] # NoToken /\ toks[c].attempts = 0
      BY <1>3, <1>6 DEF Untried, HasToken
    <2>2. ~toks[c].refreshing
      BY <2>1
    <2>3. MayRefresh(toks[c])
      BY <2>1, <2>2, TokenAssumption DEF MayRefresh
    <2>4. c \notin batch
      BY <1>3, <1>6, <2>3 DEF Started, Untried
    <2>5. QED  BY <1>2, <2>1, <2>4
  <1>7. QED  BY <1>2, <1>4, <1>5, <1>6

LEMMA ContinueTries ==
    ASSUME TokenInv, TriedInv, NEW i \in Cycles, ContinueCycle(i)
    PROVE  TriedInv'
  <1>1. NextBatch(i, cycles[i].rest, tokens) /\ UNCHANGED registered
    BY DEF ContinueCycle
  <1>2. cycles[i].rest \in SUBSET TokenConns /\ tokens \in [TokenConns -> TokenRecord]
    BY DEF TokenInv, TokenShape, CycleRecord
  <1>3. /\ FlaggedIsTried /\ OneBatch
        /\ \A c \in TokenConns : tokens[c].refreshing => tokens[c].attempts > 0
    BY DEF TriedInv, FlaggedIsTried
  <1>4. /\ FlaggedIsTried' /\ OneBatch'
        /\ \A c \in TokenConns : Untried(c)' =>
              /\ tokens'[c] = tokens[c] /\ tokens[c] # NoToken
              /\ c \in cycles'[i].rest <=> c \in cycles[i].rest
        /\ \A j \in Cycles \ {i} : cycles'[j] = cycles[j]
    BY <1>1, <1>2, <1>3, BatchTries
  <1>5. ASSUME Once', NEW c \in TokenConns, Untried(c)', HasItsTurn(tokens'[c])
        PROVE  MissedEveryTime(c)'
    <2>1. Missed(c)' = Missed(c)
      BY <1>4, <1>5 DEF Missed
    <2>2. Untried(c) /\ Once
      BY <1>1, <1>4, <1>5 DEF Untried, HasToken, Once
    <2>3. QED  BY <1>4, <1>5, <2>1, <2>2 DEF TriedInv, UntriedIsMissed, MissedEveryTime
  <1>6. UntriedIsMissed'
    BY <1>5 DEF UntriedIsMissed
  <1>7. QED  BY <1>4, <1>6 DEF TriedInv

LEMMA AgedFields ==
    ASSUME NEW t \in TokenRecord
    PROVE  /\ Aged(t) \in TokenRecord
           /\ Aged(t).refreshing => t.refreshing /\ Aged(t).attempts = t.attempts
           /\ Aged(t) # NoToken => /\ t # NoToken /\ Aged(t).left = t.left - 1
                                   /\ Aged(t).attempts = t.attempts
                                   /\ Aged(t).given = t.given
  <1>1. t.left - 1 \in Int
    BY DEF TokenRecord
  <1>2. CASE Aged(t) = NoToken
    BY <1>2, NoTokenFields
  <1>3. CASE Aged(t) # NoToken
    <2>1. t # NoToken /\ Aged(t) = [t EXCEPT !.left = t.left - 1]
      BY <1>3 DEF Aged
    <2>2. QED  BY <1>1, <2>1 DEF TokenRecord
  <1>4. QED  BY <1>2, <1>3

LEMMA IntervalTries ==
    ASSUME TokenInv, TriedInv, NEW i \in Cycles, RefreshInterval(i)
    PROVE  TriedInv'
  <1> DEFINE aged == [c \in TokenConns |-> Aged(tokens[c])]
  <1>1. /\ cycles[i] = NoCycle /\ NextBatch(i, Expiring(aged), aged) /\ UNCHANGED registered
        /\ ~\E j \in Cycles : cycles[j].waiting = {} /\ cycles[j].rest # {}
    BY DEF RefreshInterval, Free
  <1>2. tokens \in [TokenConns -> TokenRecord]
    BY DEF TokenInv, TokenShape
  <1>3. aged \in [TokenConns -> TokenRecord] /\ \A c \in TokenConns : aged[c] = Aged(tokens[c])
    BY <1>2, AgedFields
  <1>4. \A c \in TokenConns : aged[c].refreshing => aged[c].attempts > 0
    BY <1>2, <1>3, AgedFields DEF TriedInv, FlaggedIsTried
  <1>5. Expiring(aged) \in SUBSET TokenConns
    BY DEF Expiring
  <1> HIDE DEF aged
  <1>6. /\ FlaggedIsTried' /\ OneBatch'
        /\ \A c \in TokenConns : Untried(c)' =>
              /\ tokens'[c] = aged[c] /\ aged[c] # NoToken
              /\ c \in cycles'[i].rest <=> c \in Expiring(aged)
        /\ \A j \in Cycles \ {i} : cycles'[j] = cycles[j]
    BY <1>1, <1>3, <1>4, <1>5, BatchTries DEF TriedInv
  <1>7. ASSUME Once', NEW c \in TokenConns, Untried(c)', HasItsTurn(tokens'[c])
        PROVE  MissedEveryTime(c)'
    <2> DEFINE l == tokens[c].left
               k == Cardinality(Missed(c))
               m == Chances(tokens[c])
    <2>1. /\ Untried(c) /\ tokens'[c].left = l - 1 /\ l \in Int
          /\ tokens'[c] = aged[c] /\ aged[c] # NoToken
      BY <1>2, <1>3, <1>6, <1>7, AgedFields DEF Untried, HasToken, TokenRecord
    <2>10. Chances(tokens'[c]) = m /\ HasItsTurn(tokens[c])
      <3>1. tokens'[c].given = tokens[c].given
        BY <1>2, <1>3, <2>1, AgedFields
      <3>2. QED  BY <1>7, <3>1 DEF Chances, HasItsTurn
    <2>2. l >= 1 /\ k > m - l /\ Once
      BY <1>1, <1>7, <2>1, <2>10 DEF TriedInv, UntriedIsMissed, MissedEveryTime, Once
    <2>3. /\ k \in Nat /\ IsFiniteSet(Missed(c)) /\ RefreshThreshold \in Nat \ {0}
          /\ m \in Int /\ m <= RefreshThreshold /\ m > 0
      BY <1>2, <2>10, CyclesAreFinite, TokenAssumption, ChancesAreBounded, TurnsAreChances
    <2>4. k < Cardinality(TokenConns)
      BY <1>1, <2>1, <2>2, OthersAreAwaited DEF TriedInv
    <2>5. Cardinality(TokenConns) <= BatchSize => k = 0
      <3> SUFFICES ASSUME Cardinality(TokenConns) <= BatchSize PROVE k = 0
        OBVIOUS
      <3>1. Missed(c) = {}
        BY DEF TriedInv, OneBatch, Missed
      <3>2. QED  BY <3>1, FS_EmptySet
    <2>6. l # 1
      <3>1. Cardinality(TokenConns) \in Nat
        BY FS_CardinalityType, TokenAssumption
      <3>2. Cardinality(TokenConns) <= m \/ Cardinality(TokenConns) <= BatchSize
        BY <2>10 DEF HasItsTurn
      <3> HIDE DEF k, l, m
      <3>3. QED  BY <2>2, <2>3, <2>4, <2>5, <3>1, <3>2
    <2>7. CASE l - 1 > RefreshThreshold
      <3>1. Missed(c) \subseteq Missed(c)'
        BY <1>1, <1>6 DEF Missed, NoCycle
      <3>2. Cardinality(Missed(c)') \in Nat
        <4>1. Missed(c)' \subseteq Cycles
          BY DEF Missed
        <4>2. QED  BY <4>1, CyclesAreFinite, FS_Subset, FS_CardinalityType
      <3>3. QED  BY <2>1, <2>3, <2>7, <2>10, <3>2 DEF MissedEveryTime
    <2>8. CASE l - 1 <= RefreshThreshold
      <3>1. l - 1 \in 1..RefreshThreshold
        BY <2>1, <2>2, <2>3, <2>6, <2>8
      <3>2. c \in Expiring(aged)
        BY <2>1, <3>1 DEF Expiring
      <3>3. Missed(c)' = Missed(c) \cup {i} /\ i \notin Missed(c)
        BY <1>1, <1>6, <1>7, <3>2 DEF Missed, NoCycle
      <3>4. Cardinality(Missed(c)') = k + 1
        BY <2>3, <3>3, FS_AddElement
      <3>5. QED  BY <2>1, <2>2, <2>3, <2>6, <2>10, <3>4 DEF MissedEveryTime
    <2>9. QED  BY <2>1, <2>3, <2>7, <2>8
  <1>8. UntriedIsMissed'
    BY <1>7 DEF UntriedIsMissed
  <1>9. QED  BY <1>6, <1>8 DEF TriedInv

(* The steps that change no cycle's rest, and one record at most.           *)
LEMMA RecordChanges ==
    ASSUME TokenInv, TriedInv,
           \A j \in Cycles : cycles'[j].rest = cycles[j].rest,
           \A d \in TokenConns : registered'[d] >= registered[d],
           registered' \in [TokenConns -> Nat],
           NEW c \in TokenConns,
           \A d \in TokenConns \ {c} : tokens'[d] = tokens[d],
           \/ tokens'[c] = tokens[c]
           \/ tokens'[c] = NoToken
           \/ /\ tokens'[c] \in TokenRecord /\ tokens'[c].left = tokens'[c].given
              /\ ~tokens'[c].refreshing
           \/ /\ tokens'[c].left = tokens[c].left /\ tokens'[c].attempts = tokens[c].attempts
              /\ tokens'[c].given = tokens[c].given /\ ~tokens'[c].refreshing /\ HasToken(c)
    PROVE  TriedInv'
  <1>1. FlaggedIsTried'
    BY NoTokenFields DEF TriedInv, FlaggedIsTried
  <1>2. OneBatch'
    BY DEF TriedInv, OneBatch
  <1>3. ASSUME Once', NEW d \in TokenConns, Untried(d)', HasItsTurn(tokens'[d])
        PROVE  MissedEveryTime(d)'
    <2>1. Missed(d)' = Missed(d)
      BY DEF Missed
    <2>2. Once
      BY <1>3 DEF Once, TokenInv, TokenShape
    <2>3. Cardinality(Missed(d)) \in Nat
      BY CyclesAreFinite
    <2>4. CASE tokens'[d] \in TokenRecord /\ tokens'[d].left = tokens'[d].given
      <3>1. /\ Chances(tokens'[d]) \in Int /\ Chances(tokens'[d]) > 0
            /\ Chances(tokens'[d]) < tokens'[d].given /\ tokens'[d].given \in Nat
        BY <1>3, <2>4, ChancesAreBounded, TurnsAreChances DEF TokenRecord
      <3>2. QED  BY <2>1, <2>3, <2>4, <3>1 DEF MissedEveryTime
    <2>5. CASE /\ Untried(d) /\ tokens'[d].left = tokens[d].left
               /\ tokens'[d].given = tokens[d].given
      <3>1. Chances(tokens'[d]) = Chances(tokens[d]) /\ HasItsTurn(tokens[d])
        BY <1>3, <2>5 DEF Chances, HasItsTurn
      <3>2. QED  BY <2>1, <2>2, <2>5, <3>1 DEF TriedInv, UntriedIsMissed, MissedEveryTime
    <2>6. QED  BY <1>3, <2>4, <2>5 DEF Untried, HasToken
  <1>4. UntriedIsMissed'
    BY <1>3 DEF UntriedIsMissed
  <1>5. QED  BY <1>1, <1>2, <1>4 DEF TriedInv

LEMMA HandlerTries ==
    ASSUME TokenInv, TriedInv, NEW c \in TokenConns,
           InitArrives(c) \/ InitRefused(c) \/ RegisterToken(c) \/ UnregisterToken(c)
    PROVE  TriedInv'
  <1>1. registered \in [TokenConns -> Nat] /\ tokens \in [TokenConns -> TokenRecord]
    BY DEF TokenInv, TokenShape
  <1>2. cycles' = cycles
    BY DEF InitArrives, InitRefused, RegisterToken, UnregisterToken
  <1>3. CASE InitArrives(c) \/ InitRefused(c)
    <2>1. UNCHANGED <<registered, tokens>>
      BY <1>3 DEF InitArrives, InitRefused
    <2>2. QED  BY <1>1, <1>2, <2>1, RecordChanges
  <1>4. CASE RegisterToken(c)
    <2>0. PICK left \in 0..Lifetime :
            tokens' = [tokens EXCEPT ![c] = Recorded(left, registered[c] + 1)]
      BY <1>4 DEF RegisterToken
    <2> DEFINE new == Recorded(left, registered[c] + 1)
    <2>1. /\ registered' = [registered EXCEPT ![c] = registered[c] + 1]
          /\ tokens' = [tokens EXCEPT ![c] = new]
      BY <1>4, <2>0 DEF RegisterToken
    <2>2. registered[c] + 1 \in Nat /\ registered[c] + 1 > 0 /\ left \in Nat
      BY <1>1, TokenAssumption
    <2>3. new \in TokenRecord /\ new.left = new.given /\ ~new.refreshing
      BY <2>2, RecordedFields
    <2> HIDE DEF new
    <2>4. /\ tokens'[c] \in TokenRecord /\ tokens'[c].left = tokens'[c].given
          /\ ~tokens'[c].refreshing
          /\ \A d \in TokenConns \ {c} : tokens'[d] = tokens[d]
      BY <1>1, <2>1, <2>3
    <2>5. /\ registered' \in [TokenConns -> Nat]
          /\ \A d \in TokenConns : registered'[d] >= registered[d]
      BY <1>1, <2>1, <2>2
    <2>6. QED  BY <1>2, <2>4, <2>5, RecordChanges
  <1>5. CASE UnregisterToken(c)
    <2>1. registered' = registered /\ tokens' = [tokens EXCEPT ![c] = NoToken]
      BY <1>5 DEF UnregisterToken
    <2>2. QED  BY <1>1, <1>2, <2>1, RecordChanges
  <1>6. QED  BY <1>3, <1>4, <1>5

LEMMA AnswerTries ==
    ASSUME TokenInv, TriedInv, NEW i \in Cycles, NEW c \in TokenConns, NEW gen \in 1..MaxInits,
           RefreshAnswered(i, c, gen)
    PROVE  TriedInv'
  <1>1. /\ registered \in [TokenConns -> Nat] /\ tokens \in [TokenConns -> TokenRecord]
        /\ tokens[c] \in TokenRecord /\ gen # 0
    BY DEF TokenInv, TokenShape
  <1>2. registered' = registered /\ \A j \in Cycles : cycles'[j].rest = cycles[j].rest
    BY DEF RefreshAnswered, TokenInv, TokenShape, CycleRecord
  <1>3. PICK t \in {UpdateToken(c, gen), RefreshFailed(c, gen)} :
          tokens' = [tokens EXCEPT ![c] = t]
    BY DEF RefreshAnswered
  <1>4. tokens'[c] = t /\ \A d \in TokenConns \ {c} : tokens'[d] = tokens[d]
    BY <1>1, <1>3
  <1>5. \/ t = tokens[c] \/ t = NoToken
        \/ t \in TokenRecord /\ t.left = t.given /\ ~t.refreshing
        \/ /\ t.left = tokens[c].left /\ t.attempts = tokens[c].attempts
           /\ t.given = tokens[c].given /\ ~t.refreshing /\ HasToken(c)
    <2>1. CASE t = UpdateToken(c, gen)
      <3>1. t = NoToken \/ (HasToken(c) /\ t = Recorded(Lifetime, tokens[c].gen))
        BY <2>1 DEF UpdateToken
      <3>2. CASE HasToken(c) /\ t = Recorded(Lifetime, tokens[c].gen)
        <4>1. tokens[c].gen \in Nat /\ tokens[c].gen > 0 /\ Lifetime \in Nat
          BY <1>1, <3>2, TokenAssumption DEF TokenInv, RecordsAreNamed, TokenRecord
        <4>2. QED  BY <3>2, <4>1, RecordedFields
      <3>3. QED  BY <3>1, <3>2
    <2>2. CASE t = RefreshFailed(c, gen)
      <3>1. t = tokens[c] \/ (tokens[c].gen = gen /\ (t = [tokens[c] EXCEPT !.refreshing = FALSE]))
        BY <2>2 DEF RefreshFailed
      <3>2. CASE tokens[c].gen = gen /\ (t = [tokens[c] EXCEPT !.refreshing = FALSE])
        BY <1>1, <3>2, NoTokenFields DEF TokenRecord, HasToken
      <3>3. QED  BY <3>1, <3>2
    <2>3. QED  BY <1>3, <2>1, <2>2
  <1>6. QED  BY <1>1, <1>2, <1>4, <1>5, RecordChanges

LEMMA TokenInitTries == TokenInit => TriedInv
  <1> SUFFICES ASSUME TokenInit PROVE TriedInv
    OBVIOUS
  <1>1. /\ \A c \in TokenConns : tokens[c] = NoToken
        /\ \A i \in Cycles : cycles[i].rest = {}
    BY DEF TokenInit, NoCycle
  <1>2. QED
    BY <1>1, NoTokenFields DEF TriedInv, FlaggedIsTried, OneBatch, UntriedIsMissed, Untried, HasToken

LEMMA StepTries == TokenInv /\ TriedInv /\ [TokenNext]_tokenVars => TriedInv'
  <1> SUFFICES ASSUME TokenInv, TriedInv, [TokenNext]_tokenVars PROVE TriedInv'
    OBVIOUS
  <1>1. ASSUME NEW c \in TokenConns,
               InitArrives(c) \/ InitRefused(c) \/ RegisterToken(c) \/ UnregisterToken(c)
        PROVE  TriedInv'
    BY <1>1, HandlerTries
  <1>2. CASE RefreshStep
    BY <1>2, AnswerTries, ContinueTries DEF RefreshStep
  <1>3. ASSUME NEW i \in Cycles, RefreshInterval(i) PROVE TriedInv'
    BY <1>3, IntervalTries
  <1>4. CASE UNCHANGED tokenVars
    BY <1>4 DEF tokenVars, TriedInv, FlaggedIsTried, OneBatch, UntriedIsMissed, MissedEveryTime,
                Untried, HasToken, Missed, Once
  <1>5. QED  BY <1>1, <1>2, <1>3, <1>4 DEF TokenNext

(* While there are no more connections than intervals at which a token      *)
(* counts as expiring (the threshold, or one less than were left of it when *)
(* it was presented), or than a batch takes, no token of a single           *)
(* registration expires before refreshToken has asked for a new one,        *)
(* however slow the service is: each cycle that has not come to the token   *)
(* awaits an answer for another one.  Only a token that is presented too    *)
(* late to count as expiring once, or often enough, may lapse untried.      *)
THEOREM NoneExpiresUntried == TokenSpec => []TriedBeforeExpiry
  <1>1. TriedInv /\ TokenInv => TriedBeforeExpiry
    <2> SUFFICES ASSUME TriedInv, TokenInv, Once, NEW c \in TokenConns, HasToken(c),
                        HasItsTurn(tokens[c]), tokens[c].left <= 0
                 PROVE  tokens[c].attempts > 0
      BY DEF TriedBeforeExpiry, Once
    <2>1. tokens[c].left \in Int /\ tokens[c].attempts \in Nat
      BY DEF TokenInv, TokenShape, TokenRecord
    <2>2. ~Untried(c)
      BY <2>1 DEF TriedInv, UntriedIsMissed, MissedEveryTime
    <2>3. QED  BY <2>1, <2>2 DEF Untried
  <1>2. TokenSpec => []TriedInv
    <2>1. TokenInit => TriedInv
      BY TokenInitTries
    <2>2. QED  BY <2>1, StepTries, TokenInvariant, PTL DEF TokenSpec
  <1>3. QED  BY <1>1, <1>2, TokenInvariant, PTL

-----------------------------------------------------------------------------
(* The bounds of the records: no more attempts than allowed, nothing kept   *)
(* longer than the clean-up allows, no more registrations than the model's. *)

RecordFits(t) ==
    /\ t.left \in (0 - KeepExpired)..Lifetime /\ t.given \in 0..Lifetime
    /\ t.attempts \in 0..MaxRefreshAttempts

TokenBounds ==
    \A c \in TokenConns : RecordFits(tokens[c]) /\ registered[c] + validating[c] <= MaxInits

LEMMA NoTokenFits == RecordFits(NoToken)
  BY TokenAssumption DEF RecordFits, NoToken

LEMMA RecordedFits ==
    ASSUME NEW left \in 0..Lifetime, NEW gen
    PROVE  RecordFits(Recorded(left, gen))
  BY TokenAssumption DEF RecordFits, Recorded, NoToken

LEMMA TokenInitFits == TokenInit => TokenBounds
  BY NoTokenFits, TokenAssumption DEF TokenInit, TokenBounds

LEMMA InitArrivesFits ==
    ASSUME TokenInv, TokenBounds, NEW c \in TokenConns, InitArrives(c)
    PROVE  TokenBounds'
  <1>1. registered[c] \in Nat /\ validating[c] \in Nat /\ MaxInits \in Nat
    BY TokenAssumption DEF TokenInv, TokenShape
  <1>2. registered[c] + validating[c] < MaxInits
    <2> SUFFICES ASSUME ~(registered[c] + validating[c] < MaxInits) PROVE FALSE
      OBVIOUS
    <2> DEFINE own == {c} \X (1..MaxInits)  all == TokenConns \X (1..MaxInits)
    <2>1. own \in SUBSET Inits
      BY <1>1 DEF Inits
    <2>2. IsFiniteSet(1..MaxInits) /\ Cardinality(1..MaxInits) = MaxInits
      BY <1>1, FS_Interval
    <2>3. IsFiniteSet(Inits)
      <3>1. IsFiniteSet(all)
        BY <2>2, TokenAssumption, FS_Product
      <3>2. Inits \in SUBSET all
        BY DEF Inits
      <3>3. QED  BY <3>1, <3>2, FS_Subset
    <2>4. Cardinality(own) = MaxInits
      <3>1. IsFiniteSet({c}) /\ Cardinality({c}) = 1
        BY FS_Singleton
      <3>2. Cardinality(own) = Cardinality({c}) * Cardinality(1..MaxInits)
        BY <2>2, <3>1, FS_Product
      <3>3. QED  BY <1>1, <2>2, <3>1, <3>2
    <2> HIDE DEF own
    <2>5. Cardinality(own) <= Cardinality(Inits)
      BY <2>1, <2>3, FS_Subset
    <2>6. Cardinality(Inits) \in Nat /\ Cardinality(Inits) < MaxInits
      BY <2>3, FS_CardinalityType DEF InitArrives
    <2>7. QED  BY <1>1, <2>4, <2>5, <2>6
  <1>3. UNCHANGED <<registered, tokens>> /\ validating' = [validating EXCEPT ![c] = @ + 1]
    BY DEF InitArrives
  <1>4. validating \in [TokenConns -> Nat]
    BY DEF TokenInv, TokenShape
  <1>5. \A d \in TokenConns : validating'[d] = IF d = c THEN validating[c] + 1 ELSE validating[d]
    BY <1>3, <1>4
  <1>6. ASSUME NEW d \in TokenConns PROVE registered'[d] + validating'[d] <= MaxInits
    BY <1>1, <1>2, <1>3, <1>5 DEF TokenBounds
  <1>7. QED  BY <1>3, <1>6 DEF TokenBounds, RecordFits

\* Records change within their bounds, and what awaits becomes a registration.
LEMMA RecordsFit ==
    ASSUME TokenBounds,
           \A d \in TokenConns : /\ RecordFits(tokens'[d])
                                 /\ registered'[d] + validating'[d] <= registered[d] + validating[d]
                                 /\ registered'[d] + validating'[d] \in Int
                                 /\ registered[d] + validating[d] \in Int
    PROVE  TokenBounds'
  <1>1. MaxInits \in Nat
    BY TokenAssumption
  <1>2. QED  BY <1>1 DEF TokenBounds, RecordFits

LEMMA HandlersFit ==
    ASSUME TokenInv, TokenBounds, NEW c \in TokenConns,
           InitRefused(c) \/ RegisterToken(c) \/ UnregisterToken(c)
    PROVE  TokenBounds'
  <1>1. /\ registered \in [TokenConns -> Nat] /\ validating \in [TokenConns -> Nat]
        /\ tokens \in [TokenConns -> TokenRecord]
    BY DEF TokenInv, TokenShape
  <1>2. ASSUME NEW d \in TokenConns PROVE RecordFits(tokens'[d])
    <2>1. \/ tokens'[d] = tokens[d] \/ tokens'[d] = NoToken
          \/ \E left \in 0..Lifetime : tokens'[d] = Recorded(left, registered[c] + 1)
      BY <1>1 DEF InitRefused, RegisterToken, UnregisterToken
    <2>2. QED  BY <2>1, NoTokenFits, RecordedFits DEF TokenBounds
  <1>3. ASSUME NEW d \in TokenConns
        PROVE  /\ registered'[d] + validating'[d] <= registered[d] + validating[d]
               /\ registered'[d] + validating'[d] \in Int
               /\ registered[d] + validating[d] \in Int
    <2>1. registered[d] \in Nat /\ validating[d] \in Nat
      BY <1>1
    <2>2. CASE UNCHANGED <<registered, validating>>
      BY <2>1, <2>2
    <2>3. CASE InitRefused(c)
      <3>1. registered' = registered /\ validating' = [validating EXCEPT ![c] = @ - 1]
        BY <2>3 DEF InitRefused
      <3>2. QED  BY <1>1, <2>1, <3>1
    <2>4. CASE RegisterToken(c)
      <3>1. /\ registered' = [registered EXCEPT ![c] = @ + 1]
            /\ validating' = [validating EXCEPT ![c] = @ - 1]
        BY <2>4 DEF RegisterToken
      <3>2. QED  BY <1>1, <2>1, <3>1
    <2>5. QED  BY <2>2, <2>3, <2>4 DEF UnregisterToken
  <1>4. QED  BY <1>2, <1>3, RecordsFit

(* A batch tries what has attempts left.                                    *)
LEMMA BatchFits ==
    ASSUME TokenInv, TokenBounds, NEW i, NEW conns, NEW toks,
           toks \in [TokenConns -> TokenRecord], \A c \in TokenConns : RecordFits(toks[c]),
           NextBatch(i, conns, toks), UNCHANGED <<registered, validating>>
    PROVE  TokenBounds'
  <1>1. PICK batch : StartRefreshes(batch, toks)
    BY DEF NextBatch
  <1>2. ASSUME NEW c \in TokenConns PROVE RecordFits(tokens'[c])
    <2>1. toks[c] \in TokenRecord /\ RecordFits(toks[c])
      OBVIOUS
    <2>2. CASE c \in Started(batch, toks)
      <3>1. tokens'[c] = [toks[c] EXCEPT !.refreshing = TRUE, !.attempts = toks[c].attempts + 1]
        BY <1>1, <2>2 DEF StartRefreshes
      <3>2. toks[c].attempts < MaxRefreshAttempts /\ toks[c].attempts \in Nat
        BY <2>1, <2>2 DEF Started, MayRefresh, TokenRecord
      <3>3. toks[c].attempts + 1 \in 0..MaxRefreshAttempts
        BY <3>2, TokenAssumption
      <3>4. /\ tokens'[c].left = toks[c].left /\ tokens'[c].given = toks[c].given
            /\ tokens'[c].attempts = toks[c].attempts + 1
        BY <2>1, <3>1 DEF TokenRecord
      <3>5. QED  BY <2>1, <3>3, <3>4 DEF RecordFits
    <2>3. CASE c \notin Started(batch, toks)
      <3>1. tokens'[c] = toks[c]
        BY <1>1, <2>3 DEF StartRefreshes
      <3>2. QED  BY <2>1, <3>1
    <2>4. QED  BY <2>2, <2>3
  <1>3. QED  BY <1>2 DEF TokenBounds, RecordFits

LEMMA CyclesFit ==
    ASSUME TokenInv, TokenBounds, NEW i \in Cycles, ContinueCycle(i) \/ RefreshInterval(i)
    PROVE  TokenBounds'
  <1>1. tokens \in [TokenConns -> TokenRecord] /\ \A c \in TokenConns : RecordFits(tokens[c])
    BY DEF TokenInv, TokenShape, TokenBounds
  <1>2. CASE ContinueCycle(i)
    BY <1>1, <1>2, BatchFits DEF ContinueCycle
  <1>3. CASE RefreshInterval(i)
    <2> DEFINE aged == [c \in TokenConns |-> Aged(tokens[c])]
    <2>1. ASSUME NEW c \in TokenConns PROVE aged[c] \in TokenRecord /\ RecordFits(aged[c])
      <3>1. tokens[c] \in TokenRecord /\ RecordFits(tokens[c])
        BY <1>1
      <3>2. CASE aged[c] = NoToken
        BY <3>2, NoTokenFits, NoTokenFields
      <3>3. CASE aged[c] = [tokens[c] EXCEPT !.left = @ - 1]
                 /\ ~(tokens[c].left - 1 < 0 - KeepExpired)
        <4>1. /\ aged[c].left = tokens[c].left - 1 /\ aged[c].given = tokens[c].given
              /\ aged[c].attempts = tokens[c].attempts /\ aged[c] \in TokenRecord
          BY <3>1, <3>3 DEF TokenRecord
        <4>2. QED  BY <3>1, <3>3, <4>1, TokenAssumption DEF RecordFits, TokenRecord
      <3>4. QED  BY <3>2, <3>3 DEF Aged
    <2>2. aged \in [TokenConns -> TokenRecord]
      BY <2>1
    <2>3. NextBatch(i, Expiring(aged), aged) /\ UNCHANGED <<registered, validating>>
      BY <1>3 DEF RefreshInterval
    <2> HIDE DEF aged
    <2>4. QED  BY <2>1, <2>2, <2>3, BatchFits
  <1>4. QED  BY <1>2, <1>3

LEMMA AnswerFits ==
    ASSUME TokenInv, TokenBounds, NEW i \in Cycles, NEW c \in TokenConns, NEW gen,
           RefreshAnswered(i, c, gen)
    PROVE  TokenBounds'
  <1>1. tokens \in [TokenConns -> TokenRecord] /\ \A d \in TokenConns : RecordFits(tokens[d])
    BY DEF TokenInv, TokenShape, TokenBounds
  <1>2. RecordFits(UpdateToken(c, gen))
    <2>1. Lifetime \in 0..Lifetime
      BY TokenAssumption
    <2>2. QED  BY <2>1, NoTokenFits, RecordedFits DEF UpdateToken
  <1>3. RecordFits(RefreshFailed(c, gen))
    BY <1>1 DEF RefreshFailed, RecordFits, TokenRecord
  <1>4. \A d \in TokenConns : RecordFits(tokens'[d])
    BY <1>1, <1>2, <1>3 DEF RefreshAnswered
  <1>5. QED  BY <1>4 DEF RefreshAnswered, TokenBounds, RecordFits

LEMMA TokenStepFits == TokenInv /\ TokenBounds /\ [TokenNext]_tokenVars => TokenBounds'
  <1> SUFFICES ASSUME TokenInv, TokenBounds, [TokenNext]_tokenVars PROVE TokenBounds'
    OBVIOUS
  <1>1. ASSUME NEW c \in TokenConns, InitArrives(c) PROVE TokenBounds'
    BY <1>1, InitArrivesFits
  <1>2. ASSUME NEW c \in TokenConns, InitRefused(c) \/ RegisterToken(c) \/ UnregisterToken(c)
        PROVE  TokenBounds'
    BY <1>2, HandlersFit
  <1>3. CASE RefreshStep
    BY <1>3, AnswerFits, CyclesFit DEF RefreshStep
  <1>4. ASSUME NEW i \in Cycles, RefreshInterval(i) PROVE TokenBounds'
    BY <1>4, CyclesFit
  <1>5. CASE UNCHANGED tokenVars
    BY <1>5 DEF tokenVars, TokenBounds, RecordFits
  <1>6. QED  BY <1>1, <1>2, <1>3, <1>4, <1>5 DEF TokenNext

LEMMA TokenTypesHold == TokenInv /\ TokenBounds => TokenTypeOK
  <1> SUFFICES ASSUME TokenInv, TokenBounds PROVE TokenTypeOK
    OBVIOUS
  <1>1. /\ tokenSock \in [TokenConns -> {"open", "closed"}] /\ lateInit \in [TokenConns -> BOOLEAN]
        /\ validating \in [TokenConns -> Nat] /\ registered \in [TokenConns -> Nat]
        /\ tokens \in [TokenConns -> TokenRecord] /\ cycles \in [Cycles -> CycleRecord]
    BY DEF TokenInv, TokenShape
  <1>2. \A c \in TokenConns : registered[c] \in 0..MaxInits /\ validating[c] \in 0..MaxInits
    BY <1>1, TokenAssumption DEF TokenBounds
  <1>3. ASSUME NEW c \in TokenConns
        PROVE  tokens[c] \in [left : (0 - KeepExpired)..Lifetime, given : 0..Lifetime,
                              attempts : 0..MaxRefreshAttempts, refreshing : BOOLEAN, gen : 0..MaxInits]
    <2>1. tokens[c] \in TokenRecord /\ RecordFits(tokens[c])
      BY <1>1 DEF TokenBounds
    <2>2. tokens[c].gen \in 0..MaxInits
      <3>1. CASE HasToken(c)
        BY <1>2, <3>1 DEF TokenInv, RecordsAreNamed
      <3>2. CASE ~HasToken(c)
        BY <3>2, NoTokenFields, TokenAssumption DEF HasToken
      <3>3. QED  BY <3>1, <3>2
    <2>3. QED  BY <2>1, <2>2 DEF TokenRecord, RecordFits
  <1>4. ASSUME NEW i \in Cycles
        PROVE  cycles[i] \in [waiting : SUBSET (TokenConns \X (1..MaxInits)),
                              rest : SUBSET TokenConns]
    <2>1. cycles[i] \in CycleRecord
      BY <1>1
    <2>2. ASSUME NEW p \in cycles[i].waiting PROVE p \in TokenConns \X (1..MaxInits)
      <3>1. p \in TokenConns \X Nat
        BY <2>1 DEF CycleRecord
      <3>2. PICK c \in TokenConns, gen \in Nat : p = <<c, gen>>
        BY <3>1
      <3>3. gen > 0 /\ gen <= registered[c]
        BY <3>2 DEF TokenInv, RecordsAreNamed
      <3>4. gen \in 1..MaxInits
        <4>1. registered[c] \in 0..MaxInits /\ MaxInits \in Nat
          BY <1>2, TokenAssumption
        <4>2. QED  BY <3>3, <4>1
      <3>5. QED  BY <3>2, <3>4
    <2>3. cycles[i].waiting \in SUBSET (TokenConns \X (1..MaxInits))
      BY <2>2
    <2>4. QED  BY <2>1, <2>3 DEF CycleRecord
  <1>5. QED  BY <1>1, <1>2, <1>3, <1>4 DEF TokenTypeOK

(* No record has more attempts than are allowed or is kept longer than the  *)
(* clean-up leaves it, and cycles wait for records that were there.         *)
THEOREM TokenTypesCorrect == TokenSpec => []TokenTypeOK
  <1>1. TokenSpec => []TokenBounds
    BY TokenInitFits, TokenStepFits, TokenInvariant, PTL DEF TokenSpec
  <1>2. QED  BY <1>1, TokenInvariant, TokenTypesHold, PTL
=============================================================================
