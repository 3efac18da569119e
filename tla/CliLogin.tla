------------------------------ MODULE CliLogin ------------------------------
(***************************************************************************)
(* How a command line gets, renews and gives up its tokens: the device     *)
(* flow and the token endpoints of the server (api/auth.ts), the page on   *)
(* which a user confirms, and CLIAuth and AuthManager, of which each       *)
(* process on a machine has its own; the credential store they share.      *)
(* Every handler reads a row and writes it after an await.                 *)
(***************************************************************************)
EXTENDS Naturals

CONSTANTS
    Clis,            \* the processes of one machine
    Logins,          \* the rows of cli_tokens, one for each login begun
    Tabs,            \* pages on which a user confirms
    MaxPairs,        \* bound: pairs of tokens signed
    MaxFailures      \* bound: requests that fail, or whose answer is lost

NoLogin == "none"

ASSUME CliAssumption == {MaxPairs, MaxFailures} \subseteq Nat /\ NoLogin \notin Logins

VARIABLES
    tokenRows,       \* cli_tokens; pair 0: not confirmed
    tabs,            \* the row each page's confirmation found
    cli,             \* what each process is doing, with which row and pair
    creds,           \* the credential store
    signed, failures,
    disturbed        \* history: operations overlapped, or one failed

cliVars == <<tokenRows, tabs, cli, creds, signed, failures, disturbed>>

NoCreds == [row |-> NoLogin, pair |-> 0, fresh |-> FALSE]
IdleCli == [at |-> "idle", row |-> NoLogin, pair |-> 0]

CliInit ==
    /\ tokenRows = [l \in Logins |-> [at |-> "none", pair |-> 0, open |-> FALSE]]
    /\ tabs = [t \in Tabs |-> NoLogin]
    /\ cli = [c \in Clis |-> IdleCli]
    /\ creds = NoCreds
    /\ signed = 0 /\ failures = 0 /\ disturbed = FALSE

\* A process that has begun to renew the tokens or to log out.
AtWork(c) == cli[c].at \notin {"idle", "polling", "validating"}
Overlaps(c) == \E d \in Clis \ {c} : AtWork(d)

\* Both tokens of a new pair are written into the row.
Sign(l) ==
    /\ signed < MaxPairs
    /\ signed' = signed + 1
    /\ tokenRows' = [tokenRows EXCEPT ![l].pair = signed']

-----------------------------------------------------------------------------
(* Logging in.                                                              *)

Authorize(c) ==
    /\ cli[c].at = "idle"
    /\ \E l \in Logins :
          /\ tokenRows[l].at = "none"
          /\ tokenRows' = [tokenRows EXCEPT ![l] = [at |-> "live", pair |-> 0, open |-> TRUE]]
          /\ cli' = [cli EXCEPT ![c] = [at |-> "polling", row |-> l, pair |-> 0]]
    /\ UNCHANGED <<tabs, creds, signed, failures, disturbed>>

\* A row that can still be confirmed; it is looked at before the await.
FindCode(t) ==
    /\ tabs[t] = NoLogin
    /\ \E l \in Logins :
          /\ tokenRows[l].at = "live" /\ tokenRows[l].open /\ tokenRows[l].pair = 0
          /\ tabs' = [tabs EXCEPT ![t] = l]
    /\ UNCHANGED <<tokenRows, cli, creds, signed, failures, disturbed>>

\* expires_at stays that of the code.
Confirm(t) ==
    /\ tabs[t] # NoLogin
    /\ Sign(tabs[t])
    /\ tabs' = [tabs EXCEPT ![t] = NoLogin]
    /\ disturbed' = (disturbed \/ tokenRows[tabs[t]].pair # 0)
    /\ UNCHANGED <<cli, creds, failures>>

\* expires_at passes: ten minutes after the code, or an hour after a renewal.
CodeExpires(l) ==
    /\ tokenRows[l].open
    /\ tokenRows' = [tokenRows EXCEPT ![l].open = FALSE]
    /\ UNCHANGED <<tabs, cli, creds, signed, failures, disturbed>>

\* An answer that ends the polling.
Poll(c) ==
    /\ cli[c].at = "polling"
    /\ LET row == tokenRows[cli[c].row]
       IN  \/ /\ row.at = "live" /\ row.open /\ row.pair # 0
              /\ cli' = [cli EXCEPT ![c].at = "validating", ![c].pair = row.pair]
           \/ /\ row.at = "revoked" \/ ~row.open
              /\ cli' = [cli EXCEPT ![c] = IdleCli]
    /\ UNCHANGED <<tokenRows, tabs, creds, signed, failures, disturbed>>

\* The polling is given up, the token cannot be validated, or the process is stopped.
LoginFails(c) ==
    /\ cli[c].at \in {"polling", "validating"}
    /\ cli' = [cli EXCEPT ![c] = IdleCli]
    /\ UNCHANGED <<tokenRows, tabs, creds, signed, failures, disturbed>>

StoreLogin(c) ==
    /\ cli[c].at = "validating"
    /\ creds' = [row |-> cli[c].row, pair |-> cli[c].pair, fresh |-> TRUE]
    /\ cli' = [cli EXCEPT ![c] = IdleCli]
    /\ disturbed' = (disturbed \/ Overlaps(c))
    /\ UNCHANGED <<tokenRows, tabs, signed, failures>>

-----------------------------------------------------------------------------
(* Renewing: expires_at of the stored tokens is less than five minutes      *)
(* ahead.  They are read once to see that, and once more to renew them.     *)

TokenAges ==
    /\ creds.fresh
    /\ creds' = [creds EXCEPT !.fresh = FALSE]
    /\ UNCHANGED <<tokenRows, tabs, cli, signed, failures, disturbed>>

NeedsRefresh(c) ==
    /\ cli[c].at = "idle"
    /\ creds # NoCreds /\ ~creds.fresh
    /\ cli' = [cli EXCEPT ![c].at = "due"]
    /\ disturbed' = (disturbed \/ Overlaps(c))
    /\ UNCHANGED <<tokenRows, tabs, creds, signed, failures>>

AskRefresh(c) ==
    /\ cli[c].at = "due"
    /\ cli' = [cli EXCEPT ![c] =
                 IF creds = NoCreds THEN IdleCli
                 ELSE [at |-> "asking", row |-> creds.row, pair |-> creds.pair]]
    /\ UNCHANGED <<tokenRows, tabs, creds, signed, failures, disturbed>>

\* The server looks for a row with this refresh token that is not revoked.
FindPair(c) ==
    /\ cli[c].at = "asking"
    /\ cli' = [cli EXCEPT ![c].at =
                 IF \E l \in Logins : tokenRows[l].at = "live" /\ tokenRows[l].pair = cli[c].pair
                 THEN "found" ELSE "clearing"]
    /\ UNCHANGED <<tokenRows, tabs, creds, signed, failures, disturbed>>

\* It writes by the row's id, whatever the row holds by then.
Rotate(c) ==
    /\ cli[c].at = "found" /\ signed < MaxPairs
    /\ signed' = signed + 1
    /\ tokenRows' = [tokenRows EXCEPT ![cli[c].row].pair = signed', ![cli[c].row].open = TRUE]
    /\ cli' = [cli EXCEPT ![c].at = "granted", ![c].pair = signed']
    /\ UNCHANGED <<tabs, creds, failures, disturbed>>

\* Slip: the credentials read before are spread over the new tokens.
OldTokens(c) == [row |-> cli[c].row, pair |-> creds.pair, fresh |-> TRUE]

NewTokens(c) == [row |-> cli[c].row, pair |-> cli[c].pair, fresh |-> TRUE]

StoreRefresh(c) ==
    /\ cli[c].at = "granted"
    /\ creds' = NewTokens(c)
    /\ cli' = [cli EXCEPT ![c] = IdleCli]
    /\ UNCHANGED <<tokenRows, tabs, signed, failures, disturbed>>

(* No answer, an answer that is lost, or the server's update fails: the     *)
(* caller cannot tell, and clears the credentials.                          *)
RefreshLost(c) ==
    /\ cli[c].at \in {"asking", "found", "granted"}
    /\ failures < MaxFailures /\ failures' = failures + 1
    /\ cli' = [cli EXCEPT ![c].at = "clearing"]
    /\ disturbed' = TRUE
    /\ UNCHANGED <<tokenRows, tabs, creds, signed>>

ClearCredentials(c) ==
    /\ cli[c].at = "clearing"
    /\ creds' = NoCreds
    /\ cli' = [cli EXCEPT ![c] = IdleCli]
    /\ UNCHANGED <<tokenRows, tabs, signed, failures, disturbed>>

-----------------------------------------------------------------------------
(* Logging out.                                                             *)

Revoked(c) ==
    [l \in Logins |-> IF tokenRows[l].pair = cli[c].pair
                      THEN [tokenRows[l] EXCEPT !.at = "revoked"] ELSE tokenRows[l]]

Logout(c) ==
    /\ cli[c].at = "idle" /\ creds # NoCreds
    /\ cli' = [cli EXCEPT ![c] = [at |-> "revoking", row |-> creds.row, pair |-> creds.pair]]
    /\ disturbed' = (disturbed \/ Overlaps(c))
    /\ UNCHANGED <<tokenRows, tabs, creds, signed, failures>>

\* Both tokens are revoked, one after the other: they are of one row.
Revoke(c) ==
    /\ cli[c].at = "revoking"
    /\ tokenRows' = Revoked(c)
    /\ cli' = [cli EXCEPT ![c].at = "leaving"]
    /\ UNCHANGED <<tabs, creds, signed, failures, disturbed>>

\* "Continue with logout even if revocation fails"
RevokeFails(c) ==
    /\ cli[c].at = "revoking"
    /\ failures < MaxFailures /\ failures' = failures + 1
    /\ cli' = [cli EXCEPT ![c].at = "leaving"]
    /\ disturbed' = TRUE
    /\ UNCHANGED <<tokenRows, tabs, creds, signed>>

DeleteCredentials(c) ==
    /\ cli[c].at = "leaving"
    /\ creds' = NoCreds
    /\ cli' = [cli EXCEPT ![c] = IdleCli]
    /\ UNCHANGED <<tokenRows, tabs, signed, failures, disturbed>>

-----------------------------------------------------------------------------
CliNext ==
    \/ \E c \in Clis :
          \/ Authorize(c) \/ Poll(c) \/ LoginFails(c) \/ StoreLogin(c)
          \/ NeedsRefresh(c) \/ AskRefresh(c) \/ FindPair(c) \/ Rotate(c) \/ StoreRefresh(c)
          \/ RefreshLost(c) \/ ClearCredentials(c)
          \/ Logout(c) \/ Revoke(c) \/ RevokeFails(c) \/ DeleteCredentials(c)
    \/ \E t \in Tabs : FindCode(t) \/ Confirm(t)
    \/ \E l \in Logins : CodeExpires(l)
    \/ TokenAges

CliSpec == CliInit /\ [][CliNext]_cliVars

-----------------------------------------------------------------------------
CliTypeOK ==
    /\ tokenRows \in [Logins -> [at : {"none", "live", "revoked"}, pair : 0..MaxPairs, open : BOOLEAN]]
    /\ tabs \in [Tabs -> Logins \cup {NoLogin}]
    /\ cli \in [Clis -> [at : {"idle", "polling", "validating", "due", "asking", "found", "granted",
                               "clearing", "revoking", "leaving"},
                         row : Logins \cup {NoLogin}, pair : 0..MaxPairs]]
    /\ creds \in [row : Logins \cup {NoLogin}, pair : 0..MaxPairs, fresh : BOOLEAN]
    /\ signed \in 0..MaxPairs /\ failures \in 0..MaxFailures /\ disturbed \in BOOLEAN

Honoured == tokenRows[creds.row].at = "live" /\ tokenRows[creds.row].pair = creds.pair

(* As long as no answer was lost, no code was confirmed twice, and no       *)
(* renewal or logout overlapped with another step on the store, what is     *)
(* stored is what the server will renew: through any logins, some of them   *)
(* under way at the same time, renewals, and codes that expire.             *)
StoredIsHonoured ==
    /\ ~disturbed /\ creds # NoCreds
    /\ \A c \in Clis : cli[c].at \notin {"granted", "leaving"}
    => Honoured

(* "Clear invalid credentials": a renewal that fails clears what the server *)
(* would no longer have renewed.                                            *)
OnlyInvalidCleared ==
    [][\A c \in Clis :
          cli[c].at = "clearing" /\ cli'[c].at = "idle" /\ creds # NoCreds => ~Honoured]_cliVars
=============================================================================
