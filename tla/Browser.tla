------------------------------- MODULE Browser -------------------------------
(***************************************************************************)
(* Logging in from a tab of the frontend, and the backend it talks to      *)
(* (Accounts): loginWithFreighter asks the wallet for its key, the backend *)
(* for a challenge, the wallet for a signature, and the backend for a      *)
(* token, and keeps token and role in the browser's storage.               *)
(*                                                                         *)
(* Several attempts may be under way: who leaves the login page and comes  *)
(* back starts another, and the first is not cancelled.  The wallet signs  *)
(* with the account that is selected when it is asked.                     *)
(***************************************************************************)
EXTENDS Accounts

CONSTANT NoSession      \* nobody is logged in

VARIABLES
    flow,           \* the attempts: where each is, its key and its role
    storage         \* certchain_token and certchain_role of localStorage

browserVars == <<flow, storage>>

Rested == [pc |-> "rest"]

BrowserInit ==
    /\ AccountsInit
    /\ flow = [l \in Logins |-> Rested]
    /\ storage = NoSession

\* A role is chosen, and the wallet connects with the account selected now.
Start(l, key, role) ==
    /\ flow[l] = Rested /\ login[l].pc = "rest"
    /\ flow' = [flow EXCEPT ![l] = [pc |-> "challenge", key |-> key, role |-> role]]
    /\ UNCHANGED <<storage, accountsVars>>

\* The challenge arrives: any manageData transaction of the server.
Challenge(l) ==
    /\ flow[l].pc = "challenge"
    /\ flow' = [flow EXCEPT ![l].pc = "sign"]
    /\ UNCHANGED <<storage, accountsVars>>

\* The wallet signs, and the signature is sent with the key it connected with.
Sign(l, signer) ==
    /\ flow[l].pc = "sign"
    /\ flow' = [flow EXCEPT ![l].pc = "verify"]
    /\ signed' = signed \cup {signer}
    /\ BeginLogin(l, flow[l].key, {signer}, flow[l].role)
    /\ UNCHANGED storage

\* Mutant of the next definition: the role of the latest attempt is stored.
StoreLatestRole(l) ==
    /\ flow[l].pc = "verify" /\ login[l].pc = "done"
    /\ \E latest \in Logins :
         /\ flow[latest].pc # "rest"
         /\ storage' = [token |-> login[l].token, role |-> flow[latest].role]
    /\ flow' = [flow EXCEPT ![l] = Rested]
    /\ Rest(l)

\* The token arrives: token and role are stored in one turn of the event loop.
Store(l) ==
    /\ flow[l].pc = "verify" /\ login[l].pc = "done"
    /\ storage' = [token |-> login[l].token, role |-> flow[l].role]
    /\ flow' = [flow EXCEPT ![l] = Rested]
    /\ Rest(l)

\* The login is refused.
Refused(l) ==
    /\ flow[l].pc = "verify" /\ login[l].pc = "failed"
    /\ flow' = [flow EXCEPT ![l] = Rested]
    /\ Rest(l)
    /\ UNCHANGED storage

\* The user declines to sign, a request or its answer is lost, or the page is
\* reloaded; the backend's part runs on.
Abandon(l) ==
    /\ flow[l] # Rested
    /\ flow' = [flow EXCEPT ![l] = Rested]
    /\ UNCHANGED <<storage, accountsVars>>

\* logout closes no page and ends no attempt.
Logout ==
    /\ storage # NoSession
    /\ storage' = NoSession
    /\ UNCHANGED <<flow, accountsVars>>

BrowserNext ==
    \/ \E l \in Logins :
          \/ \E key \in Keys, role \in Roles : Start(l, key, role)
          \/ Challenge(l)
          \/ \E signer \in Keys : Sign(l, signer)
          \/ Store(l) \/ Refused(l) \/ Abandon(l)
          \/ flow[l] = Rested /\ Rest(l) /\ UNCHANGED browserVars
    \/ Logout
    \/ \E l \in Logins, key \in Keys, role \in Roles :
          flow[l] = Rested /\ Verify(l, key, role) /\ UNCHANGED browserVars
    \/ \E key \in Keys : SignElsewhere(key) /\ UNCHANGED browserVars
    \/ Backend /\ UNCHANGED browserVars
    \/ \E token \in tokens, id \in 1 .. MaxAccounts, key \in Keys :
          PutMe(token, id, key) /\ UNCHANGED browserVars

BrowserSpec == BrowserInit /\ [][BrowserNext]_<<accountsVars, browserVars>>

-----------------------------------------------------------------------------
(* Properties.                                                             *)

BrowserTypeOK ==
    /\ AccountsTypeOK
    /\ flow \in [Logins -> {Rested} \cup [pc : {"challenge", "sign", "verify"},
                                          key : Keys, role : Roles]]
    /\ storage \in {NoSession} \cup [token : Token, role : Roles]

\* Whatever attempts cross each other, are given up or answered late, the role
\* the pages go by is that of the token their requests carry.
StorageIsOnePair ==
    storage # NoSession => storage.token \in tokens /\ storage.token.role = storage.role
=============================================================================
