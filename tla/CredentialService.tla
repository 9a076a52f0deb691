-------------------------- MODULE CredentialService --------------------------
(***************************************************************************)
(* What the backend promises whoever asks it to issue or to revoke a       *)
(* credential, with nothing of transactions, accounts and awaits: a        *)
(* request takes effect on the chain at most once and exactly as asked,    *)
(* its effect is recorded in the index afterwards, and it is answered only *)
(* when it is recorded.  Equal revocations may be served by one effect,    *)
(* which each of them records; nothing else is recorded twice.  A request  *)
(* may be given up at any time; what it has done by then stays, and one    *)
(* that was given up late may still take effect.                           *)
(***************************************************************************)
EXTENDS CredentialLifecycle

CONSTANTS
    Calls,          \* the requests
    Institutions,   \* the institutions that use the backend
    NoRow           \* what the index holds for an id it does not know

VARIABLES
    request,        \* what each request asks for
    effect,         \* the id each request issued or revoked, 0 for none yet
    index,          \* the backend's index of credentials
    answered        \* the requests answered with success

serviceVars == <<book, ledger, request, effect, index, answered>>

NoRequest == [op |-> "none", institution |-> "none", graduate |-> "none", id |-> 0]

ServiceInit ==
    /\ Init
    /\ request = [c \in Calls |-> NoRequest]
    /\ effect = [c \in Calls |-> 0]
    /\ index = [id \in Ids |-> NoRow]
    /\ answered = {}

Ask(c) ==
    /\ request[c] = NoRequest
    /\ \E institution \in Institutions :
          \/ \E graduate \in Addresses :
                request' = [request EXCEPT ![c] =
                              [op |-> "issue", institution |-> institution,
                               graduate |-> graduate, id |-> 0]]
          \/ \E id \in Ids :
                request' = [request EXCEPT ![c] =
                              [op |-> "revoke", institution |-> institution,
                               graduate |-> "none", id |-> id]]
    /\ UNCHANGED <<book, ledger, effect, index, answered>>

\* Requests that have done nothing are given up and never will do anything.
GiveUp ==
    /\ \E C \in SUBSET {c \in Calls : effect[c] = 0} :
          request' = [c \in Calls |-> IF c \in C THEN NoRequest ELSE request[c]]
    /\ UNCHANGED <<book, ledger, effect, index, answered>>

\* A request takes effect.
IssueFor(c, id) ==
    /\ effect[c] = 0
    /\ request[c].op = "issue"
    /\ Mint(id, request[c].institution, request[c].graduate, 0)
    /\ effect' = [effect EXCEPT ![c] = id]
    /\ UNCHANGED <<request, index, answered>>

\* So do equal revocations C, at once.
RevokeFor(C, id) ==
    /\ C # {}
    /\ book[id] # Absent
    /\ \A c \in C : /\ effect[c] = 0
                    /\ request[c].op = "revoke"
                    /\ request[c].id = id
                    /\ request[c].institution = book[id].institution
    /\ Revoke(id)
    /\ effect' = [c \in Calls |-> IF c \in C THEN id ELSE effect[c]]
    /\ UNCHANGED <<request, index, answered>>

\* Another revocation shares the effect of c.
Shared(c) == \E d \in Calls \ {c} : request[d].op = "revoke" /\ effect[d] = effect[c]

\* Its effect is recorded, from what it asked; the answer may follow at once.
Record(c, id) ==
    /\ effect[c] = id
    /\ \/ /\ request[c].op = "issue"
          /\ index[id] = NoRow
          /\ index' = [index EXCEPT ![id] = [institution |-> request[c].institution,
                                             graduate |-> request[c].graduate,
                                             status |-> "VALID"]]
       \/ /\ request[c].op = "revoke"
          /\ index[id] # NoRow
          /\ index[id].status = "VALID" \/ Shared(c)
          /\ index' = [index EXCEPT ![id].status = "REVOKED"]
    /\ answered' \in {answered, answered \cup {c}}
    /\ UNCHANGED <<book, ledger, request, effect>>

\* It is answered, its effect on the chain and in the index.
Answer(c, id) ==
    /\ effect[c] = id
    /\ index[id] # NoRow
    /\ request[c].op = "revoke" => index[id].status = "REVOKED"
    /\ answered' = answered \cup {c}
    /\ UNCHANGED <<book, ledger, request, effect, index>>

\* The contract is used without the backend.
Elsewhere ==
    /\ \E id \in Ids : \/ \E institution, graduate \in Addresses :
                             Mint(id, institution, graduate, 0)
                       \/ Revoke(id)
    /\ UNCHANGED <<request, effect, index, answered>>

ServiceNext ==
    \/ \E c \in Calls : Ask(c)
    \/ GiveUp
    \/ \E c \in Calls, id \in Ids : IssueFor(c, id) \/ Record(c, id) \/ Answer(c, id)
    \/ \E C \in SUBSET Calls, id \in Ids : RevokeFor(C, id)
    \/ Elsewhere

ServiceSpec == ServiceInit /\ [][ServiceNext]_serviceVars
=============================================================================
