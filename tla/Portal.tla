-------------------------------- MODULE Portal --------------------------------
(***************************************************************************)
(* A tab of the frontend: its routes and their guard, the public page that *)
(* verifies a credential, the institution's pages (dashboard, issue,       *)
(* manage), their requests, and what the backend does with them.           *)
(*                                                                         *)
(* The browser's storage is shared by its tabs: who is logged in may       *)
(* change under an open page, and a request carries the token stored when  *)
(* it is made.  Requests are answered in any order.  A page that has been  *)
(* left shows nothing any more, but its callbacks still run.  What         *)
(* issueCredential and revokeCredential can do, and leave half done, is    *)
(* taken from Issuance.                                                    *)
(***************************************************************************)
EXTENDS Naturals, FiniteSets

CONSTANTS
    Institutions,   \* the institutions' accounts
    Nobody,         \* no institution: nobody is logged in, an id is not issued
    Graduate,       \* somebody is logged in who is not an institution
    Ids,            \* credential ids
    Requests        \* HTTP requests in flight at a time

ASSUME UsersAssumption ==
    /\ Nobody \notin Institutions /\ Graduate \notin Institutions
    /\ Nobody # Graduate

VARIABLES
    user,           \* whom the stored token names
    page,           \* the component the tab shows
    shown,          \* the credentials the page was given, by status
    loading,        \* the issue form, or the verify page, waits for an answer
    visit,          \* the verify page: its address and its result
    request,        \* the requests of the tab
    issuer,         \* the institution of every credential
    chain,          \* the status of every credential on the chain
    rows,           \* ... and in the credentials table
    told,           \* history: ids this page reported as revoked
    unreported,     \* history: ids issued for this page and not reported yet
    excused         \* history: this page got an error, or had two lists under way

session == <<user, page>>
backend == <<issuer, chain, rows>>
history == <<told, unreported, excused>>
portalVars == <<session, shown, loading, visit, request, backend, history>>

Users == Institutions \cup {Graduate, Nobody}

Guarded == {"dashboard", "issue", "manage", "wallet"}

Pages == {"home", "login", "verify"} \cup Guarded

\* What a page asks the backend for when it is opened: the dashboard for the
\* list's counts by status, the graduate's wallet at a route that does not exist.
Asks(p) == CASE p \in {"manage", "dashboard"} -> {"load"}
             [] p \in {"wallet", "verify"} -> {p}
             [] OTHER -> {}

Status == {"absent", "VALID", "REVOKED"}

Empty == [id \in Ids |-> "absent"]

Rest == [pc |-> "rest"]

\* The verify page as it is created: the id is read from the route, once.
NewVisit(ids) == [address |-> ids, result |-> {}]

\* The request a page makes: the interceptor adds the token stored now.
Request(kind, ids) ==
    [pc |-> "sent", kind |-> kind, ids |-> ids, sub |-> user, live |-> TRUE]

\* The open page waits for the answer to the request.
LiveIs(r, kind) == request[r] # Rest /\ request[r].live /\ request[r].kind = kind

Reloading == \E r \in Requests : LiveIs(r, "load")

PortalInit ==
    /\ user = Nobody /\ page = "home"
    /\ shown = Empty /\ loading = FALSE /\ visit = NewVisit({})
    /\ request = [r \in Requests |-> Rest]
    /\ issuer = [id \in Ids |-> Nobody] /\ chain = Empty /\ rows = Empty
    /\ told = {} /\ unreported = {} /\ excused = FALSE

-----------------------------------------------------------------------------
(* Session and routes.                                                     *)

\* A login or a logout, in this tab or in another.  It closes no page.
SwitchUser(u) ==
    /\ user' = u
    /\ UNCHANGED <<page, shown, loading, visit, request, backend, history>>

\* AuthGuard lets in everybody who is logged in, in whatever role.
Destination(p) == IF p \in Guarded /\ user = Nobody THEN "login" ELSE p

\* A link, the address bar or a redirection: the page before is gone, its
\* requests are not.
Navigate(p, ids) ==
    LET left == [r \in Requests |-> IF request[r] = Rest THEN Rest
                                    ELSE [request[r] EXCEPT !.live = FALSE]]
    IN  /\ page' = Destination(p)
        /\ IF Asks(page') = {} THEN request' = left
           ELSE \E r \in Requests, kind \in Asks(page') :
                  /\ request[r] = Rest
                  /\ request' = [left EXCEPT ![r] = Request(kind, ids)]
        /\ shown' = Empty /\ loading' = (p = "verify") /\ visit' = NewVisit(ids)
        /\ told' = {} /\ unreported' = {} /\ excused' = FALSE
        /\ UNCHANGED <<user, backend>>

\* From one verify page to another in the tab's history: the router keeps the
\* component, which has read its id already.
Jump(id) ==
    /\ page = "verify" /\ visit.address # {id}
    /\ visit' = [visit EXCEPT !.address = {id}]
    /\ UNCHANGED <<session, shown, loading, request, backend, history>>

-----------------------------------------------------------------------------
(* The pages.                                                              *)

\* The credential's line has the button.
Revocable(id) == page = "manage" /\ shown[id] = "VALID"

RevokeClick(r, id) ==
    /\ Revocable(id)
    /\ request[r] = Rest
    /\ request' = [request EXCEPT ![r] = Request("revoke", {id})]
    /\ UNCHANGED <<session, shown, loading, visit, backend, history>>

SubmitAgain(r) ==                                               \* mutant
    /\ page = "issue"
    /\ request[r] = Rest
    /\ request' = [request EXCEPT ![r] = Request("issue", {})]
    /\ loading' = TRUE
    /\ UNCHANGED <<session, shown, visit, backend, history>>

\* The button is disabled while an answer is awaited.
Submit(r) ==
    /\ page = "issue"
    /\ ~loading
    /\ request[r] = Rest
    /\ request' = [request EXCEPT ![r] = Request("issue", {})]
    /\ loading' = TRUE
    /\ UNCHANGED <<session, shown, visit, backend, history>>

ReceiveList(r) ==
    /\ request[r].pc = "ok" /\ request[r].kind = "load"
    /\ request' = [request EXCEPT ![r] = Rest]
    /\ shown' = IF request[r].live THEN request[r].list ELSE shown
    /\ UNCHANGED <<session, loading, visit, backend, history>>

ReceiveRevokedNoReload(r) ==                                    \* mutant
    /\ request[r].pc = "ok" /\ request[r].kind = "revoke"
    /\ request' = [request EXCEPT ![r] = Rest]
    /\ told' = told \cup (IF request[r].live THEN request[r].ids ELSE {})
    /\ UNCHANGED <<session, shown, loading, visit, backend, unreported, excused>>

\* A revocation is reported, and the list asked for again.
ReceiveRevoked(r) ==
    /\ request[r].pc = "ok" /\ request[r].kind = "revoke"
    /\ request' = [request EXCEPT ![r] = [Request("load", {}) EXCEPT !.live = request[r].live]]
    /\ IF request[r].live
       THEN /\ told' = told \cup request[r].ids
            /\ excused' = (excused \/ Reloading)
       ELSE UNCHANGED <<told, excused>>
    /\ UNCHANGED <<session, shown, loading, visit, backend, unreported>>

\* An issue is reported and the form emptied.
ReceiveIssued(r) ==
    /\ request[r].pc = "ok" /\ request[r].kind = "issue"
    /\ request' = [request EXCEPT ![r] = Rest]
    /\ IF request[r].live
       THEN loading' = FALSE /\ unreported' = unreported \ request[r].ids
       ELSE UNCHANGED <<loading, unreported>>
    /\ UNCHANGED <<session, shown, visit, backend, told, excused>>

ReceiveVerified(r) ==
    /\ request[r].pc = "ok" /\ request[r].kind = "verify"
    /\ request' = [request EXCEPT ![r] = Rest]
    /\ IF request[r].live
       THEN loading' = FALSE /\ visit' = [visit EXCEPT !.result = request[r].ids]
       ELSE UNCHANGED <<loading, visit>>
    /\ UNCHANGED <<session, shown, backend, history>>

\* An error is shown at most (the verify page calls any error "not found"); the
\* form keeps what was entered.
ReceiveError(r) ==
    /\ request[r].pc = "failed"
    /\ request' = [request EXCEPT ![r] = Rest]
    /\ excused' = (excused \/ request[r].live)
    /\ loading' = (loading /\ ~request[r].live)
    /\ UNCHANGED <<session, shown, visit, backend, told, unreported>>

-----------------------------------------------------------------------------
(* The backend.  JWT strategy and roles guard refuse all but institutions. *)

\* listByInstitution.
List(sub) == [id \in Ids |-> IF issuer[id] = sub THEN rows[id] ELSE "absent"]

ServeList(r) ==
    /\ request[r].pc = "sent" /\ request[r].kind = "load"
    /\ request[r].sub \in Institutions
    /\ request' = [request EXCEPT ![r] = [pc |-> "ok", kind |-> "load", live |-> @.live,
                                          list |-> List(@.sub)]]
    /\ UNCHANGED <<session, shown, loading, visit, backend, history>>

\* verifyById answers everybody, of ids on the chain.
ServeVerify(r) ==
    /\ request[r].pc = "sent" /\ request[r].kind = "verify"
    /\ \A id \in request[r].ids : chain[id] # "absent"
    /\ request' = [request EXCEPT ![r].pc = "ok"]
    /\ UNCHANGED <<session, shown, loading, visit, backend, history>>

RevokeAnyones(r) ==                                             \* mutant
    /\ request[r].pc = "sent" /\ request[r].kind = "revoke"
    /\ request[r].sub \in Institutions
    /\ \A id \in request[r].ids : rows[id] # "absent" /\ chain[id] = "VALID"
    /\ chain' = [id \in Ids |-> IF id \in request[r].ids THEN "REVOKED" ELSE chain[id]]
    /\ request' = [request EXCEPT ![r].pc = "applied"]
    /\ UNCHANGED <<session, shown, loading, visit, issuer, rows, history>>

\* revokeCredential finds the institution's own row and revokes on the chain.
Revoke(r) ==
    /\ request[r].pc = "sent" /\ request[r].kind = "revoke"
    /\ request[r].sub \in Institutions
    /\ \A id \in request[r].ids : List(request[r].sub)[id] # "absent" /\ chain[id] = "VALID"
    /\ chain' = [id \in Ids |-> IF id \in request[r].ids THEN "REVOKED" ELSE chain[id]]
    /\ request' = [request EXCEPT ![r].pc = "applied"]
    /\ UNCHANGED <<session, shown, loading, visit, issuer, rows, history>>

IssueForAnyone(r) ==                                            \* mutant
    /\ request[r].pc = "sent" /\ request[r].kind = "issue"
    /\ request[r].sub # Nobody
    /\ \E id \in {k \in Ids : chain[k] = "absent"} :
          /\ chain' = [chain EXCEPT ![id] = "VALID"]
          /\ issuer' = [issuer EXCEPT ![id] = request[r].sub]
          /\ request' = [request EXCEPT ![r].pc = "applied", ![r].ids = {id}]
          /\ unreported' = unreported \cup (IF request[r].live THEN {id} ELSE {})
    /\ UNCHANGED <<session, shown, loading, visit, rows, told, excused>>

\* issueCredential: a new credential on the chain.
Issue(r) ==
    /\ request[r].pc = "sent" /\ request[r].kind = "issue"
    /\ request[r].sub \in Institutions
    /\ \E id \in {k \in Ids : chain[k] = "absent"} :
          /\ chain' = [chain EXCEPT ![id] = "VALID"]
          /\ issuer' = [issuer EXCEPT ![id] = request[r].sub]
          /\ request' = [request EXCEPT ![r].pc = "applied", ![r].ids = {id}]
          /\ unreported' = unreported \cup (IF request[r].live THEN {id} ELSE {})
    /\ UNCHANGED <<session, shown, loading, visit, rows, told, excused>>

\* Both then write the row, and answer; the answer may be lost.
Save(r) ==
    /\ request[r].pc = "applied"
    /\ rows' = [id \in Ids |-> IF id \notin request[r].ids THEN rows[id]
                               ELSE IF request[r].kind = "issue" THEN "VALID" ELSE "REVOKED"]
    /\ \E outcome \in {"ok", "failed"} : request' = [request EXCEPT ![r].pc = outcome]
    /\ UNCHANGED <<session, shown, loading, visit, issuer, chain, history>>

\* A request is refused, an await throws, the process dies or an answer is lost.
Fail(r) ==
    /\ request[r].pc \in {"sent", "applied"}
    /\ request' = [request EXCEPT ![r].pc = "failed"]
    /\ UNCHANGED <<session, shown, loading, visit, backend, history>>

PortalNext ==
    \/ \E u \in Users : SwitchUser(u)
    \/ \E p \in Pages \ {"verify"} : Navigate(p, {})
    \/ \E id \in Ids : Navigate("verify", {id}) \/ Jump(id)
    \/ \E r \in Requests :
          \/ \E id \in Ids : RevokeClick(r, id)
          \/ Submit(r)
          \/ ReceiveList(r) \/ ReceiveRevoked(r) \/ ReceiveIssued(r)
          \/ ReceiveVerified(r) \/ ReceiveError(r)
          \/ ServeList(r) \/ ServeVerify(r) \/ Revoke(r) \/ Issue(r) \/ Save(r) \/ Fail(r)

PortalSpec == PortalInit /\ [][PortalNext]_portalVars

-----------------------------------------------------------------------------
(* Properties.                                                             *)

PortalTypeOK ==
    /\ user \in Users /\ page \in Pages /\ loading \in BOOLEAN /\ excused \in BOOLEAN
    /\ shown \in [Ids -> Status] /\ chain \in [Ids -> Status] /\ rows \in [Ids -> Status]
    /\ issuer \in [Ids -> Institutions \cup {Nobody}]
    /\ visit \in [address : SUBSET Ids, result : SUBSET Ids]
    /\ told \subseteq Ids /\ unreported \subseteq Ids
    /\ \A r \in Requests :
          \/ request[r] = Rest
          \/ request[r] \in [pc : {"ok"}, kind : {"load"}, live : BOOLEAN,
                             list : [Ids -> Status]]
          \/ request[r] \in [pc : {"sent", "applied", "ok", "failed"}, sub : Users,
                             kind : {"load", "wallet", "verify", "revoke", "issue"},
                             ids : SUBSET Ids, live : BOOLEAN]

\* What the page reported as revoked is revoked, on the chain and in the table,
\* and it was revoked for its own issuer, who was logged in at the click: though
\* another tab may have logged in somebody else under the open page.
ReportsAreTrue ==
    /\ \A id \in told : chain[id] = "REVOKED" /\ rows[id] = "REVOKED"
    /\ \A r \in Requests :
          request[r].pc = "applied" =>
            \A id \in request[r].ids : issuer[id] = request[r].sub

\* A credential the page reported as revoked is not left shown as VALID: its
\* list is reloaded after the row was written, whatever else is under way.  What
\* excuses the page is an error it was shown, or two lists under way at once,
\* which may arrive in the other order (manage.component.ts:62 keeps the last).
RevocationsShown ==
    \A id \in told : shown[id] = "VALID" => excused \/ Reloading

\* However often the button is pressed, a form has one request under way, after
\* errors too; and as long as the page was shown no error, at most one credential
\* of the form is on the chain unreported, the one it waits for.
IssuedOnce ==
    /\ \A r, s \in Requests : LiveIs(r, "issue") /\ LiveIs(s, "issue") => r = s
    /\ ~excused => Cardinality(unreported) <= 1 /\ (unreported # {} => loading)
=============================================================================
