----------------------------- MODULE PortalProofs -----------------------------
(***************************************************************************)
(* What the pages tell their users, for any number of institutions,        *)
(* credentials and requests in flight, and whatever other tabs do.         *)
(***************************************************************************)
EXTENDS Portal, FiniteSetTheorems, TLAPS

Listed == [pc : {"ok"}, kind : {"load"}, live : BOOLEAN, list : [Ids -> Status]]

Asked == [pc : {"sent", "applied", "ok", "failed"}, sub : Users,
          kind : {"load", "wallet", "verify", "revoke", "issue"},
          ids : SUBSET Ids, live : BOOLEAN]

\* The part of PortalTypeOK that no request is in.
PageTypeOK ==
    /\ user \in Users /\ page \in Pages /\ loading \in BOOLEAN /\ excused \in BOOLEAN
    /\ shown \in [Ids -> Status] /\ chain \in [Ids -> Status] /\ rows \in [Ids -> Status]
    /\ issuer \in [Ids -> Institutions \cup {Nobody}]
    /\ visit \in [address : SUBSET Ids, result : SUBSET Ids]
    /\ told \subseteq Ids /\ unreported \subseteq Ids

\* A list is what an answered request for one holds.
ShapePart ==
    /\ PageTypeOK
    /\ request \in [Requests -> {Rest} \cup Listed \cup Asked]
    /\ \A r \in Requests :
          /\ request[r].pc = "ok" /\ request[r].kind = "load" => request[r] \in Listed
          /\ request[r].pc = "applied" => request[r].kind \in {"issue", "revoke"}

\* What a request has done, on the chain and in the table.
RequestDone(r) ==
    /\ request[r].pc = "applied" => \A id \in request[r].ids :
         /\ issuer[id] = request[r].sub /\ chain[id] # "absent"
         /\ request[r].kind = "issue" => rows[id] = "absent"
         /\ request[r].kind = "revoke" => chain[id] = "REVOKED" /\ rows[id] # "absent"
    /\ request[r].pc = "ok" /\ request[r].kind = "revoke" => \A id \in request[r].ids :
         chain[id] = "REVOKED" /\ rows[id] = "REVOKED"

\* An issue that has not written its row yet is the only one of its id.
IssuesApart ==
    \A r, s \in Requests :
       /\ r # s
       /\ request[r].pc = "applied" /\ request[r].kind = "issue"
       /\ request[s].pc = "applied" /\ request[s].kind = "issue"
       => request[r].ids \cap request[s].ids = {}

RowsOnChain == \A id \in Ids : rows[id] # "absent" => chain[id] # "absent"

ToldIsRevoked == \A id \in told : chain[id] = "REVOKED" /\ rows[id] = "REVOKED"

DonePart == RowsOnChain /\ ToldIsRevoked /\ IssuesApart /\ \A r \in Requests : RequestDone(r)

\* The requests of the open page are of its kind, and one form awaits one answer.
LivePart ==
    /\ \A r \in Requests : request[r] # Rest /\ request[r].live =>
          /\ request[r].kind = "issue" <=> page = "issue"
          /\ request[r].kind = "verify" <=> page = "verify"
          /\ request[r].kind = "issue" => loading
    /\ \A r, s \in Requests : LiveIs(r, "issue") /\ LiveIs(s, "issue") => r = s

\* The one list under way was or will be made after what was reported.
ReloadPart ==
    /\ RevocationsShown
    /\ ~excused =>
         /\ \A r, s \in Requests : LiveIs(r, "load") /\ LiveIs(s, "load") => r = s
         /\ \A r \in Requests : LiveIs(r, "load") /\ request[r].pc = "ok" =>
              \A id \in told : request[r].list[id] # "VALID"

\* An id that was issued and not reported is what the form waits for.
IssuedPart ==
    ~excused => \A id \in unreported : \E r \in Requests :
       LiveIs(r, "issue") /\ request[r].pc # "sent" /\ request[r].ids = {id}

PortalInv == ShapePart /\ DonePart /\ LivePart /\ ReloadPart /\ IssuedPart

LEMMA PortalInvInit == PortalInit => PortalInv
<1> SUFFICES ASSUME PortalInit PROVE PortalInv
  OBVIOUS
<1>1. \A r \in Requests : request[r] = Rest /\ request[r].pc = "rest"
  BY DEF PortalInit, Rest
<1>2. ShapePart
  BY <1>1, UsersAssumption
     DEF PortalInit, ShapePart, PageTypeOK, Empty, Status, Users, Pages, Guarded, NewVisit
<1>3. DonePart /\ LivePart /\ ReloadPart /\ IssuedPart
  BY <1>1 DEF PortalInit, DonePart, RowsOnChain, ToldIsRevoked, IssuesApart, RequestDone,
              LivePart, ReloadPart, IssuedPart, LiveIs, RevocationsShown, Empty
<1> QED
  BY <1>2, <1>3 DEF PortalInv

LEMMA SwitchUserStep ==
    ASSUME PortalInv, NEW u \in Users, SwitchUser(u)
    PROVE  PortalInv'
BY DEF SwitchUser, backend, history, PortalInv, ShapePart, PageTypeOK, DonePart, RowsOnChain,
       ToldIsRevoked, IssuesApart, RequestDone, LivePart,
       ReloadPart, IssuedPart, LiveIs, RevocationsShown, Reloading

LEMMA JumpStep ==
    ASSUME PortalInv, NEW id \in Ids, Jump(id)
    PROVE  PortalInv'
<1>1. /\ visit' \in [address : SUBSET Ids, result : SUBSET Ids]
  BY DEF Jump, PortalInv, ShapePart, PageTypeOK
<1> QED
  BY <1>1 DEF Jump, session, backend, history, PortalInv, ShapePart, PageTypeOK, DonePart,
              RowsOnChain, ToldIsRevoked, IssuesApart, RequestDone, LivePart,
       ReloadPart, IssuedPart, LiveIs, RevocationsShown, Reloading

LEMMA RevokeClickStep ==
    ASSUME PortalInv, NEW r \in Requests, NEW id \in Ids, RevokeClick(r, id)
    PROVE  PortalInv'
<1>1. /\ request'[r] = [pc |-> "sent", kind |-> "revoke", ids |-> {id}, sub |-> user, live |-> TRUE]
      /\ request'[r] \in Asked
      /\ page = "manage" /\ request[r] = Rest
      /\ \A s \in Requests \ {r} : request'[s] = request[s]
      /\ DOMAIN request' = Requests
  BY DEF RevokeClick, PortalInv, ShapePart, PageTypeOK, Request, Revocable, Asked
<1>2. ShapePart'
  <2>1. PageTypeOK'
    BY <1>1 DEF RevokeClick, session, backend, history, PortalInv, ShapePart, PageTypeOK
  <2>2. request' \in [Requests -> {Rest} \cup Listed \cup Asked]
    BY <1>1 DEF RevokeClick, PortalInv, ShapePart
  <2>3. \A s \in Requests :
           /\ request'[s].pc = "ok" /\ request'[s].kind = "load" => request'[s] \in Listed
           /\ request'[s].pc = "applied" => request'[s].kind \in {"issue", "revoke"}
    BY <1>1 DEF RevokeClick, PortalInv, ShapePart
  <2> QED
    BY <2>1, <2>2, <2>3 DEF ShapePart
<1>3. DonePart'
  <2>1. /\ UNCHANGED <<backend, told>>
        /\ \A s \in Requests : request'[s] = request[s] \/ request'[s].pc = "sent"
    BY <1>1 DEF RevokeClick, history
  <2> QED
    BY <2>1 DEF PortalInv, DonePart, RowsOnChain, ToldIsRevoked, IssuesApart, RequestDone, backend
<1>4. LivePart'
  BY <1>1 DEF RevokeClick, session, PortalInv, LivePart, LiveIs
<1>5. ReloadPart'
  BY <1>1, SMTT(30)
     DEF RevokeClick, backend, history, PortalInv, ReloadPart, LiveIs, RevocationsShown, Reloading
<1>6. IssuedPart'
  BY <1>1 DEF RevokeClick, history, PortalInv, IssuedPart, LiveIs
<1> QED
  BY <1>2, <1>3, <1>4, <1>5, <1>6 DEF PortalInv

LEMMA SubmitStep ==
    ASSUME PortalInv, NEW r \in Requests, Submit(r)
    PROVE  PortalInv'
<1>1. /\ request'[r] = [pc |-> "sent", kind |-> "issue", ids |-> {}, sub |-> user, live |-> TRUE]
      /\ request'[r] \in Asked
      /\ page = "issue" /\ request[r] = Rest
      /\ \A s \in Requests \ {r} : request'[s] = request[s]
      /\ DOMAIN request' = Requests
  BY DEF Submit, PortalInv, ShapePart, PageTypeOK, Request, Asked
<1>2. ShapePart'
  BY <1>1 DEF Submit, session, backend, history, PortalInv, ShapePart, PageTypeOK
<1>3. DonePart'
  BY <1>1 DEF Submit, backend, history, PortalInv, DonePart, RowsOnChain, ToldIsRevoked,
              IssuesApart, RequestDone
<1>4. LivePart'
  BY <1>1 DEF Submit, session, PortalInv, LivePart, LiveIs
<1>5. ReloadPart'
  BY <1>1 DEF Submit, backend, history, PortalInv, ReloadPart, LiveIs, RevocationsShown,
              Reloading
<1>6. IssuedPart'
  BY <1>1 DEF Submit, history, PortalInv, IssuedPart, LiveIs
<1> QED
  BY <1>2, <1>3, <1>4, <1>5, <1>6 DEF PortalInv

LEMMA ReceiveListStep ==
    ASSUME PortalInv, NEW r \in Requests, ReceiveList(r)
    PROVE  PortalInv'
<1>1. /\ request'[r] = Rest /\ request[r] # Rest /\ Rest.pc = "rest"
      /\ request[r].list \in [Ids -> Status]
      /\ \A s \in Requests \ {r} : request'[s] = request[s]
      /\ DOMAIN request' = Requests
  BY DEF ReceiveList, PortalInv, ShapePart, PageTypeOK, Rest, Listed, Asked
<1>2. ShapePart'
  BY <1>1 DEF ReceiveList, session, backend, history, PortalInv, ShapePart, PageTypeOK
<1>3. DonePart'
  BY <1>1 DEF ReceiveList, backend, history, PortalInv, DonePart, RowsOnChain, ToldIsRevoked,
              IssuesApart, RequestDone
<1>4. LivePart'
  BY <1>1 DEF ReceiveList, session, PortalInv, LivePart, LiveIs
<1>5. ReloadPart'
  BY <1>1 DEF ReceiveList, backend, history, PortalInv, ReloadPart, LiveIs, RevocationsShown,
              Reloading
<1>6. IssuedPart'
  BY <1>1 DEF ReceiveList, history, PortalInv, IssuedPart, LiveIs
<1> QED
  BY <1>2, <1>3, <1>4, <1>5, <1>6 DEF PortalInv

LEMMA ReceiveIssuedStep ==
    ASSUME PortalInv, NEW r \in Requests, ReceiveIssued(r)
    PROVE  PortalInv'
<1>1. /\ request'[r] = Rest /\ request[r] # Rest /\ Rest.pc = "rest"
      /\ \A s \in Requests \ {r} : request'[s] = request[s]
      /\ DOMAIN request' = Requests
  BY DEF ReceiveIssued, PortalInv, ShapePart, PageTypeOK, Rest, Listed, Asked
<1>2. ShapePart'
  BY <1>1 DEF ReceiveIssued, session, backend, history, PortalInv, ShapePart, PageTypeOK
<1>3. DonePart'
  BY <1>1 DEF ReceiveIssued, backend, history, PortalInv, DonePart, RowsOnChain, ToldIsRevoked,
              IssuesApart, RequestDone
<1>4. LivePart'
  BY <1>1 DEF ReceiveIssued, session, PortalInv, LivePart, LiveIs
<1>5. ReloadPart'
  BY <1>1 DEF ReceiveIssued, backend, history, PortalInv, ReloadPart, LiveIs, RevocationsShown,
              Reloading
<1>6. IssuedPart'
  BY <1>1 DEF ReceiveIssued, history, PortalInv, IssuedPart, LiveIs
<1> QED
  BY <1>2, <1>3, <1>4, <1>5, <1>6 DEF PortalInv

LEMMA ReceiveVerifiedStep ==
    ASSUME PortalInv, NEW r \in Requests, ReceiveVerified(r)
    PROVE  PortalInv'
<1>1. /\ request'[r] = Rest /\ request[r] # Rest /\ Rest.pc = "rest"
      /\ visit' \in [address : SUBSET Ids, result : SUBSET Ids]
      /\ visit'.result = IF request[r].live THEN request[r].ids ELSE visit.result
      /\ \A s \in Requests \ {r} : request'[s] = request[s]
      /\ DOMAIN request' = Requests
  BY DEF ReceiveVerified, PortalInv, ShapePart, PageTypeOK, Rest, Listed, Asked
<1>2. ShapePart'
  BY <1>1 DEF ReceiveVerified, session, backend, history, PortalInv, ShapePart, PageTypeOK
<1>3. DonePart'
  BY <1>1 DEF ReceiveVerified, backend, history, PortalInv, DonePart, RowsOnChain,
              ToldIsRevoked, IssuesApart, RequestDone
<1>4. LivePart'
  BY <1>1 DEF ReceiveVerified, session, PortalInv, LivePart, LiveIs
<1>5. ReloadPart'
  BY <1>1 DEF ReceiveVerified, backend, history, PortalInv, ReloadPart, LiveIs,
              RevocationsShown, Reloading
<1>6. IssuedPart'
  BY <1>1 DEF ReceiveVerified, history, PortalInv, IssuedPart, LiveIs
<1> QED
  BY <1>2, <1>3, <1>4, <1>5, <1>6 DEF PortalInv

LEMMA ReceiveErrorStep ==
    ASSUME PortalInv, NEW r \in Requests, ReceiveError(r)
    PROVE  PortalInv'
<1>1. /\ request'[r] = Rest /\ request[r] # Rest /\ Rest.pc = "rest"
      /\ \A s \in Requests \ {r} : request'[s] = request[s]
      /\ DOMAIN request' = Requests
  BY DEF ReceiveError, PortalInv, ShapePart, PageTypeOK, Rest, Listed, Asked
<1>2. ShapePart'
  BY <1>1 DEF ReceiveError, session, backend, history, PortalInv, ShapePart, PageTypeOK
<1>3. DonePart'
  BY <1>1 DEF ReceiveError, backend, history, PortalInv, DonePart, RowsOnChain, ToldIsRevoked,
              IssuesApart, RequestDone
<1>4. LivePart'
  <2>1. CASE request[r].live
    BY <1>1, <2>1 DEF ReceiveError, session, PortalInv, LivePart, LiveIs
  <2>2. ASSUME ~request[r].live
        PROVE  loading' = loading /\ excused' = excused
    BY <2>2 DEF ReceiveError, PortalInv, ShapePart, PageTypeOK
  <2>3. CASE ~request[r].live
    BY <1>1, <2>2, <2>3 DEF ReceiveError, session, PortalInv, LivePart, LiveIs
  <2> QED
    BY <2>1, <2>3
<1>5. ReloadPart'
  <2>1. CASE request[r].live
    BY <1>1, <2>1 DEF ReceiveError, backend, history, PortalInv, LivePart, ReloadPart, LiveIs,
                      RevocationsShown, Reloading
  <2>2. ASSUME ~request[r].live
        PROVE  loading' = loading /\ excused' = excused
    BY <2>2 DEF ReceiveError, PortalInv, ShapePart, PageTypeOK
  <2>3. CASE ~request[r].live
    BY <1>1, <2>2, <2>3 DEF ReceiveError, backend, history, PortalInv, LivePart, ReloadPart,
                            LiveIs, RevocationsShown, Reloading
  <2> QED
    BY <2>1, <2>3
<1>6. IssuedPart'
  BY <1>1 DEF ReceiveError, history, PortalInv, IssuedPart, LiveIs
<1> QED
  BY <1>2, <1>3, <1>4, <1>5, <1>6 DEF PortalInv

LEMMA ReceiveRevokedStep ==
    ASSUME PortalInv, NEW r \in Requests, ReceiveRevoked(r)
    PROVE  PortalInv'
<1>0. request[r] # Rest /\ request[r] \in Asked
  BY DEF ReceiveRevoked, PortalInv, ShapePart, Listed, Rest
<1>1. /\ request'[r] = [pc |-> "sent", kind |-> "load", ids |-> {}, sub |-> user, live |-> request[r].live]
      /\ request'[r] \in Asked
      /\ request[r] # Rest /\ request[r] \in Asked
      /\ \A s \in Requests \ {r} : request'[s] = request[s]
      /\ DOMAIN request' = Requests
  BY <1>0 DEF ReceiveRevoked, PortalInv, ShapePart, PageTypeOK, Request, Asked
<1>2. ShapePart'
  <2>1. PageTypeOK'
    <3>1. excused' \in BOOLEAN
      BY DEF ReceiveRevoked, PortalInv, ShapePart, PageTypeOK, Reloading
    <3>2. told' \subseteq Ids
      BY <1>1 DEF ReceiveRevoked, PortalInv, ShapePart, PageTypeOK, Asked
    <3> QED
      BY <3>1, <3>2 DEF ReceiveRevoked, session, backend, PortalInv, ShapePart, PageTypeOK
  <2>2. request' \in [Requests -> {Rest} \cup Listed \cup Asked]
    BY <1>1 DEF ReceiveRevoked, PortalInv, ShapePart
  <2>3. \A s \in Requests :
           /\ request'[s].pc = "ok" /\ request'[s].kind = "load" => request'[s] \in Listed
           /\ request'[s].pc = "applied" => request'[s].kind \in {"issue", "revoke"}
    BY <1>1 DEF ReceiveRevoked, PortalInv, ShapePart
  <2> QED
    BY <2>1, <2>2, <2>3 DEF ShapePart
<1>3. DonePart'
  BY <1>1 DEF ReceiveRevoked, backend, history, PortalInv, DonePart, RowsOnChain, ToldIsRevoked,
              IssuesApart, RequestDone
<1>4. LivePart'
  BY <1>1 DEF ReceiveRevoked, session, PortalInv, LivePart, LiveIs
<1>5. ReloadPart'
  <2>1. CASE request[r].live
    <3>1. LiveIs(r, "load")'
      BY <1>1, <2>1 DEF LiveIs, Rest
    <3>2. RevocationsShown'
      BY <3>1 DEF LiveIs, RevocationsShown, Reloading
    <3>3. ASSUME ~excused', NEW s \in Requests, LiveIs(s, "load")'
          PROVE  s = r
      BY <1>1, <2>1, <3>3 DEF ReceiveRevoked, Reloading, LiveIs
    <3> QED
      BY <1>1, <3>2, <3>3 DEF ReloadPart
  <2>2. CASE ~request[r].live
    BY <1>1, <2>2 DEF ReceiveRevoked, backend, history, PortalInv, ReloadPart, LiveIs,
                      RevocationsShown, Reloading
  <2> QED
    BY <2>1, <2>2
<1>6. IssuedPart'
  BY <1>1 DEF ReceiveRevoked, history, PortalInv, IssuedPart, LiveIs
<1> QED
  BY <1>2, <1>3, <1>4, <1>5, <1>6 DEF PortalInv

LEMMA ServeListStep ==
    ASSUME PortalInv, NEW r \in Requests, ServeList(r)
    PROVE  PortalInv'
<1>1. /\ request'[r] \in Listed /\ request'[r].list = List(request[r].sub)
      /\ request'[r].pc = "ok"
      /\ request[r] # Rest /\ request'[r] # Rest
      /\ request'[r].kind = request[r].kind /\ request'[r].live = request[r].live
      /\ \A s \in Requests \ {r} : request'[s] = request[s]
      /\ DOMAIN request' = Requests
  BY DEF ServeList, PortalInv, ShapePart, PageTypeOK, Rest, Asked, Listed, List, Status
<1>2. ShapePart'
  BY <1>1 DEF ServeList, session, backend, history, PortalInv, ShapePart, PageTypeOK
<1>3. DonePart'
  BY <1>1 DEF ServeList, backend, history, PortalInv, DonePart, RowsOnChain, ToldIsRevoked,
              IssuesApart, RequestDone
<1>4. LivePart'
  BY <1>1 DEF ServeList, session, PortalInv, LivePart, LiveIs
<1>5. ReloadPart'
  BY <1>1 DEF ServeList, session, backend, history, PortalInv, ShapePart, PageTypeOK, DonePart,
              RowsOnChain, ToldIsRevoked, IssuesApart, RequestDone, List, ReloadPart, LiveIs,
              RevocationsShown, Reloading
<1>6. IssuedPart'
  BY <1>1 DEF ServeList, history, PortalInv, IssuedPart, LiveIs
<1> QED
  BY <1>2, <1>3, <1>4, <1>5, <1>6 DEF PortalInv

LEMMA ServeVerifyStep ==
    ASSUME PortalInv, NEW r \in Requests, ServeVerify(r)
    PROVE  PortalInv'
<1>1. /\ request'[r] \in Asked
      /\ request'[r].pc = "ok" /\ request'[r].sub = request[r].sub
      /\ request[r] # Rest /\ request'[r] # Rest
      /\ request'[r].kind = request[r].kind /\ request'[r].live = request[r].live
      /\ request'[r].ids = request[r].ids
      /\ \A s \in Requests \ {r} : request'[s] = request[s]
      /\ DOMAIN request' = Requests
  BY DEF ServeVerify, PortalInv, ShapePart, PageTypeOK, Rest, Asked, Listed
<1>2. ShapePart'
  BY <1>1 DEF ServeVerify, session, backend, history, PortalInv, ShapePart, PageTypeOK
<1>3. DonePart'
  BY <1>1 DEF ServeVerify, backend, history, PortalInv, DonePart, RowsOnChain, ToldIsRevoked,
              IssuesApart, RequestDone
<1>4. LivePart'
  BY <1>1 DEF ServeVerify, session, PortalInv, LivePart, LiveIs
<1>5. ReloadPart'
  BY <1>1 DEF ServeVerify, backend, history, PortalInv, ReloadPart, LiveIs, RevocationsShown,
              Reloading
<1>6. IssuedPart'
  BY <1>1 DEF ServeVerify, history, PortalInv, IssuedPart, LiveIs
<1> QED
  BY <1>2, <1>3, <1>4, <1>5, <1>6 DEF PortalInv

LEMMA RevokeStep ==
    ASSUME PortalInv, NEW r \in Requests, Revoke(r)
    PROVE  PortalInv'
<1>1. /\ request'[r] \in Asked
      /\ request'[r].pc = "applied" /\ request'[r].sub = request[r].sub
      /\ request[r] # Rest /\ request'[r] # Rest
      /\ request'[r].kind = request[r].kind /\ request'[r].live = request[r].live
      /\ request'[r].ids = request[r].ids
      /\ \A s \in Requests \ {r} : request'[s] = request[s]
      /\ DOMAIN request' = Requests
  BY DEF Revoke, PortalInv, ShapePart, PageTypeOK, Rest, Asked, Listed
<1>2. ShapePart'
  <2>1. PageTypeOK'
    BY <1>1 DEF Revoke, session, backend, history, PortalInv, ShapePart, PageTypeOK, Asked, Status
  <2>2. request' \in [Requests -> {Rest} \cup Listed \cup Asked]
    BY <1>1 DEF Revoke, PortalInv, ShapePart
  <2>3. \A s \in Requests :
           /\ request'[s].pc = "ok" /\ request'[s].kind = "load" => request'[s] \in Listed
           /\ request'[s].pc = "applied" => request'[s].kind \in {"issue", "revoke"}
    BY <1>1 DEF Revoke, PortalInv, ShapePart
  <2> QED
    BY <2>1, <2>2, <2>3 DEF ShapePart
<1>3. DonePart'
  <2>1. /\ request[r].kind = "revoke" /\ request[r].ids \subseteq Ids
        /\ UNCHANGED <<rows, issuer, told>>
        /\ \A id \in Ids : chain'[id] = IF id \in request[r].ids THEN "REVOKED" ELSE chain[id]
        /\ \A id \in request[r].ids :
              rows[id] # "absent" /\ issuer[id] = request[r].sub /\ chain[id] = "VALID"
    BY <1>1 DEF Revoke, history, List, PortalInv, ShapePart, Asked, Listed
  <2>2. RowsOnChain'
    BY <2>1 DEF PortalInv, DonePart, RowsOnChain
  <2>3. ToldIsRevoked'
    BY <2>1 DEF PortalInv, ShapePart, PageTypeOK, DonePart, RowsOnChain, ToldIsRevoked,
                RequestDone
  <2>4. ASSUME NEW s \in Requests \ {r} PROVE RequestDone(s)'
    BY <1>1, <2>1 DEF PortalInv, ShapePart, Asked, Listed, Rest, DonePart, RequestDone,
                      RowsOnChain, IssuesApart
  <2>5. RequestDone(r)'
    BY <1>1, <2>1 DEF PortalInv, DonePart, RequestDone, RowsOnChain
  <2>6. IssuesApart'
    BY <1>1, <2>1 DEF PortalInv, DonePart, RequestDone, IssuesApart
  <2> QED
    BY <2>2, <2>3, <2>4, <2>5, <2>6 DEF DonePart
<1>4. LivePart'
  BY <1>1 DEF Revoke, session, PortalInv, LivePart, LiveIs
<1>5. ReloadPart'
  BY <1>1 DEF Revoke, backend, history, PortalInv, ReloadPart, LiveIs, RevocationsShown,
              Reloading
<1>6. IssuedPart'
  BY <1>1 DEF Revoke, history, PortalInv, IssuedPart, LiveIs
<1> QED
  BY <1>2, <1>3, <1>4, <1>5, <1>6 DEF PortalInv

LEMMA IssueStep ==
    ASSUME PortalInv, NEW r \in Requests, Issue(r)
    PROVE  PortalInv'
<1>0. PICK id \in Ids :
        /\ chain[id] = "absent" /\ chain' = [chain EXCEPT ![id] = "VALID"]
        /\ issuer' = [issuer EXCEPT ![id] = request[r].sub]
        /\ request' = [request EXCEPT ![r].pc = "applied", ![r].ids = {id}]
        /\ unreported' = unreported \cup (IF request[r].live THEN {id} ELSE {})
  BY DEF Issue
<1>1. /\ request[r] \in Asked /\ request'[r] \in Asked /\ request[r] # Rest /\ request'[r] # Rest
      /\ request'[r].pc = "applied" /\ request'[r].kind = "issue" /\ request'[r].ids = {id}
      /\ request[r].pc = "sent" /\ request[r].kind = "issue"
      /\ request'[r].sub = request[r].sub /\ request'[r].live = request[r].live
      /\ \A s \in Requests \ {r} : request'[s] = request[s]
      /\ DOMAIN request' = Requests
  <2>1. request[r] \in Asked /\ request[r].pc = "sent" /\ request[r].kind = "issue"
    BY DEF Issue, PortalInv, ShapePart, Listed, Rest
  <2>2. request'[r] = [request[r] EXCEPT !.pc = "applied", !.ids = {id}]
    BY <1>0 DEF PortalInv, ShapePart
  <2>3. request'[r] \in Asked /\ request'[r] # Rest /\ request[r] # Rest
    <3>1. [request[r] EXCEPT !.pc = "applied"] \in Asked
      BY <2>1 DEF Asked
    <3>2. \A q \in Asked : [q EXCEPT !.ids = {id}] \in Asked /\ q # Rest
      BY <1>0 DEF Asked, Rest
    <3> QED
      BY <2>1, <2>2, <3>1, <3>2
  <2> QED
    BY <1>0, <2>1, <2>2, <2>3 DEF Asked, PortalInv, ShapePart
<1>2. ShapePart'
  <2>1. PageTypeOK'
    BY <1>0 DEF Issue, session, PortalInv, ShapePart, PageTypeOK, Status
  <2>2. request' \in [Requests -> {Rest} \cup Listed \cup Asked]
    BY <1>0, <1>1 DEF PortalInv, ShapePart
  <2> QED
    BY <1>1, <2>1, <2>2 DEF PortalInv, ShapePart
<1>3. DonePart'
  <2>1. /\ UNCHANGED <<rows, told>> /\ rows[id] = "absent" /\ chain[id] = "absent"
        /\ chain'[id] = "VALID" /\ issuer'[id] = request[r].sub
        /\ \A k \in Ids \ {id} : chain'[k] = chain[k] /\ issuer'[k] = issuer[k]
    BY <1>0 DEF Issue, PortalInv, ShapePart, PageTypeOK, DonePart, RowsOnChain
  <2>2. RowsOnChain'
    BY <2>1 DEF PortalInv, DonePart, RowsOnChain
  <2>3. ToldIsRevoked'
    BY <2>1 DEF PortalInv, ShapePart, PageTypeOK, DonePart, ToldIsRevoked
  <2>4. ASSUME NEW s \in Requests \ {r} PROVE RequestDone(s)'
    BY <1>1, <2>1 DEF PortalInv, ShapePart, Asked, Listed, Rest, DonePart, RequestDone
  <2>5. RequestDone(r)'
    BY <1>1, <2>1 DEF RequestDone
  <2>6. ASSUME NEW s \in Requests \ {r}, request[s].pc = "applied"
        PROVE  id \notin request[s].ids
    BY <2>1, <2>6 DEF PortalInv, DonePart, RequestDone
  <2>7. IssuesApart'
    BY <1>1, <2>6 DEF PortalInv, DonePart, IssuesApart
  <2> QED
    BY <2>2, <2>3, <2>4, <2>5, <2>7 DEF DonePart
<1>4. LivePart'
  BY <1>1 DEF Issue, session, PortalInv, LivePart, LiveIs
<1>5. ReloadPart'
  BY <1>1 DEF Issue, PortalInv, ReloadPart, LiveIs, RevocationsShown, Reloading
<1>6. IssuedPart'
  <2>1. ASSUME NEW k \in unreported, ~excused
        PROVE  \E s \in Requests : (LiveIs(s, "issue") /\ request[s].pc # "sent" /\ request[s].ids = {k})'
    BY <1>1, <2>1 DEF PortalInv, IssuedPart, LiveIs
  <2>2. request[r].live => (LiveIs(r, "issue") /\ request[r].pc # "sent" /\ request[r].ids = {id})'
    BY <1>1 DEF LiveIs
  <2>3. excused' = excused
    BY DEF Issue
  <2> QED
    BY <1>0, <2>1, <2>2, <2>3 DEF IssuedPart
<1> QED
  BY <1>2, <1>3, <1>4, <1>5, <1>6 DEF PortalInv

LEMMA FailStep ==
    ASSUME PortalInv, NEW r \in Requests, Fail(r)
    PROVE  PortalInv'
<1>1. /\ request'[r] \in Asked
      /\ request'[r].pc = "failed" /\ request'[r].sub = request[r].sub
      /\ request[r] # Rest /\ request'[r] # Rest
      /\ request'[r].kind = request[r].kind /\ request'[r].live = request[r].live
      /\ request'[r].ids = request[r].ids
      /\ \A s \in Requests \ {r} : request'[s] = request[s]
      /\ DOMAIN request' = Requests
  BY DEF Fail, PortalInv, ShapePart, PageTypeOK, Rest, Asked, Listed
<1>2. ShapePart'
  BY <1>1 DEF Fail, session, backend, history, PortalInv, ShapePart, PageTypeOK
<1>3. DonePart'
  BY <1>1 DEF Fail, backend, history, PortalInv, DonePart, RowsOnChain, ToldIsRevoked,
              IssuesApart, RequestDone
<1>4. LivePart'
  BY <1>1 DEF Fail, session, PortalInv, LivePart, LiveIs
<1>5. ReloadPart'
  BY <1>1 DEF Fail, backend, history, PortalInv, ReloadPart, LiveIs, RevocationsShown, Reloading
<1>6. IssuedPart'
  BY <1>1 DEF Fail, history, PortalInv, IssuedPart, LiveIs
<1> QED
  BY <1>2, <1>3, <1>4, <1>5, <1>6 DEF PortalInv

LEMMA SaveStep ==
    ASSUME PortalInv, NEW r \in Requests, Save(r)
    PROVE  PortalInv'
<1>1. /\ request'[r] \in Asked
      /\ request'[r].pc \in {"ok", "failed"} /\ request'[r].sub = request[r].sub
      /\ request[r] # Rest /\ request'[r] # Rest
      /\ request'[r].kind = request[r].kind /\ request'[r].live = request[r].live
      /\ request'[r].ids = request[r].ids
      /\ \A s \in Requests \ {r} : request'[s] = request[s]
      /\ DOMAIN request' = Requests
  BY DEF Save, PortalInv, ShapePart, PageTypeOK, Rest, Asked, Listed
<1>2. ShapePart'
  <2>1. PageTypeOK'
    BY <1>1 DEF Save, session, backend, history, PortalInv, ShapePart, PageTypeOK, Asked, Status
  <2>2. request' \in [Requests -> {Rest} \cup Listed \cup Asked]
    BY <1>1 DEF Save, PortalInv, ShapePart
  <2>3. \A s \in Requests :
           /\ request'[s].pc = "ok" /\ request'[s].kind = "load" => request'[s] \in Listed
           /\ request'[s].pc = "applied" => request'[s].kind \in {"issue", "revoke"}
    BY <1>1 DEF Save, PortalInv, ShapePart
  <2> QED
    BY <2>1, <2>2, <2>3 DEF ShapePart
<1>3. DonePart'
  <2>1. /\ request[r].kind \in {"issue", "revoke"} /\ request[r].ids \subseteq Ids
        /\ request[r].pc = "applied" /\ UNCHANGED <<chain, issuer, told>>
        /\ \A id \in Ids : rows'[id] = IF id \notin request[r].ids THEN rows[id]
                                       ELSE IF request[r].kind = "issue" THEN "VALID"
                                       ELSE "REVOKED"
    BY <1>1 DEF Save, history, PortalInv, ShapePart, Asked, Listed, Rest
  <2>2. RowsOnChain'
    BY <2>1 DEF PortalInv, DonePart, RowsOnChain, RequestDone
  <2>3. ToldIsRevoked'
    BY <2>1 DEF PortalInv, ShapePart, PageTypeOK, DonePart, RowsOnChain, ToldIsRevoked,
                RequestDone
  <2>4. ASSUME NEW s \in Requests \ {r} PROVE RequestDone(s)'
    BY <1>1, <2>1 DEF PortalInv, ShapePart, Asked, Listed, Rest, DonePart, RequestDone,
                      RowsOnChain, IssuesApart
  <2>5. RequestDone(r)'
    BY <1>1, <2>1 DEF PortalInv, DonePart, RequestDone, RowsOnChain
  <2>6. IssuesApart'
    BY <1>1, <2>1 DEF PortalInv, DonePart, RequestDone, IssuesApart
  <2> QED
    BY <2>2, <2>3, <2>4, <2>5, <2>6 DEF DonePart
<1>4. LivePart'
  BY <1>1 DEF Save, session, PortalInv, LivePart, LiveIs
<1>5. ReloadPart'
  BY <1>1 DEF Save, backend, history, PortalInv, ShapePart, ReloadPart, LiveIs,
              RevocationsShown, Reloading
<1>6. IssuedPart'
  BY <1>1 DEF Save, history, PortalInv, IssuedPart, LiveIs
<1> QED
  BY <1>2, <1>3, <1>4, <1>5, <1>6 DEF PortalInv

\* What leaving a page makes of a request, and what opening one adds.
Left(q) == IF q = Rest THEN Rest ELSE [q EXCEPT !.live = FALSE]

Opens(kind, ids, q) == kind \in Asks(page) /\ q = Request(kind, ids)

LEMMA LeftEffect ==
    ASSUME NEW q \in {Rest} \cup Listed \cup Asked
    PROVE  /\ Left(q) \in {Rest} \cup Listed \cup Asked
           /\ Left(q) = Rest <=> q = Rest
           /\ Left(q).pc = q.pc
           /\ q # Rest => /\ Left(q).kind = q.kind /\ Left(q).live = FALSE
                          /\ q \in Listed => Left(q) \in Listed
                          /\ q \in Asked => Left(q).ids = q.ids /\ Left(q).sub = q.sub
<1>1. CASE q = Rest
  BY <1>1 DEF Left
<1>2. CASE q \in Listed
  <2>1. q # Rest /\ Left(q) = [q EXCEPT !.live = FALSE]
    BY <1>2 DEF Left, Listed, Rest
  <2>2. Left(q) \in Listed /\ q \notin Asked
    BY <1>2, <2>1 DEF Listed, Asked
  <2> QED
    BY <1>2, <2>1, <2>2 DEF Listed, Rest
<1>3. CASE q \in Asked
  <2>1. q # Rest /\ Left(q) = [q EXCEPT !.live = FALSE]
    BY <1>3 DEF Left, Asked, Rest
  <2>2. Left(q) \in Asked /\ q \notin Listed
    BY <1>3, <2>1 DEF Listed, Asked
  <2> QED
    BY <1>3, <2>1, <2>2 DEF Asked, Rest
<1> QED
  BY <1>1, <1>2, <1>3

LEMMA NavigateStep ==
    ASSUME PortalInv, NEW p \in Pages, NEW ids \in SUBSET Ids, Navigate(p, ids),
           p = "verify" => ids # {}
    PROVE  PortalInv'
<1>1. /\ page' \in Pages /\ (page' = "verify" => ids # {})
      /\ page' = "verify" => loading'
      /\ shown' = Empty /\ loading' \in BOOLEAN /\ visit' = NewVisit(ids)
      /\ told' = {} /\ unreported' = {} /\ excused' = FALSE
      /\ UNCHANGED <<user, backend>>
  BY DEF Navigate, Destination, Pages, Guarded
<1> DEFINE left == [s \in Requests |-> Left(request[s])]
<1>2. \A s \in Requests : request[s] \in {Rest} \cup Listed \cup Asked
  BY DEF PortalInv, ShapePart
<1>3. PICK opened \in SUBSET Requests, kind \in {"load", "wallet", "verify", "none"} :
        /\ \A s \in Requests \ opened : request'[s] = Left(request[s])
        /\ \A s \in opened : Opens(kind, ids, request[s])'
        /\ \A s, t \in opened : s = t
        /\ request' = [s \in Requests |-> request'[s]]
  <2>1. CASE request' = left
    <3> WITNESS {} \in SUBSET Requests, "none" \in {"load", "wallet", "verify", "none"}
    <3> QED
      BY <2>1
  <2>2. CASE \E r \in Requests, k \in Asks(page') : request' = [left EXCEPT ![r] = Request(k, ids)]
    <3>1. PICK r \in Requests, k \in Asks(page') : request' = [left EXCEPT ![r] = Request(k, ids)]
      BY <2>2
    <3>2. k \in {"load", "wallet", "verify", "none"}
      BY <1>1 DEF Asks, Pages
    <3> WITNESS {r} \in SUBSET Requests, k \in {"load", "wallet", "verify", "none"}
    <3> QED
      BY <1>1, <3>1 DEF Opens, Request
  <2> QED
    BY <2>1, <2>2 DEF Navigate, Left
<1>4. kind \in Asks(page') =>
         /\ kind \in {"load", "wallet", "verify"}
         /\ kind = "verify" <=> page' = "verify"
         /\ page' # "issue"
  BY <1>1 DEF Asks, Pages, Guarded
<1>5. \A s \in opened : /\ request'[s] = [pc |-> "sent", kind |-> kind, ids |-> ids, sub |-> user, live |-> TRUE]
                        /\ kind \in Asks(page')
  BY <1>1, <1>3 DEF Opens, Request
<1>6. \A s \in Requests \ opened : ~(request'[s] # Rest /\ request'[s].live)
  BY <1>2, <1>3, LeftEffect, ZenonT(30)
<1>7. ShapePart'
  <2>1. PageTypeOK'
    BY <1>1 DEF backend, PortalInv, ShapePart, PageTypeOK, Empty, Status, NewVisit
  <2>2. ASSUME NEW s \in opened PROVE request'[s] \in Asked
    <3>1. user \in Users /\ ids \subseteq Ids /\ kind \in {"load", "wallet", "verify"}
      BY <1>4, <1>5 DEF PortalInv, ShapePart, PageTypeOK
    <3>2. [pc |-> "sent", kind |-> kind, ids |-> ids, sub |-> user, live |-> TRUE] \in Asked
      BY <3>1 DEF Asked
    <3>3. request'[s] = [pc |-> "sent", kind |-> kind, ids |-> ids, sub |-> user, live |-> TRUE]
      BY <1>5
    <3> QED
      BY <3>2, <3>3
  <2>3. ASSUME NEW s \in Requests
        PROVE  /\ request'[s] \in {Rest} \cup Listed \cup Asked
               /\ request'[s].pc = "ok" /\ request'[s].kind = "load" => request'[s] \in Listed
               /\ request'[s].pc = "applied" => request'[s].kind \in {"issue", "revoke"}
    <3>1. CASE s \in opened
      BY <1>5, <2>2, <3>1
    <3>2. CASE s \notin opened
      <4>1. PICK q \in {Rest} \cup Listed \cup Asked : q = request[s] /\ request'[s] = Left(q)
        BY <1>2, <1>3, <3>2
      <4>2. /\ Left(q) \in {Rest} \cup Listed \cup Asked
            /\ Left(q) = Rest <=> q = Rest
            /\ Left(q).pc = q.pc
            /\ q # Rest => Left(q).kind = q.kind /\ (q \in Listed => Left(q) \in Listed)
        BY LeftEffect
      <4>3. /\ q.pc = "ok" /\ q.kind = "load" => q \in Listed
            /\ q.pc = "applied" => q.kind \in {"issue", "revoke"}
        BY <4>1 DEF PortalInv, ShapePart
      <4>4. Rest.pc = "rest"
        BY DEF Rest
      <4> QED
        BY <4>1, <4>2, <4>3, <4>4
    <3> QED
      BY <3>1, <3>2
  <2> QED
    BY <1>3, <2>1, <2>3 DEF ShapePart
<1>8. DonePart'
  <2>1. ASSUME NEW s \in Requests, request'[s].pc \in {"applied", "ok"}
        PROVE  /\ request'[s].kind = request[s].kind /\ request'[s].pc = request[s].pc
               /\ request[s] \in Asked => /\ request'[s].ids = request[s].ids
                                          /\ request'[s].sub = request[s].sub
    <3>1. s \notin opened
      BY <1>5, <2>1
    <3>2. PICK q \in {Rest} \cup Listed \cup Asked : q = request[s] /\ request'[s] = Left(q)
      BY <1>2, <1>3, <3>1
    <3>3. /\ Left(q) = Rest <=> q = Rest
          /\ Left(q).pc = q.pc
          /\ q # Rest => /\ Left(q).kind = q.kind
                         /\ q \in Asked => Left(q).ids = q.ids /\ Left(q).sub = q.sub
      BY LeftEffect
    <3>4. q # Rest
      BY <2>1, <3>2, <3>3 DEF Rest
    <3> QED
      BY <3>2, <3>3, <3>4
  <2>2. ASSUME NEW s \in Requests, request[s] \in Listed
        PROVE  request[s].pc = "ok" /\ request[s].kind = "load"
    BY <2>2 DEF Listed
  <2>3. ASSUME NEW s \in Requests, \/ request'[s].pc = "applied"
                                   \/ request'[s].pc = "ok" /\ request'[s].kind = "revoke"
        PROVE  /\ request'[s].kind = request[s].kind /\ request'[s].pc = request[s].pc
               /\ request'[s].ids = request[s].ids /\ request'[s].sub = request[s].sub
    <3>1. request'[s].kind = request[s].kind /\ request'[s].pc = request[s].pc
      BY <2>1, <2>3
    <3>2. request[s] \in Asked
      BY <1>2, <2>2, <2>3, <3>1 DEF Rest
    <3> QED
      BY <2>1, <2>3, <3>1, <3>2
  <2>4. UNCHANGED <<issuer, chain, rows>> /\ told' = {}
    BY <1>1 DEF backend
  <2>5. RowsOnChain' /\ ToldIsRevoked'
    BY <2>4 DEF PortalInv, DonePart, RowsOnChain, ToldIsRevoked
  <2>6. ASSUME NEW s \in Requests PROVE RequestDone(s)'
    BY <2>3, <2>4 DEF PortalInv, DonePart, RequestDone
  <2>7. IssuesApart'
    BY <2>3 DEF PortalInv, DonePart, IssuesApart
  <2> QED
    BY <2>5, <2>6, <2>7 DEF DonePart
<1>9. LivePart'
  BY <1>1, <1>3, <1>4, <1>5, <1>6 DEF LivePart, LiveIs, NewVisit
<1>10. ReloadPart'
  BY <1>1, <1>3, <1>4, <1>5, <1>6 DEF ReloadPart, LiveIs, RevocationsShown
<1>11. IssuedPart'
  BY <1>1 DEF IssuedPart
<1> QED
  BY <1>7, <1>8, <1>9, <1>10, <1>11 DEF PortalInv

LEMMA PortalInvStep == PortalInv /\ [PortalNext]_portalVars => PortalInv'
<1>1. ASSUME PortalInv, UNCHANGED portalVars
      PROVE  PortalInv'
  <2>1. UNCHANGED <<session, shown, loading, visit, request, backend, history>>
    BY <1>1 DEF portalVars
  <2>2. ShapePart' /\ DonePart'
    BY <1>1, <2>1 DEF session, backend, history, PortalInv, ShapePart, PageTypeOK, DonePart,
                      RowsOnChain, ToldIsRevoked, IssuesApart, RequestDone
  <2>3. LivePart' /\ IssuedPart'
    BY <1>1, <2>1 DEF session, backend, history, PortalInv, LivePart, IssuedPart, LiveIs
  <2>4. ReloadPart'
    BY <1>1, <2>1 DEF session, backend, history, PortalInv, ReloadPart, RevocationsShown,
                      LiveIs, Reloading
  <2> QED
    BY <2>2, <2>3, <2>4 DEF PortalInv
<1>2. ASSUME PortalInv, NEW p \in Pages \ {"verify"}, Navigate(p, {})
      PROVE  PortalInv'
  BY <1>2, NavigateStep
<1>3. ASSUME PortalInv, NEW id \in Ids, Navigate("verify", {id}) \/ Jump(id)
      PROVE  PortalInv'
  <2>1. "verify" \in Pages /\ {id} \in SUBSET Ids /\ {id} # {}
    BY DEF Pages
  <2> QED
    BY <1>3, <2>1, NavigateStep, JumpStep
<1> QED
  BY <1>1, <1>2, <1>3, SwitchUserStep, RevokeClickStep, SubmitStep, ReceiveListStep,
     ReceiveRevokedStep, ReceiveIssuedStep, ReceiveVerifiedStep, ReceiveErrorStep, ServeListStep,
     ServeVerifyStep, RevokeStep, IssueStep, SaveStep, FailStep
     DEF PortalNext

LEMMA PortalInvAlways == PortalSpec => []PortalInv
BY PortalInvInit, PortalInvStep, PTL DEF PortalSpec

-----------------------------------------------------------------------------

\* Requests, lists, pages and the tables always have their shape.
THEOREM PortalTypeCorrect == PortalSpec => []PortalTypeOK
<1>1. PortalInv => PortalTypeOK
  BY DEF PortalInv, ShapePart, PageTypeOK, PortalTypeOK, Listed, Asked
<1> QED
  BY <1>1, PortalInvAlways, PTL

\* What manage.component.ts reports as revoked is revoked everywhere, and for
\* its own issuer, whatever the other tabs did to the session.
THEOREM ReportsTellTheTruth == PortalSpec => []ReportsAreTrue
<1>1. PortalInv => ReportsAreTrue
  BY DEF PortalInv, DonePart, ToldIsRevoked, RequestDone, ReportsAreTrue
<1> QED
  BY <1>1, PortalInvAlways, PTL

\* The reload after a revocation leaves no credential reported as revoked shown
\* as VALID.
THEOREM RevocationsGetShown == PortalSpec => []RevocationsShown
<1>1. PortalInv => RevocationsShown
  BY DEF PortalInv, ReloadPart
<1> QED
  BY <1>1, PortalInvAlways, PTL

\* The disabled button of issue.component.ts keeps a form to one request under way,
\* and, as long as the page was shown no error, to one credential that is issued and
\* not reported.
THEOREM FormsIssueOnce == PortalSpec => []IssuedOnce
<1>1. ASSUME PortalInv, ~excused, NEW k \in unreported
      PROVE  unreported = {k} /\ loading
  <2>1. PICK r \in Requests : LiveIs(r, "issue") /\ request[r].ids = {k}
    BY <1>1 DEF PortalInv, IssuedPart
  <2>2. ASSUME NEW i \in unreported PROVE i = k
    <3>1. PICK s \in Requests : LiveIs(s, "issue") /\ request[s].ids = {i}
      BY <1>1, <2>2 DEF PortalInv, IssuedPart
    <3>2. s = r
      BY <1>1, <2>1, <3>1 DEF PortalInv, LivePart
    <3> QED
      BY <2>1, <3>1, <3>2
  <2>3. loading
    BY <1>1, <2>1 DEF PortalInv, LivePart, LiveIs
  <2> QED
    BY <1>1, <2>2, <2>3
<1>2. PortalInv => IssuedOnce
  <2>1. Cardinality({}) = 0 /\ \A k \in Ids : Cardinality({k}) = 1
    BY FS_EmptySet, FS_Singleton
  <2>2. ASSUME PortalInv, ~excused PROVE unreported = {} \/ \E k \in Ids : unreported = {k}
    BY <1>1, <2>2 DEF PortalInv, ShapePart, PageTypeOK
  <2> QED
    BY <1>1, <2>1, <2>2 DEF IssuedOnce, PortalInv, LivePart
<1> QED
  BY <1>2, PortalInvAlways, PTL
===============================================================================
