------------------------ MODULE CredentialTokenProofs ------------------------
(***************************************************************************)
(* What the credential-token contract guarantees for every set of          *)
(* addresses and expiry dates and all bounds, used as it is deployed       *)
(* (initialize before anything else).                                      *)
(***************************************************************************)
EXTENDS CredentialToken, SequenceTheorems, TLAPS

-----------------------------------------------------------------------------
(* What issue and verify write is of the right shape.                      *)

\* A credential made by issue is a Credential.
LEMMA NewCredentialType ==
    ASSUME ledger \in Nat, NEW id \in Ids, NEW i \in Addresses, NEW g \in Addresses,
           NEW e \in Expiries
    PROVE  NewCredential(id, i, g, e) \in Credential
BY DEF NewCredential, Credential, Status

\* verify keeps a credential a Credential and touches its status and count only.
LEMMA VerifiedType ==
    ASSUME NEW c \in Credential
    PROVE  /\ Verified(c) \in Credential
           /\ Verified(c).id = c.id
           /\ Verified(c).institution = c.institution
           /\ Verified(c).graduate = c.graduate
           /\ Verified(c).expiry_date_unix = c.expiry_date_unix
           /\ Verified(c).issued_ledger = c.issued_ledger
           /\ Verified(c).revoked_ledger = c.revoked_ledger
           /\ Verified(c).verification_count = c.verification_count + 1
           /\ Verified(c).status = IF Past(c.expiry_date_unix) /\ c.status = "Valid"
                                   THEN "Expired" ELSE c.status
<1> DEFINE st == IF Past(c.expiry_date_unix) /\ c.status = "Valid"
                 THEN "Expired" ELSE c.status
<1> DEFINE n == c.verification_count + 1
<1>1. Verified(c) = [c EXCEPT !.status = st, !.verification_count = n]
  BY DEF Verified
<1>2. st \in Status /\ n \in Nat
  BY DEF Credential, Status
<1> HIDE DEF st, n
<1>3. Verified(c) \in Credential
  BY <1>1, <1>2 DEF Credential
<1>4. /\ Verified(c).status = st
      /\ Verified(c).id = c.id
      /\ Verified(c).institution = c.institution
      /\ Verified(c).graduate = c.graduate
      /\ Verified(c).expiry_date_unix = c.expiry_date_unix
      /\ Verified(c).issued_ledger = c.issued_ledger
      /\ Verified(c).revoked_ledger = c.revoked_ledger
      /\ Verified(c).verification_count = n
  BY <1>1 DEF Credential
<1> QED
  BY <1>3, <1>4 DEF st, n

\* revoke keeps a credential a Credential and touches its status and date only.
LEMMA RevokedType ==
    ASSUME NEW c \in Credential, ledger \in Nat
    PROVE  /\ Revoked(c) \in Credential
           /\ Revoked(c).id = c.id
           /\ Revoked(c).institution = c.institution
           /\ Revoked(c).graduate = c.graduate
           /\ Revoked(c).expiry_date_unix = c.expiry_date_unix
           /\ Revoked(c).issued_ledger = c.issued_ledger
           /\ Revoked(c).revoked_ledger = ledger
           /\ Revoked(c).verification_count = c.verification_count
           /\ Revoked(c).status = "Revoked"
BY DEF Revoked, Credential, Status

\* An issued id holds a Credential.
LEMMA IssuedType ==
    ASSUME TypeOK, NEW id \in Issued
    PROVE  id \in Ids /\ credentials[id] \in Credential
BY DEF TypeOK, Issued

\* What Issue does, read off AfterIssue.
LEMMA IssueEffect ==
    ASSUME NEW signer, NEW i, NEW g, NEW e, Issue(signer, i, g, e)
    PROVE  /\ cred_ct < MaxCredentials
           /\ cred_ct' = cred_ct + 1
           /\ credentials' = [credentials EXCEPT ![cred_ct + 1]
                                = NewCredential(cred_ct + 1, i, g, e)]
           /\ graduate_creds' = [graduate_creds EXCEPT ![g] = Append(@, cred_ct + 1)]
           /\ events' = events \cup {IssuedEvent(cred_ct + 1, i, g, ledger)}
           /\ UNCHANGED <<initialized, ledger>>
BY DEF Issue, AfterIssue, Storage

-----------------------------------------------------------------------------
(* Type correctness.                                                       *)

LEMMA TypeInit == Init => TypeOK
<1> SUFFICES ASSUME Init PROVE TypeOK
  OBVIOUS
<1>1. <<>> \in Seq(Ids)
  OBVIOUS
<1>2. graduate_creds \in [Addresses -> Seq(Ids)]
  BY <1>1 DEF Init
<1>3. cred_ct \in 0 .. MaxCredentials /\ ledger \in Nat \ {0}
  BY BoundsAssumption DEF Init
<1> QED
  BY <1>2, <1>3 DEF Init, TypeOK

LEMMA TypeStep == TypeOK /\ [Next]_vars => TypeOK'
<1> SUFFICES ASSUME TypeOK, [Next]_vars PROVE TypeOK'
  OBVIOUS
<1> USE BoundsAssumption
<1>1. CASE Initialize
  BY <1>1 DEF Initialize, TypeOK, Ids
<1>2. ASSUME NEW signer \in Addresses, NEW i \in Addresses, NEW g \in Addresses,
             NEW e \in Expiries, Issue(signer, i, g, e)
      PROVE  TypeOK'
  <2> DEFINE id == cred_ct + 1
  <2>0. /\ cred_ct < MaxCredentials
        /\ cred_ct' = id
        /\ credentials' = [credentials EXCEPT ![id] = NewCredential(id, i, g, e)]
        /\ graduate_creds' = [graduate_creds EXCEPT ![g] = Append(@, id)]
        /\ events' = events \cup {IssuedEvent(id, i, g, ledger)}
        /\ UNCHANGED <<initialized, ledger>>
    BY <1>2, IssueEffect
  <2>1. id \in Ids /\ id \in 0 .. MaxCredentials
    BY <2>0 DEF TypeOK, Ids
  <2>2. NewCredential(id, i, g, e) \in Credential
    BY <2>1, NewCredentialType DEF TypeOK
  <2>3. credentials' \in [Ids -> Credential \cup {NoCredential}]
    BY <2>0, <2>2 DEF TypeOK
  <2>4. Append(graduate_creds[g], id) \in Seq(Ids)
    BY <2>1, AppendProperties DEF TypeOK
  <2>5. graduate_creds' \in [Addresses -> Seq(Ids)]
    BY <2>0, <2>4 DEF TypeOK
  <2>6. IssuedEvent(id, i, g, ledger)
          \in [topic : {"ISSUED"}, id : Ids, institution : Addresses,
               graduate : Addresses, ledger : Nat]
    BY <2>1 DEF IssuedEvent, TypeOK
  <2> QED
    BY <2>0, <2>1, <2>3, <2>5, <2>6 DEF TypeOK
<1>3. ASSUME NEW id \in Ids, Verify(id) PROVE TypeOK'
  <2>1. Verified(credentials[id]) \in Credential
    BY <1>3, IssuedType, VerifiedType DEF Verify
  <2> QED
    BY <1>3, <2>1 DEF Verify, TypeOK
<1>4. ASSUME NEW signer \in Addresses, NEW i \in Addresses, NEW id \in Ids,
             Revoke(signer, i, id)
      PROVE  TypeOK'
  <2>1. Revoked(credentials[id]) \in Credential
    BY <1>4, IssuedType, RevokedType DEF Revoke, TypeOK
  <2>3. credentials' \in [Ids -> Credential \cup {NoCredential}]
    BY <1>4, <2>1 DEF Revoke, TypeOK
  <2>4. RevokedEvent(id, i, ledger)
          \in [topic : {"REVOKED"}, id : Ids, institution : Addresses, ledger : Nat]
    BY DEF RevokedEvent, TypeOK
  <2> QED
    BY <1>4, <2>3, <2>4 DEF Revoke, TypeOK
<1>5. CASE CloseLedger
  BY <1>5 DEF CloseLedger, tokenVars, TypeOK
<1>6. CASE UNCHANGED vars
  BY <1>6 DEF vars, tokenVars, TypeOK
<1> QED
  BY <1>1, <1>2, <1>3, <1>4, <1>5, <1>6 DEF Next, Use

\* The contract's storage keeps its shape.
THEOREM TypeCorrect == Spec => []TypeOK
BY TypeInit, TypeStep, PTL DEF Spec

-----------------------------------------------------------------------------
(* The effect of verify and revoke on one credential and on the others.    *)

\* verify changes one issued credential, and of it status and count.
LEMMA VerifyEffect ==
    ASSUME TypeOK, NEW id \in Ids, Verify(id)
    PROVE  /\ id \in Issued
           /\ credentials[id] \in Credential
           /\ credentials'[id] = Verified(credentials[id])
           /\ credentials'[id] \in Credential
           /\ \A k \in Ids \ {id} : credentials'[k] = credentials[k]
           /\ Issued' = Issued
           /\ UNCHANGED <<initialized, cred_ct, graduate_creds, events, ledger>>
<1>1. id \in Issued /\ credentials[id] \in Credential
  BY IssuedType DEF Verify
<1>2. Verified(credentials[id]) \in Credential
  BY <1>1, VerifiedType
<1>3. /\ credentials'[id] = Verified(credentials[id])
      /\ \A k \in Ids \ {id} : credentials'[k] = credentials[k]
  BY DEF Verify, TypeOK
<1>4. Issued' = Issued
  BY <1>1, <1>2, <1>3, NoCredentialAssumption DEF Issued
<1> QED
  BY <1>1, <1>2, <1>3, <1>4 DEF Verify

\* revoke changes one issued Valid credential, and of it status and date.
LEMMA RevokeEffect ==
    ASSUME TypeOK, NEW signer, NEW i, NEW id \in Ids, Revoke(signer, i, id)
    PROVE  /\ id \in Issued
           /\ credentials[id] \in Credential
           /\ credentials[id].institution = i
           /\ credentials[id].status = "Valid"
           /\ credentials'[id] = Revoked(credentials[id])
           /\ credentials'[id] \in Credential
           /\ \A k \in Ids \ {id} : credentials'[k] = credentials[k]
           /\ Issued' = Issued
           /\ events' = events \cup {RevokedEvent(id, i, ledger)}
           /\ UNCHANGED <<initialized, cred_ct, graduate_creds, ledger>>
<1>1. id \in Issued /\ credentials[id] \in Credential
  BY IssuedType DEF Revoke
<1>2. Revoked(credentials[id]) \in Credential
  BY <1>1, RevokedType DEF TypeOK
<1>3. /\ credentials'[id] = Revoked(credentials[id])
      /\ \A k \in Ids \ {id} : credentials'[k] = credentials[k]
  BY DEF Revoke, TypeOK
<1>4. Issued' = Issued
  BY <1>1, <1>2, <1>3, NoCredentialAssumption DEF Issued
<1> QED
  BY <1>1, <1>2, <1>3, <1>4 DEF Revoke

\* issue puts a new credential under the next id and leaves the others alone.
LEMMA IssueCreates ==
    ASSUME TypeOK, NEW signer, NEW i \in Addresses, NEW g \in Addresses,
           NEW e \in Expiries, Issue(signer, i, g, e)
    PROVE  /\ cred_ct + 1 \in Ids
           /\ credentials'[cred_ct + 1] = NewCredential(cred_ct + 1, i, g, e)
           /\ credentials'[cred_ct + 1] \in Credential
           /\ \A k \in Ids \ {cred_ct + 1} : credentials'[k] = credentials[k]
           /\ Issued' = Issued \cup {cred_ct + 1}
<1> DEFINE id == cred_ct + 1
<1>1. id \in Ids
  BY IssueEffect, BoundsAssumption DEF TypeOK, Ids
<1>2. NewCredential(id, i, g, e) \in Credential
  BY <1>1, NewCredentialType DEF TypeOK
<1>3. credentials' = [credentials EXCEPT ![id] = NewCredential(id, i, g, e)]
  BY IssueEffect
<1>4. /\ credentials'[id] = NewCredential(id, i, g, e)
      /\ \A k \in Ids \ {id} : credentials'[k] = credentials[k]
  BY <1>1, <1>3 DEF TypeOK
<1>5. Issued' = Issued \cup {id}
  BY <1>1, <1>2, <1>4, NoCredentialAssumption DEF Issued
<1> QED
  BY <1>1, <1>2, <1>4, <1>5

-----------------------------------------------------------------------------
(* Status and dates.                                                       *)

LEMMA StatusDatedStep == TypeOK /\ StatusDated /\ [Next]_vars => StatusDated'
<1> SUFFICES ASSUME TypeOK, StatusDated, [Next]_vars PROVE StatusDated'
  OBVIOUS
<1> DEFINE Dated(c, now) ==
      /\ c.issued_ledger \in 1 .. now
      /\ c.status = "Revoked" => c.revoked_ledger \in c.issued_ledger .. now
      /\ c.status # "Revoked" => c.revoked_ledger = 0
      /\ c.status = "Expired" => /\ 0 < c.expiry_date_unix
                                 /\ c.expiry_date_unix < now
                                 /\ c.verification_count > 0
<1>0. /\ \A k \in Issued : Dated(credentials[k], ledger)
      /\ (\A k \in Issued' : Dated(credentials'[k], ledger')) => StatusDated'
  BY DEF StatusDated
<1>1. CASE Initialize
  BY <1>0, <1>1 DEF Initialize, Issued
<1>2. ASSUME NEW signer \in Addresses, NEW i \in Addresses, NEW g \in Addresses,
             NEW e \in Expiries, Issue(signer, i, g, e)
      PROVE  StatusDated'
  <2> DEFINE id == cred_ct + 1
  <2>1. /\ credentials'[id] = NewCredential(id, i, g, e)
        /\ \A k \in Ids \ {id} : credentials'[k] = credentials[k]
        /\ Issued' = Issued \cup {id}
    BY <1>2, IssueCreates
  <2>3. ledger' = ledger
    BY <1>2, IssueEffect
  <2>2. Dated(credentials'[id], ledger')
    BY <2>1, <2>3 DEF NewCredential, TypeOK
  <2> QED
    BY <1>0, <2>1, <2>2, <2>3 DEF Issued
<1>3. ASSUME NEW id \in Ids, Verify(id) PROVE StatusDated'
  <2> DEFINE c == credentials[id]
             d == credentials'[id]
  <2>1. /\ d = Verified(c)
        /\ c \in Credential
        /\ id \in Issued
        /\ \A k \in Ids \ {id} : credentials'[k] = credentials[k]
        /\ Issued' = Issued
        /\ ledger' = ledger
    BY <1>3, VerifyEffect
  <2>2. /\ d.issued_ledger = c.issued_ledger
        /\ d.revoked_ledger = c.revoked_ledger
        /\ d.expiry_date_unix = c.expiry_date_unix
        /\ d.verification_count = c.verification_count + 1
        /\ d.status = IF Past(c.expiry_date_unix) /\ c.status = "Valid"
                      THEN "Expired" ELSE c.status
    BY <2>1, VerifiedType
  <2>3. /\ c.verification_count \in Nat
        /\ c.expiry_date_unix \in Nat
        /\ ledger \in Nat
    BY <2>1, ExpiriesAssumption DEF Credential, TypeOK
  <2>4. Dated(c, ledger)
    BY <1>0, <2>1
  <2> HIDE DEF c, d
  <2>5. Dated(d, ledger)
    BY <2>2, <2>3, <2>4 DEF Past
  <2> QED
    BY <1>0, <2>1, <2>5 DEF Issued, d
<1>4. ASSUME NEW signer \in Addresses, NEW i \in Addresses, NEW id \in Ids,
             Revoke(signer, i, id)
      PROVE  StatusDated'
  <2> DEFINE c == credentials[id]
             d == credentials'[id]
  <2>1. /\ d = Revoked(c)
        /\ c \in Credential
        /\ id \in Issued
        /\ \A k \in Ids \ {id} : credentials'[k] = credentials[k]
        /\ Issued' = Issued
        /\ ledger' = ledger
    BY <1>4, RevokeEffect
  <2>2. /\ d.issued_ledger = c.issued_ledger
        /\ d.revoked_ledger = ledger
        /\ d.status = "Revoked"
    BY <2>1, RevokedType DEF TypeOK
  <2>3. Dated(c, ledger)
    BY <1>0, <2>1
  <2> HIDE DEF c, d
  <2>4. Dated(d, ledger)
    BY <2>2, <2>3 DEF TypeOK
  <2> QED
    BY <1>0, <2>1, <2>4 DEF Issued, d
<1>5. CASE CloseLedger
  <2>1. credentials' = credentials /\ ledger' = ledger + 1 /\ ledger \in Nat
    BY <1>5 DEF CloseLedger, tokenVars, TypeOK
  <2>2. \A k \in Issued : credentials[k].expiry_date_unix \in Nat
    BY IssuedType, ExpiriesAssumption DEF Credential
  <2>3. \A k \in Issued : Dated(credentials[k], ledger + 1)
    BY <1>0, <2>1, <2>2
  <2> QED
    BY <1>0, <2>1, <2>3 DEF Issued
<1>6. CASE UNCHANGED vars
  BY <1>0, <1>6 DEF vars, tokenVars, Issued
<1> QED
  BY <1>1, <1>2, <1>3, <1>4, <1>5, <1>6 DEF Next, Use

\* Status and dates agree in every reachable state: StatusDated is inductive
\* together with the types.
THEOREM StatusAndDatesAgree == Spec => []StatusDated
<1>1. Init => StatusDated
  BY DEF Init, StatusDated, Issued
<1> QED
  BY <1>1, TypeCorrect, StatusDatedStep, PTL DEF Spec

-----------------------------------------------------------------------------
(* The counter and the graduates' lists.                                   *)

\* GraduateIndexExact alone is not inductive: initialize resets the counter,
\* which is harmless only while nothing has been issued.
NothingBeforeInitialize == ~initialized => cred_ct = 0

IndexInv == NothingBeforeInitialize /\ GraduateIndexExact

\* A list with the ids S, each once and in order.
Lists(l, S) ==
    /\ {l[i] : i \in 1 .. Len(l)} = S
    /\ \A i, j \in 1 .. Len(l) : i < j => l[i] < l[j]

\* Appending an id above all of its elements keeps a list ordered.
LEMMA AppendKeepsOrder ==
    ASSUME NEW l \in Seq(Ids), NEW S, Lists(l, S), NEW id \in Ids, \A k \in S : k < id
    PROVE  Lists(Append(l, id), S \cup {id})
<1> DEFINE m == Append(l, id)
<1>1. /\ Len(l) \in Nat
      /\ Len(m) = Len(l) + 1
      /\ \A i \in 1 .. Len(l) : m[i] = l[i]
      /\ m[Len(l) + 1] = id
  BY AppendProperties, LenProperties
<1>2. \A i \in 1 .. Len(l) : l[i] \in S /\ l[i] < id
  BY DEF Lists
<1> HIDE DEF m
<1>3. {m[i] : i \in 1 .. Len(m)} = S \cup {id}
  <2>1. \A i \in 1 .. Len(m) : m[i] \in S \cup {id}
    BY <1>1, <1>2
  <2>2. ASSUME NEW k \in S PROVE \E i \in 1 .. Len(m) : m[i] = k
    <3>1. PICK i \in 1 .. Len(l) : l[i] = k
      BY DEF Lists
    <3> QED
      BY <1>1, <3>1
  <2>3. \E i \in 1 .. Len(m) : m[i] = id
    BY <1>1
  <2> QED
    BY <2>1, <2>2, <2>3
<1>4. ASSUME NEW i \in 1 .. Len(m), NEW j \in 1 .. Len(m), i < j PROVE m[i] < m[j]
  <2>1. i \in 1 .. Len(l)
    BY <1>1, <1>4
  <2>2. CASE j = Len(l) + 1
    BY <1>1, <1>2, <2>1, <2>2
  <2>3. CASE j \in 1 .. Len(l)
    BY <1>1, <1>4, <2>1, <2>3 DEF Lists
  <2> QED
    BY <1>1, <2>2, <2>3
<1> QED
  BY <1>3, <1>4 DEF Lists, m

LEMMA IndexStep == TypeOK /\ IndexInv /\ [Next]_vars => IndexInv'
<1> SUFFICES ASSUME TypeOK, IndexInv, [Next]_vars PROVE IndexInv'
  OBVIOUS
<1> DEFINE Held(a) == {id \in Issued : credentials[id].graduate = a}
<1>0. /\ Issued = 1 .. cred_ct
      /\ \A id \in Issued : credentials[id].id = id
      /\ \A a \in Addresses : Lists(graduate_creds[a], Held(a))
  BY DEF IndexInv, GraduateIndexExact, CountExact, Lists
<1>a. ASSUME Issued' = 1 .. cred_ct',
             \A id \in Issued' : credentials'[id].id = id,
             \A a \in Addresses : Lists(graduate_creds'[a], Held(a)')
      PROVE  GraduateIndexExact'
  BY <1>a DEF GraduateIndexExact, CountExact, Lists
<1> HIDE DEF Held
<1>1. CASE Initialize
  <2>1. UNCHANGED <<cred_ct, credentials, graduate_creds>> /\ initialized' = TRUE
    BY <1>1 DEF Initialize, IndexInv, NothingBeforeInitialize
  <2> QED
    BY <1>0, <1>a, <2>1 DEF IndexInv, NothingBeforeInitialize, Issued, Held
<1>2. ASSUME initialized, NEW signer \in Addresses, NEW i \in Addresses,
             NEW g \in Addresses, NEW e \in Expiries, Issue(signer, i, g, e)
      PROVE  IndexInv'
  <2> DEFINE id == cred_ct + 1
  <2>1. /\ id \in Ids
        /\ credentials'[id] = NewCredential(id, i, g, e)
        /\ \A k \in Ids \ {id} : credentials'[k] = credentials[k]
        /\ Issued' = Issued \cup {id}
    BY <1>2, IssueCreates
  <2>2. /\ cred_ct' = id
        /\ graduate_creds' = [graduate_creds EXCEPT ![g] = Append(@, id)]
        /\ initialized' = initialized
    BY <1>2, IssueEffect
  <2>3. cred_ct \in Nat /\ id \notin Issued /\ Issued \subseteq Ids
    BY <1>0 DEF TypeOK, Issued
  <2>4. Issued' = 1 .. cred_ct'
    BY <1>0, <2>1, <2>2, <2>3
  <2>5. \A k \in Issued' : credentials'[k].id = k
    BY <1>0, <2>1, <2>3 DEF NewCredential
  <2>6. ASSUME NEW a \in Addresses PROVE Lists(graduate_creds'[a], Held(a)')
    <3>1. CASE a = g
      <4>1. Held(a)' = Held(a) \cup {id}
        BY <2>1, <2>3, <3>1 DEF Held, NewCredential
      <4>2. graduate_creds'[a] = Append(graduate_creds[a], id)
        BY <2>2, <3>1 DEF TypeOK
      <4>3. \A k \in Held(a) : k < id
        BY <1>0, <2>3 DEF Held
      <4>4. graduate_creds[a] \in Seq(Ids)
        BY DEF TypeOK
      <4> QED
        BY <1>0, <2>1, <4>1, <4>2, <4>3, <4>4, AppendKeepsOrder
    <3>2. CASE a # g
      <4>1. Held(a)' = Held(a)
        BY <2>1, <2>3, <3>2 DEF Held, NewCredential
      <4>2. graduate_creds'[a] = graduate_creds[a]
        BY <2>2, <3>2 DEF TypeOK
      <4> QED
        BY <1>0, <4>1, <4>2
    <3> QED
      BY <3>1, <3>2
  <2> QED
    BY <1>2, <1>a, <2>2, <2>4, <2>5, <2>6 DEF IndexInv, NothingBeforeInitialize
<1>3. ASSUME initialized, NEW id \in Ids, Verify(id) PROVE IndexInv'
  <2>0. /\ credentials'[id] = Verified(credentials[id])
        /\ credentials[id] \in Credential
        /\ \A k \in Ids \ {id} : credentials'[k] = credentials[k]
        /\ Issued' = Issued
        /\ UNCHANGED <<initialized, cred_ct, graduate_creds, events, ledger>>
    BY <1>3, VerifyEffect
  <2>1. /\ credentials'[id].id = credentials[id].id
        /\ credentials'[id].graduate = credentials[id].graduate
        /\ \A k \in Ids \ {id} : credentials'[k] = credentials[k]
        /\ Issued' = Issued
        /\ UNCHANGED <<initialized, cred_ct, graduate_creds>>
    BY <2>0, VerifiedType
  <2>2. \A a \in Addresses : Held(a)' = Held(a)
    BY <2>1 DEF Held, Issued
  <2>3. \A k \in Issued' : credentials'[k].id = k
    BY <1>0, <2>1 DEF Issued
  <2> QED
    BY <1>0, <1>3, <1>a, <2>1, <2>2, <2>3 DEF IndexInv, NothingBeforeInitialize
<1>4. ASSUME initialized, NEW signer \in Addresses, NEW i \in Addresses,
             NEW id \in Ids, Revoke(signer, i, id)
      PROVE  IndexInv'
  <2>0. Revoke(signer, i, id)
    BY <1>4
  <2>1. /\ credentials[id] \in Credential
        /\ credentials'[id] = Revoked(credentials[id])
        /\ \A k \in Ids \ {id} : credentials'[k] = credentials[k]
        /\ Issued' = Issued
        /\ initialized' = initialized
        /\ cred_ct' = cred_ct
        /\ graduate_creds' = graduate_creds
    BY <2>0, RevokeEffect
  <2>2. /\ credentials'[id].id = credentials[id].id
        /\ credentials'[id].graduate = credentials[id].graduate
    BY <2>1, RevokedType DEF TypeOK
  <2>3. \A a \in Addresses : Held(a)' = Held(a)
    BY <2>1, <2>2 DEF Held, Issued
  <2>4. \A k \in Issued' : credentials'[k].id = k
    BY <1>0, <2>1, <2>2 DEF Issued
  <2> QED
    BY <1>0, <1>4, <1>a, <2>1, <2>3, <2>4 DEF IndexInv, NothingBeforeInitialize
<1>5. CASE CloseLedger \/ UNCHANGED vars
  <2>1. UNCHANGED <<initialized, cred_ct, credentials, graduate_creds>>
    BY <1>5 DEF CloseLedger, vars, tokenVars
  <2> QED
    BY <1>0, <1>a, <2>1 DEF IndexInv, NothingBeforeInitialize, Issued, Held
<1> QED
  BY <1>1, <1>2, <1>3, <1>4, <1>5 DEF Next, Use

LEMMA IndexInit == Init => IndexInv
<1> SUFFICES ASSUME Init PROVE IndexInv
  OBVIOUS
<1>1. Issued = {}
  BY DEF Init, Issued
<1>2. \A a \in Addresses : Len(graduate_creds[a]) = 0
  BY EmptySeq DEF Init
<1> QED
  BY <1>1, <1>2
     DEF Init, IndexInv, NothingBeforeInitialize, GraduateIndexExact, CountExact

\* Every graduate's list is exact and ordered, and the counter counts: the two
\* storages issue writes never come apart.
THEOREM GraduateListsAreExact == Spec => []GraduateIndexExact
<1>1. IndexInv => GraduateIndexExact
  BY DEF IndexInv
<1> QED
  BY <1>1, IndexInit, TypeCorrect, IndexStep, PTL DEF Spec

-----------------------------------------------------------------------------
(* The events.                                                             *)

IssueEvents ==
    {IssuedEvent(id, credentials[id].institution, credentials[id].graduate,
                 credentials[id].issued_ledger) : id \in Issued}

RevokedIds == {k \in Issued : credentials[k].status = "Revoked"}

RevokeEvents ==
    {RevokedEvent(id, credentials[id].institution, credentials[id].revoked_ledger) :
        id \in RevokedIds}

LEMMA EventsStep ==
    TypeOK /\ IndexInv /\ EventsTellTheLedger /\ [Next]_vars => EventsTellTheLedger'
<1> SUFFICES ASSUME TypeOK, IndexInv, EventsTellTheLedger, [Next]_vars
             PROVE  EventsTellTheLedger'
  OBVIOUS
<1>0. /\ events = IssueEvents \cup RevokeEvents
      /\ events' = IssueEvents' \cup RevokeEvents' => EventsTellTheLedger'
  BY DEF EventsTellTheLedger, IssueEvents, RevokeEvents, RevokedIds
<1>1. ASSUME NEW signer \in Addresses, NEW i \in Addresses, NEW g \in Addresses,
             NEW e \in Expiries, Issue(signer, i, g, e)
      PROVE  EventsTellTheLedger'
  <2> DEFINE id == cred_ct + 1
  <2>1. /\ credentials'[id] = NewCredential(id, i, g, e)
        /\ \A k \in Ids \ {id} : credentials'[k] = credentials[k]
        /\ Issued' = Issued \cup {id}
    BY <1>1, IssueCreates
  <2>2. events' = events \cup {IssuedEvent(id, i, g, ledger)}
    BY <1>1, IssueEffect
  <2>3. id \notin Issued /\ \A k \in Issued : credentials'[k] = credentials[k]
    BY <2>1 DEF TypeOK, IndexInv, GraduateIndexExact, CountExact, Issued
  <2>4. IssueEvents' = IssueEvents \cup {IssuedEvent(id, i, g, ledger)}
    BY <2>1, <2>3 DEF IssueEvents, NewCredential
  <2>5. RevokedIds' = RevokedIds
    BY <2>1, <2>3 DEF RevokedIds, NewCredential
  <2>6. RevokeEvents' = RevokeEvents
    BY <2>3, <2>5 DEF RevokeEvents, RevokedIds
  <2> QED
    BY <1>0, <2>2, <2>4, <2>6
<1>2. ASSUME NEW id \in Ids, Verify(id) PROVE EventsTellTheLedger'
  <2> DEFINE c == credentials[id]
             d == credentials'[id]
  <2>1. /\ id \in Issued
        /\ c \in Credential
        /\ d = Verified(c)
        /\ \A k \in Ids \ {id} : credentials'[k] = credentials[k]
        /\ Issued' = Issued
        /\ events' = events
    BY <1>2, VerifyEffect
  <2>2. /\ d.institution = c.institution
        /\ d.graduate = c.graduate
        /\ d.issued_ledger = c.issued_ledger
        /\ d.revoked_ledger = c.revoked_ledger
        /\ d.status = "Revoked" <=> c.status = "Revoked"
    BY <2>1, VerifiedType
  <2>3. IssueEvents' = IssueEvents
    BY <2>1, <2>2 DEF IssueEvents, Issued
  <2>4. RevokedIds' = RevokedIds
    BY <2>1, <2>2 DEF RevokedIds, Issued
  <2>5. RevokeEvents' = RevokeEvents
    BY <2>1, <2>2, <2>4 DEF RevokeEvents, RevokedIds, Issued
  <2> QED
    BY <1>0, <2>1, <2>3, <2>5
<1>3. ASSUME NEW signer \in Addresses, NEW i \in Addresses, NEW id \in Ids,
             Revoke(signer, i, id)
      PROVE  EventsTellTheLedger'
  <2> DEFINE c == credentials[id]
             d == credentials'[id]
  <2>1. /\ id \in Issued
        /\ c \in Credential
        /\ c.institution = i
        /\ c.status = "Valid"
        /\ d = Revoked(c)
        /\ \A k \in Ids \ {id} : credentials'[k] = credentials[k]
        /\ Issued' = Issued
        /\ events' = events \cup {RevokedEvent(id, i, ledger)}
    BY <1>3, RevokeEffect
  <2>2. /\ d.institution = c.institution
        /\ d.graduate = c.graduate
        /\ d.issued_ledger = c.issued_ledger
        /\ d.revoked_ledger = ledger
        /\ d.status = "Revoked"
    BY <2>1, RevokedType DEF TypeOK
  <2>3. IssueEvents' = IssueEvents
    BY <2>1, <2>2 DEF IssueEvents, Issued
  <2>4. RevokedIds' = RevokedIds \cup {id} /\ id \notin RevokedIds
    BY <2>1, <2>2 DEF RevokedIds, Issued
  <2>5. RevokeEvents' = RevokeEvents \cup {RevokedEvent(id, i, ledger)}
    BY <2>1, <2>2, <2>4 DEF RevokeEvents, RevokedIds, Issued
  <2> QED
    BY <1>0, <2>1, <2>3, <2>5
<1>4. CASE Initialize \/ CloseLedger \/ UNCHANGED vars
  <2>1. UNCHANGED <<credentials, events>>
    BY <1>4 DEF Initialize, CloseLedger, vars, tokenVars
  <2> QED
    BY <2>1 DEF EventsTellTheLedger, Issued
<1> QED
  BY <1>1, <1>2, <1>3, <1>4 DEF Next, Use

\* Whoever follows the contract's events knows issuer, graduate and revocation
\* of every credential, and nothing that did not happen.
THEOREM EventsAreTheLedger == Spec => []EventsTellTheLedger
<1>1. Init => EventsTellTheLedger
  BY DEF Init, EventsTellTheLedger, Issued
<1> QED
  BY <1>1, TypeCorrect, IndexInit, IndexStep, EventsStep, PTL DEF Spec

-----------------------------------------------------------------------------
(* What a step may never do.                                               *)

LEMMA GenuineStep ==
    TypeOK /\ IndexInv /\ [Next]_vars
      => (\A id \in Issued : ~Genuine(id) => ~Genuine(id)')
<1> SUFFICES ASSUME TypeOK, IndexInv, [Next]_vars, NEW k \in Issued, Genuine(k)'
             PROVE  Genuine(k)
  OBVIOUS
<1> DEFINE c == credentials[k]
           d == credentials'[k]
<1>0. /\ k \in Ids
      /\ c \in Credential
      /\ ledger \in Nat
      /\ c.expiry_date_unix \in Nat
  BY IssuedType, ExpiriesAssumption DEF TypeOK, Credential
<1>a. d.status = "Valid" /\ ~(d.expiry_date_unix > 0 /\ ledger' > d.expiry_date_unix)
  BY DEF Genuine, Past
<1>b. ASSUME c.status = "Valid", ~(c.expiry_date_unix > 0 /\ ledger > c.expiry_date_unix)
      PROVE  Genuine(k)
  BY <1>b DEF Genuine, Past
<1>1. ASSUME NEW signer \in Addresses, NEW i \in Addresses, NEW g \in Addresses,
             NEW e \in Expiries, Issue(signer, i, g, e)
      PROVE  Genuine(k)
  <2>1. /\ \A j \in Ids \ {cred_ct + 1} : credentials'[j] = credentials[j]
        /\ ledger' = ledger
    BY <1>1, IssueCreates, IssueEffect
  <2>2. k # cred_ct + 1
    BY DEF TypeOK, IndexInv, GraduateIndexExact, CountExact
  <2> QED
    BY <1>0, <1>a, <1>b, <2>1, <2>2
<1>2. ASSUME NEW id \in Ids, Verify(id) PROVE Genuine(k)
  <2>1. /\ credentials'[id] = Verified(credentials[id])
        /\ credentials[id] \in Credential
        /\ \A j \in Ids \ {id} : credentials'[j] = credentials[j]
        /\ ledger' = ledger
    BY <1>2, VerifyEffect
  <2>2. /\ credentials'[id].expiry_date_unix = credentials[id].expiry_date_unix
        /\ credentials'[id].status = "Valid" => credentials[id].status = "Valid"
    BY <2>1, VerifiedType
  <2> QED
    BY <1>0, <1>a, <1>b, <2>1, <2>2
<1>3. ASSUME NEW signer \in Addresses, NEW i \in Addresses, NEW id \in Ids,
             Revoke(signer, i, id)
      PROVE  Genuine(k)
  <2>1. /\ credentials'[id] = Revoked(credentials[id])
        /\ credentials[id] \in Credential
        /\ \A j \in Ids \ {id} : credentials'[j] = credentials[j]
        /\ ledger' = ledger
    BY <1>3, RevokeEffect
  <2>2. credentials'[id].status = "Revoked"
    BY <2>1, RevokedType DEF TypeOK
  <2> QED
    BY <1>0, <1>a, <1>b, <2>1, <2>2
<1>4. CASE Initialize \/ CloseLedger \/ UNCHANGED vars
  <2>1. credentials' = credentials /\ (ledger' = ledger \/ ledger' = ledger + 1)
    BY <1>4 DEF Initialize, CloseLedger, vars, tokenVars
  <2> QED
    BY <1>0, <1>a, <1>b, <2>1
<1> QED
  BY <1>1, <1>2, <1>3, <1>4 DEF Next, Use

\* A credential that is no longer genuine never becomes genuine again.
THEOREM GenuineOnlyOnce == Spec => NeverGenuineAgain
<1>1. TypeOK /\ IndexInv /\ [Next]_vars
        => [\A id \in Issued : ~Genuine(id) => ~Genuine(id)']_vars
  BY GenuineStep
<1> QED
  BY <1>1, TypeCorrect, IndexInit, IndexStep, PTL DEF Spec, NeverGenuineAgain

-----------------------------------------------------------------------------
(* The contract implements the credential life cycle.                      *)

\* The book's page of an issued id, and of any other.
LEMMA BookPages ==
    ASSUME TypeOK
    PROVE  /\ Book = [id \in Ids |-> Book[id]]
           /\ \A id \in Issued : /\ Book[id] = SummaryOf(credentials[id])
                                /\ Book[id] # NoCredential
           /\ \A id \in Ids \ Issued : Book[id] = NoCredential
<1>1. ASSUME NEW id \in Issued PROVE SummaryOf(credentials[id]) # NoCredential
  BY <1>1, IssuedType, NoCredentialAssumption DEF SummaryOf, Summary, Credential
<1> QED
  BY <1>1 DEF Book, Issued

\* A step that changes the summary of one id at most changes one page.
LEMMA BookUpdate ==
    ASSUME TypeOK, TypeOK', NEW id \in Ids, NEW page,
           \A k \in Ids \ {id} : credentials'[k] = credentials[k],
           id \in Issued', SummaryOf(credentials'[id]) = page
    PROVE  Book' = [Book EXCEPT ![id] = page]
<1>1. Book'[id] = page
  BY DEF Book, Issued, SummaryOf
<1>2. \A k \in Ids \ {id} : Book'[k] = Book[k]
  BY DEF Book, SummaryOf
<1> QED
  BY <1>1, <1>2 DEF Book

LEMMA LifecycleStep ==
    TypeOK /\ TypeOK' /\ IndexInv /\ [Next]_vars
      => [Lifecycle!Next]_(Lifecycle!lifecycleVars)
<1> SUFFICES ASSUME TypeOK, TypeOK', IndexInv, [Next]_vars
             PROVE  Lifecycle!Next \/ (Book' = Book /\ ledger' = ledger)
  BY DEF Lifecycle!lifecycleVars
<1>1. ASSUME NEW signer \in Addresses, NEW i \in Addresses, NEW g \in Addresses,
             NEW e \in Expiries, Issue(signer, i, g, e)
      PROVE  Lifecycle!Next
  <2> DEFINE id == cred_ct + 1
             page == [institution |-> i, graduate |-> g, expiry |-> e, state |-> "Valid"]
  <2>1. /\ id \in Ids
        /\ credentials'[id] = NewCredential(id, i, g, e)
        /\ \A k \in Ids \ {id} : credentials'[k] = credentials[k]
        /\ Issued' = Issued \cup {id}
    BY <1>1, IssueCreates
  <2>2. ledger' = ledger
    BY <1>1, IssueEffect
  <2>3. SummaryOf(credentials'[id]) = page
    BY <2>1 DEF SummaryOf, NewCredential
  <2>4. Book' = [Book EXCEPT ![id] = page]
    BY <2>1, <2>3, BookUpdate
  <2>5. Issued = 1 .. cred_ct /\ cred_ct \in Nat
    BY DEF IndexInv, GraduateIndexExact, CountExact, TypeOK
  <2>6. Book[id] = NoCredential
    BY <2>1, <2>5, BookPages
  <2>7. \A other \in Ids : other < id => Book[other] # NoCredential
    BY <2>5, BookPages DEF Ids
  <2>8. Lifecycle!Mint(id, i, g, e)
    BY <2>2, <2>4, <2>6, <2>7 DEF Lifecycle!Mint
  <2> QED
    BY <2>1, <2>8 DEF Lifecycle!Next
<1>2. ASSUME NEW id \in Ids, Verify(id)
      PROVE  Lifecycle!Next \/ (Book' = Book /\ ledger' = ledger)
  <2> DEFINE c == credentials[id]
             d == credentials'[id]
  <2>1. /\ id \in Issued
        /\ c \in Credential
        /\ d = Verified(c)
        /\ \A k \in Ids \ {id} : credentials'[k] = credentials[k]
        /\ Issued' = Issued
        /\ ledger' = ledger
    BY <1>2, VerifyEffect
  <2>2. /\ d.institution = c.institution
        /\ d.graduate = c.graduate
        /\ d.expiry_date_unix = c.expiry_date_unix
        /\ d.status = IF Past(c.expiry_date_unix) /\ c.status = "Valid"
                      THEN "Expired" ELSE c.status
    BY <2>1, VerifiedType
  <2>3. Book[id] = SummaryOf(c) /\ Book[id] # NoCredential
    BY <2>1, BookPages
  <2>4. Book' = [Book EXCEPT ![id] = SummaryOf(d)]
    BY <2>1, BookUpdate
  <2>5. CASE Past(c.expiry_date_unix) /\ c.status = "Valid"
    <3>1. SummaryOf(d) = [Book[id] EXCEPT !.state = "Expired"]
      BY <2>2, <2>3, <2>5 DEF SummaryOf
    <3>2. Book[id].state = "Valid" /\ Lifecycle!Past(Book[id].expiry)
      BY <2>3, <2>5 DEF SummaryOf, Past, Lifecycle!Past
    <3>3. Lifecycle!Expire(id)
      BY <2>1, <2>3, <2>4, <3>1, <3>2 DEF Lifecycle!Expire
    <3> QED
      BY <3>3 DEF Lifecycle!Next
  <2>6. CASE ~(Past(c.expiry_date_unix) /\ c.status = "Valid")
    <3>1. SummaryOf(d) = Book[id]
      BY <2>2, <2>3, <2>6 DEF SummaryOf
    <3> QED
      BY <2>1, <2>4, <3>1 DEF Book
  <2> QED
    BY <2>5, <2>6
<1>3. ASSUME NEW signer \in Addresses, NEW i \in Addresses, NEW id \in Ids,
             Revoke(signer, i, id)
      PROVE  Lifecycle!Next
  <2> DEFINE c == credentials[id]
             d == credentials'[id]
  <2>1. /\ id \in Issued
        /\ c \in Credential
        /\ c.status = "Valid"
        /\ d = Revoked(c)
        /\ \A k \in Ids \ {id} : credentials'[k] = credentials[k]
        /\ Issued' = Issued
        /\ ledger' = ledger
    BY <1>3, RevokeEffect
  <2>2. /\ d.institution = c.institution
        /\ d.graduate = c.graduate
        /\ d.expiry_date_unix = c.expiry_date_unix
        /\ d.status = "Revoked"
    BY <2>1, RevokedType DEF TypeOK
  <2>3. Book[id] = SummaryOf(c) /\ Book[id] # NoCredential
    BY <2>1, BookPages
  <2>4. SummaryOf(d) = [Book[id] EXCEPT !.state = "Revoked"]
    BY <2>2, <2>3 DEF SummaryOf
  <2>5. Book' = [Book EXCEPT ![id] = SummaryOf(d)]
    BY <2>1, BookUpdate
  <2>6. Book[id].state = "Valid"
    BY <2>1, <2>3 DEF SummaryOf
  <2>7. Lifecycle!Revoke(id)
    BY <2>1, <2>3, <2>4, <2>5, <2>6 DEF Lifecycle!Revoke
  <2> QED
    BY <2>7 DEF Lifecycle!Next
<1>4. CASE CloseLedger
  <2>1. Lifecycle!CloseLedger
    BY <1>4 DEF CloseLedger, tokenVars, Book, Lifecycle!CloseLedger
  <2> QED
    BY <2>1 DEF Lifecycle!Next
<1>5. CASE Initialize \/ UNCHANGED vars
  BY <1>5 DEF Initialize, vars, tokenVars, Book
<1> QED
  BY <1>1, <1>2, <1>3, <1>4, <1>5 DEF Next, Use

\* The contract implements the life cycle: an id is minted once and for good,
\* and what is revoked or expired stays revoked or expired.
THEOREM ContractImplementsLifecycle == Spec => ImplementsLifecycle
<1>1. Init => Lifecycle!Init
  BY DEF Init, Lifecycle!Init, Book
<1> QED
  BY <1>1, TypeCorrect, IndexInit, IndexStep, LifecycleStep, PTL
     DEF Spec, ImplementsLifecycle, Lifecycle!Spec
=============================================================================
