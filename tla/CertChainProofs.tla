--------------------------- MODULE CertChainProofs ---------------------------
(***************************************************************************)
(* What the two registries guarantee on the ledger they share with         *)
(* credential-token, for every set of addresses, admins, callers and ids   *)
(* and all bounds.                                                         *)
(***************************************************************************)
EXTENDS CertChain, TLAPS

-----------------------------------------------------------------------------
(* The institution registry.                                               *)

\* A record made by register_institution is an Institution.
LEMMA NewInstitutionType ==
    ASSUME NEW id \in InstitutionIds, NEW a \in Addresses
    PROVE  /\ NewInstitution(id, a) \in Institution
           /\ NewInstitution(id, a) # NoInstitution
BY RegistryBoundsAssumption, NoInstitutionAssumption
   DEF NewInstitution, Institution, InstitutionStatus

\* A registered id holds an Institution.
LEMMA RegisteredType ==
    ASSUME RegistryTypeOK, NEW id \in Registered
    PROVE  id \in InstitutionIds /\ institutions[id] \in Institution
BY DEF RegistryTypeOK, Registered

\* The index, once it is set, names a registered record of its address.
LEMMA IndexedIsRegistered ==
    ASSUME RegistryTypeOK, IndexIsNewest, NEW a \in Addresses, institution_id[a] # 0
    PROVE  /\ institution_id[a] \in Registered
           /\ institutions[institution_id[a]].stellar_address = a
BY DEF IndexIsNewest

\* What the calls do to the record they touch, and that they touch no other.
LEMMA SuspendEffect ==
    ASSUME RegistryTypeOK, NEW s, NEW id \in InstitutionIds, SuspendInstitution(s, id)
    PROVE  /\ id \in Registered
           /\ institutions'[id] = [institutions[id] EXCEPT !.status = "Suspended"]
           /\ institutions'[id] \in Institution
           /\ \A other \in InstitutionIds \ {id} : institutions'[other] = institutions[other]
           /\ institutions' \in [InstitutionIds -> Institution \cup {NoInstitution}]
           /\ UNCHANGED <<admin, inst_ct, institution_id>>
<1>1. id \in Registered /\ institutions[id] \in Institution
  BY DEF SuspendInstitution, RegistryTypeOK, Registered
<1>2. [institutions[id] EXCEPT !.status = "Suspended"] \in Institution
  BY <1>1 DEF Institution, InstitutionStatus
<1> QED
  BY <1>1, <1>2 DEF SuspendInstitution, RegistryTypeOK

LEMMA IncrementEffect ==
    ASSUME RegistryTypeOK, IndexIsNewest, NEW a \in Addresses, IncrementIssued(a)
    PROVE  LET id == institution_id[a]
           IN  /\ id \in Registered
               /\ institutions[id].stellar_address = a
               /\ institutions'[id] = [institutions[id] EXCEPT
                                         !.credentials_issued = institutions[id].credentials_issued + 1]
               /\ institutions'[id] \in Institution
               /\ \A other \in InstitutionIds \ {id} : institutions'[other] = institutions[other]
               /\ institutions' \in [InstitutionIds -> Institution \cup {NoInstitution}]
               /\ UNCHANGED <<admin, inst_ct, institution_id>>
<1> DEFINE id == institution_id[a]
<1> DEFINE n == institutions[id].credentials_issued + 1
<1>1. /\ id \in Registered /\ institutions[id] \in Institution
      /\ institutions[id].stellar_address = a
  BY IndexedIsRegistered, RegisteredType DEF IncrementIssued
<1>2. n \in 0 .. MaxIssued
  BY <1>1, RegistryBoundsAssumption DEF IncrementIssued, Institution
<1> HIDE DEF n
<1>3. [institutions[id] EXCEPT !.credentials_issued = n] \in Institution
  BY <1>1, <1>2 DEF Institution
<1>4. institutions' = [institutions EXCEPT ![id] =
                         [institutions[id] EXCEPT !.credentials_issued = n]]
  BY DEF IncrementIssued, n
<1>5. id \in InstitutionIds /\ institutions \in [InstitutionIds -> Institution \cup {NoInstitution}]
  BY <1>1 DEF RegistryTypeOK, Registered
<1>6. UNCHANGED <<admin, inst_ct, institution_id>>
  BY DEF IncrementIssued
<1> QED
  BY <1>1, <1>3, <1>4, <1>5, <1>6 DEF n

LEMMA RegisterEffect ==
    ASSUME RegistryTypeOK, NEW s, NEW a \in Addresses, RegisterInstitution(s, a)
    PROVE  LET id == inst_ct + 1
           IN  /\ id \in InstitutionIds
               /\ inst_ct' = id
               /\ institutions'[id] = NewInstitution(id, a)
               /\ institutions'[id] \in Institution
               /\ \A other \in InstitutionIds \ {id} : institutions'[other] = institutions[other]
               /\ institutions' \in [InstitutionIds -> Institution \cup {NoInstitution}]
               /\ institution_id' = [institution_id EXCEPT ![a] = id]
               /\ UNCHANGED admin
<1>1. inst_ct + 1 \in InstitutionIds
  BY RegistryBoundsAssumption DEF RegisterInstitution, RegistryTypeOK, InstitutionIds
<1>2. NewInstitution(inst_ct + 1, a) \in Institution
  BY <1>1, NewInstitutionType
<1> QED
  BY <1>1, <1>2 DEF RegisterInstitution, RegistryTypeOK

\* Nothing is registered before initialize, which resets the counter, and no
\* call deaccredits: suspending is then the last word on a status.
NobodyDeaccredited == \A id \in Registered : institutions[id].status # "Deaccredited"

RegistryInv ==
    /\ RegistryTypeOK
    /\ IndexIsNewest
    /\ admin = NoAdmin => inst_ct = 0
    /\ NobodyDeaccredited

LEMMA RegistryInvInit == RegistryInit => RegistryInv
BY RegistryBoundsAssumption, AdminsAssumption
   DEF RegistryInit, RegistryInv, RegistryTypeOK, IndexIsNewest, NobodyDeaccredited,
       Registered, InstitutionIds

LEMMA RegistryTypeStep ==
    ASSUME RegistryInv, RegistryNext
    PROVE  RegistryTypeOK'
<1>1. ASSUME NEW a \in Admins, InitializeRegistry(a)
      PROVE  RegistryTypeOK'
  BY <1>1, RegistryBoundsAssumption DEF InitializeRegistry, RegistryInv, RegistryTypeOK
<1>2. ASSUME NEW s \in Addresses, NEW a \in Addresses, RegisterInstitution(s, a)
      PROVE  RegistryTypeOK'
  BY <1>2, RegisterEffect DEF RegistryInv, RegistryTypeOK, InstitutionIds
<1>3. ASSUME NEW s \in Addresses, NEW id \in InstitutionIds, SuspendInstitution(s, id)
      PROVE  RegistryTypeOK'
  BY <1>3, SuspendEffect DEF RegistryInv, RegistryTypeOK
<1>4. ASSUME NEW a \in Addresses, IncrementIssued(a)
      PROVE  RegistryTypeOK'
  BY <1>4, IncrementEffect DEF RegistryInv, RegistryTypeOK
<1> QED
  BY <1>1, <1>2, <1>3, <1>4 DEF RegistryNext

\* A call that changes neither counter, index nor anybody's address keeps the
\* index newest.
LEMMA IndexKept ==
    ASSUME IndexIsNewest, UNCHANGED <<inst_ct, institution_id>>,
           Registered' = Registered,
           \A id \in Registered : /\ institutions'[id].id = institutions[id].id
                                  /\ institutions'[id].stellar_address
                                       = institutions[id].stellar_address
    PROVE  IndexIsNewest'
BY DEF IndexIsNewest

LEMMA RegistryInvStep ==
    ASSUME RegistryInv, RegistryNext
    PROVE  RegistryInv'
<1> USE DEF RegistryInv
<1>1. RegistryTypeOK'
  BY RegistryTypeStep
<1>2. ASSUME NEW a \in Admins, InitializeRegistry(a)
      PROVE  RegistryInv'
  <2>1. inst_ct' = inst_ct /\ admin' # NoAdmin /\ UNCHANGED <<institutions, institution_id>>
    BY <1>2, AdminsAssumption DEF InitializeRegistry
  <2>2. IndexIsNewest'
    BY <2>1 DEF IndexIsNewest, Registered
  <2>3. NobodyDeaccredited'
    BY <2>1 DEF NobodyDeaccredited, Registered
  <2> QED
    BY <1>1, <2>1, <2>2, <2>3
<1>3. ASSUME NEW s \in Addresses, NEW a \in Addresses, RegisterInstitution(s, a)
      PROVE  RegistryInv'
  <2> DEFINE id == inst_ct + 1
  <2>1. /\ id \in InstitutionIds /\ inst_ct' = id
        /\ institutions'[id] = NewInstitution(id, a)
        /\ institutions'[id] \in Institution
        /\ \A other \in InstitutionIds \ {id} : institutions'[other] = institutions[other]
        /\ institution_id' = [institution_id EXCEPT ![a] = id]
        /\ UNCHANGED admin
    BY <1>3, RegisterEffect
  <2>2. id \notin Registered /\ inst_ct \in Nat /\ \A k \in Registered : k \in Nat /\ k < id
    BY DEF IndexIsNewest, RegistryTypeOK
  <2>3. Registered' = Registered \cup {id}
    BY <2>1, <2>2, NoInstitutionAssumption DEF Registered
  <2>4. Registered' = 1 .. inst_ct'
    BY <2>1, <2>2, <2>3 DEF IndexIsNewest
  <2>5. \A k \in Registered' : institutions'[k].id = k
    BY <2>1, <2>2, <2>3 DEF IndexIsNewest, NewInstitution, Registered
  <2>6. ASSUME NEW b \in Addresses
        PROVE  LET mine == {k \in Registered' : institutions'[k].stellar_address = b}
               IN  IF mine = {} THEN institution_id'[b] = 0
                   ELSE /\ institution_id'[b] \in mine
                        /\ \A k \in mine : k <= institution_id'[b]
    <3> DEFINE was == {k \in Registered : institutions[k].stellar_address = b}
    <3> DEFINE mine == {k \in Registered' : institutions'[k].stellar_address = b}
    <3>1. IF was = {} THEN institution_id[b] = 0
          ELSE institution_id[b] \in was /\ \A k \in was : k <= institution_id[b]
      BY DEF IndexIsNewest
    <3>2. \A k \in Registered : institutions'[k] = institutions[k]
      BY <2>1, <2>2 DEF Registered
    <3>3. institutions'[id].stellar_address = a
      BY <2>1 DEF NewInstitution
    <3>4. CASE b = a
      <4>1. institution_id'[b] = id
        BY <2>1, <3>4 DEF RegistryTypeOK
      <4>2. id \in mine
        BY <2>3, <3>3, <3>4
      <4>3. \A k \in mine : k <= id
        BY <2>2, <2>3
      <4> QED
        BY <4>1, <4>2, <4>3
    <3>5. CASE b # a
      <4>1. institution_id'[b] = institution_id[b]
        BY <2>1, <3>5 DEF RegistryTypeOK
      <4>2. mine = was
        BY <2>3, <3>2, <3>3, <3>5
      <4> QED
        BY <3>1, <4>1, <4>2
    <3> QED
      BY <3>4, <3>5
  <2>7. IndexIsNewest'
    BY <2>4, <2>5, <2>6 DEF IndexIsNewest
  <2>8. admin' # NoAdmin
    BY <1>3 DEF RegisterInstitution
  <2>9. NobodyDeaccredited'
    BY <2>1, <2>2, <2>3 DEF NobodyDeaccredited, NewInstitution, Registered
  <2> QED
    BY <1>1, <2>7, <2>8, <2>9
<1>4. ASSUME NEW s \in Addresses, NEW id \in InstitutionIds, SuspendInstitution(s, id)
      PROVE  RegistryInv'
  <2>1. /\ id \in Registered
        /\ institutions'[id] = [institutions[id] EXCEPT !.status = "Suspended"]
        /\ institutions'[id] \in Institution
        /\ \A other \in InstitutionIds \ {id} : institutions'[other] = institutions[other]
        /\ UNCHANGED <<admin, inst_ct, institution_id>>
    BY <1>4, SuspendEffect
  <2>2. Registered' = Registered
    BY <2>1, NoInstitutionAssumption DEF Registered
  <2>3. /\ institutions'[id].id = institutions[id].id
        /\ institutions'[id].stellar_address = institutions[id].stellar_address
    BY <2>1, RegisteredType DEF Institution
  <2>4. IndexIsNewest'
    BY <2>1, <2>2, <2>3, IndexKept DEF Registered
  <2>5. institutions'[id].status # "Deaccredited"
    BY <2>1, RegisteredType DEF Institution, NobodyDeaccredited
  <2>6. NobodyDeaccredited'
    BY <2>1, <2>2, <2>5 DEF NobodyDeaccredited, Registered
  <2> QED
    BY <1>1, <2>1, <2>4, <2>6
<1>5. ASSUME NEW a \in Addresses, IncrementIssued(a)
      PROVE  RegistryInv'
  <2> DEFINE id == institution_id[a]
  <2>1. /\ id \in Registered
        /\ institutions'[id] = [institutions[id] EXCEPT
                                  !.credentials_issued = institutions[id].credentials_issued + 1]
        /\ institutions'[id] \in Institution
        /\ \A other \in InstitutionIds \ {id} : institutions'[other] = institutions[other]
        /\ UNCHANGED <<admin, inst_ct, institution_id>>
    BY <1>5, IncrementEffect
  <2>2. Registered' = Registered
    BY <2>1, NoInstitutionAssumption DEF Registered
  <2>3. /\ institutions'[id].id = institutions[id].id
        /\ institutions'[id].stellar_address = institutions[id].stellar_address
    BY <2>1, RegisteredType DEF Institution
  <2>4. IndexIsNewest'
    BY <2>1, <2>2, <2>3, IndexKept DEF Registered
  <2>5. institutions'[id].status # "Deaccredited"
    BY <2>1, RegisteredType DEF Institution, NobodyDeaccredited
  <2>6. NobodyDeaccredited'
    BY <2>1, <2>2, <2>5 DEF NobodyDeaccredited, Registered
  <2> QED
    BY <1>1, <2>1, <2>4, <2>6
<1> QED
  BY <1>2, <1>3, <1>4, <1>5 DEF RegistryNext

\* What a step of the chain is to each registry: a call of its own, or nothing.
LEMMA ChainStepOfRegistry ==
    ASSUME [ChainNext]_chainVars
    PROVE  RegistryNext \/ UNCHANGED registryVars
BY DEF ChainNext, chainVars

LEMMA RegistryInvKept ==
    ASSUME RegistryInv, [ChainNext]_chainVars
    PROVE  RegistryInv'
<1>1. CASE RegistryNext
  BY <1>1, RegistryInvStep
<1>2. CASE UNCHANGED registryVars
  BY <1>2 DEF registryVars, RegistryInv, RegistryTypeOK, IndexIsNewest,
                   NobodyDeaccredited, Registered
<1> QED
  BY <1>1, <1>2, ChainStepOfRegistry

LEMMA RegistryInvAlways == ChainSpec => []RegistryInv
<1>1. ChainInit => RegistryInv
  BY RegistryInvInit DEF ChainInit
<1>2. RegistryInv /\ [ChainNext]_chainVars => RegistryInv'
  BY RegistryInvKept
<1> QED
  BY <1>1, <1>2, PTL DEF ChainSpec

\* Type correctness of the institution registry among the other contracts.
THEOREM RegistryTypeCorrect == ChainSpec => []RegistryTypeOK
<1>1. RegistryInv => RegistryTypeOK
  BY DEF RegistryInv
<1> QED
  BY <1>1, RegistryInvAlways, PTL

\* is_active, get_institution and increment_issued always look at the record
\* registered last for their address.
THEOREM IndexFollowsNewestRecord == ChainSpec => []IndexIsNewest
<1>1. RegistryInv => IndexIsNewest
  BY DEF RegistryInv
<1> QED
  BY <1>1, RegistryInvAlways, PTL

\* The action of RecordsAreForLife.
RecordsKept ==
    \A id \in Registered :
       LET old == institutions[id]
           new == institutions'[id]
       IN  /\ id \in Registered'
           /\ new.stellar_address = old.stellar_address
           /\ new.credentials_issued >= old.credentials_issued
           /\ old.status # "Active" => new.status = old.status
           /\ institution_id[old.stellar_address] # id
                => new.credentials_issued = old.credentials_issued

\* A record that is untouched is kept.
LEMMA UntouchedKept ==
    ASSUME RegistryInv, NEW id \in Registered, institutions'[id] = institutions[id]
    PROVE  LET old == institutions[id]
               new == institutions'[id]
           IN  /\ id \in Registered'
               /\ new.stellar_address = old.stellar_address
               /\ new.credentials_issued >= old.credentials_issued
               /\ old.status # "Active" => new.status = old.status
               /\ institution_id[old.stellar_address] # id
                    => new.credentials_issued = old.credentials_issued
<1>1. id \in Registered'
  BY DEF Registered
<1>2. institutions[id].credentials_issued \in Nat
  BY RegisteredType, RegistryBoundsAssumption DEF RegistryInv, Institution
<1> QED
  BY <1>1, <1>2

LEMMA RecordsKeptStep ==
    ASSUME RegistryInv, RegistryNext
    PROVE  RecordsKept
<1>1. ASSUME NEW a \in Admins, InitializeRegistry(a)
      PROVE  RecordsKept
  BY <1>1, UntouchedKept DEF InitializeRegistry, RecordsKept
<1>2. ASSUME NEW s \in Addresses, NEW a \in Addresses, RegisterInstitution(s, a)
      PROVE  RecordsKept
  <2>1. \A other \in InstitutionIds \ {inst_ct + 1} : institutions'[other] = institutions[other]
    BY <1>2, RegisterEffect DEF RegistryInv
  <2>2. \A k \in Registered : k \in InstitutionIds \ {inst_ct + 1}
    BY DEF RegistryInv, IndexIsNewest, RegistryTypeOK, Registered
  <2> QED
    BY <2>1, <2>2, UntouchedKept DEF RecordsKept
<1>3. ASSUME NEW s \in Addresses, NEW id \in InstitutionIds, SuspendInstitution(s, id)
      PROVE  RecordsKept
  <2>1. /\ id \in Registered
        /\ institutions'[id] = [institutions[id] EXCEPT !.status = "Suspended"]
        /\ institutions'[id] \in Institution
        /\ \A other \in InstitutionIds \ {id} : institutions'[other] = institutions[other]
    BY <1>3, SuspendEffect DEF RegistryInv
  <2>2. id \in Registered'
    BY <2>1, NoInstitutionAssumption DEF Registered
  <2>3. institutions[id] \in Institution /\ institutions[id].status # "Deaccredited"
    BY <2>1, RegisteredType DEF RegistryInv, NobodyDeaccredited
  <2>4. institutions[id].credentials_issued \in Nat
    BY <2>3, RegistryBoundsAssumption DEF Institution
  <2>5. LET old == institutions[id]
            new == institutions'[id]
        IN  /\ new.stellar_address = old.stellar_address
            /\ new.credentials_issued = old.credentials_issued
            /\ old.status # "Active" => new.status = old.status
    BY <2>1, <2>3 DEF Institution, InstitutionStatus
  <2>6. \A k \in Registered \ {id} : institutions'[k] = institutions[k]
    BY <2>1 DEF Registered
  <2>7. LET old == institutions[id]
            new == institutions'[id]
        IN  /\ id \in Registered'
            /\ new.stellar_address = old.stellar_address
            /\ new.credentials_issued >= old.credentials_issued
            /\ old.status # "Active" => new.status = old.status
            /\ institution_id[old.stellar_address] # id
                 => new.credentials_issued = old.credentials_issued
    <3> DEFINE o == institutions[id].credentials_issued
    <3> DEFINE n == institutions'[id].credentials_issued
    <3>1. n = o /\ o \in Nat
      BY <2>4, <2>5
    <3>2. n >= o
      <4> HIDE DEF n, o
      <4> QED
        BY <3>1
    <3> QED
      BY <2>2, <2>5, <3>1, <3>2
  <2> QED
    BY <2>6, <2>7, UntouchedKept DEF RecordsKept
<1>4. ASSUME NEW a \in Addresses, IncrementIssued(a)
      PROVE  RecordsKept
  <2>1. LET id == institution_id[a]
        IN  /\ id \in Registered
            /\ institutions[id].stellar_address = a
            /\ institutions'[id] = [institutions[id] EXCEPT
                                      !.credentials_issued = institutions[id].credentials_issued + 1]
            /\ institutions'[id] \in Institution
            /\ \A other \in InstitutionIds \ {id} : institutions'[other] = institutions[other]
    BY <1>4, IncrementEffect DEF RegistryInv
  <2>2. institution_id[a] \in Registered'
    BY <2>1, NoInstitutionAssumption DEF Registered
  <2>3. institutions[institution_id[a]] \in Institution
    BY <2>1, RegisteredType DEF RegistryInv
  <2>4. institutions[institution_id[a]].credentials_issued \in Nat
    BY <2>3, RegistryBoundsAssumption DEF Institution
  <2> QED
    BY <2>1, <2>2, <2>3, <2>4, UntouchedKept DEF RecordsKept, Registered, Institution
<1> QED
  BY <1>1, <1>2, <1>3, <1>4 DEF RegistryNext

\* A record's address never changes, its count never drops, a suspended one
\* stays suspended, and a superseded one counts no more.
THEOREM RecordsStayForLife == ChainSpec => RecordsAreForLife
<1>1. RegistryInv /\ [ChainNext]_chainVars => [RecordsKept]_registryVars
  BY RecordsKeptStep, ChainStepOfRegistry
<1> QED
  BY <1>1, RegistryInvAlways, PTL DEF ChainSpec, RecordsAreForLife, RecordsKept

-----------------------------------------------------------------------------
(* The token contract among the others.                                    *)

\* The contract that CertChain composes, with what is proved of it alone.
TokenProofs == INSTANCE CredentialTokenProofs WITH MaxLedger <- MaxRevocationLedger

\* What those proofs assume is what CertChain assumes.
LEMMA TokenAssumptionsHold ==
    /\ MaxCredentials \in Nat /\ MaxVerifications \in Nat /\ MaxRevocationLedger \in Nat
    /\ Expiries \subseteq Nat
    /\ NoCredential \notin TokenProofs!Credential \cup TokenProofs!Summary
BY TokenAssumption, RevocationBoundAssumption
   DEF Token!Credential, TokenProofs!Credential, Token!Summary, TokenProofs!Summary,
       Token!Ids, TokenProofs!Ids, Token!Status, TokenProofs!Status

\* Both names for the contract mean the same steps.
LEMMA SameContract == [Token!Next]_(Token!vars) => [TokenProofs!Next]_(TokenProofs!vars)
BY DEF Token!Next, TokenProofs!Next, Token!Use, TokenProofs!Use, Token!CloseLedger,
       TokenProofs!CloseLedger, Token!Initialize, TokenProofs!Initialize,
       Token!Issue, TokenProofs!Issue, Token!Verify, TokenProofs!Verify,
       Token!Revoke, TokenProofs!Revoke, Token!Issued, TokenProofs!Issued,
       Token!Ids, TokenProofs!Ids, Token!AfterIssue, TokenProofs!AfterIssue,
       Token!Storage, TokenProofs!Storage, Token!NewCredential,
       TokenProofs!NewCredential, Token!IssuedEvent, TokenProofs!IssuedEvent,
       Token!RevokedEvent, TokenProofs!RevokedEvent, Token!Verified,
       TokenProofs!Verified, Token!Revoked, TokenProofs!Revoked, Token!Past,
       TokenProofs!Past, Token!tokenVars, TokenProofs!tokenVars, Token!vars,
       TokenProofs!vars

\* The registries never touch the token contract's storage and no two contracts
\* close a ledger: on the chain the contract runs as if it were alone.
LEMMA ChainRunsToken == ChainSpec => TokenProofs!Spec
<1>1. ChainInit => TokenProofs!Init
  BY DEF ChainInit, Token!Init, TokenProofs!Init, Token!Ids, TokenProofs!Ids
<1>2. ASSUME [ChainNext]_chainVars
      PROVE  [TokenProofs!Next]_(TokenProofs!vars)
  <2>1. CASE RegistryNext /\ UNCHANGED <<revocationVars, tokenState, ledger>>
    BY <2>1 DEF tokenState, TokenProofs!vars, TokenProofs!tokenVars
  <2>2. CASE RevocationCall /\ UNCHANGED <<registryVars, tokenState>>
    BY <2>2 DEF RevocationCall, InitializeRevocation, RevokeEntry, tokenState,
                TokenProofs!vars, TokenProofs!tokenVars
  <2>3. CASE UNCHANGED chainVars
    BY <2>3 DEF chainVars, tokenState, TokenProofs!vars, TokenProofs!tokenVars
  <2> QED
    BY <1>2, <2>1, <2>2, <2>3, SameContract DEF ChainNext
<1> QED
  BY <1>1, <1>2, PTL DEF ChainSpec, TokenProofs!Spec

\* On the ledger that the contracts share, credentials go through the life
\* cycle, the graduates' lists and the events are exact, and a credential that
\* stopped being genuine stays so.
THEOREM ChainKeepsToken ==
    ChainSpec => /\ TokenProofs!ImplementsLifecycle
                 /\ TokenProofs!NeverGenuineAgain
                 /\ []TokenProofs!GraduateIndexExact
                 /\ []TokenProofs!EventsTellTheLedger
<1>1. TokenProofs!Spec => TokenProofs!ImplementsLifecycle
  BY TokenAssumptionsHold, TokenProofs!ContractImplementsLifecycle
<1>2. TokenProofs!Spec => TokenProofs!NeverGenuineAgain
  BY TokenAssumptionsHold, TokenProofs!GenuineOnlyOnce
<1>3. TokenProofs!Spec => []TokenProofs!GraduateIndexExact
  BY TokenAssumptionsHold, TokenProofs!GraduateListsAreExact
<1>4. TokenProofs!Spec => []TokenProofs!EventsTellTheLedger
  BY TokenAssumptionsHold, TokenProofs!EventsAreTheLedger
<1> QED
  BY <1>1, <1>2, <1>3, <1>4, ChainRunsToken
=============================================================================
