--------------------------- MODULE CredentialToken ---------------------------
(***************************************************************************)
(* The credential-token contract: the credentials, the counter that        *)
(* numbers them, the list of credentials of every graduate, and the events *)
(* the contract publishes.  A contract call is one atomic step: Soroban    *)
(* runs the transactions of a ledger one after the other and a panic rolls *)
(* the whole transaction back, so a call that fails is no step at all.     *)
(*                                                                         *)
(* The free-text fields of a credential (type, field, title, grade, issue  *)
(* date, IPFS hash, revocation reason) are written and never read by the   *)
(* contract and are left out.  The ledger's sequence number and its        *)
(* timestamp advance together and are one clock.                           *)
(***************************************************************************)
EXTENDS Naturals, Sequences

CONSTANTS
    Addresses,          \* Stellar addresses, institutions and graduates alike
    Expiries,           \* the values of expiry_date_unix used, 0 for "never"
    NoCredential,       \* what persistent storage holds for an unused id
    MaxCredentials,     \* bound on cred_ct
    MaxLedger,          \* bound on the ledger
    MaxVerifications    \* bound on verification_count

ASSUME BoundsAssumption ==
    /\ MaxCredentials \in Nat
    /\ MaxLedger \in Nat
    /\ MaxVerifications \in Nat
ASSUME ExpiriesAssumption == Expiries \subseteq Nat

VARIABLES
    initialized,        \* instance storage has "admin"
    cred_ct,            \* instance storage "cred_ct", 0 when it is missing
    credentials,        \* persistent storage keyed by credential id
    graduate_creds,     \* persistent storage keyed by graduate address
    events,             \* the ISSUED and REVOKED events, stamped by their ledger
    ledger              \* env.ledger(): sequence() and timestamp()

tokenVars == <<initialized, cred_ct, credentials, graduate_creds, events>>
vars == <<tokenVars, ledger>>

Ids == 1 .. MaxCredentials

Status == {"Valid", "Revoked", "Expired"}

Credential ==
    [id : Ids, institution : Addresses, graduate : Addresses,
     expiry_date_unix : Expiries, verification_count : Nat,
     status : Status, issued_ledger : Nat, revoked_ledger : Nat]

\* What a user of the contract relies on of a credential.
Summary == [institution : Addresses, graduate : Addresses, expiry : Expiries,
            state : Status]

ASSUME NoCredentialAssumption == NoCredential \notin Credential \cup Summary

Issued == {id \in Ids : credentials[id] # NoCredential}

-----------------------------------------------------------------------------
(* Pure parts of the calls.                                                *)

IssuedEvent(id, institution, graduate, at) ==
    [topic |-> "ISSUED", id |-> id, institution |-> institution,
     graduate |-> graduate, ledger |-> at]

RevokedEvent(id, institution, at) ==
    [topic |-> "REVOKED", id |-> id, institution |-> institution, ledger |-> at]

PastInclusive(expiry) == expiry > 0 /\ ledger >= expiry         \* mutant

\* The date after which verify calls a credential expired: strictly after.
Past(expiry) == expiry > 0 /\ ledger > expiry

NewCredential(id, institution, graduate, expiry) ==
    [id |-> id, institution |-> institution, graduate |-> graduate,
     expiry_date_unix |-> expiry, verification_count |-> 0,
     status |-> "Valid", issued_ledger |-> ledger, revoked_ledger |-> 0]

\* The storage issue reads and writes, as a value, so that a call can be repeated
\* inside one transaction (issue_batch does).
Storage == [cred_ct |-> cred_ct, credentials |-> credentials,
            graduate_creds |-> graduate_creds, events |-> events]

\* Mutants of the next definition: ids from 0; the graduate's list replaced.
AfterIssueFromZero(s, institution, graduate, expiry) ==
    [cred_ct        |-> s.cred_ct + 1,
     credentials    |-> [s.credentials EXCEPT
                           ![s.cred_ct] = NewCredential(s.cred_ct, institution, graduate, expiry)],
     graduate_creds |-> [s.graduate_creds EXCEPT ![graduate] = Append(@, s.cred_ct)],
     events         |-> s.events \cup {IssuedEvent(s.cred_ct, institution, graduate, ledger)}]

AfterIssueNewList(s, institution, graduate, expiry) ==
    LET id == s.cred_ct + 1
    IN  [cred_ct        |-> id,
         credentials    |-> [s.credentials EXCEPT
                               ![id] = NewCredential(id, institution, graduate, expiry)],
         graduate_creds |-> [s.graduate_creds EXCEPT ![graduate] = <<id>>],
         events         |-> s.events \cup {IssuedEvent(id, institution, graduate, ledger)}]

AfterIssue(s, institution, graduate, expiry) ==
    LET id == s.cred_ct + 1
    IN  [cred_ct        |-> id,
         credentials    |-> [s.credentials EXCEPT
                               ![id] = NewCredential(id, institution, graduate, expiry)],
         graduate_creds |-> [s.graduate_creds EXCEPT ![graduate] = Append(@, id)],
         events         |-> s.events \cup {IssuedEvent(id, institution, graduate, ledger)}]

\* Mutants of the next definition: an expired credential is Expired, revoked or
\* not; the status is computed afresh from the date.
VerifiedAnyStatus(c) ==
    [c EXCEPT !.status = IF Past(c.expiry_date_unix) THEN "Expired" ELSE @,
              !.verification_count = @ + 1]

VerifiedAfresh(c) ==
    [c EXCEPT !.status = IF Past(c.expiry_date_unix) THEN "Expired" ELSE "Valid",
              !.verification_count = @ + 1]

\* The credential verify returns and stores.
Verified(c) ==
    [c EXCEPT !.status = IF Past(c.expiry_date_unix) /\ @ = "Valid"
                         THEN "Expired" ELSE @,
              !.verification_count = @ + 1]

\* The credential revoke stores.
Revoked(c) == [c EXCEPT !.status = "Revoked", !.revoked_ledger = ledger]

-----------------------------------------------------------------------------
(* The contract's state when it is deployed, and its calls.                *)

Init ==
    /\ initialized = FALSE
    /\ cred_ct = 0
    /\ credentials = [id \in Ids |-> NoCredential]
    /\ graduate_creds = [a \in Addresses |-> <<>>]
    /\ events = {}
    /\ ledger = 1

\* Anyone may call initialize, once; it resets the counter.
Initialize ==
    /\ ~initialized
    /\ initialized' = TRUE
    /\ cred_ct' = 0
    /\ UNCHANGED <<credentials, graduate_creds, events, ledger>>

\* issue reads nothing that initialize writes but the counter, and the
\* counter defaults to 0: it does not need an initialized contract.
Issue(signer, institution, graduate, expiry) ==
    /\ signer = institution
    /\ cred_ct < MaxCredentials
    /\ LET s == AfterIssue(Storage, institution, graduate, expiry)
       IN  /\ cred_ct' = s.cred_ct
           /\ credentials' = s.credentials
           /\ graduate_creds' = s.graduate_creds
           /\ events' = s.events
    /\ UNCHANGED <<initialized, ledger>>

\* verify submitted as a transaction.  (Simulated, it changes nothing.)
Verify(id) ==
    /\ id \in Issued
    /\ credentials[id].verification_count < MaxVerifications
    /\ credentials' = [credentials EXCEPT ![id] = Verified(@)]
    /\ UNCHANGED <<initialized, cred_ct, graduate_creds, events, ledger>>

RevokeByAnyInstitution(signer, institution, id) ==               \* mutant
    /\ signer = institution
    /\ id \in Issued
    /\ credentials[id].status = "Valid"
    /\ credentials' = [credentials EXCEPT ![id] = Revoked(@)]
    /\ events' = events \cup {RevokedEvent(id, institution, ledger)}
    /\ UNCHANGED <<initialized, cred_ct, graduate_creds, ledger>>

Revoke(signer, institution, id) ==
    /\ signer = institution
    /\ id \in Issued
    /\ credentials[id].institution = institution
    /\ credentials[id].status = "Valid"
    /\ credentials' = [credentials EXCEPT ![id] = Revoked(@)]
    /\ events' = events \cup {RevokedEvent(id, institution, ledger)}
    /\ UNCHANGED <<initialized, cred_ct, graduate_creds, ledger>>

\* The network closes a ledger.
CloseLedger ==
    /\ ledger < MaxLedger
    /\ ledger' = ledger + 1
    /\ UNCHANGED tokenVars

\* The calls that use the contract (transfer always panics: it is no step).
Use ==
    \/ \E signer, institution, graduate \in Addresses, expiry \in Expiries :
          Issue(signer, institution, graduate, expiry)
    \/ \E id \in Ids : Verify(id)
    \/ \E signer, institution \in Addresses, id \in Ids :
          Revoke(signer, institution, id)

\* The contract as it is: any call at any time.
AnyOrder == Initialize \/ Use \/ CloseLedger

AnyOrderSpec == Init /\ [][AnyOrder]_vars

\* The contract as the deployment procedure uses it: initialize first.
Next == Initialize \/ (initialized /\ Use) \/ CloseLedger

Spec == Init /\ [][Next]_vars

-----------------------------------------------------------------------------
(* Properties.                                                             *)

\* The shape of the contract's storage and of its events.
TypeOK ==
    /\ initialized \in BOOLEAN
    /\ cred_ct \in 0 .. MaxCredentials
    /\ credentials \in [Ids -> Credential \cup {NoCredential}]
    /\ graduate_creds \in [Addresses -> Seq(Ids)]
    /\ events \subseteq
         [topic : {"ISSUED"}, id : Ids, institution : Addresses,
          graduate : Addresses, ledger : Nat]
         \cup [topic : {"REVOKED"}, id : Ids, institution : Addresses, ledger : Nat]
    /\ ledger \in Nat \ {0}

\* The counter is the number of credentials, which are numbered without a gap
\* and stored under their own number.
CountExact ==
    /\ Issued = 1 .. cred_ct
    /\ \A id \in Issued : credentials[id].id = id

\* A graduate's list holds exactly the ids of the graduate's credentials, each
\* once, in the order of issue: issue's writes to the two storages agree.
GraduateIndexExact ==
    /\ CountExact
    /\ \A a \in Addresses :
          /\ {graduate_creds[a][i] : i \in 1 .. Len(graduate_creds[a])}
                = {id \in Issued : credentials[id].graduate = a}
          /\ \A i, j \in 1 .. Len(graduate_creds[a]) :
                i < j => graduate_creds[a][i] < graduate_creds[a][j]

\* Status and dates tell the same story: revoked_ledger is set exactly on the
\* revoked, no earlier than the issue and no later than now; Expired only after
\* a verify call saw the expiry date passed.
StatusDated ==
    \A id \in Issued :
       LET c == credentials[id]
       IN  /\ c.issued_ledger \in 1 .. ledger
           /\ c.status = "Revoked" => c.revoked_ledger \in c.issued_ledger .. ledger
           /\ c.status # "Revoked" => c.revoked_ledger = 0
           /\ c.status = "Expired" => /\ 0 < c.expiry_date_unix
                                      /\ c.expiry_date_unix < ledger
                                      /\ c.verification_count > 0

\* The published events tell the whole story of issue and revoke: who follows
\* them knows every credential's issuer and graduate, which are revoked, by
\* whom (always the issuer) and when, and that each was revoked once.
EventsTellTheLedger ==
    events = {IssuedEvent(id, credentials[id].institution, credentials[id].graduate,
                          credentials[id].issued_ledger) : id \in Issued}
             \cup {RevokedEvent(id, credentials[id].institution,
                                credentials[id].revoked_ledger) :
                      id \in {k \in Issued : credentials[k].status = "Revoked"}}

\* What verify answers Valid for, now.
Genuine(id) == /\ id \in Issued
               /\ credentials[id].status = "Valid"
               /\ ~Past(credentials[id].expiry_date_unix)

\* A credential that stopped being genuine, by revocation or because its date
\* passed, recorded or not, never is again, whatever is called in what order.
NeverGenuineAgain ==
    [][\A id \in Issued : ~Genuine(id) => ~Genuine(id)']_vars

\* README.md:277 "Soroban contract mints a unique record", :276 "immutable by
\* design": what is issued under an id is never replaced by something else.
IssuedForGood ==
    [][\A id \in Issued :
          /\ id \in Issued'
          /\ \A field \in {"institution", "graduate", "expiry_date_unix", "issued_ledger"} :
                credentials'[id][field] = credentials[id][field]]_vars

SummaryOf(c) == [institution |-> c.institution, graduate |-> c.graduate,
                 expiry |-> c.expiry_date_unix, state |-> c.status]

Book == [id \in Ids |-> IF credentials[id] = NoCredential THEN NoCredential
                        ELSE SummaryOf(credentials[id])]

\* The contract implements the life cycle its users rely on.
Lifecycle == INSTANCE CredentialLifecycle WITH Absent <- NoCredential, book <- Book

\* Every step of the contract is a step of the life cycle, or none: an id is
\* minted once and for good, a revoked or expired credential stays so.
ImplementsLifecycle == Lifecycle!Spec
=============================================================================
