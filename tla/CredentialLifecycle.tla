------------------------- MODULE CredentialLifecycle -------------------------
(***************************************************************************)
(* What the credential-token contract promises its users, with nothing of  *)
(* how it stores it: a book of credentials, each minted once by an         *)
(* institution for a graduate, which from then on can only be revoked or   *)
(* lapse, whichever is recorded first.                                     *)
(***************************************************************************)
EXTENDS Naturals

CONSTANTS
    Addresses,      \* Stellar addresses: institutions and graduates
    Ids,            \* credential ids, a set of positive naturals
    Expiries,       \* the expiry dates used, 0 standing for "never"
    Absent          \* the page of an id that has not been minted

VARIABLES
    book,           \* what the contract records of every id
    ledger          \* the current ledger (its sequence number and its time)

lifecycleVars == <<book, ledger>>

\* A page of the book.
Page == [institution : Addresses, graduate : Addresses, expiry : Expiries,
         state : {"Valid", "Revoked", "Expired"}]

Minted == {id \in Ids : book[id] # Absent}

\* The expiry date e has gone by: strictly, and only when there is one.
Past(e) == e > 0 /\ ledger > e

Init == book = [id \in Ids |-> Absent] /\ ledger = 1

\* Ids are handed out densely, from 1.
Mint(id, institution, graduate, expiry) ==
    /\ book[id] = Absent
    /\ \A other \in Ids : other < id => book[other] # Absent
    /\ book' = [book EXCEPT ![id] = [institution |-> institution,
                                     graduate |-> graduate,
                                     expiry |-> expiry, state |-> "Valid"]]
    /\ UNCHANGED ledger

\* Several at once, of one institution.
MintBatch(institution) ==
    /\ book' \in [Ids -> Page \cup {Absent}]
    /\ \A id \in Ids : book'[id] # book[id] =>
          /\ book[id] = Absent
          /\ book'[id].institution = institution
          /\ book'[id].state = "Valid"
    /\ \A id, other \in Ids : other < id /\ book'[id] # Absent => book'[other] # Absent
    /\ UNCHANGED ledger

Revoke(id) ==
    /\ book[id] # Absent
    /\ book[id].state = "Valid"
    /\ book' = [book EXCEPT ![id].state = "Revoked"]
    /\ UNCHANGED ledger

Expire(id) ==
    /\ book[id] # Absent
    /\ book[id].state = "Valid"
    /\ Past(book[id].expiry)
    /\ book' = [book EXCEPT ![id].state = "Expired"]
    /\ UNCHANGED ledger

CloseLedger ==
    /\ ledger' = ledger + 1
    /\ UNCHANGED book

Next ==
    \/ \E id \in Ids, institution, graduate \in Addresses, expiry \in Expiries :
          Mint(id, institution, graduate, expiry)
    \/ \E institution \in Addresses : MintBatch(institution)
    \/ \E id \in Ids : Revoke(id) \/ Expire(id)
    \/ CloseLedger

Spec == Init /\ [][Next]_lifecycleVars
=============================================================================
