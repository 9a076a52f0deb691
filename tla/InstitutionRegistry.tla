------------------------- MODULE InstitutionRegistry -------------------------
(***************************************************************************)
(* The institution-registry contract: numbered institution records, and an *)
(* index from a Stellar address to the record registered for it last.  The *)
(* fields of a record that are written once and never read by the contract *)
(* (name, country, accreditation, type, website, the ledger of its         *)
(* registration) and the REG event are left out.                           *)
(***************************************************************************)
EXTENDS Naturals

CONSTANTS
    Addresses,          \* Stellar addresses
    Admins,             \* the addresses that may become the stored admin
    NoInstitution,      \* what persistent storage holds for an unused id
    NoAdmin,            \* instance storage without "admin"
    MaxInstitutions,    \* bound on inst_ct
    MaxIssued           \* bound on credentials_issued

ASSUME RegistryBoundsAssumption == MaxInstitutions \in Nat /\ MaxIssued \in Nat
ASSUME AdminsAssumption == Admins \subseteq Addresses /\ NoAdmin \notin Addresses

VARIABLES
    admin,              \* instance storage "admin"
    inst_ct,            \* instance storage "inst_ct"
    institutions,       \* persistent storage keyed by institution id
    institution_id      \* persistent storage keyed by address, 0 for no entry

registryVars == <<admin, inst_ct, institutions, institution_id>>

InstitutionIds == 1 .. MaxInstitutions

InstitutionStatus == {"Active", "Suspended", "Deaccredited"}

Institution == [id : InstitutionIds, stellar_address : Addresses,
                status : InstitutionStatus, credentials_issued : 0 .. MaxIssued]

ASSUME NoInstitutionAssumption == NoInstitution \notin Institution

Registered == {id \in InstitutionIds : institutions[id] # NoInstitution}

-----------------------------------------------------------------------------
RegistryInit ==
    /\ admin = NoAdmin
    /\ inst_ct = 0
    /\ institutions = [id \in InstitutionIds |-> NoInstitution]
    /\ institution_id = [a \in Addresses |-> 0]

\* initialize, once; unlike credential-token's, nothing works before it.
InitializeRegistry(newAdmin) ==
    /\ admin = NoAdmin
    /\ admin' = newAdmin
    /\ inst_ct' = 0
    /\ UNCHANGED <<institutions, institution_id>>

NewInstitutionPending(id, address) ==                           \* mutant
    [id |-> id, stellar_address |-> address, status |-> "Pending",
     credentials_issued |-> 0]

NewInstitution(id, address) ==
    [id |-> id, stellar_address |-> address, status |-> "Active",
     credentials_issued |-> 0]

RegisterKeepsFirst(signer, address) ==                          \* mutant
    /\ admin # NoAdmin
    /\ signer = admin
    /\ inst_ct < MaxInstitutions
    /\ LET id == inst_ct + 1
       IN  /\ inst_ct' = id
           /\ institutions' = [institutions EXCEPT ![id] = NewInstitution(id, address)]
           /\ institution_id' = IF institution_id[address] = 0
                                THEN [institution_id EXCEPT ![address] = id]
                                ELSE institution_id
    /\ UNCHANGED admin

RegisterInPlace(signer, address) ==                             \* mutant
    /\ admin # NoAdmin
    /\ signer = admin
    /\ inst_ct < MaxInstitutions
    /\ LET id == IF institution_id[address] = 0 THEN inst_ct + 1
                 ELSE institution_id[address]
       IN  /\ inst_ct' = IF id > inst_ct THEN id ELSE inst_ct
           /\ institutions' = [institutions EXCEPT ![id] = NewInstitution(id, address)]
           /\ institution_id' = [institution_id EXCEPT ![address] = id]
    /\ UNCHANGED admin

\* register_institution: the stored admin must sign (the admin argument is not
\* looked at), and an address that is registered already gets a second record.
RegisterInstitution(signer, address) ==
    /\ admin # NoAdmin
    /\ signer = admin
    /\ inst_ct < MaxInstitutions
    /\ LET id == inst_ct + 1
       IN  /\ inst_ct' = id
           /\ institutions' = [institutions EXCEPT ![id] = NewInstitution(id, address)]
           /\ institution_id' = [institution_id EXCEPT ![address] = id]
    /\ UNCHANGED admin

\* suspend_institution: by id, whatever the status.
SuspendInstitution(signer, id) ==
    /\ admin # NoAdmin
    /\ signer = admin
    /\ id \in Registered
    /\ institutions' = [institutions EXCEPT ![id].status = "Suspended"]
    /\ UNCHANGED <<admin, inst_ct, institution_id>>

\* increment_issued: anyone, for any registered address.
IncrementIssued(address) ==
    /\ institution_id[address] # 0
    /\ institutions[institution_id[address]].credentials_issued < MaxIssued
    /\ institutions' = [institutions EXCEPT
                          ![institution_id[address]].credentials_issued = @ + 1]
    /\ UNCHANGED <<admin, inst_ct, institution_id>>

RegistryNext ==
    \/ \E a \in Admins : InitializeRegistry(a)
    \/ \E signer, address \in Addresses : RegisterInstitution(signer, address)
    \/ \E signer \in Addresses, id \in InstitutionIds : SuspendInstitution(signer, id)
    \/ \E address \in Addresses : IncrementIssued(address)

RegistrySpec == RegistryInit /\ [][RegistryNext]_registryVars

\* is_active and get_institution, by address.
IsActive(address) ==
    /\ institution_id[address] # 0
    /\ institutions[institution_id[address]].status = "Active"

-----------------------------------------------------------------------------
(* Properties.                                                             *)

RegistryTypeOK ==
    /\ admin \in Admins \cup {NoAdmin}
    /\ inst_ct \in 0 .. MaxInstitutions
    /\ institutions \in [InstitutionIds -> Institution \cup {NoInstitution}]
    /\ institution_id \in [Addresses -> 0 .. MaxInstitutions]

\* The records are numbered densely and the index of an address is its newest
\* record: is_active, get_institution and increment_issued look at that one,
\* whatever older records of the address say.
IndexIsNewest ==
    /\ Registered = 1 .. inst_ct
    /\ \A id \in Registered : institutions[id].id = id
    /\ \A a \in Addresses :
         LET mine == {id \in Registered : institutions[id].stellar_address = a}
         IN  IF mine = {} THEN institution_id[a] = 0
             ELSE /\ institution_id[a] \in mine
                  /\ \A id \in mine : id <= institution_id[a]

\* A record is for life: its address never changes, its count never drops, a
\* suspended one stays suspended, and once a newer record of its address
\* exists its count is final.
RecordsAreForLife ==
    [][\A id \in Registered :
          LET old == institutions[id]
              new == institutions'[id]
          IN  /\ id \in Registered'
              /\ new.stellar_address = old.stellar_address
              /\ new.credentials_issued >= old.credentials_issued
              /\ old.status # "Active" => new.status = old.status
              /\ institution_id[old.stellar_address] # id
                   => new.credentials_issued = old.credentials_issued]_registryVars
=============================================================================
