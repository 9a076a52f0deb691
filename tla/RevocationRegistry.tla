------------------------- MODULE RevocationRegistry -------------------------
(***************************************************************************)
(* The revocation-registry contract: one entry per revoked credential id,  *)
(* stamped with a ledger.  The contract calls nobody, and no code of the   *)
(* repository calls it.                                                    *)
(***************************************************************************)
EXTENDS Naturals

CONSTANTS
    Callers,            \* the addresses that call revoke
    CredContract,       \* the credential contract's address
    RevocableIds,       \* credential ids callers may pass (any u64 is accepted)
    MaxRevocationLedger \* bound on the ledger

ASSUME RevocationBoundAssumption == MaxRevocationLedger \in Nat

VARIABLES
    cred_contract_set,  \* instance storage has "cred_ct"
    entries,            \* revoked_at_ledger by credential id, 0 for no entry
    ledger              \* env.ledger().sequence()

revocationVars == <<cred_contract_set, entries>>

RevocationInit ==
    /\ cred_contract_set = FALSE
    /\ entries = [id \in RevocableIds |-> 0]

\* initialize, once.
InitializeRevocation ==
    /\ ~cred_contract_set
    /\ cred_contract_set' = TRUE
    /\ UNCHANGED <<entries, ledger>>

\* revoke: the credential contract needs no signature, any other caller its
\* own.  An id that has an entry gets a new one: the date is the last one's.
RevokeEntry(signer, caller, id) ==
    /\ cred_contract_set
    /\ caller = CredContract \/ signer = caller
    /\ entries' = [entries EXCEPT ![id] = ledger]
    /\ UNCHANGED <<cred_contract_set, ledger>>

\* is_revoked; batch_check is the function of its values.
IsRevoked(id) == entries[id] # 0

RevocationCall ==
    \/ InitializeRevocation
    \/ \E signer \in Callers, caller \in Callers \cup {CredContract}, id \in RevocableIds :
          RevokeEntry(signer, caller, id)

CloseRevocationLedger ==
    /\ ledger < MaxRevocationLedger
    /\ ledger' = ledger + 1
    /\ UNCHANGED revocationVars

RevocationSpec ==
    /\ RevocationInit /\ ledger = 1
    /\ [][RevocationCall \/ CloseRevocationLedger]_<<revocationVars, ledger>>
=============================================================================
