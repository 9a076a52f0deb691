------------------------------ MODULE CertChain ------------------------------
(***************************************************************************)
(* The deployed contracts side by side on one ledger.  credential-token    *)
(* stores the registry's address and calls neither of the registries, and  *)
(* they call nobody, so the composition is the interleaving of their       *)
(* calls.                                                                  *)
(***************************************************************************)
EXTENDS InstitutionRegistry, RevocationRegistry

CONSTANTS Expiries, NoCredential, MaxCredentials, MaxVerifications

VARIABLES initialized, cred_ct, credentials, graduate_creds, events

Token == INSTANCE CredentialToken WITH MaxLedger <- MaxRevocationLedger

ASSUME TokenAssumption ==
    /\ MaxCredentials \in Nat /\ MaxVerifications \in Nat /\ Expiries \subseteq Nat
    /\ NoCredential \notin Token!Credential \cup Token!Summary

tokenState == <<initialized, cred_ct, credentials, graduate_creds, events>>
chainVars == <<registryVars, revocationVars, tokenState, ledger>>

ChainInit == RegistryInit /\ RevocationInit /\ Token!Init

\* Closing a ledger is Token's: it is the same for all contracts.
ChainNext ==
    \/ Token!Next /\ UNCHANGED <<registryVars, revocationVars>>
    \/ RegistryNext /\ UNCHANGED <<revocationVars, tokenState, ledger>>
    \/ RevocationCall /\ UNCHANGED <<registryVars, tokenState>>

ChainSpec == ChainInit /\ [][ChainNext]_chainVars

-----------------------------------------------------------------------------
(* What the documentation says the contracts do together.                  *)

\* README.md:266 "removing accreditation status halts future issuance": nobody
\* issues for a registered institution that is not active.
SuspensionHaltsIssuance ==
    [][\A id \in Token!Issued' \ Token!Issued :
          LET institution == credentials'[id].institution
          IN  institution_id[institution] # 0 => IsActive(institution)]_chainVars
=============================================================================
