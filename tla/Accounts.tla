------------------------------ MODULE Accounts ------------------------------
(***************************************************************************)
(* Logging in to the backend: the challenge a wallet signs, verifyAndLogin *)
(* of the auth service with findOrCreateByPublicKey of the institutions    *)
(* and graduates services, the two tables of accounts with their           *)
(* constraints, and the institutions' profile updates.                     *)
(*                                                                         *)
(* Any transaction that the key has signed at any time is what             *)
(* verifyChallengeTransaction looks for and all it looks for: the copy of  *)
(* the challenge kept in the cache is read nowhere, and the role is not    *)
(* part of what is signed.  Signatures themselves are taken as perfect.  A *)
(* login is split at its awaits.  Of an account only what a login reads is *)
(* kept: nothing branches on an institution's status.                      *)
(***************************************************************************)
EXTENDS Naturals

CONSTANTS
    Keys,           \* Stellar public keys
    Logins,         \* executions of verifyAndLogin
    MaxAccounts     \* bound on the accounts of both tables

ASSUME MaxAccountsAssumption == MaxAccounts \in Nat

VARIABLES
    accounts,       \* the rows of the tables institutions and graduates
    admitted,       \* history: the ids, past ones too, of the institutions that
                    \* the operators entered
    signed,         \* history: the keys that have signed a transaction
    login,          \* where each login is, and its arguments
    tokens          \* the access tokens handed out

accountsVars == <<accounts, admitted, signed, login, tokens>>

Roles == {"INSTITUTION", "GRADUATE"}

\* A row; the table is its role.
Account == [id : 1 .. MaxAccounts, role : Roles, key : Keys]

\* An access token; the JWT strategy makes the request's user of it.
Token == [sub : 1 .. MaxAccounts, publicKey : Keys, role : Roles]

AccountsInit ==
    /\ accounts = {}
    /\ admitted = {}
    /\ signed = {}
    /\ login = [l \in Logins |-> [pc |-> "rest"]]
    /\ tokens = {}

\* Generated ids are UUIDs: they are like no other that is or was in use.
FreshIds == {id \in 1 .. MaxAccounts : id \notin admitted /\ \A a \in accounts : a.id # id}

Of(role, key) == {a \in accounts : a.role = role /\ a.key = key}

-----------------------------------------------------------------------------
(* Logging in.                                                             *)

Verified(key, role) == [pc |-> "find", key |-> key, role |-> role]

BeginLoginUnchecked(l, key, signers, role) ==                   \* mutant
    /\ login[l].pc = "rest"
    /\ login' = [login EXCEPT ![l] = Verified(key, role)]
    /\ UNCHANGED <<accounts, admitted, tokens>>

\* verifyAndLogin, with a transaction that the signers have signed: without a
\* signature of the key it is Unauthorized.
BeginLogin(l, key, signers, role) ==
    /\ login[l].pc = "rest"
    /\ login' = [login EXCEPT ![l] = IF key \in signers THEN Verified(key, role)
                                     ELSE [pc |-> "failed"]]
    /\ UNCHANGED <<accounts, admitted, tokens>>

\* The wallet of a key signs something else, on whatever occasion.
SignElsewhere(key) ==
    /\ signed' = signed \cup {key}
    /\ UNCHANGED <<accounts, admitted, login, tokens>>

\* POST /auth/verify from anywhere, in whatever role, with a transaction that the
\* key signed once: it may be a challenge or not, and be presented again.
Verify(l, key, role) ==
    /\ key \in signed
    /\ BeginLogin(l, key, {key}, role)
    /\ UNCHANGED signed

\* The token is signed in the same turn of the event loop as the account is
\* known.
GiveToken(l, sub) ==
    LET token == [sub |-> sub, publicKey |-> login[l].key, role |-> login[l].role]
    IN  /\ tokens' = tokens \cup {token}
        /\ login' = [login EXCEPT ![l] = [pc |-> "done", token |-> token]]

Fail(l) == login' = [login EXCEPT ![l] = [pc |-> "failed"]] /\ UNCHANGED tokens

\* findOrCreateByPublicKey looks for the account.
FindAccount(l) ==
    /\ login[l].pc = "find"
    /\ IF Of(login[l].role, login[l].key) = {}
       THEN login' = [login EXCEPT ![l].pc = "create"] /\ UNCHANGED tokens
       ELSE \E a \in Of(login[l].role, login[l].key) : GiveToken(l, a.id)
    /\ UNCHANGED <<accounts, admitted, signed>>

CreateUnconstrained(l) ==                                       \* mutant
    /\ login[l].pc = "create"
    /\ IF login[l].role = "GRADUATE"
       THEN \E id \in FreshIds :
              /\ accounts' = accounts \cup {[id |-> id, role |-> "GRADUATE", key |-> login[l].key]}
              /\ GiveToken(l, id) \/ Fail(l)
       ELSE Fail(l) /\ UNCHANGED accounts
    /\ UNCHANGED <<admitted, signed>>

CreateInstitutionToo(l) ==                                      \* mutant
    /\ login[l].pc = "create"
    /\ IF Of(login[l].role, login[l].key) = {}
       THEN \E id \in FreshIds :
              /\ accounts' = accounts \cup {[id |-> id, role |-> login[l].role, key |-> login[l].key]}
              /\ GiveToken(l, id) \/ Fail(l)
       ELSE Fail(l) /\ UNCHANGED accounts
    /\ UNCHANGED <<admitted, signed>>

\* ... and inserts one that has its key only.  The database refuses a key that
\* is there by now, and an institution without name, country, accreditation or
\* type.  The answer to an insert may be lost.
CreateAccount(l) ==
    /\ login[l].pc = "create"
    /\ IF login[l].role = "GRADUATE" /\ Of("GRADUATE", login[l].key) = {}
       THEN \E id \in FreshIds :
              /\ accounts' = accounts \cup {[id |-> id, role |-> "GRADUATE", key |-> login[l].key]}
              /\ GiveToken(l, id) \/ Fail(l)
       ELSE Fail(l) /\ UNCHANGED accounts
    /\ UNCHANGED <<admitted, signed>>

\* The database is down, or the process dies: a login in flight is lost.
Abort(l) ==
    /\ login[l].pc \in {"find", "create"}
    /\ Fail(l)
    /\ UNCHANGED <<accounts, admitted, signed>>

\* A login that has ended makes room for another.
Rest(l) ==
    /\ login[l].pc \in {"done", "failed"}
    /\ login' = [login EXCEPT ![l] = [pc |-> "rest"]]
    /\ UNCHANGED <<accounts, admitted, signed, tokens>>

-----------------------------------------------------------------------------
(* Accounts besides logins.                                                *)

\* The operators enter an institution in the table; no code of the repository
\* does.
Admit(id, key) ==
    /\ Of("INSTITUTION", key) = {}
    /\ accounts' = accounts \cup {[id |-> id, role |-> "INSTITUTION", key |-> key]}
    /\ admitted' = admitted \cup {id}
    /\ UNCHANGED <<signed, login, tokens>>

\* What the roles guard lets through to the routes of institutions.
Served(token) == token.role = "INSTITUTION"

\* A row is overwritten; who was admitted stays so under another id.
Rewrite(a, id, key) ==
    /\ accounts' = (accounts \ {a}) \cup {[a EXCEPT !.id = id, !.key = key]}
    /\ admitted' = IF a.id \in admitted THEN admitted \cup {id} ELSE admitted
    /\ UNCHANGED <<signed, login, tokens>>

UpdateProfileUnchecked(sub, id, key) ==                         \* mutant
    \E a \in accounts : /\ a.role = "INSTITUTION" /\ a.id = sub
                        /\ Rewrite(a, id, key)

\* updateProfile.  The body is stored as it comes, with the key and the id of the
\* row in it; the table wants both to be free.
UpdateProfile(sub, id, key) ==
    \E a \in accounts :
       /\ a.role = "INSTITUTION" /\ a.id = sub
       /\ \A other \in accounts \ {a} :
             other.role = "INSTITUTION" => other.id # id /\ other.key # key
       /\ Rewrite(a, id, key)

\* PUT /institutions/me, of who is served: the account is the one the token names.
PutMe(token, id, key) == Served(token) /\ UpdateProfile(token.sub, id, key)

\* What happens in the backend besides the requests of browsers.
Backend ==
    \/ \E l \in Logins : FindAccount(l) \/ CreateAccount(l) \/ Abort(l)
    \/ \E id \in FreshIds, key \in Keys : Admit(id, key)

-----------------------------------------------------------------------------
(* Properties.                                                             *)

\* The shape of the state, and the unique keys of the tables.
AccountsTypeOK ==
    /\ accounts \subseteq Account
    /\ \A a, b \in accounts : a.role = b.role /\ (a.id = b.id \/ a.key = b.key) => a = b
    /\ admitted \subseteq 1 .. MaxAccounts
    /\ signed \subseteq Keys
    /\ login \in [Logins -> [pc : {"rest", "failed"}]
                            \cup [pc : {"done"}, token : Token]
                            \cup [pc : {"find", "create"}, key : Keys, role : Roles]]
    /\ tokens \subseteq Token

\* A graduate's token names an account of the token's key, for good, and all
\* tokens of a graduate's key name the same one, however the first logins with
\* the key race each other and whichever of their inserts is refused.  (Of an
\* institution's token this is not so: updateProfile may rewrite id and key.)
GraduatesKeepTheirAccount ==
    /\ \A t \in tokens : t.role = "GRADUATE" =>
          \E a \in accounts : a.id = t.sub /\ a.role = t.role /\ a.key = t.publicKey
    /\ \A t, u \in tokens :
          t.role = "GRADUATE" /\ u.role = "GRADUATE" /\ t.publicKey = u.publicKey
             => t.sub = u.sub

\* A token is only handed out to a key that has signed a transaction, although
\* the wallet may sign with another account than it connected with.
TokensAreSigned == \A t \in tokens : t.publicKey \in signed

\* README.md:1622 "Institution registration is gated by admin approval ... no
\* self-registration": a login alone makes nobody an institution, although it
\* runs findOrCreateByPublicKey for institutions and graduates alike.
InstitutionsAreAdmitted ==
    /\ \A t \in tokens : t.role = "INSTITUTION" => t.sub \in admitted
    /\ \A a \in accounts : a.role = "INSTITUTION" => a.id \in admitted
=============================================================================
