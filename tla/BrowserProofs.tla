----------------------------- MODULE BrowserProofs -----------------------------
(***************************************************************************)
(* What logging in guarantees, for every set of keys, any number of        *)
(* attempts and of accounts.                                               *)
(***************************************************************************)
EXTENDS Browser, TLAPS

Underway == [pc : {"find", "create"}, key : Keys, role : Roles]

LoginState == [pc : {"rest", "failed"}] \cup [pc : {"done"}, token : Token]
              \cup Underway

FlowState == {Rested} \cup [pc : {"challenge", "sign", "verify"}, key : Keys, role : Roles]

UniqueAccounts ==
    \A a, b \in accounts : a.role = b.role /\ (a.id = b.id \/ a.key = b.key) => a = b

\* Who a token names: a graduate's account, or one that was an institution's.
TokensNamed ==
    \A t \in tokens :
       /\ t.role = "GRADUATE" =>
             \E a \in accounts : a.id = t.sub /\ a.role = t.role /\ a.key = t.publicKey
       /\ t.role = "INSTITUTION" => t.sub \in admitted

AccountsAdmitted == \A a \in accounts : a.role = "INSTITUTION" => a.id \in admitted

\* What the tab remembers of an attempt and what the backend does for it
\* belong together: a login is only under way for a key that has signed, it is
\* the one of the attempt that waits for it, and no attempt starts before.
FlowFollowsLogin(l) ==
    /\ flow[l].pc \in {"challenge", "sign"} => login[l].pc = "rest"
    /\ login[l].pc \in {"find", "create"} => login[l].key \in signed
    /\ login[l].pc = "done" => login[l].token \in tokens
    /\ flow[l].pc = "verify" =>
         /\ login[l].pc \in {"find", "create"} => login[l].role = flow[l].role
         /\ login[l].pc = "done" => login[l].token.role = flow[l].role

AccountsPart == /\ accounts \subseteq Account /\ UniqueAccounts
                /\ admitted \subseteq 1 .. MaxAccounts /\ AccountsAdmitted

TokensPart == tokens \subseteq Token /\ TokensNamed /\ TokensAreSigned

LoginsPart == /\ login \in [Logins -> LoginState] /\ flow \in [Logins -> FlowState]
              /\ signed \subseteq Keys
              /\ \A l \in Logins : FlowFollowsLogin(l)

StoragePart == storage \in {NoSession} \cup [token : Token, role : Roles] /\ StorageIsOnePair

BrowserInv == AccountsPart /\ TokensPart /\ LoginsPart /\ StoragePart

LEMMA BrowserInvInit == BrowserInit => BrowserInv
BY DEF BrowserInit, AccountsInit, BrowserInv, AccountsPart, TokensPart, LoginsPart, StoragePart,
       UniqueAccounts, AccountsAdmitted, TokensNamed, TokensAreSigned, LoginState, FlowState,
       FlowFollowsLogin, StorageIsOnePair, Rested, Roles

-----------------------------------------------------------------------------
(* What the calls do to the accounts and the tokens.                       *)

\* A graduate's account is never touched, and who was admitted stays so.
AccountsOnlyAdded ==
    /\ \A a \in accounts : a.role = "GRADUATE" => a \in accounts'
    /\ admitted \subseteq admitted'

LEMMA AddAccount ==
    ASSUME AccountsPart, NEW id \in FreshIds, NEW role \in Roles, NEW key \in Keys,
           Of(role, key) = {},
           accounts' = accounts \cup {[id |-> id, role |-> role, key |-> key]},
           admitted' = admitted \/ admitted' = admitted \cup {id},
           role = "INSTITUTION" => id \in admitted'
    PROVE  AccountsPart' /\ AccountsOnlyAdded
<1> DEFINE new == [id |-> id, role |-> role, key |-> key]
<1>1. /\ new \in Account /\ id \in 1 .. MaxAccounts
      /\ new.id = id /\ new.role = role /\ new.key = key
  BY DEF FreshIds, Account
<1>2. \A a \in accounts : a.id # id /\ ~(a.role = role /\ a.key = key)
  BY DEF FreshIds, Of
<1> HIDE DEF new
<1>3. accounts' = accounts \cup {new}
  BY DEF new
<1>4. UniqueAccounts'
  BY <1>1, <1>2, <1>3 DEF AccountsPart, UniqueAccounts
<1>5. AccountsAdmitted' /\ admitted' \subseteq 1 .. MaxAccounts
  BY <1>1, <1>3 DEF AccountsPart, AccountsAdmitted
<1> QED
  BY <1>1, <1>4, <1>5, <1>3 DEF AccountsPart, AccountsOnlyAdded

LEMMA UpdateEffect ==
    ASSUME AccountsPart, NEW sub, NEW id \in 1 .. MaxAccounts, NEW key \in Keys,
           UpdateProfile(sub, id, key)
    PROVE  AccountsPart' /\ AccountsOnlyAdded /\ UNCHANGED <<signed, login, tokens>>
<1>1. PICK a \in accounts :
         /\ a.role = "INSTITUTION" /\ a.id = sub
         /\ \A other \in accounts \ {a} :
               other.role = "INSTITUTION" => other.id # id /\ other.key # key
         /\ Rewrite(a, id, key)
  BY DEF UpdateProfile
<1> DEFINE new == [a EXCEPT !.id = id, !.key = key]
<1>2. new \in Account /\ new.id = id /\ new.role = "INSTITUTION" /\ new.key = key
  BY <1>1 DEF AccountsPart, Account
<1>3. /\ accounts' = (accounts \ {a}) \cup {new}
      /\ admitted' = IF a.id \in admitted THEN admitted \cup {id} ELSE admitted
      /\ UNCHANGED <<signed, login, tokens>>
  BY <1>1 DEF Rewrite
<1> HIDE DEF new
<1>4. a.id \in admitted
  BY <1>1 DEF AccountsPart, AccountsAdmitted
<1>5. UniqueAccounts'
  BY <1>1, <1>2, <1>3 DEF AccountsPart, UniqueAccounts
<1>6. AccountsAdmitted' /\ admitted' \subseteq 1 .. MaxAccounts
  BY <1>2, <1>3, <1>4 DEF AccountsPart, AccountsAdmitted
<1>7. AccountsOnlyAdded
  BY <1>1, <1>2, <1>3 DEF AccountsOnlyAdded
<1> QED
  BY <1>2, <1>3, <1>5, <1>6, <1>7 DEF AccountsPart

\* The accounts of tokens stay, whatever is added.
LEMMA TokensKept ==
    ASSUME TokensPart, AccountsOnlyAdded, tokens' = tokens, signed \subseteq signed'
    PROVE  TokensPart'
BY DEF TokensPart, AccountsOnlyAdded, TokensNamed, TokensAreSigned

\* A token given for an account.
LEMMA TokenGiven ==
    ASSUME TokensPart, LoginsPart, AccountsOnlyAdded, NEW l \in Logins,
           login[l].pc \in {"find", "create"}, UNCHANGED <<flow, signed>>,
           NEW sub \in 1 .. MaxAccounts, GiveToken(l, sub), AccountsPart',
           \E a \in accounts' : a.id = sub /\ a.role = login[l].role /\ a.key = login[l].key
    PROVE  TokensPart' /\ LoginsPart' /\ tokens \subseteq tokens'
<1> DEFINE token == [sub |-> sub, publicKey |-> login[l].key, role |-> login[l].role]
<1>1. login[l] \in Underway
  BY DEF LoginsPart, LoginState, Underway
<1>2. /\ token \in Token /\ token.role = login[l].role /\ token.publicKey = login[l].key
      /\ token.sub = sub
  BY <1>1 DEF Token, Underway
<1> DEFINE done == [pc |-> "done", token |-> token]
<1>3. /\ tokens' = tokens \cup {token} /\ login' = [login EXCEPT ![l] = done]
      /\ signed' = signed
  BY DEF GiveToken
<1>4. token.publicKey \in signed'
  BY <1>2, <1>3 DEF LoginsPart, FlowFollowsLogin
<1> HIDE DEF token
<1>5. TokensNamed'
  <2>1. token.role = "GRADUATE" =>
          \E a \in accounts' : a.id = token.sub /\ a.role = token.role /\ a.key = token.publicKey
    BY <1>2
  <2>2. token.role = "INSTITUTION" => token.sub \in admitted'
    BY <1>2 DEF AccountsPart, AccountsAdmitted
  <2> QED
    BY <1>3, <2>1, <2>2 DEF TokensPart, TokensNamed, AccountsOnlyAdded
<1>6. done \in LoginState /\ done.pc = "done" /\ done.token = token
  BY <1>2 DEF LoginState
<1> HIDE DEF done
<1>7. TokensPart'
  BY <1>2, <1>3, <1>4, <1>5 DEF TokensPart, TokensAreSigned
<1>8. login' \in [Logins -> LoginState]
  BY <1>6, <1>3 DEF LoginsPart
<1>9. ASSUME NEW k \in Logins
      PROVE  FlowFollowsLogin(k)'
  <2>1. CASE k = l
    <3>1. login'[l] = done /\ flow' = flow
      BY <1>3 DEF LoginsPart
    <3>2. token \in tokens' /\ flow[l].pc \notin {"challenge", "sign"}
      BY <1>3 DEF LoginsPart, FlowFollowsLogin
    <3>3. flow[l].pc = "verify" => token.role = flow[l].role
      BY <1>2 DEF LoginsPart, FlowFollowsLogin
    <3> QED
      BY <1>6, <2>1, <3>1, <3>2, <3>3 DEF FlowFollowsLogin
  <2>2. CASE k # l
    BY <1>3, <2>2 DEF LoginsPart, FlowFollowsLogin
  <2> QED
    BY <2>1, <2>2
<1> QED
  BY <1>3, <1>7, <1>8, <1>9 DEF LoginsPart

\* A login that ends without a token.
LEMMA LoginFailed ==
    ASSUME LoginsPart, NEW l \in Logins, login[l].pc \in {"find", "create"}, Fail(l),
           UNCHANGED <<flow, signed>>
    PROVE  LoginsPart' /\ tokens' = tokens
<1>1. /\ login' = [login EXCEPT ![l] = [pc |-> "failed"]] /\ tokens' = tokens
      /\ flow' = flow /\ signed' = signed
  BY DEF Fail
<1>2. login' \in [Logins -> LoginState]
  BY <1>1 DEF LoginsPart, LoginState
<1>3. ASSUME NEW k \in Logins
      PROVE  FlowFollowsLogin(k)'
  BY <1>1 DEF LoginsPart, FlowFollowsLogin
<1> QED
  BY <1>1, <1>2, <1>3 DEF LoginsPart

\* The pair in the storage stays a pair while no token is taken back.
LEMMA StorageKept ==
    ASSUME StoragePart, storage' = storage, tokens \subseteq tokens'
    PROVE  StoragePart'
BY DEF StoragePart, StorageIsOnePair

-----------------------------------------------------------------------------
(* Every step keeps the invariant.                                         *)

LEMMA FindAccountStep ==
    ASSUME BrowserInv, NEW l \in Logins, FindAccount(l), UNCHANGED browserVars
    PROVE  BrowserInv'
<1>1. AccountsPart' /\ AccountsOnlyAdded
  BY DEF FindAccount, BrowserInv, AccountsPart, UniqueAccounts, AccountsAdmitted,
         AccountsOnlyAdded
<1>2. CASE Of(login[l].role, login[l].key) = {}
  <2>1. login' = [login EXCEPT ![l].pc = "create"] /\ tokens' = tokens /\ login[l].pc = "find"
    BY <1>2 DEF FindAccount
  <2>2. UNCHANGED <<flow, storage, signed>>
    BY DEF browserVars, FindAccount
  <2>3. TokensPart' /\ StoragePart'
    BY <1>1, <2>1, <2>2, TokensKept, StorageKept DEF BrowserInv
  <2>4. login[l] \in Underway
    BY <2>1 DEF BrowserInv, LoginsPart, LoginState
  <2>5. [login[l] EXCEPT !.pc = "create"] \in Underway
    BY <2>4 DEF Underway
  <2>6. login' \in [Logins -> LoginState]
    BY <2>1, <2>5 DEF BrowserInv, LoginsPart, LoginState
  <2>7. ASSUME NEW k \in Logins
        PROVE  FlowFollowsLogin(k)'
    <3>1. CASE k = l
      <4>1. /\ login'[l].pc = "create" /\ login'[l].role = login[l].role
            /\ login'[l].key = login[l].key
        BY <2>1, <2>4 DEF BrowserInv, LoginsPart
      <4> QED
        BY <2>1, <2>2, <3>1, <4>1 DEF BrowserInv, LoginsPart, FlowFollowsLogin
    <3>2. CASE k # l
      BY <2>1, <2>2, <3>2 DEF BrowserInv, LoginsPart, FlowFollowsLogin
    <3> QED
      BY <3>1, <3>2
  <2> QED
    BY <1>1, <2>2, <2>3, <2>6, <2>7 DEF BrowserInv, LoginsPart
<1>3. CASE Of(login[l].role, login[l].key) # {}
  <2>1. PICK a \in Of(login[l].role, login[l].key) : GiveToken(l, a.id)
    BY <1>3 DEF FindAccount
  <2>2. /\ a \in accounts /\ accounts' = accounts /\ a.id \in 1 .. MaxAccounts
        /\ a.role = login[l].role /\ a.key = login[l].key
        /\ login[l].pc \in {"find", "create"}
    BY <2>1 DEF FindAccount, Of, BrowserInv, AccountsPart, Account
  <2>3. UNCHANGED <<flow, signed>>
    BY DEF browserVars, FindAccount
  <2>4. TokensPart' /\ LoginsPart' /\ tokens \subseteq tokens'
    BY <1>1, <2>1, <2>2, <2>3, TokenGiven DEF BrowserInv
  <2> QED
    BY <1>1, <2>4, StorageKept DEF BrowserInv, browserVars
<1> QED
  BY <1>2, <1>3

LEMMA CreateAccountStep ==
    ASSUME BrowserInv, NEW l \in Logins, CreateAccount(l), UNCHANGED browserVars
    PROVE  BrowserInv'
<1>1. login[l] \in Underway
  BY DEF CreateAccount, BrowserInv, LoginsPart, LoginState, Underway
<1>0. /\ UNCHANGED <<flow, storage, signed>> /\ login[l].pc \in {"find", "create"}
      /\ login[l].role \in Roles /\ login[l].key \in Keys
  BY <1>1 DEF browserVars, CreateAccount, Underway
<1>2. CASE Fail(l) /\ UNCHANGED <<accounts, admitted>>
  <2>1. LoginsPart' /\ tokens' = tokens
    BY <1>0, <1>2, LoginFailed DEF BrowserInv
  <2>2. AccountsPart' /\ AccountsOnlyAdded
    BY <1>2 DEF BrowserInv, AccountsPart, UniqueAccounts, AccountsAdmitted, AccountsOnlyAdded
  <2> QED
    BY <1>0, <2>1, <2>2, TokensKept, StorageKept DEF BrowserInv
<1>3. ASSUME login[l].role = "GRADUATE", Of("GRADUATE", login[l].key) = {}, NEW id \in FreshIds,
             accounts' = accounts \cup {[id |-> id, role |-> "GRADUATE", key |-> login[l].key]},
             GiveToken(l, id) \/ Fail(l), admitted' = admitted
      PROVE  BrowserInv'
  <2>1. AccountsPart' /\ AccountsOnlyAdded
    BY <1>0, <1>3, AddAccount DEF BrowserInv, Roles
  <2>2. [id |-> id, role |-> "GRADUATE", key |-> login[l].key] \in accounts'
    BY <1>3
  <2>3. \E a \in accounts' : a.id = id /\ a.role = login[l].role /\ a.key = login[l].key
    BY <1>3, <2>2
  <2>4. CASE GiveToken(l, id)
    <3>1. TokensPart' /\ LoginsPart' /\ tokens \subseteq tokens'
      BY <1>0, <2>1, <2>3, <2>4, TokenGiven DEF FreshIds, BrowserInv
    <3> QED
      BY <1>0, <2>1, <3>1, StorageKept DEF BrowserInv
  <2>5. CASE Fail(l)
    <3>1. LoginsPart' /\ tokens' = tokens
      BY <1>0, <2>5, LoginFailed DEF BrowserInv
    <3> QED
      BY <1>0, <2>1, <3>1, TokensKept, StorageKept DEF BrowserInv
  <2> QED
    BY <1>3, <2>4, <2>5
<1> QED
  BY <1>2, <1>3 DEF CreateAccount

LEMMA AbortStep ==
    ASSUME BrowserInv, NEW l \in Logins, Abort(l), UNCHANGED browserVars
    PROVE  BrowserInv'
<1>1. LoginsPart' /\ tokens' = tokens /\ signed' = signed
  BY LoginFailed DEF Abort, BrowserInv, browserVars
<1>2. AccountsPart' /\ AccountsOnlyAdded
  BY DEF Abort, BrowserInv, AccountsPart, UniqueAccounts, AccountsAdmitted,
         AccountsOnlyAdded
<1> QED
  BY <1>1, <1>2, TokensKept, StorageKept DEF BrowserInv, browserVars

\* A step of accounts alone.
LEMMA AccountsStep ==
    ASSUME BrowserInv, AccountsPart', AccountsOnlyAdded,
           UNCHANGED <<signed, login, tokens, browserVars>>
    PROVE  BrowserInv'
<1>1. LoginsPart'
  BY DEF BrowserInv, LoginsPart, FlowFollowsLogin, browserVars
<1> QED
  BY <1>1, TokensKept, StorageKept DEF BrowserInv, browserVars

LEMMA AdmitStep ==
    ASSUME BrowserInv, NEW id \in FreshIds, NEW key \in Keys, Admit(id, key),
           UNCHANGED browserVars
    PROVE  BrowserInv'
<1>1. AccountsPart' /\ AccountsOnlyAdded
  BY AddAccount DEF Admit, BrowserInv, Roles
<1> QED
  BY <1>1, AccountsStep DEF Admit

LEMMA PutMeStep ==
    ASSUME BrowserInv, NEW token \in tokens, NEW id \in 1 .. MaxAccounts, NEW key \in Keys,
           PutMe(token, id, key), UNCHANGED browserVars
    PROVE  BrowserInv'
BY UpdateEffect, AccountsStep DEF PutMe, BrowserInv

\* A step of the attempts: accounts and tokens stay, and the logins' part and
\* the storage's are shown by the caller.
LEMMA AttemptStep ==
    ASSUME BrowserInv, LoginsPart', StoragePart', UNCHANGED <<accounts, admitted, tokens>>,
           signed \subseteq signed'
    PROVE  BrowserInv'
<1>1. AccountsPart' /\ AccountsOnlyAdded
  BY DEF BrowserInv, AccountsPart, UniqueAccounts, AccountsAdmitted, AccountsOnlyAdded
<1> QED
  BY <1>1, TokensKept DEF BrowserInv

\* One attempt moves and one login with it; the others keep following.
LEMMA AttemptMoves ==
    ASSUME LoginsPart, NEW l \in Logins, NEW f \in FlowState, NEW g \in LoginState,
           flow' = [flow EXCEPT ![l] = f], login' = [login EXCEPT ![l] = g],
           tokens' = tokens, signed \subseteq signed', signed' \subseteq Keys,
           FlowFollowsLogin(l)'
    PROVE  LoginsPart'
<1>1. ASSUME NEW k \in Logins, k # l
      PROVE  FlowFollowsLogin(k)'
  BY <1>1 DEF LoginsPart, FlowFollowsLogin
<1> QED
  BY <1>1 DEF LoginsPart

LEMMA StartStep ==
    ASSUME BrowserInv, NEW l \in Logins, NEW key \in Keys, NEW role \in Roles,
           Start(l, key, role)
    PROVE  BrowserInv'
<1> DEFINE f == [pc |-> "challenge", key |-> key, role |-> role]
<1>1. f \in FlowState /\ f.pc = "challenge"
  BY DEF FlowState
<1> HIDE DEF f
<1>2. /\ flow' = [flow EXCEPT ![l] = f] /\ login[l].pc = "rest"
      /\ UNCHANGED <<storage, signed, accounts, admitted, login, tokens>>
  BY DEF Start, accountsVars, f
<1>3. flow'[l] = f /\ login'[l] = login[l] /\ login' = [login EXCEPT ![l] = login[l]]
      /\ login[l] \in LoginState
  BY <1>2 DEF BrowserInv, LoginsPart
<1>4. FlowFollowsLogin(l)'
  BY <1>1, <1>2, <1>3 DEF FlowFollowsLogin
<1>5. LoginsPart'
  BY <1>1, <1>2, <1>3, <1>4, AttemptMoves DEF BrowserInv, LoginsPart
<1> QED
  BY <1>2, <1>5, AttemptStep, StorageKept DEF BrowserInv

LEMMA ChallengeStep ==
    ASSUME BrowserInv, NEW l \in Logins, Challenge(l)
    PROVE  BrowserInv'
<1> DEFINE f == [flow[l] EXCEPT !.pc = "sign"]
<1>1. flow[l] \in [pc : {"challenge", "sign", "verify"}, key : Keys, role : Roles]
  BY DEF Challenge, BrowserInv, LoginsPart, FlowState, Rested
<1>2. f \in FlowState /\ f.pc = "sign"
  BY <1>1 DEF FlowState
<1> HIDE DEF f
<1>3. /\ flow' = [flow EXCEPT ![l] = f] /\ login[l].pc = "rest"
      /\ UNCHANGED <<storage, signed, accounts, admitted, login, tokens>>
  BY DEF Challenge, accountsVars, BrowserInv, LoginsPart, FlowFollowsLogin, f
<1>4. flow'[l] = f /\ login'[l] = login[l] /\ login' = [login EXCEPT ![l] = login[l]]
      /\ login[l] \in LoginState
  BY <1>3 DEF BrowserInv, LoginsPart
<1>5. FlowFollowsLogin(l)'
  BY <1>2, <1>3, <1>4 DEF FlowFollowsLogin
<1>6. LoginsPart'
  BY <1>2, <1>3, <1>4, <1>5, AttemptMoves DEF BrowserInv, LoginsPart
<1> QED
  BY <1>3, <1>6, AttemptStep, StorageKept DEF BrowserInv

LEMMA SignStep ==
    ASSUME BrowserInv, NEW l \in Logins, NEW signer \in Keys, Sign(l, signer)
    PROVE  BrowserInv'
<1> DEFINE f == [flow[l] EXCEPT !.pc = "verify"]
<1> DEFINE g == IF signer = flow[l].key
                THEN Verified(flow[l].key, flow[l].role)
                ELSE [pc |-> "failed"]
<1>1. flow[l] \in [pc : {"challenge", "sign", "verify"}, key : Keys, role : Roles]
  BY DEF Sign, BrowserInv, LoginsPart, FlowState, Rested
<1>2. f \in FlowState /\ f.pc = "verify" /\ f.role = flow[l].role
  BY <1>1 DEF FlowState
<1>3. /\ g \in LoginState /\ g.pc \in {"find", "failed"}
      /\ g.pc = "find" => signer = g.key /\ g.key = flow[l].key /\ g.role = flow[l].role
  BY <1>1 DEF LoginState, Underway, Verified
<1>4. flow' = [flow EXCEPT ![l] = f] /\ login' = [login EXCEPT ![l] = g]
  BY DEF Sign, BeginLogin
<1> HIDE DEF f, g
<1>5. /\ UNCHANGED <<storage, accounts, admitted, tokens>>
      /\ signed' = signed \cup {signer}
  BY DEF Sign, BeginLogin
<1>6. flow'[l] = f /\ login'[l] = g
  BY <1>4 DEF BrowserInv, LoginsPart
<1>7. FlowFollowsLogin(l)'
  BY <1>2, <1>3, <1>5, <1>6 DEF FlowFollowsLogin
<1>8. signed \subseteq signed' /\ signed' \subseteq Keys
  BY <1>5, <1>2 DEF BrowserInv, LoginsPart
<1>9. LoginsPart'
  BY <1>2, <1>3, <1>4, <1>5, <1>7, <1>8, AttemptMoves DEF BrowserInv
<1> QED
  BY <1>5, <1>9, AttemptStep, StorageKept DEF BrowserInv

\* An attempt that ends together with its login, which is at an end too.
LEMMA EndedTogether ==
    ASSUME LoginsPart, NEW l \in Logins, flow' = [flow EXCEPT ![l] = Rested], Rest(l)
    PROVE  LoginsPart' /\ UNCHANGED <<accounts, admitted, tokens, signed>>
<1> DEFINE g == [pc |-> "rest"]
<1>1. g \in LoginState /\ g.pc = "rest" /\ Rested \in FlowState /\ Rested.pc = "rest"
  BY DEF LoginState, FlowState, Rested
<1>2. login' = [login EXCEPT ![l] = g] /\ UNCHANGED <<accounts, admitted, tokens, signed>>
  BY DEF Rest
<1> HIDE DEF g
<1>3. flow'[l] = Rested /\ login'[l] = g
  BY <1>2 DEF LoginsPart
<1>4. FlowFollowsLogin(l)'
  BY <1>1, <1>3 DEF FlowFollowsLogin
<1> QED
  BY <1>1, <1>2, <1>4, AttemptMoves DEF LoginsPart

LEMMA StoreStep ==
    ASSUME BrowserInv, NEW l \in Logins, Store(l)
    PROVE  BrowserInv'
<1>1. LoginsPart' /\ UNCHANGED <<accounts, admitted, tokens, signed>>
  BY EndedTogether DEF Store, BrowserInv
<1>2. /\ login[l].token \in tokens /\ login[l].token \in Token
      /\ login[l].token.role = flow[l].role
  BY DEF Store, BrowserInv, LoginsPart, TokensPart, FlowFollowsLogin
<1>3. flow[l].role \in Roles
  BY DEF Store, BrowserInv, LoginsPart, FlowState, Rested
<1>4. storage' = [token |-> login[l].token, role |-> flow[l].role]
  BY DEF Store
<1>5. StoragePart'
  BY <1>1, <1>2, <1>3, <1>4 DEF StoragePart, StorageIsOnePair
<1> QED
  BY <1>1, <1>5, AttemptStep DEF Store

LEMMA RefusedStep ==
    ASSUME BrowserInv, NEW l \in Logins, Refused(l)
    PROVE  BrowserInv'
<1>1. LoginsPart' /\ UNCHANGED <<accounts, admitted, tokens, signed>>
  BY EndedTogether DEF Refused, BrowserInv
<1> QED
  BY <1>1, AttemptStep, StorageKept DEF Refused, BrowserInv

LEMMA AbandonStep ==
    ASSUME BrowserInv, NEW l \in Logins, Abandon(l)
    PROVE  BrowserInv'
<1>1. /\ flow' = [flow EXCEPT ![l] = Rested]
      /\ UNCHANGED <<storage, signed, accounts, admitted, login, tokens>>
  BY DEF Abandon, accountsVars
<1>2. Rested \in FlowState /\ Rested.pc = "rest"
  BY DEF FlowState, Rested
<1>3. flow'[l] = Rested /\ login' = [login EXCEPT ![l] = login[l]] /\ login[l] \in LoginState
  BY <1>1 DEF BrowserInv, LoginsPart
<1>4. FlowFollowsLogin(l)'
  BY <1>1, <1>2, <1>3 DEF BrowserInv, LoginsPart, FlowFollowsLogin
<1>5. LoginsPart'
  BY <1>1, <1>2, <1>3, <1>4, AttemptMoves DEF BrowserInv, LoginsPart
<1> QED
  BY <1>1, <1>5, AttemptStep, StorageKept DEF BrowserInv

LEMMA LogoutStep ==
    ASSUME BrowserInv, Logout
    PROVE  BrowserInv'
<1>1. /\ storage' = NoSession
      /\ UNCHANGED <<flow, signed, accounts, admitted, login, tokens>>
  BY DEF Logout, accountsVars
<1>2. StoragePart' /\ LoginsPart'
  BY <1>1 DEF BrowserInv, StoragePart, StorageIsOnePair, LoginsPart, FlowFollowsLogin
<1> QED
  BY <1>1, <1>2, AttemptStep

\* A login nobody waits for any more.
LEMMA RestStep ==
    ASSUME BrowserInv, NEW l \in Logins, flow[l] = Rested, Rest(l), UNCHANGED browserVars
    PROVE  BrowserInv'
<1>1. flow' = [flow EXCEPT ![l] = Rested] /\ UNCHANGED storage
  BY DEF browserVars, BrowserInv, LoginsPart
<1>2. LoginsPart' /\ UNCHANGED <<accounts, admitted, tokens, signed>>
  BY <1>1, EndedTogether DEF BrowserInv
<1> QED
  BY <1>1, <1>2, AttemptStep, StorageKept DEF BrowserInv

\* A login nobody waits for in the tab.
LEMMA VerifyStep ==
    ASSUME BrowserInv, NEW l \in Logins, NEW key \in Keys, NEW role \in Roles,
           flow[l] = Rested, Verify(l, key, role),
           UNCHANGED browserVars
    PROVE  BrowserInv'
<1> DEFINE g == Verified(key, role)
<1>1. g \in LoginState /\ g.pc = "find" /\ g.key = key /\ g.role = role
  BY DEF LoginState, Underway, Verified
<1>2. /\ login' = [login EXCEPT ![l] = g]
      /\ UNCHANGED <<signed, accounts, admitted, tokens>> /\ login[l].pc = "rest"
  BY DEF Verify, BeginLogin
<1> HIDE DEF g
<1>3. flow' = [flow EXCEPT ![l] = Rested] /\ Rested \in FlowState /\ Rested.pc = "rest"
  BY DEF browserVars, BrowserInv, LoginsPart, FlowState, Rested
<1>4. flow'[l] = Rested /\ login'[l] = g
  BY <1>2, <1>3 DEF BrowserInv, LoginsPart
<1>5. key \in signed
  BY DEF Verify
<1>6. FlowFollowsLogin(l)'
  BY <1>1, <1>2, <1>3, <1>4, <1>5 DEF FlowFollowsLogin, BrowserInv, LoginsPart
<1>7. LoginsPart'
  <2>1. signed' \subseteq Keys
    BY <1>2, <1>5 DEF BrowserInv, LoginsPart
  <2> QED
    BY <1>1, <1>2, <1>3, <1>6, <2>1, AttemptMoves DEF BrowserInv
<1> QED
  BY <1>2, <1>7, AttemptStep, StorageKept DEF BrowserInv, browserVars

LEMMA SignElsewhereStep ==
    ASSUME BrowserInv, NEW key \in Keys, SignElsewhere(key), UNCHANGED browserVars
    PROVE  BrowserInv'
<1>1. /\ signed' = signed \cup {key}
      /\ UNCHANGED <<flow, login, storage, accounts, admitted, tokens>>
  BY DEF SignElsewhere, browserVars
<1>2. LoginsPart'
  BY <1>1 DEF BrowserInv, LoginsPart, FlowFollowsLogin
<1> QED
  BY <1>1, <1>2, AttemptStep, StorageKept DEF BrowserInv

LEMMA BrowserInvStep ==
    ASSUME BrowserInv, [BrowserNext]_<<accountsVars, browserVars>>
    PROVE  BrowserInv'
<1>1. CASE UNCHANGED <<accountsVars, browserVars>>
  BY <1>1, AttemptStep, StorageKept
     DEF accountsVars, browserVars, BrowserInv, LoginsPart, FlowFollowsLogin
<1>2. CASE Backend /\ UNCHANGED browserVars
  BY <1>2, FindAccountStep, CreateAccountStep, AbortStep, AdmitStep DEF Backend
<1>3. ASSUME NEW l \in Logins,
             \/ \E key \in Keys, role \in Roles : Start(l, key, role)
             \/ Challenge(l)
             \/ \E signer \in Keys : Sign(l, signer)
             \/ Store(l) \/ Refused(l) \/ Abandon(l)
             \/ flow[l] = Rested /\ Rest(l) /\ UNCHANGED browserVars
      PROVE  BrowserInv'
  BY <1>3, StartStep, ChallengeStep, SignStep, StoreStep, RefusedStep, AbandonStep, RestStep
<1>4. CASE Logout
  BY <1>4, LogoutStep
<1>5. ASSUME NEW token \in tokens, NEW id \in 1 .. MaxAccounts, NEW key \in Keys,
             PutMe(token, id, key), UNCHANGED browserVars
      PROVE  BrowserInv'
  BY <1>5, PutMeStep
<1>6. ASSUME NEW l \in Logins, NEW key \in Keys, NEW role \in Roles,
             flow[l] = Rested, Verify(l, key, role), UNCHANGED browserVars
      PROVE  BrowserInv'
  BY <1>6, VerifyStep
<1>7. ASSUME NEW key \in Keys, SignElsewhere(key), UNCHANGED browserVars
      PROVE  BrowserInv'
  BY <1>7, SignElsewhereStep
<1> QED
  BY <1>1, <1>2, <1>3, <1>4, <1>5, <1>6, <1>7 DEF BrowserNext

LEMMA BrowserInvAlways == BrowserSpec => []BrowserInv
<1>1. BrowserInv /\ [BrowserNext]_<<accountsVars, browserVars>> => BrowserInv'
  BY BrowserInvStep
<1> QED
  BY <1>1, BrowserInvInit, PTL DEF BrowserSpec

-----------------------------------------------------------------------------
(* The theorems.                                                           *)

\* Type correctness, with the unique keys of the tables.
THEOREM BrowserTypeCorrect == BrowserSpec => []BrowserTypeOK
<1>1. BrowserInv => BrowserTypeOK
  BY DEF BrowserInv, AccountsPart, TokensPart, LoginsPart, StoragePart, BrowserTypeOK,
         AccountsTypeOK, UniqueAccounts, Underway, LoginState, FlowState
<1> QED
  BY <1>1, BrowserInvAlways, PTL

\* Token and role of the browser's storage belong together.
THEOREM StorageHoldsOnePair == BrowserSpec => []StorageIsOnePair
<1>1. BrowserInv => StorageIsOnePair
  BY DEF BrowserInv, StoragePart
<1> QED
  BY <1>1, BrowserInvAlways, PTL

\* A token goes to a key that has signed a transaction, with any number of wallets,
\* attempts and presentations of the same transaction.
THEOREM TokensNeedSignatures == BrowserSpec => []TokensAreSigned
<1>1. BrowserInv => TokensAreSigned
  BY DEF BrowserInv, TokensPart
<1> QED
  BY <1>1, BrowserInvAlways, PTL

\* A graduate's token names the one account of its key for good, whatever profiles are
\* updated and whichever first logins race each other.
THEOREM GraduatesHaveOneAccount == BrowserSpec => []GraduatesKeepTheirAccount
<1>1. ASSUME BrowserInv
      PROVE  GraduatesKeepTheirAccount
  <2>1. TokensNamed
    BY <1>1 DEF BrowserInv, TokensPart
  <2>2. ASSUME NEW t \in tokens, NEW u \in tokens,
               t.role = "GRADUATE", u.role = "GRADUATE", t.publicKey = u.publicKey
        PROVE  t.sub = u.sub
    <3>1. PICK a \in accounts : a.id = t.sub /\ a.role = "GRADUATE" /\ a.key = t.publicKey
      BY <2>1, <2>2 DEF TokensNamed
    <3>2. PICK b \in accounts : b.id = u.sub /\ b.role = "GRADUATE" /\ b.key = u.publicKey
      BY <2>1, <2>2 DEF TokensNamed
    <3>3. a = b
      BY <1>1, <2>2, <3>1, <3>2 DEF BrowserInv, AccountsPart, UniqueAccounts
    <3> QED
      BY <3>1, <3>2, <3>3
  <2> QED
    BY <2>1, <2>2 DEF TokensNamed, GraduatesKeepTheirAccount
<1> QED
  BY <1>1, BrowserInvAlways, PTL

\* Only the operators make institutions.
THEOREM OnlyAdmittedInstitutions == BrowserSpec => []InstitutionsAreAdmitted
<1>1. ASSUME BrowserInv
      PROVE  InstitutionsAreAdmitted
  BY <1>1 DEF BrowserInv, TokensPart, TokensNamed, AccountsPart, AccountsAdmitted,
              InstitutionsAreAdmitted
<1> QED
  BY <1>1, BrowserInvAlways, PTL
=============================================================================
