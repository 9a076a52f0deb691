------------------------------- MODULE Issuance -------------------------------
(***************************************************************************)
(* Issuing and revoking through the backend: issueCredential and           *)
(* revokeCredential of the credentials service, invokeContract of the      *)
(* Soroban service, the institutions' Stellar accounts, the network, and   *)
(* the database the service keeps beside the chain.  The chain is the      *)
(* credential life cycle (CredentialToken implements it).                  *)
(*                                                                         *)
(* A call is one execution of issueCredential or revokeCredential, from    *)
(* a request or from a bulk job.  It is split at its awaits, so that calls *)
(* interleave with each other, with the network and with other users of    *)
(* the contract; any await may throw, and the process may die at any.      *)
(***************************************************************************)
EXTENDS CredentialLifecycle

CONSTANTS
    Calls,          \* executions of issueCredential and revokeCredential
    Institutions,   \* the institutions served, by Stellar address
    NoRow           \* no database row for a credential id

ASSUME InstitutionsAssumption == Institutions \subseteq Addresses
ASSUME IssuanceIdsAssumption == Ids \subseteq Nat \ {0}
ASSUME NoExpiryAssumption == 0 \in Expiries /\ Absent \notin Page

VARIABLES
    call,           \* where each call is, and its local variables
    tx,             \* what became of each call's transaction, its result, and
                    \* its hash: the call that was the first to build it
    account_seq,    \* the sequence number of each institution's account
    rows            \* the credentials table, by stellarCredentialId

\* A row of the credentials table.
Row == [institution : Institutions, graduate : Addresses, status : {"VALID", "REVOKED"}]

ASSUME NoRowAssumption == NoRow \notin Row

chainVars == <<book, ledger>>
issuanceVars == <<book, ledger, call, tx, account_seq, rows>>

Ended == {"done", "failed"}

Running(c) == call[c].pc \notin Ended \cup {"idle"}

\* A call's locals: op and arguments; the sequence number and the footprint
\* (the id simulation saw issue write, or the id to revoke) of its transaction.
NewCall == [pc |-> "idle", op |-> "none", institution |-> "none",
            graduate |-> "none", id |-> 0, seq |-> 0]

IssuanceInit ==
    /\ Init
    /\ call = [c \in Calls |-> NewCall]
    /\ tx = [c \in Calls |-> [status |-> "none", id |-> 0, hash |-> c]]
    /\ account_seq = [i \in Institutions |-> 0]
    /\ rows = [id \in Ids |-> NoRow]

Goto(c, pc) == call' = [call EXCEPT ![c].pc = pc]

\* A call that throws; its locals still matter if its transaction was submitted.
Thrown(c) == IF tx[c].status = "none" THEN [NewCall EXCEPT !.pc = "failed"]
             ELSE [call[c] EXCEPT !.pc = "failed"]

Fail(c) == call' = [call EXCEPT ![c] = Thrown(c)]

\* The id the contract would hand out next.
NextId(id) == id \in Ids \ Minted /\ \A other \in Ids : other < id => other \in Minted

\* revoke succeeds: the recorded status decides, not the date.
Revocable(id, institution) ==
    id \in Minted /\ book[id].institution = institution /\ book[id].state = "Valid"

-----------------------------------------------------------------------------
(* The beginning of a call.                                                *)

BeginIssue(c, institution, graduate) ==
    /\ call[c].pc = "idle"
    /\ call' = [call EXCEPT ![c] = [NewCall EXCEPT !.pc = "pin", !.op = "issue",
                                       !.institution = institution,
                                       !.graduate = graduate]]
    /\ UNCHANGED <<chainVars, tx, account_seq, rows>>

BeginRevoke(c, institution, id) ==
    /\ call[c].pc = "idle"
    /\ call' = [call EXCEPT ![c] = [NewCall EXCEPT !.pc = "find", !.op = "revoke",
                                       !.institution = institution, !.id = id]]
    /\ UNCHANGED <<chainVars, tx, account_seq, rows>>

\* issueCredential pins the metadata on IPFS first.
Pin(c) ==
    /\ call[c].pc = "pin"
    /\ Goto(c, "account")
    /\ UNCHANGED <<chainVars, tx, account_seq, rows>>

FindRevokingFirst(c) ==                                         \* mutant
    /\ call[c].pc = "find"
    /\ \/ /\ rows[call[c].id] # NoRow
          /\ rows[call[c].id].institution = call[c].institution
          /\ rows' = [rows EXCEPT ![call[c].id].status = "REVOKED"]
          /\ Goto(c, "account")
       \/ Fail(c) /\ UNCHANGED rows
    /\ UNCHANGED <<chainVars, tx, account_seq>>

\* revokeCredential needs the institution's row of the credential.
Find(c) ==
    /\ call[c].pc = "find"
    /\ IF /\ rows[call[c].id] # NoRow
          /\ rows[call[c].id].institution = call[c].institution
       THEN Goto(c, "account") ELSE Fail(c)
    /\ UNCHANGED <<chainVars, tx, account_seq, rows>>

-----------------------------------------------------------------------------
(* invokeContract.                                                         *)

\* getAccount reads the sequence number the transaction will use the successor
\* of.  (Without a signer's secret, Keypair.fromSecret throws: see Throw.)
GetAccount(c) ==
    /\ call[c].pc = "account"
    /\ call' = [call EXCEPT ![c].pc = "simulate",
                            ![c].seq = account_seq[call[c].institution] + 1]
    /\ UNCHANGED <<chainVars, tx, account_seq, rows>>

SimulateIndexingFirst(c) ==                                     \* mutant
    /\ call[c].pc = "simulate" /\ call[c].op = "issue"
    /\ \E id \in Ids :
          /\ NextId(id)
          /\ call' = [call EXCEPT ![c].pc = "send", ![c].id = id]
          /\ rows' = [rows EXCEPT ![id] =
                         [institution |-> call[c].institution,
                          graduate |-> call[c].graduate, status |-> "VALID"]]
    /\ UNCHANGED <<chainVars, tx, account_seq>>

\* Simulation runs the call on the latest ledger: a call that would panic (for
\* issue, only when the counter is at its limit) throws, and what it touches
\* becomes the transaction's footprint.
Simulate(c) ==
    /\ call[c].pc = "simulate"
    /\ \/ /\ call[c].op = "issue"
          /\ \/ \E id \in Ids : NextId(id) /\ call' = [call EXCEPT ![c].pc = "send", ![c].id = id]
             \/ Minted = Ids /\ Fail(c)
       \/ /\ call[c].op = "revoke"
          /\ IF Revocable(call[c].id, call[c].institution) THEN Goto(c, "send") ELSE Fail(c)
    /\ UNCHANGED <<chainVars, tx, account_seq, rows>>

\* The calls that have submitted the transaction c submits, and whose hash it has.
Sharing(c) == {d \in Calls : tx[d].hash = tx[c].hash}

With(C, status, id, hash) ==
    [d \in Calls |-> IF d \in C THEN [status |-> status, id |-> id, hash |-> hash]
                     ELSE tx[d]]

\* Calls with the same arguments and sequence number, built in the same second,
\* build one transaction.  (An issue's arguments name its metadata, which hold
\* the millisecond of issuing: no two issues are taken to be identical.)
Twins(c) ==
    {d \in Calls : /\ tx[d].status \in {"pooled", "lost"}
                   /\ call[c].op = "revoke" /\ call[d].op = "revoke"
                   /\ call[d].institution = call[c].institution
                   /\ call[d].id = call[c].id /\ call[d].seq = call[c].seq}

\* sendTransaction.  A used-up sequence number is answered ERROR, which throws.
\* Any other answer leads to the polling loop, whether the network takes the
\* transaction (PENDING), has it already (DUPLICATE, of an identical one) or
\* does not (TRY_AGAIN_LATER); and the answer to a transaction that was taken may
\* be lost on its way, which throws.
Send(c) ==
    /\ call[c].pc = "send"
    /\ \/ Fail(c) /\ UNCHANGED tx
       \/ /\ call[c].seq > account_seq[call[c].institution]
          /\ \E d \in {c} \cup Twins(c), status \in {"pooled", "lost"} :
                /\ tx[d].status = "pooled" => status = "pooled"
                /\ tx' = With({c} \cup Sharing(d), status, 0, tx[d].hash)
                /\ Goto(c, "poll") \/ (status = "pooled" /\ Goto(c, "failed"))
    /\ UNCHANGED <<chainVars, account_seq, rows>>

PollSuccessOnly(c) ==                                           \* mutant
    /\ call[c].pc = "poll"
    /\ tx[c].status = "SUCCESS"
    /\ call' = [call EXCEPT ![c].pc = "save", ![c].id = tx[c].id]
    /\ UNCHANGED <<chainVars, tx, account_seq, rows>>

PollIgnoresFailed(c) ==                                         \* mutant
    /\ call[c].pc = "poll"
    /\ tx[c].status \in {"SUCCESS", "FAILED"}
    /\ Goto(c, "save")
    /\ UNCHANGED <<chainVars, tx, account_seq, rows>>

\* getTransaction, once a second until the transaction is found.
Poll(c) ==
    /\ call[c].pc = "poll"
    /\ \/ tx[c].status = "SUCCESS" /\ call' = [call EXCEPT ![c].pc = "save", ![c].id = tx[c].id]
       \/ tx[c].status = "FAILED" /\ Fail(c)
    /\ UNCHANGED <<chainVars, tx, account_seq, rows>>

-----------------------------------------------------------------------------
(* The end of a call.                                                      *)

SaveRowBestEffort(c) ==                                         \* mutant
    /\ call[c].pc = "save"
    /\ call[c].op = "issue"
    /\ \/ UNCHANGED rows
       \/ rows' = [rows EXCEPT ![call[c].id] =
                      [institution |-> call[c].institution,
                       graduate |-> call[c].graduate, status |-> "VALID"]]
    /\ Goto(c, "done")
    /\ UNCHANGED <<chainVars, tx, account_seq>>

SaveRowWithChainStatus(c) ==                                    \* mutant
    /\ call[c].pc = "save"
    /\ call[c].op = "issue"
    /\ rows' = [rows EXCEPT ![call[c].id] =
                   [institution |-> call[c].institution,
                    graduate |-> call[c].graduate, status |-> book[call[c].id].state]]
    /\ Goto(c, "done")
    /\ UNCHANGED <<chainVars, tx, account_seq>>

\* issueCredential inserts a row (stellarCredentialId is unique); revokeCredential
\* saves the row it found.  Without an address to mail to that is all.  The
\* database's answer may be lost on its way: the call throws, the row is there.
SaveRow(c) ==
    /\ call[c].pc = "save"
    /\ LET id == call[c].id
       IN  \/ /\ call[c].op = "issue"
              /\ rows[id] = NoRow
              /\ rows' = [rows EXCEPT ![id] =
                             [institution |-> call[c].institution,
                              graduate |-> call[c].graduate, status |-> "VALID"]]
              /\ Goto(c, "notify") \/ Goto(c, "done") \/ Fail(c)
           \/ /\ call[c].op = "revoke"
              /\ rows' = [rows EXCEPT ![id].status = "REVOKED"]
              /\ Goto(c, "done") \/ Fail(c)
    /\ UNCHANGED <<chainVars, tx, account_seq>>

\* notifyCredentialIssued mails the graduate.  A mail that cannot be sent is
\* logged: it does not make the call throw.
Notify(c) ==
    /\ call[c].pc = "notify"
    /\ Goto(c, "done")
    /\ UNCHANGED <<chainVars, tx, account_seq, rows>>

\* Any await of a call may throw: IPFS, the RPC server or the database is down,
\* or the row is there already.  Nothing is undone.
Throw(c) ==
    /\ call[c].pc \in {"pin", "find", "account", "simulate", "poll", "save"}
    /\ Fail(c)
    /\ UNCHANGED <<chainVars, tx, account_seq, rows>>

\* The process dies; its calls are gone, their transactions are not.
Crash ==
    /\ call' = [c \in Calls |-> IF Running(c) THEN Thrown(c) ELSE call[c]]
    /\ UNCHANGED <<chainVars, tx, account_seq, rows>>

-----------------------------------------------------------------------------
(* The network.                                                            *)

\* A pooled transaction with the account's next sequence number enters a
\* ledger.  An issue whose footprint is not the id due now, and a revoke of
\* what is no longer Valid, are FAILED; the sequence number is used either way.
\* Whoever polls for its hash gets its result.
Apply(c) ==
    LET t == call[c]
    IN  /\ tx[c].status = "pooled"
        /\ t.seq = account_seq[t.institution] + 1
        /\ account_seq' = [account_seq EXCEPT ![t.institution] = t.seq]
        /\ \/ /\ t.op = "issue"
              /\ NextId(t.id)
              /\ Mint(t.id, t.institution, t.graduate, 0)
              /\ tx' = With(Sharing(c), "SUCCESS", t.id, tx[c].hash)
           \/ /\ t.op = "revoke"
              /\ Revocable(t.id, t.institution)
              /\ Revoke(t.id)
              /\ tx' = With(Sharing(c), "SUCCESS", t.id, tx[c].hash)
           \/ /\ IF t.op = "issue" THEN ~NextId(t.id) ELSE ~Revocable(t.id, t.institution)
              /\ tx' = With(Sharing(c), "FAILED", 0, tx[c].hash)
              /\ UNCHANGED chainVars
        /\ UNCHANGED <<call, rows>>

\* A pooled transaction is dropped: its 30 seconds are over, or its sequence
\* number was used by another.  getTransaction never finds it.
Drop(c) ==
    /\ tx[c].status = "pooled"
    /\ tx' = With(Sharing(c), "lost", 0, tx[c].hash)
    /\ UNCHANGED <<chainVars, call, account_seq, rows>>

\* The contract is used by others, and by institutions without the service.
UseAccount(a) == account_seq' = [i \in Institutions |->
                                   IF i = a THEN account_seq[i] + 1 ELSE account_seq[i]]

OtherUse ==
    /\ \/ \E id \in Ids, institution, graduate \in Addresses :
             NextId(id) /\ Mint(id, institution, graduate, 0) /\ UseAccount(institution)
       \/ \E id \in Minted : Revoke(id) /\ UseAccount(book[id].institution)
    /\ UNCHANGED <<call, tx, rows>>

CallStep(c) ==
    Pin(c) \/ Find(c) \/ GetAccount(c) \/ Simulate(c) \/ Send(c) \/ Poll(c)
        \/ SaveRow(c) \/ Notify(c)

IssuanceNext ==
    \/ \E c \in Calls :
          \/ \E institution \in Institutions, graduate \in Addresses :
                BeginIssue(c, institution, graduate)
          \/ \E institution \in Institutions, id \in Ids : BeginRevoke(c, institution, id)
          \/ CallStep(c) \/ Throw(c)
          \/ Apply(c) \/ Drop(c)
    \/ Crash
    \/ OtherUse

IssuanceSpec == IssuanceInit /\ [][IssuanceNext]_issuanceVars

\* The event loop gets to every call whose await is over, and the network gets
\* rid of every pooled transaction, one way or the other.
IssuanceFairness ==
    \A c \in Calls : /\ WF_issuanceVars(CallStep(c))
                     /\ WF_issuanceVars(Apply(c) \/ Drop(c))

IssuanceFairSpec == IssuanceSpec /\ IssuanceFairness

-----------------------------------------------------------------------------
(* Properties.                                                             *)

\* Of an IssueCredentialDto the graduate's key matters, of a revocation the id.
Call == [pc : Ended \cup {"idle", "pin", "find", "account", "simulate", "send", "poll", "save",
                                "notify"},
         op : {"none", "issue", "revoke"}, institution : Institutions \cup {"none"},
         graduate : Addresses \cup {"none"}, id : Ids \cup {0}, seq : Nat]

IssuanceTypeOK ==
    /\ book \in [Ids -> Page \cup {Absent}]
    /\ ledger = 1
    /\ call \in [Calls -> Call]
    /\ tx \in [Calls -> [status : {"none", "pooled", "lost", "SUCCESS", "FAILED"},
                         id : Ids \cup {0}, hash : Calls]]
    /\ account_seq \in [Institutions -> Nat]
    /\ rows \in [Ids -> Row \cup {NoRow}]

\* Every row is of a credential on the chain, with its institution and its
\* graduate, and a row says REVOKED only of what the chain says Revoked: the
\* database may lag behind the chain and is never ahead of it.
RowsFollowChain ==
    \A id \in Ids : rows[id] # NoRow =>
       /\ id \in Minted
       /\ rows[id].institution = book[id].institution
       /\ rows[id].graduate = book[id].graduate
       /\ rows[id].status = "REVOKED" => book[id].state = "Revoked"

\* A successful issue minted a credential of its own arguments, no two calls
\* got the same one, and the insert of its row cannot clash with another row.
\* (Equal issues of one millisecond would share a transaction: see Twins.)
ResultsAreOwn ==
    \A c \in Calls : call[c].op = "issue" /\ tx[c].status = "SUCCESS" =>
       LET id == tx[c].id
       IN  /\ id \in Minted
           /\ book[id].institution = call[c].institution
           /\ book[id].graduate = call[c].graduate
           /\ \A d \in Calls \ {c} :
                 call[d].op = "issue" /\ tx[d].status = "SUCCESS" => tx[d].id # id
           /\ call[c].pc = "save" => rows[id] = NoRow

\* What a call that returned has done, on both sides.
DoneIsDone ==
    \A c \in Calls : call[c].pc = "done" =>
       LET id == call[c].id
       IN  /\ tx[c].status = "SUCCESS"
           /\ rows[id] # NoRow
           /\ call[c].op = "revoke" => /\ book[id].state = "Revoked"
                                       /\ rows[id].status = "REVOKED"

\* Every call ends, unless its transaction is lost: only then does the polling
\* loop, which has no limit, go on for ever.
CallsEnd ==
    \A c \in Calls : Running(c) ~> (~Running(c) \/ tx[c].status = "lost")

\* docs/architecture.md:13 "PostgreSQL is a queryable index only": once nothing
\* is on its way, what the service's calls did on the chain is in the index.
IndexIsComplete ==
    (\A c \in Calls : ~Running(c) /\ tx[c].status # "pooled") =>
       \A c \in Calls : tx[c].status = "SUCCESS" =>
          /\ rows[tx[c].id] # NoRow
          /\ call[c].op = "revoke" => rows[tx[c].id].status = "REVOKED"

\* What a call asks for, as its caller sees it: the id an issue will get is not
\* part of it.
Request(c) == [op |-> call[c].op, institution |-> call[c].institution,
               graduate |-> call[c].graduate,
               id |-> IF call[c].op = "revoke" THEN call[c].id ELSE 0]

Effect(c) == IF tx[c].status = "SUCCESS" THEN tx[c].id ELSE 0

\* The service its callers rely on.
Service == INSTANCE CredentialService WITH
    request <- [c \in Calls |-> Request(c)],
    effect <- [c \in Calls |-> Effect(c)],
    index <- rows,
    answered <- {c \in Calls : call[c].pc = "done"}

\* Through sequence numbers, simulation, polling, lost answers and crashes, a
\* call takes effect at most once and as asked, is recorded after its effect, and
\* returns only when it is recorded.  Equal revocations may share one effect, in
\* one transaction, and only then is one recorded that was recorded before.
ImplementsService == Service!ServiceSpec
=============================================================================
