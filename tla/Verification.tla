----------------------------- MODULE Verification -----------------------------
(***************************************************************************)
(* The public verification endpoint: verifyById and bulkVerify of the      *)
(* backend's verification service, its cache, and the chain it asks, which *)
(* is the credential life cycle (CredentialToken implements it).           *)
(* verifyById is split at its awaits; a session is one call of it, from a  *)
(* GET request or for one id of a bulk request, and sessions run           *)
(* interleaved in one Node process.                                        *)
(*                                                                         *)
(* The clock of the chain serves as the process's clock.  The contract's   *)
(* verify is only simulated by the service: it changes nothing on chain.   *)
(***************************************************************************)
EXTENDS CredentialLifecycle

CONSTANTS
    Sessions,       \* concurrent calls of verifyById
    Registered,     \* the institutions get_institution finds
    TTL,            \* the cache's time to live (300_000 ms in the code)
    MaxFetch,       \* assumed bound on the time from the query to the reply
    MaxBulk,        \* assumed bound on the time a bulk request takes
    MaxTime,        \* bound on the clock
    Codec,          \* how the service builds and reads contract values: see below
    NoEntry         \* no cache entry

\* "committed": by nativeToScVal and scValToNative, as the source does.  The
\* fields of what the contract answers then have other names than the service
\* reads and its status is a list; and get_institution is passed a string for its
\* Address, so that its simulation errors, always.  "mocked": by what the
\* service's test puts in their place, plain values under the names it reads.
ASSUME CodecAssumption == Codec \in {"committed", "mocked"}
ASSUME TimesAssumption == {TTL, MaxFetch, MaxBulk, MaxTime} \subseteq Nat
ASSUME IdsAssumption == Ids \subseteq Nat \ {0} /\ Expiries \subseteq Nat
ASSUME RegisteredAssumption == Registered \subseteq Addresses
ASSUME AbsentAssumption == Absent \notin Page

VARIABLES
    cache,          \* cache entries verify:<id> in the process's memory
    session,        \* where every call of verifyById is, and what it knows
    bulk,           \* the bulk request: its sessions, when it began and was answered
    lost            \* history: when a credential stopped being genuine, or 0

chainVars == <<book, ledger, lost>>
serviceVars == <<cache, session, bulk>>
verificationVars == <<book, ledger, cache, session, bulk, lost>>

Idle == [pc |-> "idle", id |-> 0, status |-> "none", asOf |-> 0, at |-> 0]

NoBulk == [pc |-> "none", parts |-> {}, since |-> 0, at |-> 0]

InFlight == {s \in Sessions : session[s].pc \in {"collect", "reply"}}

\* What a simulated verify answers for a minted id.
OnChainStatus(id) ==
    IF book[id].state = "Valid" /\ Past(book[id].expiry) THEN "Expired"
    ELSE book[id].state

Genuine(id) == id \in Minted /\ OnChainStatus(id) = "Valid"

VerificationInit ==
    /\ Init
    /\ cache = [id \in Ids |-> NoEntry]
    /\ session = [s \in Sessions |-> Idle]
    /\ bulk = NoBulk
    /\ lost = [id \in Ids |-> 0]

-----------------------------------------------------------------------------
(* The chain goes on while the service works.                              *)

NoteLost ==
    lost' = [id \in Ids |-> IF lost[id] = 0 /\ id \in Minted' /\ ~Genuine(id)'
                            THEN ledger' ELSE lost[id]]

ChainCall ==
    /\ \/ \E id \in Ids, institution, graduate \in Addresses, expiry \in Expiries :
             Mint(id, institution, graduate, expiry)
       \/ \E id \in Ids : Revoke(id) \/ Expire(id)
    /\ NoteLost
    /\ UNCHANGED serviceVars

\* Time passes, but no query waits for its reply longer than MaxFetch, and no
\* bulk request longer than MaxBulk.
Tick ==
    /\ ledger < MaxTime
    /\ \A s \in InFlight : ledger - session[s].asOf < MaxFetch
    /\ bulk.pc = "waiting" => ledger - bulk.since < MaxBulk
    /\ CloseLedger
    /\ NoteLost
    /\ UNCHANGED serviceVars

-----------------------------------------------------------------------------
(* The steps of verifyById.                                                *)

FreshForEver(id) == cache[id] # NoEntry                         \* mutant

\* A cache entry is served until TTL has passed since it was set.
Fresh(id) == cache[id] # NoEntry /\ ledger - cache[id].setAt <= TTL

AtRest(s) == session[s].pc \in {"idle", "done", "failed"}

\* A call, of a request or as part of a bulk request: the cache answers, or the
\* contract has to be asked.
Lookup(s, id) ==
    /\ \/ AtRest(s) /\ s \notin bulk.parts
       \/ session[s].pc = "called" /\ session[s].id = id
    /\ session' = [session EXCEPT ![s] =
         IF Fresh(id)
         THEN [pc |-> "done", id |-> id, status |-> "Valid",
               asOf |-> cache[id].asOf, at |-> ledger]
         ELSE [Idle EXCEPT !.pc = "query", !.id = id]]
    /\ UNCHANGED <<chainVars, cache, bulk>>

QueryIgnoringDate(s) ==                                         \* mutant
    /\ session[s].pc = "query"
    /\ session' = [session EXCEPT ![s] =
         IF @.id \in Minted
         THEN [@ EXCEPT !.pc = "collect", !.asOf = ledger,
                        !.status = book[session[s].id].state]
         ELSE [@ EXCEPT !.pc = "failed"]]
    /\ UNCHANGED <<chainVars, cache, bulk>>

\* queryContract (getAccount, simulate) or fetchJson throws, and with it the call.
Rejects(s) == session' = [session EXCEPT ![s].pc = "failed"]

QuerySwallowed(s) ==                                            \* mutant
    /\ session[s].pc = "query"
    /\ \/ /\ session[s].id \in Minted
          /\ session' = [session EXCEPT ![s].pc = "collect", ![s].asOf = ledger,
                                        ![s].status = OnChainStatus(session[s].id)]
       \/ session' = [session EXCEPT ![s].pc = "collect"]
    /\ UNCHANGED <<chainVars, cache, bulk>>

\* The contract's verify, simulated; an id that is not minted always throws.
Query(s) ==
    /\ session[s].pc = "query"
    /\ \/ /\ session[s].id \in Minted
          /\ session' = [session EXCEPT ![s].pc = "collect", ![s].asOf = ledger,
                                        ![s].status = OnChainStatus(session[s].id)]
       \/ Rejects(s)
    /\ UNCHANGED <<chainVars, cache, bulk>>

\* The metadata from IPFS and the institution from the registry: two reads of
\* what does not change.  Either may throw; an unregistered issuer always does,
\* and as the values are converted in the source so does every other.
Collect(s) ==
    /\ session[s].pc = "collect"
    /\ \/ /\ Codec = "mocked"
          /\ book[session[s].id].institution \in Registered
          /\ session' = [session EXCEPT ![s].pc = "reply"]
       \/ Rejects(s)
    /\ UNCHANGED <<chainVars, cache, bulk>>

\* The result; only a valid one is put in the cache, with the age it has.
Reply(s) ==
    /\ session[s].pc = "reply"
    /\ session' = [session EXCEPT ![s].pc = "done", ![s].at = ledger]
    /\ cache' = IF session[s].status = "Valid"
                THEN [cache EXCEPT ![session[s].id] =
                        [asOf |-> session[s].asOf, setAt |-> ledger]]
                ELSE cache
    /\ UNCHANGED <<chainVars, bulk>>

-----------------------------------------------------------------------------
(* bulkVerify: Promise.all over one call for each id.                      *)

\* All calls are made at once; ids may repeat.
BulkVerify(parts) ==
    /\ bulk.pc # "waiting"
    /\ \A s \in parts : AtRest(s)
    /\ bulk' = [pc |-> "waiting", parts |-> parts, since |-> ledger, at |-> 0]
    /\ \E ids \in [parts -> Ids] :
          session' = [s \in Sessions |->
                        IF s \in parts THEN [Idle EXCEPT !.pc = "called", !.id = ids[s]]
                        ELSE session[s]]
    /\ UNCHANGED <<chainVars, cache>>

BulkAnswerSettled ==                                            \* mutant
    /\ bulk.pc = "waiting"
    /\ \A s \in bulk.parts : AtRest(s)
    /\ bulk' = [bulk EXCEPT !.pc = "answered", !.at = ledger]
    /\ UNCHANGED <<chainVars, cache, session>>

\* The request is answered once all its calls have returned.
BulkAnswer ==
    /\ bulk.pc = "waiting"
    /\ \A s \in bulk.parts : session[s].pc = "done"
    /\ bulk' = [bulk EXCEPT !.pc = "answered", !.at = ledger]
    /\ UNCHANGED <<chainVars, cache, session>>

\* One call that throws fails the request; the others run on, for the cache.
BulkReject ==
    /\ bulk.pc = "waiting"
    /\ \E s \in bulk.parts : session[s].pc = "failed"
    /\ bulk' = NoBulk
    /\ UNCHANGED <<chainVars, cache, session>>

\* The answer has been sent.
BulkEnd ==
    /\ bulk.pc = "answered"
    /\ bulk' = NoBulk
    /\ UNCHANGED <<chainVars, cache, session>>

-----------------------------------------------------------------------------
(* The process and its cache.                                              *)

\* The cache makes room, or forgets what is past its time to live.
Evict(id) ==
    /\ cache[id] # NoEntry
    /\ cache' = [cache EXCEPT ![id] = NoEntry]
    /\ UNCHANGED <<chainVars, session, bulk>>

\* The process restarts: its memory is gone, the calls with it.
Restart ==
    /\ cache' = [id \in Ids |-> NoEntry]
    /\ session' = [s \in Sessions |-> Idle]
    /\ bulk' = NoBulk
    /\ UNCHANGED chainVars

VerificationNext ==
    \/ ChainCall
    \/ Tick
    \/ \E s \in Sessions :
          \/ \E id \in Ids : Lookup(s, id)
          \/ Query(s) \/ Collect(s) \/ Reply(s)
    \/ \E parts \in SUBSET Sessions : BulkVerify(parts)
    \/ BulkAnswer \/ BulkReject \/ BulkEnd
    \/ \E id \in Ids : Evict(id)
    \/ Restart

VerificationSpec == VerificationInit /\ [][VerificationNext]_verificationVars

\* The event loop gets to every call and bulk request whose await is over, and
\* the process is not restarted for ever.  Somebody keeps asking for each
\* credential, and what the service asks in turn (the RPC server, IPFS) does not
\* fail for ever.
VerificationFairness ==
    /\ <>[][~Restart]_verificationVars
    /\ WF_verificationVars(BulkAnswer \/ BulkReject)
    /\ WF_verificationVars(BulkEnd)
    /\ \A s \in Sessions, id \in Ids :
          /\ SF_verificationVars(Lookup(s, id))
          /\ WF_verificationVars(Query(s) \/ Collect(s) \/ Reply(s))
          /\ SF_verificationVars(session[s].id = id /\ Query(s) /\ session'[s].pc = "collect")
          /\ SF_verificationVars(session[s].id = id /\ Collect(s) /\ session'[s].pc = "reply")
          /\ SF_verificationVars(session[s].id = id /\ Reply(s))

VerificationFairSpec == VerificationSpec /\ VerificationFairness

-----------------------------------------------------------------------------
(* Properties.                                                             *)

Entry == [asOf : Nat, setAt : Nat]

\* A call and, in the end, what is kept of its VerificationResult: the status,
\* when the contract was asked, and when the call returned.
Session == [pc : {"idle", "called", "query", "collect", "reply", "done", "failed"},
            id : Ids \cup {0}, status : {"none", "Valid", "Revoked", "Expired"},
            asOf : Nat, at : Nat]

VerificationTypeOK ==
    /\ book \in [Ids -> Page \cup {Absent}]
    /\ ledger \in Nat \ {0}
    /\ cache \in [Ids -> Entry \cup {NoEntry}]
    /\ session \in [Sessions -> Session]
    /\ \A s \in Sessions : session[s].pc \in {"collect", "reply", "done"} =>
          session[s].id \in Ids /\ session[s].status # "none"
    /\ bulk \in [pc : {"none", "waiting", "answered"}, parts : SUBSET Sessions,
                since : Nat, at : Nat]
    /\ lost \in [Ids -> Nat]

\* The answer of a call that has ended.
Answered(s, status) == session[s].pc = "done" /\ session[s].status = status

GenuineAt(id, t) == lost[id] = 0 \/ t <= lost[id]

\* A Valid answer was true when the contract was asked, and so is what the
\* cache holds.  A Revoked answer is true for good.  An Expired one need not be:
\* until a verify transaction records the expiry, the issuer can still revoke.
AnswersWereTrue ==
    /\ \A s \in Sessions :
          /\ Answered(s, "Valid") => /\ session[s].id \in Minted
                                     /\ GenuineAt(session[s].id, session[s].asOf)
          /\ Answered(s, "Revoked") => OnChainStatus(session[s].id) = "Revoked"
          /\ Answered(s, "Expired") => OnChainStatus(session[s].id) \in {"Expired", "Revoked"}
    /\ \A id \in Ids : cache[id] # NoEntry =>
          id \in Minted /\ GenuineAt(id, cache[id].asOf)

\* How stale an answer can be: a credential that is no longer genuine is called
\* Valid for the cache's TTL and the time one fetch takes, no longer, however
\* the calls, the cache and the chain interleave.
StalenessBounded ==
    \A s \in Sessions :
       Answered(s, "Valid") /\ lost[session[s].id] # 0
          => session[s].at - lost[session[s].id] <= TTL + MaxFetch

\* A bulk answer has an answer for each of its ids, whatever became of the calls
\* of earlier requests that were rejected meanwhile.  One that the cache gave at
\* once waits for the slowest of its siblings, and is staler by that.
BulkAnswersHold ==
    bulk.pc = "answered" => \A s \in bulk.parts :
       /\ session[s].pc = "done" /\ bulk.since <= session[s].at
       /\ Answered(s, "Valid") /\ lost[session[s].id] # 0
             => bulk.at - lost[session[s].id] <= TTL + MaxFetch + MaxBulk

\* README.md:257 "Zero-login verification - visit certchain.africa/verify/{id}":
\* a credential of a registered institution that stays genuine, and that somebody
\* keeps asking for, is found Valid again and again.
GenuineIsAnswered ==
    \A id \in Ids :
       <>[](Genuine(id) /\ book[id].institution \in Registered)
         => []<>(\E s \in Sessions : session[s].id = id /\ Answered(s, "Valid"))
=============================================================================
