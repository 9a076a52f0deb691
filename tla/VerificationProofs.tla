--------------------------- MODULE VerificationProofs ---------------------------
(***************************************************************************)
(* How true and how stale the verification endpoint's answers are, for     *)
(* every number of calls and of credentials and every time to live.        *)
(***************************************************************************)
EXTENDS Verification, TLAPS

Told(id, status, t) ==
    /\ status = "Valid" => id \in Minted /\ GenuineAt(id, t)
    /\ status = "Revoked" => id \in Minted /\ OnChainStatus(id) = "Revoked"
    /\ status = "Expired" => id \in Minted /\ OnChainStatus(id) \in {"Expired", "Revoked"}

\* What was noted as lost is not genuine any more.
ChainInv ==
    /\ book \in [Ids -> Page \cup {Absent}]
    /\ ledger \in Nat \ {0}
    /\ lost \in [Ids -> Nat]
    /\ \A id \in Ids : lost[id] # 0 => id \in Minted /\ ~Genuine(id)

\* An entry is as old as the fetch it comes from when it is set.
CacheInv ==
    /\ cache \in [Ids -> Entry \cup {NoEntry}]
    /\ \A id \in Ids : cache[id] # NoEntry =>
         /\ cache[id].asOf <= cache[id].setAt /\ cache[id].setAt <= ledger
         /\ cache[id].setAt - cache[id].asOf <= MaxFetch
         /\ Told(id, "Valid", cache[id].asOf)

\* A call on its way to its reply asked the contract MaxFetch ago at most; one
\* that returned may have been answered from an entry that was TTL old.
SessionInv(s) ==
    LET v == session[s]
    IN  /\ v.pc \notin {"idle", "failed"} => v.id \in Ids
        /\ v.pc \in {"collect", "reply", "done"} => v.status # "none"
        /\ v.pc \in {"collect", "reply"} =>
             /\ v.asOf <= ledger /\ ledger - v.asOf <= MaxFetch
             /\ Told(v.id, v.status, v.asOf)
        /\ v.pc = "done" =>
             /\ v.asOf <= v.at /\ v.at <= ledger
             /\ v.at - v.asOf <= TTL + MaxFetch
             /\ Told(v.id, v.status, v.asOf)

\* The calls of the request under way all began after it, and of one that is
\* answered all have returned.
BulkInv ==
    /\ bulk \in [pc : {"none", "waiting", "answered"}, parts : SUBSET Sessions,
                 since : Nat, at : Nat]
    /\ bulk.pc = "waiting" => bulk.since <= ledger /\ ledger - bulk.since <= MaxBulk
    /\ bulk.pc = "answered" => bulk.at - bulk.since <= MaxBulk
    /\ bulk.pc # "none" => \A s \in bulk.parts :
         /\ session[s].pc # "idle"
         /\ session[s].pc = "done" => bulk.since <= session[s].at
         /\ bulk.pc = "answered" => session[s].pc = "done"

VerificationInv ==
    /\ ChainInv /\ CacheInv /\ BulkInv
    /\ session \in [Sessions -> Session]
    /\ \A s \in Sessions : SessionInv(s)

LEMMA VerificationInvInit == VerificationInit => VerificationInv
BY DEF VerificationInit, Init, Idle, NoBulk, VerificationInv, ChainInv, CacheInv, BulkInv,
       SessionInv, Session

-----------------------------------------------------------------------------
(* The chain.                                                              *)

\* A call of the contract mints, or settles what is Valid, once and for all.
LEMMA BookEffect ==
    ASSUME ChainInv, NEW i \in Ids,
           \/ \E institution, graduate \in Addresses, expiry \in Expiries :
                 Mint(i, institution, graduate, expiry)
           \/ Revoke(i) \/ Expire(i)
    PROVE  /\ book' \in [Ids -> Page \cup {Absent}] /\ ledger' = ledger
           /\ \A id \in Minted :
                /\ id \in Minted' /\ book'[id].expiry = book[id].expiry
                /\ book[id].state # "Valid" => book'[id].state = book[id].state
<1>1. book \in [Ids -> Page \cup {Absent}]
  BY DEF ChainInv
<1>2. ASSUME NEW institution \in Addresses, NEW graduate \in Addresses, NEW expiry \in Expiries,
             Mint(i, institution, graduate, expiry)
      PROVE  \E page \in Page : book[i] = Absent /\ book' = [book EXCEPT ![i] = page]
  <2> DEFINE page == [institution |-> institution, graduate |-> graduate, expiry |-> expiry,
                      state |-> "Valid"]
  <2>1. page \in Page
    BY DEF Page
  <2>2. book[i] = Absent /\ book' = [book EXCEPT ![i] = page]
    BY <1>2 DEF Mint
  <2> HIDE DEF page
  <2> QED
    BY <2>1, <2>2
<1>3. ASSUME NEW state \in {"Revoked", "Expired"}, i \in Minted, book[i].state = "Valid",
             book' = [book EXCEPT ![i].state = state]
      PROVE  \E page \in Page : /\ book[i] \in Page /\ book[i].state = "Valid"
                                /\ page.expiry = book[i].expiry
                                /\ book' = [book EXCEPT ![i] = page]
  <2> DEFINE page == [book[i] EXCEPT !.state = state]
  <2>1. book[i] \in Page
    BY <1>1, <1>3 DEF Minted
  <2>2. page \in Page /\ page.expiry = book[i].expiry
    BY <2>1 DEF Page
  <2>3. book' = [book EXCEPT ![i] = page]
    BY <1>3
  <2> HIDE DEF page
  <2> QED
    BY <1>3, <2>1, <2>2, <2>3
<1>4. PICK page \in Page : /\ book' = [book EXCEPT ![i] = page]
                           /\ \/ book[i] = Absent
                              \/ book[i].state = "Valid" /\ page.expiry = book[i].expiry
  BY <1>2, <1>3 DEF Revoke, Expire, Minted
<1>5. page # Absent
  BY AbsentAssumption
<1>6. ledger' = ledger
  BY DEF Mint, Revoke, Expire
<1>7. book'[i] = page /\ \A id \in Ids \ {i} : book'[id] = book[id]
  BY <1>1, <1>4
<1>8. book' \in [Ids -> Page \cup {Absent}]
  BY <1>1, <1>4
<1>9. ASSUME NEW id \in Minted
      PROVE  /\ id \in Minted' /\ book'[id].expiry = book[id].expiry
             /\ book[id].state # "Valid" => book'[id].state = book[id].state
  BY <1>4, <1>5, <1>7, <1>9 DEF Minted
<1> QED
  BY <1>6, <1>8, <1>9

\* One step of the chain: at most a tick, and every answer stays what it was.
ChainStep == ChainCall \/ Tick

LEMMA ChainEffect ==
    ASSUME ChainInv, ChainStep
    PROVE  /\ book' \in [Ids -> Page \cup {Absent}]
           /\ ledger' \in Nat \ {0} /\ ledger <= ledger'
           /\ \A id \in Minted :
                /\ id \in Minted' /\ book'[id].expiry = book[id].expiry
                /\ book[id].state # "Valid" => book'[id].state = book[id].state
           /\ NoteLost /\ UNCHANGED serviceVars
<1>1. CASE ChainCall
  BY <1>1, BookEffect DEF ChainCall, ChainInv
<1>2. CASE Tick
  BY <1>2 DEF Tick, CloseLedger, ChainInv, Minted
<1> QED
  BY <1>1, <1>2 DEF ChainStep

\* What is not genuine stays so, and what is revoked.
LEMMA StatusEffect ==
    ASSUME ChainInv, ChainStep, NEW id \in Minted
    PROVE  /\ id \in Minted'
           /\ ~Genuine(id) => ~Genuine(id)'
           /\ OnChainStatus(id) = "Revoked" => OnChainStatus(id)' = "Revoked"
           /\ OnChainStatus(id) \in {"Expired", "Revoked"}
                => OnChainStatus(id)' \in {"Expired", "Revoked"}
<1>1. /\ id \in Minted' /\ book'[id].expiry = book[id].expiry
      /\ book[id].state # "Valid" => book'[id].state = book[id].state
      /\ book[id] \in Page /\ book'[id] \in Page
  BY ChainEffect DEF ChainInv, Minted
<1>2. Past(book[id].expiry) => Past(book[id].expiry)'
  <2>1. /\ book[id].expiry \in Nat /\ ledger \in Nat /\ ledger' \in Nat /\ ledger <= ledger'
        /\ book'[id].expiry = book[id].expiry
    BY <1>1, ChainEffect, IdsAssumption DEF Page, ChainInv
  <2> QED
    BY <2>1 DEF Past
<1>3. book[id].state \in {"Valid", "Revoked", "Expired"} /\ book'[id].state \in {"Valid", "Revoked", "Expired"}
  BY <1>1 DEF Page
<1> QED
  BY <1>1, <1>2, <1>3 DEF Genuine, OnChainStatus, Past

LEMMA LostEffect ==
    ASSUME ChainInv, ChainStep
    PROVE  /\ lost' \in [Ids -> Nat]
           /\ \A id \in Ids : lost'[id] = lost[id] \/ (lost[id] = 0 /\ lost'[id] = ledger')
           /\ \A id \in Ids : lost'[id] # 0 => id \in Minted' /\ ~Genuine(id)'
<1>1. lost' = [id \in Ids |-> IF lost[id] = 0 /\ id \in Minted' /\ ~Genuine(id)'
                              THEN ledger' ELSE lost[id]]
  BY ChainEffect DEF NoteLost
<1>2. ledger' \in Nat \ {0} /\ lost \in [Ids -> Nat]
  BY ChainEffect DEF ChainInv
<1>3. \A id \in Ids : lost[id] # 0 => id \in Minted' /\ ~Genuine(id)'
  BY StatusEffect DEF ChainInv
<1> QED
  BY <1>1, <1>2, <1>3

LEMMA ChainInvStep ==
    ASSUME ChainInv, ChainStep
    PROVE  ChainInv'
BY ChainEffect, LostEffect DEF ChainInv

\* What an answer says stays true.
LEMMA ToldStays ==
    ASSUME ChainInv, ChainStep, NEW id, NEW status, NEW t \in Nat, t <= ledger,
           Told(id, status, t)
    PROVE  Told(id, status, t)'
<1>1. CASE id \in Minted
  <2>1. id \in Ids /\ id \in Minted'
    BY <1>1, StatusEffect DEF Minted
  <2>2. GenuineAt(id, t) => GenuineAt(id, t)'
    <3>1. lost'[id] = lost[id] \/ lost'[id] = ledger'
      BY <2>1, LostEffect
    <3>2. t <= ledger'
      BY ChainEffect DEF ChainInv
    <3> QED
      BY <3>1, <3>2 DEF GenuineAt
  <2> QED
    BY <1>1, <2>1, <2>2, StatusEffect DEF Told
<1>2. CASE id \notin Minted
  BY <1>2 DEF Told
<1> QED
  BY <1>1, <1>2

LEMMA ChainStepInv ==
    ASSUME VerificationInv, ChainStep,
           \A s \in Sessions : session[s].pc \in {"collect", "reply"} =>
              ledger' - session[s].asOf <= MaxFetch,
           bulk.pc = "waiting" => ledger' - bulk.since <= MaxBulk
    PROVE  VerificationInv'
<1>1. /\ ChainInv' /\ UNCHANGED <<cache, session, bulk>>
      /\ ledger \in Nat /\ ledger' \in Nat /\ ledger <= ledger'
  BY ChainInvStep, ChainEffect DEF VerificationInv, ChainInv, serviceVars
<1>2. CacheInv'
  <2>1. cache' = cache /\ cache' \in [Ids -> Entry \cup {NoEntry}]
    BY <1>1 DEF VerificationInv, CacheInv
  <2>2. ASSUME NEW id \in Ids, cache[id] # NoEntry
        PROVE  /\ cache[id].asOf <= cache[id].setAt /\ cache[id].setAt <= ledger'
               /\ cache[id].setAt - cache[id].asOf <= MaxFetch
               /\ Told(id, "Valid", cache[id].asOf)'
    <3>1. /\ cache[id].asOf <= cache[id].setAt /\ cache[id].setAt <= ledger
          /\ cache[id].setAt - cache[id].asOf <= MaxFetch
          /\ Told(id, "Valid", cache[id].asOf)
          /\ cache[id].asOf \in Nat /\ cache[id].setAt \in Nat
      BY <2>2 DEF VerificationInv, CacheInv, Entry
    <3>2. Told(id, "Valid", cache[id].asOf)'
      <4> DEFINE t == cache[id].asOf
      <4>1. PICK u \in Nat : u = t
        BY <3>1
      <4>2. Told(id, "Valid", u)'
        BY <1>1, <3>1, <4>1, ToldStays DEF VerificationInv
      <4> QED
        BY <1>1, <4>1, <4>2 DEF Told, GenuineAt
    <3> QED
      BY <1>1, <3>1, <3>2
  <2> QED
    BY <2>1, <2>2 DEF CacheInv
<1>3. ASSUME NEW s \in Sessions
      PROVE  SessionInv(s)'
  <2>1. SessionInv(s) /\ session[s] \in Session /\ session' = session
    BY <1>1 DEF VerificationInv
  <2>2. ASSUME NEW id, NEW status, NEW t \in Nat, t <= ledger,
               id = session[s].id, status = session[s].status, t = session[s].asOf,
               Told(id, status, t)
        PROVE  Told(session[s].id, session[s].status, session[s].asOf)'
    <3>1. Told(id, status, t)'
      BY <2>2, ToldStays DEF VerificationInv
    <3> QED
      BY <2>1, <2>2, <3>1 DEF Told, GenuineAt
  <2>3. session[s].asOf \in Nat /\ session[s].at \in Nat
    BY <2>1 DEF Session
  <2>4. CASE session[s].pc \in {"collect", "reply"}
    <3>1. Told(session[s].id, session[s].status, session[s].asOf)'
      BY <2>1, <2>2, <2>3, <2>4 DEF SessionInv
    <3> QED
      BY <1>1, <2>1, <2>3, <2>4, <3>1 DEF SessionInv
  <2>5. CASE session[s].pc = "done"
    <3>1. Told(session[s].id, session[s].status, session[s].asOf)'
      BY <1>1, <2>1, <2>2, <2>3, <2>5 DEF SessionInv
    <3> QED
      BY <1>1, <2>1, <2>3, <2>5, <3>1 DEF SessionInv
  <2> QED
    BY <2>1, <2>4, <2>5 DEF SessionInv
<1>4. BulkInv'
  BY <1>1 DEF VerificationInv, BulkInv
<1> QED
  BY <1>1, <1>2, <1>3, <1>4 DEF VerificationInv

LEMMA ChainCallStep ==
    ASSUME VerificationInv, ChainCall
    PROVE  VerificationInv'
<1>1. ledger' = ledger
  BY DEF ChainCall, Mint, Revoke, Expire
<1> QED
  BY <1>1, ChainStepInv DEF ChainStep, VerificationInv, SessionInv, BulkInv

LEMMA TickStep ==
    ASSUME VerificationInv, Tick
    PROVE  VerificationInv'
<1>1. ledger' = ledger + 1 /\ ledger \in Nat
  BY DEF Tick, CloseLedger, VerificationInv, ChainInv
<1>2. ASSUME NEW s \in Sessions, session[s].pc \in {"collect", "reply"}
      PROVE  ledger' - session[s].asOf <= MaxFetch
  <2>1. ledger - session[s].asOf < MaxFetch /\ session[s].asOf \in Nat
    BY <1>2 DEF Tick, InFlight, VerificationInv, Session
  <2> QED
    BY <1>1, <2>1, TimesAssumption
<1>3. bulk.pc = "waiting" => ledger' - bulk.since <= MaxBulk
  BY <1>1, TimesAssumption DEF Tick, VerificationInv, BulkInv
<1> QED
  BY <1>2, <1>3, ChainStepInv DEF ChainStep

-----------------------------------------------------------------------------
(* Steps of one call.                                                      *)

\* A call moves, and the cache with it perhaps; the others are as before.
LEMMA CallMoves ==
    ASSUME VerificationInv, NEW s \in Sessions, NEW v \in Session,
           session' = [session EXCEPT ![s] = v], SessionInv(s)',
           UNCHANGED <<book, ledger, lost, bulk>>, CacheInv',
           v.pc # "idle",
           s \in bulk.parts /\ bulk.pc # "none" =>
             /\ bulk.pc = "waiting"
             /\ v.pc = "done" => bulk.since <= v.at
    PROVE  VerificationInv'
<1>1. /\ session' \in [Sessions -> Session] /\ session'[s] = v
      /\ \A other \in Sessions \ {s} : session'[other] = session[other]
  BY DEF VerificationInv
<1>2. ChainInv'
  BY DEF VerificationInv, ChainInv, Minted, Genuine, OnChainStatus, Past
<1>3. ASSUME NEW other \in Sessions \ {s}
      PROVE  SessionInv(other)'
  BY <1>1 DEF VerificationInv, SessionInv, Told, GenuineAt, Minted, OnChainStatus, Past
<1>4. BulkInv'
  BY <1>1 DEF VerificationInv, BulkInv
<1> QED
  BY <1>1, <1>2, <1>3, <1>4 DEF VerificationInv

\* The cache is left alone.
LEMMA CacheKept ==
    ASSUME CacheInv, UNCHANGED <<book, ledger, lost, cache>>
    PROVE  CacheInv'
BY DEF CacheInv, Told, GenuineAt, Minted, OnChainStatus, Past

\* A call that has not returned is not one of an answered request.
LEMMA StillOut ==
    ASSUME VerificationInv, NEW s \in Sessions, session[s].pc # "done", s \in bulk.parts,
           bulk.pc # "none"
    PROVE  bulk.pc = "waiting" /\ bulk.since <= ledger
BY DEF VerificationInv, BulkInv

LEMMA LookupStep ==
    ASSUME VerificationInv, NEW s \in Sessions, NEW id \in Ids, Lookup(s, id)
    PROVE  VerificationInv'
<1>1. UNCHANGED <<book, ledger, lost, bulk, cache>> /\ CacheInv'
  BY CacheKept DEF Lookup, chainVars, VerificationInv
<1>2. s \in bulk.parts => session[s].pc # "done"
  BY DEF Lookup
<1>3. ledger \in Nat /\ lost \in [Ids -> Nat]
  BY DEF VerificationInv, ChainInv
<1>4. s \in bulk.parts /\ bulk.pc # "none" => bulk.pc = "waiting" /\ bulk.since <= ledger
  BY <1>2, StillOut
<1>5. CASE Fresh(id)
  <2> DEFINE v == [pc |-> "done", id |-> id, status |-> "Valid",
                   asOf |-> cache[id].asOf, at |-> ledger]
  <2>1. /\ cache[id] \in Entry /\ ledger - cache[id].setAt <= TTL
        /\ cache[id].asOf <= cache[id].setAt /\ cache[id].setAt <= ledger
        /\ cache[id].setAt - cache[id].asOf <= MaxFetch
        /\ Told(id, "Valid", cache[id].asOf)
    BY <1>5 DEF Fresh, VerificationInv, CacheInv
  <2>2. cache[id].asOf \in Nat /\ cache[id].setAt \in Nat
    BY <2>1 DEF Entry
  <2>3. cache[id].asOf <= ledger /\ ledger - cache[id].asOf <= TTL + MaxFetch
    BY <1>3, <2>1, <2>2, TimesAssumption
  <2>4. /\ v \in Session /\ v.pc = "done" /\ v.id = id /\ v.status = "Valid"
        /\ v.asOf = cache[id].asOf /\ v.at = ledger
    BY <1>3, <2>2 DEF Session
  <2>5. session' = [session EXCEPT ![s] = v]
    BY <1>5 DEF Lookup
  <2> HIDE DEF v
  <2>6. session'[s] = v
    BY <2>5 DEF VerificationInv
  <2>7. Told(session[s].id, session[s].status, session[s].asOf)'
    BY <1>1, <2>1, <2>4, <2>6 DEF Told, GenuineAt, Minted
  <2>8. SessionInv(s)'
    BY <1>1, <1>3, <2>2, <2>3, <2>4, <2>6, <2>7 DEF SessionInv
  <2> QED
    BY <1>1, <1>4, <2>4, <2>5, <2>8, CallMoves
<1>6. CASE ~Fresh(id)
  <2> DEFINE v == [Idle EXCEPT !.pc = "query", !.id = id]
  <2>1. v \in Session /\ v.pc = "query" /\ v.id = id
    BY DEF Idle, Session
  <2>2. session' = [session EXCEPT ![s] = v]
    BY <1>6 DEF Lookup
  <2> HIDE DEF v
  <2>3. SessionInv(s)'
    BY <2>1, <2>2 DEF VerificationInv, SessionInv
  <2> QED
    BY <1>1, <1>4, <2>1, <2>2, <2>3, CallMoves
<1> QED
  BY <1>5, <1>6

LEMMA RejectsStep ==
    ASSUME VerificationInv, NEW s \in Sessions, session[s].pc # "done", Rejects(s),
           UNCHANGED <<book, ledger, lost, bulk, cache>>
    PROVE  VerificationInv'
<1> DEFINE v == [session[s] EXCEPT !.pc = "failed"]
<1>1. v \in Session /\ v.pc = "failed"
  BY DEF VerificationInv, Session
<1>2. session' = [session EXCEPT ![s] = v]
  BY DEF Rejects
<1> HIDE DEF v
<1>3. SessionInv(s)'
  BY <1>1, <1>2 DEF VerificationInv, SessionInv
<1>4. CacheInv'
  BY CacheKept DEF VerificationInv
<1> QED
  BY <1>1, <1>2, <1>3, <1>4, StillOut, CallMoves

LEMMA QueryStep ==
    ASSUME VerificationInv, NEW s \in Sessions, Query(s)
    PROVE  VerificationInv'
<1>1. UNCHANGED <<book, ledger, lost, bulk, cache>> /\ session[s].pc = "query" /\ CacheInv'
  BY CacheKept DEF Query, chainVars, VerificationInv
<1>2. CASE Rejects(s)
  BY <1>1, <1>2, RejectsStep
<1>3. ASSUME session[s].id \in Minted,
             session' = [session EXCEPT ![s].pc = "collect", ![s].asOf = ledger,
                                        ![s].status = OnChainStatus(session[s].id)]
      PROVE  VerificationInv'
  <2> DEFINE id == session[s].id
  <2> DEFINE status == OnChainStatus(id)
  <2> DEFINE v == [session[s] EXCEPT !.pc = "collect", !.asOf = ledger, !.status = status]
  <2>1. id \in Ids /\ book[id] \in Page /\ ledger \in Nat
    BY <1>3 DEF Minted, VerificationInv, ChainInv
  <2>2. status \in {"Valid", "Revoked", "Expired"}
    BY <2>1 DEF Page, OnChainStatus
  <2>3. Told(id, status, ledger)
    BY <1>3, <2>1, <2>2 DEF Told, VerificationInv, ChainInv, Genuine, GenuineAt
  <2>4. session' = [session EXCEPT ![s] = v]
    BY <1>3
  <2> HIDE DEF status
  <2>5. /\ v \in Session /\ v.pc = "collect" /\ v.id = id /\ v.status = status
        /\ v.asOf = ledger
    BY <2>1, <2>2 DEF VerificationInv, Session
  <2> HIDE DEF v
  <2>6. session'[s] = v
    BY <2>4 DEF VerificationInv
  <2>7. Told(session[s].id, session[s].status, session[s].asOf)'
    BY <1>1, <2>3, <2>5, <2>6 DEF Told, GenuineAt, Minted, OnChainStatus, Past, status
  <2>8. SessionInv(s)'
    BY <1>1, <2>1, <2>2, <2>5, <2>6, <2>7, TimesAssumption DEF SessionInv
  <2> QED
    BY <1>1, <2>4, <2>5, <2>8, StillOut, CallMoves
<1> QED
  BY <1>2, <1>3 DEF Query

\* A call that goes on with what it knows.
LEMMA CollectStep ==
    ASSUME VerificationInv, NEW s \in Sessions, Collect(s)
    PROVE  VerificationInv'
<1>1. UNCHANGED <<book, ledger, lost, bulk, cache>> /\ session[s].pc = "collect" /\ CacheInv'
  BY CacheKept DEF Collect, chainVars, VerificationInv
<1>2. CASE Rejects(s)
  BY <1>1, <1>2, RejectsStep
<1>3. CASE session' = [session EXCEPT ![s].pc = "reply"]
  <2> DEFINE v == [session[s] EXCEPT !.pc = "reply"]
  <2>1. /\ v \in Session /\ v.pc = "reply" /\ v.id = session[s].id
        /\ v.status = session[s].status /\ v.asOf = session[s].asOf
    BY DEF VerificationInv, Session
  <2>2. session' = [session EXCEPT ![s] = v]
    BY <1>3
  <2> HIDE DEF v
  <2>3. session'[s] = v /\ SessionInv(s)
    BY <2>2 DEF VerificationInv
  <2>4. SessionInv(s)'
    BY <1>1, <2>1, <2>3 DEF SessionInv, Told, GenuineAt, Minted, OnChainStatus, Past
  <2> QED
    BY <1>1, <2>1, <2>2, <2>4, StillOut, CallMoves
<1> QED
  BY <1>2, <1>3 DEF Collect

LEMMA ReplyStep ==
    ASSUME VerificationInv, NEW s \in Sessions, Reply(s)
    PROVE  VerificationInv'
<1> DEFINE v == [session[s] EXCEPT !.pc = "done", !.at = ledger]
<1>1. UNCHANGED <<book, ledger, lost, bulk>> /\ session[s].pc = "reply"
  BY DEF Reply, chainVars
<1>2. PICK id \in Ids : id = session[s].id
  BY <1>1 DEF VerificationInv, SessionInv
<1>3. /\ ledger \in Nat /\ session[s] \in Session /\ id \in Ids /\ session[s].asOf \in Nat
      /\ session[s].asOf <= ledger /\ ledger - session[s].asOf <= MaxFetch
      /\ Told(id, session[s].status, session[s].asOf) /\ session[s].status # "none"
  BY <1>2, <1>1 DEF VerificationInv, ChainInv, SessionInv, Session
<1>4. /\ v \in Session /\ v.pc = "done" /\ v.id = id /\ v.status = session[s].status
      /\ v.asOf = session[s].asOf /\ v.at = ledger
  BY <1>2, <1>3 DEF Session
<1>5. session' = [session EXCEPT ![s] = v]
  BY DEF Reply
<1>6. CacheInv'
  <2>1. CASE session[s].status = "Valid"
    <3> DEFINE entry == [asOf |-> session[s].asOf, setAt |-> ledger]
    <3>1. /\ entry \in Entry /\ entry.asOf = session[s].asOf /\ entry.setAt = ledger
          /\ cache' = [cache EXCEPT ![id] = entry]
      BY <1>2, <1>3, <2>1 DEF Entry, Reply
    <3> HIDE DEF entry
    <3>2. /\ cache' \in [Ids -> Entry \cup {NoEntry}] /\ cache'[id] = entry
          /\ \A other \in Ids \ {id} : cache'[other] = cache[other]
      BY <1>3, <3>1 DEF VerificationInv, CacheInv
    <3>3. Told(id, "Valid", cache[id].asOf)' /\ cache'[id].asOf <= cache'[id].setAt
          /\ cache'[id].setAt <= ledger' /\ cache'[id].setAt - cache'[id].asOf <= MaxFetch
      <4>1. Told(id, "Valid", entry.asOf)
        BY <1>3, <2>1, <3>1
      <4> QED
        BY <1>1, <1>3, <3>1, <3>2, <4>1 DEF Told, GenuineAt, Minted
    <3>4. ASSUME NEW other \in Ids \ {id}, cache'[other] # NoEntry
          PROVE  /\ cache'[other].asOf <= cache'[other].setAt /\ cache'[other].setAt <= ledger'
                 /\ cache'[other].setAt - cache'[other].asOf <= MaxFetch
                 /\ Told(other, "Valid", cache[other].asOf)'
      BY <1>1, <3>2, <3>4 DEF VerificationInv, CacheInv, Told, GenuineAt, Minted
    <3> QED
      BY <1>3, <3>2, <3>3, <3>4 DEF CacheInv, Told, GenuineAt
  <2>2. CASE session[s].status # "Valid"
    BY <1>1, <2>2, CacheKept DEF Reply, VerificationInv
  <2> QED
    BY <2>1, <2>2
<1> HIDE DEF v
<1>7. session'[s] = v
  BY <1>5 DEF VerificationInv
<1>8. Told(session[s].id, session[s].status, session[s].asOf)'
  BY <1>1, <1>3, <1>4, <1>7 DEF Told, GenuineAt, Minted, OnChainStatus, Past
<1>9. v.at - v.asOf <= TTL + MaxFetch
  BY <1>3, <1>4, TimesAssumption
<1>10. SessionInv(s)'
  BY <1>1, <1>3, <1>4, <1>7, <1>8, <1>9 DEF SessionInv
<1> QED
  BY <1>1, <1>4, <1>5, <1>6, <1>10, StillOut, CallMoves

-----------------------------------------------------------------------------
(* Bulk requests, and the process.                                         *)

\* Steps of the bulk request that move no call.
LEMMA BulkMoves ==
    ASSUME VerificationInv, UNCHANGED <<book, ledger, lost, cache, session>>, BulkInv'
    PROVE  VerificationInv'
<1>1. ChainInv' /\ CacheInv'
  BY CacheKept DEF VerificationInv, ChainInv, Minted, Genuine, OnChainStatus, Past
<1>2. \A s \in Sessions : SessionInv(s)'
  BY DEF VerificationInv, SessionInv, Told, GenuineAt, Minted, OnChainStatus, Past
<1> QED
  BY <1>1, <1>2 DEF VerificationInv

LEMMA BulkVerifyStep ==
    ASSUME VerificationInv, NEW parts \in SUBSET Sessions, BulkVerify(parts)
    PROVE  VerificationInv'
<1>1. /\ UNCHANGED <<book, ledger, lost, cache>>
      /\ bulk' = [pc |-> "waiting", parts |-> parts, since |-> ledger, at |-> 0]
      /\ ledger \in Nat
  BY DEF BulkVerify, chainVars, VerificationInv, ChainInv
<1>2. PICK ids \in [parts -> Ids] :
         session' = [s \in Sessions |->
                       IF s \in parts THEN [Idle EXCEPT !.pc = "called", !.id = ids[s]]
                       ELSE session[s]]
  BY DEF BulkVerify
<1>3. ASSUME NEW s \in parts
      PROVE  /\ session'[s] \in Session /\ session'[s].pc = "called" /\ session'[s].id \in Ids
  BY <1>2 DEF Idle, Session
<1>4. \A s \in Sessions \ parts : session'[s] = session[s]
  BY <1>2
<1>5. session' \in [Sessions -> Session]
  BY <1>2, <1>3, <1>4 DEF VerificationInv
<1>6. ChainInv' /\ CacheInv'
  BY <1>1, CacheKept DEF VerificationInv, ChainInv, Minted, Genuine, OnChainStatus, Past
<1>7. ASSUME NEW s \in Sessions
      PROVE  SessionInv(s)'
  <2>1. CASE s \in parts
    BY <1>3, <2>1 DEF SessionInv
  <2>2. CASE s \notin parts
    BY <1>1, <1>4, <2>2 DEF VerificationInv, SessionInv, Told, GenuineAt, Minted, OnChainStatus, Past
  <2> QED
    BY <2>1, <2>2
<1>8. BulkInv'
  <2>1. bulk' \in [pc : {"none", "waiting", "answered"}, parts : SUBSET Sessions,
                   since : Nat, at : Nat]
    BY <1>1
  <2>2. bulk'.pc = "waiting" /\ bulk'.parts = parts /\ bulk'.since = ledger
    BY <1>1
  <2> QED
    BY <1>1, <1>3, <2>1, <2>2, TimesAssumption DEF BulkInv
<1> QED
  BY <1>5, <1>6, <1>7, <1>8 DEF VerificationInv

LEMMA BulkAnswerStep ==
    ASSUME VerificationInv, BulkAnswer
    PROVE  VerificationInv'
<1>1. /\ UNCHANGED <<book, ledger, lost, cache, session>> /\ ledger \in Nat
      /\ bulk.pc = "waiting" /\ bulk' = [bulk EXCEPT !.pc = "answered", !.at = ledger]
      /\ \A s \in bulk.parts : session[s].pc = "done"
  BY DEF BulkAnswer, chainVars, VerificationInv, ChainInv
<1>2. /\ bulk' \in [pc : {"none", "waiting", "answered"}, parts : SUBSET Sessions,
                    since : Nat, at : Nat]
      /\ bulk'.pc = "answered" /\ bulk'.at = ledger
      /\ bulk'.since = bulk.since /\ bulk'.parts = bulk.parts
  BY <1>1 DEF VerificationInv, BulkInv
<1>3. BulkInv'
  BY <1>1, <1>2 DEF VerificationInv, BulkInv
<1> QED
  BY <1>1, <1>3, BulkMoves

LEMMA BulkOverStep ==
    ASSUME VerificationInv, BulkReject \/ BulkEnd
    PROVE  VerificationInv'
<1>1. UNCHANGED <<book, ledger, lost, cache, session>> /\ bulk' = NoBulk
  BY DEF BulkReject, BulkEnd, chainVars
<1>2. BulkInv'
  BY <1>1 DEF BulkInv, NoBulk
<1> QED
  BY <1>1, <1>2, BulkMoves

LEMMA EvictStep ==
    ASSUME VerificationInv, NEW i \in Ids, Evict(i)
    PROVE  VerificationInv'
<1>1. /\ UNCHANGED <<book, ledger, lost, session, bulk>>
      /\ cache' = [cache EXCEPT ![i] = NoEntry]
  BY DEF Evict, chainVars
<1>2. CacheInv'
  BY <1>1 DEF VerificationInv, CacheInv, Told, GenuineAt, Minted
<1>3. ChainInv' /\ BulkInv'
  BY <1>1 DEF VerificationInv, ChainInv, BulkInv, Minted, Genuine, OnChainStatus, Past
<1>4. \A s \in Sessions : SessionInv(s)'
  BY <1>1 DEF VerificationInv, SessionInv, Told, GenuineAt, Minted, OnChainStatus, Past
<1> QED
  BY <1>1, <1>2, <1>3, <1>4 DEF VerificationInv

LEMMA RestartStep ==
    ASSUME VerificationInv, Restart
    PROVE  VerificationInv'
<1>1. /\ UNCHANGED <<book, ledger, lost>> /\ cache' = [id \in Ids |-> NoEntry]
      /\ session' = [s \in Sessions |-> Idle] /\ bulk' = NoBulk
  BY DEF Restart, chainVars
<1>2. ChainInv'
  BY <1>1 DEF VerificationInv, ChainInv, Minted, Genuine, OnChainStatus, Past
<1> QED
  BY <1>1, <1>2 DEF VerificationInv, CacheInv, BulkInv, SessionInv, Idle, NoBulk, Session

LEMMA VerificationInvStep ==
    ASSUME VerificationInv, [VerificationNext]_verificationVars
    PROVE  VerificationInv'
<1>1. CASE UNCHANGED verificationVars
  BY <1>1, BulkMoves DEF verificationVars, VerificationInv, BulkInv
<1>2. ASSUME NEW s \in Sessions,
             (\E id \in Ids : Lookup(s, id)) \/ Query(s) \/ Collect(s) \/ Reply(s)
      PROVE  VerificationInv'
  BY <1>2, LookupStep, QueryStep, CollectStep, ReplyStep
<1> QED
  BY <1>1, <1>2, ChainCallStep, TickStep, BulkVerifyStep, BulkAnswerStep, BulkOverStep,
     EvictStep, RestartStep DEF VerificationNext

LEMMA VerificationInvAlways == VerificationSpec => []VerificationInv
<1>1. VerificationInv /\ [VerificationNext]_verificationVars => VerificationInv'
  BY VerificationInvStep
<1> QED
  BY <1>1, VerificationInvInit, PTL DEF VerificationSpec

-----------------------------------------------------------------------------
(* The theorems.                                                           *)

\* Type correctness.
THEOREM VerificationTypeCorrect == VerificationSpec => []VerificationTypeOK
<1>1. VerificationInv => VerificationTypeOK
  BY DEF VerificationInv, ChainInv, CacheInv, BulkInv, SessionInv, VerificationTypeOK
<1> QED
  BY <1>1, VerificationInvAlways, PTL

\* A Valid answer was true when the contract was asked; Revoked and Expired
\* answers stay true.
THEOREM AnswersAreTrue == VerificationSpec => []AnswersWereTrue
<1>1. ASSUME VerificationInv
      PROVE  AnswersWereTrue
  <2>1. ASSUME NEW s \in Sessions, session[s].pc = "done"
        PROVE  Told(session[s].id, session[s].status, session[s].asOf)
    BY <1>1, <2>1 DEF VerificationInv, SessionInv
  <2>2. ASSUME NEW id \in Ids, cache[id] # NoEntry
        PROVE  id \in Minted /\ GenuineAt(id, cache[id].asOf)
    BY <1>1, <2>2 DEF VerificationInv, CacheInv, Told
  <2> QED
    BY <2>1, <2>2 DEF AnswersWereTrue, Answered, Told
<1> QED
  BY <1>1, VerificationInvAlways, PTL

\* Nobody is told Valid more than TTL and one fetch after it stopped being so.
THEOREM StalenessIsBounded == VerificationSpec => []StalenessBounded
<1>1. ASSUME VerificationInv, NEW s \in Sessions, Answered(s, "Valid"), lost[session[s].id] # 0
      PROVE  session[s].at - lost[session[s].id] <= TTL + MaxFetch
  <2>1. /\ session[s].at - session[s].asOf <= TTL + MaxFetch
        /\ GenuineAt(session[s].id, session[s].asOf) /\ session[s].id \in Ids
        /\ session[s].at \in Nat /\ session[s].asOf \in Nat
    BY <1>1 DEF VerificationInv, SessionInv, Answered, Told, Session
  <2>2. lost[session[s].id] \in Nat /\ session[s].asOf <= lost[session[s].id]
    BY <1>1, <2>1 DEF VerificationInv, ChainInv, GenuineAt
  <2> QED
    BY <2>1, <2>2, TimesAssumption
<1>2. VerificationInv => StalenessBounded
  BY <1>1 DEF StalenessBounded
<1> QED
  BY <1>2, VerificationInvAlways, PTL

\* A bulk answer is complete, and staler by what the request took at most.
THEOREM BulkAnswersAlwaysHold == VerificationSpec => []BulkAnswersHold
<1>1. ASSUME VerificationInv, bulk.pc = "answered", NEW s \in bulk.parts
      PROVE  /\ session[s].pc = "done" /\ bulk.since <= session[s].at
             /\ Answered(s, "Valid") /\ lost[session[s].id] # 0
                   => bulk.at - lost[session[s].id] <= TTL + MaxFetch + MaxBulk
  <2>1. /\ session[s].pc = "done" /\ bulk.since <= session[s].at
        /\ bulk.at - bulk.since <= MaxBulk
        /\ bulk.since \in Nat /\ bulk.at \in Nat /\ s \in Sessions
    BY <1>1 DEF VerificationInv, BulkInv
  <2>2. ASSUME Answered(s, "Valid"), lost[session[s].id] # 0
        PROVE  bulk.at - lost[session[s].id] <= TTL + MaxFetch + MaxBulk
    <3>1. /\ session[s].at - session[s].asOf <= TTL + MaxFetch
          /\ GenuineAt(session[s].id, session[s].asOf) /\ session[s].id \in Ids
          /\ session[s].at \in Nat /\ session[s].asOf \in Nat
      BY <1>1, <2>1, <2>2 DEF VerificationInv, SessionInv, Answered, Told, Session
    <3>2. lost[session[s].id] \in Nat /\ session[s].asOf <= lost[session[s].id]
      BY <1>1, <2>2, <3>1 DEF VerificationInv, ChainInv, GenuineAt
    <3> QED
      BY <2>1, <3>1, <3>2, TimesAssumption
  <2> QED
    BY <2>1, <2>2
<1>2. VerificationInv => BulkAnswersHold
  BY <1>1 DEF BulkAnswersHold
<1> QED
  BY <1>2, VerificationInvAlways, PTL
=============================================================================
