-------------------------- MODULE BatchIssuerProofs --------------------------
(***************************************************************************)
(* What the credential-token contract guarantees when credentials are also *)
(* issued in batches, of any length, and what issue_batch returns.  The    *)
(* loop of issue_batch is an induction over its turns, done by least       *)
(* counterexample: every set of naturals has a least element, so a turn    *)
(* that goes wrong would be preceded by one that did not.                  *)
(***************************************************************************)
EXTENDS BatchIssuer, CredentialTokenProofs, WellFoundedInduction

\* Every nonempty set of naturals has a least element.
LEMMA LeastNat ==
    ASSUME NEW T, T \subseteq Nat, T # {}
    PROVE  \E x \in T : \A y \in T : x <= y
<1>1. PICK x \in T : \A y \in T : ~ (<<y, x>> \in OpToRel(<, Nat))
  BY NatLessThanWellFounded, WFMin, Zenon
<1>2. \A y \in T : ~ (y < x)
  BY <1>1 DEF OpToRel
<1> QED
  BY <1>2

-----------------------------------------------------------------------------
(* The loop of issue_batch.                                                *)

\* The recursion of IssueEach: a turn depends on the turn before it only.
Turn(d, institution, batch, n) ==
    IF n = 0 THEN [storage |-> Storage, issued_ids |-> <<>>]
    ELSE IssueOne(d[n - 1], institution, batch[n])

\* There is a function that satisfies the loop's recursion up to any turn.
LEMMA LoopExists ==
    ASSUME NEW institution, NEW batch, NEW m \in Nat
    PROVE  \E d : d = [n \in 0 .. m |-> Turn(d, institution, batch, n)]
<1> DEFINE Loop(d, k) == d = [n \in 0 .. k |-> Turn(d, institution, batch, n)]
           Without == {k \in Nat : ~ \E d : Loop(d, k)}
<1>1. SUFFICES ASSUME Without # {} PROVE FALSE
  OBVIOUS
<1>2. PICK k \in Without : \A y \in Without : k <= y
  BY <1>1, LeastNat
<1>3. CASE k = 0
  <2> DEFINE d == [n \in 0 .. 0 |-> [storage |-> Storage, issued_ids |-> <<>>]]
  <2>1. Loop(d, 0)
    BY DEF Turn
  <2> QED
    BY <1>2, <1>3, <2>1
<1>4. CASE k # 0
  <2>1. k - 1 \in Nat /\ k - 1 \notin Without
    BY <1>2, <1>4
  <2>2. PICK e : Loop(e, k - 1)
    BY <2>1
  <2> DEFINE d == [n \in 0 .. k |-> IF n = k THEN IssueOne(e[k - 1], institution, batch[k])
                                    ELSE e[n]]
  <2>3. ASSUME NEW n \in 0 .. k PROVE d[n] = Turn(d, institution, batch, n)
    <3>1. CASE n = k
      BY <1>2, <1>4, <3>1 DEF Turn
    <3>2. CASE n # k
      <4>1. n \in 0 .. k - 1 /\ d[n] = e[n]
        BY <1>2, <3>2
      <4>2. n # 0 => d[n - 1] = e[n - 1]
        BY <1>2, <4>1
      <4>3. e[n] = Turn(e, institution, batch, n)
        BY <2>2, <4>1
      <4> QED
        BY <4>1, <4>2, <4>3 DEF Turn
    <3> QED
      BY <3>1, <3>2
  <2>4. Loop(d, k)
    BY <2>3
  <2> QED
    BY <1>2, <2>4
<1> QED
  BY <1>3, <1>4

\* The loop starts from the token's storage and is one turn after the other.
LEMMA LoopTurns ==
    ASSUME NEW institution, NEW batch, Len(batch) \in Nat,
           NEW d, d = IssueEach(institution, batch)
    PROVE  /\ d[0] = [storage |-> Storage, issued_ids |-> <<>>]
           /\ \A n \in 1 .. Len(batch) : d[n] = IssueOne(d[n - 1], institution, batch[n])
<1> DEFINE Loop(f) == f = [n \in 0 .. Len(batch) |-> Turn(f, institution, batch, n)]
<1>1. \E f : Loop(f)
  BY LoopExists
<1>2. d = CHOOSE f : Loop(f)
  BY Zenon DEF IssueEach, Turn
<1>3. Loop(d)
  BY <1>1, <1>2
<1> QED
  BY <1>3 DEF Turn

-----------------------------------------------------------------------------
(* What the loop leaves behind.                                            *)

\* The ids a batch's first n inputs get.
Given(n) == cred_ct + 1 .. cred_ct + n

\* The credential issued under id.
OfBatch(institution, batch, id) ==
    NewCredential(id, institution, batch[id - cred_ct].graduate, batch[id - cred_ct].expiry)

\* The credential's fields.
LEMMA OfBatchFields ==
    ASSUME NEW institution, NEW batch, NEW id
    PROVE  LET c == OfBatch(institution, batch, id)
           IN  /\ c.id = id
               /\ c.institution = institution
               /\ c.graduate = batch[id - cred_ct].graduate
               /\ c.expiry_date_unix = batch[id - cred_ct].expiry
               /\ c.verification_count = 0
               /\ c.status = "Valid"
               /\ c.issued_ledger = ledger
               /\ c.revoked_ledger = 0
BY DEF OfBatch, NewCredential

\* The ids among Given(n) of the credentials of a.
GivenTo(a, batch, n) == {id \in Given(n) : batch[id - cred_ct].graduate = a}

\* The ids of a's credentials before the batch.
Held(a) == {id \in Issued : credentials[id].graduate = a}

\* The events of the first n turns.
BatchEvents(institution, batch, n) ==
    {IssuedEvent(id, institution, batch[id - cred_ct].graduate, ledger) : id \in Given(n)}

\* The loop's invariant: what d, the result of the first n turns, holds.
AfterTurns(d, institution, batch, n) ==
    /\ d.storage.cred_ct = cred_ct + n
    /\ d.storage.credentials =
         [id \in Ids |-> IF id \in Given(n) THEN OfBatch(institution, batch, id)
                         ELSE credentials[id]]
    /\ d.storage.graduate_creds \in [Addresses -> Seq(Ids)]
    /\ \A a \in Addresses :
          Lists(d.storage.graduate_creds[a], Held(a) \cup GivenTo(a, batch, n))
    /\ d.storage.events = events \cup BatchEvents(institution, batch, n)
    /\ d.issued_ids = [i \in 1 .. n |-> cred_ct + i]

\* It holds before the first turn,
LEMMA NoTurn ==
    ASSUME TypeOK, IndexInv, NEW institution, NEW batch
    PROVE  AfterTurns([storage |-> Storage, issued_ids |-> <<>>], institution, batch, 0)
<1> DEFINE d == [storage |-> Storage, issued_ids |-> <<>>]
<1>1. cred_ct \in Nat
  BY DEF TypeOK
<1>2. Given(0) = {}
  BY <1>1 DEF Given
<1>3. /\ d.storage.cred_ct = cred_ct
      /\ d.storage.credentials = credentials
      /\ d.storage.graduate_creds = graduate_creds
      /\ d.storage.events = events
      /\ d.issued_ids = <<>>
  BY DEF Storage
<1> HIDE DEF d
<1>4. d.storage.credentials =
         [id \in Ids |-> IF id \in Given(0) THEN OfBatch(institution, batch, id)
                         ELSE credentials[id]]
  BY <1>2, <1>3 DEF TypeOK
<1>5. ASSUME NEW a \in Addresses
      PROVE  Lists(graduate_creds[a], Held(a) \cup GivenTo(a, batch, 0))
  <2>1. Held(a) \cup GivenTo(a, batch, 0) = Held(a)
    BY <1>2 DEF GivenTo
  <2>2. Lists(graduate_creds[a], Held(a))
    BY DEF IndexInv, GraduateIndexExact, Lists, Held
  <2> QED
    BY <2>1, <2>2
<1>6. BatchEvents(institution, batch, 0) = {}
  BY <1>2 DEF BatchEvents
<1>7. <<>> = [i \in 1 .. 0 |-> cred_ct + i]
  OBVIOUS
<1> QED
  BY <1>1, <1>3, <1>4, <1>5, <1>6, <1>7 DEF AfterTurns, TypeOK, d

\* every turn keeps it,
LEMMA OneTurn ==
    ASSUME TypeOK, IndexInv, NEW institution \in Addresses, NEW batch \in Seq(BatchInput),
           NEW n \in 1 .. Len(batch), cred_ct + n <= MaxCredentials,
           NEW d, AfterTurns(d, institution, batch, n - 1)
    PROVE  AfterTurns(IssueOne(d, institution, batch[n]), institution, batch, n)
<1> DEFINE s == d.storage
           id == cred_ct + n
           g == batch[n].graduate
           e == batch[n].expiry
           f == IssueOne(d, institution, batch[n])
<1>1. /\ cred_ct \in Nat
      /\ n \in Nat
      /\ id \in Ids
      /\ id - cred_ct = n
      /\ batch[n] \in BatchInput
      /\ g \in Addresses
      /\ e \in Expiries
  <2>1. cred_ct \in Nat /\ MaxCredentials \in Nat /\ Len(batch) \in Nat
    BY BoundsAssumption, LenProperties DEF TypeOK
  <2>2. batch[n] \in BatchInput
    BY ElementOfSeq
  <2> QED
    BY <2>1, <2>2 DEF Ids, BatchInput
<1>2. s.cred_ct + 1 = id
  BY <1>1 DEF AfterTurns
<1>3. /\ f.storage.cred_ct = id
      /\ f.storage.credentials
           = [s.credentials EXCEPT ![id] = NewCredential(id, institution, g, e)]
      /\ f.storage.graduate_creds = [s.graduate_creds EXCEPT ![g] = Append(@, id)]
      /\ f.storage.events = s.events \cup {IssuedEvent(id, institution, g, ledger)}
      /\ f.issued_ids = Append(d.issued_ids, id)
  BY <1>2 DEF IssueOne, AfterIssue
<1> HIDE DEF f
<1>4. Given(n) = Given(n - 1) \cup {id} /\ id \notin Given(n - 1)
  BY <1>1 DEF Given
<1>5. f.storage.credentials =
         [k \in Ids |-> IF k \in Given(n) THEN OfBatch(institution, batch, k)
                        ELSE credentials[k]]
  <2>1. s.credentials = [k \in Ids |-> IF k \in Given(n - 1) THEN OfBatch(institution, batch, k)
                                       ELSE credentials[k]]
    BY DEF AfterTurns
  <2>2. OfBatch(institution, batch, id) = NewCredential(id, institution, g, e)
    BY <1>1 DEF OfBatch
  <2> HIDE DEF s, id
  <2> QED
    BY <1>1, <1>3, <1>4, <2>1, <2>2
<1>6. /\ s.graduate_creds \in [Addresses -> Seq(Ids)]
      /\ f.storage.graduate_creds[g] = Append(s.graduate_creds[g], id)
      /\ \A a \in Addresses \ {g} : f.storage.graduate_creds[a] = s.graduate_creds[a]
      /\ f.storage.graduate_creds \in [Addresses -> Seq(Ids)]
  <2>1. s.graduate_creds \in [Addresses -> Seq(Ids)]
    BY DEF AfterTurns
  <2>2. Append(s.graduate_creds[g], id) \in Seq(Ids)
    BY <1>1, <2>1, AppendProperties
  <2> QED
    BY <1>1, <1>3, <2>1, <2>2
<1>7. ASSUME NEW a \in Addresses
      PROVE  Lists(f.storage.graduate_creds[a], Held(a) \cup GivenTo(a, batch, n))
  <2> DEFINE S == Held(a) \cup GivenTo(a, batch, n - 1)
  <2>1. Lists(s.graduate_creds[a], S)
    BY DEF AfterTurns
  <2>2. CASE a = g
    <3>1. Held(a) \cup GivenTo(a, batch, n) = S \cup {id}
      BY <1>1, <1>4, <2>2 DEF GivenTo
    <3>2. \A k \in S : k < id
      BY <1>1 DEF GivenTo, Given, Held, IndexInv, GraduateIndexExact, CountExact
    <3>3. s.graduate_creds[a] \in Seq(Ids)
      BY <1>6
    <3>4. id \in Ids
      BY <1>1
    <3> HIDE DEF S, id
    <3>5. Lists(Append(s.graduate_creds[a], id), S \cup {id})
      BY <2>1, <3>2, <3>3, <3>4, AppendKeepsOrder
    <3> QED
      BY <1>6, <2>2, <3>1, <3>5
  <2>3. CASE a # g
    <3>1. GivenTo(a, batch, n) = GivenTo(a, batch, n - 1)
      BY <1>1, <1>4, <2>3 DEF GivenTo
    <3> QED
      BY <1>6, <2>1, <2>3, <3>1
  <2> QED
    BY <2>2, <2>3
<1>8. f.storage.events = events \cup BatchEvents(institution, batch, n)
  <2>1. BatchEvents(institution, batch, n)
          = BatchEvents(institution, batch, n - 1) \cup {IssuedEvent(id, institution, g, ledger)}
    BY <1>1, <1>4 DEF BatchEvents
  <2> QED
    BY <1>3, <2>1 DEF AfterTurns
<1>9. f.issued_ids = [i \in 1 .. n |-> cred_ct + i]
  <2> DEFINE l == [i \in 1 .. n - 1 |-> cred_ct + i]
  <2>1. l \in Seq(Nat) /\ Len(l) = n - 1
    BY <1>1
  <2>2. Append(l, id) = [i \in 1 .. n |-> cred_ct + i]
    BY <1>1, <2>1
  <2> QED
    BY <1>3, <2>2 DEF AfterTurns
<1> QED
  BY <1>3, <1>5, <1>6, <1>7, <1>8, <1>9 DEF AfterTurns, f

\* so that it holds at the end of the loop.
LEMMA AllTurns ==
    ASSUME TypeOK, IndexInv, NEW institution \in Addresses, NEW batch \in Seq(BatchInput),
           cred_ct + Len(batch) <= MaxCredentials
    PROVE  AfterTurns(IssueEach(institution, batch)[Len(batch)], institution, batch, Len(batch))
<1> DEFINE Holds(k) ==
             AfterTurns(IssueEach(institution, batch)[k], institution, batch, k)
           Wrong == {k \in 0 .. Len(batch) : ~ Holds(k)}
<1>1. Len(batch) \in Nat /\ cred_ct \in Nat /\ MaxCredentials \in Nat
  BY LenProperties, BoundsAssumption DEF TypeOK
<1>2. SUFFICES ASSUME Wrong # {} PROVE FALSE
  BY <1>1
<1>3. PICK k \in Wrong : \A y \in Wrong : k <= y
  <2>1. Wrong \subseteq Nat
    BY <1>1
  <2> HIDE DEF Wrong
  <2> QED
    BY <1>2, <2>1, LeastNat
<1>4. /\ IssueEach(institution, batch)[0] = [storage |-> Storage, issued_ids |-> <<>>]
      /\ \A n \in 1 .. Len(batch) :
            IssueEach(institution, batch)[n]
              = IssueOne(IssueEach(institution, batch)[n - 1], institution, batch[n])
  BY <1>1, LoopTurns
<1>5. CASE k = 0
  BY <1>3, <1>4, <1>5, NoTurn
<1>6. CASE k # 0
  <2>1. k \in 1 .. Len(batch) /\ k - 1 \in 0 .. Len(batch) /\ k - 1 \notin Wrong
    BY <1>1, <1>3, <1>6
  <2>2. Holds(k - 1)
    BY <2>1
  <2>3. cred_ct + k <= MaxCredentials
    BY <1>1, <2>1
  <2>4. Holds(k)
    BY <1>4, <2>1, <2>2, <2>3, OneTurn
  <2> QED
    BY <1>3, <2>4
<1> QED
  BY <1>5, <1>6

\* Every batch submitted is a sequence of inputs.
LEMMA BatchesAreSequences ==
    ASSUME NEW batch \in Batches
    PROVE  batch \in Seq(BatchInput)
<1>1. PICK n \in Nat : batch \in [1 .. n -> BatchInput]
  <2>1. CASE batch \in UNION {[1 .. n -> BatchInput] : n \in 0 .. MaxBatch}
    BY <2>1, MaxBatchAssumption
  <2>2. CASE batch \in {[i \in 1 .. MaxBatch + 1 |-> input] : input \in BatchInput}
    BY <2>2, MaxBatchAssumption
  <2> QED
    BY <2>1, <2>2, Zenon DEF Batches
<1> QED
  BY <1>1, SeqDef

\* What issue_batch does, all of it.
LEMMA BatchEffect ==
    ASSUME TypeOK, IndexInv, NEW signer, NEW institution \in Addresses,
           NEW batch \in Batches, IssueBatch(signer, institution, batch)
    PROVE  /\ batch \in Seq(BatchInput)
           /\ Len(batch) \in Nat
           /\ \A i \in 1 .. Len(batch) : batch[i].graduate \in Addresses
                                        /\ batch[i].expiry \in Expiries
           /\ cred_ct + Len(batch) <= MaxCredentials
           /\ cred_ct' = cred_ct + Len(batch)
           /\ Given(Len(batch)) \subseteq Ids \ Issued
           /\ credentials' \in [Ids -> Credential \cup {NoCredential}]
           /\ \A id \in Given(Len(batch)) :
                 credentials'[id] = OfBatch(institution, batch, id)
           /\ \A id \in Ids \ Given(Len(batch)) : credentials'[id] = credentials[id]
           /\ Issued' = Issued \cup Given(Len(batch))
           /\ graduate_creds' \in [Addresses -> Seq(Ids)]
           /\ \A a \in Addresses :
                 Lists(graduate_creds'[a], Held(a) \cup GivenTo(a, batch, Len(batch)))
           /\ events' = events \cup BatchEvents(institution, batch, Len(batch))
           /\ last_batch' = [institution |-> institution, inputs |-> batch,
                             issued_ids |-> [i \in 1 .. Len(batch) |-> cred_ct + i]]
           /\ UNCHANGED <<initialized, ledger, cred_ctrt>>
<1> DEFINE n == Len(batch)
           d == IssueEach(institution, batch)[n]
<1>1. batch \in Seq(BatchInput) /\ n \in Nat
  BY BatchesAreSequences, LenProperties
<1>2. \A i \in 1 .. n : /\ batch[i] \in BatchInput
                        /\ batch[i].graduate \in Addresses
                        /\ batch[i].expiry \in Expiries
  <2>1. \A i \in 1 .. n : batch[i] \in BatchInput
    BY <1>1, ElementOfSeq
  <2> QED
    BY <2>1 DEF BatchInput
<1>3. cred_ct + n <= MaxCredentials
  BY DEF IssueBatch
<1>4. AfterTurns(d, institution, batch, n)
  BY <1>1, <1>3, AllTurns
<1>5. /\ cred_ct' = d.storage.cred_ct
      /\ credentials' = d.storage.credentials
      /\ graduate_creds' = d.storage.graduate_creds
      /\ events' = d.storage.events
      /\ last_batch' = [institution |-> institution, inputs |-> batch,
                        issued_ids |-> d.issued_ids]
      /\ UNCHANGED <<initialized, ledger, cred_ctrt>>
  BY DEF IssueBatch
<1> HIDE DEF d
<1>6. /\ cred_ct' = cred_ct + n
      /\ credentials' = [id \in Ids |-> IF id \in Given(n)
                                        THEN OfBatch(institution, batch, id)
                                        ELSE credentials[id]]
      /\ graduate_creds' \in [Addresses -> Seq(Ids)]
      /\ \A a \in Addresses : Lists(graduate_creds'[a], Held(a) \cup GivenTo(a, batch, n))
      /\ events' = events \cup BatchEvents(institution, batch, n)
      /\ d.issued_ids = [i \in 1 .. n |-> cred_ct + i]
  BY <1>4, <1>5 DEF AfterTurns
<1>7. /\ Given(n) \subseteq Ids \ Issued
      /\ \A id \in Given(n) : id - cred_ct \in 1 .. n
  BY <1>1, <1>3, BoundsAssumption
     DEF Given, TypeOK, IndexInv, GraduateIndexExact, CountExact, Ids
<1>8. \A id \in Given(n) : OfBatch(institution, batch, id) \in Credential
  BY <1>2, <1>7, NewCredentialType DEF OfBatch, TypeOK
<1>9. credentials' \in [Ids -> Credential \cup {NoCredential}]
  BY <1>6, <1>8 DEF TypeOK
<1>10. Issued' = Issued \cup Given(n)
  BY <1>6, <1>7, <1>8, NoCredentialAssumption DEF Issued
<1> QED
  BY <1>1, <1>2, <1>3, <1>5, <1>6, <1>7, <1>9, <1>10

-----------------------------------------------------------------------------
(* A batch keeps what single calls keep.                                   *)

\* The storage keeps its shape.
LEMMA BatchTypeStep ==
    ASSUME TypeOK, IndexInv, NEW signer, NEW institution \in Addresses,
           NEW batch \in Batches, IssueBatch(signer, institution, batch)
    PROVE  TypeOK'
<1> DEFINE n == Len(batch)
<1>1. /\ n \in Nat
      /\ \A i \in 1 .. n : batch[i].graduate \in Addresses
      /\ cred_ct + n <= MaxCredentials
      /\ cred_ct' = cred_ct + n
      /\ Given(n) \subseteq Ids
      /\ credentials' \in [Ids -> Credential \cup {NoCredential}]
      /\ graduate_creds' \in [Addresses -> Seq(Ids)]
      /\ events' = events \cup BatchEvents(institution, batch, n)
      /\ UNCHANGED <<initialized, ledger>>
  BY BatchEffect
<1>2. cred_ct' \in 0 .. MaxCredentials
  BY <1>1, BoundsAssumption DEF TypeOK
<1>3. BatchEvents(institution, batch, n)
        \subseteq [topic : {"ISSUED"}, id : Ids, institution : Addresses,
                   graduate : Addresses, ledger : Nat]
  <2>1. ASSUME NEW id \in Given(n)
        PROVE  IssuedEvent(id, institution, batch[id - cred_ct].graduate, ledger)
                 \in [topic : {"ISSUED"}, id : Ids, institution : Addresses,
                      graduate : Addresses, ledger : Nat]
    <3>1. id - cred_ct \in 1 .. n
      BY <1>1 DEF Given, TypeOK
    <3> QED
      BY <1>1, <3>1 DEF IssuedEvent, TypeOK
  <2> QED
    BY <2>1 DEF BatchEvents
<1> QED
  BY <1>1, <1>2, <1>3 DEF TypeOK

\* Counter and lists stay exact.
LEMMA BatchIndexStep ==
    ASSUME TypeOK, IndexInv, initialized, NEW signer, NEW institution \in Addresses,
           NEW batch \in Batches, IssueBatch(signer, institution, batch)
    PROVE  IndexInv'
<1> DEFINE n == Len(batch)
<1>1. /\ n \in Nat
      /\ cred_ct' = cred_ct + n
      /\ Given(n) \subseteq Ids \ Issued
      /\ \A id \in Given(n) : credentials'[id] = OfBatch(institution, batch, id)
      /\ \A id \in Ids \ Given(n) : credentials'[id] = credentials[id]
      /\ Issued' = Issued \cup Given(n)
      /\ \A a \in Addresses : Lists(graduate_creds'[a], Held(a) \cup GivenTo(a, batch, n))
      /\ initialized' = initialized
  BY BatchEffect
<1>2. /\ Issued = 1 .. cred_ct
      /\ \A id \in Issued : credentials[id].id = id
      /\ cred_ct \in Nat
      /\ Issued \subseteq Ids
  BY DEF IndexInv, GraduateIndexExact, CountExact, TypeOK, Issued
<1>3. Issued' = 1 .. cred_ct'
  BY <1>1, <1>2 DEF Given
<1>4. \A id \in Issued' : credentials'[id].id = id
  BY <1>1, <1>2, OfBatchFields
<1>5. ASSUME NEW a \in Addresses PROVE Held(a)' = Held(a) \cup GivenTo(a, batch, n)
  BY <1>1, <1>2, OfBatchFields DEF Held, GivenTo
<1> QED
  BY <1>1, <1>3, <1>4, <1>5
     DEF IndexInv, NothingBeforeInitialize, GraduateIndexExact, CountExact, Lists, Held

\* Status and dates still agree.
LEMMA BatchStatusStep ==
    ASSUME TypeOK, IndexInv, StatusDated, NEW signer, NEW institution \in Addresses,
           NEW batch \in Batches, IssueBatch(signer, institution, batch)
    PROVE  StatusDated'
<1> DEFINE n == Len(batch)
<1>1. /\ Given(n) \subseteq Ids \ Issued
      /\ \A id \in Given(n) : credentials'[id] = OfBatch(institution, batch, id)
      /\ \A id \in Ids \ Given(n) : credentials'[id] = credentials[id]
      /\ Issued' = Issued \cup Given(n)
      /\ ledger' = ledger
  BY BatchEffect
<1> SUFFICES ASSUME NEW id \in Issued'
             PROVE  LET c == credentials'[id]
                    IN  /\ c.issued_ledger \in 1 .. ledger
                        /\ c.status = "Revoked" => c.revoked_ledger \in c.issued_ledger .. ledger
                        /\ c.status # "Revoked" => c.revoked_ledger = 0
                        /\ c.status = "Expired" => /\ 0 < c.expiry_date_unix
                                                   /\ c.expiry_date_unix < ledger
                                                   /\ c.verification_count > 0
  BY <1>1 DEF StatusDated
<1>2. CASE id \in Given(n)
  BY <1>1, <1>2, OfBatchFields DEF TypeOK
<1>3. CASE id \in Issued
  <2>1. credentials'[id] = credentials[id]
    BY <1>1, <1>3 DEF Issued
  <2> QED
    BY <1>3, <2>1 DEF StatusDated
<1> QED
  BY <1>1, <1>2, <1>3

\* The events still tell everything.
LEMMA BatchEventsStep ==
    ASSUME TypeOK, IndexInv, EventsTellTheLedger, NEW signer, NEW institution \in Addresses,
           NEW batch \in Batches, IssueBatch(signer, institution, batch)
    PROVE  EventsTellTheLedger'
<1> DEFINE n == Len(batch)
<1>1. /\ Given(n) \subseteq Ids \ Issued
      /\ \A id \in Given(n) : credentials'[id] = OfBatch(institution, batch, id)
      /\ \A id \in Ids \ Given(n) : credentials'[id] = credentials[id]
      /\ Issued' = Issued \cup Given(n)
      /\ events' = events \cup BatchEvents(institution, batch, n)
  BY BatchEffect
<1>2. \A id \in Issued : id \notin Given(n) /\ credentials'[id] = credentials[id]
  BY <1>1 DEF Issued
<1>3. IssueEvents' = IssueEvents \cup BatchEvents(institution, batch, n)
  BY <1>1, <1>2, OfBatchFields DEF IssueEvents, BatchEvents
<1>4. RevokedIds' = RevokedIds
  BY <1>1, <1>2, OfBatchFields DEF RevokedIds
<1>5. RevokeEvents' = RevokeEvents
  BY <1>2, <1>4 DEF RevokeEvents, RevokedIds
<1>6. events = IssueEvents \cup RevokeEvents
  BY DEF EventsTellTheLedger, IssueEvents, RevokeEvents, RevokedIds
<1>7. events' = IssueEvents' \cup RevokeEvents'
  BY <1>1, <1>3, <1>5, <1>6
<1> QED
  BY <1>7 DEF EventsTellTheLedger, IssueEvents, RevokeEvents, RevokedIds

\* No credential comes back to life.
LEMMA BatchGenuineStep ==
    ASSUME TypeOK, IndexInv, NEW signer, NEW institution \in Addresses,
           NEW batch \in Batches, IssueBatch(signer, institution, batch)
    PROVE  \A id \in Issued : ~Genuine(id) => ~Genuine(id)'
<1>1. /\ Given(Len(batch)) \subseteq Ids \ Issued
      /\ \A id \in Ids \ Given(Len(batch)) : credentials'[id] = credentials[id]
      /\ Issued' = Issued \cup Given(Len(batch))
      /\ ledger' = ledger
  BY BatchEffect
<1>2. \A id \in Issued : credentials'[id] = credentials[id]
  BY <1>1 DEF Issued
<1> QED
  BY <1>1, <1>2 DEF Genuine, Past

\* To the life cycle a batch is one step: several mints of one institution.
LEMMA BatchLifecycleStep ==
    ASSUME TypeOK, TypeOK', IndexInv, IndexInv', NEW signer, NEW institution \in Addresses,
           NEW batch \in Batches, IssueBatch(signer, institution, batch)
    PROVE  Lifecycle!MintBatch(institution)
<1> DEFINE n == Len(batch)
<1>1. /\ Given(n) \subseteq Ids \ Issued
      /\ \A id \in Given(n) : credentials'[id] = OfBatch(institution, batch, id)
      /\ \A id \in Ids \ Given(n) : credentials'[id] = credentials[id]
      /\ Issued' = Issued \cup Given(n)
      /\ ledger' = ledger
  BY BatchEffect
<1>2. /\ \A id \in Issued' : /\ credentials'[id] \in Credential
                             /\ Book'[id] = SummaryOf(credentials'[id])
                             /\ SummaryOf(credentials'[id]) \in Summary
                             /\ Book'[id] # NoCredential
      /\ \A id \in Ids \ Issued' : Book'[id] = NoCredential
      /\ Book' = [id \in Ids |-> Book'[id]]
      /\ Issued' \subseteq Ids
  <2>1. Issued' \subseteq Ids
    BY DEF Issued
  <2>2. \A id \in Issued' : credentials'[id] \in Credential
    BY <2>1 DEF TypeOK, Issued
  <2>3. \A id \in Issued' : SummaryOf(credentials'[id]) \in Summary
    BY <2>2 DEF SummaryOf, Summary, Credential
  <2>4. Book' = [id \in Ids |-> IF credentials'[id] = NoCredential THEN NoCredential
                                ELSE SummaryOf(credentials'[id])]
    BY DEF Book, SummaryOf
  <2> QED
    BY <2>1, <2>2, <2>3, <2>4, NoCredentialAssumption DEF Issued
<1>3. Book' \in [Ids -> Lifecycle!Page \cup {NoCredential}]
  BY <1>2 DEF Summary, Status, Lifecycle!Page
<1>4. ASSUME NEW id \in Ids, Book'[id] # Book[id]
      PROVE  /\ Book[id] = NoCredential
             /\ Book'[id].institution = institution
             /\ Book'[id].state = "Valid"
  <2>1. id \in Given(n)
    BY <1>1, <1>4 DEF Book, SummaryOf
  <2>2. Book[id] = NoCredential
    BY <1>1, <2>1, BookPages
  <2>3. Book'[id] = SummaryOf(credentials'[id])
    BY <1>1, <1>2, <2>1
  <2> QED
    BY <1>1, <2>1, <2>2, <2>3, OfBatchFields DEF SummaryOf
<1>5. ASSUME NEW id \in Ids, NEW other \in Ids, other < id, Book'[id] # NoCredential
      PROVE  Book'[other] # NoCredential
  <2>1. Issued' = 1 .. cred_ct' /\ cred_ct' \in Nat
    BY DEF IndexInv, GraduateIndexExact, CountExact, TypeOK
  <2>2. id \in Issued'
    BY <1>2, <1>5
  <2>3. other \in Issued'
    BY <1>5, <2>1, <2>2 DEF Ids
  <2> QED
    BY <1>2, <2>3
<1> QED
  BY <1>1, <1>3, <1>4, <1>5 DEF Lifecycle!MintBatch

-----------------------------------------------------------------------------
(* The specification with batches.                                         *)

\* A batch, by an institution that signs for it.
BatchCall ==
    /\ initialized
    /\ \E signer, institution \in Addresses, batch \in Batches :
          IssueBatch(signer, institution, batch)

\* A step is a batch or a step of the token.
LEMMA BatchOrToken ==
    ASSUME [BatchNext]_<<vars, batchVars>>
    PROVE  BatchCall \/ [Next]_vars
BY DEF BatchNext, BatchCall, InitializeBatch, batchVars

\* Everything the runs check of the contract, as one inductive invariant.
BatchInv == TypeOK /\ IndexInv /\ StatusDated /\ EventsTellTheLedger

\* It holds initially,
LEMMA BatchInvInit == BatchInit => BatchInv
<1>1. Init => StatusDated /\ EventsTellTheLedger
  BY DEF Init, StatusDated, EventsTellTheLedger, Issued
<1> QED
  BY <1>1, TypeInit, IndexInit DEF BatchInit, BatchInv

\* every step keeps it,
LEMMA BatchInvStep == BatchInv /\ [BatchNext]_<<vars, batchVars>> => BatchInv'
<1> SUFFICES ASSUME BatchInv, [BatchNext]_<<vars, batchVars>> PROVE BatchInv'
  OBVIOUS
<1>1. CASE BatchCall
  BY <1>1, BatchTypeStep, BatchIndexStep, BatchStatusStep, BatchEventsStep
     DEF BatchCall, BatchInv
<1>2. CASE [Next]_vars
  BY <1>2, TypeStep, IndexStep, StatusDatedStep, EventsStep DEF BatchInv
<1> QED
  BY <1>1, <1>2, BatchOrToken

\* and so it always holds.
LEMMA BatchAlways == BatchSpec => []BatchInv
BY BatchInvInit, BatchInvStep, PTL DEF BatchSpec

\* Batches included, the contract's storage keeps its shape.
THEOREM BatchTypeCorrect == BatchSpec => []TypeOK
BY BatchAlways, PTL DEF BatchInv

\* Batches included, also one that names a graduate twice, the counter counts
\* and every graduate's list is exact and in order.
THEOREM BatchListsAreExact == BatchSpec => []GraduateIndexExact
<1>1. BatchInv => GraduateIndexExact
  BY DEF BatchInv, IndexInv
<1> QED
  BY <1>1, BatchAlways, PTL

\* Batches included, status and dates agree.
THEOREM BatchStatusAndDatesAgree == BatchSpec => []StatusDated
BY BatchAlways, PTL DEF BatchInv

\* Batches included, the events tell every issue and every revocation: a batch
\* publishes one event for each of its credentials.
THEOREM BatchEventsAreTheLedger == BatchSpec => []EventsTellTheLedger
BY BatchAlways, PTL DEF BatchInv

\* Batches included, a dead credential stays dead.
THEOREM BatchGenuineOnlyOnce == BatchSpec => NeverGenuineAgain
<1>1. ASSUME BatchInv, [BatchNext]_<<vars, batchVars>>
      PROVE  [\A id \in Issued : ~Genuine(id) => ~Genuine(id)']_vars
  <2>1. CASE BatchCall
    BY <1>1, <2>1, BatchGenuineStep DEF BatchCall, BatchInv
  <2>2. CASE [Next]_vars
    BY <1>1, <2>2, GenuineStep DEF BatchInv
  <2> QED
    BY <1>1, <2>1, <2>2, BatchOrToken
<1> QED
  BY <1>1, BatchAlways, PTL DEF BatchSpec, NeverGenuineAgain

\* With batches too the contract implements the life cycle.
THEOREM BatchImplementsLifecycle == BatchSpec => ImplementsLifecycle
<1>1. BatchInit => Lifecycle!Init
  BY DEF BatchInit, Init, Lifecycle!Init, Book
<1>2. ASSUME BatchInv, BatchInv', [BatchNext]_<<vars, batchVars>>
      PROVE  [Lifecycle!Next]_(Lifecycle!lifecycleVars)
  <2>1. CASE BatchCall
    <3>1. PICK signer \in Addresses, institution \in Addresses, batch \in Batches :
               IssueBatch(signer, institution, batch)
      BY <2>1 DEF BatchCall
    <3>2. Lifecycle!MintBatch(institution)
      BY <1>2, <3>1, BatchLifecycleStep DEF BatchInv
    <3> QED
      BY <3>2 DEF Lifecycle!Next
  <2>2. CASE [Next]_vars
    BY <1>2, <2>2, LifecycleStep DEF BatchInv
  <2> QED
    BY <1>2, <2>1, <2>2, BatchOrToken
<1> QED
  BY <1>1, <1>2, BatchAlways, PTL DEF BatchSpec, ImplementsLifecycle, Lifecycle!Spec

-----------------------------------------------------------------------------
(* What issue_batch returns.                                               *)

\* A batch returns the ids it issued, in the order of its inputs.
LEMMA BatchReturns ==
    ASSUME TypeOK, IndexInv, NEW signer, NEW institution \in Addresses,
           NEW batch \in Batches, IssueBatch(signer, institution, batch)
    PROVE  BatchIsContiguous'
<1> DEFINE n == Len(batch)
           ids == [i \in 1 .. n |-> cred_ct + i]
<1>1. /\ n \in Nat
      /\ Given(n) \subseteq Ids
      /\ \A id \in Given(n) : credentials'[id] = OfBatch(institution, batch, id)
      /\ Issued' = Issued \cup Given(n)
      /\ last_batch' = [institution |-> institution, inputs |-> batch, issued_ids |-> ids]
  BY BatchEffect
<1>2. cred_ct \in Nat
  BY DEF TypeOK
<1>3. Len(ids) = n /\ DOMAIN ids = 1 .. n
  BY <1>1
<1>4. ASSUME NEW i \in 1 .. n
      PROVE  /\ ids[i] = ids[1] + i - 1
             /\ ids[i] \in Given(n)
             /\ ids[1] \in Given(n)
             /\ ids[i] - cred_ct = i
  <2>1. n \in Nat /\ i \in Nat /\ 1 \in 1 .. n
    BY <1>1
  <2>2. ids[i] = cred_ct + i /\ ids[1] = cred_ct + 1
    BY <2>1
  <2> HIDE DEF ids, n
  <2>3. cred_ct + i \in Given(n) /\ cred_ct + 1 \in Given(n)
    BY <1>2, <2>1 DEF Given
  <2> QED
    BY <1>2, <2>1, <2>2, <2>3
<1> HIDE DEF ids
<1>5. ASSUME NEW i \in 1 .. n
      PROVE  /\ ids[i] = ids[1] + i - 1
             /\ ids[i] \in Issued'
             /\ credentials'[ids[i]].institution = institution
             /\ credentials'[ids[i]].graduate = batch[i].graduate
             /\ credentials'[ids[i]].expiry_date_unix = batch[i].expiry
             /\ credentials'[ids[i]].issued_ledger = credentials'[ids[1]].issued_ledger
  BY <1>1, <1>4, OfBatchFields
<1>6. /\ last_batch'.institution = institution
      /\ last_batch'.inputs = batch
      /\ last_batch'.issued_ids = ids
  BY <1>1
<1> QED
  BY <1>3, <1>5, <1>6 DEF BatchIsContiguous

\* What issue_batch returned are the ids of its inputs, in order and without a
\* gap, for batches of every length: the loop loses nobody, issues nobody twice
\* and has no other call in between.
THEOREM BatchesAreContiguous == BatchSpec => []BatchIsContiguous
<1>1. BatchInit => BatchIsContiguous
  BY DEF BatchInit, BatchIsContiguous
<1>2. ASSUME BatchInv, BatchIsContiguous, [BatchNext]_<<vars, batchVars>>
      PROVE  BatchIsContiguous'
  <2>1. CASE BatchCall
    BY <1>2, <2>1, BatchReturns DEF BatchCall, BatchInv
  <2>2. CASE Next /\ last_batch' = NoBatch
    BY <2>2 DEF BatchIsContiguous
  <2>3. CASE UNCHANGED <<vars, last_batch>>
    BY <1>2, <2>3 DEF BatchIsContiguous, vars, tokenVars, Issued
  <2> QED
    BY <1>2, <2>1, <2>2, <2>3 DEF BatchNext, BatchCall, InitializeBatch, batchVars
<1> QED
  BY <1>1, <1>2, BatchAlways, PTL DEF BatchSpec
=============================================================================
