---------------------------- MODULE BulkIssueProofs ----------------------------
(***************************************************************************)
(* What the result of a bulk issuance and the queue's restarts guarantee,  *)
(* for jobs of every length and any limit on the restarts.                 *)
(***************************************************************************)
EXTENDS BulkIssue, FiniteSetTheorems, TLAPS

ErrorInputs(r) == {r.errors[k] : k \in DOMAIN r.errors}

\* The inputs this run is through with.
Passed == IF pc = "progress" THEN 1 .. i ELSE 1 .. (i - 1)

Results == [success : 0 .. N, failed : 0 .. N, errors : Seq(Inputs)]

\* A result that accounts for the inputs it is about.
AccountsFor(r, inputs) ==
    /\ r \in Results
    /\ r.success = Cardinality(recorded)
    /\ r.failed = Len(r.errors)
    /\ Cardinality(ErrorInputs(r)) = Len(r.errors)
    /\ recorded \cup ErrorInputs(r) = inputs
    /\ recorded \cap ErrorInputs(r) = untold

\* The loop is where the job's state says, and an input it has not passed was
\* issued by earlier runs only.
LoopInv ==
    /\ job \in {"none", "waiting", "active", "completed", "failed"}
    /\ pc \in {"rest", "issue", "progress", "hung"}
    /\ pc # "rest" <=> job = "active"
    /\ i \in 1 .. N + 1
    /\ pc \in {"progress", "hung"} => i <= N
    /\ progress \in 0 .. N
    /\ runs \in 0 .. MaxStalls + 1
    /\ job \in {"none", "waiting"} => runs <= MaxStalls
    /\ issued \in [Inputs -> Nat]
    /\ \A k \in Inputs : issued[k] <= runs
    /\ job = "active" => \A k \in Inputs \ Passed : issued[k] < runs

\* The local result accounts for the inputs passed so far, and what the queue
\* keeps of a completed job for all of them.
ResultInv ==
    /\ results \in Results
    /\ recorded \subseteq Inputs /\ untold \subseteq Inputs
    /\ job = "active" => AccountsFor(results, Passed)
    /\ pc = "progress" => i \in recorded /\ i \notin ErrorInputs(results)
    /\ job = "completed" => AccountsFor(returnvalue, Inputs)

DataInv == given \in {FALSE, Decorated} /\ blank \subseteq Inputs

BulkInv == LoopInv /\ ResultInv

-----------------------------------------------------------------------------
(* Results.                                                                *)

LEMMA NoResultsAccount ==
    /\ NoResults \in Results
    /\ NoResults.success = 0 /\ NoResults.failed = 0 /\ Len(NoResults.errors) = 0
    /\ ErrorInputs(NoResults) = {}
BY JobAssumption DEF NoResults, Results, ErrorInputs

\* Appending an error adds its input.
LEMMA ErrorAppended ==
    ASSUME NEW r \in Results, NEW k \in Inputs, NEW q, q.errors = Append(r.errors, k)
    PROVE  /\ ErrorInputs(q) = ErrorInputs(r) \cup {k}
           /\ Len(q.errors) = Len(r.errors) + 1
           /\ q.errors \in Seq(Inputs)
<1> DEFINE s == r.errors
<1>1. s \in Seq(Inputs)
  BY DEF Results
<1> HIDE DEF s
<1>2. /\ Append(s, k) \in Seq(Inputs) /\ Len(Append(s, k)) = Len(s) + 1
      /\ DOMAIN Append(s, k) = 1 .. Len(s) + 1 /\ DOMAIN s = 1 .. Len(s)
      /\ Len(s) \in Nat
      /\ Append(s, k)[Len(s) + 1] = k
      /\ \A n \in 1 .. Len(s) : Append(s, k)[n] = s[n]
  BY <1>1
<1>3. {Append(s, k)[n] : n \in 1 .. Len(s) + 1} = {s[n] : n \in 1 .. Len(s)} \cup {k}
  BY <1>2
<1>4. q.errors = Append(s, k) /\ ErrorInputs(r) = {s[n] : n \in DOMAIN s}
  BY DEF s, ErrorInputs
<1>5. ErrorInputs(q) = {Append(s, k)[n] : n \in 1 .. Len(s) + 1}
  BY <1>2, <1>4 DEF ErrorInputs
<1>6. Len(q.errors) = Len(r.errors) + 1
  BY <1>2, <1>4 DEF s
<1> QED
  BY <1>2, <1>3, <1>4, <1>5, <1>6

\* The inputs of an accounted result are finitely many, and no more than N.
LEMMA InputsFinite ==
    ASSUME NEW S \in SUBSET Inputs
    PROVE  IsFiniteSet(S) /\ Cardinality(S) \in 0 .. N
<1>1. IsFiniteSet(Inputs) /\ Cardinality(Inputs) = N
  BY JobAssumption, FS_Interval DEF Inputs
<1>2. IsFiniteSet(S) /\ Cardinality(S) <= N
  BY <1>1, FS_Subset
<1> QED
  BY <1>2, JobAssumption, FS_CardinalityType

\* The catch of the loop accounts for one more input.
LEMMA FailureAccounts ==
    ASSUME LoopInv, NEW before \in SUBSET Inputs, AccountsFor(results, before),
           NEW k \in Inputs, k = i, k \notin ErrorInputs(results), Failure,
           recorded' = recorded, untold' = untold \cup (recorded \cap {k})
    PROVE  AccountsFor(results, before \cup {k})'
<1> DEFINE q == results'
<1>1. /\ results \in Results /\ results.success = Cardinality(recorded)
      /\ results.failed = Len(results.errors)
      /\ Cardinality(ErrorInputs(results)) = Len(results.errors)
      /\ recorded \cup ErrorInputs(results) = before
      /\ recorded \cap ErrorInputs(results) = untold
  BY DEF AccountsFor
<1>2. /\ q.success = results.success /\ q.failed = results.failed + 1
      /\ q.errors = Append(results.errors, k)
      /\ q = [success |-> q.success, failed |-> q.failed, errors |-> q.errors]
  BY <1>1 DEF Failure, Results
<1> HIDE DEF q
<1>3. /\ ErrorInputs(q) = ErrorInputs(results) \cup {k}
      /\ Len(q.errors) = Len(results.errors) + 1 /\ q.errors \in Seq(Inputs)
  BY <1>1, <1>2, ErrorAppended
<1>4. ErrorInputs(results) \in SUBSET Inputs /\ ErrorInputs(q) \in SUBSET Inputs
  BY <1>1, <1>3
<1>5. Cardinality(ErrorInputs(q)) = Cardinality(ErrorInputs(results)) + 1
  BY <1>3, <1>4, InputsFinite, FS_AddElement
<1>6. Cardinality(ErrorInputs(q)) \in 0 .. N
  BY <1>4, InputsFinite
<1>7. q.failed = Len(q.errors) /\ Cardinality(ErrorInputs(q)) = Len(q.errors)
  BY <1>1, <1>2, <1>3, <1>5
<1>8. q.success \in 0 .. N
  BY <1>1, <1>2 DEF Results
<1>9. q \in Results
  BY <1>2, <1>3, <1>6, <1>7, <1>8 DEF Results
<1>10. /\ recorded \cup ErrorInputs(q) = before \cup {k}
       /\ recorded \cap ErrorInputs(q) = untold'
  BY <1>1, <1>3
<1> QED
  BY <1>1, <1>2, <1>7, <1>9, <1>10 DEF AccountsFor, q

\* A credential issued and indexed accounts for one more input.
LEMMA SuccessAccounts ==
    ASSUME NEW before \in SUBSET Inputs, AccountsFor(results, before),
           NEW k \in Inputs, k \notin before, recorded' = recorded \cup {k}, untold' = untold,
           results' = [results EXCEPT !.success = @ + 1]
    PROVE  AccountsFor(results, before \cup {k})'
<1> DEFINE q == results'
<1>1. /\ results \in Results /\ results.success = Cardinality(recorded)
      /\ results.failed = Len(results.errors)
      /\ Cardinality(ErrorInputs(results)) = Len(results.errors)
      /\ recorded \cup ErrorInputs(results) = before
      /\ recorded \cap ErrorInputs(results) = untold
  BY DEF AccountsFor
<1>2. /\ q.success = results.success + 1 /\ q.failed = results.failed
      /\ q.errors = results.errors
      /\ q = [success |-> q.success, failed |-> q.failed, errors |-> q.errors]
  BY <1>1 DEF Results
<1> HIDE DEF q
<1>3. recorded \in SUBSET Inputs /\ recorded' \in SUBSET Inputs /\ k \notin recorded
  BY <1>1
<1>4. /\ Cardinality(recorded') = Cardinality(recorded) + 1
      /\ Cardinality(recorded') \in 0 .. N
  BY <1>3, InputsFinite, FS_AddElement
<1>5. q.success = Cardinality(recorded')
  BY <1>1, <1>2, <1>4
<1>6. q \in Results
  BY <1>1, <1>2, <1>4, <1>5 DEF Results
<1>7. ErrorInputs(q) = ErrorInputs(results)
  BY <1>2 DEF ErrorInputs
<1>8. /\ recorded' \cup ErrorInputs(q) = before \cup {k}
      /\ recorded' \cap ErrorInputs(q) = untold'
  BY <1>1, <1>7
<1> QED
  BY <1>1, <1>2, <1>5, <1>6, <1>7, <1>8 DEF AccountsFor, q

-----------------------------------------------------------------------------
(* Every step keeps the invariant.                                         *)

LEMMA BulkInvInit == BulkInit => BulkInv
BY JobAssumption, NoResultsAccount
   DEF BulkInit, BulkInv, LoopInv, ResultInv, Inputs, Passed

LEMMA PassedInputs ==
    ASSUME LoopInv
    PROVE  Passed \in SUBSET Inputs
BY JobAssumption DEF LoopInv, Passed, Inputs

LEMMA LoopStep ==
    ASSUME LoopInv, BulkNext
    PROVE  LoopInv'
<1> USE JobAssumption DEF LoopInv, Inputs, Passed
<1>1. CASE AddJob
  BY <1>1 DEF AddJob
<1>2. CASE Take
  BY <1>2 DEF Take
<1>3. CASE Reject
  BY <1>3 DEF Reject
<1>4. CASE IssueReturns
  BY <1>4 DEF IssueReturns, Issuing
<1>5. CASE IssueThrows
  <2>1. /\ pc = "issue" /\ i \in 1 .. N /\ pc' = "issue" /\ i' = i + 1
        /\ UNCHANGED <<job, progress, runs>>
    BY <1>5 DEF IssueThrows, Issuing, NextInput
  <2>2. issued' \in {issued, [issued EXCEPT ![i] = @ + 1]}
    BY <1>5 DEF IssueThrows
  <2>3. /\ issued' \in [1 .. N -> Nat]
        /\ issued[i] < runs
        /\ \A k \in 1 .. N : issued'[k] = issued[k] \/ (k = i /\ issued'[k] = issued[k] + 1)
    BY <2>1, <2>2
  <2> QED
    BY <2>1, <2>3
<1>6. CASE IssueHangs
  BY <1>6 DEF IssueHangs, Issuing
<1>7. CASE TellProgress
  BY <1>7 DEF TellProgress, NextInput
<1>8. CASE Finish
  BY <1>8 DEF Finish
<1>9. CASE Stall
  BY <1>9 DEF Stall, Issuing
<1>10. CASE BlankThrows
  BY <1>10 DEF BlankThrows
<1> QED
  BY <1>1, <1>2, <1>3, <1>4, <1>5, <1>6, <1>7, <1>8, <1>9, <1>10 DEF BulkNext, Process

\* A step that leaves results, records and what is passed alone.
LEMMA ResultKept ==
    ASSUME ResultInv, UNCHANGED <<results, returnvalue, recorded, untold>>,
           job' = "active" => job = "active" /\ Passed' = Passed,
           pc' = "progress" => pc = "progress" /\ i' = i,
           job' = "completed" => job = "completed"
    PROVE  ResultInv'
BY DEF ResultInv, AccountsFor, ErrorInputs, Results, Inputs

LEMMA TakeStep ==
    ASSUME BulkInv, Take
    PROVE  ResultInv'
<1>1. results' = NoResults /\ recorded' = {} /\ untold' = {} /\ Passed' = {}
      /\ job' = "active" /\ pc' = "issue"
  BY DEF Take, Passed
<1>2. Cardinality({}) = 0
  BY FS_EmptySet
<1>3. AccountsFor(results, Passed)'
  BY <1>1, <1>2, NoResultsAccount DEF AccountsFor
<1> QED
  BY <1>1, <1>3, NoResultsAccount DEF ResultInv

LEMMA IssueReturnsStep ==
    ASSUME BulkInv, IssueReturns
    PROVE  ResultInv'
<1>1. /\ pc = "issue" /\ job = "active" /\ i \in Inputs /\ pc' = "progress" /\ i' = i /\ job' = job
      /\ results' = [results EXCEPT !.success = @ + 1]
      /\ recorded' = recorded \cup {i} /\ untold' = untold
  BY JobAssumption DEF IssueReturns, Issuing, BulkInv, LoopInv, Inputs
<1>2. Passed \in SUBSET Inputs /\ i \notin Passed /\ Passed' = Passed \cup {i}
  BY <1>1, PassedInputs DEF BulkInv, Passed, Inputs
<1>3. PICK k \in Inputs : k = i
  BY <1>1
<1>4. PICK before \in SUBSET Inputs : before = Passed
  BY <1>2
<1>5. AccountsFor(results, before) /\ k \notin before
  BY <1>1, <1>2, <1>3, <1>4 DEF BulkInv, ResultInv
<1>6. AccountsFor(results, before \cup {k})'
  BY <1>1, <1>3, <1>5, SuccessAccounts
<1>7. AccountsFor(results, Passed)'
  BY <1>2, <1>3, <1>4, <1>6 DEF AccountsFor
<1>8. ErrorInputs(results') = ErrorInputs(results) /\ i \notin ErrorInputs(results)
  BY <1>1, <1>3, <1>4, <1>5 DEF ErrorInputs, AccountsFor, Results
<1>9. recorded' \subseteq Inputs /\ untold' \subseteq Inputs
  BY <1>1 DEF BulkInv, ResultInv
<1> QED
  BY <1>1, <1>7, <1>8, <1>9 DEF ResultInv, AccountsFor, ErrorInputs

\* The catch of the loop goes on with the next input.
LEMMA CaughtStep ==
    ASSUME BulkInv, job = "active", i \in Inputs, i \notin ErrorInputs(results),
           Failure, NextInput, UNCHANGED <<job, recorded>>,
           untold' = untold \cup (recorded \cap {i}),
           Passed \cup {i} = 1 .. i
    PROVE  ResultInv'
<1>1. Passed \in SUBSET Inputs
  BY PassedInputs DEF BulkInv
<1>2. Passed' = 1 .. i /\ pc' = "issue"
  BY DEF NextInput, Passed, Inputs
<1>3. PICK k \in Inputs : k = i
  OBVIOUS
<1>4. PICK before \in SUBSET Inputs : before = Passed
  BY <1>1
<1>5. AccountsFor(results, before)
  BY <1>4 DEF BulkInv, ResultInv
<1>6. AccountsFor(results, before \cup {k})'
  BY <1>3, <1>5, FailureAccounts DEF BulkInv
<1>7. AccountsFor(results, Passed)'
  BY <1>2, <1>3, <1>4, <1>6 DEF AccountsFor
<1> QED
  BY <1>2, <1>7 DEF ResultInv, AccountsFor, BulkInv

LEMMA IssueThrowsStep ==
    ASSUME BulkInv, IssueThrows
    PROVE  ResultInv'
<1>1. /\ pc = "issue" /\ job = "active" /\ i \in Inputs /\ job' = job /\ recorded' = recorded
      /\ Passed = 1 .. (i - 1)
  BY JobAssumption DEF IssueThrows, Issuing, thisRun, BulkInv, LoopInv, Inputs, Passed
<1>2. Passed \cup {i} = 1 .. i /\ i \notin Passed
  BY <1>1 DEF Inputs
<1>3. i \notin ErrorInputs(results) /\ i \notin recorded
  BY <1>1, <1>2 DEF BulkInv, ResultInv, AccountsFor
<1>4. untold' = untold \cup (recorded \cap {i})
  BY <1>3 DEF IssueThrows, thisRun
<1> QED
  BY <1>1, <1>2, <1>3, <1>4, CaughtStep DEF IssueThrows

\* The catch of a null input counts it before it throws.
LEMMA BlankThrowsStep ==
    ASSUME BulkInv, BlankThrows
    PROVE  ResultInv'
<1>1. /\ job = "active" /\ pc = "issue" /\ i \in Inputs /\ i \notin Passed
      /\ job' = "failed" /\ pc' = "rest" /\ UNCHANGED <<recorded, untold>>
      /\ results' = [results EXCEPT !.failed = @ + 1]
  BY JobAssumption DEF BlankThrows, thisRun, BulkInv, LoopInv, Inputs, Passed
<1> DEFINE E == ErrorInputs(results)
<1>2. /\ E \in SUBSET Inputs /\ E \cup {i} \in SUBSET Inputs /\ i \notin E
      /\ results.failed = Cardinality(E)
  BY <1>1, PassedInputs DEF BulkInv, ResultInv, AccountsFor
<1>3. PICK k \in Inputs : k = i
  BY <1>1
<1> HIDE DEF E
<1>4. Cardinality(E \cup {k}) = Cardinality(E) + 1 /\ Cardinality(E \cup {k}) \in 0 .. N
  BY <1>2, <1>3, InputsFinite, FS_AddElement
<1>5. results.failed + 1 \in 0 .. N
  BY <1>2, <1>4
<1>6. results' \in Results
  BY <1>1, <1>5 DEF BulkInv, ResultInv, Results
<1> QED
  BY <1>1, <1>6 DEF BulkInv, ResultInv

LEMMA TellProgressStep ==
    ASSUME BulkInv, TellProgress
    PROVE  ResultInv'
<1>1. /\ pc = "progress" /\ job = "active" /\ i \in Inputs /\ job' = job /\ recorded' = recorded
      /\ Passed = 1 .. i /\ Passed \cup {i} = 1 .. i /\ i \notin ErrorInputs(results)
  BY JobAssumption DEF TellProgress, BulkInv, LoopInv, ResultInv, Inputs, Passed
<1>2. CASE Failure /\ untold' = untold \cup {i}
  <2>1. untold' = untold \cup (recorded \cap {i})
    BY <1>1, <1>2 DEF BulkInv, ResultInv
  <2> QED
    BY <1>1, <1>2, <2>1, CaughtStep DEF TellProgress
<1>3. CASE UNCHANGED <<results, untold>>
  <2>1. Passed' = Passed /\ pc' = "issue" /\ returnvalue' = returnvalue
    BY <1>1 DEF TellProgress, NextInput, Passed, Inputs
  <2> QED
    BY <1>1, <1>3, <2>1, ResultKept DEF BulkInv
<1> QED
  BY <1>2, <1>3 DEF TellProgress

LEMMA FinishStep ==
    ASSUME BulkInv, Finish
    PROVE  ResultInv'
<1>1. /\ job = "active" /\ pc = "issue" /\ i = N + 1 /\ job' = "completed" /\ pc' = "rest"
      /\ returnvalue' = results /\ UNCHANGED <<results, recorded, untold>>
  BY JobAssumption DEF Finish, thisRun, BulkInv, LoopInv
<1>2. Passed = Inputs
  BY <1>1, JobAssumption DEF Passed, Inputs
<1>3. AccountsFor(returnvalue, Inputs)'
  BY <1>1, <1>2 DEF BulkInv, ResultInv, AccountsFor, ErrorInputs, Results, Inputs
<1> QED
  BY <1>1, <1>3 DEF BulkInv, ResultInv, Results, Inputs

LEMMA ResultStep ==
    ASSUME BulkInv, BulkNext
    PROVE  ResultInv'
<1>1. CASE AddJob
  BY <1>1, ResultKept DEF AddJob, thisRun, BulkInv, LoopInv
<1>2. CASE Reject
  BY <1>2, ResultKept DEF Reject, thisRun, BulkInv, LoopInv
<1>3. CASE IssueHangs
  BY <1>3, ResultKept DEF IssueHangs, Issuing, thisRun, BulkInv, LoopInv, Passed
<1>4. CASE Stall
  BY <1>4, ResultKept DEF Stall, thisRun, BulkInv, LoopInv
<1> QED
  BY <1>1, <1>2, <1>3, <1>4, TakeStep, IssueReturnsStep, IssueThrowsStep,
     BlankThrowsStep, TellProgressStep, FinishStep DEF BulkNext, Process

\* The job's data is what the pipe lets through, and no step changes it.
LEMMA DataInvAlways == BulkSpec => []DataInv
<1>1. BulkInit => DataInv
  BY DEF BulkInit, DataInv
<1>2. ASSUME DataInv, [BulkNext]_bulkVars
      PROVE  DataInv'
  <2>1. CASE AddJob
    BY <2>1 DEF AddJob, DataInv
  <2>2. CASE UNCHANGED data
    BY <1>2, <2>2 DEF data, DataInv
  <2> QED
    BY <1>2, <2>1, <2>2 DEF bulkVars, BulkNext, Process, Take, Reject, IssueReturns, IssueThrows,
       BlankThrows, IssueHangs, TellProgress, Finish, Stall
<1> QED
  BY <1>1, <1>2, PTL DEF BulkSpec

LEMMA BulkInvAlways == BulkSpec => []BulkInv
<1>1. ASSUME BulkInv, UNCHANGED bulkVars
      PROVE  BulkInv'
  <2>1. LoopInv'
    BY <1>1 DEF bulkVars, BulkInv, LoopInv, Passed
  <2>2. ResultInv'
    BY <1>1, ResultKept DEF bulkVars, thisRun, BulkInv, Passed
  <2> QED
    BY <2>1, <2>2 DEF BulkInv
<1>2. BulkInv /\ [BulkNext]_bulkVars => BulkInv'
  BY <1>1, LoopStep, ResultStep DEF BulkInv
<1> QED
  BY <1>2, BulkInvInit, PTL DEF BulkSpec

-----------------------------------------------------------------------------
(* The theorems.                                                           *)

\* Type correctness; the loop's counters stay within the job.
THEOREM BulkTypeCorrect == BulkSpec => []BulkTypeOK
<1>1. ASSUME BulkInv, DataInv
      PROVE  BulkTypeOK
  <2>1. issued \in [Inputs -> 0 .. MaxStalls + 1]
    BY <1>1, JobAssumption DEF BulkInv, LoopInv
  <2> QED
    BY <1>1, <2>1 DEF BulkInv, DataInv, LoopInv, ResultInv, Results, BulkTypeOK
<1> QED
  BY <1>1, BulkInvAlways, DataInvAlways, PTL

\* The result of a completed job accounts for every input, whatever failed: as issued,
\* as an error, or, if the progress could not be told after it was issued, as both.
THEOREM CompletedJobsAccount == BulkSpec => []ResultAccounts
<1>1. BulkInv => ResultAccounts
  BY DEF BulkInv, ResultInv, AccountsFor, ErrorInputs, ResultAccounts
<1> QED
  BY <1>1, BulkInvAlways, PTL

\* Only restarts issue an input again.
THEOREM IssuedOncePerRun == BulkSpec => []OncePerRun
<1>1. BulkInv => OncePerRun
  BY JobAssumption DEF BulkInv, LoopInv, OncePerRun
<1> QED
  BY <1>1, BulkInvAlways, PTL
=============================================================================
