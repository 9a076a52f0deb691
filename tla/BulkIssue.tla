------------------------------ MODULE BulkIssue ------------------------------
(***************************************************************************)
(* Bulk issuance: bulkIssue puts a job in the queue, and handleBulkIssue   *)
(* of the processor issues its inputs one after the other.  What one       *)
(* issueCredential can do is taken from Issuance: return with the          *)
(* credential on chain and in the index; or throw, with nothing done, or   *)
(* with the credential on chain all the same; or never return, when the    *)
(* transaction is lost.  The queue (Bull) gives a job whose process died   *)
(* to the next process, from its beginning.                                *)
(*                                                                         *)
(* BulkIssueDto declares no validation, so the pipe of main.ts refuses     *)
(* every body that has credentials; one without them passes, and its job   *)
(* is queued with none.                                                    *)
(***************************************************************************)
EXTENDS Naturals, Sequences, FiniteSets

CONSTANTS
    N,              \* the inputs of the job: 1 .. N
    MaxStalls,      \* how often the queue restarts a stalled job (Bull: 1)
    Decorated       \* the DTO declares its credentials, so that the pipe passes
                    \* them on; FALSE as the code is

ASSUME JobAssumption == N \in Nat /\ MaxStalls \in Nat /\ Decorated \in BOOLEAN

VARIABLES
    job,            \* the queue's state of the job
    given,          \* the job has credentials
    blank,          \* ... of which these are null
    pc,             \* where handleBulkIssue is in its loop
    i,              \* the loop's index
    results,        \* handleBulkIssue's local result
    returnvalue,    \* what the queue keeps of a completed job
    progress,       \* what the queue knows of the progress: inputs passed
    runs,           \* history: how often the job was begun
    issued,         \* history: credentials on chain, by input
    recorded,       \* history: inputs issued and indexed in this run
    untold          \* ... of which the progress could not be told

data == <<given, blank>>
thisRun == <<recorded, untold>>
bulkVars == <<job, data, pc, i, results, returnvalue, progress, runs, issued, thisRun>>

Inputs == 1 .. N

NoResults == [success |-> 0, failed |-> 0, errors |-> <<>>]

BulkInit ==
    /\ job = "none"
    /\ given = FALSE /\ blank = {}
    /\ pc = "rest"
    /\ i = 1
    /\ results = NoResults
    /\ returnvalue = NoResults
    /\ progress = 0
    /\ runs = 0
    /\ issued = [k \in Inputs |-> 0]
    /\ recorded = {} /\ untold = {}

\* bulkIssue, with a body that the pipe passes on.  (Of one without credentials it
\* throws, after the job is queued.)
AddJob ==
    /\ job = "none"
    /\ job' = "waiting"
    /\ given' \in {FALSE, Decorated}
    /\ blank' \in IF given' THEN SUBSET Inputs ELSE {{}}
    /\ UNCHANGED <<pc, i, results, returnvalue, progress, runs, issued, thisRun>>

TakeKeepingResults ==                                           \* mutant
    /\ job = "waiting" /\ given
    /\ job' = "active"
    /\ pc' = "issue"
    /\ i' = 1
    /\ runs' = runs + 1
    /\ recorded' = {} /\ untold' = {}
    /\ UNCHANGED <<data, results, returnvalue, progress, issued>>

\* handleBulkIssue begins.
Take ==
    /\ job = "waiting" /\ given
    /\ job' = "active"
    /\ pc' = "issue"
    /\ i' = 1
    /\ results' = NoResults
    /\ runs' = runs + 1
    /\ recorded' = {} /\ untold' = {}
    /\ UNCHANGED <<data, returnvalue, progress, issued>>

\* The institution cannot be loaded, or there is no list to loop over: the job's
\* only attempt has failed.
Reject ==
    /\ job = "waiting"
    /\ job' = "failed"
    /\ runs' = runs + 1
    /\ UNCHANGED <<data, pc, i, results, returnvalue, progress, issued, thisRun>>

\* issueCredential has an input to work on.
Issuing == pc = "issue" /\ i \in Inputs \ blank

\* issueCredential returns: success is counted before the progress is told.
IssueReturns ==
    /\ Issuing
    /\ issued' = [issued EXCEPT ![i] = @ + 1]
    /\ recorded' = recorded \cup {i}
    /\ results' = [results EXCEPT !.success = @ + 1]
    /\ pc' = "progress"
    /\ UNCHANGED <<job, data, i, returnvalue, progress, runs, untold>>

NextInput == pc' = "issue" /\ i' = i + 1

FailureUncounted ==                                             \* mutant
    results' = [results EXCEPT !.errors = Append(@, i)]

\* The catch of the loop.
Failure ==
    results' = [results EXCEPT !.failed = @ + 1, !.errors = Append(@, i)]

\* issueCredential throws, with or without its credential on chain.
IssueThrows ==
    /\ Issuing
    /\ issued' \in {issued, [issued EXCEPT ![i] = @ + 1]}
    /\ Failure
    /\ NextInput
    /\ UNCHANGED <<job, data, returnvalue, progress, runs, thisRun>>

\* Of a null input issueCredential throws at once, and so does the catch, which
\* reads its studentId: the job has failed, with what it has issued.
BlankThrows ==
    /\ pc = "issue" /\ i \in Inputs \cap blank
    /\ results' = [results EXCEPT !.failed = @ + 1]
    /\ job' = "failed"
    /\ pc' = "rest"
    /\ UNCHANGED <<data, i, returnvalue, progress, runs, issued, thisRun>>

\* issueCredential polls for a lost transaction for ever, and the loop waits.
IssueHangs ==
    /\ Issuing
    /\ pc' = "hung"
    /\ UNCHANGED <<job, data, i, results, returnvalue, progress, runs, issued, thisRun>>

TellProgressAgain ==                                            \* mutant
    /\ pc = "progress"
    /\ \/ progress' = i /\ UNCHANGED <<results, untold>> /\ NextInput
       \/ Failure /\ untold' = untold \cup {i} /\ pc' = "issue" /\ UNCHANGED <<progress, i>>
    /\ UNCHANGED <<job, data, returnvalue, runs, issued, recorded>>

\* job.progress, which may throw: the input is then counted twice.
TellProgress ==
    /\ pc = "progress"
    /\ \/ progress' = i /\ UNCHANGED <<results, untold>>
       \/ Failure /\ untold' = untold \cup {i} /\ UNCHANGED progress
    /\ NextInput
    /\ UNCHANGED <<job, data, returnvalue, runs, issued, recorded>>

FinishIfClean ==                                                \* mutant
    /\ pc = "issue" /\ i > N /\ results.failed = 0
    /\ job' = "completed"
    /\ pc' = "rest"
    /\ returnvalue' = results
    /\ UNCHANGED <<data, i, results, progress, runs, issued, thisRun>>

\* The report is logged and the results returned.
Finish ==
    /\ pc = "issue" /\ i > N
    /\ job' = "completed"
    /\ pc' = "rest"
    /\ returnvalue' = results
    /\ UNCHANGED <<data, i, results, progress, runs, issued, thisRun>>

\* The process dies in the middle of the job, perhaps after the issue it was
\* at reached the chain; the queue restarts the job or gives it up.
Stall ==
    /\ job = "active"
    /\ IF Issuing
       THEN issued' \in {issued, [issued EXCEPT ![i] = @ + 1]}
       ELSE UNCHANGED issued
    /\ job' = IF runs <= MaxStalls THEN "waiting" ELSE "failed"
    /\ pc' = "rest"
    /\ UNCHANGED <<data, i, results, returnvalue, progress, runs, thisRun>>

Process == \/ Take \/ Reject
           \/ IssueReturns \/ IssueThrows \/ BlankThrows \/ IssueHangs \/ TellProgress
           \/ Finish

BulkNext == AddJob \/ Process \/ Stall

\* The processor goes on while its process lives.
BulkSpec == BulkInit /\ [][BulkNext]_bulkVars /\ WF_bulkVars(Process)

-----------------------------------------------------------------------------
(* Properties.                                                             *)

BulkTypeOK ==
    /\ job \in {"none", "waiting", "active", "completed", "failed"}
    /\ pc \in {"rest", "issue", "progress", "hung"}
    /\ i \in 1 .. N + 1
    /\ {results.success, results.failed} \subseteq 0 .. N
    /\ results.errors \in Seq(Inputs)
    /\ progress \in 0 .. N
    /\ runs \in 0 .. MaxStalls + 1
    /\ issued \in [Inputs -> 0 .. MaxStalls + 1]
    /\ recorded \subseteq Inputs /\ untold \subseteq Inputs
    /\ given \in {FALSE, Decorated} /\ blank \subseteq Inputs

\* The result of a completed job accounts for every input: success counts the
\* ones recorded in the run that completed, all others are in errors, each input
\* is in errors once at most (with failed counting the errors), and of the
\* recorded ones only those are in errors too whose progress could not be told.
ResultAccounts ==
    job = "completed" =>
      LET inErrors == {returnvalue.errors[k] : k \in DOMAIN returnvalue.errors}
      IN  /\ returnvalue.success = Cardinality(recorded)
          /\ returnvalue.failed = Len(returnvalue.errors)
          /\ Cardinality(inErrors) = Len(returnvalue.errors)
          /\ recorded \cup inErrors = Inputs
          /\ recorded \cap inErrors = untold

\* An input is issued once per run at most: duplicates come only from a job
\* that the queue restarted, and the restarts are limited.
OncePerRun == \A k \in Inputs : issued[k] <= runs /\ runs <= MaxStalls + 1

\* A job that is queued completes or fails, with or without credentials and
\* whatever is null among them, unless the transaction of an input is lost.
JobEnds == (job = "waiting") ~> (job \in {"completed", "failed"} \/ pc = "hung")
=============================================================================
