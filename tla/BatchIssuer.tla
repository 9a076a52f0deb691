----------------------------- MODULE BatchIssuer -----------------------------
(***************************************************************************)
(* The batch-issuer contract and the credential-token contract it calls.   *)
(* issue_batch calls issue once per input inside one transaction, so that  *)
(* the whole batch is one step; a batch that fails anywhere leaves nothing. *)
(***************************************************************************)
EXTENDS CredentialToken

CONSTANTS
    MaxBatch,           \* the largest batch accepted (500 in the code)
    NoBatch             \* the latest call was another one, or none

ASSUME MaxBatchAssumption == MaxBatch \in Nat

VARIABLES
    cred_ctrt,          \* instance storage has "cred_ctrt"
    last_batch          \* what the latest call returned, if it was issue_batch's

batchVars == <<cred_ctrt, last_batch>>

\* A BatchCredentialInput, but for its free text.
BatchInput == [graduate : Addresses, expiry : Expiries]

BatchInit == Init /\ cred_ctrt = FALSE /\ last_batch = NoBatch

InitializeBatch ==
    /\ ~cred_ctrt
    /\ cred_ctrt' = TRUE
    /\ UNCHANGED <<last_batch, vars>>

IssueOneStale(done, institution, input) ==                      \* mutant
    LET s == AfterIssue(Storage, institution, input.graduate, input.expiry)
    IN  [storage |-> s, issued_ids |-> Append(done.issued_ids, s.cred_ct)]

\* One turn of the loop of issue_batch: the token's storage, and the ids issued.
IssueOne(done, institution, input) ==
    LET s == AfterIssue(done.storage, institution, input.graduate, input.expiry)
    IN  [storage |-> s, issued_ids |-> Append(done.issued_ids, s.cred_ct)]

\* The loop: what is done after each of its turns.
IssueEach(institution, batch) ==
    LET done[n \in 0 .. Len(batch)] ==
          IF n = 0 THEN [storage |-> Storage, issued_ids |-> <<>>]
          ELSE IssueOne(done[n - 1], institution, batch[n])
    IN  done

\* An empty batch is accepted, and so is a graduate named twice.
IssueBatch(signer, institution, batch) ==
    /\ cred_ctrt
    /\ signer = institution
    /\ Len(batch) <= MaxBatch
    /\ cred_ct + Len(batch) <= MaxCredentials
    /\ LET loop == IssueEach(institution, batch)[Len(batch)]
       IN  /\ cred_ct' = loop.storage.cred_ct
           /\ credentials' = loop.storage.credentials
           /\ graduate_creds' = loop.storage.graduate_creds
           /\ events' = loop.storage.events
           /\ last_batch' = [institution |-> institution, inputs |-> batch,
                             issued_ids |-> loop.issued_ids]
    /\ UNCHANGED <<initialized, ledger, cred_ctrt>>

\* Batches one longer than accepted are submitted too.
Batches ==
    (UNION {[1 .. n -> BatchInput] : n \in 0 .. MaxBatch})
    \cup {[i \in 1 .. MaxBatch + 1 |-> input] : input \in BatchInput}

BatchNext ==
    \/ InitializeBatch
    \/ /\ initialized
       /\ \E signer, institution \in Addresses, batch \in Batches :
             IssueBatch(signer, institution, batch)
    \/ Next /\ last_batch' = NoBatch /\ UNCHANGED cred_ctrt

BatchSpec == BatchInit /\ [][BatchNext]_<<vars, batchVars>>

-----------------------------------------------------------------------------
(* Properties.                                                             *)

\* What issue_batch returned names the credentials of its inputs, in order and
\* without a gap: nobody else's issue call fell in between, and none was left
\* out or issued twice.
BatchIsContiguous ==
    last_batch # NoBatch =>
      LET ids == last_batch.issued_ids
      IN  /\ Len(ids) = Len(last_batch.inputs)
          /\ \A i \in DOMAIN ids :
               /\ ids[i] = ids[1] + i - 1
               /\ ids[i] \in Issued
               /\ credentials[ids[i]].institution = last_batch.institution
               /\ credentials[ids[i]].graduate = last_batch.inputs[i].graduate
               /\ credentials[ids[i]].expiry_date_unix = last_batch.inputs[i].expiry
               /\ credentials[ids[i]].issued_ledger = credentials[ids[1]].issued_ledger
=============================================================================
