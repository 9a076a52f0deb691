# CertChain in TLA+

CertChain Africa issues academic credentials as records of Soroban contracts on Stellar, and keeps a
NestJS backend beside them: institutions issue and revoke through the backend, the public verifies
through it, and an Angular frontend is the face of both. This directory models the contracts, the parts of the
backend that decide what anybody is told about a credential, and the frontend's logins and pages, model-checks them
with TLC, and proves with TLAPS, for every size, what the runs check on small ones.

## The system

| Component | Source (under `src/`) | State | Operations |
|---|---|---|---|
| credential-token | `contracts/credential-token/src/lib.rs` | admin, counter `cred_ct`, credentials by id, id lists by graduate, events | `initialize`, `issue`, `verify`, `revoke`, getters, `transfer` (always panics) |
| institution-registry | `contracts/institution-registry/src/lib.rs` | admin, counter, records by id, id by address | `initialize`, `register_institution`, `suspend_institution`, `increment_issued`, `is_active`, getters |
| revocation-registry | `contracts/revocation-registry/src/lib.rs` | credential contract, entries by credential id | `initialize`, `revoke`, `is_revoked`, `batch_check` |
| batch-issuer | `contracts/batch-issuer/src/lib.rs` | credential contract | `initialize`, `issue_batch` (calls `issue` up to 500 times) |
| verification service | `apps/backend/src/modules/verification` | in-memory cache `verify:<id>` | `verifyById`, `verifyBySlug`, `bulkVerify` |
| credentials service | `apps/backend/src/modules/credentials` | table `credentials`, queue `credentials` | `issueCredential`, `revokeCredential`, `bulkIssue`, listings |
| bulk issue processor | `apps/backend/src/modules/credentials/bulk-issue.processor.ts` | locals of `handleBulkIssue`, the queue's job | `handleBulkIssue` |
| Soroban service | `apps/backend/src/stellar/soroban.service.ts` | none of its own | `invokeContract` (build, simulate, sign, submit, poll), `queryContract` (simulate) |
| IPFS, notifications | `apps/backend/src/ipfs`, `.../notifications` | none | `uploadJson`, `fetchJson`; mails that never fail their caller |
| authentication, profiles | `apps/backend/src/modules/{auth,institutions,graduates}`, `stellar.service.ts` | accounts, cached challenges | challenge, login, profile updates |
| frontend | `apps/frontend/src/app` | token and role in the browser's storage; signals of the open page | login, logout, routes and guard; verify, dashboard, issue, manage and wallet pages |
| deployment | `docker`, `.github` | none | configuration |

How they interact. An institution's request enters `issueCredential`, which pins metadata on IPFS,
sends an `issue` transaction signed with the institution's secret, polls until the network has
answered, and inserts a row in PostgreSQL; `revokeCredential` reads the row, sends a `revoke` and
updates the row. A bulk request that the validation pipe (`main.ts`) lets through puts a job in a Bull queue, and the processor calls `issueCredential`
for its inputs one after the other. A public request enters `verifyById`, which answers from the cache or
simulates `verify`, reads IPFS and the institution registry, and caches what is valid. A page of the frontend
sends its requests with the token in the browser's storage, which `loginWithFreighter` put there after wallet and
backend had answered. batch-issuer calls credential-token; no other contract calls another.

What is hard:

* everything in the backend is split by awaits: calls interleave with each other, with the network
  and with other users of the contract, and any await may throw or the process die there;
* the chain and the database are written one after the other without a transaction across them;
* an answer travels through a simulation, two further reads and a cache while the chain goes on;
* the network may take a transaction and lose the answer, or answer and never apply it; two equal revocations
  may be one transaction;
* the frontend's requests are answered in any order or not at all, pages are left while they wait, and the session
  may change under an open page from another tab;
* inside the contracts, records are kept in several storages, and expiry is only recorded when
  somebody looks.

`PROJECT.json` lists each hazard at its line with the properties aimed at it.

## Modules

| Module | Models | Composes |
|---|---|---|
| `CredentialLifecycle` | abstract: what the token contract promises | |
| `CredentialService` | abstract: what the backend promises whoever asks it to issue or revoke | extends `CredentialLifecycle` as the chain |
| `CredentialToken` | credential-token | implements `CredentialLifecycle` (`Lifecycle`, an INSTANCE) |
| `BatchIssuer` | batch-issuer | extends `CredentialToken` |
| `InstitutionRegistry`, `RevocationRegistry` | the two registries | |
| `CertChain` | the deployed contracts together | extends both registries, with an instance of `CredentialToken` |
| `Verification` | `verifyById`, `bulkVerify`, the cache, `queryContract` | extends `CredentialLifecycle` as the chain |
| `Issuance` | `issueCredential`, `revokeCredential`, `invokeContract`, accounts, network, table | extends `CredentialLifecycle` as the chain; implements `CredentialService` (`Service`, an INSTANCE) |
| `Accounts` | the backend's part of a login, the account tables, profile updates | |
| `Browser` | `loginWithFreighter`, the wallet, the browser's storage, logout | extends `Accounts` |
| `Portal` | the frontend's routes and pages, and the requests they make | takes from `Issuance` what an issue and a revocation can do |
| `BulkIssue` | `bulkIssue`, `handleBulkIssue`, the queue | takes from `Issuance` what one `issueCredential` can do |
| `CredentialTokenProofs`, `BatchIssuerProofs`, `CertChainProofs`, `VerificationProofs`, `IssuanceProofs`, `BrowserProofs`, `PortalProofs`, `BulkIssueProofs` | the theorems about the module they name | extend it |
| `MC...` | instances for TLC, with symmetry sets | |

`Verification` and `Issuance` stand on the abstract life cycle and not on the contract's storage. That is
sound because `CredentialToken` implements it (run `token`, theorem `ContractImplementsLifecycle`).

### State and actions

*CredentialToken.* One variable per storage item: `initialized` (instance `admin`), `cred_ct`,
`credentials`, `graduate_creds`; `events` holds the ISSUED and REVOKED events with the ledger they
were published in (the VERIFIED event carries nothing new); `ledger` is `env.ledger()`, its sequence
number and its time advancing together. One action per call: `Initialize`, `Issue`, `Verify`, `Revoke`.
A contract call is atomic, and a call that panics is rolled back and is no step, so the guards are
the code's `require_auth` (`signer = institution`), `expect` and `assert`. `AfterIssue` is the
effect of `issue` on its storage as a value, so that `BatchIssuer` can repeat it inside one step.
`Spec` is the contract deployed as the documentation says, `initialize` first; `AnyOrderSpec` allows
any order.

*InstitutionRegistry, RevocationRegistry.* One variable per storage item and one action per call. An absent
entry is 0. The admin and credential-contract arguments are as the code treats them:
`register_institution` ignores its `admin` argument and asks the stored one to sign;
the revocation registry asks nobody to sign when the caller argument is the credential contract.

*BatchIssuer.* `IssueBatch` is one step; `IssueEach` is the loop, as the function from a number of turns to what is done
after them, and `IssueOne` a turn. `last_batch` is the arguments and
the returned ids of the latest call, if that was a batch. To the life cycle a batch is one step too (`MintBatch`).

*Verification.* `session[s].pc` is where a call of `verifyById` is: `query` (before the simulated
`verify`), `collect` (before the IPFS and registry reads), `reply` (before the result is
cached), `done` or `failed`. `asOf` is when the contract was asked, `at` when the answer left, `lost` the history of when
a credential stopped being genuine. `Lookup` includes the cache read; `Reply` the cache write. `bulk` is a bulk
request: its sessions start at `called`, it is answered when all of them are `done` and rejected when one has
`failed`, in which case the others run on by themselves. The constant `Codec` says how contract values are built and read:
`"committed"` is by the SDK, as in the source, where `Collect` always fails since `get_institution` is asked with a string for
its `Address`; `"mocked"` is by the plain values that `verification.service.spec.ts` has in place of the SDK.

*Issuance.* `call[c].pc` walks through the awaits: `pin`, `find`, `account`, `simulate`, `send`, `poll`,
`save`, `notify`. `tx[c]` is what became of the call's transaction and, as `hash`, the call that was the first to build it:
two equal revocations with one sequence number, built in the same second, are one transaction (`Twins`), of which the
second is answered DUPLICATE; both calls then poll it and save the row. (Two issues always differ: their metadata hold the
millisecond.) `tx` is written for all that share the hash (`With`, `Sharing`). `account_seq` is the network's sequence number
of each institution's account, `rows` the table by `stellarCredentialId`. `Throw` is any await that rejects, `Crash`
the death of the process. Around it the network, modelled from how the code uses it: `Apply`
takes a transaction with the account's next sequence number; an issue whose simulated footprint is not the
id now due fails; `Drop` discards; `OtherUse` is everybody else. Expiry plays no part here
(`Expiries = {0}`): `revoke` looks at the recorded status only.

*CredentialService.* The same seen from outside. `request[c]` is what was asked, `effect[c]` the id it issued or revoked,
`index` the table and `answered` who was answered. A request is given up (`GiveUp`) when its call threw, or died with
the process, before it had any effect; one whose transaction is still pooled remains, for it may yet take effect. `RevokeFor` serves
several equal revocations at once, and `Record` records an effect a second time for those only.

*BulkIssue.* `pc`, `i` and `results` are the loop of `handleBulkIssue`; `job` is the queue's state.
`IssueReturns`, `IssueThrows` and `IssueHangs` are the outcomes `Issuance` has for one call. `Stall` is
a process that dies: the queue hands the job out again once (`MaxStalls`) and gives up then. `BulkIssueDto` declares no
validation, and the pipe refuses fields that are not declared: as the code is, a body with `credentials` is answered 400,
and one without them is queued, its job to fail when the loop asks for the length of its list. `Decorated` says whether
the DTO declares its list; FALSE is the code, and the run, which is about jobs that have one, sets TRUE. `blank` are
inputs that are null: of these the `catch` throws, too, and ends the job (`BlankThrows`). `untold` are the inputs whose
progress could not be told.

*Accounts.* `accounts` are the rows of both tables, the role naming
the table; `login[l].pc` is `find` before the look-up of `findOrCreateByPublicKey` and `create` before its
insert; `tokens` are the JWTs handed out; `PutMe` is the route with its guard, `UpdateProfile` the service behind it, which
stores whatever columns the body names, the row's key and id among them. `signed` are the keys that have signed a transaction:
`verifyChallengeTransaction` looks for a signature of the key and for nothing else, so that `Verify` logs in with any of these
transactions, from anywhere, as often as it is presented, and in whatever role, which is not part of what is signed. The tables' constraints are part of the actions: the key is unique, and
an institution's name, country, accreditation and type have no default, so that the insert a first login makes for an
institution is always refused. `Admit` is the operators' entry, which no code of the repository makes.

*Browser.* `flow[l].pc` is the await `loginWithFreighter` is at: `challenge`, `sign`, `verify`; the key is the wallet's
at `connect`, the signer the wallet's account at `signTransaction`. `Store` puts the pair in `storage`; `Abandon` is a user
who declines, an answer that is lost, or a reload, while the backend's `login[l]` runs on. A second attempt beside the
first is somebody who left the login page and came back: the component that knew of the first is gone, its promise is not.

*Portal.* `page` is the component in the outlet, `shown`, `loading` and `visit` its signals; a new component starts
them afresh (`Navigate`). `request[r]` is one HTTP request: `sent`, `applied` (the chain has it, the row is not
written), `ok` or `failed` (answered, the callback has not run); `live` says that the page that made it is still open.
`SwitchUser` is any login or logout in any tab. `AuthGuard` only asks whether there is a token, so that every role gets
into every page, and the backend refuses (`Fail`). `told`, `unreported` and `excused` are histories of the open page. An error
and an unhandled error are the same `ReceiveError`.

## Runs

| Run | Bounds | Distinct states | Shows |
|---|---|---|---|
| `token` | 2 addresses, 3 ids, expiry never or 1, ledgers to 2, 1 verification per credential, batches of 0 to 2 (3 rejected) | 732,938 | storages and events agree; dead credentials stay dead; a batch returns a gap-free run of ids; the life cycle is implemented |
| `contracts` | 2 addresses, 3 records, counts to 1; 2 revocable ids, ledgers to 3; 1 credential | 536,776 | the index of an address follows its newest record, older ones are frozen |
| `browser` | 2 keys, 2 attempts at a time, 2 ids of accounts | 640,554 | tokens only for keys that signed something; token and role one pair; the tokens of a graduate's key name its one account for good; no login makes an institution |
| `portal` | 2 institutions, 2 ids, 2 requests at a time | 1,393,248 | reports are true; a reported revocation is not left shown as VALID; a form has one request under way and, before an error, one unreported credential |
| `verification` | `Codec` mocked, 2 sessions, 1 id, TTL 2, fetch 1, bulk 1, clock to 6 | 1,737,146 | answers were true; staleness is at most TTL and one fetch, and in a bulk answer the wait for the slowest id |
| `issuance` | 3 calls, 1 institution served, 2 ids | 1,583,866 | the table never runs ahead of the chain; results are one's own; done is done; the service is implemented |
| `issuance_liveness` | 2 calls, otherwise as `issuance` | 169,664 | every call ends unless its transaction is lost |
| `bulk` | `Decorated`, 3 inputs, 1 restart | 4,161 | every input accounted for, as both issued and an error only when its progress could not be told; issued once per run; the job ends |

The bounds are chosen so that every case of the code occurs. `token`: three ids are a batch after, or
before, a single issue, in one graduate's list or two; a batch of three is one too many; ledgers 1 and 2 around the
date 1 give at and after, so that expiry is recorded or not before a revocation. `contracts`: three records under two addresses have an address
registered twice beside another, and three times. `verification`: all sessions of
one id are alike, ids do not interact, and two sessions are the fetch that is
overtaken and the reader of its cache entry, or two ids of a bulk request, or what a rejected one leaves running
beside the next; a clock to 6 lets the bounds of both staleness properties be met exactly. `issuance`: three calls on one account are
two that compete for a sequence number and one beside them, or a revoke of what the first issued that competes, or shares a
transaction, with another revoke. `browser`: two attempts cross each other and race for an account, and two ids are those of
two graduates, of a key in both roles, or of an institution that renames its row. `portal`: two requests overtake each other, one of them of a page
that was left; two ids are two revocations at once, two institutions the other tab's. Symmetry is used where the members of a set are interchangeable:
addresses in `token`, sessions, calls, logins, keys, and the ids, institutions and requests of `portal`; never in a run with a liveness property. No run checks for deadlock:
bounded counters end the contracts' behaviours, and calls and jobs end by themselves.

Four runs exhibit a difference between the code and what the repository says of it:

| Run | What is said | What the code does |
|---|---|---|
| `token_any_order` | a unique, immutable record | `issue` works before `initialize`, which then resets the counter: ids are reused |
| `chain_suspension` | deaccreditation halts issuance | `issue` asks no registry |
| `verification_codec` | anybody verifies a credential by visiting its page | no verification ever succeeds: the registry's `get_institution(Address)` is asked with a string (`verification.service.ts:62`), and its simulation fails |
| `issuance_index` | the database is an index of the chain | a crash or a failed save between the two is never repaired |

`GenuineIsAnswered`, which `verification_codec` refutes, is fair to the service: it is about a credential of a registered
institution that stays genuine and that somebody keeps asking for, with RPC server and IPFS answering in the end. With
`Codec = "mocked"` in the same cfg TLC finds it satisfied.

More differences need no run, or are what a model allows and no property denies. `issue` does not call `increment_issued`, which README.md:661 shows it calling.
A challenge is not single-use, as README.md:1617 says: the one kept in the cache (`auth.service.ts:21`) is never read, and any transaction signed by the key
logs in (`Verify` in `Accounts`). An institution may rewrite the id of its row (`institutions.service.ts:35`), after which its tokens name no
account. `POST /credentials/bulk` (README.md:1399) refuses every list of credentials (`main.ts:10`, `credentials.service.ts:27`), and the
processor issues them one transaction each, where README.md:243 says "in one batch transaction"; a job that stalls issues again what it had issued,
and so may a form that is submitted again after an error.
The TTL of README.md:1620 starts when an answer is cached, two awaits after the contract was asked; `StalenessBounded` says what that
comes to.
`revoke` does not call the revocation registry, though `revocation-registry/src/lib.rs:31` says that "in production the
credential contract calls this". And `findById` loads an institution without its `signerSecret`, a column marked `select: false` (`institution.entity.ts:53`), so
that `Keypair.fromSecret` (`soroban.service.ts:50`) throws in every issue and revoke of the service. `Issuance`
has that throw among its behaviours (`Throw` at `account`), and also what happens once the secret is loaded. The traces of
`issuance_index`, and whatever `Portal` and `BulkIssue` issue, are of the latter.
In the frontend: the routes carry `AuthGuard` only, where README.md:1144 and :1149 add `RoleGuard`; the wallet page asks
`/graduates/me/credentials` (README.md:1406), a route no controller has, and is always empty; the verify page says of
every error that no such credential exists on the blockchain (`verify.component.ts:142`); and the address and the
result of that page differ after a jump in the tab's history, `Jump` in `Portal`, as the id is read once
(`verify.component.ts:270`).

### Fairness

`IssuanceFairSpec` assumes weak fairness of each call's own steps (Node runs a continuation whose await is
over, and requests to IPFS, RPC server and database are answered or fail) and of
`Apply \/ Drop` for each pooled transaction (a transaction is valid for 30 seconds, `setTimeout(30)`; then it
is in a ledger or gone). Nothing is assumed of which of the two happens, and `Begin`, `Throw`, `Crash` and `OtherUse` have no fairness.
`BulkSpec` assumes weak fairness of the processor's steps; not of `Stall`. A lost transaction is excluded in
the conclusions `CallsEnd` and `JobEnds` and not in the assumptions: it really is polled for ever.

`StalenessBounded` rests on a bound `MaxFetch` on the time a request is in flight, which is an
assumption about RPC server and IPFS node (`Tick` waits for requests that old), and `BulkAnswersHold` on a like
bound `MaxBulk` for a bulk request: no code sets a timeout. Without it there is no bound at all.

## Proofs

All safety properties of the passing runs, the invariants as well as the action properties and the two refinements, are
theorems. Each `...Proofs` module proves properties of the runs for every value of the constants: any number of
addresses, ids, sessions, calls, attempts and inputs, any bounds. The
assumptions are the named ones of the modules, and TLC evaluates them in the runs. They say that bounds and dates are naturals, that a
model value standing for "nothing" is none of the things it is told from (`AbsentAssumption`,
`NoRowAssumption`, `UsersAssumption`), and in `Issuance` that credentials may be without expiry.

| Theorem | Property | of |
|---|---|---|
| `TypeCorrect` | `TypeOK` | `CredentialToken` |
| `GraduateListsAreExact` | `GraduateIndexExact` | |
| `StatusAndDatesAgree` | `StatusDated` | |
| `EventsAreTheLedger` | `EventsTellTheLedger` | |
| `GenuineOnlyOnce` | `NeverGenuineAgain` | |
| `ContractImplementsLifecycle` | `ImplementsLifecycle` | |
| `BatchTypeCorrect` | `TypeOK` | `BatchIssuer` |
| `BatchListsAreExact` | `GraduateIndexExact` | |
| `BatchStatusAndDatesAgree` | `StatusDated` | |
| `BatchEventsAreTheLedger` | `EventsTellTheLedger` | |
| `BatchGenuineOnlyOnce` | `NeverGenuineAgain` | |
| `BatchImplementsLifecycle` | `ImplementsLifecycle` | |
| `BatchesAreContiguous` | `BatchIsContiguous` | |
| `RegistryTypeCorrect` | `RegistryTypeOK` | `CertChain` |
| `IndexFollowsNewestRecord` | `IndexIsNewest` | |
| `RecordsStayForLife` | `RecordsAreForLife` | |
| `ChainKeepsToken` | four of `CredentialToken`, on the shared ledger | |
| `VerificationTypeCorrect` | `VerificationTypeOK` | `Verification` |
| `AnswersAreTrue` | `AnswersWereTrue` | |
| `StalenessIsBounded` | `StalenessBounded` | |
| `BulkAnswersAlwaysHold` | `BulkAnswersHold` | |
| `IssuanceTypeCorrect` | `IssuanceTypeOK` | `Issuance` |
| `TableFollowsChain` | `RowsFollowChain` | |
| `CallsGetTheirOwn` | `ResultsAreOwn` | |
| `ReturnedIsDone` | `DoneIsDone` | |
| `IssuanceImplementsService` | `ImplementsService` | |
| `BrowserTypeCorrect` | `BrowserTypeOK` | `Browser` |
| `StorageHoldsOnePair` | `StorageIsOnePair` | |
| `TokensNeedSignatures` | `TokensAreSigned` | |
| `GraduatesHaveOneAccount` | `GraduatesKeepTheirAccount` | |
| `OnlyAdmittedInstitutions` | `InstitutionsAreAdmitted` | |
| `PortalTypeCorrect` | `PortalTypeOK` | `Portal` |
| `ReportsTellTheTruth` | `ReportsAreTrue` | |
| `RevocationsGetShown` | `RevocationsShown` | |
| `FormsIssueOnce` | `IssuedOnce` | |
| `BulkTypeCorrect` | `BulkTypeOK` | `BulkIssue` |
| `CompletedJobsAccount` | `ResultAccounts` | |
| `IssuedOncePerRun` | `OncePerRun` | |

### The arguments

*CredentialToken.* Type correctness is inductive alone. The lists are not: `Initialize` sets the counter to 0,
which keeps "the credentials are numbered 1 to `cred_ct`" only if there are none yet. So the invariant
proved is `IndexInv`: nothing has been issued before `initialize` (what `Spec` adds to the code), and
`GraduateIndexExact`; the run `token_any_order` shows what happens without the first part. An issue
then takes a fresh id, larger than all in any list, which keeps lists increasing and exact.
`StatusDated` is inductive with `TypeOK`: dates only grow old. `EventsTellTheLedger` needs that an issued id is fresh (an
overwritten credential would leave an orphaned event), hence `IndexInv`. `NeverGenuineAgain` follows step by step:
`verify` and `revoke` write no Valid over another status, time only moves on, and `issue` writes to no
issued id, again by `IndexInv`. The refinement maps a credential to its summary; `issue` is `Mint` because the
counter is the least free id, `verify` is `Expire` or a stutter, `revoke` is `Revoke`.

*BatchIssuer.* The run `token` checks the properties of the token contract under `BatchSpec`, and they are proved of it,
too: they do not depend on credentials being issued one by one. The loop is a recursive function over the turns,
and what it computes is an induction over the batch. The prover cannot instantiate the library's induction theorems, but it can
use that every nonempty set of naturals has a least element (`LeastNat`): a set of turns that go wrong would have a
first one. `LoopExists` and `LoopTurns` establish the recursion equation in this way, and `AllTurns` that every turn keeps
`AfterTurns`, the loop's invariant: the ids so far are the next ones in order, each stored with the institution, graduate and date
of its input, nothing else was written, each list holds exactly, in order, the ids that are then its graduate's, and the events are the old ones
and one for each. With that (`BatchEffect`) a batch keeps each property as a single issue does, and is `MintBatch`.

*CertChain.* `RegistryInv` adds to the type and the index that nothing is registered while there is no admin (`initialize` resets the
counter, as in the token contract) and that no record has the status Deaccredited, which the type has and no function writes.
A step of another contract leaves the registries alone (`ChainStepOfRegistry`), and so do the two registries each other.
`ChainKeepsToken` shows that on the chain the token contract runs as if alone
(`ChainRunsToken`), and so takes over what `CredentialTokenProofs` proves, through an INSTANCE of that module whose
assumptions follow from those of `CertChain` (`TokenAssumptionsHold`).

*Verification.* `VerificationInv` relates three clocks. `ChainInv`: what was noted as lost is not genuine any more. `CacheInv` and `SessionInv`: whatever status is held, in the cache or by a session at any await, was that of the chain at
its `asOf` (`Told`), and `asOf` is as old as the place allows: at most `MaxFetch` for a session under way and for a cache entry when it is set. What was told of a moment stays so, as `lost` is set once (`ToldStays`); a cached answer passes on
the `asOf` of the entry, hence TTL and one fetch. `BulkInv` adds when the parts of a request began.

*Issuance.* `CallInv` says for each call what its `pc` implies of its transaction, of the row and of the chain. What carries
the proof is `MintedApart`: two calls whose issues succeeded have different ids, since an id that is on the chain is not
due again. So the row of an issue that has not saved yet is still empty, and saving overwrites no other call's. `TwinsAlike`: calls
whose transactions have one hash are equal revocations and their transactions have one status, so that what the network does to
one it does to all (`SharingAlike`, `JoinAlike`). The chain and
the table only grow beneath a call that does not move (`UnmovedCall`), which makes every action of the others one lemma.

The refinement of `CredentialService` maps a call's request to its arguments, its effect to the id of its successful transaction and
the answered requests to the calls that are `done`. Most steps are `Quiet`: no transaction comes to succeed, and each call
moves on with the same request or is thrown; that is `GiveUp`, possibly of nobody. `Apply` is `IssueFor` or `RevokeFor`,
`SaveRow` is `Record`, `Notify` is `Answer`. `SaveRow` needs more than `IssuanceInv` says (`RecordInv`): that a revocation
about to be saved finds its row VALID unless it shares its transaction. Two calls may both have found that row, but
two that have revoked the credential share the transaction that did (`RevokedApart`), and until a call that shares with
nobody has saved, the row is as it was (`Unrecorded`).

*Browser.* `BrowserInv` has four parts. `TokensNamed`: a graduate's token carries the id of a row with its key, which
stays because no action removes or rewrites a row of a graduate; an institution's token carries an id that an admitted institution has or
had. With the tables' unique keys the graduate's row is the only one. `FlowFollowsLogin` relates the two halves of an attempt: the backend
works for a login only of a key that has signed, and while the browser waits for `verify` both are about the same
role. So a token handed out is of a key that signed, and what is stored is a pair.

*Portal.* `PortalInv` has five parts, each kept by every action (`ShapePart` is the types). `DonePart`: what a request that was `applied` or
answered has done to chain and table; an issue whose row is not written yet has no row and shares its id with no other
(`IssuesApart`), so that writing it never overwrites a revocation that was reported. `LivePart`: the live requests are of
the open page, and at most one of them is an issue, since `loading` is set while there is one. `ReloadPart`: unless excused
there is one live list at a time, and if it has been answered, then after the row of everything `told` was written.
`IssuedPart`: each id in `unreported` is that of a live issue. `Navigate` is the one step that changes all requests (`Left`).

*BulkIssue.* `AccountsFor` is `ResultAccounts` for the inputs passed so far: counts and errors add up to them, no
input is in the errors twice, and the recorded ones among the errors are `untold`. Each step passes one input (`SuccessAccounts`, `FailureAccounts`), and a restart begins again with none. `LoopInv`
bounds `issued` by the number of starts.

### Model-checked only

`CallsEnd` and `JobEnds`: liveness under fairness is out of the prover's reach. The four runs that exhibit a difference are
counterexamples, which nothing is to be proved of.

## Abstractions

* Free text, hashes, amounts and the wording of errors are left out: nothing branches on them.
* Contract calls are atomic and take effect in one order, which Soroban guarantees. Storage does not expire:
  archival belongs to the network and no code reacts to it.
* The chain's clock is the backend's clock (`Verification`). The cache serves an entry up to and including
  its TTL.
* The run `verification` has the contract's values converted as the unit test mocks them (`Codec`): what it shows is about
  the awaits and the cache once the conversions are right. As they are committed every session fails at `Collect`, and
  its properties hold because nothing is answered.
* The run `bulk` has a DTO that declares its list (`Decorated`); as it is committed no job has one.
* IPFS data and the descriptive fields of institution records do not change once written, so reading
  them is an await that may throw.
* A cache is the memory of one process, and so is a session.
* Signatures are perfect; `Accounts` takes from `verifyChallengeTransaction` what it looks for, a signature of the
  key on some transaction. The expiry of tokens only makes requests fail and is left out.
* Of the columns a profile update may store, id and key are those that matter here. An id that was ever an admitted
  institution's is not generated again.
* `Browser` is one tab, where token and role are written in one turn. Tabs are processes of their own: two logins in
  two tabs may leave the token of one with the role of the other, until the next login or logout.
* In `Portal` the dashboard is given the list that `getStats` counts, an issue form is always filled in, and the
  prompt for a reason always answered: otherwise nothing happens. Answers are held while a slot for a request lasts
  (`Requests`), which bounds what is in flight and orders nothing.

Not modelled: of the frontend its markup and styles, the home page (links and a field that leads to the verify page),
and the store (`store/credentials`), which the application does not provide and no component
dispatches to; configuration.

## Plan

1. Done: the contracts, their composition, verification, issuance, bulk issuance, accounts, the browser's logins, the
   pages; the proofs of `CredentialToken`.
2. Done: the proofs of the contracts' composition, verification, issuance, the browser, the pages and bulk issuance.
3. Done: batches of any length; the token contract among the others; `CredentialService` and its refinement by `Issuance`.
4. Left: `Portal` and `BulkIssue` take the outcomes of one call from `Issuance` by hand; both could be shown to be users
   of `CredentialService`, once it lets a request be forgotten when its page or job is over. The two liveness properties stay
   with TLC. Two tabs of the browser at once would need a second `Browser` over one storage.
