# MnemoCA in TLA+

A verification project for MnemoCA, a multi-tenant certificate authority written
in Go. It holds TLA+ models of the components whose correctness depends on what
happens *between* two store calls, TLC runs on small instances, and TLAPS proofs
for every value of the constants.

## 1. The system

### Components

| Component | Source | State | Operations |
|---|---|---|---|
| Store | `internal/store` (`bolt.go`, `mongo.go`) | buckets of documents, counters | Get, Put, PutIfAbsent, Take, Update (read-modify-write), NextSeq, Delete, ForEach. bolt serialises writers in one process; mongo retries a compare-and-swap and is shared by replicas |
| Audit log | `internal/audit` | a hash chain of signed records, in a file (`audit.go`) or in the store (`storelog.go`) | Open/OpenStore with a genesis record, Log, Checkpoint, Verify/VerifyStore |
| CA engine | `internal/ca` | root and tenants, certificate documents, CRL counter, profiles | InitRoot, CreateTenant, Issue, Revoke, BuildCRL, SetProfile, DeleteProfile |
| Signers | `internal/signer` | encrypted software keys (a directory or the store), PKCS#11 | Generate, Open, Sign |
| REST API | `internal/api` | API keys, the operator set | reconcile and bootstrap at start; create and revoke keys; the engine's operations |
| ACME server | `internal/acme` | nonces, accounts, orders, authorizations, challenges, certificates | newNonce, newAccount, newOrder, challenge, finalize, cert, revokeCert |
| DER and algorithms | `internal/pkix` | none | encodings, signature algorithms |
| CLI, chart, client | `cmd`, `charts`, `pkg` | none of their own | wiring |

### How they interact

The API and ACME handlers call the `ca.Manager`; all three write to the store and
to the audit log. Requests run in goroutines of one process (bolt) or of several
replicas on one database (mongo). Nothing is shared but the store and the audit
log, so what is hard is what another request does between two calls of one
handler, and what a crash, a cancelled context or an error leaves behind:

- *API keys.* One document, the operator set, counts the operator keys, so that
  the last cannot be revoked. It is written by starting servers (which rebuild it
  from a scan), by creations and by revocations, each in several steps.
- *Audit in the store.* The head of the chain is swapped in one step and the
  record written in the next; the first opening creates the head.
- *Audit in a file.* Memory (`seq`, `head`), page cache and disk can disagree after
  an error, a crash or a loss of power.
- *Issuance.* A certificate is stored, recorded, and perhaps revoked again because
  the second chain of a hybrid request failed. CRLs are scanned and numbered in
  two steps.
- *ACME.* Every write is a blind Put of a document read earlier; an order is
  recomputed from authorizations that are read one by one.
- *Start and tenancy.* Keys are generated under fixed labels before the document
  that refers to them is stored; a minted bootstrap key lives in a temporary file
  while it is inserted.

### What makes each component correct

| Component | Properties |
|---|---|
| API keys | a serving installation keeps an operator key; the set counts only stored keys; one key is revoked by one request at a time; nothing is deleted without its record; a revoked key stays revoked; no claim blocks its key for good |
| Audit logs | append-only; linked; an answered record is stored (durable); a loss is reported, and nothing else is; reopening never breaks the chain |
| Issuance | what is returned is recorded; a failed request leaves no valid certificate it does not name; one revocation per certificate, with its record; a CRL built after another has all its entries |
| ACME | no certificate without proof of every identifier; a valid order has its certificate; a settled order stays settled; one certificate per order; a validated order leaves pending |
| Tenancy | one root, one tenant per id, and neither is replaced; a key is the one its certificate was made for; the trail tells who created what and which profiles are set; a creation that fails leaves the id usable |
| ACME accounts | a signed message is handled once; accounts keep their key and binding; a client that asks by key is told the account that owns its certificates; an account fetches and revokes its own certificates only; a revocation is one request's, and recorded |
| Store | every call takes effect at one instant and at most once, over both backends; a retry means that another writer got through; a scan misses nothing that stays; every call returns |
| Minted key | while it is valid a file holds its plaintext; starts that overlap neither fail nor disturb each other; a start after a crash puts the file in place |

## 2. Modules

| Module | Models | Runs | Proofs |
|---|---|---|---|
| `OperatorKeys` | `api/auth.go` and the key handlers of `api/handlers.go` | 1 | `OperatorKeys_proofs` |
| `BootstrapMint` | the minted key file of `api/auth.go` | 1 | `BootstrapMint_proofs` |
| `AuditTrail` | the promise of `audit.Logger`, an abstract specification | as a property of the next two | |
| `AuditLog` | what the next two have in common: record numbers and their bound | | |
| `AuditChain` | `audit/storelog.go`, with the create race of `store/mongo.go` | 2 | `AuditLogs_proofs` |
| `AuditFile` | `audit/audit.go` | 2 | `AuditLogs_proofs` |
| `Issuance` | `ca/issue.go` | 1 | `Issuance_proofs` |
| `AcmeOrder` | `acme/order.go`, `acme/challenge.go` | 2 | `AcmeOrder_proofs` |
| `Tenancy` | `ca/env.go`, `InitRoot` and `CreateTenant` of `ca/ca.go`, `ca/profiles.go`, `Generate` of `signer/softkey.go` and `signer/storekey.go` | 1 | `Tenancy_proofs` |
| `AcmeAccess` | `acme/nonce.go`, `jws.go`, `account.go`, `handler.go`, and the certificate handlers of `order.go` | 1 | `AcmeAccess_proofs` |
| `Store` | the promise of the interface `store.Store`, an abstract specification | as a property of the next | |
| `Backends` | `store/bolt.go` and `store/mongo.go` | 1 | `Backends_proofs` |

Each has an `MC` module with its symmetry sets for TLC, and one `.cfg` per run,
named after it. Five conventions hold in all of them:

- a phase variable `pc` says which store or log call each request makes next; a
  call is one atomic step, so requests interleave between any two calls;
- a write that may fail has a second action (`...Fails`) for the error path of the
  code, and a request can crash at any step;
- where a property holds only while some fault has not occurred, a history variable
  (`faults`, `seen`, `unanswered`, `marks`, `mangled`, `raced`, `orderly`) says which have,
  and the property names them, so that one run covers the behaviours with and without
  them; others (`answered`, `logged`, `succeeded`, `used`, `handled`) remember what callers
  were told or given, and guard no action;
- what a run checks may be the conjunction of several named parts (`CleanStarts` is
  `TypeOK /\ StartsSucceed /\ FileInstalled /\ NoTempLeft`), each with its own comment;
  the type invariants of `OperatorKeys` and `AuditChain` are proved (section 4) and not
  repeated in their runs;
- a definition whose comment begins "Variant" is a plausible bug in the definition
  after it. No action uses it; the mutants listed in `PROJECT.json` replace the
  definition by it to show that the property notices.

### OperatorKeys

State: `keys` is the apikeys bucket, `flagged` the `Audited` field of the bootstrap
key, `ids`/`revoking` the fields of the `operatorSet` document, `lapsed` the claims
older than `revokeClaimTTL`, `log` the durable records of revocations and of the
bootstrap key. `pc`, `target`, `scan`, `todo`, `found` and `live` are the locals of
the servers. `fresh[s]` is the version check of the compare-and-swap: the document
is still the one that s has read.

A server starts (`Start` to `WriteSet` is `reconcileOperators`, `BootScan` to
`BootFlag` is `bootstrapKey`) and then handles one request at a time: `CreateKey`,
`RegisterKey` for `handleCreateAPIKey`, `RevokeRequest` to `FinishRevoke` for
`handleRevokeAPIKey` with `beginRevoke`, its `fail` closure, `abortRevoke` and
`finishRevoke`. `DropRequest` is a cancelled context or an error, `Crash` the end
of the process, `ClaimLapses` the passing of `revokeClaimTTL`. A process with
several requests in flight is several servers of the model.

Abstractions: `Update` with a function of the document alone is one step (bolt's
write transaction and mongo's compare-and-swap loop both make it so); only
`reconcileOperators`, which reads keys inside its function, is split, and it
behaves as over mongo: what bolt can do is a part of it. A `ForEach` is one step.
The `apikey.create` and `apikey.revoke.failed` records are left out. No endpoint
lists keys, so a random id is unknown until its creation is answered; only the
bootstrap id, which is known beforehand, can be revoked while it is being adopted.

Nothing in the code keeps a revocation from taking longer than `revokeClaimTTL` (5
minutes), or a request from revoking the bootstrap key while a server is still adopting
it, and the model has both. `orderly` remembers that neither has happened, and
`OperatorSurvives`, `NoGhostOperator`, `OneRevocationPerKey` and, for the bootstrap key,
`RevokedStaysRevoked` are about histories in which it holds. In the others they are
false; TLC finds such behaviours when `orderly` is taken out of them:

- a revocation that arrives between `insertKey` and `addOperator` of a start: `addOperator`
  puts the id of the deleted key back and drops its claim, and the next revocation
  passes the guard with no other key left, although `handlers.go:323` says that two
  concurrent revocations "cannot both pass";
- a start that scans before another start creates the bootstrap key, and inserts after a
  request has revoked it (two servers and one revocation, no crash): the revoked key is
  adopted again;
- a revocation that outlasts its claim: a restart counts its key again, and a second
  revocation then deletes the last operator key.

A key other than the bootstrap key stays revoked in every history.

`ClaimsReleased` speaks of a claim from `beginRevoke` to `finishRevoke` or `abortRevoke`:
its holder keeps to it, each of the holder's calls leaves fewer to make (`ClaimSteps`),
and a live claim that a crash or a cancelled request has left behind gets no second
holder. What is left to time and to the scheduler is `ClaimsEnd`.

One more thing the model shows and no property excludes: a reconcile whose scan is
older than a creation (Put and `addOperator` both done before the Update reads)
drops the new id, and the live key stays uncounted until the next start. The
guard then refuses revocations it could allow; it never allows one too many.

### BootstrapMint

`doc` is the document of the fixed id `bootstrapMintedID`, represented by the token it
has the hash of, `path` the key file, `temps` the temporary files beside it, `others`
whether the store holds another operator key. A start is `ScanKeys` (the scan of
`bootstrapKey`), then `WriteTemp`, `Insert` and `Install` or `Discard`
(`mintBootstrapFile`), or `ReadKey`, `Look`, `Search`, `Restore` and `LookAgain`
(`recoverMintedFile`). `MoveIntoPlace` is a rename with the check of
`fileHoldsKeyHash` that both use. `RevokeMinted` and `RemoveFile` are the last steps of
`handleRevokeAPIKey`; `FailBeforeInsert`, `Crash`, `Stop` and `LoseOperators` the
environment. A failed rename ends the start with its files as they are, which is what
`Crash` does too. Starts overlap as in the repository's test of concurrent starters;
requests are served once they are over, since bbolt locks its file and one process has
the directory.

Not in the model: a loss of power (neither the temporary file nor the rename is
synced, so the plaintext can be lost while the document is not), a commit of bbolt that
fails and is visible, and an administrator who deletes the key file. In these cases the
plaintext is gone and the start only warns: `auth.go:582` advises to "recover access
with $MNEMOCA_BOOTSTRAP_API_KEY_FILE", but a supplied key is not adopted while an
operator key, such as the lost one, exists (`auth.go:190`). A second limit is inside
the model: `recoverMintedFile` returns when any file is at the path (`auth.go:553`), so
after a crash between the insertion and the rename over a stale file the plaintext
stays in the temporary file. Hence `PlaintextKept` and `RecoverInstalls` speak of some
file, and `FileInstalled`, which promises the right one, of starts without a failure.

### AuditTrail, AuditLog, AuditChain

`AuditTrail` is the abstract specification: a sequence that only grows at its end,
and a set of answered positions that lie within it.

In `AuditChain`, `head` and `records` are the documents of the store, `sealed` the
record a `Log` call has chained and not yet written, `lost` the numbers whose
record was never written. The hash of a record commits to the whole history before
it, so it is modelled *as* that history, the sequence of its writers. `OpenStore`,
`CreateHead` and `CreateFails` are `ensureGenesis` over mongo; `Claim` is the
compare-and-swap of `Log`, `PutRecord` and `PutFails` what follows; `Checkpoint`
appends like `Log`. `VerifyScan` and `VerifyHead` are the two reads of
`VerifyStore`, `VerifyPasses` its verdict on a store at rest.
Refinement: the abstract trail is the head's history, so the swap of the head
extends it and the write of the record answers it.

Any replica may create the log. One that loses the create of the head writes a genesis
record all the same (`CreateFails`, the run `AuditChain_genesis_race`), and `raced`
remembers that this has happened. It costs the first record and nothing else: `Once(n)`
says that number n has one record, which holds of every number but 1 after a race, and
`Linked`, `RecordsKept` and `LossIsLoud` speak of these. A log that is created before
replicas open it, as with `mnemoca init` or the init Job of the chart, never races.
`RaceIsLoud` says that the wrong genesis record does not pass `VerifyStore`.

### AuditFile

`file` is the sequence of lines the process sees, `synced` how many of them are on
disk, `log` the `Log` in memory, `stage` where the call of `Log` is, `rec` the record it
writes, `logged` the answered numbers. `Seal`,
`WriteLine` and `Sync` are the steps of `Log` under its mutex, with `SealFails`,
`WriteFails` and `SyncFails`; `WriteBack` is the kernel, `Crash` ends the process
and leaves the page cache, `PowerLoss` keeps what is synced. `Open` recovers the
head from the last line or writes a genesis record. A partial line (`Torn`) has no
newline, so the next line is glued to it (`Garbled`). `faults` is what has gone wrong
so far: `"io"` errors, `"short"` partial writes, `"tear"` lines torn by a loss of
power. The names of `AuditFile` differ from those of `AuditChain` so that one module can
prove about both. Refinement: the abstract trail is the synced part of the file, and a line that
does not parse an entry of its own.

Three limits of the code appear in the properties: after a failed call the chain may
be broken (`AuditFile_gap`), a record appended to a partial line is answered although
it does not parse (`AnsweredSurvives` excludes `"short"`), and `Open` refuses a file
with a torn line (its guard `~Corrupt`).

### Issuance

One tenant. `certs` holds the certificate documents (a request draws one serial per
chain), `issueRecs` and `revokeRecs` the audit records, `crlNumber` the counter of
`NextSeq`, `crls` the CRLs that were returned. `StartIssue` chooses the chains
(`primary`, `pair` or both) and stands for all that is decided before the first
write; `PutCert` and `RecordIssue` are the loop of `Issue`; their failures lead to
`RevokeNext`/`ReportFailure`, which are `abandonIssued`. `MarkRevoked` to
`RecordRevokeFails` is `Revoke`, shared by `abandonIssued` and by requests.
`ScanRevoked`, `NextNumber` and `Publish` are `BuildCRL`, which a builder calls one
call after another. Writes that return an error may have happened; `unanswered`
remembers the certificate documents for which this was so. `issueOne` does not count
such a serial among those to revoke, and `FailedIssueAccounted` shows that this is the
only way a failed request leaves a valid certificate that its error does not name.

`succeeded` holds the revocations that returned no error, those of `abandonIssued` and
those of requests alike. `OneRevocationAnswered` says that a certificate has one of them at
most, and that a revoked certificate without its record is the doing of a call that was
not told it succeeded: it has still to write the record, has crashed, or has returned an
error (`WithoutRecord`). A repeated revocation does not write the record then; it is
refused as already revoked.

Every public request for a CRL builds one, so builds overlap. `BuildCRL` scans before it
draws its number: of two that overlap, the one with the higher number can list less. Hence
`CRLsGrow` compares a CRL with those that had been returned before its build began
(`after`), and says nothing of overlapping builds; a client that replaces a CRL by one
with a higher number can lose a revocation until the next build.

### AcmeOrder

One order with `N` identifiers; orders share nothing. `chal`, `authz`, `order` and
`stored` are the documents, `proven` the identifiers some check found controlled,
`issued` the certificates. `StartChallenge` to `PutAuthz` is `handleChallenge` with
`validateChallenge`, `ReadOrder`, `ReadAuthz` (one authorization per step) and
`PutOrder` are `updateOrderStatus`, `StartFinalize` to `FinishOrder` is
`handleFinalize`. `Fail` is a store error, a cancelled context or a crash. `seen` is
what has happened so far: an `"overlap"` of two requests, a `"failure"` of one between
two steps. A failure after the challenge was written leaves it valid and the order
pending for good (a settled challenge is not validated again), so
`ValidatedLeavesPending` excludes failures; two finalize requests that overlap, or the
second after the first failed past `Manager.Issue`, issue twice, so `OneCertificate`
excludes both. The `Expires` of orders and authorizations is read by nothing and left
out. That Manager.Issue may issue and fail is the
subject of `Issuance`; here it succeeds or refuses. `handleNewOrder` is in `Init`,
since nobody knows its ids before it answers.

### Tenancy

`doc` holds the root and tenant documents, each with the creation that stored it (its
certificates are for that creation's keys), `keys` whose key each label holds, `trail`
the records of creations and profile changes. A call is a command (`cli`), which opens
the environment itself, or a request to a server; `log` is whether its process has
the audit log. `backend` is chosen in `Init`: over bolt one process runs at a time,
the server or a command (`LockIsFree`), and keys are files; over MongoDB all run
together and keys are documents. `Arrive` is `OpenEnvConfig`, `Check` to `Record` are
`InitRoot` under `Env.Init` and `CreateTenant`, which have one shape; `Update` and
`RefuseUpdate` are `SetProfile` and `DeleteProfile`. `Generate` is one update of the
store (`GenerateInStore`) or a look and a write (`FindNoFile`, `WriteFile`), which a
crash or an error can cut short (`Torn`). `marks` remembers what the properties
exclude, as its comment says. A call that failed or was refused is forgotten when it
ends, except for the marks; a failure before the first write leaves none.

Abstractions: the checks of names, algorithms and profiles that come before any effect
are left out, as are the algorithms but for the opt-in of a root's pair; `CreateTenant`
reads the tenant and the root in one step (the root never changes once stored, so that
order does not show); the genesis record of the trail belongs to `AuditChain`.

What the model shows about the code: a creation refused because of its pair has
generated its first key already (`InitRoot` checks the pair at `ca.go:220`), so the
call made again as the refusal advises ("pass --experimental-composite") is refused
with "key already exists". Over key files two creations of one tenant in one
server can overwrite each other's keys and document (`"clobbered"`); a creation that
ends between its first key and its document blocks its id, and the root's blocks `init
--if-needed`, for good, since nothing deletes a key; so does one refused for its pair.
`OneCreationWins` says that nothing else does.

### AcmeAccess

One tenant. `nonces`, `accounts`, `eabKeys` and `certs` are its buckets, `log` the audit
records, `job` what a request carries. `IssueNonce` and `NewNonce` create nonces; `Post`, `TakeNonce` and `Authenticate` are the wrapper `post` with
`verifyRequest`; the same signed message (a nonce and its contents) may arrive any
number of times. Whether a nonce has expired is seen when it is taken, so it is decided there. `ScanAccounts`, `PutAccount`, `LogAccount` are `handleNewAccount` with
`verifyEAB` and `accountByThumbprint`, `UpdateAccount` is `handleAccount`, `FetchCert`
is `handleCert`, and `CheckRevoke` to `LogAcmeRevoke` are `handleRevoke` with the steps
of `Manager.Revoke` inside. `Refuse` is every early return without an effect, `Fail` an
error, a cancelled context or a crash. `Finalize` orders a certificate in one step:
`AcmeOrder` has its steps. `certs` has all certificates of the tenant, with the account in
the ACME document if there is one; `IssueElsewhere` and `RevokeElsewhere` are what the
REST API and the CLI do with them.

A JWK is a model value and `KeyOf` the key it decodes to; one key has several JWKs (a
member in another encoding), with different thumbprints, and some decode to none. A
signature is who made it; a binding is a pair of an EAB key and the JWK it was made
for. `LookupOwnsCerts` excludes two `newAccount` requests for one key that overlap
(`"twins"`): both create an account, and a look-up finds the one with the later id,
which need not own the certificates. The records of `RevocationRecorded` are promised
without failures: when the second fails after `Manager.Revoke`, the retry is refused as
already revoked and the record never written.

The comment at `order.go:206` says that who revokes must be the account that ordered the
certificate, "or prove possession of the certificate key". For an account the handler
looks for an ACME document with the serial and the account. For a bare JWK it compares the
key with that of the certificate in the request, which is parsed and not compared with
one the tenant has issued; what follows goes by the serial (`CheckRevoke`, `MayRevoke`). So
the model relates a bare key to the certificate it revokes in no way, and `UsedByHolder`
claims of bare keys only that they signed the request and are served nothing.

### Store, Backends

`Store` is what the other modules take for granted: a call takes effect at one instant
between its start and its answer, at most once, and one that answers an error may have
taken effect. `ForEach` is not in it: `store.go` promises an order, no atomicity.

`Backends` has both implementations, `backend` says which. Over bbolt a call is one
transaction (`BoltTx`, `BoltScan`). Over MongoDB a step is one call to the server:
`MongoDirect` for `PutIfAbsent`, `Get`, `Take` and `Delete`, `Find`, `Create` and `Save`
for the loop of `Update` (which `Put` uses), `NextSeq`, `UpsertFindsNone` and
`InsertCounter` for the upsert of a counter, `CursorNext` for a cursor sorted by key.
`fresh` is the comparison of `_id` and version by `goodm.Update`. `Fails` is an error
before or after the effect. The refinement mapping forgets the working state of a call
and the calls of `ForEach`.

`Again` is the end of a lap; `attempt` counts the laps, `overtaken` the writes of others
to the same document or counter during the call. `RetriesAreProgress` is the comment at
`mongo.go:199`: each retry implies that another writer made progress, so a call that
fewer than `updateMaxAttempts` writes overtake does not give up. `StepsLeft` is a measure
of what a call has left to do, laps included; `CallsAdvance` says that each of its steps
lowers it and nobody else's step raises it.

## 3. Runs

Runs that pass:

| Run | Instance | Shows |
|---|---|---|
| `OperatorKeys_safety` | 2 servers, 2 keys | Whatever starts, crashes, creations and revocations overlap: the last operator key survives, no ghost id is counted, one revocation per key; a revocation keeps its claim and brings it closer to its release with each call, deletions are recorded, the flag implies the record, a revoked key stays revoked, a claim does not block its key for good. Orderly histories only: the first three, and for the bootstrap key that it stays revoked |
| `AuditChain_safety` | 3 replicas, 4 records, any of them creating the log | Nothing is overwritten and all records link up (but for the first after a race), an answered one is stored, `VerifyStore` reports every loss and every race that left the wrong genesis record, and on a store at rest nothing else, `AuditTrail` is implemented |
| `AuditFile_safety` | 6 records, every fault | Crashes and losses of power never break the chain, an answered record survives them, what is synced implements `AuditTrail` |
| `Issuance_safety` | 1 issue over one or both chains, 2 revocations, 2 builders of CRLs, 2 CRLs | What is returned is recorded; a failed request accounts for its certificates; of all revocations of a certificate, the compensation included, one at most succeeds; CRLs that do not overlap grow, and each lists only what is revoked on its chain |
| `AcmeOrder_safety` | 2 identifiers of 2 challenges, 2 challenge and 2 finalize requests, overlapping and failing anywhere | No certificate before every identifier was proven; a valid order has its certificate; a validated order leaves pending; without overlap an order, valid or invalid, is final and, if nothing failed, yields one certificate |
| `BootstrapMint_safety` | 3 starts, 4 tokens, with or without a stale file | Whatever overlaps, fails or crashes, a file holds the plaintext of the valid minted key, and the key file only ever changes to hold it; starts do not fail each other; recovery puts a file in place; starts without a failure leave the key file and nothing else |
| `AcmeAccess_safety` | 2 requests in flight, 4 signed messages, 2 accounts, 1 certificate of an account or of none, 4 JWKs of 2 keys and of none, with and without required bindings | A message is handled at most once; accounts are granted, keep their key and are found by it; an account is served, and revokes, its own certificate only; a revocation is one request's and recorded for it |
| `Backends_safety` | 2 callers, 2 documents and a counter, either backend, 2 attempts | Both backends implement `Store`; a retry means progress of another; every step of a call leaves it less to do; a scan visits what was there throughout; every call returns |
| `Tenancy_safety` | 3 calls on the root and one tenant with two profile names, either backend, failing anywhere | Keys match certificates; stored roots and tenants are not replaced; an answered call is stored and recorded; ca.init comes first; the trail tells the profiles; of racing creations one wins |

Runs that end in a counterexample. Each shows a disagreement between the code and
what a comment or a document of the repository says, listed under `findings` in
`PROJECT.json`:

| Run | What happens |
|---|---|
| `AuditChain_genesis_race` | Two replicas open an empty log; the one that loses the create of the head writes its genesis record all the same |
| `AuditFile_gap` | An append fails before its line is written, the next is answered: its record does not follow the line before it |
| `AcmeOrder_stale` | A recomputation that read a pending order writes it after the order was finalized: valid becomes ready |

### Bounds

`Servers`, `Writers`, requests, ids and identifiers are finite sets of model values,
symmetric where interchangeable. Two servers and two keys suffice for the guard to have
one key in revocation and one that is the last, and for a start to overlap a request or another start;
the theorems of section 4 cover the other sizes, and the invariants were also checked with
three servers and with three keys (3.2 million states each, with `SPECIFICATION Spec`
and `SYMMETRY Symmetry`). Each server can restart and serve any number of requests, so histories are unbounded
although ids are not (a random id is used once). `MaxSeq` bounds the sequence numbers
of the audit logs: four numbers let each of three replicas hold a record while a
fourth is stored, and a race for the first be followed by losses of any of the others (the
replicas are symmetric); in the file, six let several faults and restarts follow each other.
In `Issuance` every request runs once and `MaxCRLs` bounds the CRL numbers: a build begins
only if a number is left for it (`NumberLeft`), so two builds overlap or follow each other;
the hybrid request with two revocations and two CRLs has all pairs of interest. In `AcmeOrder` challenge requests repeat (until
the four challenges are settled) and finalize requests run once each. In `Tenancy`
`MaxCalls` = 3 admits two racing creations and a profile change, a creation and two
changes, or a root, its tenant and a third; calls are numbered as they arrive, so no
symmetry is needed, and any number of them fail. In `BootstrapMint` three starts admit a
winner, a loser and a recovery at once, and four tokens a mint after each of several
losses; the theorems cover the rest. In `AcmeAccess` each of the four messages has a
nonce of its own and arrives any number of times: enough to register twice, order and
revoke, and two requests are every pair of handlers. What the properties say of
certificates they say of each by itself, so the run has one. In `Backends` two attempts reach
both ends of the loop, `MaxSeq` = 2 lets two calls race for the first number, and the
`Update` function counts up to `Top` and then refuses, so that it sees an absent
document, both values and its own error; two keys suffice for a scan to be overtaken.
`MaxSeq` bounds the calls of `NextSeq` that may start, in `Store` and `Backends` alike.

`CHECK_DEADLOCK FALSE` is set where the bounded system stops: all requests have ended
or the sequence numbers are used up and no log can be opened.

### Fairness

`OperatorKeys_safety` assumes some for `ClaimsEnd`: weak fairness of `Handle(s)`, since the
goroutine of a request runs until it answers, and of `ClaimLapses(k)`, since time
passes. Nobody has to send a request, and a crashed server need not come back. Startup
is not fair. `Backends_safety` assumes weak fairness of the steps of each call, for
`EveryCallReturns`: the goroutine is scheduled and the server answers. Nothing is
assumed of how callers alternate, so writers that never stop may overtake a call in
every lap; it ends because the loop is bounded. What fairness is applied to is proved in
both cases (`CallsGetCloser`, `ClaimsAreReleased`): that scheduled calls come closer to
their end.

## 4. Proofs

`OperatorKeys_proofs`, for every set of servers and ids:

- `TypeCorrect`: `TypeOK`.
- `LastOperatorSurvives`, `SetCountsStoredKeys`, `ClaimsExclude`: `OperatorSurvives`,
  `NoGhostOperator` and `ClaimsExclusive` (`OneRevocationPerKey` with `ClaimsReleased`), of every
  behaviour: the invariant is `OInv`, that `TypeOK` holds and, while the history is orderly
  (section 2), `IInv`. `beginRevoke` compares the key only with `ids`, so
  `OperatorSurvives` is not inductive. The invariant `IInv` adds that a server past
  `beginRevoke` has its key in `revoking` and out of `ids` (`ClaimsHeld`), that keys
  under revocation are settled (`TargetsKnown`, `TargetsSettled`), that what a
  reconcile has read is true as long as its compare-and-swap can still succeed
  (`ReadersSound`), that some operator key is under no revocation (`SpareKey`), and
  that one exists behind every serving server (`KeyBehindServing`).
- `ClaimsAreReleased`: `ClaimsReleased`, orderly or not. `ClaimTaken` says that
  only `beginRevoke` makes a holder, of a key without a live claim, and that a holder's
  key does not change; `HandlerReleases` goes through the calls of the handler.
- `DeletesAreRecorded`: `RevokeRecorded`, orderly or not.
- `BootKeyIsAccounted`: `BootKeyAccounted`, that the flag implies the record and that a
  revoked key stays revoked, which for the keys of other ids is a fact about their
  creation (`OthersStayRevoked`). The bootstrap key could be revived by `InsertBootKey`
  alone. In an orderly history that runs after a scan that found no operator key, and
  `RevokedNotAdopted` says that there is one if the bootstrap key was revoked:
  operator keys are deleted by holders of a claim, and `SpareKey` leaves one
  (`OperatorKeysStay`).

`AuditLogs_proofs`, for the log in the store, every set of replicas and every `MaxSeq`,
whoever creates the log and whatever races:

- `TypeCorrect`, `AnsweredRecordsStored`, `ReplicasShareOneChain`, `RecordsNeverOverwritten`:
  `TypeOK`, `AnsweredIsStored`, `Linked`, `RecordsKept`. The invariant `CInv` says that
  every record, stored or sealed, is the one the head's history has at its number
  (`StoredOnChain`, `SealedOnChain`), and that a sealed record's number is nobody else's
  and not stored. After a race this holds of the numbers from 2 on, which only the swap
  of the head gives out; of number 1 there remains that its records are genesis records
  (`Chained`). Linking and keeping follow.
- `ImplementsTrail`: `Spec => TrailSpec`, the refinement of `AuditTrail`: the create
  or swap of the head extends the trail, `PutRecord` answers, all else stutters.
- `VerdictIsTrue`: `VerdictTrue`. `VInv` says that each number the head has handed out
  is stored, lost or in the hands of a writer (`NumbersAccounted`), that a lost one is
  never stored (`LossesFinal`), and that what a scan has seen stays (`ScanStays`). So a
  scan that matches the head has seen every number, and at rest without a loss the
  replay reaches the head. A replay that reaches the head's history began with the record
  that history begins with (`VerifiedGenesis`), so a race cannot go unnoticed.

and for the log in a file, every `MaxSeq`:

- `FileChainKept`, `FileAnswersSurvive`: `ChainKept`, `AnsweredSurvives`. `FInv` says that
  the numbers of the lines rise and the log in memory leads them (`NumbersRise`,
  `LogLeads`), that the line being synced is the sealed record or garbled
  (`SyncingSealed`), that answers are behind the log and synced (`AnswersBehind`,
  `AnsweredInFile`, `UnsyncedUnanswered`), that only a partial write marks a line the
  log goes on behind (`MarksAreShort`), and that without a failed call the log in memory
  is the end of the chain in the file (`LogAtEnd`).
- `FileImplementsTrail`: `FileSpec => FileTrailSpec`, the refinement of `AuditTrail`: writing a
  line back, or a torn one at a loss of power, extends the trail, `Sync` answers the one
  line with the record's number, and no other step touches what is synced (`TrailStep`).

`BootstrapMint_proofs`, for every set of starts and tokens and without assumptions:
all that `BootstrapMint_safety` checks. `PlaintextNeverLost` is `PlaintextKept`;
`StartsEndClean` is `CleanStarts`, from `TypeCorrect`, `OverlapSucceeds`, `KeyFileInPlace`
and `NothingLeftBehind`; `KeyFileStays` is `KeyFileKept`, from `LosersDisturbNothing` and
`RecoveryInstalls`. The invariant `MInv` adds that a token is in its temporary file
and nobody else's until its insertion (`Unsettled`), that who installs, looks for or
restores a file does so for the valid key and gives up only when the file is in place
(`Settled`), that what is cleaned up is not the key's (`Disposable`), that a revocation
removes the file alone (`Alone`), and, without failures, that every temporary file and
every key without its file has a start that will see to it (`Owned`).

`Issuance_proofs`, for every set of requests, revocations and builders, and every
`MaxCRLs`:

- `ReturnedAreRecorded`, `FailuresAccounted`, `RevokedOnce`: `ReturnedIsRecorded`,
  `FailedIssueAccounted`, `OneRevocationAnswered`. What a request returns says nothing
  of the certificate it is working on, so `IInv` follows each serial: those in `out` are
  stored and recorded and the rest do not exist yet (`IssuedInOrder`); whatever is
  revoked has a request for it or belongs to a call that gave up (`RevokedByCall`); while
  `abandonIssued` runs, what is still valid is to be revoked, noted, or the document
  whose failed write happened (`Accounted`); a document is changed by one revoker only
  (`MarkedOnce`). `RevokedOnce` adds in `SInv` that a revocation that succeeded leaves none
  of its certificate to be recorded.
- `ListsAreTrue` (`ListedIsRevoked`) and `CRLsComplete` (`CRLsSound`, with `CRLsGrow`), with
  any number of overlapping builders: `DraftsNewer` says that CRLs have different numbers,
  and that those returned before a build began have lower ones and no entry that it lacks.

`AcmeOrder_proofs`, for every number of identifiers and sets of challenge types and
requests: `NoCertificateWithoutProof`, `OrderDocumentsFit`, `OneCertificateAlone`,
`ValidatedOrderMoves`, `SettledOrderStays`. `IInv` says that what a request carries is
proven as far as it has read (`JobProven`), as are the documents it wrote from it
(`DocsProven`); that without overlap one request runs and the order is as it found it
(`Alone`), and without failures a certificate is in the order or on its way there
(`Single`). `ValidatedLeavesPending` needs the most: a valid challenge has settled its
authorization or is about to (`Followed`), and as long as all authorizations are
settled and the order pending, some request is at work that has read none of them
unsettled (`Watched`). The request that settles the last one is a witness; a request that
read an authorization too early is not, and need not be.

`AcmeAccess_proofs`, for every set of messages, requests, keys and encodings:
`MessagesHandledOnce`, `AccountsAreSound` (the type invariant, the grants and the action
property `AccountsKept`), `LookupIsRight`, `CertificatesUsedByHolder`,
`RevocationsRecorded`. `IInv` says that a taken nonce has one message (`TakenOnce`), that
a request speaks for an account as it is stored, with the key that signed (`Speaks`),
that a binding was granted before it is written (`Registers`), that without twins one
request stands between the scan for a key and its account (`OneAccountEach`), that a
certificate was used when it was there and revoked by one request (`CertsOwned`), and that
an account that revokes owns the certificate, with the first record before the second
(`Entitled`, `RevocationFollowed`, `LoggedByRight`).

`Backends_proofs`, for every finite set of callers and all keys, data, `Update` functions
and numbers of attempts:

- `BackendsAreAtomic`: `Spec => AtomicSpec`. Every step of either backend maps to a step
  of `Store` or to a stutter: a call over MongoDB takes effect at the one server call
  whose comparison succeeds, a loop that starts over changes nothing, one that gives up
  answers an error. For that, `HeldFits` says that while what `Update` read is fresh, it
  is the document, and `CountFits` that the counter leaves a number for every call under
  way.
- `CallsGetCloser` (`CallsAdvance`): `LapFits` says that a call that will have to start over
  has been overtaken once more than it has started over, so laps are counted, bounded
  and earned by others. That `StepsLeft` falls is one lemma on a call's own steps
  (`StepAdvances`), one on errors (`FailureAdvances`) and a frame lemma on everybody
  else's (`OthersStay`): a write of another makes a lap fail, but the lap it then takes
  was in the measure from the start.
- `ScansMissNothing` (`ScanComplete`): `ScanFits` says that what stayed is there, and
  visited if the cursor is past it.

`Tenancy_proofs`, for every set of tenants and profile names and every number of calls,
over both backends:

- `KeysAreTheCertified`, `StoredCertificatesAreKept`, `RacingCreationsDoNotAllFail`:
  `KeysMatchCertificates`, `CertificatesKept`, `OneCreationWins`. The invariant `KInv` says
  that a creation owns the keys it has generated (`OwnsKeys`), that what it has left to
  generate is a rest of the fixed order (`PhaseFits`, `Rests`), and that a stored
  document's creator is past its Put and its keys are its own (`DocumentFits`). A second
  creation could store its document only with all keys its own, hence `PutIsFirst`: it
  finds none stored, or key files were overwritten. Over bolt the argument for the root
  is the lock on the file (`Locked`). `WinFits` gives every key that is there a reason,
  and `RacingCreationsDoNotAllFail` rests on the order of the labels: whoever is refused
  found the first key taken, by a creation that is ahead of it.
- `AnswersAreKept`, `TrailIsTrue`: `AnsweredIsKept`, `TrailTells`. `TInv` says that a
  tenant whose changes were not overtaken has one unrecorded change at most, and that
  its profiles are those the trail tells with that change applied (`ToldFits`); that the
  root's record is the first or still to come (`FirstFits`); and, since `Told` looks for a
  greatest position, that there is one (`LastFits`).

In all of them the steps are one per action, with what a step leaves alone in frame
lemmas (`OthersKept` and `Quiet` in `Tenancy_proofs`, for example); in
`AuditLogs_proofs` over lemmas on appending to a history (`OnAppend`, `OnSealed`,
`OnLinked`, `OnNewest`) and to a file (`Appended`, `TrailGrows`). Each inductive invariant was model-checked on the instance of
the module's run before it was proved.

### Assumptions on the constants

Besides the types of bounds they say that names which are distinct in the code are
distinct here. `CallsAreDisjoint`, `RequestsAreDisjoint`: a request is of one kind.
`NamesAssumption` (`AcmeAccess`), `NoneAssumption` and `NoDocumentAssumption` (`Tenancy`),
`SentinelsAssumption` and `IdleAssumption` (`Backends`), `SentinelsAssumption`
(`AuditFile`, `BootstrapMint`), `NoCertAssumption` (`AcmeOrder`): the value that stands for "no document" or "no call" is none, since the
code has a separate answer for that (`store.ErrNotFound`), and an account's id is no key.
`CallersAssumption`: finitely many goroutines run. TLC evaluates all of them in every
run.

### Checked by TLC alone

Liveness under fairness (`ClaimsEnd`, `EveryCallReturns`), which is out of the prover's
reach, as is induction over data. Their safety halves are proved: every step of a call,
or of the holder of a claim, brings it closer to its end, nobody else's step takes it
back, and `StepsLeft` and `ClaimSteps` are bounded. What TLC adds is that a step is
possible until the end is reached, and so, being fair, taken. Every other property that
a passing run checks is stated by a theorem. No module declares a RECURSIVE operator.

The three runs that end in a counterexample are not proved about; what remains true beside
each of them is: the chain but for its first record (`AuditLogs_proofs`), the chain in the
file without errors (`FileChainKept`), an order without overlap (`SettledOrderStays`).

## 5. How it was built

The modules were written in the order of section 2, because the operator guard and the
audit chain carry the guarantees of the whole system and everything else writes to them.
Every safety property, action property and refinement of a passing run has a theorem.

What could follow: the order and the certificates of `AcmeOrder` composed with `Issuance`
(a finalize request whose `Manager.Issue` issues and fails), and a mount of the modules on
`Store` in place of the atomic steps that each of them takes for granted.

## 6. Not modelled

Of the modelled components: opening a database and its indexes, JSON coding and the
contents of documents, the contents of ACME checks, the envelopes of software keys,
the listing endpoints of the REST API and the middleware that authenticates its
requests (one read of a key document per request, without a later step). Not at all:
`internal/pkix` (pure encodings and signature algorithms), PKCS#11 and the stubs of
other backends (external devices), the CLI and the Go client (wiring without state),
the Helm chart, the dial guard of `acme/ssrf.go` (a filter on addresses). They have no
interleavings to check; their data is tested by the repository's unit and fuzz tests.
Signatures and hashes are ideal: a signature verifies, and hashes collide only for
equal histories.
