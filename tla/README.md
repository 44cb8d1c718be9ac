# TLA+ models of the SME data center

TLA+ models of the parts of this repository in which processes, transactions
and object storage interact, TLC configurations that check them on small
instances, and TLAPS proofs of what matters most.  Paths are relative to the
repository root.

## The system

The data center takes business files from employees and their agents, keeps
current data in MySQL and object storage, and answers queries, searches and
downloads under per-enterprise authorization.

| component | state | operations | what is hard |
| --- | --- | --- | --- |
| Partition upload session (`apps/api/src/routes/structured-partitions`, `packages/db/src/structured-partitions.ts`) | `partition_import_jobs`, multipart uploads | create, complete, cancel, expiry sweep | concurrent and replayed calls, reads without locks, storage calls between two transactions |
| Processing runs (`apps/worker/src/worker.ts`) | `processing_runs`: status, attempt, lease | claim, heartbeat, complete, fail | lapsed leases, takeovers, time samples, retries |
| Partition import (`apps/worker/src/partition-import.ts`) | job, current `structured_partitions`, candidate objects | download, export, upload, publish, read back, abandon, cleanup | crash between steps, lost commit acknowledgement, overlapping sources |
| Order scopes (`packages/db/src/structured-partitions.ts`) | previews, scope of current partitions | prepare, confirm, accept, publish | a preview that is outdated when it is used |
| Partition export (`packages/structured-ingestion`) | open files, buffers | append, evict, flush, finish | more partitions than open files |
| Storage garbage (`packages/db/src/storage-garbage.ts`) | `storage_garbage` | enqueue, delete, forget, postpone | object and row are two systems |
| Structured row imports (`apps/api/src/structured-imports.ts`) | batches, date-window claims, rows | reserve, apply, archive | overlapping windows, archive against apply |
| Structured query (`packages/domain/src/structured-query.ts`, `apps/api/src/structured-query.ts`) | cursors | validate, compile, run, page | rows and grants that change between pages |
| Evidence documents (`apps/api/src/documents.ts`, `apps/worker/src/evidence-index.ts`) | documents, chunks, vector points | upload, chunk, index, search, rerank, page, archive | index and database are two systems |
| Partition downloads (`packages/db/src/partition-downloads.ts`) | packages, pinned manifests | prepare, build, issue link, expire, invalidate | current data changes under a pinned manifest, late writes |
| Ledger PDF archive (`packages/ledger-archive`, `apps/worker/src/ledger-pdf`) | revisions, generations, PDF objects, ZIP requests | change, scan, refresh, render, publish, deliver | changes that arrive while a cell is rendered |
| Enterprise workflows (`apps/api/src/enterprise-workflows`) | configuration, installation, runs, actions | change with preview, take over, run, claim an action, report, migrate | a receipt that is lost or late, configurations narrowed during a run |
| Authentication (`apps/api/src/auth`) | identity, setup grants, browser sessions, devices, credential families | set password, sign in, approve, redeem, rotate, revoke | overlapping sign-ins, replay, rotation races |
| Business authorization (`packages/db/src/business-authorization.ts`) | mode, directory, grants, document attributes, version | configure, cut over, suspend, publish | documents on their way when the rules change |
| Cost cards (`packages/db/src/cost-cards.ts`, `apps/worker/src/cost-card-import.ts`) | current cards, candidate objects, links | import, publish, archive, download, collect | two imports, the collector and a reader on one object |
| Store reviews (`packages/db/src/store-reviews.ts`) | reviews, authorization version | merge a batch, list pages | partial observations in any order |
| Quarantine certificates (`apps/api/src/quarantine-certificates.ts`) | certificates and photo objects | upload, archive | photos and ledgers of one receipt |
| MCP launcher (`apps/mcp-launcher`) | keychain record, lock file, transfer state | sign in, refresh, sign out, upload, download | processes sharing one record, expiring links, cancelled transfers |
| MCP gateway (`apps/api/src/mcp`, `packages/mcp-contract`) | slots, requests in flight | admit, authenticate, dispatch, delegate, answer | every way a request can end |
| File parsing, admin pages, scripts | none of their own | - | sequential |

A client creates an upload session over HTTP and sends its parts straight to
object storage; `complete` verifies the assembled object and, in one
transaction, queues the job with a processing run.  Worker loops poll for
runs, claim one under a lease, and hand each to the code for its kind, whose
last step publishes in one transaction.  Maintenance sweeps expired sessions
and packages, collects garbage objects and purges old jobs.  Agents reach all
of it through the MCP gateway, and people through the launcher, which keeps the
credential and moves the files.  The parts meet only in the database, in object
storage and in the vector store, so the actions of every model are single
transactions, statements or storage calls, and everything between two of them
may interleave.

## Modules

| module | models | run |
| --- | --- | --- |
| `PartitionImport` | `worker.ts` (claim, complete, fail), `partition-import.ts`, `publishSourceAtomically`, `finishJob`, garbage | `import_safety`, `import_settles`, `import_overtaken` |
| `CurrentCatalogue` | what ADR 0026 promises readers (abstract specification) | `import_safety` (refinement) |
| `UploadSession` | the three upload routes, `reserveUpload`, `queueCompletedUpload`, `cleanupExpiredUploads`, `statObject` of the OSS adapter | `upload_session`, `upload_altered` |
| `DocumentPipeline` | `structured-imports.ts` and its route, the evidence route, `documents.ts`, the structured and evidence branches of `worker.ts` | `documents_window`, `documents_evidence` |
| `PartitionDownload` | `partition-downloads.ts`, the package builder and its maintenance, the download routes, the operator's store cleanup | `downloads` |
| `LedgerArchive` | `packages/ledger-archive`, the three ledger jobs of the worker | `ledger_archive` |
| `LauncherSession` | credential families in the API, the launcher's keychain record and lock file | `launcher` |
| `EnterpriseWorkflow` | `apps/api/src/enterprise-workflows` | `enterprise` |
| `BusinessAuthorization` | `business-authorization.ts`, `source-read-requirements.ts`, the cutover, certificates' publication rule | `services` |
| `CostCards` | import, publication, collection, manifest and download of cost cards | `enterprise` |
| `AccountAccess` | password setup, sign-in, browser sessions, device approval | `services` |
| `StoreReviews` | merging of observations, the listing | `services` |
| `StructuredQuery` | validation, translation and paging of row queries | `services` |
| `EvidenceSearch` | chunking, indexing, search, rerank, pruning, paging, links | `services` |
| `LauncherTransfers` | the launcher's uploads and downloads | `services` |
| `McpGateway` | the life of a request to `/mcp` | `services` |
| `OrderScope` | order-scope previews, confirmations and publications | `services` |
| `PartitionExport` | `exportStructuredPartitions` and its file pool | `services` |
| `PartitionImportProofs`, `DocumentPipelineProofs`, `PartitionDownloadProofs`, `LedgerArchiveProofs` | - | proofs about the module of that name |
| `AccessProofs` | - | proofs about `AccountAccess`, `BusinessAuthorization` and `LauncherSession` |
| `EnterpriseProofs` | - | proofs about `EnterpriseWorkflow` and `CostCards` |
| `ServicesProofs` | - | proofs about `UploadSession`, `McpGateway`, `OrderScope` and `LauncherTransfers` |
| `ListsProofs` | - | proofs about `StoreReviews`, `EvidenceSearch`, `StructuredQuery` and `PartitionExport` |
| `Orders` | what ORDER BY and a sort make of a set: the list in a strict order | (used by the four above but `StructuredQuery`) |
| `MC*` | - | instances for TLC |

The modules that model one object between several parties name each other
where they meet: `LauncherTransfers` sees of `UploadSession` and
`PartitionDownload` what the launcher can see; `PartitionExport` produces what
`PartitionImport` publishes; `OrderScope` has the scope rules that
`PartitionImport` keeps as one value; `BusinessAuthorization` has the rule that
`StructuredQuery` and `EvidenceSearch` ask for as an abstract grant.

An operator that directly precedes a definition and is used nowhere else is a
deliberately wrong variant of it (most say "Mutant").  They are not part of any
specification; putting one in its definition's place must break a property.

### PartitionImport

*State.*  The columns the code reads or writes (`jobStatus`, `tempKey`,
`runStatus`, `attempt`, `lockedBy`, `object`, `writer`, `version`), the objects
in storage, the garbage rows, and per execution of `runWorkerOnce` its program
counter and locals.  An execution, not a worker, is the actor, and several may
run under one worker id: a worker loop restarted after an error keeps its ids
while old calls are still in flight.

*Time* is what the code asks of it: `live[j]` is `lockedUntil > now`, `due[j]`
is `availableAt <= now`.  `completePartitionProcessing` and `failProcessingRun`
compare with a time sampled earlier: `fresh[w]` is the answer at the sample.
Since heartbeats never revive an expired lease, the answer for an attempt goes
from true to false only once and this is exact.

*Object keys.*  A candidate's key contains a random id, so a key is the triple
(job, attempt, partition); the staging key is one per job.

*Data.*  A source is its `Manifest`: a checksum per partition.  A source with
no partition stands for one the export refuses.  Display metadata is one value
`Level`, the order scope one value `Scope`.

*Claiming.*  `claimNextProcessingRun` reads run and job in a snapshot, updates
the run only where status, attempt, owner and lease are as it read them, and
then sets the job to processing by its id.  These are `ClaimRead` and
`ClaimWrite` (or `ClaimMisses`), and what comes in between is not seen.  The
update waits for the run's row, which the publishing and the rejecting
transaction hold from their lease check to their commit (`RunLocked`).  A claim
that read the run before a publication may therefore take it over after it: the
job is *overtaken* (`Overtaken`), processing again under an attempt past the one
that published it.  Its executor is given the job without a temporary key and
fails without a retry (`Unusable`).

*Publication.*  `CommitPublication` is what the transaction of
`publishSourceAtomically` does: for each candidate `decidePartitionReplacement`
inserts, replaces, updates metadata or keeps; replaced objects, unneeded
candidates and the source are queued as garbage; the job becomes published and
loses its temporary key.  The transaction is two actions, `BeginPublish` (the
organization's lock, so one at a time, and the lease check) and `Publish` (the
commit), because the lease may run out and be read by a claim in between.  It may
commit and report an error, after which the importer asks for the authoritative
status (`ReadBack`).  A rejection is split in the same way.

*Faults.*  A crash of an execution, heartbeats that fail (`lapse`), a storage
call that fails with or without effect, a database call that fails (for a
commit: with or without effect).  `FaultKinds` says which happen, `MaxFaults`
how many.

*Abstractions.*  `mapConcurrent` uploads candidates concurrently and waits for
the ones in flight before it reports an error, so one at a time in any order
has the same outcomes.  `deleteTerminalJobs` runs days later; `Purge` therefore
asks that no execution is at work on the job.

### UploadSession

Each create, complete and cancel call and the sweep is an actor with a program
counter.  A multipart upload is open, completed or aborted; an abort of one
that is no longer open has no effect.  `queueCompletedUpload` is two steps, the
read without a lock and the write by id, because cancel and the sweep may
commit between them; the unique `processing_runs.partitionImportJobId` rolls a
second write back.

*Data.*  A source is as declared, of another size (`Resized`), or of the
declared size with other bytes (`Altered`).  `StatOf` is `statObject` of the OSS
adapter: the size is that of the object, the hash is the metadata that
`createMultipartUpload` wrote, which is the checksum the client declared.  So
`Verified` can only tell the size.  (The local adapter, for development, hashes
the bytes.)

### DocumentPipeline

*Actors.*  Upload calls, executions of `runWorkerOnce`, an administrator who
archives, the reindexing script, and time.  A structured call looks its request
up by idempotency key, by receipt, and by window (`ResolveKey`, `ResolveClaim`,
`ReleaseClaim`: three unlocked reads and a delete), reserves the document, the
batch and the window in one transaction, puts and verifies the object, and
queues the run.  A unique violation is looked up once more (`again`), a
transient error starts the operation anew, also after a commit.  An evidence
call puts its object first and deletes it when the row cannot be created.

*Documents.*  `docStatus` and `archived` (`archivedAt`) are two columns, and
they drift apart: queueing, claiming, failing and completing set the status by
id, while only `archivedAt` is never taken back.  The claim and
`completeEvidenceIndexing` read the document in their snapshot and write it
later, so each is two actions.  `completeStructuredImport` and
`archiveDocument` lock the organization's row and are one.  `archiveDocument`
has tests but no route in this version; certificates archive their documents
with the same update.

*Runs.*  `First(d)` is the run an upload creates, `Again(d)` the one
`reindex-evidence.ts` adds for another retrieval configuration.  The attempt
number stands for `lockedBy` too, as each claim is a new attempt.  Leases and
time are as in `PartitionImport`.

*Data.*  A request is its key, fingerprint, receipt and window; a file is valid
or not.  Rows are written in the transaction that applies the batch and are not
a variable of their own.  Points and the index are sets of runs.

### PartitionDownload

A request goes from none through queued, running, succeeded or failed to
expired; `manifest` pins a version per partition.  The builder's steps are
registering the candidate key, writing the ZIP, and the fenced publication.  A
write that was given up may land later (`LateWrite`), so a candidate's garbage
row outlives the candidate.  `IssueLink` compares the manifest with the current
partitions and the requester's access again.  A republished source, a lost
access or the operator's cleanup ends requests (`Terminated`) in one
transaction.  The cleanup is `BuildInventory` and an `ExecuteCleanup` that
compares what it finds with what was confirmed.  Time is `live` and `past`, as
above.

### LedgerArchive

A cell is a store and a date with a revision (its sources), a generation (the
newest render reserved), a published generation and a mark.  Changes raise the
revision; the daily scan pages through marked cells and reserves generations;
the operator's CLI does the same through requests with items; a worker renders
from a snapshot and publishes if generation and snapshot still hold; ZIP
requests are built from published PDFs.  Each run kind has its claim, failure
and retry.

### LauncherSession

Server side: session families with a chain of credentials, of which the newest
is active; a refresh rotates, a replay revokes the family.  Launcher side:
processes that share one record under a lock file, each step of taking,
breaking and releasing the lock an action (write the owner file, link, compare,
remove).  A request may be carried out after the launcher gave it up.

### EnterpriseWorkflow

A configuration is the set of stores it reaches.  A change is previewed and
confirmed under a revision; an installation is assigned with an epoch; a run
holds the lease; an external action is announced under a deduplication key
(`claimAction`), performed, and reported with a receipt that may be lost, late
or "unknown".  The migration imports the history of the previous host page by
page.

### BusinessAuthorization

One enterprise, one receipt, one dimension.  An administrator's write names the
version its page showed; the version matters only by equality, so the state is
who has the current one loaded (`fresh`).  A document is uploaded, indexed or
applied, and archived; its attributes are a resource with scopes.  `CanRead` is
`canReadResource`.

### CostCards

A worker compares its sheet with the catalogue, writes one object per changed
card, and publishes all of them if the catalogue is still the one it compared
with.  Objects of failed attempts and replaced cards go to the collector, which
waits until the links to them have expired.  A reader signs a manifest,
downloads, and starts over in an empty directory when links expired.

### AccountAccess

One identity.  A sign-in reads the hash, verifies, and then writes in separate
transactions, so sign-ins overlap with each other and with a password change.
Resetting, opening the link and submitting the form are the three transactions
of a setup.

### StoreReviews, StructuredQuery, EvidenceSearch

*StoreReviews*: a batch of patches is merged review by review under the legacy
identity and the platform's id, all or nothing; the listing follows signed
cursors by offset.

*StructuredQuery*: a request is normalised and checked, the authorization
snapshot and the statement are two reads, and a further page carries a cursor.
Rows, archives and grants change in between.

*EvidenceSearch*: the chunker cuts a sequence of pieces with lengths; points
are written before the row; a search takes a candidate window from the vector
store, revalidates it in the database, reranks under budgets, prunes and pages;
links are signed after one more look.  That look is two actions:
`BeginRecording` takes the locks on the organization and the employee, opens the
transaction's read view with the authorization snapshot (`live` is what it
contains) and compares the version; `RecordDownloads` locks the documents, counts
those that are not archived in that view (`Recordable`), and records the links.
An archive may commit between the two; a change of grants has to wait.

### LauncherTransfers, McpGateway, OrderScope, PartitionExport

*LauncherTransfers*: the multipart upload, the file-by-file download and the
ZIP download with `mapConcurrent`, `retryTransfer`, expiring links, replaced
partitions, an edited local file, aborts and lost answers.

*McpGateway*: guards, slot, authentication, envelope, version rule, arguments,
size, delegation, answer, and a client that goes away at any of them.

*OrderScope*: preview, confirmation, acceptance and publication with the
directory, the requirement and the administrators changing in between.  A store
key ignores the case of its name.

*PartitionExport*: rows through a pool of `MaxOpenFiles` files with buffers,
eviction, limits and failure.  The run takes every report of up to `MaxRows`
common rows, some that are longer, and the unusual ones one by one; four rows are
enough for a file that is opened, evicted, opened again and flushed.

## Runs

| run | question | bounds |
| --- | --- | --- |
| `import_safety` | storage is accounted for; current objects exist; replaced objects are tracked; only the newest attempt decides; the pipeline implements `CurrentCatalogue` | 2 jobs that differ on one partition and agree on the other up to metadata, 2 executions under one worker id, any 2 faults |
| `import_settles` | every accepted upload ends, unless a run is stuck (`Stuck`) | 2 jobs with conflicting scopes, crashes, lapses, storage and database errors, any 2 faults |
| `import_overtaken` | violated: a lost lease never costs current data (`LostLeaseKeepsCurrentData`) | as `import_safety` |
| `upload_session` | no source of another size than declared is queued, acceptance is final, no session stays open | a replayed create, 2 completes, a cancel, the sweep, 2 faults |
| `upload_altered` | violated: no source with other bytes than declared is queued (`CorruptNeverQueued`) | as `upload_session`, with a source of the declared size and other bytes |
| `documents_window` | the open or current import of a window holds its claim and an answered call has its file and its run (`AcceptedIsKept`); an archived import is not active | 3 imports of one window, 2 of them with one key, 1 invalid, 2 executions, any 2 faults |
| `documents_evidence` | the publish gate, reindexing keeps evidence in service, an answered upload is processed to an outcome | 1 document with 2 runs, 3 attempts, 2 executions, any 3 faults |
| `downloads` | a link serves the package it was given for; the cleanup removes exactly what was confirmed; every package is collected in the end | 1 request, 1 partition in 2 versions, 2 executions, 2 attempts, 1 fault |
| `ledger_archive` | a PDF without a mark is of the current sources; no object is lost; marked cells are rendered | 1 cell, 1 ZIP request, 1 execution, 2 CLI calls, 3 generations, 1 change, 1 fault; the operator works either alone or not at all (`OneAtATime`) |
| `launcher` | an old credential is presented only after a fault; the lock of a dead process is taken over | 2 processes, 1 family, 3 generations, 1 fault |
| `enterprise` | no action is performed twice; a run never reaches further than what it began with; current cards and usable links have their objects; no candidate is forgotten | the workflow or the cost cards (`awake`). Workflow: 2 installations, 1 run, 2 stores, 1 key, 3 actions of which 1 is history (on 2 pages), 3 chores, the last of which is only spent before an action begins (`FewActions`). Cost cards: 2 runs, 2 workers, sheets of 1 and 2 cards, 2 attempts, 1 trouble; two workers are at work at once only on sheets of one card and not during a download (`FewWorkers`) |
| `services` | the nine services without shared state, below | one service per behaviour (`awake`) |

`services` follows one service per behaviour, so that it explores the sum of
their states.  Its questions: open browser sessions are of the current password
(2 sign-ins, 2 grants, 1 device, 2 passwords); what is served after the cutover
is classified and retired references are approved (2 employees, 2 stores, a
document of each kind, 1 upload of each, 3 writes); stored reviews agree with
themselves and each review is stored once, and the pages of a listing are one
list (2 identities, 1 platform id, batches of 2); the pages of a query are one
answer (2 imports of 2 rows); the chunks are the document, the pages are one
ranking and links are current (2 documents, 2 configurations, 2 changes); a
transfer that succeeded is whole and an upload is settled (2 partitions, 3
parts, 2 concurrent transfers, 2 tries, 2 troubles); slots come back and
answers are true (2 connections, 1 slot); a scope changes only as confirmed (3
names for 2 stores, 2 previews, 2 uploads, and at most one change of the
directory or the administrators, `OneChange`); the export is the source (4
rows, 3 files, 2 open).

Why the bounds are enough: the conflicts the code has to resolve are pairwise
(two attempts of a job, two jobs on a partition, a call and the sweep, a reader
and a publisher), two attempts reach both the retry and the terminal branch
with `MaxAttempts = 2`, and two faults allow a fault during the recovery from
the first.  Where only one fault is allowed (`downloads`, `ledger_archive`,
`launcher`, the cost cards of `enterprise`) the bound is what TLC explores in minutes: recovery
from one fault is covered there, a fault during that recovery is not.
The proofs remove the bounds, of faults too, for every safety property listed
under Proofs.  `CHECK_DEADLOCK FALSE` is right in every run: jobs end, requests expire and calls return, and then nothing is left to
do.

*Fairness.*  Weak fairness of the steps of an execution or call in flight (the
event loop goes on), of claiming (workers poll), of time passing, and of
maintenance (a timer).  Strong fairness in three places, each a poll that is
disabled and enabled again by others' steps: claiming a ledger run, picking a
package's garbage row, and a launcher process that retries a lock held by
another.  No fault, no cancellation, no change of a source and no completion
by a client is assumed to happen.

## Where the code and its documents differ

The models have the following behaviours because the code has them; properties
are stated so that they hold beside them.

* *Import, overtaken.*  A claim reads run and job in a snapshot
  (`worker.ts:666-754`) and sets the job to processing by its id
  (`worker.ts:824-827`).  When the lease runs out while the publishing
  transaction is under way, a claim may read the run before the commit and take
  it over after it: the published job is processing again.  If the
  acknowledgement of the commit was lost as well, the importer reads
  "processing" (`partition-import.ts:294`) and deletes the candidates, which are
  current by now.  `structured-partitions.md:54` says that a failure or a lost
  lease does not replace valid current data.  `import_overtaken` shows it, and
  `CurrentObjectsExist` holds for jobs that were not overtaken.
* *Import, stuck.*  After the publishing commit a database error (for instance in the
  cleanup of the source) takes the failure path.  `failProcessingRun`
  overwrites the job's status, so a published job becomes `queued` without a
  temporary key and every later claim throws (`worker.ts:821`), also in front of
  other runs; on the last attempt it becomes `failed` although its data is
  current (ADR 0016).  An overtaken job can end there too.
  `AcceptedUploadSettles` therefore excepts behaviours with a run that stays in
  this state.  A crash between ending a
  job and deleting its source leaves the source for good
  (`partition-import.ts:359`), while `structured-partitions.md` says it is
  cleaned up.  The takeover of a lapsed lease does not look at
  `workerMaxAttempts`, so a run whose worker keeps dying is tried more than the
  3 times ADR 0016 names.
* *Upload, checksum.*  `routes.ts:311` compares the declared checksum with the
  metadata that `createMultipartUpload` wrote from that declaration
  (`aliyun-oss-storage.ts:167` and `192-207`), so only the size is verified:
  a source with other bytes of the same number is queued, although
  `routes.ts:318` refuses sources because "Uploaded source checksum did not
  match." and `api-contract.md:121` says "Verify and queue a completed source
  upload".  `upload_altered` shows it.
* *Upload.*  `complete` overwrites a cancellation committed after its read
  (`structured-partitions.ts:539`; `api-contract.md` says it is final), and the
  sweep may delete the source of an upload that is being accepted
  (`partition-import.ts:577`; ADR 0026).  Cancelling after `complete` assembled
  the object leaves the object, and a crash between creating the multipart
  upload and its row leaves the multipart upload.
* *Documents.*  Evidence archived while its run completes ends with status
  active and `archivedAt` set (readers ask for both, so it is not served); an
  import archived while it waits keeps its batch pending and its window
  blocked, which is why `AnsweredSettles` excludes archived documents; a lost
  answer to the creation of an evidence document deletes the object of a
  document that exists.
* *Order scopes.*  Two spellings of a store name share a key; partitions
  published under one spelling are not found by a preview that lists the other
  (`structured-partitions.ts:1249`).
* *Downloads.*  Preparing while reads are suspended pins an empty manifest.
* *Ledger.*  The attempt number of a scan counts its pages, so a long scan is
  out of attempts at its first failure; a ZIP build that times out fails
  without a retry.
* *Launcher.*  Breaking a dead process's lock compares and then removes
  (`runtime.ts:125`); two contenders may both remove, and then two processes
  hold the lock.  This is why `ReplayNeedsAFault` names the fault.
* *Workflows.*  A migration may end half imported (ADR 0027 has it complete or
  not at all), and receipts that come after a report of failure leave no
  deduplication key.  A migration may take stores away without restricting the
  open runs, and a later change compares only with the configuration it
  replaces, so such a run keeps those stores; `ReachOnlyNarrows` therefore
  speaks of what saved changes took away.
* *Authorization.*  Evidence with attributes can be uploaded while reads are
  suspended, archiving does not move the version, and a ledger without
  attributes is not compared with the photos of its receipt.
* *Certificates.*  The loser of two uploads leaves an object no row names, and
  an error after the commit deletes the object of a certificate that exists.
* *Evidence links.*  `source-documents.ts:121` says "Lifecycle is current too;
  a generated URL never leaves the service after archival."  The read view of
  that transaction is opened by `loadAuthorizationSnapshot` (111-113); the
  documents are locked afterwards (122-124), but the count of those that are not
  archived (125-132) reads the older view.  `archiveDocument`
  (`documents.ts:271-357`) locks the organization's row, which the recording does
  not ask for, so an archive that commits after the read view was opened and
  before the documents are locked is missed and the links are given out.
  `LinksAreCurrent` therefore compares with the read view (`live`); with the
  documents that are not archived at that moment in its place it is violated
  within eight steps.
* *Evidence search.*  Points of archived documents take places in the candidate
  window; a chunk of overlong words may be empty; with the rerank disabled the
  newer configuration answers nothing; an index that changes between two pages
  shifts their offsets (`PagesAreOneRanking` compares pages of one index).
* *Structured query.*  Archiving does not move the version, so a page by offset
  may skip rows; ties of an aggregate's sort are not broken, so its order is
  the database's; an empty `in` list is a server error.
* *Gateway.*  An internal error says `retryable: false` over HTTP and true in a
  tool's answer; a JSON-RPC batch takes one slot.
* *Export.*  The number of bytes that `handle.write` reports is not looked at.

## Proofs

All for arbitrary constants (any number of jobs, executions, calls, documents,
attempts, stores and faults), from the named assumptions of the component's
module alone.  The assumptions say what kind of thing a constant is, and a few
say more: a download names finitely many partitions, and a computer runs
finitely many launcher processes; what arrives at `/mcp` has one of the known
tools, a version and a size (`ArrivalsAssumption`); an order file has one row
per store key and day, as the exporter writes it (`OrderScopeAssumption`);
evidence documents are neither ledgers nor photos; the cells of an archive are
listed once each; and a model value for "none" is none of the values it is put
beside.  For the lists: review times and ids are numbers
(`ReviewsAssumption`); relevance is a number, and the fused scores of the vector
store have their ties resolved (`EvidenceAssumption`); stored rows are finitely
many with a primary key each, their payload values are ordered as numbers are, and
a filter's parts are filters (`QueryAssumption`); limits and sizes are numbers
(`ExportAssumption`).

* `PartitionImportProofs`.  `Inductive == TypeOK /\ LeaseFencing /\
  StorageAccounting` is inductive, with one lemma per action.  Neither half is
  inductive alone.  `CurrentObjectsExist` needs to know that no garbage key, and
  no key in the collector's hands, is current (`StorageAccounting`); that a
  publishing attempt's candidates are all in storage and nobody else deletes
  them; and for that, that attempt numbers separate executions, that an
  execution that may still publish is of an attempt before any that published,
  and that one that reads back after its own publication is answered
  "published" or was overtaken (`LeaseFencing`).  The last disjunct is why
  `Abandon` after `ReadBack` is safe for every job but an overtaken one, and why
  both invariants except that job.  A claim that overtakes cannot publish again,
  since the job it is given has no temporary key.  From
  it: the refinement of `CurrentCatalogue` (`Publish` maps to `PublishWhole`,
  everything else stutters; that needs `publishedAt[j] = 0` while an execution
  can publish), `NewestAttemptDecides`, and `SupersededIsGarbage`, which adds a
  conjunct of its own.
* `DocumentPipelineProofs`.  `PipelineInv` says for each upload call what it has
  created so far and still holds, for each execution what it read and what of
  that nobody else can change, and for each row how run, batch, window and
  document agree.  The two-action claims and completions are why: a completion
  knows from its snapshot only that the run was its own.  `Stable` says what no
  step takes back (archiving, points, the source of an import), and that carries
  one actor's part of the invariant over the steps of all others.
  `PublishGate`, `ArchivedIsNotActive`, `AcceptedIsKept` and `ServiceIsKept`
  are its consequences.
* `PartitionDownloadProofs`.  A package stays while a link to it can be used:
  `Inv` says that an offered package is in storage, that its garbage row waits
  for the request's end and the collector has not picked it (`Offered`); that
  what the collector has picked is of an attempt that lost its lease
  (`Collecting`), and that an execution that may publish has its package in
  storage (`Building`).  Since a lost lease does not come back, a picked key is
  never published.  Every attempt beyond the last retry is paid for by a fault,
  which bounds the attempts (`Budget`).  `CleanupIsExact` follows because the
  inventory is compared in the deleting transaction.
* `LedgerArchiveProofs`.  `Inv == Jobbing /\ Objects /\ Current`.  `Jobbing`:
  an attempt is one execution's (`UniqueOK`), because a claim counts the attempt
  up and a lost lease does not come back.  `Objects`: an object that a cell or a
  ZIP request names, or that a late upload may still write, is of an attempt that
  writes no more (`SpentOK`), and the candidate row written before the upload
  stays until the publication takes it over, also over deletions by other
  executions (`CandidatesOK`); with `NamesOK` that gives `ObjectsAccounted`.
  `Current`: ledger rows and photos that change take the cell's revision along,
  so a renderer whose revision is still the cell's has the sources of now
  (`SeenOK`), and so has the PDF published at it (`CurrentOK`); that is why
  comparing the revision and the catalogue in the publishing transaction is
  enough for `UnmarkedIsCurrent`.
* `EnterpriseProofs`, cost cards.  `CardInv`: an object belongs to a run, an attempt and a
  card; an attempt has one worker at most (`OneWorker`); a referenced object is
  of a run that succeeded and that no worker is still in (`Settled`), so nothing
  is written to it or collected; whatever else is stored has a queue entry that
  its worker or the replacement wrote (`QueueOK`), and an entry waits until the
  links are out of date (`LinkedOK`).
* `EnterpriseProofs`, workflows.  `Reach /\ Ledger`: an open run's limit is within
  what saved changes left of the configuration (`LimitsOK`: `restrict` cuts the
  limit to the new configuration, and a change takes away only what the old one
  has and the new one has not); an action that may be performed holds its key, a
  key claimed for the first time belongs to no performed action, a report of
  failure frees a key only if nothing was performed, and imported history is
  confirmed and has no permit.  Together: `NotReplayed` and `ReachOnlyNarrows`.
* `AccessProofs`.  `BrowserSessionsAreCurrent` (a session is only issued under
  the current fingerprint, and whatever changes the password closes all
  sessions), `OneWayToSetIt` (a link and a form are open in turn: opening one
  uses up the link, a reset withdraws both), `LevelIsTheFailures` (relates two
  counters).  `EnabledIsClassified` is inductive with the types: complete
  attributes are attributes, so what `requirePublicationAttributes` lets through
  and what the readiness check saw stay classified.  `NoSilentWidening` is an
  action property: only loading a page, a ledger's upload and archiving keep the
  version, and none of them lets anybody read more.  `ApprovalCoversSelection`
  needs that a pending approval is always one of the selection the document has
  now (`IntentApproved`), which is what `Retained` is for.  For the launcher,
  `LauncherInv` says that as long as nothing has failed the lock is one
  process's, since no owner is dead and nobody removes another's file
  (`Exclusive`); that the one refresh under way presents the record
  (`RefreshOK`); and that the record can be used unless its rotated successor is
  about to be stored or its family has ended (`CredentialsOK`).  A refused
  refresh then finds a family that is not active, which is `ReplayNeedsAFault`.
  A new lock file differs from every remembered one by the pigeonhole principle
  (`FreshIdIsNew`).
* `ServicesProofs`.  Uploads: what a call read before its write may be
  outdated, so the proofs are about writes.  Each lemma says what a kind of step
  may do to a row (`Reserves`, `Accepts`, `Finishes`), and `AcceptanceIsFinal`
  follows because every write but `Accepts` asks for an open session in its own
  statement.  `WrongSizeNeverQueued` is inductive with `QueuesOnlyRightSize`: a
  call that is about to queue has compared the size of an object that cannot
  change any more.  `RunIffQueued`: overlapping complete calls queue a job once.
  Gateway: a request holds a slot exactly at the stages
  between acquisition and answer, and the counter is the number of those
  requests; what is known of a call grows with its stages (`Staged`), which
  gives the answers.  Order scopes: one current partition per place, a preview
  keeps what it was made of, and an accepted upload names a preview that an
  administrator confirmed for its rows.  Transfers: `TransferInv` says
  what of the manifest is in the directory while files are moved (`FilesOK`),
  extracted (`ExtractOK`) and about to be sealed with `manifest.json`; the
  links that expire send it back to an empty directory, so no file of the first
  manifest reaches the second.  A session that is open, and whose answers all
  arrived, has a call that will complete or cancel it (`SessionOK`).
* `ListsProofs`.  An `ORDER BY` and a sort are `InOrder(S, R)`: the i-th element
  is the one with i - 1 others before it.  The lemmas about it (`BelowGrows`,
  `EveryPlaceIsTaken`, `OnlyInOrder` and what follows) say that for a strict
  order of a finite set this lists each element once, and is the only list that
  does, so that no sort needs induction over a list.
  - Reviews: `ReviewsInv`, since merging patch by patch keeps every status the
    one its texts call for; and `PagesInv` for `PagesAreOneList`: rows have an
    id each, so `ORDER BY` leaves no ties, and no cursor is of a version to come,
    so whatever moves the version (every batch does, `Stamp`) closes all of them.
  - Evidence: `LinksInv`: an answer's snapshot is not newer than the version it
    is compared with, and while the recording transaction is open the grants are
    those it compared.  `RankInv` for `PagesAreOneRanking`: a cursor that would
    be accepted now continues the ranking as it would be computed now
    (`CursorOK`); a search in flight answers from the index it began with or knows
    that it does not (`SearchOK`); so does an answer on its way (`AnswerOK`).
    A candidate window that is not full holds every match, a rerank request
    that left nobody out scores the same whatever order the candidates came in,
    and without a relevance policy the ranking has all candidates: so pages that
    do not warn show all of what the reader may read.
  - Row queries: `ReadsInv`: what a caller may see changes only with a version
    or, before the cutover, never (`SnapshotKnown`); a compiled read and a page
    keep the authorization of the first page as long as the cursor's hash agrees
    (`SameAuthorization`), and the rows so far are the head of a list that this
    authorization has (`HeadOfTheList`).  `Lists` is a set, because aggregates
    and ties leave the database a choice; that two pages take the same list is
    proved for queries whose order is total, for which the set has one element.
  - Exports: `ExportInv`: each file, with the buffer the pool still has for it,
    is its header and the data rows read so far that belong to it, in order
    (`FilesOfRows`), with `hashed`, `count`, `bytes` and `name` to match; opening,
    flushing, evicting and reopening a file leave that sum alone, so the sizes of
    the pool and of its buffers do not matter.

Only model-checked:

* the liveness properties, because the prover does not reason about fairness;
* `ChunksAreTheDocument`: the chunks of a document are computed by recursion over
  its blocks, and that they are faithful cuts of every document takes induction
  over the data.

## Not modelled

* The bytes of CSV, XLSX, DOCX and PDF files, embeddings and model scores, the
  look of a PDF: data that no property here tells apart, and beyond what TLC
  explores usefully.
* Admin web pages, the launcher's command line, installation and stdio bridge,
  fixtures, acceptance and deployment scripts: sequential, no shared state.
* The storage adapters' request code: storage is a set of keys with put, stat,
  delete and multipart semantics.  What the OSS adapter answers to `statObject` of
  a multipart upload is modelled (`StatOf`).
* In modelled components: deletion of test accounts and disabled identities
  (accounts), the choice of stores and dates and clock skew (cost cards),
  schedules' time windows and weekly reports (workflows), suspension of an
  organization (ledger), the formats of decimals and dates (query).

Of the properties the runs check, those that no theorem states are the six
liveness properties and `ChunksAreTheDocument`, for the reasons given under Proofs.
