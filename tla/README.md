# A model of the RAG ingestion service

This directory specifies the core of `rag_ingest` (the code under `src/app`) in
TLA+, checks it with TLC on small instances and proves its safety with TLAPS for
instances of any size. It is written for somebody who has the repository at hand;
`PROJECT.json` names for every definition the lines it stands for.

## 1. The system and its parts

The service keeps *rag sets* of documents. A document is uploaded, imported from an
archive, from a staging prefix or referenced in a foreign bucket; a worker has it
converted by docling, embeds its chunks and loads them into OpenSearch. There is no
transaction over the four stores involved, so the whole correctness of the service
rests on the order of its steps.

| Part | Code | State | Operations | Talks to |
|---|---|---|---|---|
| HTTP handlers | `app/api/rags.py`, `admin.py` | per request: what it has read and what it still has to do | create and delete a set, upload, from-bucket, delete a document, icon, archive and prefix imports | Postgres, SeaweedFS, both queues |
| Control plane | `app/db/*` | `rag_sets`, `documents`, `ingest_jobs`, `import_batches` | short transactions; unique `(rag_id, content_hash)`, foreign keys with cascades | called by handlers and jobs |
| Object storage | `app/storage/seaweed.py` | buckets `rag-docs`, `rag-icons`, `rag-staging` and foreign buckets | put, get, delete, delete a prefix, list | called by handlers and jobs |
| Search index | `app/search/*` | chunks stored, chunks visible since the last refresh | bulk load, refresh, delete by query | called by jobs; periodic refresh (30 s) |
| Queues | `app/tasks/conn.py`, `Dockerfile` | `ingest`, `maintenance` | enqueue, take; `ingest` first; no retry | handlers and jobs put, workers take |
| Jobs | `app/tasks/jobs.py`, `app/pipeline.py` | per worker: the job and its progress | ingest_document, purge_document, purge_rag, expand_archive, import_s3_prefix | all stores |
| Bucket selection | `app/bucket_import.py` | none: a function of a listing | select, drop_known, the quota loop of the handler | handlers |
| Archive plan | `app/archive.py` | none: a function of a directory | limits, safe names, suffixes | expand_archive |
| Docling client | `app/docling/*` | one conversion task | submit, poll until a deadline | ingest_document |
| Embedding pools | `app/api/embed.py`, `app/embeddings/*` | two semaphores with their lines, one or two models | embed for queries or for indexing | workers over HTTP |
| Startup | `app/main.py`, `app/state.py` | a ready event between two servers | load models, create the index, serve | all |
| Sets' settings and limits | `rags.py`, `schemas/rags.py`, `repo.py` | name, prompt, thresholds, number of sets | create, patch, list with derived status | Postgres |

What is hard here, and what makes each part correct:

* **Interleaving.** Handlers await between a read and the write that relies on it
  (quota, duplicate lookup, ownership); several workers run jobs about the same
  document. Correct: a visible document has its object (`RowHasObject`), a job
  always finds a row or knows that it was deleted (`JobFollowsRow`), a purge leaves
  nothing that a search can find (`PurgeLeavesNoChunks`), the quota holds
  (`QuotaRespected`).
* **Partial failure.** Each handler and each job may end after any step, by an
  exception, a killed process or a store that does not answer. Correct: every document
  and every batch ends with a verdict (`DocumentsSettle`, `BatchesSettle`), nothing
  is forgotten while no process dies (`NoForgottenDocument`), counters agree with
  what exists (`CountMatchesSearch`, `BatchCountsDocuments`), staging is emptied
  (`StagedArchiveIsOwed`).
* **Ordering.** A chunk is stored long before a search sees it; the worker reports
  success after a refresh. Correct: the service implements the document catalog
  (`ImplementsCatalog`): an indexed document answers with the same chunks until it
  is removed.
* **Limits.** The bucket import has a limit of files, of bytes per file and of bytes
  per set. Correct: `RowsNeverCollide`, `OneVerdictEach`, `ImportKeepsQuota`, and a
  repeated import makes progress (`RepeatedImportTakesNew`, `SmallPrefixImported`). An
  owner may have a limited number of sets, which two requests may pass together
  (`LimitOvershootBounded`), and their names differ (`NamesAreUnique`).
* **Timeouts.** docling may never finish a task, a model may take longer than its caller
  waits, the API process may die in between. Correct: every job ends (`JobsEnd`) within
  its patience (`PatienceBounded`) and never gives up a result that is there when it asks
  (`ResultIsKept`); no slot is lost (`SlotsAccounted`), and a document embedded in part is
  not taken for a whole one (`EmbeddedMeansAll`).
* **Startup.** Two servers of one process share what one of them builds. Correct: nothing
  is embedded before (`EmbedOnlyWhenReady`), and the second server follows
  (`InternalFollows`).
* **Reading somebody else's directory.** An archive has entries of equal names and equal
  contents, and others upload and delete the same contents meanwhile. Correct:
  `NamesStayApart`, `EveryContentArrives`, and counts that add up (`VerdictsAddUp`).

The list of hazards with the line where each one bites and the properties that
cover it is in `PROJECT.json`. Some have no property: there the code has a gap that the
repository does not deny (a lost enqueue is not made up for, a purge that raises is not
retried, a killed worker leaves its document in `processing`), so that there is nothing
true to assert; the properties nearby are stated without that failure, and the entry says so.

## 2. Modules

```
Stores ──┬── Api ───────────────┐
         └── Worker ── Imports ─┴── IngestService ── MCIngest
DocumentCatalog (abstract) ───────────┘     └── IngestServiceShape ── IngestServiceProofs
                                                  ── IngestServiceCatalog, IngestServiceLedger   (proofs)
BucketImport ── MCBucket, BucketImportProofs
DoclingClient ─┐
EmbedPool ─────┼── Pipeline ── MCPipeline
Startup ───────┘       └── PipelineProofs
RagSets ── MCRagSets, RagSetsProofs
ArchivePlan ── MCArchive, ArchivePlanProofs
```

**Stores** holds the shared state and the effects on it that several callers use.
`ragRow` is a set's row (`none`, `alive`, `hidden` once `deleted_at` is set, `gone`),
`docRow` a document's status or the absence of its row, `jobRow` the stamps of its
`ingest_jobs` row, `batchRow` and `batchCreated` an import batch. `objects`, `icons`
and `staged` are the three buckets. `index` is what OpenSearch has stored and
`visible` what a search or a `delete_by_query` sees: `RefreshIndex` makes them equal,
and `DeleteByQuery` deletes visible chunks only, as OpenSearch does. `ingestQ` and
`maintQ` are sets of identifiers: every identifier is enqueued at most once per
queue in the code, except a set deleted by two requests at the same time, whose second
purge is idempotent. `issued` stands for the uniqueness of `uuid4`: the set, the
content and the origin of a document are fixed functions of its identifier, so that
choosing an unused identifier chooses the file.

**Api** has one process per request in flight. `apc` names the next step, `adocs`
the documents in hand, `ajobs` those enqueued and not yet recorded, `aused` the local
variable `used` of `upload_documents`. A step is what a handler does up to its next
store: reads that precede a handler's first write are one step with it. One file of
an upload is `PutObject`, then `LookupHash`, `DiscardDuplicate` or `InsertRows`, then
`EnqueueIngest`, then `RecordJobs`; a bucket import enters at `InsertRows` with all
its documents. `CanInsert` is the unique key and the foreign key: a violation ends the
request with a 500. `ApiError` ends a request anywhere.

**Worker** has one process per RQ worker. `ingest_document` is `TakeIngest`,
`BeginIngest`, `Convert` (any set of chunks; those the index shows are dropped; a missing
object fails), `Load` (any part may be refused, as with `raise_on_error=False`),
`Refresh`, `MarkSuccess` or `MarkFailed`. The two purges follow the code call by call.
A worker takes from `maintenance` only when `ingest` is empty. `WorkerError` is an
exception at any step, `LoadBreaks` one that leaves chunks behind, `Crash` a killed
process. RQ's job timeout is an exception at that step only when its alarm goes off in
code of the job. Mostly it goes off in the selector of the event loop, and `asyncio.run` then
cancels the coroutine with a `CancelledError`, which `except Exception` does not catch. The
document of an indexing job stays in `processing`: that is `Crash`. The batch of an
import stays in `processing` too, while the `finally` clause of `_expand_archive` empties the
staging: that is the third disjunct of `WorkerError`.

**Imports** continues Worker with `expand_archive` and `import_s3_prefix`, which
differ only in the staging object (`Leave`, `Unstage`) and in the verdict *rejected*.

**IngestService** composes them, states the properties and the inductive invariant
`IInv`, and maps the service to **DocumentCatalog** (`View` is what an owner sees of
a document, `Found` what a search answers).

**BucketImport** is a model of its own: `Select`, `DropKnown` and `FitQuota` translate
the loops over a listing, under the two from-bucket handlers, a bucket that changes and
deletions. Each loop is a function of the position in its list, one value per iteration
(`Judge` and `Weigh` are the bodies), so that the proofs can speak of its iterations;
`Within` is the part of a list that the bucket has. Its handlers run one at a time; their
interleaving with the rest is IngestService's (`StartBucket`, `CreateFromBucket`).

**Pipeline** opens what Worker calls `Convert`: there the conversion and the embedding of
a document are one step with any outcome, here they are the subject. It composes three
modules. **DoclingClient** is `chunk()`: `Submit`, then `AskStatus` and `ReadStatus` until the
task has ended or the deadline has passed, then `Fetch`. docling-serve serves the status in
`AskStatus`, the answer carries it (`seen`), and the clock is read when it has arrived
(`ReadStatus`), so that a task may end in between. `waited` is the time since the deadline was
set, advanced by the answers and by the pauses, which are part of `ReadStatus`; `task` is
docling-serve's, which ends tasks when it likes (`TaskEnds`) or never. That an answer takes
at most `MaxDelay` is an assumption: `request_timeout` bounds each phase of a request, not
the whole of it. **EmbedPool** is
`POST /embed`: a semaphore is its value `free` and its `line`; `Finish` hands the slot to
the first waiter, as asyncio does. The handler does not see a caller give up, so that giving
up (`BatchAbandoned`) changes nothing in the pool: the call stays in its line and later runs
the model for nobody. **Startup** is the lifespan of the public application and
the internal one that waits for `state.ready`, in the three `Modes` of `run`. Pipeline adds
the batches of a job (`SendBatch`, `Receive`), the searches of the other pool, RQ's
timeout (`JobStopped`, with the outcome *stopped*: no verdict in general, see Worker) and the death of the process, which takes the calls with it
(`ProcessDies`).

**RagSets** has the handlers that make, edit and delete a set, two steps each: what they
read, and what they write in a later transaction. `Taken` is the partial unique index on
owner and `lower(name)`. `Newer` is SQLAlchemy's unit of work: a PATCH writes the
fields that differ from what it loaded. `prompt` stands for every field other than the
name; names are compared up to `lower()`.

**ArchivePlan** is `archive.plan` under `expand_archive`. A name is a base, counters
and a suffix, since renaming `doc.txt` to `doc_1.txt` and the possibility that another entry
is called so are all that the loop is about. The code filters the
directories first and loops over the files; here one loop passes them over. The
registration of an entry is `Lookup` and `Insert`, with the uploads and deletions of others
in between (`Elsewhere`): a row of the same content inserted between the two fails the
batch, and a content deleted meanwhile is registered again. The other steps are `Imports`'
matter, which in turn does not know entries. `found` is no state of the code: it remembers
which contents the set had when the batch looked for them. `ZipFile.read` by name returns the last entry of that name.
The search for a free counter is bounded by the number of entries planned so far; that
this is enough is checked, because the run checks deadlock.

Abstractions common to all: names, keys and texts are identifiers; all documents of
IngestService have one size, so that a quota is a number of documents; logging, HTTP
codes and response bodies are left out (a request that fails just ends).

## 3. Runs

All numbers are with the configurations in this directory.

| Run | Asks | Instance |
|---|---|---|
| `OneWorker` | `TypeOK`, `RowHasObject`, `JobFollowsRow`, `NoForgottenDocument`, `PurgeLeavesNoChunks` | one set, two uploads of equal content and a reference, two requests, one worker |
| `Faults` | `CountMatchesSearch`, `IconKeyHasObject`, `JobTellsStatus`, `ImplementsCatalog`, `ReadySetStaysReady` | one request, two workers, failing steps and kills everywhere |
| `Removal` | `RowHasObject`, `HiddenRagsVanish`, `BatchesSettle`, `DocumentsSettle` | two sets, an upload in one and an archive in the other, failing steps of indexing jobs |
| `Imports` | `NoForgottenDocument`, `BatchCountsDocuments`, `StagedArchiveIsOwed` | an archive and a prefix, an upload of equal content, failing steps, jobs stopped by RQ, an archive that is too large |
| `Bucket` | `TypeOK`, `RowsNeverCollide`, `OneVerdictEach`, `ImportKeepsQuota`, `SmallPrefixImported` | five keys: two equal, one large, one of a wrong type; limits of two files and two bytes |
| `Pipeline` | `TypeOK`, `SlotsAccounted`, `WaitsForOwnPool`, `EmbedOnlyWhenReady`, `EmbeddedMeansAll`, `PatienceBounded`, `ResultIsKept`, `JobsEnd`, `InternalFollows` | two jobs of up to two and one batches, a search, one slot per pool, all modes, a start that fails at either of two steps |
| `RagSets` | `TypeOK`, `LimitOvershootBounded`, `NamesAreUnique`, `PatchMerges` | one owner, three sets and names, two requests, a limit of one set |
| `Archive` | `TypeOK`, `VerdictsAddUp`, `NamesStayApart`, `EveryContentArrives` | every archive of at most four entries out of ten, three contents that come and go meanwhile |

Four runs are expected to find a violation; each is a disagreement between the code
and what the repository says of it, listed under `findings`:

* `OrphanChunks`: with two workers, a document deleted after the worker's only look
  at its row is purged before its chunks are loaded, and they stay.
* `OrphanObjects`: an object whose row could not be inserted is never collected.
* `Quota`: two uploads of different files into one set read the same used size, and each
  stores its file: the set is over its quota.
* `BucketLimit`: the limit on files counts what the set already has. Nothing happens in
  this run but that a set is made of a prefix of two objects, with a limit of one, and the
  import is repeated (`RepeatSpec`): each time the known object uses up the limit, and the
  other one is refused for it, for ever.

What the models showed besides, where the repository promises nothing else:

* An object refused for the quota still counts in `used` (`rags.py:483`), so that one large
  object refuses all those listed after it. `SmallPrefixImported` is therefore stated for
  prefixes that fit.
* The limit of sets can be passed by one less than the number of racing requests, and no
  further.
* The 409 "a set of this name exists" also answers a PATCH with a null for a column
  that must not be null; and a create or PATCH whose set is purged before
  `session.refresh` answers 500 although its commit stood.
* An import whose Redis is away between the row and the job of an entry leaves that document
  `pending`; it is excluded from `NoForgottenDocument` where import steps may fail.
* A task of docling-serve that ends while the last answer before the deadline is under way is
  given up although it has a result. `ResultIsKept` is therefore about results that are there
  when the client asks.
* A content that is uploaded between an import's lookup and its insertion fails the whole
  batch, and those of its documents that came before stay with a batch that counts none.
* In split mode a start that fails leaves the process alive: the internal server waits for
  an event nobody will set, `asyncio.gather` waits for it, and the restart policy of the
  container does not apply. With `internal_port = 0` the process ends and is
  restarted (`Restart`).
* Under `INGEST_RELOAD=true`, which `docs/deploy-dev.md:163` describes, nothing serves
  `/embed` unless `internal_port` is 0: `Pipeline` has this mode as `"reload"`, with two ports
  configured, and its jobs fail.
* With `separate_query_embedder` off both semaphores guard one model, as the README of the
  repository intends (lines 126-129): it may then run the threads of both pools at once.
* Nested archives, oversized entries and entries without a name are skipped like those of an
  unsupported suffix, whereas `README.md:754-759` calls the suffix the only such case. Of
  entries with one and the same raw name only the last is read, as often as there are such
  entries; `EveryContentArrives` is stated for archives with distinct raw names.

**Why these bounds.** The hazards are races of two actors about one document or one
set, so two requests, or two workers with one request, are enough for each of them, and
two documents of equal content for every duplicate. One chunk per document distinguishes
*none*, *some* and *stored but not visible*; with it a bulk load is taken or refused. Two
sets are needed only where a purge might touch the other one. Identifiers are finite
and never reused, so an instance comes to rest when all are used up and all sets
purged: this is why the IngestService runs say `CHECK_DEADLOCK FALSE`. `MaxDocs` bounds
what a set holds; no other counter grows.

In `Pipeline` two jobs are needed for a line in the ingest pool and two batches for a
failure after a success; time is counted in units of the pause between two polls, with a
patience of two units and answers of at most one, so that answers come before, at and after
the deadline, and a client asks again both early and late. With one search and one slot per
pool only calls of the ingest pool wait; a second search makes the run too long, and
`PoolsAreSeparate` is proved without a bound. In `RagSets` two requests can bring a limit of one set to two, and a third
set and name let a rename collide with either. Three files are a name given twice and a
name that looks like its second form, or two equal contents and one of any other kind; a
fourth entry is a directory, or the file that exceeds the limit. The limit of eight bytes
can be passed by three files. Jobs, calls and sets are
used up, so these two runs say `CHECK_DEADLOCK FALSE`; `Archive` ends in `Done`.

**Symmetry.** Requests, workers and chunks are interchangeable in every definition; the
runs with liveness do not use it. In `RagSets` so are sets and names, since one user owns all
sets.

## 4. Fairness

`Fairness` asks that a request runs to its response (`ApiContinue`: the process runs
its coroutines), that a worker takes and finishes jobs while there are any (RQ's loop),
and that the index refreshes by itself (`refresh_interval`). It asks nothing of
clients and nothing of failures. Weak fairness is enough, because no other process can
disable the next step of a request or a job. What the code does not guarantee under
failures is not asserted under them: a killed worker leaves its document in
`processing` (`docs/deploy-prod.md` says so), a purge that raises is not retried, a
request that dies between commit and enqueue leaves a pending document. `Faults` names
classes of failure: `"api"` (a request ends anywhere), `"tooBig"` (an archive is refused
after its batch was committed), `"worker"`, `"import"` and `"purge"` (a step of an indexing,
import or purge job raises, or RQ stops an import) and `"crash"` (a worker is killed, or RQ
stops an indexing job). `Removal` has `"worker"` only:
documents must settle whatever an indexing step does, sets and batches
where their own jobs do not fail. `RepeatSpec` of BucketImport asks of the caller that he
repeats the import.

Pipeline asks that a worker goes on with its job, that a model comes back from each batch
(`asyncio.to_thread` always returns or raises) and that the start goes on while its steps
succeed. It asks nothing of docling-serve, of searches, or of a process that dies again and
again: `JobsEnd`, by which a job does not hold its worker for ever, holds because of the
deadline, and because a call whose process died has failed. It does not rest on RQ's timeout,
on which there is no fairness. Weak fairness suffices for a waiting call, because a semaphore serves its line in
order.

## 5. Proofs

Everything below holds for every value of the constants that satisfies
the module's named assumption. For the theorems about IngestService it is `StoresAssumption`
(Stores): finitely many documents and chunks, disjoint kinds of
identifiers, and set, content and origin as functions of a document's identifier.
`Requests`, `Workers`, `Ops` and `Faults` are arbitrary sets, so that the number of
handlers and workers at work is not bounded. `PipelineAssumption` and those of its parts say
that calls are finitely many, that a call of a job names the ingest pool and a search the
other one, and that a pool has at least one slot; `RagSetsAssumption` that sets and requests
are finitely many and the markers are no values; `ArchivePlanAssumption` that archives
are sequences of entries; `BucketAssumption` that a listing and a request name no key twice,
sizes are numbers, and the limit of files is at least one. Nothing is assumed of scheduling.

| Theorem | Module | States |
|---|---|---|
| `TypeCorrect` | IngestServiceShape | `Spec => []TypeOK` |
| `VisibleDocumentHasObject` | IngestServiceProofs | `Spec => []RowHasObject` |
| `JobsFollowRows` | IngestServiceProofs | `Spec => []JobFollowsRow` |
| `RowsNeverReturn` | IngestServiceProofs | `Spec => [][RowsGoForward]_vars` |
| `NothingIsForgotten` | IngestServiceProofs | `Spec => []NoForgottenDocument` when neither `"api"` nor `"crash"` is in `Faults` |
| `IndexedAtMostOnce` | IngestServiceCatalog | `Spec => [][VerdictsStand]_vars` |
| `ReadyStaysReady` | IngestServiceCatalog | `Spec => ReadySetStaysReady` |
| `CountsMatchSearches` | IngestServiceCatalog | `Spec => []CountMatchesSearch` when `RefreshAfterLoad` |
| `ServiceImplementsCatalog` | IngestServiceCatalog | `Spec => ImplementsCatalog` when `RefreshAfterLoad` |
| `StampsTellStatus` | IngestServiceLedger | `Spec => []JobTellsStatus` |
| `IconKeysHaveObjects` | IngestServiceLedger | `Spec => []IconKeyHasObject` |
| `StagedArchivesAreOwed` | IngestServiceLedger | `Spec => []StagedArchiveIsOwed` when neither `"api"` nor `"crash"` is in `Faults` |
| `BatchesCountDocuments` | IngestServiceLedger | `Spec => []BatchCountsDocuments` |
| `PurgesLeaveNoChunks` | IngestServiceLedger | `Spec => []PurgeLeavesNoChunks` when `RefreshAfterLoad`, with one worker, and none of `"api"`, `"crash"`, `"worker"` and `"purge"` in `Faults` |
| `PipelineTypeCorrect` | PipelineProofs | `Spec => []TypeOK` |
| `SlotsNeverLeak` | PipelineProofs | `Spec => []SlotsAccounted` |
| `PoolsAreSeparate` | PipelineProofs | `Spec => []WaitsForOwnPool` |
| `ServedAfterStart` | PipelineProofs | `Spec => []EmbedOnlyWhenReady` |
| `PatienceIsBounded` | PipelineProofs | `Spec => []PatienceBounded` |
| `NoBatchIsLost` | PipelineProofs | `Spec => []EmbeddedMeansAll` |
| `ResultsAreKept` | PipelineProofs | `Spec => ResultIsKept` |
| `RagSetsTypeCorrect` | RagSetsProofs | `Spec => []TypeOK` |
| `OvershootIsBounded` | RagSetsProofs | `Spec => []LimitOvershootBounded` |
| `NamesStayUnique` | RagSetsProofs | `Spec => []NamesAreUnique` |
| `EditsMerge` | RagSetsProofs | `Spec => PatchMerges` |
| `ArchiveTypeCorrect` | ArchivePlanProofs | `Spec => []TypeOK` |
| `CountsAddUp` | ArchivePlanProofs | `Spec => []VerdictsAddUp` |
| `PlannedNamesDiffer` | ArchivePlanProofs | `Spec => []NamesStayApart` |
| `NoEntryIsLost` | ArchivePlanProofs | `Spec => []EveryContentArrives` |
| `BucketTypeCorrect` | BucketImportProofs | `Spec => []TypeOK` |
| `RowsAreUnique` | BucketImportProofs | `Spec => []RowsNeverCollide` |
| `VerdictsAreSingle` | BucketImportProofs | `Spec => []OneVerdictEach` |
| `QuotaIsKept` | BucketImportProofs | `Spec => ImportKeepsQuota` |
| `SmallPrefixIsTaken` | BucketImportProofs | `Spec => SmallPrefixImported` |

Where a theorem has a hypothesis, the code gives it or the property needs it.
`RefreshAfterLoad` is the default of `refresh_after_load` (`config.py:31`) and the value in every
run; without it a success is reported before a search can find the chunks. A request or a
worker that dies half-way does leave documents `pending` and archives in staging. That
`PurgesLeaveNoChunks` needs one worker is what the run `OrphanChunks` shows. The hypotheses
on `Faults` are those of the runs that check the property (`OneWorker`, `Imports`), and are
weaker where the proof allows it.

**Type correctness.** `TypeOK` is not inductive: a request that enqueues `aset[r]` keeps
`maintQ` typed only if `aset[r]` is not `None`, and a purge of `wjob[w]` keeps `icons`
typed only if the job is about a set. `Shape` adds what is missing: at each
step of a handler or job, the identifier it works on is of the kind that step expects. The
lemmas go operator by operator (`GotoShape`, `TakeShape`, `DocumentRowsType`, ...) and then
family of actions by family.

**Objects and rows.** `RowHasObject` is about two stores which no transaction joins, and
is preserved only because of what is in flight. `IInv` is `Shape` and `Sound`, and the
parts of `Sound` say, besides the two properties: identifiers are drawn before their row
and for a set that exists (`DrawnBeforeUse`); a document in hand, between its object and
its row, has no row yet, has its object, and is in no other hand (`RequestIsSound`,
`WorkerIsSound`, `HandsAreDisjoint`), so that discarding it takes nobody else's object; and
a purge, queued or running, is about a document whose row is deleted or a set that is
hidden (`QueuesAreSound`, `JobIsSafe`), so that what it takes is no longer visible. The
proof is one of rely and guarantee. `Gentle(S)` is what a process with the documents `S` in
hand may do to the stores: move rows forward, give a row to a backed document of `S`, take
away objects of `S`, of deleted documents and of hidden sets, and enqueue only safe jobs. A
gentle step leaves every other process sound (`GentleKeepsRequest`, `GentleKeepsWorker`)
and keeps the two properties (`GentleKeepsObjects`, `GentleKeepsQueues`); then each action
is shown to be gentle and to leave the process that takes it sound. `RowsNeverReturn` is
the first conjunct of `Gentle`: an `UPDATE` that comes after the `DELETE` finds no row.

**Custody.** `NoForgottenDocument` is the safety half of `DocumentsSettle`: a document that
is not settled has a holder. The inductive invariant adds `IInv` and `ItemsHaveOrigin` (what
an import has in hand came with its batch), which is needed because an import that fails
between row and job is the one process that lets go of a document. `RequestsKeepHold` and
`WorkersKeepHold` say what it takes to keep one; per action it remains to show that a
holder lets go only of what it has handed on or settled.

**At most once, and the catalog.** A document is in one place at a time: in the hands of one
request, in the queue, or with one worker (`OneHolder`), and its status tells how far it has
come (`Phases`). Nothing in a single action shows this, since an identifier passes through
six variables; the steps are therefore compared as *turns*: whatever a process holds after
its turn it held before, took from a queue, or has drawn (`RequestTurn`, `WorkerTurn`), and
`Modest(S)` says that it changes the status of no document outside `S` except by deleting
it. `IndexedAtMostOnce` follows, since nobody holds a document that has its verdict. Then
the index can follow one job: `JobIndexed` says at each step of it which chunks are stored
and which are visible, and `Spares(d)` what every other step may do to a document. With
`IndexInv`, `CountsMatchSearches` is a consequence, and so is the refinement, shown action
by action: a step registers rows (`InsertionIsAStep`), moves one document
(`MoveOfOneDocument`), removes some (`RemovalIsAStep`), or is a stutter
(`QuietStepIsAStep`). A refresh stutters only because what a search finds of an indexed
document was visible before.

**The ledgers.** Each of the five properties has its own invariant over `IInv`.
`StampInv` adds that a row of `ingest_jobs` goes with the row of its document, since the
request inserts it after the worker may have finished. `IconInv` adds that a request
about to write `icon_key` has stored the object of a set that still has its row. `StagingInv`
names who will take an archive away (`AwaitsUnstage`): the request that has yet to enqueue
its job, the queue, or a worker before `unstage`. `BatchInv` says that a batch is with one
process at a time (`OneExpander`), that it has no documents before its job begins, and how
far the counter of a running import lags behind its rows (`BatchPhase`).
`PurgeInv` says that a deleted document has its purge ahead or nothing in the index, that
what is stored but not visible is about to be refreshed, and what each step of a purge has
already found (`PurgePhase`); with one worker nobody loads chunks between them.

**The pipeline.** `Pipeline!IInv` is a conjunction of four invariants that hardly touch each
other. `PoolInv`: the line of a pool holds exactly its waiting calls, each once
(`LineIsSound`), and no slot is free where somebody waits; without the last part `Arrive`
could not be told from a call that overtakes, and without the first `Finish` might hand its
slot to nobody. `PatienceInv`: time counts only while the client waits, and before it asks the
deadline has passed by less than a pause, so that a round exceeds it by one pause and one
answer at most. `StartInv`: event and internal server
do not outlive the public one. `JobInv`: a job between two batches has an answer to each
it sent. `CallsMove` says what pool and process may do to the calls of a job, and each
action is checked against it. `ResultsAreKept` is about a job from some moment on, not about a
step: once its task has ended and it asks, `WillBeTold` holds of it and is kept by every step
(the task's state is final, an answer asked for since tells of it, and only a client that is
told "running" gives up), and it excludes the outcome. `EndedWillBeTold`, `ClientTells`
and `NobodyElseGivesUp` are the parts.

**Sets.** The limit is not inductive: a request that has passed the count is already
entitled to a set. `RoomInv` counts these too, and bounds the sum. `NamesAreUnique` is
inductive with the types: every write looks at the index again, and `Newer` is why a
PATCH that repeats an old name writes no name at all. `EditsMerge` would fail at the creation
of a set, which writes every field, but for `FreshInv`: a set being created has no row, and
no other request has it in hand.

**Archives.** `PlanInv` says that up to `pos` each entry is either planned or skipped, and
that every wanted one is planned; `RegisterInv` that up to `pos` each planned one is
created or skipped, and its content was registered or found. Neither says that it is still in
the set, which its owner empties as he likes; what has arrived stays arrived (`ArrivedStays`).
`OneFileMore` is the step of the count
over the archive, `ReadFindsEntry` that the entry read for a planned name is one of the
archive; with distinct raw names it is the one that was planned.

**Bucket imports.** The handlers are chains of loops, so that the proof is one of loop
invariants. Induction over the natural numbers is a theorem with an operator as its parameter,
which the provers cannot instantiate; `Reaches` takes its place, an induction over the
positions in a list by least counterexample, stated with a set. `Iterate` shows with it that
a recursive function over the positions has the values its equation asks for, whatever the
step. `Judged(sel, S)` says that each key of `S` has one verdict in `sel` and no other key
has any. Each loop keeps it (`LoopJudges`, `AgainJudges`), and for each there is a lemma
that says what it accepts: `SelectIsSound` (what fits and differs, and all of it below the
limit), `DropIsSound` (what is not known) and `QuotaIsSound` (what fits beside what is held,
and all when all of it does). The latter rests on `TotalSize` being a sum: the fold of the
library takes the elements in an order it chooses, and `TotalSizeLess` shows that the order
does not matter. `RegisterImports` composes the three, and the five theorems follow.

TLC has checked the inductive invariants themselves on the instances of the runs about them
(`OneWorker`, `Imports`, `Faults`, `Pipeline`, `RagSets`, `Archive`, `Bucket`); the runs list the
properties they imply.

Every safety and action property of the passing runs is proved. Model-checked only is
liveness, which is out of the provers' reach: `DocumentsSettle`, `BatchesSettle` and
`HiddenRagsVanish` of IngestService, `JobsEnd` and `InternalFollows` of Pipeline. The
catalog's `Spec` has no fairness, so that implementing it is a matter of safety. The
absence of deadlock in `Archive` and `Bucket` is also only checked.

## 6. What is not modelled

* Health and internal look-ups (`api/health.py`, `api/internal.py`, `deps.py`) only
  read, and have no state of their own; `put_icon`'s decoding and the listings likewise.
* Vectors, sparse weights and the conversion of scores (`search/scoring.py`) are
  floating-point arithmetic; of the mapping in `search/index.py` only the refresh
  interval is used.
* Migrations, Docker files and shell scripts are not code that runs with the service; the
  schema they create is in Stores and RagSets.
* `chunk_many`, `ingest_all` and `health` of the client are called by nothing in the service.
* An operator who requeues failed documents by hand, as the deployment guide describes, is
  not an actor of IngestService; every identifier is enqueued once.

Worth doing next: a refinement that maps a job of Pipeline to the `Convert` of Worker, now
related by this text only; a bound on how far concurrent uploads pass the quota, as
`OvershootIsBounded` gives it for the number of sets; and how many chunks a second worker
can leave behind (`OrphanChunks`).
