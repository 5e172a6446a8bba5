------------------------ MODULE IngestServiceCatalog ------------------------
(***************************************************************************)
(* A document is indexed at most once, and so the service implements       *)
(* DocumentCatalog.                                                        *)
(*                                                                         *)
(* The argument has three parts.  A document is in one place at a time, in *)
(* the hands of a request, of a worker, or in the queue, and its status    *)
(* tells how far it has come: OnceInv.  So nobody but the worker that      *)
(* indexes a document writes its chunks or its verdict, and what the index *)
(* holds of it follows the steps of that one job: IndexInv.  With both,    *)
(* every step of the service is a step of the catalog.                     *)
(***************************************************************************)
EXTENDS IngestServiceProofs

-----------------------------------------------------------------------------
(* One holder at a time.                                                   *)

\* The documents a process has to register or to index.
RequestHolds(r) == IF apc[r] \in RegisterStates \cup {"enqueue"} THEN adocs[r] ELSE {}

WorkerHolds(w) ==
  IF Indexing(w) THEN {wjob[w]}
  ELSE IF wpc[w] \in {"putItem", "insertItem", "enqueueItem"} THEN {witem[w]} ELSE {}

OneHolder ==
  /\ \A r, q \in Requests : r # q => RequestHolds(r) \cap RequestHolds(q) = {}
  /\ \A w, v \in Workers : w # v => WorkerHolds(w) \cap WorkerHolds(v) = {}
  /\ \A r \in Requests, w \in Workers : RequestHolds(r) \cap WorkerHolds(w) = {}
  /\ \A r \in Requests : RequestHolds(r) \cap ingestQ = {}
  /\ \A w \in Workers : WorkerHolds(w) \cap ingestQ = {}

\* How far the document of a job, queued or running, has come.
Waiting(d) == docRow[d] \in {"pending", "deleted"}
Begun(d)   == docRow[d] \in {"processing", "deleted"}

RequestPhase(r) == apc[r] = "enqueue" => \A d \in adocs[r] : Waiting(d)

WorkerPhase(w) ==
  /\ wpc[w] = "enqueueItem" => Waiting(witem[w])
  /\ wpc[w] = "begin" => Waiting(wjob[w])
  /\ wpc[w] \in IngestStates \ {"begin", "fail"} => Begun(wjob[w])
  /\ wpc[w] = "fail" => Waiting(wjob[w]) \/ Begun(wjob[w])

Phases ==
  /\ \A d \in ingestQ : Waiting(d)
  /\ \A r \in Requests : RequestPhase(r)
  /\ \A w \in Workers : WorkerPhase(w)

OnceInv == IInv /\ OneHolder /\ Phases

\* A step of a process that holds the documents S: it changes the status of no
\* other document, unless it deletes it, and enqueues no other document.
Modest(S) ==
  /\ \A d \in Docs \ S : docRow'[d] \in {docRow[d], "deleted"}
  /\ ingestQ' \ ingestQ \subseteq S
  /\ \A d \in ingestQ' \ ingestQ : Waiting(d)'

RequestTurn(r) ==
  /\ UNCHANGED workerVars
  /\ \A q \in Requests \ {r} : apc'[q] = apc[q] /\ adocs'[q] = adocs[q]
  /\ Modest(RequestHolds(r))
  /\ ingestQ \subseteq ingestQ'
  /\ RequestHolds(r)' \cap issued \subseteq RequestHolds(r)
  /\ RequestHolds(r)' \cap ingestQ' = {}
  /\ RequestPhase(r)'

WorkerTurn(w) ==
  /\ UNCHANGED apiVars
  /\ \A v \in Workers \ {w} : wpc'[v] = wpc[v] /\ wjob'[v] = wjob[v] /\ witem'[v] = witem[v]
  /\ Modest(WorkerHolds(w))
  /\ WorkerHolds(w)' \cap issued \subseteq WorkerHolds(w) \cup ingestQ
  /\ WorkerHolds(w)' \cap ingestQ' = {}
  /\ WorkerPhase(w)'

\* What anybody holds has been drawn, so that a fresh identifier is nobody's.
LEMMA HoldersHaveDrawn ==
  ASSUME Typed, Sound
  PROVE  /\ \A r \in Requests : RequestHolds(r) \subseteq issued
         /\ \A w \in Workers : WorkerHolds(w) \subseteq issued
         /\ ingestQ \subseteq issued
<1> USE DEF Typed
<1>1. ASSUME NEW r \in Requests
      PROVE  RequestHolds(r) \subseteq issued
  <2>1. adocs[r] \subseteq Docs /\ RequestIsSound(r) /\ DrawnBeforeUse
    BY DEF Sound, ApiShape, ApiTypeOK
  <2> QED
    BY <2>1 DEF RequestHolds, RequestIsSound, InHand, Unregistered, DrawnBeforeUse
<1>2. ASSUME NEW w \in Workers
      PROVE  WorkerHolds(w) \subseteq issued
  <2>1. WorkerIsSound(w) /\ DrawnBeforeUse
    BY DEF Sound
  <2>2. Indexing(w) => wjob[w] \in Docs
    BY DEF JobShape, WorkerShape, Indexing
  <2>3. wpc[w] \in ItemStates => witem[w] \in Docs
    BY DEF JobShape, WorkerShape
  <2> QED
    BY <2>1, <2>2, <2>3 DEF WorkerHolds, WorkerIsSound, InImport, Unregistered, DrawnBeforeUse, ItemStates
<1>3. ingestQ \subseteq issued
  BY DEF Sound, QueuesAreSound, DrawnBeforeUse, QueuesTypeOK
<1> QED
  BY <1>1, <1>2, <1>3

\* What is held is a document.
LEMMA HoldersHoldDocuments ==
  ASSUME Typed
  PROVE  /\ \A r \in Requests : RequestHolds(r) \subseteq Docs
         /\ \A w \in Workers : WorkerHolds(w) \subseteq Docs
         /\ ingestQ \subseteq Docs
BY DEF Typed, ApiShape, ApiTypeOK, RequestHolds, JobShape, WorkerShape, WorkerHolds, Indexing,
       ItemStates, QueuesTypeOK

\* The turn of a request leaves every document one holder, and everybody else's
\* documents where they were.
LEMMA RequestTurnKeepsOnce ==
  ASSUME Typed, Sound, OneHolder, Phases, NEW r \in Requests, RequestTurn(r)
  PROVE  OneHolder' /\ Phases'
<1>1. /\ \A q \in Requests \ {r} : RequestHolds(q)' = RequestHolds(q)
      /\ \A v \in Workers : WorkerHolds(v)' = WorkerHolds(v)
  BY DEF RequestTurn, RequestHolds, WorkerHolds, Indexing, workerVars, importVars
<1>2. OneHolder'
  <2>1. /\ \A q \in Requests \ {r} : RequestHolds(r)' \cap RequestHolds(q) = {}
        /\ \A v \in Workers : RequestHolds(r)' \cap WorkerHolds(v) = {}
    BY HoldersHaveDrawn DEF RequestTurn, OneHolder
  <2>2. /\ \A q \in Requests \ {r} : RequestHolds(q) \cap ingestQ' = {}
        /\ \A v \in Workers : WorkerHolds(v) \cap ingestQ' = {}
    BY DEF RequestTurn, Modest, OneHolder
  <2> QED
    BY <1>1, <2>1, <2>2 DEF OneHolder, RequestTurn
<1>3. ASSUME NEW d \in Docs \ RequestHolds(r)
      PROVE  (Waiting(d) => Waiting(d)') /\ (Begun(d) => Begun(d)')
  BY DEF RequestTurn, Modest, Waiting, Begun
<1>4. \A d \in ingestQ' : Waiting(d)'
  BY <1>3, HoldersHoldDocuments DEF RequestTurn, Modest, Phases, OneHolder
<1>5. ASSUME NEW q \in Requests
      PROVE  RequestPhase(q)'
  <2>1. CASE q # r
    BY <1>3, <2>1, HoldersHoldDocuments DEF RequestTurn, Phases, RequestPhase, OneHolder, RequestHolds
  <2> QED
    BY <2>1 DEF RequestTurn
<1>6. ASSUME NEW v \in Workers
      PROVE  WorkerPhase(v)'
  <2>1. \A d \in WorkerHolds(v) : (Waiting(d) => Waiting(d)') /\ (Begun(d) => Begun(d)')
    BY <1>3, HoldersHoldDocuments DEF OneHolder
  <2>2. wpc'[v] = wpc[v] /\ wjob'[v] = wjob[v] /\ witem'[v] = witem[v]
    BY DEF RequestTurn, workerVars, importVars
  <2> QED
    BY <2>1, <2>2 DEF Phases, WorkerPhase, WorkerHolds, Indexing, IngestStates, Waiting, Begun
<1> QED
  BY <1>2, <1>4, <1>5, <1>6 DEF Phases

\* So does the turn of a worker.
LEMMA WorkerTurnKeepsOnce ==
  ASSUME Typed, Sound, OneHolder, Phases, NEW w \in Workers, WorkerTurn(w)
  PROVE  OneHolder' /\ Phases'
<1>1. /\ \A q \in Requests : RequestHolds(q)' = RequestHolds(q)
      /\ \A v \in Workers \ {w} : WorkerHolds(v)' = WorkerHolds(v)
  BY DEF WorkerTurn, RequestHolds, WorkerHolds, Indexing, apiVars
<1>2. OneHolder'
  <2>1. /\ \A q \in Requests : RequestHolds(q) \cap WorkerHolds(w)' = {}
        /\ \A v \in Workers \ {w} : WorkerHolds(v) \cap WorkerHolds(w)' = {}
    BY HoldersHaveDrawn DEF WorkerTurn, OneHolder
  <2>2. /\ \A q \in Requests : RequestHolds(q) \cap ingestQ' = {}
        /\ \A v \in Workers \ {w} : WorkerHolds(v) \cap ingestQ' = {}
    BY DEF WorkerTurn, Modest, OneHolder
  <2> QED
    BY <1>1, <2>1, <2>2 DEF OneHolder, WorkerTurn
<1>3. ASSUME NEW d \in Docs \ WorkerHolds(w)
      PROVE  (Waiting(d) => Waiting(d)') /\ (Begun(d) => Begun(d)')
  BY DEF WorkerTurn, Modest, Waiting, Begun
<1>4. \A d \in ingestQ' : Waiting(d)'
  BY <1>3, HoldersHoldDocuments DEF WorkerTurn, Modest, Phases, OneHolder
<1>5. ASSUME NEW q \in Requests
      PROVE  RequestPhase(q)'
  BY <1>3, HoldersHoldDocuments DEF WorkerTurn, apiVars, Phases, RequestPhase, OneHolder, RequestHolds
<1>6. ASSUME NEW v \in Workers
      PROVE  WorkerPhase(v)'
  <2>1. CASE v # w
    <3>1. \A d \in WorkerHolds(v) : (Waiting(d) => Waiting(d)') /\ (Begun(d) => Begun(d)')
      BY <1>3, <2>1, HoldersHoldDocuments DEF OneHolder
    <3>2. wpc'[v] = wpc[v] /\ wjob'[v] = wjob[v] /\ witem'[v] = witem[v]
      BY <2>1 DEF WorkerTurn
    <3> QED
      BY <3>1, <3>2 DEF Phases, WorkerPhase, WorkerHolds, Indexing, IngestStates, Waiting, Begun
  <2> QED
    BY <2>1 DEF WorkerTurn
<1> QED
  BY <1>2, <1>4, <1>5, <1>6 DEF Phases

-----------------------------------------------------------------------------
(* The steps of the API are such turns.                                    *)

\* A request that goes nowhere near "enqueue", and takes no document in hand
\* but fresh ones, takes its turn.
LEMMA QuietRequestTurn ==
  ASSUME OneHolder, UNCHANGED workerVars, NEW r \in Requests,
         \A q \in Requests \ {r} : apc'[q] = apc[q] /\ adocs'[q] = adocs[q],
         \A d \in Docs : docRow'[d] \in {docRow[d], "deleted"},
         ingestQ' = ingestQ,
         RequestHolds(r)' \subseteq RequestHolds(r), RequestPhase(r)'
  PROVE  RequestTurn(r)
BY DEF RequestTurn, Modest, OneHolder

\* A call opens with nothing in hand, or with fresh references.
LEMMA OpeningTurns ==
  ASSUME Typed, Sound, OneHolder, UNCHANGED workerVars, NEW r \in Requests,
         \/ \E g \in Rags : \/ StartUpload(r, g) \/ StartDeleteRag(r, g) \/ StartIcon(r, g)
                            \/ \E S \in SUBSET Foreign :
                                 StartBucket(r, g, S) \/ CreateFromBucket(r, g, S)
         \/ \E d \in Docs : StartDelete(r, d)
         \/ \E b \in Batches : StartArchive(r, b) \/ ImportFromStaging(r, b)
  PROVE  RequestTurn(r)
<1> USE DEF Open, RequestHolds, RequestPhase, RegisterStates, Typed, ApiShape, ApiTypeOK
<1>1. ASSUME NEW g \in Rags, NEW S \in SUBSET Foreign,
             StartBucket(r, g, S) \/ CreateFromBucket(r, g, S)
      PROVE  RequestTurn(r)
  <2>1. S \cap issued = {} /\ ingestQ \subseteq issued
    BY <1>1, HoldersHaveDrawn DEF StartBucket, CreateFromBucket, FreshForeign
  <2>2. UNCHANGED <<docRow, ingestQ>>
    BY <1>1 DEF StartBucket, CreateFromBucket, rows, docRows, queues
  <2> QED
    BY <1>1, <2>1, <2>2 DEF StartBucket, CreateFromBucket, RequestTurn, Modest
<1>2. CASE ~\E g \in Rags, S \in SUBSET Foreign : StartBucket(r, g, S) \/ CreateFromBucket(r, g, S)
  <2>1. UNCHANGED <<docRow, ingestQ>>
    BY <1>2 DEF StartUpload, StartDeleteRag, StartIcon, StartDelete, StartArchive, ImportFromStaging,
                stores, rows, docRows, queues
  <2>2. /\ \A q \in Requests \ {r} : apc'[q] = apc[q] /\ adocs'[q] = adocs[q]
        /\ apc'[r] \notin RegisterStates \cup {"enqueue"}
    BY <1>2 DEF StartUpload, StartDeleteRag, StartIcon, StartDelete, StartArchive, ImportFromStaging
  <2> QED
    BY <2>1, <2>2, QuietRequestTurn
<1> QED
  BY <1>1, <1>2

\* A file gets an identifier of its own, its row is inserted by the request
\* that holds it, and its job enqueued by letting go of it.
LEMMA RegisteringTurns ==
  ASSUME Typed, Sound, OneHolder, Phases, UNCHANGED workerVars, NEW r \in Requests,
         \/ \E d \in Docs : PutObject(r, d) \/ EnqueueIngest(r, d)
         \/ RejectOverQuota(r) \/ LookupHash(r) \/ DiscardDuplicate(r)
         \/ InsertRows(r) \/ RecordJobs(r) \/ FinishUpload(r)
  PROVE  RequestTurn(r)
<1> USE DEF Goto, Respond, RequestHolds, RequestPhase, RegisterStates, Typed, ApiShape, ApiTypeOK
<1>1. ASSUME NEW d \in Docs, PutObject(r, d)
      PROVE  RequestTurn(r)
  <2>1. d \notin ingestQ
    BY <1>1, HoldersHaveDrawn DEF PutObject
  <2> QED
    BY <1>1, <2>1 DEF PutObject, RequestTurn, Modest, rows, docRows, queues
<1>2. ASSUME NEW d \in Docs, EnqueueIngest(r, d)
      PROVE  RequestTurn(r)
  <2>1. RequestPhase(r) /\ RequestHolds(r) \cap ingestQ = {}
    BY DEF Phases, OneHolder
  <2> QED
    BY <1>2, <2>1 DEF EnqueueIngest, RequestTurn, Modest, Waiting, rows, docRows
<1>3. CASE InsertRows(r)
  <2>1. RequestHolds(r) \cap ingestQ = {}
    BY DEF OneHolder
  <2> QED
    BY <1>3, <2>1 DEF InsertRows, InsertDocuments, RequestTurn, Modest, Waiting, docRows, queues
<1>4. CASE \/ RejectOverQuota(r) \/ LookupHash(r) \/ DiscardDuplicate(r)
           \/ RecordJobs(r) \/ FinishUpload(r)
  <2>1. UNCHANGED <<docRow, ingestQ>>
    BY <1>4 DEF RejectOverQuota, LookupHash, DiscardDuplicate, RecordJobs, FinishUpload, stores, rows,
                docRows, queues
  <2>2. /\ \A q \in Requests \ {r} : apc'[q] = apc[q] /\ adocs'[q] = adocs[q]
        /\ apc'[r] # "enqueue"
        /\ RequestHolds(r)' \subseteq RequestHolds(r)
    BY <1>4 DEF RejectOverQuota, LookupHash, DiscardDuplicate, RecordJobs, FinishUpload
  <2> QED
    BY <2>1, <2>2, QuietRequestTurn
<1> QED
  BY <1>1, <1>2, <1>3, <1>4

\* Every other step of a request holds nothing to register.
LEMMA OtherRequestTurns ==
  ASSUME Typed, OneHolder, UNCHANGED workerVars, NEW r \in Requests,
         \/ DeleteRow(r) \/ EnqueuePurge(r) \/ SoftDelete(r) \/ EnqueuePurgeRag(r)
         \/ PutIconObject(r) \/ SetIconKey(r)
         \/ StageArchive(r) \/ RefuseArchive(r) \/ EnqueueBatch(r) \/ ApiError(r)
  PROVE  RequestTurn(r)
<1> USE DEF Goto, Respond, RequestHolds, RequestPhase, RegisterStates, Typed, ApiShape, ApiTypeOK
<1>1. ingestQ' = ingestQ /\ \A d \in Docs : docRow'[d] \in {docRow[d], "deleted"}
  <2>1. CASE DeleteRow(r)
    BY <2>1 DEF DeleteRow, DeleteDocuments, queues
  <2>2. CASE ~DeleteRow(r)
    BY <2>2 DEF EnqueuePurge, SoftDelete, EnqueuePurgeRag, PutIconObject, SetIconKey, StageArchive,
                RefuseArchive, EnqueueBatch, ApiError, stores, rows, docRows, queues
  <2> QED
    BY <2>1, <2>2
<1>2. /\ \A q \in Requests \ {r} : apc'[q] = apc[q] /\ adocs'[q] = adocs[q]
      /\ apc'[r] \notin RegisterStates \cup {"enqueue"}
  BY DEF DeleteRow, EnqueuePurge, SoftDelete, EnqueuePurgeRag, PutIconObject, SetIconKey, StageArchive,
         RefuseArchive, EnqueueBatch, ApiError
<1> QED
  BY <1>1, <1>2, QuietRequestTurn

-----------------------------------------------------------------------------
(* So are the steps of the workers.                                        *)

\* A worker that takes nothing in hand, and changes no row, takes its turn.
LEMMA QuietWorkerTurn ==
  ASSUME OneHolder, UNCHANGED apiVars, NEW w \in Workers,
         \A v \in Workers \ {w} : wpc'[v] = wpc[v] /\ wjob'[v] = wjob[v] /\ witem'[v] = witem[v],
         \A d \in Docs \ WorkerHolds(w) : docRow'[d] \in {docRow[d], "deleted"},
         ingestQ' = ingestQ,
         WorkerHolds(w)' \subseteq WorkerHolds(w), WorkerPhase(w)'
  PROVE  WorkerTurn(w)
BY DEF WorkerTurn, Modest, OneHolder

\* The document of a job comes from the queue, and only the worker that has it
\* moves it from pending to processing and to a verdict.
LEMMA IndexingTurns ==
  ASSUME Typed, Sound, OneHolder, Phases, UNCHANGED apiVars, NEW w \in Workers,
         \/ \E d \in Docs : TakeIngest(w, d)
         \/ BeginIngest(w) \/ Convert(w) \/ Load(w) \/ Refresh(w)
         \/ MarkSuccess(w) \/ MarkFailed(w) \/ LoadBreaks(w)
  PROVE  WorkerTurn(w)
<1> USE DEF Take, Proceed, Release, Indexing, IngestStates, Typed, JobShape, WorkerTypeOK, importVars
<1>0. WorkerPhase(w) /\ (Indexing(w) => wjob[w] \in Docs)
  BY DEF Phases, WorkerShape
<1>1. ASSUME NEW d \in Docs, TakeIngest(w, d)
      PROVE  WorkerTurn(w)
  BY <1>1 DEF TakeIngest, WorkerTurn, Modest, WorkerHolds, WorkerPhase, Phases, Waiting, rows, docRows
<1>2. CASE BeginIngest(w)
  <2>1. wjob[w] \in Docs /\ docRow[wjob[w]] \in DocStates
    BY <1>0, <1>2 DEF BeginIngest, RowsTypeOK
  <2>2. /\ \A d \in Docs \ {wjob[w]} : docRow'[d] = docRow[d]
        /\ wpc'[w] # "idle" => wpc'[w] = "convert" /\ docRow'[wjob[w]] = "processing"
    BY <1>2, <2>1 DEF BeginIngest, BeginDocument, RowsTypeOK, docRows
  <2> QED
    BY <1>2, <2>1, <2>2, QuietWorkerTurn DEF BeginIngest, WorkerHolds, WorkerPhase, Begun, queues
<1>3. CASE Convert(w) \/ Load(w) \/ Refresh(w) \/ LoadBreaks(w)
  <2>1. UNCHANGED <<docRow, ingestQ, wjob, witem>>
    BY <1>3 DEF Convert, Load, Refresh, LoadBreaks, stores, rows, docRows, queues
  <2>2. /\ wpc[w] \in IngestStates \ {"begin", "fail"} /\ wpc'[w] \in IngestStates \ {"begin"}
        /\ \A v \in Workers \ {w} : wpc'[v] = wpc[v]
    BY <1>3 DEF Convert, Load, Refresh, LoadBreaks
  <2> QED
    BY <1>0, <2>1, <2>2, QuietWorkerTurn DEF WorkerHolds, WorkerPhase, Begun, Waiting
<1>4. CASE MarkSuccess(w) \/ MarkFailed(w)
  <2>1. \A d \in Docs \ WorkerHolds(w) : docRow'[d] = docRow[d]
    BY <1>0, <1>4 DEF MarkSuccess, MarkFailed, MarkDocument, WorkerHolds, RowsTypeOK
  <2> QED
    BY <1>4, <2>1, QuietWorkerTurn DEF MarkSuccess, MarkFailed, WorkerHolds, WorkerPhase, queues
<1> QED
  BY <1>1, <1>2, <1>3, <1>4

\* A purge holds no document to index, and neither does a job that failed.
LEMMA PurgingTurns ==
  ASSUME Typed, OneHolder, Phases, UNCHANGED apiVars, NEW w \in Workers,
         \/ \E job \in Docs \cup Rags \cup Batches : TakeMaintenance(w, job)
         \/ PurgeChunks(w) \/ PurgeObject(w)
         \/ PurgeRagChunks(w) \/ PurgeRagObjects(w) \/ PurgeRagIcon(w) \/ PurgeRagRow(w)
         \/ WorkerError(w) \/ Crash(w)
  PROVE  WorkerTurn(w)
<1> USE DEF Take, Proceed, Release, Indexing, IngestStates, Typed, JobShape, WorkerTypeOK, importVars
<1>1. ingestQ' = ingestQ /\ \A d \in Docs : docRow'[d] \in {docRow[d], "deleted"}
  <2>1. CASE PurgeRagRow(w)
    BY <2>1 DEF PurgeRagRow, DeleteDocuments, queues
  <2>2. CASE ~PurgeRagRow(w)
    BY <2>2 DEF TakeMaintenance, PurgeChunks, PurgeObject, PurgeRagChunks, PurgeRagObjects, PurgeRagIcon,
                WorkerError, Crash, stores, rows, docRows, queues
  <2> QED
    BY <2>1, <2>2
<1>2. \A v \in Workers \ {w} : wpc'[v] = wpc[v] /\ wjob'[v] = wjob[v] /\ witem'[v] = witem[v]
  BY DEF TakeMaintenance, PurgeChunks, PurgeObject, PurgeRagChunks, PurgeRagObjects, PurgeRagIcon,
         PurgeRagRow, WorkerError, Crash
<1>3. CASE wpc'[w] = "fail" /\ WorkerError(w)
  <2>1. /\ wpc[w] \in IngestStates \ {"fail"} /\ wjob'[w] = wjob[w]
        /\ UNCHANGED docRow /\ WorkerPhase(w)
    BY <1>3 DEF WorkerError, Phases, stores, rows, docRows
  <2> QED
    BY <1>1, <1>2, <1>3, <2>1, QuietWorkerTurn DEF WorkerHolds, WorkerPhase, Waiting, Begun
<1>4. CASE ~(wpc'[w] = "fail" /\ WorkerError(w))
  <2>1. wpc'[w] \notin IngestStates \cup {"putItem", "insertItem", "enqueueItem"}
    BY <1>4 DEF TakeMaintenance, PurgeChunks, PurgeObject, PurgeRagChunks, PurgeRagObjects,
                PurgeRagIcon, PurgeRagRow, WorkerError, Crash
  <2> QED
    BY <1>1, <1>2, <2>1, QuietWorkerTurn DEF WorkerHolds, WorkerPhase
<1> QED
  BY <1>3, <1>4

\* An import holds an item from its identifier to its job.
LEMMA ImportingTurns ==
  ASSUME Typed, Sound, OneHolder, Phases, UNCHANGED apiVars, NEW w \in Workers, ImportStep(w)
  PROVE  WorkerTurn(w)
<1> USE DEF Working, Release, Indexing, IngestStates, Typed, JobShape, WorkerTypeOK, importVars
<1>1. ASSUME NEW d \in Docs, LookupItem(w, d)
      PROVE  WorkerTurn(w)
  <2>1. d \notin ingestQ
    BY <1>1, HoldersHaveDrawn DEF LookupItem
  <2> QED
    BY <1>1, <2>1
    DEF LookupItem, WorkerTurn, Modest, WorkerHolds, WorkerPhase, rows, docRows, queues
<1>2. CASE PutItem(w)
  BY <1>2, QuietWorkerTurn DEF PutItem, WorkerHolds, WorkerPhase, rows, docRows, queues
<1>3. CASE InsertItem(w)
  BY <1>3, QuietWorkerTurn
  DEF InsertItem, InsertDocuments, WorkerHolds, WorkerPhase, WorkerShape, ItemStates, Waiting, docRows, queues
<1>4. CASE EnqueueItem(w)
  BY <1>4
  DEF EnqueueItem, WorkerTurn, Modest, WorkerHolds, WorkerPhase, Phases, Waiting, rows, docRows
<1>5. CASE \/ OpenBatch(w) \/ PlanItems(w) \/ RecordItem(w) \/ FinishBatch(w) \/ FailBatch(w) \/ Unstage(w)
  <2>1. UNCHANGED <<docRow, ingestQ>>
    BY <1>5 DEF OpenBatch, PlanItems, RecordItem, FinishBatch, FailBatch, Unstage, rows, docRows, queues
  <2>2. /\ \A v \in Workers \ {w} : wpc'[v] = wpc[v] /\ wjob'[v] = wjob[v] /\ witem'[v] = witem[v]
        /\ wpc'[w] \notin IngestStates \cup {"putItem", "insertItem", "enqueueItem"}
    BY <1>5 DEF OpenBatch, PlanItems, RecordItem, FinishBatch, FailBatch, Unstage, Leave
  <2> QED
    BY <2>1, <2>2, QuietWorkerTurn DEF WorkerHolds, WorkerPhase
<1> QED
  BY <1>1, <1>2, <1>3, <1>4, <1>5 DEF ImportStep

-----------------------------------------------------------------------------
(* At most once.                                                           *)

\* Whatever a process holds has no verdict yet.
LEMMA HeldHasNoVerdict ==
  ASSUME Typed, Sound, Phases
  PROVE  /\ \A r \in Requests : \A d \in RequestHolds(r) : docRow[d] \notin {"success", "failed"}
         /\ \A w \in Workers : \A d \in WorkerHolds(w) : docRow[d] \notin {"success", "failed"}
<1>1. ASSUME NEW r \in Requests, NEW d \in RequestHolds(r)
      PROVE  docRow[d] \notin {"success", "failed"}
  BY <1>1 DEF RequestHolds, Sound, RequestIsSound, InHand, Unregistered, Phases, RequestPhase, Waiting
<1>2. ASSUME NEW w \in Workers, NEW d \in WorkerHolds(w)
      PROVE  docRow[d] \notin {"success", "failed"}
  BY <1>2 DEF WorkerHolds, Sound, WorkerIsSound, InImport, Unregistered, Phases, WorkerPhase, Waiting,
              Begun, Indexing, IngestStates
<1> QED
  BY <1>1, <1>2

\* A verdict stands until the document is deleted.
VerdictsStand ==
  \A d \in Docs : docRow[d] \in {"success", "failed"} => docRow'[d] \in {docRow[d], "deleted"}

\* What a step of the service is, seen from the documents.
LEMMA NextIsATurn ==
  ASSUME Typed, Sound, OneHolder, Phases, [Next]_vars
  PROVE  \/ \E r \in Requests : RequestTurn(r)
         \/ \E w \in Workers : WorkerTurn(w)
         \/ UNCHANGED <<docRow, ingestQ, apiVars, workerVars>>
<1>1. CASE ApiNext /\ UNCHANGED workerVars
  <2>1. ASSUME NEW g \in Rags, CreateRag(g)
        PROVE  UNCHANGED <<docRow, ingestQ, apiVars, workerVars>>
    BY <1>1, <2>1 DEF CreateRag, docRows, queues
  <2> QED
    BY <1>1, <2>1, OpeningTurns, RegisteringTurns, OtherRequestTurns DEF ApiNext, ApiContinue
<1>2. ASSUME NEW w \in Workers, WorkerStep(w) \/ JobFault(w), UNCHANGED apiVars
      PROVE  WorkerTurn(w)
  BY <1>2, IndexingTurns, PurgingTurns, ImportingTurns DEF WorkerStep, JobStep, JobFault
<1>3. CASE (PeriodicRefresh /\ UNCHANGED <<apiVars, workerVars>>) \/ UNCHANGED vars
  BY <1>3 DEF PeriodicRefresh, vars, stores, rows, docRows, queues
<1> QED
  BY <1>1, <1>2, <1>3 DEF Next

\* Every step leaves every document one holder, and every verdict as it was.
LEMMA NextKeepsOnce ==
  ASSUME Typed, Sound, OneHolder, Phases, [Next]_vars
  PROVE  OneHolder' /\ Phases' /\ VerdictsStand
<1>1. ASSUME NEW r \in Requests, RequestTurn(r)
      PROVE  OneHolder' /\ Phases' /\ VerdictsStand
  BY <1>1, RequestTurnKeepsOnce, HeldHasNoVerdict DEF RequestTurn, Modest, VerdictsStand
<1>2. ASSUME NEW w \in Workers, WorkerTurn(w)
      PROVE  OneHolder' /\ Phases' /\ VerdictsStand
  BY <1>2, WorkerTurnKeepsOnce, HeldHasNoVerdict DEF WorkerTurn, Modest, VerdictsStand
<1>3. CASE UNCHANGED <<docRow, ingestQ, apiVars, workerVars>>
  BY <1>3 DEF OneHolder, RequestHolds, WorkerHolds, Indexing, Phases, RequestPhase, WorkerPhase, Waiting,
              Begun, VerdictsStand, apiVars, workerVars, importVars
<1> QED
  BY <1>1, <1>2, <1>3, NextIsATurn

\* OnceInv is inductive.
LEMMA OnceInvariance == Spec => []OnceInv
<1>1. Init => OnceInv
  <2>1. Init => OneHolder /\ Phases
    BY DEF Init, StoresInit, ApiInit, WorkerInit, OneHolder, RequestHolds, WorkerHolds, Indexing,
           RegisterStates, IngestStates, Phases, RequestPhase, WorkerPhase
  <2> QED
    BY <2>1, InitShape, InitSound DEF OnceInv, IInv
<1>2. OnceInv /\ [Next]_vars => OnceInv'
  BY NextKeepsShape, NextKeepsSound, NextKeepsOnce, ShapeIsTyped DEF OnceInv, IInv
<1> QED
  BY <1>1, <1>2, PTL DEF Spec

\* A document is indexed at most once: from its verdict on, no job, however
\* late, and no request writes its status, until its owner deletes it.
THEOREM IndexedAtMostOnce == Spec => [][VerdictsStand]_vars
<1>1. OnceInv /\ [Next]_vars => VerdictsStand
  BY NextKeepsOnce, ShapeIsTyped DEF OnceInv, IInv
<1> QED
  BY <1>1, OnceInvariance, PTL DEF Spec

\* A set that answers searches stays in service while its owner deletes nothing,
\* whatever is uploaded, fails or runs late meanwhile: the document that made it
\* "ready" keeps its verdict, and pending documents do not count against it.
THEOREM ReadyStaysReady == Spec => ReadySetStaysReady
<1>1. ASSUME VerdictsStand, NEW g \in Rags, RowsOf(g) \subseteq RowsOf(g)', RagStatus(g) = "ready"
      PROVE  RagStatus(g)' = "ready"
  <2>1. PICK d \in RowsOf(g) : docRow[d] = "success"
    BY <1>1 DEF RagStatus
  <2>2. d \in RowsOf(g)' /\ docRow'[d] = "success"
    BY <1>1, <2>1 DEF VerdictsStand, RowsOf, DocsOf, Live, LiveStates
  <2> QED
    BY <2>2 DEF RagStatus
<1>2. VerdictsStand =>
        \A g \in Rags :
          /\ Alive(g) /\ Alive(g)'
          /\ RowsOf(g) \subseteq RowsOf(g)'
          /\ RagStatus(g) = "ready"
          => RagStatus(g)' = "ready"
  BY <1>1
<1> QED
  BY <1>2, IndexedAtMostOnce, PTL DEF ReadySetStaysReady

-----------------------------------------------------------------------------
(* What the index holds of a document follows the one job that indexes it. *)

\* A removed document: neither its owner nor a search asks for it any more.
Gone(d) == docRow[d] = "deleted" \/ Hidden(RagOf[d])

Indexed(d) ==
  ~Gone(d) =>
    /\ docRow[d] \in {"none", "pending"} => index[d] = {} /\ visible[d] = {}
    /\ docRow[d] = "success" => index[d] = visible[d] /\ chunksCount[d] = Cardinality(visible[d])

JobIndexed(w) ==
  Indexing(w) /\ ~Gone(wjob[w]) =>
    /\ wpc[w] \in {"convert", "load"} => index[wjob[w]] = {} /\ visible[wjob[w]] = {}
    /\ wpc[w] = "refresh" => index[wjob[w]] = wchunks[w]
    /\ wpc[w] = "success" => index[wjob[w]] = wchunks[w] /\ visible[wjob[w]] = wchunks[w]

IndexInv ==
  /\ \A d \in Docs : Indexed(d)
  /\ \A w \in Workers : JobIndexed(w)

\* A step that does not index d: it removes d, or leaves what is known of it,
\* unless it gives d its row or makes visible what the index holds.
Spares(d) ==
  \/ Gone(d)'
  \/ /\ docRow'[d] = docRow[d] \/ (docRow[d] = "none" /\ docRow'[d] = "pending")
     /\ chunksCount'[d] = chunksCount[d]
     /\ index'[d] = index[d]
     /\ visible'[d] \in {visible[d], index[d]}

\* Documents that are removed stay removed.
LEMMA GoneIsForGood ==
  ASSUME RowsGoForward, NEW d \in Docs, Gone(d)
  PROVE  Gone(d)'
BY StoresAssumption DEF RowsGoForward, Gone, Hidden

\* A step that does not index d leaves d, and a worker that does, in order.
LEMMA SparedIsIndexed ==
  ASSUME RowsGoForward, NEW d \in Docs, Indexed(d), Spares(d)
  PROVE  Indexed(d)'
BY GoneIsForGood DEF Indexed, Spares

\* The same of the worker that has d in hand, and of what it holds of d.
LEMMA SparedJobIsIndexed ==
  ASSUME Typed, RowsGoForward, NEW v \in Workers, JobIndexed(v), Indexing(v) => Spares(wjob[v]),
         wpc'[v] = wpc[v], wjob'[v] = wjob[v], wchunks'[v] = wchunks[v]
  PROVE  JobIndexed(v)'
<1>1. Indexing(v) => wjob[v] \in Docs
  BY DEF Typed, JobShape, WorkerShape, Indexing
<1> QED
  BY <1>1, GoneIsForGood DEF JobIndexed, Spares, Indexing

\* Only two steps of a request write to documents, and none to the index.
LEMMA OthersLeaveDocuments ==
  ASSUME ApiNext, \A r \in Requests : ~InsertRows(r) /\ ~DeleteRow(r)
  PROVE  UNCHANGED <<docRow, chunksCount, index, visible>>
<1> USE DEF stores, rows, docRows, search
<1>1. ASSUME NEW g \in Rags, CreateRag(g)
      PROVE  UNCHANGED <<docRow, chunksCount, index, visible>>
  BY <1>1 DEF CreateRag
<1>2. ASSUME NEW r \in Requests,
             \/ \E g \in Rags : StartUpload(r, g) \/ StartDeleteRag(r, g) \/ StartIcon(r, g)
             \/ \E g \in Rags, S \in SUBSET Foreign :
                  StartBucket(r, g, S) \/ CreateFromBucket(r, g, S)
             \/ \E d \in Docs : StartDelete(r, d)
             \/ \E b \in Batches : StartArchive(r, b) \/ ImportFromStaging(r, b)
             \/ RefuseArchive(r) \/ ApiError(r)
      PROVE  UNCHANGED <<docRow, chunksCount, index, visible>>
  BY <1>2 DEF StartUpload, StartDeleteRag, StartIcon, StartBucket, CreateFromBucket, StartDelete,
              StartArchive, ImportFromStaging, RefuseArchive, ApiError
<1>3. ASSUME NEW r \in Requests,
             \/ \E d \in Docs : PutObject(r, d) \/ EnqueueIngest(r, d)
             \/ RejectOverQuota(r) \/ LookupHash(r) \/ DiscardDuplicate(r)
             \/ RecordJobs(r) \/ FinishUpload(r) \/ EnqueuePurge(r)
      PROVE  UNCHANGED <<docRow, chunksCount, index, visible>>
  BY <1>3 DEF PutObject, EnqueueIngest, RejectOverQuota, LookupHash, DiscardDuplicate, RecordJobs,
              FinishUpload, EnqueuePurge
<1>4. ASSUME NEW r \in Requests,
             \/ SoftDelete(r) \/ EnqueuePurgeRag(r) \/ PutIconObject(r) \/ SetIconKey(r)
             \/ StageArchive(r) \/ EnqueueBatch(r)
      PROVE  UNCHANGED <<docRow, chunksCount, index, visible>>
  BY <1>4 DEF SoftDelete, EnqueuePurgeRag, PutIconObject, SetIconKey, StageArchive, EnqueueBatch
<1> QED
  BY <1>1, <1>2, <1>3, <1>4 DEF ApiNext, ApiContinue

\* A step of the API spares every document.
LEMMA ApiSpares ==
  ASSUME Typed, Sound, ApiNext, UNCHANGED workerVars, NEW d \in Docs
  PROVE  Spares(d)
<1> USE DEF Typed
<1>1. ASSUME NEW r \in Requests, InsertRows(r)
      PROVE  Spares(d)
  <2>1. d \in adocs[r] => docRow[d] = "none"
    BY <1>1 DEF InsertRows, Sound, RequestIsSound, InHand, RegisterStates, Unregistered
  <2> QED
    BY <1>1, <2>1 DEF InsertRows, InsertDocuments, Spares, docRows, search
<1>2. ASSUME NEW r \in Requests, DeleteRow(r)
      PROVE  Spares(d)
  <2>1. RequestIsSound(r) /\ d \in adocs[r] => docRow[d] # "none"
    BY <1>2 DEF DeleteRow, RequestIsSound
  <2>2. d \in adocs[r] => docRow'[d] = "deleted"
    BY <1>2, <2>1 DEF DeleteRow, DeleteDocuments, Live, LiveStates, RowsTypeOK, DocStates, Sound
  <2> QED
    BY <1>2, <2>2 DEF DeleteRow, DeleteDocuments, Spares, Gone, search
<1>3. CASE ~\E r \in Requests : InsertRows(r) \/ DeleteRow(r)
  <2>1. UNCHANGED <<docRow, chunksCount, index, visible>>
    BY <1>3, OthersLeaveDocuments
  <2> QED
    BY <2>1 DEF Spares
<1> QED
  BY <1>1, <1>2, <1>3

\* So does a step of a worker that does not index it.
LEMMA OtherJobsSpare ==
  ASSUME Typed, Sound, NEW w \in Workers, NEW d \in Docs,
         \/ \E e \in Docs : TakeIngest(w, e)
         \/ \E job \in Docs \cup Rags \cup Batches : TakeMaintenance(w, job)
         \/ PurgeChunks(w) \/ PurgeObject(w)
         \/ PurgeRagChunks(w) \/ PurgeRagObjects(w) \/ PurgeRagIcon(w) \/ PurgeRagRow(w)
         \/ WorkerError(w) \/ Crash(w) \/ ImportStep(w)
  PROVE  Spares(d)
<1> USE DEF Typed, JobShape
<1>0. WorkerIsSound(w)
  BY DEF Sound
<1>1. CASE PurgeChunks(w)
  <2>1. wjob[w] \in Docs /\ docRow[wjob[w]] = "deleted"
    BY <1>0, <1>1 DEF PurgeChunks, WorkerShape, WorkerIsSound, PurgeDocStates, PurgeStates, JobIsSafe
  <2>2. CASE d = wjob[w]
    BY <1>1, <2>1, <2>2 DEF PurgeChunks, Spares, Gone, rows, docRows
  <2>3. CASE d # wjob[w]
    BY <1>1, <2>3 DEF PurgeChunks, DeleteByQuery, Spares, rows, docRows
  <2> QED
    BY <2>2, <2>3
<1>2. CASE PurgeRagChunks(w)
  <2>1. wjob[w] \in Rags /\ Hidden(wjob[w])
    BY <1>0, <1>2 DEF PurgeRagChunks, WorkerShape, WorkerIsSound, PurgeDocStates, PurgeRagStates,
                      PurgeStates, JobIsSafe
  <2>2. CASE RagOf[d] = wjob[w]
    BY <1>2, <2>1, <2>2 DEF PurgeRagChunks, Spares, Gone, Hidden, rows, ragRows
  <2>3. CASE RagOf[d] # wjob[w]
    BY <1>2, <2>3 DEF PurgeRagChunks, DeleteByQuery, DocsOf, Spares, rows, docRows
  <2> QED
    BY <2>2, <2>3
<1>3. CASE PurgeRagRow(w)
  <2>1. wjob[w] \in Rags
    BY <1>3 DEF PurgeRagRow, WorkerShape, PurgeDocStates, PurgeRagStates, PurgeStates
  <2>2. CASE RagOf[d] = wjob[w]
    BY <1>3, <2>1, <2>2 DEF PurgeRagRow, Spares, Gone, Hidden, RowsTypeOK
  <2>3. CASE RagOf[d] # wjob[w]
    BY <1>3, <2>3 DEF PurgeRagRow, DeleteDocuments, DocsOf, Spares, search
  <2> QED
    BY <2>2, <2>3
<1>4. CASE InsertItem(w)
  <2>1. d = witem[w] => docRow[d] = "none"
    BY <1>0, <1>4 DEF InsertItem, WorkerIsSound, InImport, Unregistered
  <2> QED
    BY <1>4, <2>1 DEF InsertItem, InsertDocuments, Spares, docRows, search
<1>5. CASE \/ \E e \in Docs : TakeIngest(w, e)
           \/ \E job \in Docs \cup Rags \cup Batches : TakeMaintenance(w, job)
           \/ PurgeObject(w) \/ PurgeRagObjects(w) \/ PurgeRagIcon(w) \/ WorkerError(w) \/ Crash(w)
           \/ OpenBatch(w) \/ PlanItems(w) \/ (\E e \in Docs : LookupItem(w, e)) \/ PutItem(w)
           \/ EnqueueItem(w) \/ RecordItem(w) \/ FinishBatch(w) \/ FailBatch(w) \/ Unstage(w)
  <2>1. UNCHANGED <<docRow, chunksCount, index, visible>>
    BY <1>5 DEF TakeIngest, TakeMaintenance, PurgeObject, PurgeRagObjects, PurgeRagIcon, WorkerError,
                Crash, OpenBatch, PlanItems, LookupItem, PutItem, EnqueueItem, RecordItem, FinishBatch,
                FailBatch, Unstage, stores, rows, docRows, search
  <2> QED
    BY <2>1 DEF Spares
<1> QED
  BY <1>1, <1>2, <1>3, <1>4, <1>5 DEF ImportStep

\* Only the chunks a job loads are in the index, and they are visible when the
\* document is reported as a success.
LEMMA IndexingFollows ==
  ASSUME RefreshAfterLoad, Shape, Sound, OneHolder, Phases, IndexInv, RowsGoForward,
         NEW w \in Workers,
         \/ BeginIngest(w) \/ Convert(w) \/ Load(w) \/ Refresh(w)
         \/ MarkSuccess(w) \/ MarkFailed(w) \/ LoadBreaks(w)
  PROVE  IndexInv'
<1>a. Indexing(w)
  BY DEF BeginIngest, Convert, Load, Refresh, MarkSuccess, MarkFailed, LoadBreaks, Indexing, IngestStates
<1>b. PICK d \in Docs : d = wjob[w]
  BY <1>a, ShapeParts DEF JobShape, WorkerShape, Indexing
<1>0. /\ Typed /\ SearchTypeOK /\ wchunks \in [Workers -> SUBSET Chunks]
      /\ WorkerPhase(w) /\ Indexed(d) /\ JobIndexed(w)
      /\ Gone(d) => Gone(d)'
      /\ Indexing(w) /\ d = wjob[w]
  BY <1>a, <1>b, ShapeIsTyped, ShapeParts, GoneIsForGood
  DEF Phases, IndexInv, JobShape, WorkerTypeOK
<1> USE DEF Typed, RowsTypeOK, SearchTypeOK, JobShape, WorkerTypeOK
<1>1. \A v \in Workers \ {w} : wpc'[v] = wpc[v] /\ wjob'[v] = wjob[v] /\ wchunks'[v] = wchunks[v]
  BY <1>0 DEF BeginIngest, Convert, Load, Refresh, MarkSuccess, MarkFailed, LoadBreaks, Proceed, Release
<1>2. ASSUME NEW e \in Docs, e # d
      PROVE  Spares(e)
  <2>1. /\ docRow'[e] = docRow[e] /\ chunksCount'[e] = chunksCount[e]
        /\ index'[e] = index[e] /\ visible'[e] \in {visible[e], index[e]}
    <3>1. CASE BeginIngest(w)
      BY <1>0, <1>2, <3>1 DEF BeginIngest, BeginDocument, docRows, search
    <3>2. CASE Convert(w) \/ Load(w) \/ Refresh(w) \/ LoadBreaks(w)
      BY <1>0, <1>2, <3>2 DEF Convert, Load, Refresh, LoadBreaks, BulkLoad, RefreshIndex, stores, rows,
                              docRows, search
    <3>3. CASE MarkSuccess(w) \/ MarkFailed(w)
      BY <1>0, <1>2, <3>3 DEF MarkSuccess, MarkFailed, MarkDocument, search
    <3> QED
      BY <3>1, <3>2, <3>3
  <2> QED
    BY <2>1 DEF Spares
<1>3. ASSUME NEW v \in Workers \ {w}
      PROVE  JobIndexed(v)'
  <2>1. Indexing(v) => wjob[v] \in Docs /\ wjob[v] # d
    BY <1>0 DEF OneHolder, WorkerHolds, WorkerShape, Indexing
  <2> QED
    BY <1>0, <1>1, <1>2, <2>1, SparedJobIsIndexed DEF IndexInv
<1>4. Indexed(d)' /\ JobIndexed(w)'
  <2>1. CASE Gone(d)'
    <3>1. JobIndexed(w)'
      <4>1. wjob'[w] = d \/ wpc'[w] = "idle"
        BY <1>0 DEF BeginIngest, Convert, Load, Refresh, MarkSuccess, MarkFailed, LoadBreaks, Proceed,
                    Release
      <4> QED
        BY <2>1, <4>1 DEF JobIndexed, Indexing, IngestStates
    <3> QED
      BY <2>1, <3>1 DEF Indexed
  <2>2. CASE ~Gone(d)'
    <3>0. ~Gone(d) /\ docRow[d] # "deleted" /\ docRow'[d] # "deleted"
      BY <1>0, <2>2 DEF Gone
    <3>1. CASE BeginIngest(w)
      <4>1. docRow[d] = "pending" /\ index[d] = {} /\ visible[d] = {}
        BY <1>0, <3>0, <3>1 DEF BeginIngest, WorkerPhase, Waiting, Indexed
      <4>2. docRow'[d] = "processing" /\ wpc'[w] = "convert" /\ UNCHANGED <<wjob, index, visible>>
        BY <1>0, <3>1, <4>1 DEF BeginIngest, BeginDocument, Proceed, Live, LiveStates, search
      <4> QED
        BY <1>b, <4>1, <4>2 DEF Indexed, JobIndexed
    <3>2. CASE Convert(w)
      <4>1. docRow[d] = "processing" /\ index[d] = {} /\ visible[d] = {}
        BY <1>0, <3>0, <3>2 DEF Convert, WorkerPhase, Begun, IngestStates, JobIndexed
      <4>2. UNCHANGED <<docRow, index, visible, wjob>>
        BY <3>2 DEF Convert, Proceed, stores, rows, docRows, search
      <4>3. \/ wpc'[w] = "success" /\ wchunks'[w] = {}
            \/ wpc'[w] \in {"load", "fail"}
        BY <1>0, <3>2 DEF Convert, Proceed
      <4> QED
        BY <1>b, <4>1, <4>2, <4>3 DEF Indexed, JobIndexed
    <3>3. CASE Load(w)
      <4>1. docRow[d] = "processing" /\ index[d] = {} /\ visible[d] = {}
        BY <1>0, <3>0, <3>3 DEF Load, WorkerPhase, Begun, IngestStates, JobIndexed
      <4>2. PICK ok \in SUBSET wchunks[w] :
              BulkLoad(d, ok) /\ Proceed(w, IF ok # {} /\ RefreshAfterLoad THEN "refresh" ELSE "success", ok)
        BY <1>b, <3>3 DEF Load
      <4>3. /\ docRow' = docRow /\ wjob' = wjob
            /\ index'[d] = ok /\ visible'[d] = {} /\ wchunks'[w] = ok
            /\ wpc'[w] = IF ok # {} THEN "refresh" ELSE "success"
        BY <1>0, <3>3, <4>1, <4>2 DEF Load, BulkLoad, Proceed, rows, docRows
      <4> QED
        BY <1>b, <4>1, <4>3 DEF Indexed, JobIndexed
    <3>4. CASE Refresh(w)
      <4>1. docRow[d] = "processing" /\ index[d] = wchunks[w]
        BY <1>0, <3>0, <3>4 DEF Refresh, WorkerPhase, Begun, IngestStates, JobIndexed
      <4>2. /\ UNCHANGED <<docRow, index, wjob>> /\ visible' = index
            /\ wpc'[w] = "success" /\ wchunks'[w] = wchunks[w]
        BY <1>0, <3>4 DEF Refresh, RefreshIndex, Proceed, rows, docRows
      <4> QED
        BY <1>b, <4>1, <4>2 DEF Indexed, JobIndexed
    <3>5. CASE MarkSuccess(w)
      <4>1. index[d] = wchunks[w] /\ visible[d] = wchunks[w]
        BY <1>0, <3>0, <3>5 DEF MarkSuccess, JobIndexed
      <4>2. docRow[d] = "processing"
        BY <1>0, <3>0, <3>5 DEF MarkSuccess, WorkerPhase, Begun, IngestStates
      <4>3. /\ UNCHANGED <<index, visible>> /\ wpc'[w] = "idle"
            /\ docRow'[d] = "success" /\ chunksCount'[d] = Cardinality(wchunks[w])
        BY <1>0, <3>5, <4>2 DEF MarkSuccess, MarkDocument, Release, Live, LiveStates, search
      <4> QED
        BY <4>1, <4>3 DEF Indexed, JobIndexed, Indexing, IngestStates
    <3>6. CASE MarkFailed(w)
      <4>1. docRow'[d] \notin {"none", "pending", "success"} /\ wpc'[w] = "idle"
        BY <1>0, <3>0, <3>6
        DEF MarkFailed, MarkDocument, Release, WorkerPhase, Waiting, Begun, Live, LiveStates
      <4> QED
        BY <4>1 DEF Indexed, JobIndexed, Indexing, IngestStates
    <3>7. CASE LoadBreaks(w)
      <4>1. docRow[d] = "processing" /\ docRow' = docRow /\ wpc'[w] = "fail"
        BY <1>0, <3>0, <3>7
        DEF LoadBreaks, Proceed, WorkerPhase, Begun, IngestStates, rows, docRows
      <4> QED
        BY <4>1 DEF Indexed, JobIndexed
    <3> QED
      BY <3>1, <3>2, <3>3, <3>4, <3>5, <3>6, <3>7
  <2> QED
    BY <2>1, <2>2
<1>5. \A e \in Docs : Indexed(e)'
  BY <1>2, <1>4, SparedIsIndexed DEF IndexInv
<1> QED
  BY <1>3, <1>4, <1>5 DEF IndexInv

\* Every step keeps IndexInv.
LEMMA NextKeepsIndex ==
  ASSUME RefreshAfterLoad, OnceInv, IndexInv, [Next]_vars
  PROVE  IndexInv'
<1>0. Shape /\ Typed /\ Sound /\ OneHolder /\ Phases /\ RowsGoForward
  BY NextKeepsSound, ShapeIsTyped DEF OnceInv, IInv
<1>1. ASSUME \A d \in Docs : Spares(d), UNCHANGED workerVars
      PROVE  IndexInv'
  <2>1. \A v \in Workers : Indexing(v) => wjob[v] \in Docs
    BY <1>0 DEF Typed, JobShape, WorkerShape, Indexing
  <2> QED
    BY <1>0, <1>1, <2>1, SparedIsIndexed, SparedJobIsIndexed DEF IndexInv, workerVars
<1>2. CASE ApiNext /\ UNCHANGED workerVars
  BY <1>0, <1>1, <1>2, ApiSpares
<1>3. CASE (PeriodicRefresh /\ UNCHANGED <<apiVars, workerVars>>) \/ UNCHANGED vars
  BY <1>1, <1>3 DEF PeriodicRefresh, RefreshIndex, Spares, vars, stores, rows, docRows, search
<1>4. ASSUME NEW w \in Workers,
             \/ \E e \in Docs : TakeIngest(w, e)
             \/ \E job \in Docs \cup Rags \cup Batches : TakeMaintenance(w, job)
             \/ PurgeChunks(w) \/ PurgeObject(w)
             \/ PurgeRagChunks(w) \/ PurgeRagObjects(w) \/ PurgeRagIcon(w) \/ PurgeRagRow(w)
             \/ WorkerError(w) \/ Crash(w) \/ ImportStep(w)
      PROVE  IndexInv'
  <2>1. \A d \in Docs : Spares(d)
    BY <1>0, <1>4, OtherJobsSpare
  <2>2. \A v \in Workers \ {w} : wpc'[v] = wpc[v] /\ wjob'[v] = wjob[v] /\ wchunks'[v] = wchunks[v]
    BY <1>0, <1>4 DEF TakeIngest, TakeMaintenance, PurgeChunks, PurgeObject, PurgeRagChunks,
      PurgeRagObjects, PurgeRagIcon, PurgeRagRow, WorkerError, Crash, ImportStep, OpenBatch, PlanItems,
      LookupItem, PutItem, InsertItem, EnqueueItem, RecordItem, FinishBatch, FailBatch, Unstage, Leave,
      Take, Proceed, Release, Working, Typed, JobShape, WorkerTypeOK
  <2>3. wpc'[w] \notin {"convert", "load", "refresh", "success"}
    BY <1>0, <1>4 DEF TakeIngest, TakeMaintenance, PurgeChunks, PurgeObject, PurgeRagChunks,
      PurgeRagObjects, PurgeRagIcon, PurgeRagRow, WorkerError, Crash, ImportStep, OpenBatch, PlanItems,
      LookupItem, PutItem, InsertItem, EnqueueItem, RecordItem, FinishBatch, FailBatch, Unstage, Leave,
      Take, Proceed, Release, Working, Typed, JobShape, WorkerTypeOK
  <2>4. \A v \in Workers : Indexing(v) => wjob[v] \in Docs
    BY <1>0 DEF Typed, JobShape, WorkerShape, Indexing
  <2>5. \A v \in Workers \ {w} : JobIndexed(v)'
    BY <1>0, <2>1, <2>2, <2>4, SparedJobIsIndexed DEF IndexInv
  <2>6. JobIndexed(w)'
    BY <2>3 DEF JobIndexed
  <2> QED
    BY <1>0, <2>1, <2>5, <2>6, SparedIsIndexed DEF IndexInv
<1>5. ASSUME NEW w \in Workers, WorkerStep(w) \/ JobFault(w)
      PROVE  IndexInv'
  BY <1>0, <1>4, <1>5, IndexingFollows DEF WorkerStep, JobStep, JobFault
<1> QED
  BY <1>2, <1>3, <1>5 DEF Next

CatalogInv == OnceInv /\ IndexInv

\* CatalogInv is inductive.
LEMMA CatalogInvariance ==
  ASSUME RefreshAfterLoad
  PROVE  Spec => []CatalogInv
<1>1. Init => CatalogInv
  <2>1. Init => OnceInv
    BY InitShape, InitSound
    DEF OnceInv, IInv, Init, StoresInit, ApiInit, WorkerInit, OneHolder, RequestHolds, WorkerHolds,
        Indexing, RegisterStates, IngestStates, Phases, RequestPhase, WorkerPhase
  <2>2. Init => IndexInv
    BY DEF Init, StoresInit, WorkerInit, IndexInv, Indexed, JobIndexed, Indexing, IngestStates
  <2> QED
    BY <2>1, <2>2 DEF CatalogInv
<1>2. CatalogInv /\ [Next]_vars => CatalogInv'
  BY NextKeepsShape, NextKeepsSound, NextKeepsOnce, NextKeepsIndex, ShapeIsTyped
  DEF CatalogInv, OnceInv, IInv
<1> QED
  BY <1>1, <1>2, PTL DEF Spec

\* chunks_count tells what a search finds: where the worker refreshes the index
\* after its bulk call, a document reported as a success has exactly the chunks
\* its row counts, all of them visible, whatever part of them was refused.
THEOREM CountsMatchSearches ==
  ASSUME RefreshAfterLoad
  PROVE  Spec => []CountMatchesSearch
<1>1. CatalogInv => CountMatchesSearch
  BY DEF CatalogInv, IndexInv, Indexed, CountMatchesSearch, Gone, Hidden, Alive
<1> QED
  BY <1>1, CatalogInvariance, PTL

-----------------------------------------------------------------------------
(* The refinement.                                                         *)

\* What the owner and the search see of a document, now and after a step.
LEMMA ViewOfDocument ==
  ASSUME NEW d \in Docs
  PROVE  /\ View(d) = IF Gone(d) THEN "removed" ELSE docRow[d]
         /\ Found(d) = IF ~Gone(d) /\ docRow[d] = "success" THEN visible[d] ELSE {}
         /\ View(d)' = IF Gone(d)' THEN "removed" ELSE docRow'[d]
         /\ Found(d)' = IF ~Gone(d)' /\ docRow'[d] = "success" THEN visible'[d] ELSE {}
BY DEF View, Found, Gone, Hidden

\* A step that takes no document to another status, but may remove some, is a
\* removal in the catalog, of nothing at the least.
LEMMA RemovalIsAStep ==
  ASSUME \A d \in Docs : Gone(d) => Gone(d)',
         \A d \in Docs : Gone(d)' \/ (/\ docRow'[d] = docRow[d]
                                      /\ docRow[d] = "success" => visible'[d] = visible[d])
  PROVE  Catalog!Next
<1>1. PICK S \in SUBSET Docs : \A d \in Docs : d \in S <=> Gone(d)'
  <2>1. {d \in Docs : Gone(d)'} \in SUBSET Docs
    OBVIOUS
  <2> QED
    BY <2>1
<1>2. \A d \in Docs : /\ View(d)' = IF d \in S THEN "removed" ELSE View(d)
                      /\ Found(d)' = IF d \in S THEN {} ELSE Found(d)
  BY <1>1, ViewOfDocument
<1>3. Catalog!Remove(S)
  BY <1>2 DEF Catalog!Remove
<1> QED
  BY <1>3 DEF Catalog!Next

\* New rows are registrations, except in a set that is hidden already.
LEMMA InsertionIsAStep ==
  ASSUME NEW S \in SUBSET Docs, InsertDocuments(S), \A d \in S : docRow[d] = "none",
         UNCHANGED <<ragRow, visible>>
  PROVE  Catalog!Next
<1>1. PICK T \in SUBSET Docs : \A d \in Docs : d \in T <=> d \in S /\ ~Gone(d)
  <2>1. {d \in S : ~Gone(d)} \in SUBSET Docs
    OBVIOUS
  <2> QED
    BY <2>1
<1>2. \A d \in Docs : /\ docRow'[d] = IF d \in S THEN "pending" ELSE docRow[d]
                      /\ Gone(d)' <=> Gone(d)
                      /\ visible'[d] = visible[d]
  BY DEF InsertDocuments, Gone, Hidden
<1>3. \A d \in Docs : /\ View(d)' = IF d \in T THEN "pending" ELSE View(d)
                      /\ Found(d)' = Found(d)
                      /\ d \in T => View(d) = "none"
  BY <1>1, <1>2, ViewOfDocument
<1>4. Catalog!Register(T)
  BY <1>3 DEF Catalog!Register
<1> QED
  BY <1>4 DEF Catalog!Next

\* A step that moves one document, which is not removed, and no other.
LEMMA MoveOfOneDocument ==
  ASSUME NEW e \in Docs, NEW status, ~Gone(e), docRow'[e] = status, status # "deleted",
         UNCHANGED <<ragRow, visible>>,
         \A d \in Docs \ {e} : docRow'[d] = docRow[d]
  PROVE  /\ [d \in Docs |-> View(d)]' = [[d \in Docs |-> View(d)] EXCEPT ![e] = status]
         /\ [d \in Docs |-> Found(d)]'
              = [[d \in Docs |-> Found(d)] EXCEPT ![e] = IF status = "success" THEN visible[e] ELSE {}]
<1>1. \A d \in Docs : (Gone(d)' <=> Gone(d)) /\ visible'[d] = visible[d]
  BY DEF Gone, Hidden
<1> QED
  BY <1>1, ViewOfDocument

\* A step that writes no status, and at most refreshes the index, is a removal:
\* what a search finds of an indexed document was visible before.
LEMMA QuietStepIsAStep ==
  ASSUME IndexInv, RowsGoForward,
         \A d \in Docs : Gone(d)' \/ (docRow'[d] = docRow[d] /\ visible'[d] \in {visible[d], index[d]})
  PROVE  Catalog!Next
<1>1. \A d \in Docs : Gone(d) => Gone(d)'
  BY GoneIsForGood
<1>2. \A d \in Docs : Gone(d)' \/ (/\ docRow'[d] = docRow[d]
                                   /\ docRow[d] = "success" => visible'[d] = visible[d])
  BY <1>1 DEF IndexInv, Indexed
<1> QED
  BY <1>1, <1>2, RemovalIsAStep

\* A request registers documents or removes them.
LEMMA ApiStepsInCatalog ==
  ASSUME CatalogInv, RowsGoForward, ApiNext, UNCHANGED workerVars
  PROVE  Catalog!Next
<1>0. Typed /\ Sound /\ IndexInv
  BY ShapeIsTyped DEF CatalogInv, OnceInv, IInv
<1>1. ASSUME NEW r \in Requests, InsertRows(r), CanInsert(adocs[r])
      PROVE  Catalog!Next
  <2>1. adocs[r] \in SUBSET Docs /\ \A d \in adocs[r] : docRow[d] = "none"
    BY <1>0, <1>1 DEF InsertRows, Sound, RequestIsSound, InHand, RegisterStates, Unregistered, Typed,
                      ApiShape, ApiTypeOK
  <2> QED
    BY <1>1, <2>1, InsertionIsAStep DEF InsertRows, ragRows, search
<1>2. CASE ~\E r \in Requests : InsertRows(r) /\ CanInsert(adocs[r])
  <2>1. ASSUME NEW d \in Docs
        PROVE  Gone(d)' \/ docRow'[d] = docRow[d]
    <3>1. CASE \E r \in Requests : InsertRows(r) \/ DeleteRow(r)
      BY <1>2, <3>1 DEF InsertRows, DeleteRow, DeleteDocuments, docRows, Gone
    <3>2. CASE ~\E r \in Requests : InsertRows(r) \/ DeleteRow(r)
      BY <3>2, OthersLeaveDocuments
    <3> QED
      BY <3>1, <3>2
  <2>2. \A d \in Docs : Spares(d)
    BY <1>0, ApiSpares
  <2> QED
    BY <1>0, <2>1, <2>2, QuietStepIsAStep DEF Spares
<1> QED
  BY <1>1, <1>2

\* A worker begins a document and reports its verdict.
LEMMA VerdictsInCatalog ==
  ASSUME CatalogInv, RowsGoForward, NEW w \in Workers,
         BeginIngest(w) \/ MarkSuccess(w) \/ MarkFailed(w)
  PROVE  Catalog!Next
<1>0. Shape /\ Typed /\ Sound /\ Phases /\ IndexInv
  BY ShapeIsTyped DEF CatalogInv, OnceInv, IInv
<1>1. Indexing(w) /\ UNCHANGED <<ragRow, index, visible>>
  BY DEF BeginIngest, MarkSuccess, MarkFailed, Indexing, IngestStates, ragRows, search
<1>2. PICK e \in Docs : e = wjob[w]
  BY <1>0, <1>1 DEF Typed, JobShape, WorkerShape, Indexing
<1>3. \A d \in Docs \ {e} : docRow'[d] = docRow[d]
  BY <1>0, <1>2 DEF BeginIngest, BeginDocument, MarkSuccess, MarkFailed, MarkDocument, docRows, Typed,
                    RowsTypeOK
<1>4. CASE Gone(e)
  BY <1>0, <1>1, <1>3, <1>4, GoneIsForGood, QuietStepIsAStep
<1>5. CASE ~Gone(e)
  <2>0. WorkerPhase(w) /\ docRow[e] # "deleted" /\ View(e) = docRow[e]
    BY <1>0, <1>5, ViewOfDocument DEF Phases, Gone
  <2>1. CASE BeginIngest(w)
    <3>1. docRow[e] = "pending" /\ docRow'[e] = "processing"
      BY <1>0, <1>2, <2>0, <2>1
      DEF BeginIngest, BeginDocument, WorkerPhase, Waiting, Live, LiveStates, Typed, RowsTypeOK
    <3>2. Found(e) = {}
      BY <1>5, <3>1, ViewOfDocument
    <3>3. Catalog!Begin(e)
      BY <1>1, <1>3, <1>5, <2>0, <3>1, <3>2, MoveOfOneDocument DEF Catalog!Begin
    <3> QED
      BY <3>3 DEF Catalog!Next
  <2>2. CASE MarkSuccess(w)
    <3>1. docRow[e] = "processing" /\ docRow'[e] = "success"
      BY <1>0, <1>2, <2>0, <2>2
      DEF MarkSuccess, MarkDocument, WorkerPhase, Begun, IngestStates, Live, LiveStates, Typed, RowsTypeOK
    <3>2. visible[e] \in SUBSET Chunks
      BY <1>0, ShapeParts DEF SearchTypeOK
    <3>3. Catalog!Succeed(e)
      BY <1>1, <1>3, <1>5, <2>0, <3>1, <3>2, MoveOfOneDocument DEF Catalog!Succeed
    <3> QED
      BY <3>3 DEF Catalog!Next
  <2>3. CASE MarkFailed(w)
    <3>1. docRow[e] \in {"pending", "processing"} /\ docRow'[e] = "failed"
      BY <1>0, <1>2, <2>0, <2>3
      DEF MarkFailed, MarkDocument, WorkerPhase, Waiting, Begun, Live, LiveStates, Typed, RowsTypeOK
    <3>2. Found(e) = {}
      BY <1>5, <3>1, ViewOfDocument
    <3>3. Catalog!Fail(e)
      BY <1>1, <1>3, <1>5, <2>0, <3>1, <3>2, MoveOfOneDocument DEF Catalog!Fail
    <3> QED
      BY <3>3 DEF Catalog!Next
  <2> QED
    BY <2>1, <2>2, <2>3
<1> QED
  BY <1>4, <1>5

\* Every other step of a worker registers an item, or writes no status.
LEMMA OtherJobsInCatalog ==
  ASSUME CatalogInv, RowsGoForward, NEW w \in Workers,
         \/ \E e \in Docs : TakeIngest(w, e)
         \/ Convert(w) \/ Load(w) \/ Refresh(w) \/ LoadBreaks(w)
         \/ \E job \in Docs \cup Rags \cup Batches : TakeMaintenance(w, job)
         \/ PurgeChunks(w) \/ PurgeObject(w)
         \/ PurgeRagChunks(w) \/ PurgeRagObjects(w) \/ PurgeRagIcon(w) \/ PurgeRagRow(w)
         \/ WorkerError(w) \/ Crash(w) \/ ImportStep(w)
  PROVE  Catalog!Next
<1>0. Typed /\ Sound /\ IndexInv
  BY ShapeIsTyped DEF CatalogInv, OnceInv, IInv
<1>1. CASE InsertItem(w) /\ CanInsert({witem[w]})
  <2>1. PICK e \in Docs : e = witem[w]
    BY <1>0, <1>1 DEF InsertItem, Typed, JobShape, WorkerShape, ItemStates
  <2>2. docRow[e] = "none"
    BY <1>0, <1>1, <2>1 DEF InsertItem, Sound, WorkerIsSound, InImport, Unregistered
  <2>3. InsertDocuments({e}) /\ UNCHANGED <<ragRow, visible>>
    BY <1>1, <2>1 DEF InsertItem, ragRows, search
  <2> QED
    BY <2>2, <2>3, InsertionIsAStep
<1>2. CASE Convert(w) \/ Load(w) \/ Refresh(w) \/ LoadBreaks(w)
  <2>1. docRow' = docRow /\ (visible' = visible \/ visible' = index)
    BY <1>2 DEF Convert, Load, Refresh, LoadBreaks, BulkLoad, RefreshIndex, stores, rows, docRows, search
  <2> QED
    BY <1>0, <2>1, QuietStepIsAStep
<1>3. CASE /\ ~(InsertItem(w) /\ CanInsert({witem[w]}))
           /\ ~(Convert(w) \/ Load(w) \/ Refresh(w) \/ LoadBreaks(w))
  <2>1. \A d \in Docs : Spares(d)
    BY <1>0, <1>3, OtherJobsSpare
  <2>2. ASSUME NEW d \in Docs
        PROVE  Gone(d)' \/ docRow'[d] = docRow[d]
    <3>1. CASE PurgeRagRow(w) \/ InsertItem(w)
      BY <1>3, <3>1 DEF PurgeRagRow, InsertItem, DeleteDocuments, docRows, Gone
    <3>2. CASE ~(PurgeRagRow(w) \/ InsertItem(w))
      BY <1>3, <3>2 DEF TakeIngest, TakeMaintenance, PurgeChunks, PurgeObject, PurgeRagChunks,
        PurgeRagObjects, PurgeRagIcon, WorkerError, Crash, ImportStep, OpenBatch, PlanItems, LookupItem,
        PutItem, EnqueueItem, RecordItem, FinishBatch, FailBatch, Unstage, stores, rows, docRows
    <3> QED
      BY <3>1, <3>2
  <2> QED
    BY <1>0, <2>1, <2>2, QuietStepIsAStep DEF Spares
<1> QED
  BY <1>1, <1>2, <1>3

\* Every step of the service is a step of the catalog.
LEMMA NextImplementsNext ==
  ASSUME CatalogInv, [Next]_vars
  PROVE  [Catalog!Next]_(Catalog!vars)
<1>0. IndexInv /\ RowsGoForward
  BY NextKeepsSound, ShapeIsTyped DEF CatalogInv, OnceInv, IInv
<1>1. CASE ApiNext /\ UNCHANGED workerVars
  BY <1>0, <1>1, ApiStepsInCatalog
<1>2. ASSUME NEW w \in Workers, WorkerStep(w) \/ JobFault(w)
      PROVE  Catalog!Next
  BY <1>0, <1>2, VerdictsInCatalog, OtherJobsInCatalog DEF WorkerStep, JobStep, JobFault
<1>3. CASE (PeriodicRefresh /\ UNCHANGED <<apiVars, workerVars>>) \/ UNCHANGED vars
  <2>1. docRow' = docRow /\ (visible' = visible \/ visible' = index)
    BY <1>3 DEF PeriodicRefresh, RefreshIndex, vars, stores, rows, docRows, search
  <2> QED
    BY <1>0, <2>1, QuietStepIsAStep
<1> QED
  BY <1>1, <1>2, <1>3 DEF Next

\* The service implements the catalog: whatever the interleaving of requests and
\* workers and whatever fails, an owner sees a document registered once, indexed
\* at most once and settled for good, and a search finds a fixed set of chunks of
\* it from its success until it is removed.
THEOREM ServiceImplementsCatalog ==
  ASSUME RefreshAfterLoad
  PROVE  Spec => ImplementsCatalog
<1>1. Init => Catalog!Init
  BY StoresAssumption DEF Init, StoresInit, Catalog!Init, View, Found
<1>2. CatalogInv /\ [Next]_vars => [Catalog!Next]_(Catalog!vars)
  BY NextImplementsNext
<1> QED
  BY <1>1, <1>2, CatalogInvariance, PTL DEF Spec, ImplementsCatalog, Catalog!Spec
=============================================================================
