------------------------ MODULE IngestServiceShape -------------------------
(***************************************************************************)
(* What holds of IngestService for every number of sets, documents,        *)
(* requests and workers.  The first half shows that Shape is inductive:    *)
(* one lemma for each operator the actions are made of, one step for each  *)
(* action.                                                                 *)
(***************************************************************************)
EXTENDS IngestService, FiniteSetTheorems, TLAPS

ApiShape    == ApiTypeOK /\ RequestShape
JobShape    == WorkerTypeOK /\ WorkerShape

-----------------------------------------------------------------------------
(* The operators the handlers are made of.                                 *)

\* A request that goes on keeps its set, so its next step must expect a set
\* (or a batch) exactly when the last one did.
LEMMA GotoShape ==
  ASSUME ApiShape, NEW r \in Requests, NEW pc \in ApiStates, NEW S \in SUBSET Docs,
         pc \in BatchStates => aset[r] \in Batches,
         pc \notin BatchStates \cup {"idle"} => aset[r] \in Rags,
         Goto(r, pc, S)
  PROVE  ApiShape'
BY DEF Goto, ApiShape, ApiTypeOK, RequestShape, BatchStates

\* A request that starts is given a set or a batch its first step expects.
LEMMA OpenShape ==
  ASSUME ApiShape, NEW r \in Requests, NEW g \in Rags \cup Batches, NEW pc \in ApiStates,
         NEW S \in SUBSET Docs, NEW used \in Nat,
         IF pc \in BatchStates THEN g \in Batches ELSE g \in Rags,
         Open(r, g, pc, S, used)
  PROVE  ApiShape'
BY DEF Open, ApiShape, ApiTypeOK, RequestShape, BatchStates

\* A request that is answered holds nothing.
LEMMA RespondShape ==
  ASSUME ApiShape, NEW r \in Requests, Respond(r)
  PROVE  ApiShape'
BY DEF Respond, ApiShape, ApiTypeOK, RequestShape, ApiStates, BatchStates

\* Taking a job gives the worker an identifier of the kind its step expects.
LEMMA TakeShape ==
  ASSUME JobShape, NEW w \in Workers, NEW pc \in WorkerStates \ ItemStates,
         NEW job \in Docs \cup Rags \cup Batches,
         pc \in IngestStates \cup PurgeDocStates => job \in Docs,
         pc \in PurgeRagStates => job \in Rags,
         pc \in ImportStates => job \in Batches,
         Take(w, pc, job)
  PROVE  JobShape'
BY DEF Take, JobShape, WorkerTypeOK, WorkerShape, importVars

\* The next step of a job is of the family of the last one.
LEMMA ProceedShape ==
  ASSUME JobShape, NEW w \in Workers, NEW pc \in WorkerStates \ ItemStates,
         NEW chunks \in SUBSET Chunks,
         pc \in IngestStates \cup PurgeDocStates => wjob[w] \in Docs,
         pc \in PurgeRagStates => wjob[w] \in Rags,
         pc \in ImportStates => wjob[w] \in Batches,
         Proceed(w, pc, chunks)
  PROVE  JobShape'
BY DEF Proceed, JobShape, WorkerTypeOK, WorkerShape, importVars

\* An import that registers an item has a document in hand.
LEMMA WorkingShape ==
  ASSUME JobShape, NEW w \in Workers, NEW pc \in ImportStates, NEW doc \in Docs \cup {None},
         wpc[w] \in ImportStates,
         pc \in ItemStates => doc \in Docs,
         Working(w, pc, doc)
  PROVE  JobShape'
<1>1. wjob[w] \in Batches
  BY DEF JobShape, WorkerShape
<1>2. pc \in WorkerStates /\ pc \notin IngestStates \cup PurgeDocStates \cup PurgeRagStates
  BY DEF WorkerStates, ImportStates, IngestStates, PurgeStates, PurgeDocStates, PurgeRagStates
<1>3. WorkerTypeOK'
  BY <1>2 DEF Working, JobShape, WorkerTypeOK
<1>4. ASSUME NEW v \in Workers
      PROVE  /\ wpc'[v] \in IngestStates \cup PurgeDocStates => wjob'[v] \in Docs
             /\ wpc'[v] \in PurgeRagStates => wjob'[v] \in Rags
             /\ wpc'[v] \in ImportStates => wjob'[v] \in Batches
             /\ wpc'[v] \in ItemStates => witem'[v] \in Docs
  <2>1. CASE v = w
    BY <1>1, <1>2, <2>1 DEF Working, JobShape, WorkerTypeOK
  <2>2. CASE v # w
    BY <2>2 DEF Working, JobShape, WorkerTypeOK, WorkerShape
  <2> QED
    BY <2>1, <2>2
<1> QED
  BY <1>3, <1>4 DEF JobShape, WorkerShape

\* A worker without a job holds nothing.
LEMMA ReleaseShape ==
  ASSUME JobShape, NEW w \in Workers, Release(w)
  PROVE  JobShape'
BY DEF Release, JobShape, WorkerTypeOK, WorkerShape, WorkerStates, IngestStates, PurgeStates,
       PurgeDocStates, PurgeRagStates, ImportStates, ItemStates

\* The finally clause leads to "unstage" or out of the job.
LEMMA LeaveShape ==
  ASSUME JobShape, NEW w \in Workers, wpc[w] \in ImportStates, Leave(w)
  PROVE  JobShape'
<1>1. CASE wjob[w] \in Archives
  <2>1. Working(w, "unstage", None)
    BY <1>1 DEF Leave
  <2> QED
    BY <2>1, WorkingShape DEF ImportStates, ItemStates
<1>2. CASE wjob[w] \notin Archives
  BY <1>2, ReleaseShape DEF Leave
<1> QED
  BY <1>1, <1>2

-----------------------------------------------------------------------------
(* The operators that write the stores.                                    *)

\* Inserting, deleting, starting and marking documents keeps their rows typed.
LEMMA DocumentRowsType ==
  ASSUME RowsTypeOK, UNCHANGED <<ragRows, batchRows>>,
         \/ \E S \in SUBSET Docs : InsertDocuments(S)
         \/ \E S \in SUBSET Docs : DeleteDocuments(S)
         \/ \E d \in Docs : BeginDocument(d)
         \/ \E d \in Docs, status \in LiveStates, n \in Nat : MarkDocument(d, status, n)
  PROVE  RowsTypeOK'
BY DEF InsertDocuments, DeleteDocuments, BeginDocument, MarkDocument, StampJob, RowsTypeOK,
       DocStates, LiveStates, JobStates, ragRows, batchRows

\* So does a verdict on a batch.
LEMMA BatchRowsType ==
  ASSUME RowsTypeOK, NEW b \in Batches, NEW status \in BatchLive, NEW n \in Nat,
         SetBatch(b, status, n), UNCHANGED <<ragRows, docRows>>
  PROVE  RowsTypeOK'
BY DEF SetBatch, RowsTypeOK, ragRows, docRows

\* Loading, deleting and refreshing keep the index and its view typed.
LEMMA SearchType ==
  ASSUME SearchTypeOK,
         \/ \E d \in Docs, chunks \in SUBSET Chunks : BulkLoad(d, chunks)
         \/ \E S \in SUBSET Docs : DeleteByQuery(S)
         \/ RefreshIndex
  PROVE  SearchTypeOK'
BY DEF SearchTypeOK, BulkLoad, DeleteByQuery, RefreshIndex

\* A store that no step writes keeps its type.
LEMMA StoresKeepType ==
  /\ RowsTypeOK /\ UNCHANGED rows => RowsTypeOK'
  /\ BlobsTypeOK /\ UNCHANGED blobs => BlobsTypeOK'
  /\ SearchTypeOK /\ UNCHANGED search => SearchTypeOK'
  /\ QueuesTypeOK /\ UNCHANGED queues => QueuesTypeOK'
  /\ ApiShape /\ UNCHANGED apiVars => ApiShape'
  /\ JobShape /\ UNCHANGED workerVars => JobShape'
BY DEF RowsTypeOK, rows, ragRows, docRows, batchRows, BlobsTypeOK, blobs, SearchTypeOK, search,
       QueuesTypeOK, queues, ApiShape, ApiTypeOK, RequestShape, apiVars, JobShape, WorkerTypeOK,
       WorkerShape, workerVars, importVars

\* What a set holds is counted.
LEMMA TotalBytesType ==
  ASSUME NEW g \in Rags
  PROVE  TotalBytes(g) \in Nat
<1>1. IsFiniteSet(RowsOf(g))
  BY StoresAssumption, FS_Subset DEF RowsOf, DocsOf
<1> QED
  BY <1>1, FS_CardinalityType DEF TotalBytes

\* And so are the chunks that were loaded.
LEMMA ChunkCountType ==
  ASSUME NEW chunks \in SUBSET Chunks
  PROVE  Cardinality(chunks) \in Nat
BY StoresAssumption, FS_Subset, FS_CardinalityType

\* Shape, store by store and process by process.
LEMMA ShapeParts ==
  /\ Shape => /\ RowsTypeOK /\ BlobsTypeOK /\ SearchTypeOK /\ QueuesTypeOK
              /\ ApiShape /\ JobShape
  /\ RowsTypeOK' /\ BlobsTypeOK' /\ SearchTypeOK' /\ QueuesTypeOK' /\ ApiShape' /\ JobShape'
       => Shape'
BY DEF Shape, TypeOK, StoresTypeOK, ApiShape, JobShape

-----------------------------------------------------------------------------
(* Shape and the actions of the API.                                       *)

\* A call that opens a request works on a set, or a batch, of the right kind.
LEMMA OpeningKeepsShape ==
  ASSUME Shape, UNCHANGED workerVars, NEW r \in Requests,
         \/ \E g \in Rags : \/ StartUpload(r, g) \/ StartDeleteRag(r, g) \/ StartIcon(r, g)
                            \/ \E S \in SUBSET Foreign :
                                 StartBucket(r, g, S) \/ CreateFromBucket(r, g, S)
         \/ \E d \in Docs : StartDelete(r, d)
         \/ \E b \in Batches : StartArchive(r, b) \/ ImportFromStaging(r, b)
  PROVE  Shape'
<1> USE StoresKeepType, ShapeParts, OpenShape
<1>1. ASSUME NEW g \in Rags, StartUpload(r, g)
      PROVE  Shape'
  BY <1>1, TotalBytesType DEF StartUpload, stores, ApiStates, BatchStates
<1>2. ASSUME NEW g \in Rags, StartDeleteRag(r, g) \/ StartIcon(r, g)
      PROVE  Shape'
  BY <1>2 DEF StartDeleteRag, StartIcon, stores, ApiStates, BatchStates
<1>3. ASSUME NEW d \in Docs, StartDelete(r, d)
      PROVE  Shape'
  BY <1>3, StoresAssumption DEF StartDelete, stores, ApiStates, BatchStates
<1>4. ASSUME NEW g \in Rags, NEW S \in SUBSET Foreign,
             StartBucket(r, g, S) \/ CreateFromBucket(r, g, S)
      PROVE  Shape'
  <2>1. S \in SUBSET Docs
    BY StoresAssumption
  <2>2. ApiShape'
    BY <1>4, <2>1 DEF StartBucket, CreateFromBucket, ApiStates, BatchStates
  <2>3. BlobsTypeOK'
    BY <1>4, <2>1 DEF StartBucket, CreateFromBucket, BlobsTypeOK
  <2>4. RowsTypeOK'
    <3>1. CASE StartBucket(r, g, S)
      BY <3>1 DEF StartBucket
    <3>2. CASE CreateFromBucket(r, g, S)
      BY <3>2 DEF CreateFromBucket, RowsTypeOK, RagStates, docRows, batchRows
    <3> QED
      BY <1>4, <3>1, <3>2
  <2> QED
    BY <1>4, <2>2, <2>3, <2>4 DEF StartBucket, CreateFromBucket
<1>5. ASSUME NEW b \in Batches, StartArchive(r, b) \/ ImportFromStaging(r, b)
      PROVE  Shape'
  <2>1. ApiShape'
    BY <1>5 DEF StartArchive, ImportFromStaging, ApiStates, BatchStates
  <2>2. RowsTypeOK'
    BY <1>5 DEF StartArchive, ImportFromStaging, RowsTypeOK, BatchLive, ragRows, docRows
  <2> QED
    BY <1>5, <2>1, <2>2 DEF StartArchive, ImportFromStaging
<1> QED
  BY <1>1, <1>2, <1>3, <1>4, <1>5

\* A request that goes on, or ends, stays well-formed.
LEMMA ContinuingKeepsShape ==
  ASSUME Shape, UNCHANGED workerVars, NEW r \in Requests,
         ApiContinue(r) \/ RefuseArchive(r) \/ ApiError(r)
  PROVE  Shape'
<1> USE StoresKeepType, ShapeParts
<1>0. /\ apc[r] \in BatchStates => aset[r] \in Batches
      /\ apc[r] \notin BatchStates \cup {"idle"} => aset[r] \in Rags
      /\ adocs[r] \in SUBSET Docs /\ ajobs[r] \in SUBSET Docs /\ aused[r] \in Nat
  BY DEF ApiShape, ApiTypeOK, RequestShape
<1>1. ASSUME NEW d \in Docs, PutObject(r, d)
      PROVE  Shape'
  <2>1. ApiShape'
    BY <1>1, <1>0 DEF PutObject, ApiShape, ApiTypeOK, RequestShape, ApiStates, BatchStates
  <2>2. BlobsTypeOK'
    BY <1>1 DEF PutObject, BlobsTypeOK
  <2> QED
    BY <1>1, <2>1, <2>2 DEF PutObject
<1>2. CASE RejectOverQuota(r)
  <2>1. BlobsTypeOK'
    BY <1>2 DEF RejectOverQuota, BlobsTypeOK
  <2> QED
    BY <1>2, <2>1, RespondShape DEF RejectOverQuota
<1>3. CASE LookupHash(r)
  <2> DEFINE next == IF \E d \in adocs[r] : FindByHash(RagOf[d], ContentOf[d]) # {}
                     THEN "discard" ELSE "insert"
  <2>1. next \in ApiStates /\ next \notin BatchStates /\ apc[r] \notin BatchStates \cup {"idle"}
    BY <1>3 DEF LookupHash, ApiStates, BatchStates
  <2>2. Goto(r, next, adocs[r])
    BY <1>3 DEF LookupHash
  <2> HIDE DEF next
  <2> QED
    BY <1>0, <1>3, <2>1, <2>2, GotoShape DEF LookupHash, stores
<1>4. CASE DiscardDuplicate(r)
  <2>1. BlobsTypeOK'
    BY <1>4 DEF DiscardDuplicate, BlobsTypeOK
  <2> QED
    BY <1>0, <1>4, <2>1, GotoShape DEF DiscardDuplicate, ApiStates, BatchStates
<1>5. CASE InsertRows(r)
  <2>1. ApiShape'
    BY <1>0, <1>5, GotoShape, RespondShape DEF InsertRows, ApiStates, BatchStates
  <2>2. RowsTypeOK'
    BY <1>0, <1>5, DocumentRowsType DEF InsertRows, rows
  <2> QED
    BY <1>5, <2>1, <2>2 DEF InsertRows
<1>6. ASSUME NEW d \in Docs, EnqueueIngest(r, d)
      PROVE  Shape'
  <2>1. ApiShape'
    BY <1>6, <1>0 DEF EnqueueIngest, ApiShape, ApiTypeOK, RequestShape
  <2>2. QueuesTypeOK'
    BY <1>6 DEF EnqueueIngest, QueuesTypeOK
  <2> QED
    BY <1>6, <2>1, <2>2 DEF EnqueueIngest
<1>7. CASE RecordJobs(r)
  <2>1. ApiShape'
    <3>1. CASE Respond(r)
      BY <3>1, RespondShape
    <3>2. CASE ~Respond(r)
      BY <1>7, <3>2, <1>0 DEF RecordJobs, ApiShape, ApiTypeOK, RequestShape, ApiStates, BatchStates
    <3> QED
      BY <3>1, <3>2
  <2>2. RowsTypeOK'
    BY <1>7 DEF RecordJobs, RowsTypeOK, JobStates, ragRows, batchRows
  <2> QED
    BY <1>7, <2>1, <2>2 DEF RecordJobs
<1>8. CASE FinishUpload(r) \/ RefuseArchive(r) \/ ApiError(r)
  BY <1>8, RespondShape DEF FinishUpload, RefuseArchive, ApiError, stores
<1>9. CASE DeleteRow(r)
  <2>1. RowsTypeOK'
    BY <1>0, <1>9, DocumentRowsType DEF DeleteRow
  <2> QED
    BY <1>0, <1>9, <2>1, GotoShape DEF DeleteRow, ApiStates, BatchStates
<1>10. CASE EnqueuePurge(r) \/ EnqueuePurgeRag(r) \/ EnqueueBatch(r)
  <2>1. QueuesTypeOK'
    BY <1>0, <1>10 DEF EnqueuePurge, EnqueuePurgeRag, EnqueueBatch, QueuesTypeOK, BatchStates
  <2> QED
    BY <1>10, <2>1, RespondShape DEF EnqueuePurge, EnqueuePurgeRag, EnqueueBatch
<1>11. CASE SoftDelete(r)
  <2>1. RowsTypeOK'
    BY <1>11 DEF SoftDelete, RowsTypeOK, RagStates, docRows, batchRows
  <2> QED
    BY <1>0, <1>11, <2>1, GotoShape DEF SoftDelete, ApiStates, BatchStates
<1>12. CASE PutIconObject(r)
  <2>1. BlobsTypeOK'
    BY <1>0, <1>12 DEF PutIconObject, BlobsTypeOK, BatchStates
  <2> QED
    BY <1>0, <1>12, <2>1, GotoShape DEF PutIconObject, ApiStates, BatchStates
<1>13. CASE SetIconKey(r)
  <2>1. RowsTypeOK'
    BY <1>0, <1>13 DEF SetIconKey, RowsTypeOK, docRows, batchRows, BatchStates
  <2> QED
    BY <1>13, <2>1, RespondShape DEF SetIconKey
<1>14. CASE StageArchive(r)
  <2>1. BlobsTypeOK'
    BY <1>0, <1>14 DEF StageArchive, BlobsTypeOK, BatchStates
  <2> QED
    BY <1>0, <1>14, <2>1, GotoShape DEF StageArchive, ApiStates, BatchStates
<1> QED
  BY <1>1, <1>2, <1>3, <1>4, <1>5, <1>6, <1>7, <1>8, <1>9, <1>10, <1>11, <1>12, <1>13, <1>14
  DEF ApiContinue

\* Every call and every step of the API keeps Shape.
LEMMA ApiKeepsShape ==
  ASSUME Shape, ApiNext, UNCHANGED workerVars
  PROVE  Shape'
<1>1. ASSUME NEW g \in Rags, CreateRag(g)
      PROVE  Shape'
  <2>1. RowsTypeOK'
    BY <1>1, ShapeParts DEF CreateRag, RowsTypeOK, RagStates, docRows, batchRows
  <2> QED
    BY <1>1, <2>1, StoresKeepType, ShapeParts DEF CreateRag
<1> QED
  BY <1>1, OpeningKeepsShape, ContinuingKeepsShape DEF ApiNext

-----------------------------------------------------------------------------
(* Shape and the actions of the workers.                                   *)

\* Indexing a document keeps Shape, whatever fails.
LEMMA IndexingKeepsShape ==
  ASSUME Shape, UNCHANGED apiVars, NEW w \in Workers,
         \/ \E d \in Docs : TakeIngest(w, d)
         \/ BeginIngest(w) \/ Convert(w) \/ Load(w) \/ Refresh(w)
         \/ MarkSuccess(w) \/ MarkFailed(w) \/ LoadBreaks(w)
  PROVE  Shape'
<1> USE StoresKeepType, ShapeParts
<1>0. ASSUME NEW pc \in IngestStates
      PROVE  /\ pc \in WorkerStates \ ItemStates
             /\ pc \notin PurgeRagStates /\ pc \notin ImportStates
  BY DEF IngestStates, WorkerStates, ItemStates, PurgeStates, PurgeDocStates, PurgeRagStates, ImportStates
<1>a. wpc[w] \in IngestStates => wjob[w] \in Docs
  BY DEF JobShape, WorkerShape
<1>b. wchunks[w] \in SUBSET Chunks
  BY DEF JobShape, WorkerTypeOK
<1>1. ASSUME NEW d \in Docs, TakeIngest(w, d)
      PROVE  Shape'
  <2>1. "begin" \in IngestStates
    BY DEF IngestStates
  <2>2. JobShape'
    BY <1>0, <1>1, <2>1, TakeShape DEF TakeIngest
  <2>3. QueuesTypeOK'
    BY <1>1 DEF TakeIngest, QueuesTypeOK
  <2> QED
    BY <1>1, <2>2, <2>3 DEF TakeIngest
<1>2. CASE BeginIngest(w)
  <2>1. wjob[w] \in Docs /\ "convert" \in IngestStates
    BY <1>2, <1>a DEF BeginIngest, IngestStates
  <2>2. JobShape'
    BY <1>0, <1>2, <2>1, ProceedShape, ReleaseShape DEF BeginIngest
  <2>3. RowsTypeOK'
    BY <1>2, <2>1, DocumentRowsType DEF BeginIngest, rows
  <2> QED
    BY <1>2, <2>2, <2>3 DEF BeginIngest
<1>3. CASE Convert(w)
  <2>1. wjob[w] \in Docs /\ {"success", "load", "fail"} \subseteq IngestStates
    BY <1>3, <1>a DEF Convert, IngestStates
  <2>2. \E pc \in IngestStates, chunks \in SUBSET Chunks : Proceed(w, pc, chunks)
    <3>1. CASE wjob[w] \in objects \cup Foreign
      <4>1. PICK chunks \in SUBSET Chunks :
              LET new == chunks \ visible[wjob[w]]
              IN  Proceed(w, IF new = {} THEN "success" ELSE "load", new)
        BY <1>3, <3>1 DEF Convert
      <4> QED
        BY <2>1, <4>1
    <3>2. CASE wjob[w] \notin objects \cup Foreign
      BY <1>3, <2>1, <3>2 DEF Convert
    <3> QED
      BY <3>1, <3>2
  <2>3. JobShape'
    BY <1>0, <2>1, <2>2, ProceedShape
  <2> QED
    BY <1>3, <2>3 DEF Convert, stores
<1>4. CASE Load(w) \/ LoadBreaks(w)
  <2>1. wjob[w] \in Docs /\ {"refresh", "success", "fail"} \subseteq IngestStates
    BY <1>4, <1>a DEF Load, LoadBreaks, IngestStates
  <2>2. PICK ok \in SUBSET wchunks[w] : BulkLoad(wjob[w], ok)
    BY <1>4 DEF Load, LoadBreaks
  <2>3. SearchTypeOK'
    BY <1>b, <2>1, <2>2, SearchType
  <2>4. \E pc \in IngestStates, chunks \in SUBSET Chunks : Proceed(w, pc, chunks)
    <3>1. CASE Load(w)
      <4>1. PICK taken \in SUBSET wchunks[w] :
              Proceed(w, IF taken # {} /\ RefreshAfterLoad THEN "refresh" ELSE "success", taken)
        BY <3>1 DEF Load
      <4> QED
        BY <1>b, <2>1, <4>1
    <3>2. CASE LoadBreaks(w)
      BY <2>1, <3>2 DEF LoadBreaks
    <3> QED
      BY <1>4, <3>1, <3>2
  <2>5. JobShape'
    BY <1>0, <2>1, <2>4, ProceedShape
  <2> QED
    BY <1>4, <2>3, <2>5 DEF Load, LoadBreaks
<1>5. CASE Refresh(w)
  <2>1. wjob[w] \in Docs /\ "success" \in IngestStates
    BY <1>5, <1>a DEF Refresh, IngestStates
  <2>2. JobShape'
    BY <1>0, <1>5, <1>b, <2>1, ProceedShape DEF Refresh
  <2>3. SearchTypeOK'
    BY <1>5, SearchType DEF Refresh
  <2> QED
    BY <1>5, <2>2, <2>3 DEF Refresh
<1>6. CASE MarkSuccess(w) \/ MarkFailed(w)
  <2>1. wjob[w] \in Docs
    BY <1>6, <1>a DEF MarkSuccess, MarkFailed, IngestStates
  <2>2. Cardinality(wchunks[w]) \in Nat /\ chunksCount[wjob[w]] \in Nat
    BY <1>b, <2>1, ChunkCountType DEF RowsTypeOK
  <2>3. RowsTypeOK'
    BY <1>6, <2>1, <2>2, DocumentRowsType DEF MarkSuccess, MarkFailed, LiveStates
  <2> QED
    BY <1>6, <2>3, ReleaseShape DEF MarkSuccess, MarkFailed
<1> QED
  BY <1>1, <1>2, <1>3, <1>4, <1>5, <1>6

\* So does purging, and so do the failures that only end a job.
LEMMA PurgingKeepsShape ==
  ASSUME Shape, UNCHANGED apiVars, NEW w \in Workers,
         \/ \E job \in Docs \cup Rags \cup Batches : TakeMaintenance(w, job)
         \/ PurgeChunks(w) \/ PurgeObject(w)
         \/ PurgeRagChunks(w) \/ PurgeRagObjects(w) \/ PurgeRagIcon(w) \/ PurgeRagRow(w)
         \/ WorkerError(w) \/ Crash(w)
  PROVE  Shape'
<1> USE StoresKeepType, ShapeParts
<1>0. /\ wpc[w] \in IngestStates \cup PurgeDocStates => wjob[w] \in Docs
      /\ wpc[w] \in PurgeRagStates => wjob[w] \in Rags
      /\ wpc[w] \in ImportStates => wjob[w] \in Batches
  BY DEF JobShape, WorkerShape
<1>1. ASSUME NEW job \in Docs \cup Rags \cup Batches, TakeMaintenance(w, job)
      PROVE  Shape'
  <2> DEFINE first == CASE job \in Docs -> "purgeChunks"
                        [] job \in Rags -> "purgeRagChunks"
                        [] OTHER -> "openBatch"
  <2>1. /\ first \in WorkerStates \ ItemStates
        /\ first \in IngestStates \cup PurgeDocStates => job \in Docs
        /\ first \in PurgeRagStates => job \in Rags
        /\ first \in ImportStates => job \in Batches
    BY StoresAssumption
    DEF IngestStates, WorkerStates, ItemStates, PurgeStates, PurgeDocStates, PurgeRagStates, ImportStates
  <2>2. Take(w, first, job)
    BY <1>1 DEF TakeMaintenance
  <2>3. QueuesTypeOK'
    BY <1>1 DEF TakeMaintenance, QueuesTypeOK
  <2> HIDE DEF first
  <2>4. JobShape'
    BY <2>1, <2>2, TakeShape
  <2> QED
    BY <1>1, <2>3, <2>4 DEF TakeMaintenance
<1>2. CASE PurgeChunks(w)
  <2>1. wjob[w] \in Docs
    BY <1>0, <1>2 DEF PurgeChunks, PurgeDocStates
  <2>2. SearchTypeOK'
    BY <1>2, <2>1, SearchType DEF PurgeChunks
  <2>3. JobShape'
    BY <1>2, <2>1, ProceedShape
    DEF PurgeChunks, IngestStates, WorkerStates, ItemStates, PurgeStates, PurgeDocStates,
        PurgeRagStates, ImportStates
  <2> QED
    BY <1>2, <2>2, <2>3 DEF PurgeChunks
<1>3. CASE PurgeObject(w)
  <2>1. BlobsTypeOK'
    BY <1>3 DEF PurgeObject, BlobsTypeOK
  <2> QED
    BY <1>3, <2>1, ReleaseShape DEF PurgeObject
<1>4. CASE PurgeRagChunks(w) \/ PurgeRagObjects(w) \/ PurgeRagIcon(w)
  <2>1. wjob[w] \in Rags
    BY <1>0, <1>4 DEF PurgeRagChunks, PurgeRagObjects, PurgeRagIcon, PurgeStates, PurgeDocStates, PurgeRagStates
  <2>2. JobShape'
    BY <1>4, <2>1, ProceedShape
    DEF PurgeRagChunks, PurgeRagObjects, PurgeRagIcon, IngestStates, WorkerStates, ItemStates,
        PurgeStates, PurgeDocStates, PurgeRagStates, ImportStates
  <2>3. SearchTypeOK'
    BY <1>4, SearchType DEF PurgeRagChunks, PurgeRagObjects, PurgeRagIcon, DocsOf
  <2>4. BlobsTypeOK'
    BY <1>4 DEF PurgeRagChunks, PurgeRagObjects, PurgeRagIcon, BlobsTypeOK, blobs
  <2> QED
    BY <1>4, <2>2, <2>3, <2>4 DEF PurgeRagChunks, PurgeRagObjects, PurgeRagIcon
<1>5. CASE PurgeRagRow(w)
  <2>1. RowsTypeOK'
    BY <1>5 DEF PurgeRagRow, DeleteDocuments, DeleteBatches, RowsTypeOK, RagStates, DocStates, JobStates
  <2> QED
    BY <1>5, <2>1, ReleaseShape DEF PurgeRagRow
<1>6. CASE WorkerError(w) \/ Crash(w)
  <2>1. JobShape'
    <3>1. CASE Release(w)
      BY <3>1, ReleaseShape
    <3>2. CASE wpc[w] \in IngestStates /\ Proceed(w, "fail", {})
      BY <1>0, <3>2, ProceedShape
      DEF IngestStates, WorkerStates, ItemStates, PurgeStates, PurgeDocStates, PurgeRagStates, ImportStates
    <3>3. CASE wpc[w] \in ImportStates /\ (Proceed(w, "failBatch", {}) \/ Proceed(w, "unstage", {}))
      BY <1>0, <3>3, ProceedShape
      DEF IngestStates, WorkerStates, ItemStates, PurgeStates, PurgeDocStates, PurgeRagStates, ImportStates
    <3> QED
      BY <1>6, <3>1, <3>2, <3>3 DEF WorkerError, Crash
  <2> QED
    BY <1>6, <2>1 DEF WorkerError, Crash, stores
<1> QED
  BY <1>1, <1>2, <1>3, <1>4, <1>5, <1>6

\* And so does importing.
LEMMA ImportingKeepsShape ==
  ASSUME Shape, UNCHANGED apiVars, NEW w \in Workers, ImportStep(w)
  PROVE  Shape'
<1> USE StoresKeepType, ShapeParts
<1>0. /\ wpc[w] \in ImportStates
      /\ wjob[w] \in Batches
      /\ wpc[w] \in ItemStates => witem[w] \in Docs
      /\ wcreated[w] \in Nat /\ batchCreated[wjob[w]] \in Nat
  <2>1. wpc[w] \in ImportStates
    BY DEF ImportStep, OpenBatch, PlanItems, LookupItem, PutItem, InsertItem, EnqueueItem, RecordItem,
           FinishBatch, FailBatch, Unstage, ImportStates
  <2> QED
    BY <2>1 DEF JobShape, WorkerShape, WorkerTypeOK, RowsTypeOK
<1>1. CASE OpenBatch(w)
  <2>1. JobShape'
    BY <1>0, <1>1, WorkingShape, LeaveShape DEF OpenBatch, ImportStates, ItemStates
  <2>2. RowsTypeOK'
    BY <1>0, <1>1, BatchRowsType DEF OpenBatch, BatchLive
  <2> QED
    BY <1>1, <2>1, <2>2 DEF OpenBatch
<1>2. CASE PlanItems(w)
  <2>1. JobShape'
    BY <1>0, <1>2, WorkingShape, LeaveShape DEF PlanItems, ImportStates, ItemStates
  <2>2. RowsTypeOK'
    BY <1>0, <1>2, BatchRowsType DEF PlanItems, BatchLive, rows
  <2> QED
    BY <1>2, <2>1, <2>2 DEF PlanItems
<1>3. ASSUME NEW d \in Docs, LookupItem(w, d)
      PROVE  Shape'
  <2>1. JobShape'
    BY <1>0, <1>3, WorkingShape DEF LookupItem, ImportStates, ItemStates
  <2>2. BlobsTypeOK'
    BY <1>3 DEF LookupItem, BlobsTypeOK
  <2> QED
    BY <1>3, <2>1, <2>2 DEF LookupItem
<1>4. CASE PutItem(w)
  <2>1. JobShape'
    BY <1>0, <1>4, WorkingShape DEF PutItem, ImportStates, ItemStates
  <2>2. BlobsTypeOK'
    BY <1>0, <1>4 DEF PutItem, BlobsTypeOK, ItemStates
  <2> QED
    BY <1>4, <2>1, <2>2 DEF PutItem
<1>5. CASE InsertItem(w)
  <2>1. JobShape'
    BY <1>0, <1>5, WorkingShape DEF InsertItem, ImportStates, ItemStates
  <2>2. RowsTypeOK'
    BY <1>0, <1>5, DocumentRowsType DEF InsertItem, ItemStates, rows
  <2> QED
    BY <1>5, <2>1, <2>2 DEF InsertItem
<1>6. CASE EnqueueItem(w)
  <2>1. JobShape'
    BY <1>0, <1>6, WorkingShape DEF EnqueueItem, ImportStates, ItemStates
  <2>2. QueuesTypeOK'
    BY <1>0, <1>6 DEF EnqueueItem, QueuesTypeOK, ItemStates
  <2> QED
    BY <1>6, <2>1, <2>2 DEF EnqueueItem
<1>7. CASE RecordItem(w)
  <2>1. JobShape'
    <3>1. CASE Working(w, "failBatch", None)
      BY <1>0, <3>1, WorkingShape DEF ImportStates, ItemStates
    <3>2. CASE ~Working(w, "failBatch", None)
      BY <1>0, <1>7, <3>2
      DEF RecordItem, JobShape, WorkerTypeOK, WorkerShape, WorkerStates, IngestStates, PurgeStates,
          PurgeDocStates, PurgeRagStates, ImportStates, ItemStates
    <3> QED
      BY <3>1, <3>2
  <2>2. RowsTypeOK'
    BY <1>7 DEF RecordItem, RowsTypeOK, JobStates, ragRows, batchRows
  <2> QED
    BY <1>7, <2>1, <2>2 DEF RecordItem
<1>8. CASE FinishBatch(w) \/ FailBatch(w)
  <2>1. RowsTypeOK'
    BY <1>0, <1>8, BatchRowsType DEF FinishBatch, FailBatch, BatchLive
  <2> QED
    BY <1>0, <1>8, <2>1, LeaveShape DEF FinishBatch, FailBatch
<1>9. CASE Unstage(w)
  <2>1. BlobsTypeOK'
    BY <1>9 DEF Unstage, BlobsTypeOK
  <2> QED
    BY <1>9, <2>1, ReleaseShape DEF Unstage
<1> QED
  BY <1>1, <1>2, <1>3, <1>4, <1>5, <1>6, <1>7, <1>8, <1>9 DEF ImportStep

-----------------------------------------------------------------------------
\* Nothing runs and nothing is stored at the start.
LEMMA InitShape == Init => Shape
BY DEF Init, StoresInit, ApiInit, WorkerInit, Shape, TypeOK, StoresTypeOK, RowsTypeOK, BlobsTypeOK,
       SearchTypeOK, QueuesTypeOK, ApiTypeOK, WorkerTypeOK, RequestShape, WorkerShape, RagStates,
       DocStates, JobStates, ApiStates, WorkerStates, BatchStates, IngestStates, PurgeStates,
       PurgeDocStates, PurgeRagStates, ImportStates, ItemStates

\* Every step of the service keeps Shape.
LEMMA NextKeepsShape ==
  ASSUME Shape, [Next]_vars
  PROVE  Shape'
<1>1. CASE ApiNext /\ UNCHANGED workerVars
  BY <1>1, ApiKeepsShape
<1>2. ASSUME NEW w \in Workers, WorkerStep(w) \/ JobFault(w), UNCHANGED apiVars
      PROVE  Shape'
  BY <1>2, IndexingKeepsShape, PurgingKeepsShape, ImportingKeepsShape
  DEF WorkerStep, JobStep, JobFault
<1>3. CASE PeriodicRefresh /\ UNCHANGED <<apiVars, workerVars>>
  BY <1>3, SearchType, StoresKeepType, ShapeParts DEF PeriodicRefresh
<1>4. CASE UNCHANGED vars
  BY <1>4, StoresKeepType, ShapeParts DEF vars, stores
<1> QED
  BY <1>1, <1>2, <1>3, <1>4 DEF Next

\* Type correctness: whatever the interleaving of handlers, jobs and failures,
\* every store and every process holds values of its type.  Shape says in
\* addition that a job's identifier is of the kind its step expects, without
\* which a purge of a set could be run on a document.
THEOREM TypeCorrect == Spec => []TypeOK
<1>1. Spec => []Shape
  BY InitShape, NextKeepsShape, PTL DEF Spec
<1>2. Shape => TypeOK
  BY DEF Shape
<1> QED
  BY <1>1, <1>2, PTL
=============================================================================
