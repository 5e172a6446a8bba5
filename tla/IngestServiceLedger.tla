------------------------ MODULE IngestServiceLedger -------------------------
(***************************************************************************)
(* What the rows tell, and what a finished job leaves behind: the stamps   *)
(* of ingest_jobs, the icon behind icon_key, the archive in staging, the   *)
(* counter of a batch and the chunks in the index.  Each has its inductive *)
(* invariant over IInv.  The archive and the chunks need that certain      *)
(* failures, or a second worker, do not happen; the hypotheses name them. *)
(***************************************************************************)
EXTENDS IngestServiceProofs, FiniteSetTheorems

-----------------------------------------------------------------------------
(* The stamps of ingest_jobs.                                              *)

\* A row of ingest_jobs goes with the row of its document.
StampInv == JobTellsStatus /\ \A d \in Docs : jobRow[d] # "none" => Live(d)

\* New rows have no job yet, and a deleted one takes its job along.
LEMMA RowsKeepStamps ==
  ASSUME Typed, StampInv, NEW S \in SUBSET Docs,
         \/ InsertDocuments(S) /\ \A d \in S : docRow[d] = "none"
         \/ DeleteDocuments(S)
  PROVE  StampInv'
BY DEF Typed, RowsTypeOK, StampInv, JobTellsStatus, InsertDocuments, DeleteDocuments, Live, LiveStates

\* A stamp is set with the status it stands for, or not at all.
LEMMA VerdictsKeepStamps ==
  ASSUME Typed, StampInv, NEW d \in Docs,
         \/ Live(d) /\ BeginDocument(d)
         \/ \E status \in {"success", "failed"} : \E count : MarkDocument(d, status, count)
  PROVE  StampInv'
<1>1. jobRow' = [jobRow EXCEPT ![d] = jobRow'[d]] /\ docRow' = [docRow EXCEPT ![d] = docRow'[d]]
  BY DEF Typed, RowsTypeOK, BeginDocument, MarkDocument, StampJob
<1>2. \/ jobRow'[d] = "none"
      \/ jobRow'[d] = "started" /\ docRow'[d] = "processing"
      \/ jobRow'[d] = "finished" /\ docRow'[d] \in {"success", "failed"}
  BY DEF Typed, RowsTypeOK, BeginDocument, MarkDocument, StampJob, StampInv
<1> QED
  BY <1>1, <1>2 DEF Typed, RowsTypeOK, StampInv, JobTellsStatus, Live, LiveStates

\* A row of ingest_jobs is inserted for a document that has one.
LEMMA RecordsKeepStamps ==
  ASSUME Typed, StampInv, UNCHANGED docRow, NEW S \in SUBSET Docs, \A d \in S : Live(d),
         jobRow' = [d \in Docs |-> IF d \in S THEN "recorded" ELSE jobRow[d]]
  PROVE  StampInv'
BY DEF StampInv, JobTellsStatus, Live

\* Every step of the API keeps the stamps.
LEMMA ApiKeepsStamps ==
  ASSUME Typed, Sound, StampInv, ApiNext
  PROVE  StampInv'
<1> USE DEF Typed
<1>1. ASSUME NEW r \in Requests, InsertRows(r) \/ DeleteRow(r) \/ RecordJobs(r)
      PROVE  StampInv'
  <2>1. adocs[r] \in SUBSET Docs /\ ajobs[r] \in SUBSET Docs
    BY DEF ApiShape, ApiTypeOK
  <2>2. CASE InsertRows(r)
    <3>1. \A d \in adocs[r] : docRow[d] = "none"
      BY <2>2 DEF InsertRows, Sound, RequestIsSound, InHand, RegisterStates, Unregistered
    <3>2. CASE InsertDocuments(adocs[r])
      BY <2>1, <3>1, <3>2, RowsKeepStamps
    <3>3. CASE UNCHANGED docRows
      BY <3>3 DEF docRows, StampInv, JobTellsStatus, Live
    <3> QED
      BY <2>2, <3>2, <3>3 DEF InsertRows
  <2>3. CASE DeleteRow(r)
    BY <2>1, <2>3, RowsKeepStamps DEF DeleteRow
  <2>4. CASE RecordJobs(r)
    <3>1. CASE \A d \in ajobs[r] : Live(d)
      BY <2>1, <2>4, <3>1, RecordsKeepStamps DEF RecordJobs
    <3>2. CASE ~\A d \in ajobs[r] : Live(d)
      BY <2>4, <3>2 DEF RecordJobs, StampInv, JobTellsStatus, Live
    <3> QED
      BY <3>1, <3>2
  <2> QED
    BY <1>1, <2>2, <2>3, <2>4
<1>2. CASE ~\E r \in Requests : InsertRows(r) \/ DeleteRow(r) \/ RecordJobs(r)
  <2>1. UNCHANGED <<docRow, jobRow>>
    BY <1>2 DEF ApiNext, ApiContinue, CreateRag, StartUpload, StartDeleteRag, StartIcon, StartBucket,
                CreateFromBucket, StartDelete, StartArchive, ImportFromStaging, RefuseArchive, PutObject,
                RejectOverQuota, LookupHash, DiscardDuplicate, EnqueueIngest, FinishUpload,
                EnqueuePurge, SoftDelete, EnqueuePurgeRag, PutIconObject, SetIconKey, StageArchive,
                EnqueueBatch, ApiError, stores, rows, docRows
  <2> QED
    BY <2>1 DEF StampInv, JobTellsStatus, Live
<1> QED
  BY <1>1, <1>2

\* So does every step of a worker.
LEMMA JobsKeepStamps ==
  ASSUME Typed, Sound, StampInv, NEW w \in Workers, WorkerStep(w) \/ JobFault(w)
  PROVE  StampInv'
<1> USE DEF Typed, JobShape
<1>1. CASE BeginIngest(w) \/ MarkSuccess(w) \/ MarkFailed(w)
  <2>1. PICK d \in Docs : d = wjob[w]
    BY <1>1 DEF BeginIngest, MarkSuccess, MarkFailed, WorkerShape, IngestStates
  <2>2. CASE UNCHANGED docRows
    BY <2>2 DEF docRows, StampInv, JobTellsStatus, Live
  <2>3. CASE ~UNCHANGED docRows
    BY <1>1, <2>1, <2>3, VerdictsKeepStamps DEF BeginIngest, MarkSuccess, MarkFailed
  <2> QED
    BY <2>2, <2>3
<1>2. CASE PurgeRagRow(w)
  BY <1>2, RowsKeepStamps DEF PurgeRagRow, DocsOf
<1>3. CASE InsertItem(w)
  <2>1. witem[w] \in Docs /\ docRow[witem[w]] = "none"
    BY <1>3 DEF InsertItem, WorkerShape, ItemStates, Sound, WorkerIsSound, InImport, Unregistered
  <2>2. CASE InsertDocuments({witem[w]})
    BY <2>1, <2>2, RowsKeepStamps
  <2>3. CASE UNCHANGED docRows
    BY <2>3 DEF docRows, StampInv, JobTellsStatus, Live
  <2> QED
    BY <1>3, <2>2, <2>3 DEF InsertItem
<1>4. CASE RecordItem(w)
  BY <1>4 DEF RecordItem, RowsTypeOK, StampInv, JobTellsStatus, Live
<1>5. CASE ~\/ BeginIngest(w) \/ MarkSuccess(w) \/ MarkFailed(w)
            \/ PurgeRagRow(w) \/ InsertItem(w) \/ RecordItem(w)
  <2>1. UNCHANGED <<docRow, jobRow>>
    BY <1>5 DEF WorkerStep, JobStep, JobFault, TakeIngest, Convert, Load, Refresh, TakeMaintenance,
                PurgeChunks, PurgeObject, PurgeRagChunks, PurgeRagObjects, PurgeRagIcon, WorkerError,
                LoadBreaks, Crash, ImportStep, OpenBatch, PlanItems, LookupItem, PutItem, EnqueueItem,
                FinishBatch, FailBatch, Unstage, stores, rows, docRows
  <2> QED
    BY <2>1 DEF StampInv, JobTellsStatus, Live
<1> QED
  BY <1>1, <1>2, <1>3, <1>4, <1>5

\* The stamps of ingest_jobs agree with the status, in every interleaving of the
\* request that inserts the row late and the worker that stamps it: "started" is
\* a document being indexed, "finished" one with its verdict, and no job
\* outlives its document.
THEOREM StampsTellStatus == Spec => []JobTellsStatus
<1>1. Init => StampInv
  BY DEF Init, StoresInit, StampInv, JobTellsStatus
<1>2. IInv /\ StampInv /\ [Next]_vars => StampInv'
  <2> SUFFICES ASSUME IInv, StampInv, [Next]_vars
               PROVE  StampInv'
    OBVIOUS
  <2>1. Typed /\ Sound
    BY ShapeIsTyped DEF IInv
  <2>2. CASE (PeriodicRefresh /\ UNCHANGED <<apiVars, workerVars>>) \/ UNCHANGED vars
    BY <2>2 DEF PeriodicRefresh, vars, stores, rows, docRows, StampInv, JobTellsStatus, Live
  <2> QED
    BY <2>1, <2>2, ApiKeepsStamps, JobsKeepStamps DEF Next
<1>3. StampInv => JobTellsStatus
  BY DEF StampInv
<1> QED
  BY <1>1, <1>2, <1>3, Invariance, PTL DEF Spec

-----------------------------------------------------------------------------
(* The icon behind icon_key.                                               *)

\* A set that has a key, or is about to, has its row; while its owner sees it,
\* it has its object too.
SettingIcon(r) ==
  /\ apc[r] \in {"putIcon", "setIconKey"} => ragRow[aset[r]] # "none"
  /\ apc[r] = "setIconKey" /\ Alive(aset[r]) => aset[r] \in icons

IconInv ==
  /\ \A g \in iconKey : ragRow[g] # "none" /\ (Alive(g) => g \in icons)
  /\ \A r \in Requests : SettingIcon(r)

\* A set its owner sees after the step was seen before it, or is new.
LEMMA AliveWasAlive ==
  ASSUME Typed, RowsGoForward, NEW g \in Rags, ragRow[g] # "none", Alive(g)'
  PROVE  Alive(g)
BY DEF Typed, RowsTypeOK, RagStates, RowsGoForward, Hidden, Alive

\* A step that gives no set a key, and takes objects of hidden sets only, keeps
\* the icons.
LEMMA OtherStepsKeepIcons ==
  ASSUME Typed, RowsGoForward, IconInv,
         iconKey' \subseteq iconKey, \A g \in icons \ icons' : Hidden(g),
         \A r \in Requests : SettingIcon(r)' \/ (apc'[r] = apc[r] /\ aset'[r] = aset[r])
  PROVE  IconInv'
<1>1. \A g \in iconKey' : ragRow'[g] # "none" /\ (Alive(g)' => g \in icons')
  BY AliveWasAlive DEF IconInv, Typed, RowsTypeOK, RowsGoForward, Alive, Hidden
<1>2. ASSUME NEW r \in Requests, apc'[r] = apc[r], aset'[r] = aset[r]
      PROVE  SettingIcon(r)'
  <2>1. SettingIcon(r)
    BY DEF IconInv
  <2>2. apc[r] \in {"putIcon", "setIconKey"} => aset[r] \in Rags
    BY DEF Typed, ApiShape, RequestShape, BatchStates
  <2> QED
    BY <1>2, <2>1, <2>2, AliveWasAlive DEF SettingIcon, RowsGoForward, Alive, Hidden
<1> QED
  BY <1>1, <1>2 DEF IconInv

\* The object is stored before the key is committed.
LEMMA ApiKeepsIcons ==
  ASSUME Typed, RowsGoForward, IconInv, ApiNext
  PROVE  IconInv'
<1> USE DEF Typed, ApiShape, ApiTypeOK, Open, Goto, Respond
<1>1. ASSUME NEW r \in Requests, NEW g \in Rags, StartIcon(r, g)
      PROVE  IconInv'
  <2>1. SettingIcon(r)' /\ iconKey' = iconKey /\ icons' = icons
    BY <1>1 DEF StartIcon, SettingIcon, Alive, stores, rows, ragRows, blobs
  <2>2. \A q \in Requests \ {r} : apc'[q] = apc[q] /\ aset'[q] = aset[q]
    BY <1>1 DEF StartIcon
  <2> QED
    BY <2>1, <2>2, OtherStepsKeepIcons
<1>2. ASSUME NEW r \in Requests, PutIconObject(r)
      PROVE  IconInv'
  <2>1. SettingIcon(r)' /\ iconKey' = iconKey /\ icons \subseteq icons'
    BY <1>2 DEF PutIconObject, IconInv, SettingIcon, rows, ragRows
  <2>2. \A q \in Requests \ {r} : apc'[q] = apc[q] /\ aset'[q] = aset[q]
    BY <1>2 DEF PutIconObject
  <2> QED
    BY <2>1, <2>2, OtherStepsKeepIcons
<1>3. ASSUME NEW r \in Requests, SetIconKey(r)
      PROVE  IconInv'
  <2>1. aset[r] \in Rags /\ SettingIcon(r) /\ apc[r] = "setIconKey"
    BY <1>3 DEF SetIconKey, IconInv, RequestShape, BatchStates
  <2>2. UNCHANGED <<ragRow, icons>> /\ iconKey' \subseteq iconKey \cup {aset[r]}
    BY <1>3 DEF SetIconKey, blobs
  <2>3. \A g \in iconKey' : ragRow'[g] # "none" /\ (Alive(g)' => g \in icons')
    BY <2>1, <2>2 DEF IconInv, SettingIcon, Alive
  <2>4. \A q \in Requests : SettingIcon(q)'
    BY <1>3, <2>2 DEF SetIconKey, IconInv, SettingIcon, Alive
  <2> QED
    BY <2>3, <2>4 DEF IconInv
<1>4. ASSUME NEW r \in Requests,
             \/ \E g \in Rags : \/ StartUpload(r, g) \/ StartDeleteRag(r, g)
                                \/ \E S \in SUBSET Foreign :
                                     StartBucket(r, g, S) \/ CreateFromBucket(r, g, S)
             \/ \E d \in Docs : StartDelete(r, d) \/ PutObject(r, d) \/ EnqueueIngest(r, d)
             \/ \E b \in Batches : StartArchive(r, b) \/ ImportFromStaging(r, b)
             \/ RejectOverQuota(r) \/ LookupHash(r) \/ DiscardDuplicate(r) \/ InsertRows(r)
             \/ RecordJobs(r) \/ FinishUpload(r) \/ DeleteRow(r) \/ EnqueuePurge(r)
             \/ SoftDelete(r) \/ EnqueuePurgeRag(r)
             \/ StageArchive(r) \/ RefuseArchive(r) \/ EnqueueBatch(r) \/ ApiError(r)
      PROVE  IconInv'
  <2>1. UNCHANGED <<iconKey, icons>>
    BY <1>4 DEF StartUpload, StartDeleteRag, StartBucket, CreateFromBucket, StartDelete, StartArchive,
                ImportFromStaging, RefuseArchive, PutObject, RejectOverQuota, LookupHash,
                DiscardDuplicate, InsertRows, EnqueueIngest, RecordJobs, FinishUpload, DeleteRow,
                EnqueuePurge, SoftDelete, EnqueuePurgeRag, StageArchive, EnqueueBatch, ApiError,
                stores, rows, ragRows, blobs
  <2>2. \A q \in Requests \ {r} : apc'[q] = apc[q] /\ aset'[q] = aset[q]
    BY <1>4 DEF StartUpload, StartDeleteRag, StartBucket, CreateFromBucket, StartDelete, StartArchive,
                ImportFromStaging, RefuseArchive, PutObject, RejectOverQuota, LookupHash,
                DiscardDuplicate, InsertRows, EnqueueIngest, RecordJobs, FinishUpload, DeleteRow,
                EnqueuePurge, SoftDelete, EnqueuePurgeRag, StageArchive, EnqueueBatch, ApiError
  <2>3. apc'[r] \notin {"putIcon", "setIconKey"}
    BY <1>4 DEF StartUpload, StartDeleteRag, StartBucket, CreateFromBucket, StartDelete, StartArchive,
                ImportFromStaging, RefuseArchive, PutObject, RejectOverQuota, LookupHash,
                DiscardDuplicate, InsertRows, EnqueueIngest, RecordJobs, FinishUpload, DeleteRow,
                EnqueuePurge, SoftDelete, EnqueuePurgeRag, StageArchive, EnqueueBatch, ApiError
  <2>4. SettingIcon(r)'
    BY <2>3 DEF SettingIcon
  <2> QED
    BY <2>1, <2>2, <2>4, OtherStepsKeepIcons
<1>5. ASSUME NEW g \in Rags, CreateRag(g)
      PROVE  IconInv'
  <2>1. UNCHANGED <<iconKey, icons, apc, aset>>
    BY <1>5 DEF CreateRag, blobs, apiVars
  <2> QED
    BY <2>1, OtherStepsKeepIcons
<1> QED
  BY <1>1, <1>2, <1>3, <1>4, <1>5 DEF ApiNext, ApiContinue

\* The purge of a set takes the object of a set that is hidden for good.
LEMMA JobsKeepIcons ==
  ASSUME Typed, Sound, RowsGoForward, IconInv, NEW w \in Workers, WorkerStep(w) \/ JobFault(w),
         UNCHANGED apiVars
  PROVE  IconInv'
<1>1. iconKey' \subseteq iconKey
  BY DEF WorkerStep, JobStep, JobFault, TakeIngest, BeginIngest, Convert, Load, Refresh, MarkSuccess,
         MarkFailed, TakeMaintenance, PurgeChunks, PurgeObject, PurgeRagChunks, PurgeRagObjects,
         PurgeRagIcon, PurgeRagRow, WorkerError, LoadBreaks, Crash, ImportStep, OpenBatch, PlanItems,
         LookupItem, PutItem, InsertItem, EnqueueItem, RecordItem, FinishBatch, FailBatch, Unstage,
         stores, rows, ragRows
<1>2. \A g \in icons \ icons' : Hidden(g)
  <2>1. CASE PurgeRagIcon(w)
    <3>1. wjob[w] \in Rags /\ JobIsSafe(wjob[w])
      BY <2>1 DEF PurgeRagIcon, Typed, JobShape, WorkerShape, PurgeRagStates, PurgeDocStates,
                  PurgeStates, Sound, WorkerIsSound
    <3> QED
      BY <2>1, <3>1 DEF PurgeRagIcon, JobIsSafe
  <2>2. CASE ~PurgeRagIcon(w)
    <3>1. icons' = icons
      BY <2>2 DEF WorkerStep, JobStep, JobFault, TakeIngest, BeginIngest, Convert, Load, Refresh,
         MarkSuccess, MarkFailed, TakeMaintenance, PurgeChunks, PurgeObject, PurgeRagChunks,
         PurgeRagObjects, PurgeRagRow, WorkerError, LoadBreaks, Crash, ImportStep, OpenBatch, PlanItems,
         LookupItem, PutItem, InsertItem, EnqueueItem, RecordItem, FinishBatch, FailBatch, Unstage,
         stores, blobs
    <3> QED
      BY <3>1
  <2> QED
    BY <2>1, <2>2
<1> QED
  BY <1>1, <1>2, OtherStepsKeepIcons DEF apiVars

\* An icon_key that an owner can follow leads to an object, however uploads,
\* replacements and the purge of the set interleave, and whatever fails: the
\* object comes before the key, and only a hidden set loses it.
THEOREM IconKeysHaveObjects == Spec => []IconKeyHasObject
<1>1. Init => IconInv
  BY DEF Init, StoresInit, ApiInit, IconInv, SettingIcon
<1>2. IInv /\ IconInv /\ [Next]_vars => IconInv'
  <2> SUFFICES ASSUME IInv, IconInv, [Next]_vars
               PROVE  IconInv'
    OBVIOUS
  <2>1. Typed /\ Sound /\ RowsGoForward
    BY NextKeepsSound, ShapeIsTyped DEF IInv
  <2>2. CASE (PeriodicRefresh /\ UNCHANGED <<apiVars, workerVars>>) \/ UNCHANGED vars
    BY <2>2 DEF PeriodicRefresh, vars, stores, rows, ragRows, blobs, apiVars, IconInv, SettingIcon, Alive
  <2> QED
    BY <2>1, <2>2, ApiKeepsIcons, JobsKeepIcons DEF Next
<1>3. IconInv => IconKeyHasObject
  BY DEF IconInv, IconKeyHasObject
<1> QED
  BY <1>1, <1>2, <1>3, Invariance, PTL DEF Spec

-----------------------------------------------------------------------------
(* The archive in staging.                                                 *)

\* Its job is to be enqueued, queued, or at work on it.
AwaitsUnstage(b) ==
  \/ b \in maintQ
  \/ \E r \in Requests : apc[r] = "enqueueBatch" /\ aset[r] = b
  \/ \E w \in Workers : wpc[w] \in ImportStates /\ wjob[w] = b

StagingInv ==
  /\ staged \subseteq Archives
  /\ \A r \in Requests : apc[r] = "stage" => aset[r] \in Archives
  /\ \A b \in staged : AwaitsUnstage(b)

\* A step of a request that stages nothing, and is not the last before the queue.
LEMMA OtherRequestsKeepStaging ==
  ASSUME StagingInv, UNCHANGED workerVars, staged' = staged, maintQ \subseteq maintQ', NEW r \in Requests,
         apc[r] # "enqueueBatch", apc'[r] = "stage" => aset'[r] \in Archives,
         \A q \in Requests \ {r} : apc'[q] = apc[q] /\ aset'[q] = aset[q]
  PROVE  StagingInv'
<1>1. \A b \in staged : AwaitsUnstage(b)'
  BY DEF StagingInv, AwaitsUnstage, workerVars
<1> QED
  BY <1>1 DEF StagingInv

\* A request hands the archive it staged over to the queue.
LEMMA RequestsKeepStaging ==
  ASSUME {"api", "crash"} \cap Faults = {}, Typed, StagingInv, ApiNext, UNCHANGED workerVars
  PROVE  StagingInv'
<1> USE DEF Typed, ApiShape, ApiTypeOK, Open, Goto, Respond
<1>1. ASSUME NEW r \in Requests, NEW b \in Batches, StartArchive(r, b) \/ ImportFromStaging(r, b)
      PROVE  StagingInv'
  BY <1>1, OtherRequestsKeepStaging DEF StartArchive, ImportFromStaging, blobs, queues
<1>2. ASSUME NEW r \in Requests, StageArchive(r)
      PROVE  StagingInv'
  <2>1. aset[r] \in Archives /\ staged' = staged \cup {aset[r]} /\ maintQ' = maintQ
    BY <1>2 DEF StageArchive, StagingInv, queues
  <2>2. \A q \in Requests \ {r} : apc'[q] = apc[q] /\ aset'[q] = aset[q]
    BY <1>2 DEF StageArchive
  <2>3. apc[r] = "stage" /\ apc'[r] = "enqueueBatch" /\ aset'[r] = aset[r]
    BY <1>2 DEF StageArchive
  <2>4. \A b \in staged' : AwaitsUnstage(b)'
    BY <2>1, <2>2, <2>3 DEF StagingInv, AwaitsUnstage, workerVars
  <2> QED
    BY <2>1, <2>2, <2>3, <2>4 DEF StagingInv
<1>3. ASSUME NEW r \in Requests, EnqueueBatch(r)
      PROVE  StagingInv'
  <2>1. aset[r] \in maintQ' /\ maintQ \subseteq maintQ' /\ staged' = staged
    BY <1>3 DEF EnqueueBatch, blobs
  <2>2. /\ apc'[r] = "idle"
        /\ \A q \in Requests \ {r} : apc'[q] = apc[q] /\ aset'[q] = aset[q]
    BY <1>3 DEF EnqueueBatch
  <2>3. \A b \in staged' : AwaitsUnstage(b)'
    BY <2>1, <2>2 DEF StagingInv, AwaitsUnstage, workerVars
  <2> QED
    BY <2>1, <2>2, <2>3 DEF StagingInv
<1>4. ASSUME NEW r \in Requests,
             \/ \E g \in Rags : \/ StartUpload(r, g) \/ StartDeleteRag(r, g) \/ StartIcon(r, g)
                                \/ \E S \in SUBSET Foreign :
                                     StartBucket(r, g, S) \/ CreateFromBucket(r, g, S)
             \/ \E d \in Docs : StartDelete(r, d) \/ PutObject(r, d) \/ EnqueueIngest(r, d)
             \/ RejectOverQuota(r) \/ LookupHash(r) \/ DiscardDuplicate(r) \/ InsertRows(r)
             \/ RecordJobs(r) \/ FinishUpload(r) \/ DeleteRow(r) \/ EnqueuePurge(r)
             \/ SoftDelete(r) \/ EnqueuePurgeRag(r) \/ PutIconObject(r) \/ SetIconKey(r)
             \/ RefuseArchive(r)
      PROVE  StagingInv'
  <2>1. staged' = staged /\ maintQ \subseteq maintQ'
    BY <1>4 DEF StartUpload, StartDeleteRag, StartIcon, StartBucket, CreateFromBucket, StartDelete,
                RefuseArchive, PutObject, RejectOverQuota, LookupHash, DiscardDuplicate, InsertRows,
                EnqueueIngest, RecordJobs, FinishUpload, DeleteRow, EnqueuePurge, SoftDelete,
                EnqueuePurgeRag, PutIconObject, SetIconKey, stores, blobs, queues
  <2>2. apc[r] # "enqueueBatch" /\ apc'[r] # "stage"
    BY <1>4 DEF StartUpload, StartDeleteRag, StartIcon, StartBucket, CreateFromBucket, StartDelete,
                RefuseArchive, PutObject, RejectOverQuota, LookupHash, DiscardDuplicate, InsertRows,
                EnqueueIngest, RecordJobs, FinishUpload, DeleteRow, EnqueuePurge, SoftDelete,
                EnqueuePurgeRag, PutIconObject, SetIconKey
  <2>3. \A q \in Requests \ {r} : apc'[q] = apc[q] /\ aset'[q] = aset[q]
    BY <1>4 DEF StartUpload, StartDeleteRag, StartIcon, StartBucket, CreateFromBucket, StartDelete,
                RefuseArchive, PutObject, RejectOverQuota, LookupHash, DiscardDuplicate, InsertRows,
                EnqueueIngest, RecordJobs, FinishUpload, DeleteRow, EnqueuePurge, SoftDelete,
                EnqueuePurgeRag, PutIconObject, SetIconKey
  <2> QED
    BY <2>1, <2>2, <2>3, OtherRequestsKeepStaging
<1>5. ASSUME NEW g \in Rags, CreateRag(g)
      PROVE  StagingInv'
  <2>1. UNCHANGED <<staged, maintQ, apc, aset, wpc, wjob>>
    BY <1>5 DEF CreateRag, blobs, queues, apiVars, workerVars
  <2> QED
    BY <2>1 DEF StagingInv, AwaitsUnstage
<1>6. \A r \in Requests : ~ApiError(r)
  BY DEF ApiError
<1> QED
  BY <1>1, <1>2, <1>3, <1>4, <1>5, <1>6 DEF ApiNext, ApiContinue

\* A worker that lets go of an archive has taken it away; every other step
\* leaves the archives it does not work on where they were.
LEMMA JobsKeepStaging ==
  ASSUME {"api", "crash"} \cap Faults = {}, Typed, StagingInv, UNCHANGED apiVars, NEW w \in Workers,
         WorkerStep(w) \/ JobFault(w)
  PROVE  StagingInv'
<1> USE DEF Typed, JobShape, WorkerTypeOK, Take, Proceed, Release, Working, Leave
<1>1. \A v \in Workers \ {w} : wpc'[v] = wpc[v] /\ wjob'[v] = wjob[v]
  BY DEF WorkerStep, JobStep, JobFault, TakeIngest, BeginIngest, Convert, Load, Refresh, MarkSuccess,
         MarkFailed, TakeMaintenance, PurgeChunks, PurgeObject, PurgeRagChunks, PurgeRagObjects,
         PurgeRagIcon, PurgeRagRow, WorkerError, LoadBreaks, Crash, ImportStep, OpenBatch, PlanItems,
         LookupItem, PutItem, InsertItem, EnqueueItem, RecordItem, FinishBatch, FailBatch, Unstage
<1>2. \* it is enough that w drops no archive that is still in staging
      ASSUME staged' \subseteq staged,
             \A b \in maintQ \ maintQ' : b \in staged' => wpc'[w] \in ImportStates /\ wjob'[w] = b,
             wpc[w] \in ImportStates /\ wjob[w] \in staged' => wpc'[w] \in ImportStates /\ wjob'[w] = wjob[w]
      PROVE  StagingInv'
  <2>1. \A b \in staged' : AwaitsUnstage(b)'
    BY <1>1, <1>2 DEF StagingInv, AwaitsUnstage, apiVars
  <2> QED
    BY <1>2, <2>1 DEF StagingInv, apiVars
<1>3. ASSUME NEW job \in Docs \cup Rags \cup Batches, TakeMaintenance(w, job)
      PROVE  StagingInv'
  <2>1. /\ staged' = staged /\ staged \subseteq Batches /\ maintQ' = maintQ \ {job}
        /\ wpc[w] = "idle" /\ wjob'[w] = job /\ (job \in Batches => wpc'[w] = "openBatch")
    BY <1>3, StoresAssumption DEF TakeMaintenance, blobs, BlobsTypeOK
  <2> QED
    BY <1>2, <2>1 DEF ImportStates
<1>4. CASE ImportStep(w) \/ (WorkerError(w) /\ wpc[w] \in ImportStates)
  <2>1. staged' \subseteq staged /\ maintQ' = maintQ
    BY <1>4 DEF ImportStep, OpenBatch, PlanItems, LookupItem, PutItem, InsertItem, EnqueueItem, RecordItem,
                FinishBatch, FailBatch, Unstage, WorkerError, blobs, queues, stores
  <2>2. wjob[w] \in Batches /\ staged \subseteq Archives
    BY <1>4 DEF ImportStep, OpenBatch, PlanItems, LookupItem, PutItem, InsertItem, EnqueueItem, RecordItem,
                FinishBatch, FailBatch, Unstage, WorkerShape, ImportStates, StagingInv
  <2>3. wjob[w] \in staged' => wpc'[w] \in ImportStates /\ wjob'[w] = wjob[w]
    BY <1>4, <2>1, <2>2 DEF ImportStep, OpenBatch, PlanItems, LookupItem, PutItem, InsertItem, EnqueueItem,
                RecordItem, FinishBatch, FailBatch, Unstage, WorkerError, ImportStates, IngestStates, PurgeStates
  <2> QED
    BY <1>2, <2>1, <2>3
<1>5. CASE \/ (\E d \in Docs : TakeIngest(w, d)) \/ BeginIngest(w) \/ Convert(w) \/ Load(w) \/ Refresh(w)
           \/ MarkSuccess(w) \/ MarkFailed(w)
           \/ PurgeChunks(w) \/ PurgeObject(w)
           \/ PurgeRagChunks(w) \/ PurgeRagObjects(w) \/ PurgeRagIcon(w) \/ PurgeRagRow(w)
           \/ (WorkerError(w) /\ wpc[w] \notin ImportStates) \/ LoadBreaks(w)
  <2>1. staged' = staged /\ maintQ' = maintQ
    BY <1>5 DEF TakeIngest, BeginIngest, Convert, Load, Refresh, MarkSuccess, MarkFailed, PurgeChunks,
                PurgeObject, PurgeRagChunks, PurgeRagObjects, PurgeRagIcon, PurgeRagRow, WorkerError,
                LoadBreaks, blobs, queues, stores
  <2>2. wpc[w] \notin ImportStates
    BY <1>5 DEF TakeIngest, BeginIngest, Convert, Load, Refresh, MarkSuccess, MarkFailed, PurgeChunks,
                PurgeObject, PurgeRagChunks, PurgeRagObjects, PurgeRagIcon, PurgeRagRow,
                LoadBreaks, ImportStates
  <2> QED
    BY <1>2, <2>1, <2>2
<1>6. ~Crash(w)
  BY DEF Crash
<1> QED
  BY <1>3, <1>4, <1>5, <1>6 DEF WorkerStep, JobStep, JobFault

\* Staging is empty once an archive was expanded, however that ended: while no
\* process dies, an archive that lies there has a job that will take it away,
\* whether the batch succeeds, is rejected or fails.
THEOREM StagedArchivesAreOwed ==
  ASSUME {"api", "crash"} \cap Faults = {}
  PROVE  Spec => []StagedArchiveIsOwed
<1>1. Init => StagingInv
  BY DEF Init, StoresInit, ApiInit, StagingInv
<1>2. IInv /\ StagingInv /\ [Next]_vars => StagingInv'
  <2> SUFFICES ASSUME IInv, StagingInv, [Next]_vars
               PROVE  StagingInv'
    OBVIOUS
  <2>1. Typed
    BY ShapeIsTyped DEF IInv
  <2>2. CASE (PeriodicRefresh /\ UNCHANGED <<apiVars, workerVars>>) \/ UNCHANGED vars
    BY <2>2 DEF PeriodicRefresh, vars, stores, blobs, queues, apiVars, workerVars, StagingInv, AwaitsUnstage
  <2> QED
    BY <2>1, <2>2, RequestsKeepStaging, JobsKeepStaging DEF Next
<1>3. StagingInv => StagedArchiveIsOwed
  BY DEF StagingInv, AwaitsUnstage, StagedArchiveIsOwed, StagingOwed
<1> QED
  BY <1>1, <1>2, <1>3, Invariance, PTL DEF Spec

-----------------------------------------------------------------------------
(* The counter of a batch.                                                 *)

Registered(b) == {d \in Docs : OriginOf[d] = b /\ docRow[d] # "none"}
Counted(b)    == batchRow[b] = "success" => batchCreated[b] = Cardinality(Registered(b))

\* A batch whose job has yet to begin.
Untouched(b) == batchRow[b] \notin {"none", "success"} /\ Registered(b) = {}

\* The batch a process works on: it is in one place at a time.
RequestBatch(r) == IF apc[r] \in BatchStates THEN {aset[r]} ELSE {}
WorkerBatch(w)  == IF wpc[w] \in ImportStates THEN {wjob[w]} ELSE {}

OneExpander ==
  /\ \A r, q \in Requests : r # q => RequestBatch(r) \cap RequestBatch(q) = {}
  /\ \A w, v \in Workers : w # v => WorkerBatch(w) \cap WorkerBatch(v) = {}
  /\ \A r \in Requests, w \in Workers : RequestBatch(r) \cap WorkerBatch(w) = {}
  /\ \A r \in Requests : RequestBatch(r) \cap maintQ = {}
  /\ \A w \in Workers : WorkerBatch(w) \cap maintQ = {}

\* How the count of a worker compares with the rows its batch has.
CountedSoFar(w) ==
  /\ wpc[w] \in {"openBatch", "plan"} => Registered(wjob[w]) = {}
  /\ wpc[w] \in {"item", "putItem", "insertItem"} => wcreated[w] = Cardinality(Registered(wjob[w]))
  /\ wpc[w] \in {"enqueueItem", "recordItem"} => wcreated[w] + 1 = Cardinality(Registered(wjob[w]))

BatchPhase(w) ==
  /\ CountedSoFar(w)
  /\ wpc[w] \in ImportStates => batchRow[wjob[w]] # "none"
  /\ wpc[w] \in ImportStates \ {"unstage"} => batchRow[wjob[w]] # "success"
  /\ wpc[w] \in {"putItem", "insertItem"} => OriginOf[witem[w]] = wjob[w]
  /\ wpc[w] \in ImportStates \ {"openBatch", "plan"} \/ wcreated[w] = 0

BatchInv ==
  /\ OneExpander
  /\ \A b \in Batches : Counted(b) /\ (batchRow[b] = "none" => Registered(b) = {})
  /\ \A b \in maintQ \cap Batches : Untouched(b)
  /\ \A r \in Requests : \A b \in RequestBatch(r) : Untouched(b)
  /\ \A r \in Requests : \A d \in InHand(r) : OriginOf[d] = None
  /\ \A w \in Workers : BatchPhase(w)

\* A step that is not about batch b: its set may take it along.
Aside(b) ==
  /\ \A d \in Docs : OriginOf[d] = b => (docRow'[d] = "none" <=> docRow[d] = "none")
  /\ batchRow[b] # "none" => batchRow'[b] # "none"
  /\ batchRow'[b] = "success" => batchRow[b] = "success" /\ batchCreated'[b] = batchCreated[b]

BatchRequest(r) ==
  /\ UNCHANGED workerVars
  /\ \A q \in Requests \ {r} : apc'[q] = apc[q] /\ aset'[q] = aset[q] /\ adocs'[q] = adocs[q]
  /\ \A b \in Batches : Aside(b)
  /\ \A b \in RequestBatch(r)' \ RequestBatch(r) :
       b \in Batches /\ batchRow[b] = "none" /\ batchRow'[b] = "pending"
  /\ (maintQ' \ maintQ) \cap Batches \subseteq RequestBatch(r)
  /\ RequestBatch(r)' \cap maintQ' = {}
  /\ \A d \in InHand(r)' : OriginOf[d] = None

BatchJob(w) ==
  /\ UNCHANGED apiVars
  /\ \A v \in Workers \ {w} : /\ wpc'[v] = wpc[v] /\ wjob'[v] = wjob[v]
                              /\ witem'[v] = witem[v] /\ wcreated'[v] = wcreated[v]
  /\ \A b \in Batches : Aside(b) \/ (b \in WorkerBatch(w) /\ Counted(b)' /\ batchRow'[b] # "none")
  /\ maintQ' \subseteq maintQ
  /\ WorkerBatch(w)' \subseteq WorkerBatch(w) \cup (maintQ \ maintQ')
  /\ BatchPhase(w)'

\* Whoever works on a batch works on a batch.
LEMMA BatchesInHand ==
  ASSUME Typed
  PROVE  /\ \A r \in Requests : RequestBatch(r) \subseteq Batches
         /\ \A w \in Workers : WorkerBatch(w) \subseteq Batches
BY DEF Typed, ApiShape, RequestShape, JobShape, WorkerShape, RequestBatch, WorkerBatch

\* What is not touched is as it was.
LEMMA AsideKeepsBatch ==
  ASSUME NEW b \in Batches, Aside(b)
  PROVE  /\ Registered(b)' = Registered(b)
         /\ Counted(b) => Counted(b)'
         /\ Untouched(b) => Untouched(b)'
         /\ (batchRow[b] = "none" => Registered(b) = {}) => (batchRow'[b] = "none" => Registered(b)' = {})
<1>1. Registered(b)' = Registered(b)
  BY DEF Aside, Registered
<1> QED
  BY <1>1 DEF Aside, Counted, Untouched

\* The phase of a worker whose batch is not touched is as it was.
LEMMA AsideKeepsPhase ==
  ASSUME Typed, NEW v \in Workers, BatchPhase(v), \A b \in WorkerBatch(v) : Aside(b),
         wpc'[v] = wpc[v], wjob'[v] = wjob[v], witem'[v] = witem[v], wcreated'[v] = wcreated[v]
  PROVE  BatchPhase(v)'
<1>1. CASE wpc[v] \in ImportStates
  <2>1. PICK b \in Batches : b = wjob[v]
    BY <1>1 DEF Typed, JobShape, WorkerShape
  <2>2. Aside(b) /\ Registered(b)' = Registered(b)
    BY <1>1, <2>1, AsideKeepsBatch DEF WorkerBatch
  <2>3. CountedSoFar(v)'
    BY <2>1, <2>2 DEF BatchPhase, CountedSoFar
  <2> QED
    BY <2>1, <2>2, <2>3 DEF BatchPhase, Aside
<1>2. CASE wpc[v] \notin ImportStates
  BY <1>2 DEF BatchPhase, CountedSoFar, ImportStates
<1> QED
  BY <1>1, <1>2

\* A request opens a batch that has no row, and hands it to the queue.
LEMMA BatchRequestKeepsBatches ==
  ASSUME Typed, BatchInv, NEW r \in Requests, BatchRequest(r)
  PROVE  BatchInv'
<1>1. /\ \A q \in Requests \ {r} : RequestBatch(q)' = RequestBatch(q) /\ InHand(q)' = InHand(q)
      /\ \A v \in Workers : WorkerBatch(v)' = WorkerBatch(v)
  BY DEF BatchRequest, RequestBatch, WorkerBatch, InHand, workerVars, importVars
<1>2. \A b \in RequestBatch(r)' \ RequestBatch(r) :
        /\ b \in Batches => b \notin maintQ
        /\ \A q \in Requests : b \notin RequestBatch(q)
        /\ \A v \in Workers : b \notin WorkerBatch(v)
  BY BatchesInHand DEF BatchRequest, BatchInv, Untouched, BatchPhase, WorkerBatch
<1>3. OneExpander'
  <2>1. /\ \A q \in Requests \ {r} : RequestBatch(q) \cap maintQ' = {}
        /\ \A v \in Workers : WorkerBatch(v) \cap maintQ' = {}
    BY BatchesInHand DEF BatchRequest, BatchInv, OneExpander
  <2>2. /\ \A q \in Requests \ {r} : RequestBatch(r)' \cap RequestBatch(q) = {}
        /\ \A v \in Workers : RequestBatch(r)' \cap WorkerBatch(v) = {}
    BY <1>2 DEF BatchInv, OneExpander
  <2> QED
    BY <1>1, <2>1, <2>2 DEF BatchRequest, BatchInv, OneExpander
<1>4. \A b \in Batches : Counted(b)' /\ (batchRow'[b] = "none" => Registered(b)' = {})
  BY AsideKeepsBatch DEF BatchRequest, BatchInv
<1>5. \A b \in maintQ' \cap Batches : Untouched(b)'
  BY AsideKeepsBatch DEF BatchRequest, BatchInv
<1>6. ASSUME NEW q \in Requests, NEW b \in RequestBatch(q)'
      PROVE  Untouched(b)'
  <2>1. CASE b \in RequestBatch(q)
    BY <2>1, BatchesInHand, AsideKeepsBatch DEF BatchRequest, BatchInv
  <2>2. CASE b \notin RequestBatch(q)
    <3>1. b \in Batches /\ batchRow[b] = "none" /\ batchRow'[b] = "pending"
      BY <1>1, <1>6, <2>2 DEF BatchRequest
    <3> QED
      BY <3>1, AsideKeepsBatch DEF BatchRequest, BatchInv, Untouched
  <2> QED
    BY <2>1, <2>2
<1>7. \A q \in Requests : \A d \in InHand(q)' : OriginOf[d] = None
  BY <1>1 DEF BatchRequest, BatchInv
<1>8. ASSUME NEW v \in Workers
      PROVE  BatchPhase(v)'
  BY BatchesInHand, AsideKeepsPhase DEF BatchRequest, BatchInv, workerVars, importVars
<1> QED
  BY <1>3, <1>4, <1>5, <1>6, <1>7, <1>8 DEF BatchInv

\* A worker counts for the batch it took, and for no other.
LEMMA BatchJobKeepsBatches ==
  ASSUME Typed, BatchInv, NEW w \in Workers, BatchJob(w)
  PROVE  BatchInv'
<1>1. /\ \A q \in Requests : RequestBatch(q)' = RequestBatch(q) /\ InHand(q)' = InHand(q)
      /\ \A v \in Workers \ {w} : WorkerBatch(v)' = WorkerBatch(v)
  BY DEF BatchJob, RequestBatch, WorkerBatch, InHand, apiVars
<1>2. OneExpander'
  <2>1. /\ \A q \in Requests : RequestBatch(q) \cap WorkerBatch(w)' = {}
        /\ \A v \in Workers \ {w} : WorkerBatch(v) \cap WorkerBatch(w)' = {}
        /\ WorkerBatch(w)' \cap maintQ' = {}
    BY DEF BatchJob, BatchInv, OneExpander
  <2> QED
    BY <1>1, <2>1 DEF BatchJob, BatchInv, OneExpander
<1>3. \A b \in Batches : Counted(b)' /\ (batchRow'[b] = "none" => Registered(b)' = {})
  BY AsideKeepsBatch DEF BatchJob, BatchInv
<1>4. \A b \in Batches \ WorkerBatch(w) : Aside(b)
  BY DEF BatchJob
<1>5. \A b \in maintQ' \cap Batches : Untouched(b)'
  BY <1>4, AsideKeepsBatch DEF BatchJob, BatchInv, OneExpander
<1>6. \A q \in Requests : \A b \in RequestBatch(q) : Untouched(b)'
  BY <1>4, BatchesInHand, AsideKeepsBatch DEF BatchInv, OneExpander
<1>7. ASSUME NEW v \in Workers
      PROVE  BatchPhase(v)'
  <2>1. CASE v # w
    <3>1. \A b \in WorkerBatch(v) : Aside(b)
      BY <1>4, <2>1, BatchesInHand DEF BatchInv, OneExpander
    <3> QED
      BY <2>1, <3>1, AsideKeepsPhase DEF BatchJob, BatchInv
  <2> QED
    BY <2>1 DEF BatchJob
<1> QED
  BY <1>1, <1>2, <1>3, <1>5, <1>6, <1>7 DEF BatchInv

\* A request is not about any batch while it changes no batch, and inserts only
\* documents of none.
LEMMA RequestsLeaveBatchesAside ==
  ASSUME Typed, Sound, BatchInv, NEW r \in Requests, NEW b \in Batches,
         UNCHANGED batchRows,
         \/ docRow' = docRow
         \/ InsertDocuments(InHand(r))
         \/ \E S \in SUBSET Docs : DeleteDocuments(S)
  PROVE  Aside(b)
<1>1. \A d \in InHand(r) : OriginOf[d] # b
  BY StoresAssumption DEF BatchInv
<1> QED
  BY <1>1 DEF Aside, InsertDocuments, DeleteDocuments, Live, LiveStates, batchRows

\* Every step of a request is one of these, or opens a batch.
LEMMA RequestsAreBatchRequests ==
  ASSUME Typed, Sound, BatchInv, UNCHANGED workerVars, NEW r \in Requests,
         \/ \E g \in Rags : \/ StartUpload(r, g) \/ StartDeleteRag(r, g) \/ StartIcon(r, g)
                            \/ \E S \in SUBSET Foreign :
                                 StartBucket(r, g, S) \/ CreateFromBucket(r, g, S)
         \/ \E d \in Docs : StartDelete(r, d)
         \/ \E b \in Batches : StartArchive(r, b) \/ ImportFromStaging(r, b)
         \/ RefuseArchive(r) \/ ApiContinue(r) \/ ApiError(r)
  PROVE  BatchRequest(r)
<1> USE DEF Typed, ApiShape, ApiTypeOK, Open, Goto, Respond, RequestBatch, BatchStates, InHand, RegisterStates
<1>0. /\ RequestBatch(r) \cap maintQ = {} /\ Rags \cap Batches = {} /\ Docs \cap Batches = {}
      /\ \A d \in InHand(r) : OriginOf[d] = None
  BY StoresAssumption DEF BatchInv, OneExpander
<1>1. ASSUME NEW b \in Batches, StartArchive(r, b) \/ ImportFromStaging(r, b)
      PROVE  BatchRequest(r)
  <2>1. /\ batchRow' = [batchRow EXCEPT ![b] = "pending"] /\ batchRow[b] = "none" /\ b \notin maintQ
        /\ UNCHANGED <<docRow, batchCreated, maintQ>>
    BY <1>1 DEF StartArchive, ImportFromStaging, BatchInv, Untouched, docRows, queues
  <2>2. \A c \in Batches : Aside(c)
    BY <2>1 DEF Aside, RowsTypeOK
  <2>3. /\ apc'[r] \in BatchStates /\ aset'[r] = b
        /\ \A q \in Requests \ {r} : apc'[q] = apc[q] /\ aset'[q] = aset[q] /\ adocs'[q] = adocs[q]
    BY <1>1 DEF StartArchive, ImportFromStaging
  <2> QED
    BY <2>1, <2>2, <2>3 DEF BatchRequest, RowsTypeOK
<1>2. CASE StageArchive(r) \/ EnqueueBatch(r)
  <2>1. \A b \in Batches : Aside(b)
    BY <1>2, RequestsLeaveBatchesAside DEF StageArchive, EnqueueBatch, rows, docRows
  <2>2. \/ maintQ' = maintQ /\ RequestBatch(r)' = RequestBatch(r)
        \/ maintQ' = maintQ \cup RequestBatch(r) /\ RequestBatch(r)' = {}
    BY <1>2 DEF StageArchive, EnqueueBatch, queues
  <2>3. /\ InHand(r)' = {}
        /\ \A q \in Requests \ {r} : apc'[q] = apc[q] /\ aset'[q] = aset[q] /\ adocs'[q] = adocs[q]
    BY <1>2 DEF StageArchive, EnqueueBatch
  <2> QED
    BY <1>0, <2>1, <2>2, <2>3 DEF BatchRequest
<1>3. ASSUME \/ \E g \in Rags : \/ StartUpload(r, g) \/ StartDeleteRag(r, g) \/ StartIcon(r, g)
                                \/ \E S \in SUBSET Foreign :
                                     StartBucket(r, g, S) \/ CreateFromBucket(r, g, S)
             \/ \E d \in Docs : StartDelete(r, d) \/ PutObject(r, d) \/ EnqueueIngest(r, d)
             \/ RejectOverQuota(r) \/ LookupHash(r) \/ DiscardDuplicate(r) \/ InsertRows(r)
             \/ RecordJobs(r) \/ FinishUpload(r) \/ DeleteRow(r) \/ EnqueuePurge(r)
             \/ SoftDelete(r) \/ EnqueuePurgeRag(r) \/ PutIconObject(r) \/ SetIconKey(r)
             \/ RefuseArchive(r) \/ ApiError(r)
      PROVE  BatchRequest(r)
  <2>1. batchRows' = batchRows
    BY <1>3 DEF StartUpload, StartDeleteRag, StartIcon, StartBucket, CreateFromBucket, StartDelete,
                RefuseArchive, PutObject, RejectOverQuota, LookupHash, DiscardDuplicate, InsertRows,
                EnqueueIngest, RecordJobs, FinishUpload, DeleteRow, EnqueuePurge, SoftDelete,
                EnqueuePurgeRag, PutIconObject, SetIconKey, ApiError, stores, rows
  <2>2. docRow' = docRow \/ InsertDocuments(InHand(r)) \/ \E S \in SUBSET Docs : DeleteDocuments(S)
    BY <1>3 DEF StartUpload, StartDeleteRag, StartIcon, StartBucket, CreateFromBucket, StartDelete,
                RefuseArchive, PutObject, RejectOverQuota, LookupHash, DiscardDuplicate, InsertRows,
                EnqueueIngest, RecordJobs, FinishUpload, DeleteRow, EnqueuePurge, SoftDelete,
                EnqueuePurgeRag, PutIconObject, SetIconKey, ApiError, stores, rows, docRows
  <2>3. \A b \in Batches : Aside(b)
    BY <2>1, <2>2, RequestsLeaveBatchesAside
  <2>4. (maintQ' \ maintQ) \cap Batches = {}
    BY <1>0, <1>3 DEF StartUpload, StartDeleteRag, StartIcon, StartBucket, CreateFromBucket, StartDelete,
                RefuseArchive, PutObject, RejectOverQuota, LookupHash, DiscardDuplicate, InsertRows,
                EnqueueIngest, RecordJobs, FinishUpload, DeleteRow, EnqueuePurge, SoftDelete,
                EnqueuePurgeRag, PutIconObject, SetIconKey, ApiError, stores, queues, RequestShape
  <2>5. apc'[r] \notin BatchStates
    BY <1>3 DEF StartUpload, StartDeleteRag, StartIcon, StartBucket, CreateFromBucket, StartDelete,
                RefuseArchive, PutObject, RejectOverQuota, LookupHash, DiscardDuplicate, InsertRows,
                EnqueueIngest, RecordJobs, FinishUpload, DeleteRow, EnqueuePurge, SoftDelete,
                EnqueuePurgeRag, PutIconObject, SetIconKey, ApiError
  <2>6. \A q \in Requests \ {r} : apc'[q] = apc[q] /\ aset'[q] = aset[q] /\ adocs'[q] = adocs[q]
    BY <1>3 DEF StartUpload, StartDeleteRag, StartIcon, StartBucket, CreateFromBucket, StartDelete,
                RefuseArchive, PutObject, RejectOverQuota, LookupHash, DiscardDuplicate, InsertRows,
                EnqueueIngest, RecordJobs, FinishUpload, DeleteRow, EnqueuePurge, SoftDelete,
                EnqueuePurgeRag, PutIconObject, SetIconKey, ApiError
  <2>7. \A d \in InHand(r)' : OriginOf[d] = None
    BY <1>0, <1>3, StoresAssumption
             DEF StartUpload, StartDeleteRag, StartIcon, StartBucket, CreateFromBucket, FreshForeign,
                StartDelete, RefuseArchive, PutObject, RejectOverQuota, LookupHash, DiscardDuplicate,
                InsertRows, EnqueueIngest, RecordJobs, FinishUpload, DeleteRow, EnqueuePurge, SoftDelete,
                EnqueuePurgeRag, PutIconObject, SetIconKey, ApiError
  <2> QED
    BY <2>3, <2>4, <2>5, <2>6, <2>7 DEF BatchRequest
<1> QED
  BY <1>1, <1>2, <1>3 DEF ApiContinue

\* Indexing and purging count nothing; at most a set goes with its batches.
LEMMA OtherJobsAreBatchJobs ==
  ASSUME Typed, Sound, BatchInv, UNCHANGED apiVars, NEW w \in Workers, JobStep(w) \/ JobFault(w)
  PROVE  BatchJob(w)
<1> USE DEF Typed, JobShape, WorkerTypeOK, Take, Proceed, Release, importVars
<1>0. BatchPhase(w) /\ \A b \in Batches : Counted(b)
  BY DEF BatchInv
<1>1. \A v \in Workers \ {w} : /\ wpc'[v] = wpc[v] /\ wjob'[v] = wjob[v]
                               /\ witem'[v] = witem[v] /\ wcreated'[v] = wcreated[v]
  BY DEF JobStep, JobFault, TakeIngest, BeginIngest, Convert, Load, Refresh, MarkSuccess, MarkFailed,
         TakeMaintenance, PurgeChunks, PurgeObject, PurgeRagChunks, PurgeRagObjects, PurgeRagIcon,
         PurgeRagRow, WorkerError, LoadBreaks, Crash
<1>2. ASSUME NEW b \in Batches
      PROVE  Aside(b)
  <2>1. \A d \in Docs : docRow'[d] = "none" <=> docRow[d] = "none"
    <3>1. CASE BeginIngest(w) \/ MarkSuccess(w) \/ MarkFailed(w) \/ PurgeRagRow(w)
      <4>1. wjob[w] \in Docs \/ PurgeRagRow(w)
        BY <3>1 DEF BeginIngest, MarkSuccess, MarkFailed, WorkerShape, IngestStates
      <4> QED
        BY <3>1, <4>1 DEF BeginIngest, BeginDocument, MarkSuccess, MarkFailed, MarkDocument, PurgeRagRow,
                          DeleteDocuments, Live, LiveStates, docRows, RowsTypeOK
    <3>2. CASE ~(BeginIngest(w) \/ MarkSuccess(w) \/ MarkFailed(w) \/ PurgeRagRow(w))
      <4>1. docRow' = docRow
        BY <3>2 DEF JobStep, JobFault, TakeIngest, Convert, Load, Refresh, TakeMaintenance, PurgeChunks,
                    PurgeObject, PurgeRagChunks, PurgeRagObjects, PurgeRagIcon, WorkerError, LoadBreaks,
                    Crash, stores, rows, docRows
      <4> QED
        BY <4>1
    <3> QED
      BY <3>1, <3>2
  <2>2. CASE PurgeRagRow(w)
    BY <2>1, <2>2 DEF PurgeRagRow, DeleteBatches, Aside, BatchLive
  <2>3. CASE ~PurgeRagRow(w)
    <3>1. batchRows' = batchRows
      BY <2>3 DEF JobStep, JobFault, TakeIngest, BeginIngest, Convert, Load, Refresh, MarkSuccess,
                  MarkFailed, TakeMaintenance, PurgeChunks, PurgeObject, PurgeRagChunks, PurgeRagObjects,
                  PurgeRagIcon, WorkerError, LoadBreaks, Crash, stores, rows
    <3> QED
      BY <2>1, <3>1 DEF Aside, batchRows
  <2> QED
    BY <2>2, <2>3
<1>3. ASSUME NEW job \in Docs \cup Rags \cup Batches, TakeMaintenance(w, job)
      PROVE  BatchJob(w)
  <2>1. /\ job \in maintQ /\ maintQ' = maintQ \ {job} /\ wcreated'[w] = 0 /\ wjob'[w] = job
        /\ wpc'[w] \in {"purgeChunks", "purgeRagChunks", "openBatch"}
        /\ wpc'[w] = "openBatch" => job \in Batches
    BY <1>0, <1>3, StoresAssumption DEF TakeMaintenance, BatchPhase, ImportStates
  <2>2. job \in Batches => Untouched(job)'
    BY <1>2, <2>1, AsideKeepsBatch DEF BatchInv
  <2>3. WorkerBatch(w)' \subseteq {job} /\ BatchPhase(w)'
    BY <2>1, <2>2 DEF WorkerBatch, BatchPhase, CountedSoFar, Untouched, ImportStates
  <2> QED
    BY <1>1, <1>2, <2>1, <2>3 DEF BatchJob
<1>4. CASE WorkerError(w) /\ wpc'[w] \in {"failBatch", "unstage"}
  <2>1. /\ wpc[w] \in ImportStates \ {"unstage"} /\ wjob'[w] = wjob[w]
        /\ UNCHANGED <<batchRow, maintQ>>
    BY <1>4 DEF WorkerError, ImportStates, PurgeStates, IngestStates, stores, rows, batchRows, queues
  <2>2. WorkerBatch(w)' = WorkerBatch(w) /\ BatchPhase(w)'
    BY <1>0, <1>4, <2>1 DEF WorkerBatch, BatchPhase, CountedSoFar, ImportStates
  <2> QED
    BY <1>1, <1>2, <2>1, <2>2 DEF BatchJob
<1>5. CASE ~(WorkerError(w) /\ wpc'[w] \in {"failBatch", "unstage"})
           /\ ~\E job \in Docs \cup Rags \cup Batches : TakeMaintenance(w, job)
  <2>1. wpc'[w] \notin ImportStates
    BY <1>5 DEF JobStep, JobFault, TakeIngest, BeginIngest, Convert, Load, Refresh, MarkSuccess,
                MarkFailed, PurgeChunks, PurgeObject, PurgeRagChunks, PurgeRagObjects, PurgeRagIcon,
                PurgeRagRow, WorkerError, LoadBreaks, Crash, ImportStates
  <2>2. wcreated'[w] = 0
    <3>1. CASE wpc'[w] = "idle"
      BY <1>5, <3>1 DEF JobStep, JobFault, TakeIngest, BeginIngest, Convert, Load, Refresh, MarkSuccess,
                MarkFailed, PurgeChunks, PurgeObject, PurgeRagChunks, PurgeRagObjects, PurgeRagIcon,
                PurgeRagRow, WorkerError, LoadBreaks, Crash
    <3>2. CASE wpc'[w] # "idle"
      <4>1. wcreated'[w] = wcreated[w] /\ wpc[w] \notin ImportStates
        BY <1>5, <3>2 DEF JobStep, JobFault, TakeIngest, BeginIngest, Convert, Load, Refresh, MarkSuccess,
                MarkFailed, PurgeChunks, PurgeObject, PurgeRagChunks, PurgeRagObjects, PurgeRagIcon,
                PurgeRagRow, WorkerError, LoadBreaks, Crash, ImportStates, IngestStates, PurgeStates
      <4> QED
        BY <1>0, <4>1 DEF BatchPhase
    <3> QED
      BY <3>1, <3>2
  <2>3. maintQ' = maintQ
    BY <1>5 DEF JobStep, JobFault, TakeIngest, BeginIngest, Convert, Load, Refresh, MarkSuccess,
                MarkFailed, PurgeChunks, PurgeObject, PurgeRagChunks, PurgeRagObjects, PurgeRagIcon,
                PurgeRagRow, WorkerError, LoadBreaks, Crash, stores, queues
  <2>4. WorkerBatch(w)' = {} /\ BatchPhase(w)'
    BY <2>1, <2>2 DEF WorkerBatch, BatchPhase, CountedSoFar, ImportStates
  <2> QED
    BY <1>1, <1>2, <2>3, <2>4 DEF BatchJob
<1> QED
  BY <1>3, <1>4, <1>5

\* An import counts each document it registers once.
LEMMA ImportsAreBatchJobs ==
  ASSUME Typed, Sound, BatchInv, UNCHANGED apiVars, NEW w \in Workers, ImportStep(w)
  PROVE  BatchJob(w)
<1> USE DEF Typed, JobShape, WorkerTypeOK, Working, Release, Leave, importVars
<1>0. wpc[w] \in ImportStates /\ BatchPhase(w)
  BY DEF ImportStep, OpenBatch, PlanItems, LookupItem, PutItem, InsertItem, EnqueueItem, RecordItem,
         FinishBatch, FailBatch, Unstage, ImportStates, BatchInv
<1>1. PICK b \in Batches : b = wjob[w]
  BY <1>0 DEF WorkerShape
<1>2. /\ batchRow[b] # "none" /\ Counted(b) /\ WorkerBatch(w) = {b}
      /\ wpc[w] # "unstage" => batchRow[b] # "success"
      /\ Cardinality(Registered(b)) \in Nat /\ IsFiniteSet(Registered(b))
  <2>1. Registered(b) \in SUBSET Docs
    BY DEF Registered
  <2> QED
    BY <1>0, <1>1, <2>1, StoresAssumption, FS_Subset, FS_CardinalityType DEF BatchPhase, BatchInv, WorkerBatch
<1>3. /\ \A v \in Workers \ {w} : /\ wpc'[v] = wpc[v] /\ wjob'[v] = wjob[v]
                                  /\ witem'[v] = witem[v] /\ wcreated'[v] = wcreated[v]
      /\ maintQ' = maintQ
  BY DEF ImportStep, OpenBatch, PlanItems, LookupItem, PutItem, InsertItem, EnqueueItem, RecordItem,
         FinishBatch, FailBatch, Unstage, queues
<1>4. wpc'[w] \notin ImportStates \/ wjob'[w] = b
  BY <1>1 DEF ImportStep, OpenBatch, PlanItems, LookupItem, PutItem, InsertItem, EnqueueItem, RecordItem,
         FinishBatch, FailBatch, Unstage, ImportStates
<1>5. ASSUME \A c \in Batches \ {b} : Aside(c),
             Counted(b)', batchRow'[b] # "none", BatchPhase(w)'
      PROVE  BatchJob(w)
  BY <1>2, <1>3, <1>4, <1>5 DEF BatchJob, WorkerBatch
<1>6. CASE InsertItem(w) /\ CanInsert({witem[w]})
  <2>1. PICK e \in Docs : e = witem[w]
    BY <1>6 DEF InsertItem, WorkerShape, ItemStates
  <2>2. /\ OriginOf[e] = b /\ docRow[e] = "none" /\ wcreated[w] = Cardinality(Registered(b))
        /\ batchRow[b] # "success"
    BY <1>0, <1>1, <1>2, <1>6, <2>1
    DEF InsertItem, BatchPhase, CountedSoFar, Sound, WorkerIsSound, InImport, Unregistered
  <2>3. /\ docRow' = [d \in Docs |-> IF d = e THEN "pending" ELSE docRow[d]]
        /\ UNCHANGED <<batchRow, batchCreated, wcreated, wjob>> /\ wpc'[w] = "enqueueItem"
    BY <1>6, <2>1 DEF InsertItem, InsertDocuments, batchRows
  <2>4. Registered(b)' = Registered(b) \cup {e} /\ e \notin Registered(b)
    BY <2>2, <2>3 DEF Registered
  <2>5. Cardinality(Registered(b)') = Cardinality(Registered(b)) + 1
    BY <1>2, <2>4, FS_AddElement
  <2>6. \A c \in Batches \ {b} : Aside(c)
    BY <2>2, <2>3 DEF Aside
  <2>7. BatchPhase(w)'
    BY <1>1, <1>2, <2>2, <2>3, <2>5 DEF BatchPhase, CountedSoFar, ImportStates
  <2> QED
    BY <1>2, <1>5, <2>2, <2>3, <2>6, <2>7 DEF Counted
<1>7. CASE ~(InsertItem(w) /\ CanInsert({witem[w]}))
  <2>1. docRow' = docRow /\ Registered(b)' = Registered(b)
    <3>1. docRow' = docRow
      BY <1>7 DEF ImportStep, OpenBatch, PlanItems, LookupItem, PutItem, InsertItem, EnqueueItem, RecordItem,
                  FinishBatch, FailBatch, Unstage, rows, docRows
    <3> QED
      BY <3>1 DEF Registered
  <2>2. /\ \A c \in Batches \ {b} : batchRow'[c] = batchRow[c] /\ batchCreated'[c] = batchCreated[c]
        /\ batchRow'[b] # "none"
    BY <1>1, <1>2, <1>7 DEF ImportStep, OpenBatch, PlanItems, LookupItem, PutItem, InsertItem, EnqueueItem,
      RecordItem, FinishBatch, FailBatch, Unstage, SetBatch, rows, batchRows, RowsTypeOK
  <2>3. \A c \in Batches \ {b} : Aside(c)
    BY <2>1, <2>2 DEF Aside
  <2>4. Counted(b)'
    <3>1. CASE FinishBatch(w)
      <4>1. wcreated[w] = Cardinality(Registered(b))
        BY <1>0, <1>1, <3>1 DEF FinishBatch, BatchPhase, CountedSoFar
      <4>2. batchRow'[b] = "success" => batchCreated'[b] = wcreated[w]
        BY <1>1, <1>2, <3>1 DEF FinishBatch, SetBatch, RowsTypeOK
      <4> QED
        BY <2>1, <4>1, <4>2 DEF Counted
    <3>2. CASE ~FinishBatch(w)
      <4>1. batchRow'[b] # "success" \/ (batchRow'[b] = batchRow[b] /\ batchCreated'[b] = batchCreated[b])
        BY <1>1, <1>2, <1>7, <3>2 DEF ImportStep, OpenBatch, PlanItems, LookupItem, PutItem, InsertItem,
          EnqueueItem, RecordItem, FailBatch, Unstage, SetBatch, rows, batchRows, RowsTypeOK
      <4> QED
        BY <1>2, <2>1, <4>1 DEF Counted
    <3> QED
      BY <3>1, <3>2
  <2>5. BatchPhase(w)'
    <3>1. CASE OpenBatch(w) \/ PlanItems(w)
      <4>1. Registered(b) = {} /\ wcreated[w] = 0 /\ batchRow[b] # "success"
        BY <1>0, <1>1, <1>2, <3>1 DEF OpenBatch, PlanItems, BatchPhase, CountedSoFar
      <4>2. /\ wpc'[w] \in {"plan", "item", "unstage", "idle"} /\ wcreated'[w] = 0
            /\ wpc'[w] # "idle" => wjob'[w] = b
            /\ batchRow'[b] # "success"
        BY <1>1, <3>1, <4>1 DEF OpenBatch, PlanItems, SetBatch, RowsTypeOK, batchRows
      <4> QED
        BY <2>1, <2>2, <4>1, <4>2, FS_EmptySet DEF BatchPhase, CountedSoFar, ImportStates
    <3>2. CASE FinishBatch(w) \/ FailBatch(w) \/ Unstage(w)
      <4>1. \/ wpc'[w] = "unstage" /\ wjob'[w] = b
            \/ wpc'[w] = "idle" /\ wcreated'[w] = 0
        BY <1>1, <3>2 DEF FinishBatch, FailBatch, Unstage
      <4> QED
        BY <2>2, <4>1 DEF BatchPhase, CountedSoFar, ImportStates
    <3>3. CASE \/ (\E d \in Docs : LookupItem(w, d)) \/ PutItem(w) \/ InsertItem(w)
               \/ EnqueueItem(w) \/ RecordItem(w)
      <4>1. wjob'[w] = b /\ batchRow'[b] = batchRow[b] /\ batchRow[b] # "success"
        BY <1>1, <1>2, <1>7, <3>3 DEF LookupItem, PutItem, InsertItem, EnqueueItem, RecordItem, rows, batchRows
      <4>2. \/ wpc'[w] = "failBatch"
            \/ /\ wpc[w] \in {"item", "putItem"} /\ wpc'[w] \in {"putItem", "insertItem"}
               /\ wcreated'[w] = wcreated[w] /\ OriginOf[witem'[w]] = b
            \/ wpc[w] = "enqueueItem" /\ wpc'[w] = "recordItem" /\ wcreated'[w] = wcreated[w]
            \/ wpc[w] = "recordItem" /\ wpc'[w] = "item" /\ wcreated'[w] = wcreated[w] + 1
        BY <1>0, <1>1, <1>7, <3>3 DEF LookupItem, PutItem, InsertItem, EnqueueItem, RecordItem, BatchPhase
      <4> QED
        BY <1>0, <1>1, <1>2, <2>1, <2>2, <4>1, <4>2 DEF BatchPhase, CountedSoFar, ImportStates
    <3> QED
      BY <3>1, <3>2, <3>3 DEF ImportStep
  <2> QED
    BY <1>5, <2>2, <2>3, <2>4, <2>5
<1> QED
  BY <1>6, <1>7

\* The documents a finished batch counts are the documents it brought, however
\* the import interleaves with uploads, deletions and other imports, and
\* whatever fails: a batch has one job, which counts each row it committed.
THEOREM BatchesCountDocuments == Spec => []BatchCountsDocuments
<1>1. Init => BatchInv
  BY FS_EmptySet
  DEF Init, StoresInit, ApiInit, WorkerInit, BatchInv, OneExpander, RequestBatch, WorkerBatch, BatchPhase,
      CountedSoFar, Counted, Registered, Untouched, InHand, BatchStates, RegisterStates, ImportStates
<1>2. IInv /\ BatchInv /\ [Next]_vars => BatchInv'
  <2> SUFFICES ASSUME IInv, BatchInv, [Next]_vars
               PROVE  BatchInv'
    OBVIOUS
  <2>1. Typed /\ Sound
    BY ShapeIsTyped DEF IInv
  <2>2. ASSUME UNCHANGED <<docRow, batchRows, maintQ, apiVars, workerVars>>
        PROVE  BatchInv'
    BY <2>2 DEF batchRows, apiVars, workerVars, importVars, BatchInv, OneExpander, RequestBatch, WorkerBatch,
                BatchPhase, CountedSoFar, Counted, Registered, Untouched, InHand
  <2>3. CASE ApiNext /\ UNCHANGED workerVars
    <3>1. ASSUME NEW g \in Rags, CreateRag(g)
          PROVE  BatchInv'
      BY <2>2, <2>3, <3>1 DEF CreateRag, docRows, queues
    <3> QED
      BY <2>1, <2>3, <3>1, RequestsAreBatchRequests, BatchRequestKeepsBatches DEF ApiNext
  <2>4. ASSUME NEW w \in Workers, WorkerStep(w) \/ JobFault(w), UNCHANGED apiVars
        PROVE  BatchInv'
    BY <2>1, <2>4, OtherJobsAreBatchJobs, ImportsAreBatchJobs, BatchJobKeepsBatches DEF WorkerStep
  <2>5. CASE (PeriodicRefresh /\ UNCHANGED <<apiVars, workerVars>>) \/ UNCHANGED vars
    BY <2>2, <2>5 DEF PeriodicRefresh, vars, stores, rows, docRows, queues
  <2> QED
    BY <2>3, <2>4, <2>5 DEF Next
<1>3. BatchInv => BatchCountsDocuments
  BY DEF BatchInv, Counted, Registered, BatchCountsDocuments
<1> QED
  BY <1>1, <1>2, <1>3, Invariance, PTL DEF Spec

-----------------------------------------------------------------------------
(* The chunks of a purged document.                                        *)

\* Nothing of the document is in the index, and nobody is about to load it.
Unloaded(d) ==
  index[d] = {} /\ \A w \in Workers : wpc[w] \in IngestStates \ {"begin"} => wjob[w] # d

\* How far the purge of a worker has come: what it had to find it has found.
PurgePhase(w) ==
  /\ wpc[w] = "purgeObject" => index[wjob[w]] = {}
  /\ wpc[w] \in PurgeRagStates \ {"purgeRagChunks"} => \A d \in DocsOf(wjob[w]) : index[d] = {}

PurgeInv ==
  /\ \A d \in Docs : docRow[d] = "deleted" => PurgeAhead(d) \/ Unloaded(d)
  /\ \A d \in Docs : index[d] # visible[d] => \E w \in Workers : wpc[w] = "refresh" /\ wjob[w] = d
  /\ \A w \in Workers : PurgePhase(w)

\* A deleted document has its purge ahead from the deletion on, and keeps it:
\* requests only bring it nearer.
LEMMA RequestsKeepPurges ==
  ASSUME {"api", "crash", "worker", "purge"} \cap Faults = {},
         Typed, PurgeInv, ApiNext, UNCHANGED workerVars
  PROVE  PurgeInv'
<1> USE DEF Typed, ApiShape, ApiTypeOK, Open, Goto, Respond
<1>1. UNCHANGED <<index, visible, wpc, wjob>>
  BY DEF ApiNext, ApiContinue, CreateRag, StartUpload, StartDeleteRag, StartIcon, StartBucket,
         CreateFromBucket, StartDelete, StartArchive, ImportFromStaging, RefuseArchive, PutObject,
         RejectOverQuota, LookupHash, DiscardDuplicate, InsertRows, EnqueueIngest, RecordJobs, FinishUpload,
         DeleteRow, EnqueuePurge, SoftDelete, EnqueuePurgeRag, PutIconObject, SetIconKey, StageArchive,
         EnqueueBatch, ApiError, stores, search, workerVars
<1>2. \A d \in Docs : (Unloaded(d) => Unloaded(d)') /\ (index'[d] = index[d] /\ visible'[d] = visible[d])
  BY <1>1 DEF Unloaded
<1>3. \A w \in Workers : (Purging(w)' <=> Purging(w)) /\ wjob'[w] = wjob[w] /\ (PurgePhase(w) => PurgePhase(w)')
  BY <1>1 DEF Purging, PurgePhase, DocsOf
<1>4. \* it is enough that no purge is forgotten
      ASSUME \A d \in Docs : docRow'[d] = "deleted" => PurgeAhead(d)' \/ (docRow[d] = "deleted" /\ ~PurgeAhead(d))
      PROVE  PurgeInv'
  BY <1>1, <1>2, <1>3, <1>4 DEF PurgeInv
<1>5. ASSUME NEW r \in Requests, EnqueuePurge(r) \/ EnqueuePurgeRag(r)
      PROVE  PurgeInv'
  <2>1. docRow' = docRow /\ maintQ \subseteq maintQ'
    BY <1>5 DEF EnqueuePurge, EnqueuePurgeRag, rows, docRows
  <2>2. \A q \in Requests \ {r} : apc'[q] = apc[q] /\ aset'[q] = aset[q] /\ adocs'[q] = adocs[q]
    BY <1>5 DEF EnqueuePurge, EnqueuePurgeRag
  <2>3. /\ apc[r] = "enqueuePurge" => adocs[r] \subseteq maintQ'
        /\ apc[r] = "enqueuePurgeRag" => aset[r] \in maintQ'
    BY <1>5 DEF EnqueuePurge, EnqueuePurgeRag
  <2>4. \A d \in Docs : PurgeAhead(d) => PurgeAhead(d)'
    BY <1>3, <2>1, <2>2, <2>3 DEF PurgeAhead
  <2> QED
    BY <1>4, <2>1, <2>4
<1>6. ASSUME NEW r \in Requests,
             apc[r] \notin {"enqueuePurge", "enqueuePurgeRag"}, maintQ \subseteq maintQ',
             \A q \in Requests \ {r} : apc'[q] = apc[q] /\ aset'[q] = aset[q] /\ adocs'[q] = adocs[q],
             \A d \in Docs : docRow'[d] = "deleted" => docRow[d] = "deleted" \/ (apc'[r] = "enqueuePurge" /\ d \in adocs'[r])
      PROVE  PurgeInv'
  <2>1. \A d \in Docs : PurgeAhead(d) => PurgeAhead(d)'
    BY <1>3, <1>6 DEF PurgeAhead
  <2>2. \A d \in Docs : docRow'[d] = "deleted" /\ docRow[d] # "deleted" => PurgeAhead(d)'
    BY <1>6 DEF PurgeAhead
  <2> QED
    BY <1>4, <2>1, <2>2
<1>7. ASSUME NEW r \in Requests, DeleteRow(r)
      PROVE  PurgeInv'
  BY <1>6, <1>7 DEF DeleteRow, DeleteDocuments, queues
<1>8. ASSUME NEW r \in Requests,
             \/ \E g \in Rags : \/ StartUpload(r, g) \/ StartDeleteRag(r, g) \/ StartIcon(r, g)
                                \/ \E S \in SUBSET Foreign :
                                     StartBucket(r, g, S) \/ CreateFromBucket(r, g, S)
             \/ \E d \in Docs : StartDelete(r, d) \/ PutObject(r, d) \/ EnqueueIngest(r, d)
             \/ \E b \in Batches : StartArchive(r, b) \/ ImportFromStaging(r, b)
             \/ RejectOverQuota(r) \/ LookupHash(r) \/ DiscardDuplicate(r) \/ InsertRows(r)
             \/ RecordJobs(r) \/ FinishUpload(r) \/ SoftDelete(r) \/ PutIconObject(r) \/ SetIconKey(r)
             \/ StageArchive(r) \/ EnqueueBatch(r) \/ RefuseArchive(r)
      PROVE  PurgeInv'
  <2>1. apc[r] \notin {"enqueuePurge", "enqueuePurgeRag"}
    BY <1>8 DEF StartUpload, StartDeleteRag, StartIcon, StartBucket, CreateFromBucket, StartDelete,
                StartArchive, ImportFromStaging, RefuseArchive, PutObject, RejectOverQuota, LookupHash,
                DiscardDuplicate, InsertRows, EnqueueIngest, RecordJobs, FinishUpload, SoftDelete,
                PutIconObject, SetIconKey, StageArchive, EnqueueBatch
  <2>2. maintQ \subseteq maintQ'
    BY <1>8 DEF StartUpload, StartDeleteRag, StartIcon, StartBucket, CreateFromBucket, StartDelete,
                StartArchive, ImportFromStaging, RefuseArchive, PutObject, RejectOverQuota, LookupHash,
                DiscardDuplicate, InsertRows, EnqueueIngest, RecordJobs, FinishUpload, SoftDelete,
                PutIconObject, SetIconKey, StageArchive, EnqueueBatch, stores, queues
  <2>3. \A q \in Requests \ {r} : apc'[q] = apc[q] /\ aset'[q] = aset[q] /\ adocs'[q] = adocs[q]
    BY <1>8 DEF StartUpload, StartDeleteRag, StartIcon, StartBucket, CreateFromBucket, StartDelete,
                StartArchive, ImportFromStaging, RefuseArchive, PutObject, RejectOverQuota, LookupHash,
                DiscardDuplicate, InsertRows, EnqueueIngest, RecordJobs, FinishUpload, SoftDelete,
                PutIconObject, SetIconKey, StageArchive, EnqueueBatch
  <2>4. \A d \in Docs : docRow'[d] = "deleted" => docRow[d] = "deleted"
    BY <1>8 DEF StartUpload, StartDeleteRag, StartIcon, StartBucket, CreateFromBucket, StartDelete,
                StartArchive, ImportFromStaging, RefuseArchive, PutObject, RejectOverQuota, LookupHash,
                DiscardDuplicate, InsertRows, InsertDocuments, EnqueueIngest, RecordJobs, FinishUpload,
                SoftDelete, PutIconObject, SetIconKey, StageArchive, EnqueueBatch, stores, rows, docRows
  <2> QED
    BY <1>6, <2>1, <2>2, <2>3, <2>4
<1>9. ASSUME NEW g \in Rags, CreateRag(g)
      PROVE  PurgeInv'
  <2>1. UNCHANGED <<docRow, maintQ, apc, aset, adocs>>
    BY <1>9 DEF CreateRag, docRows, queues, apiVars
  <2>2. \A d \in Docs : PurgeAhead(d) => PurgeAhead(d)'
    BY <1>3, <2>1 DEF PurgeAhead
  <2> QED
    BY <1>4, <2>1, <2>2
<1>10. \A r \in Requests : ~ApiError(r)
  BY DEF ApiError
<1> QED
  BY <1>5, <1>7, <1>8, <1>9, <1>10 DEF ApiNext, ApiContinue

\* Before its purge is over, the only worker has found all the chunks: none is
\* being loaded meanwhile, and what was loaded was refreshed.
LEMMA JobsKeepPurges ==
  ASSUME {"api", "crash", "worker", "purge"} \cap Faults = {}, RefreshAfterLoad,
         \A v, u \in Workers : v = u,
         Typed, Sound, PurgeInv, UNCHANGED apiVars, NEW w \in Workers, WorkerStep(w) \/ JobFault(w)
  PROVE  PurgeInv'
<1> USE DEF Typed, JobShape, WorkerTypeOK, Take, Proceed, Release, Working, Leave
<1>0. \A v \in Workers : v = w
  OBVIOUS
<1>1. \A d \in Docs : wpc[w] # "refresh" => index[d] = visible[d]
  BY <1>0 DEF PurgeInv
<1>2. \* it is enough that w drops no purge, and deletes nothing, before it is done
      ASSUME maintQ' = maintQ,
             Purging(w) => (Purging(w)' /\ wjob'[w] = wjob[w])
                              \/ \A d \in Docs : wjob[w] \in {d, RagOf[d]} => Unloaded(d)',
             \A d \in Docs : docRow'[d] = "deleted" => Unloaded(d)' \/ (docRow[d] = "deleted"
                                                                         /\ (Unloaded(d) => Unloaded(d)')),
             \A d \in Docs : index'[d] = visible'[d] \/ (wpc'[w] = "refresh" /\ wjob'[w] = d),
             PurgePhase(w)'
      PROVE  PurgeInv'
  <2>1. \A d \in Docs : PurgeAhead(d) => PurgeAhead(d)' \/ Unloaded(d)'
    BY <1>0, <1>2 DEF PurgeAhead, apiVars
  <2> QED
    BY <1>0, <1>2, <2>1 DEF PurgeInv
<1>3. ASSUME NEW job \in Docs \cup Rags \cup Batches, TakeMaintenance(w, job)
      PROVE  PurgeInv'
  <2>1. /\ wpc[w] = "idle" /\ wjob'[w] = job /\ maintQ' = maintQ \ {job}
        /\ job \in Docs \cup Rags => wpc'[w] \in {"purgeChunks", "purgeRagChunks"}
        /\ wpc'[w] \in {"purgeChunks", "purgeRagChunks", "openBatch"}
        /\ UNCHANGED <<docRow, index, visible>>
    BY <1>3 DEF TakeMaintenance, rows, docRows, search
  <2>2. \A d \in Docs : PurgeAhead(d) => PurgeAhead(d)'
    BY <1>0, <2>1, StoresAssumption DEF PurgeAhead, Purging, PurgeStates, apiVars
  <2>3. \A d \in Docs : Unloaded(d) => Unloaded(d)'
    BY <1>0, <2>1 DEF Unloaded, IngestStates
  <2>4. PurgePhase(w)'
    BY <2>1 DEF PurgePhase, PurgeRagStates, PurgeStates, PurgeDocStates
  <2> QED
    BY <1>0, <1>1, <2>1, <2>2, <2>3, <2>4 DEF PurgeInv
<1>4. CASE (\E d \in Docs : TakeIngest(w, d)) \/ BeginIngest(w) \/ Convert(w) \/ Load(w) \/ Refresh(w)
           \/ MarkSuccess(w) \/ MarkFailed(w)
  <2>1. /\ maintQ' = maintQ
        /\ wpc[w] \in IngestStates \cup {"idle"} /\ wpc'[w] \in IngestStates \cup {"idle"}
    BY <1>4 DEF TakeIngest, BeginIngest, Convert, Load, Refresh, MarkSuccess, MarkFailed, queues, stores,
                IngestStates
  <2>2. ~Purging(w) /\ PurgePhase(w)'
    BY <2>1 DEF Purging, PurgePhase, PurgeRagStates, PurgeStates, PurgeDocStates, IngestStates
  <2>3. \A d \in Docs : index'[d] = visible'[d] \/ (wpc'[w] = "refresh" /\ wjob'[w] = d)
    <3>1. CASE Refresh(w)
      BY <3>1 DEF Refresh, RefreshIndex
    <3>2. CASE Load(w)
      BY <1>1, <3>2 DEF Load, BulkLoad
    <3>3. CASE ~Refresh(w) /\ ~Load(w)
      BY <1>1, <1>4, <3>3 DEF TakeIngest, BeginIngest, Convert, MarkSuccess, MarkFailed, search, stores
    <3> QED
      BY <3>1, <3>2, <3>3
  <2>4. ASSUME NEW d \in Docs, docRow'[d] = "deleted"
        PROVE  docRow[d] = "deleted" /\ (Unloaded(d) => Unloaded(d)')
    <3>1. Indexing(w) => wjob[w] \in Docs
      BY DEF WorkerShape, Indexing
    <3>2. docRow[d] = "deleted"
      <4>1. CASE BeginIngest(w) \/ MarkSuccess(w) \/ MarkFailed(w)
        <5>1. wjob[w] \in Docs
          BY <3>1, <4>1 DEF BeginIngest, MarkSuccess, MarkFailed, Indexing, IngestStates
        <5> QED
          BY <2>4, <4>1, <5>1 DEF BeginIngest, BeginDocument, MarkSuccess, MarkFailed, MarkDocument,
                                  RowsTypeOK, docRows
      <4>2. CASE ~(BeginIngest(w) \/ MarkSuccess(w) \/ MarkFailed(w))
        BY <1>4, <2>4, <4>2 DEF TakeIngest, Convert, Load, Refresh, rows, docRows, stores
      <4> QED
        BY <4>1, <4>2
    <3>3. ASSUME Unloaded(d)
          PROVE  Unloaded(d)'
      <4>1. wpc[w] \in IngestStates \ {"begin"} => wjob[w] # d
        BY <3>3 DEF Unloaded
      <4>2. wpc'[w] \in IngestStates \ {"begin"} => wjob'[w] # d
        <5>1. CASE BeginIngest(w)
          BY <2>4, <5>1 DEF BeginIngest, BeginDocument, RowsTypeOK, IngestStates
        <5>2. CASE ~BeginIngest(w)
          BY <1>4, <4>1, <5>2 DEF TakeIngest, Convert, Load, Refresh, MarkSuccess, MarkFailed, IngestStates
        <5> QED
          BY <5>1, <5>2
      <4>3. index'[d] = index[d]
        <5>1. CASE Load(w)
          BY <4>1, <5>1 DEF Load, BulkLoad, IngestStates
        <5>2. CASE ~Load(w)
          BY <1>4, <5>2 DEF TakeIngest, BeginIngest, Convert, Refresh, RefreshIndex, MarkSuccess, MarkFailed,
                            search, stores
        <5> QED
          BY <5>1, <5>2
      <4> QED
        BY <1>0, <3>3, <4>2, <4>3 DEF Unloaded
    <3> QED
      BY <3>2, <3>3
  <2> QED
    BY <1>2, <2>1, <2>2, <2>3, <2>4
<1>5. CASE PurgeChunks(w) \/ PurgeRagChunks(w)
  <2>1. PICK S \in SUBSET Docs : /\ DeleteByQuery(S)
                                 /\ PurgeChunks(w) => wjob[w] \in S
                                 /\ PurgeRagChunks(w) => S = DocsOf(wjob[w])
    <3>1. PurgeChunks(w) => wjob[w] \in Docs
      BY DEF PurgeChunks, WorkerShape, PurgeDocStates
    <3> QED
      BY <1>5, <3>1 DEF PurgeChunks, PurgeRagChunks, DocsOf
  <2>2. \A d \in Docs : index[d] = visible[d]
    BY <1>1, <1>5 DEF PurgeChunks, PurgeRagChunks
  <2>3. \A d \in Docs : /\ index'[d] = visible'[d]
                        /\ d \in S => index'[d] = {}
                        /\ d \notin S => index'[d] = index[d]
    BY <2>1, <2>2 DEF DeleteByQuery
  <2>4. /\ maintQ' = maintQ /\ docRow' = docRow /\ wjob'[w] = wjob[w]
        /\ Purging(w) /\ Purging(w)'
        /\ wpc'[w] \notin IngestStates
        /\ \/ PurgeChunks(w) /\ wpc'[w] = "purgeObject"
           \/ PurgeRagChunks(w) /\ wpc'[w] = "purgeRagObjects"
    BY <1>5 DEF PurgeChunks, PurgeRagChunks, queues, rows, docRows, Purging, PurgeStates, IngestStates
  <2>5. PurgePhase(w)'
    BY <2>1, <2>3, <2>4 DEF PurgePhase, PurgeRagStates, PurgeStates, PurgeDocStates, DocsOf
  <2>6. \A d \in Docs : Unloaded(d) => Unloaded(d)'
    BY <1>0, <2>3, <2>4 DEF Unloaded
  <2> QED
    BY <1>2, <2>3, <2>4, <2>5, <2>6
<1>6. CASE PurgeRagObjects(w) \/ PurgeRagIcon(w)
  <2>1. /\ UNCHANGED <<maintQ, docRow, index, visible>> /\ wjob'[w] = wjob[w]
        /\ wpc[w] \in PurgeRagStates \ {"purgeRagChunks"} /\ wpc'[w] \in PurgeRagStates \ {"purgeRagChunks"}
    BY <1>6 DEF PurgeRagObjects, PurgeRagIcon, queues, rows, docRows, search, PurgeRagStates, PurgeStates,
                PurgeDocStates
  <2>2. PurgePhase(w)' /\ Purging(w)'
    BY <2>1 DEF PurgeInv, PurgePhase, Purging, PurgeRagStates, PurgeStates, PurgeDocStates, DocsOf
  <2>3. \A d \in Docs : Unloaded(d) => Unloaded(d)'
    BY <1>0, <2>1 DEF Unloaded, PurgeRagStates, PurgeStates, PurgeDocStates, IngestStates
  <2>4. \A d \in Docs : index'[d] = visible'[d]
    BY <1>1, <2>1 DEF PurgeRagStates, PurgeStates, PurgeDocStates
  <2> QED
    BY <1>2, <2>1, <2>2, <2>3, <2>4
<1>7. CASE PurgeObject(w) \/ PurgeRagRow(w)
  <2>1. /\ maintQ' = maintQ /\ index' = index /\ visible' = visible /\ wpc'[w] = "idle"
        /\ wpc[w] \in {"purgeObject", "purgeRagRow"}
    BY <1>7 DEF PurgeObject, PurgeRagRow, queues, search
  <2>2. \A d \in Docs : index'[d] = {} => Unloaded(d)'
    BY <1>0, <2>1 DEF Unloaded, IngestStates
  <2>3. \A d \in Docs : wjob[w] \in {d, RagOf[d]} => Unloaded(d)'
    <3>1. CASE PurgeObject(w)
      <4>1. wjob[w] \in Docs /\ index[wjob[w]] = {}
        BY <3>1 DEF PurgeObject, WorkerShape, PurgeDocStates, PurgeInv, PurgePhase
      <4> QED
        BY <2>1, <2>2, <4>1, StoresAssumption
    <3>2. CASE PurgeRagRow(w)
      <4>1. wjob[w] \in Rags /\ \A d \in DocsOf(wjob[w]) : index[d] = {}
        BY <3>2 DEF PurgeRagRow, WorkerShape, PurgeDocStates, PurgeRagStates, PurgeStates, PurgeInv, PurgePhase
      <4> QED
        BY <2>1, <2>2, <4>1, StoresAssumption DEF DocsOf
    <3> QED
      BY <1>7, <3>1, <3>2
  <2>4. \A d \in Docs : docRow'[d] = "deleted" => docRow[d] = "deleted" \/ wjob[w] = RagOf[d]
    BY <1>7 DEF PurgeObject, PurgeRagRow, DeleteDocuments, DocsOf, rows, docRows
  <2>5. \A d \in Docs : Unloaded(d) => Unloaded(d)'
    BY <2>1, <2>2 DEF Unloaded
  <2>6. PurgePhase(w)' /\ \A d \in Docs : index'[d] = visible'[d]
    BY <1>1, <2>1 DEF PurgePhase, PurgeRagStates, PurgeStates, PurgeDocStates
  <2> QED
    BY <1>2, <2>1, <2>3, <2>4, <2>5, <2>6
<1>8. CASE ImportStep(w) \/ WorkerError(w)
  <2>1. wpc[w] \in ImportStates /\ wpc'[w] \in ImportStates \cup {"idle"}
    BY <1>8 DEF ImportStep, OpenBatch, PlanItems, LookupItem, PutItem, InsertItem, EnqueueItem, RecordItem,
                FinishBatch, FailBatch, Unstage, WorkerError, ImportStates
  <2>2. UNCHANGED <<maintQ, index, visible>>
    BY <1>8 DEF ImportStep, OpenBatch, PlanItems, LookupItem, PutItem, InsertItem, EnqueueItem, RecordItem,
                FinishBatch, FailBatch, Unstage, WorkerError, queues, search, stores
  <2>3. \A d \in Docs : docRow'[d] = "deleted" => docRow[d] = "deleted"
    BY <1>8 DEF ImportStep, OpenBatch, PlanItems, LookupItem, PutItem, InsertItem, InsertDocuments,
                EnqueueItem, RecordItem, FinishBatch, FailBatch, Unstage, WorkerError, rows, docRows, stores
  <2>4. ~Purging(w) /\ PurgePhase(w)' /\ wpc[w] # "refresh"
    BY <2>1 DEF Purging, PurgePhase, PurgeRagStates, PurgeStates, PurgeDocStates, ImportStates
  <2>5. \A d \in Docs : Unloaded(d) => Unloaded(d)'
    BY <1>0, <2>1, <2>2 DEF Unloaded, IngestStates, ImportStates
  <2> QED
    BY <1>1, <1>2, <2>2, <2>3, <2>4, <2>5
<1>9. ~LoadBreaks(w) /\ ~Crash(w)
  BY DEF LoadBreaks, Crash
<1> QED
  BY <1>3, <1>4, <1>5, <1>6, <1>7, <1>8, <1>9 DEF WorkerStep, JobStep, JobFault

\* A purge leaves no chunk in the index for a search to find, where one worker
\* runs the jobs, refreshes the index after it loaded a document, and no job or
\* request breaks off: a document that is deleted while it is being indexed is
\* indexed first and purged after.
THEOREM PurgesLeaveNoChunks ==
  ASSUME {"api", "crash", "worker", "purge"} \cap Faults = {}, RefreshAfterLoad,
         \A v, u \in Workers : v = u
  PROVE  Spec => []PurgeLeavesNoChunks
<1>1. Init => PurgeInv
  BY DEF Init, StoresInit, WorkerInit, PurgeInv, PurgePhase, PurgeRagStates, PurgeStates, PurgeDocStates
<1>2. IInv /\ PurgeInv /\ [Next]_vars => PurgeInv'
  <2> SUFFICES ASSUME IInv, PurgeInv, [Next]_vars
               PROVE  PurgeInv'
    OBVIOUS
  <2>1. Typed /\ Sound
    BY ShapeIsTyped DEF IInv
  <2>2. CASE (PeriodicRefresh /\ UNCHANGED <<apiVars, workerVars>>) \/ UNCHANGED vars
    <3>1. UNCHANGED <<docRow, maintQ, apiVars, workerVars, index>> /\ visible' \in {visible, index}
      BY <2>2 DEF PeriodicRefresh, RefreshIndex, vars, stores, rows, docRows, queues, search
    <3>2. \A d \in Docs : (PurgeAhead(d) => PurgeAhead(d)') /\ (Unloaded(d) => Unloaded(d)')
      BY <3>1 DEF PurgeAhead, Purging, Unloaded, apiVars, workerVars
    <3>3. \A w \in Workers : PurgePhase(w)'
      BY <3>1 DEF PurgeInv, PurgePhase, DocsOf, workerVars
    <3> QED
      BY <3>1, <3>2, <3>3 DEF PurgeInv, workerVars
  <2> QED
    BY <2>1, <2>2, RequestsKeepPurges, JobsKeepPurges DEF Next
<1>3. PurgeInv => PurgeLeavesNoChunks
  BY DEF PurgeInv, Unloaded, PurgeLeavesNoChunks
<1> QED
  BY <1>1, <1>2, <1>3, Invariance, PTL DEF Spec
=============================================================================
