------------------------ MODULE IngestServiceProofs -------------------------
(***************************************************************************)
(* RowHasObject and JobFollowsRow, and where no process dies half-way also *)
(* NoForgottenDocument, for every number of sets, documents, requests and  *)
(* workers.                                                                *)
(*                                                                         *)
(* The argument is one of rely and guarantee.  A process moves alone and   *)
(* touches only what it has in hand, Gentle; such a move leaves every      *)
(* other process sound, RequestMoveIsSound and WorkerMoveIsSound.  What is *)
(* left for each action is to show that it is such a move.                 *)
(***************************************************************************)
EXTENDS IngestServiceShape

\* What Shape says of the state Sound is about.
Typed == RowsTypeOK /\ BlobsTypeOK /\ QueuesTypeOK /\ ApiShape /\ JobShape

\* No row comes back: not that of a set, once removed or hidden, nor that of
\* a document, whatever a worker still writes about it.
RowsGoForward ==
  /\ \A g \in Rags : /\ ragRow[g] # "none" => ragRow'[g] # "none"
                     /\ Hidden(g) => Hidden(g)'
  /\ \A d \in Docs : /\ docRow[d] # "none" => docRow'[d] # "none"
                     /\ docRow[d] = "deleted" => docRow'[d] = "deleted"

\* A step of a process with the documents S in hand.
Gentle(S) ==
  /\ RowsGoForward
  /\ issued \subseteq issued'
  /\ \A d \in issued' \ issued : ragRow'[RagOf[d]] # "none"
  /\ \A d \in Docs : docRow[d] = "none" /\ docRow'[d] # "none" => d \in S \cap issued /\ Backed(d)
  /\ \A d \in objects \ objects' : \/ d \in S /\ docRow'[d] = "none"
                                   \/ docRow[d] = "deleted"
                                   \/ Hidden(RagOf[d])
  /\ \A d \in ingestQ' \ ingestQ : docRow'[d] # "none"
  /\ \A job \in maintQ' \ maintQ : JobIsSafe(job)'

\* Request r moves, gently, and is sound after it.  What it takes in hand has
\* just been drawn.
RequestMove(r) ==
  /\ UNCHANGED workerVars
  /\ \A q \in Requests \ {r} : apc'[q] = apc[q] /\ aset'[q] = aset[q] /\ adocs'[q] = adocs[q]
  /\ Gentle(InHand(r))
  /\ InHand(r)' \cap issued \subseteq InHand(r)
  /\ RequestIsSound(r)'

\* So does worker w.
WorkerMove(w) ==
  /\ UNCHANGED apiVars
  /\ \A v \in Workers \ {w} : wpc'[v] = wpc[v] /\ wjob'[v] = wjob[v] /\ witem'[v] = witem[v]
  /\ Gentle(InImport(w))
  /\ InImport(w)' \cap issued \subseteq InImport(w)
  /\ WorkerIsSound(w)'

-----------------------------------------------------------------------------
(* A gentle step leaves everybody else sound.                              *)

\* A visible document keeps its object: its row was there, or is new and backed.
LEMMA GentleKeepsObjects ==
  ASSUME Typed, RowHasObject, DrawnBeforeUse, NEW S, Gentle(S)
  PROVE  RowHasObject'
<1> SUFFICES ASSUME NEW d \in Docs \ Foreign, Live(d)', Alive(RagOf[d])'
             PROVE  d \in objects'
  BY DEF RowHasObject
<1>1. docRow'[d] \in LiveStates /\ ragRow'[RagOf[d]] = "alive" /\ RagOf[d] \in Rags
  BY StoresAssumption DEF Live, Alive
<1>2. docRow[d] # "deleted" /\ ~Hidden(RagOf[d])
  BY <1>1 DEF Gentle, RowsGoForward, Hidden, LiveStates
<1>3. RagOf[d] \in Rags /\ ragRow[RagOf[d]] \in RagStates /\ docRow[d] \in DocStates
  BY StoresAssumption DEF Typed, RowsTypeOK
<1>4. d \in issued
  BY <1>1 DEF DrawnBeforeUse, Gentle, LiveStates
<1>5. Alive(RagOf[d])
  BY <1>2, <1>3, <1>4 DEF DrawnBeforeUse, Alive, Hidden, RagStates
<1>6. d \in objects
  <2>1. CASE docRow[d] = "none"
    BY <1>1, <1>5, <2>1 DEF Gentle, Backed, LiveStates
  <2>2. CASE docRow[d] # "none"
    BY <1>2, <1>3, <1>5, <2>2 DEF RowHasObject, Live, DocStates
  <2> QED
    BY <2>1, <2>2
<1> QED
  BY <1>1, <1>2, <1>6 DEF Gentle, LiveStates

\* A new row belongs to a document in hand, which has been drawn.
LEMMA GentleKeepsDrawn ==
  ASSUME Typed, DrawnBeforeUse, NEW S, Gentle(S)
  PROVE  DrawnBeforeUse'
BY StoresAssumption DEF DrawnBeforeUse, Gentle, RowsGoForward, Typed, BlobsTypeOK

\* Rows go forward, so a queued job stays as safe as it was.
LEMMA GentleKeepsQueues ==
  ASSUME Typed, QueuesAreSound, NEW S, Gentle(S)
  PROVE  QueuesAreSound'
BY StoresAssumption
DEF QueuesAreSound, JobIsSafe, Hidden, Gentle, RowsGoForward, Typed, QueuesTypeOK

\* A document in somebody else's hands stays without a row, and with its object.
LEMMA GentleKeepsHands ==
  ASSUME Typed, DrawnBeforeUse, NEW S, Gentle(S), NEW d \in Docs \ S, Unregistered(d)
  PROVE  Unregistered(d)' /\ (Backed(d) => Backed(d)')
<1>1. Unregistered(d)'
  BY DEF Unregistered, Gentle
<1>2. ASSUME Backed(d), d \notin Foreign, Alive(RagOf[d])'
      PROVE  d \in objects'
  <2>1. RagOf[d] \in Rags /\ ragRow[RagOf[d]] \in RagStates
    BY StoresAssumption DEF Typed, RowsTypeOK
  <2>2. Alive(RagOf[d])
    BY <1>2, <2>1 DEF DrawnBeforeUse, Unregistered, Gentle, RowsGoForward, Alive, Hidden, RagStates
  <2> QED
    BY <1>2, <2>2 DEF Unregistered, Backed, Gentle, Alive, Hidden
<1> QED
  BY <1>1, <1>2 DEF Backed

\* A request that does not move, and has none of S in hand, stays sound.
LEMMA GentleKeepsRequest ==
  ASSUME Typed, DrawnBeforeUse, NEW S, Gentle(S),
         NEW q \in Requests, RequestIsSound(q), InHand(q) \cap S = {},
         apc'[q] = apc[q], aset'[q] = aset[q], adocs'[q] = adocs[q]
  PROVE  RequestIsSound(q)'
<1>1. adocs[q] \subseteq Docs
      /\ (apc[q] \in BatchStates => aset[q] \in Batches /\ BatchRag[aset[q]] \in Rags)
      /\ (apc[q] \notin BatchStates \cup {"idle"} => aset[q] \in Rags)
  BY StoresAssumption DEF Typed, ApiShape, ApiTypeOK, RequestShape
<1>2. InHand(q)' = InHand(q) /\ InHand(q) \subseteq Docs
  BY <1>1 DEF InHand
<1>3. \A d \in InHand(q) : Unregistered(d)' /\ Backed(d)'
  BY <1>2, GentleKeepsHands DEF RequestIsSound
<1> QED
  BY <1>1, <1>2, <1>3 DEF RequestIsSound, Gentle, RowsGoForward, RegisterStates, BatchStates, Hidden

\* So does a worker.
LEMMA GentleKeepsWorker ==
  ASSUME Typed, DrawnBeforeUse, NEW S, Gentle(S),
         NEW v \in Workers, WorkerIsSound(v), InImport(v) \cap S = {},
         wpc'[v] = wpc[v], wjob'[v] = wjob[v], witem'[v] = witem[v]
  PROVE  WorkerIsSound(v)'
<1>1. /\ Indexing(v) => wjob[v] \in Docs
      /\ wpc[v] \in ItemStates => witem[v] \in Docs
      /\ wjob[v] \in Batches => BatchRag[wjob[v]] \in Rags
  BY StoresAssumption DEF Typed, JobShape, WorkerTypeOK, WorkerShape, Indexing
<1>2. InImport(v)' = InImport(v) /\ InImport(v) \subseteq Docs
  BY <1>1 DEF InImport, ItemStates
<1>3. \A d \in InImport(v) : Unregistered(d)' /\ (Backed(d) => Backed(d)')
  BY <1>2, GentleKeepsHands DEF WorkerIsSound
<1>4. JobIsSafe(wjob[v]) => JobIsSafe(wjob[v])'
  BY <1>1 DEF JobIsSafe, Hidden, Gentle, RowsGoForward
<1> QED
  BY <1>1, <1>2, <1>3, <1>4 DEF WorkerIsSound, Indexing, Gentle, RowsGoForward, ItemStates

\* The move of a request keeps Sound: everybody else stays sound, and what it
\* took in hand was in no other hand.
LEMMA RequestMoveIsSound ==
  ASSUME Typed, Sound, NEW r \in Requests, RequestMove(r)
  PROVE  Sound'
<1>1. RowHasObject' /\ DrawnBeforeUse' /\ QueuesAreSound'
  BY GentleKeepsObjects, GentleKeepsDrawn, GentleKeepsQueues DEF Sound, RequestMove
<1>2. \A q \in Requests : RequestIsSound(q)'
  BY GentleKeepsRequest DEF Sound, HandsAreDisjoint, RequestMove
<1>3. \A v \in Workers : WorkerIsSound(v)'
  BY GentleKeepsWorker DEF Sound, HandsAreDisjoint, RequestMove, workerVars, importVars
<1>4. /\ \A q \in Requests \ {r} : InHand(q)' = InHand(q) /\ InHand(q) \subseteq issued
      /\ \A v \in Workers : InImport(v)' = InImport(v) /\ InImport(v) \subseteq issued
  BY DEF Sound, RequestIsSound, WorkerIsSound, Unregistered, RequestMove, InHand, InImport,
         workerVars, importVars
<1>5. HandsAreDisjoint'
  BY <1>4 DEF Sound, HandsAreDisjoint, RequestMove
<1> QED
  BY <1>1, <1>2, <1>3, <1>5 DEF Sound

\* So does the move of a worker.
LEMMA WorkerMoveIsSound ==
  ASSUME Typed, Sound, NEW w \in Workers, WorkerMove(w)
  PROVE  Sound'
<1>1. RowHasObject' /\ DrawnBeforeUse' /\ QueuesAreSound'
  BY GentleKeepsObjects, GentleKeepsDrawn, GentleKeepsQueues DEF Sound, WorkerMove
<1>2. \A q \in Requests : RequestIsSound(q)'
  BY GentleKeepsRequest DEF Sound, HandsAreDisjoint, WorkerMove, apiVars
<1>3. \A v \in Workers : WorkerIsSound(v)'
  BY GentleKeepsWorker DEF Sound, HandsAreDisjoint, WorkerMove
<1>4. /\ \A q \in Requests : InHand(q)' = InHand(q) /\ InHand(q) \subseteq issued
      /\ \A v \in Workers \ {w} : InImport(v)' = InImport(v) /\ InImport(v) \subseteq issued
  BY DEF Sound, RequestIsSound, WorkerIsSound, Unregistered, WorkerMove, InHand, InImport, apiVars
<1>5. HandsAreDisjoint'
  BY <1>4 DEF Sound, HandsAreDisjoint, WorkerMove
<1> QED
  BY <1>1, <1>2, <1>3, <1>5 DEF Sound

\* A step that leaves rows, identifiers, objects and queues alone is gentle.
LEMMA QuietIsGentle ==
  ASSUME NEW S, UNCHANGED <<ragRow, docRow, issued, objects, queues>>
  PROVE  Gentle(S)
BY DEF Gentle, RowsGoForward, Hidden, queues

-----------------------------------------------------------------------------
(* The steps of the API are such steps.                                    *)

\* A call starts with nothing in hand but, for a bucket import, fresh
\* references to foreign objects.
LEMMA OpeningMoves ==
  ASSUME Typed, Sound, UNCHANGED workerVars, NEW r \in Requests,
         \/ \E g \in Rags : \/ StartUpload(r, g) \/ StartDeleteRag(r, g) \/ StartIcon(r, g)
                            \/ \E S \in SUBSET Foreign :
                                 StartBucket(r, g, S) \/ CreateFromBucket(r, g, S)
         \/ \E d \in Docs : StartDelete(r, d)
         \/ \E b \in Batches : StartArchive(r, b) \/ ImportFromStaging(r, b)
  PROVE  RequestMove(r)
<1> USE DEF Open, RequestMove, RequestIsSound, InHand, RegisterStates, BatchStates,
            Typed, ApiShape, ApiTypeOK
<1>1. ASSUME NEW g \in Rags, StartUpload(r, g) \/ StartDeleteRag(r, g) \/ StartIcon(r, g)
      PROVE  RequestMove(r)
  BY <1>1, QuietIsGentle
  DEF StartUpload, StartDeleteRag, StartIcon, Alive, stores, rows, ragRows, docRows, blobs
<1>2. ASSUME NEW d \in Docs, StartDelete(r, d)
      PROVE  RequestMove(r)
  BY <1>2, QuietIsGentle DEF StartDelete, Live, LiveStates, stores, rows, ragRows, docRows, blobs
<1>3. ASSUME NEW g \in Rags, NEW S \in SUBSET Foreign,
             StartBucket(r, g, S) \/ CreateFromBucket(r, g, S)
      PROVE  RequestMove(r)
  <2>1. S \subseteq Docs /\ S \cap issued = {} /\ \A d \in S : RagOf[d] = g
    BY <1>3 DEF StartBucket, CreateFromBucket, FreshForeign, DocsOf
  <2>2. \A d \in S : docRow[d] = "none"
    BY <2>1 DEF Sound, DrawnBeforeUse
  <2>3. ragRow'[g] # "none" /\ docRow' = docRow /\ issued' = issued \cup S
    BY <1>3 DEF StartBucket, CreateFromBucket, Alive, rows, ragRows, docRows, RowsTypeOK
  <2>4. Gentle(InHand(r))
    BY <1>3, <2>1, <2>3
    DEF StartBucket, CreateFromBucket, Gentle, RowsGoForward, Hidden, rows, ragRows, docRows,
        queues, RowsTypeOK
  <2> QED
    BY <1>3, <2>1, <2>2, <2>3, <2>4
    DEF StartBucket, CreateFromBucket, Unregistered, Backed
<1>4. ASSUME NEW b \in Batches, StartArchive(r, b) \/ ImportFromStaging(r, b)
      PROVE  RequestMove(r)
  BY <1>4, QuietIsGentle
  DEF StartArchive, ImportFromStaging, Alive, ragRows, docRows, blobs
<1> QED
  BY <1>1, <1>2, <1>3, <1>4

\* Registering: an object under a new identifier, then its row, then its job.
LEMMA RegisteringMoves ==
  ASSUME Typed, Sound, UNCHANGED workerVars, NEW r \in Requests,
         \/ \E d \in Docs : PutObject(r, d) \/ EnqueueIngest(r, d)
         \/ RejectOverQuota(r) \/ LookupHash(r) \/ DiscardDuplicate(r)
         \/ InsertRows(r) \/ RecordJobs(r) \/ FinishUpload(r)
  PROVE  RequestMove(r)
<1> USE DEF Goto, Respond, RequestMove, RequestIsSound, InHand, RegisterStates, BatchStates,
            Typed, ApiShape, ApiTypeOK
<1>0. RequestIsSound(r)
  BY DEF Sound
<1>1. ASSUME NEW d \in Docs, PutObject(r, d)
      PROVE  RequestMove(r)
  <2>1. docRow[d] = "none" /\ ragRow[RagOf[d]] # "none"
    BY <1>0, <1>1 DEF PutObject, Sound, DrawnBeforeUse
  <2>2. Gentle(InHand(r))
    BY <1>1, <2>1
    DEF PutObject, Gentle, RowsGoForward, Hidden, rows, ragRows, docRows, queues
  <2> QED
    BY <1>0, <1>1, <2>1, <2>2 DEF PutObject, Unregistered, Backed, rows, ragRows, docRows
<1>2. CASE RejectOverQuota(r) \/ DiscardDuplicate(r)
  <2>1. Gentle(InHand(r))
    BY <1>0, <1>2
    DEF RejectOverQuota, DiscardDuplicate, Gentle, RowsGoForward, Hidden, Unregistered,
        rows, ragRows, docRows, queues
  <2> QED
    BY <1>0, <1>2, <2>1 DEF RejectOverQuota, DiscardDuplicate, rows, ragRows, docRows
<1>3. CASE LookupHash(r)
  BY <1>0, <1>3, QuietIsGentle
  DEF LookupHash, Unregistered, Backed, Alive, stores, rows, ragRows, docRows, blobs
<1>4. CASE InsertRows(r)
  <2>1. Gentle(InHand(r))
    BY <1>0, <1>4
    DEF InsertRows, InsertDocuments, Gentle, RowsGoForward, Hidden, Unregistered, docRows, ragRows,
        blobs, queues
  <2> QED
    BY <1>0, <1>4, <2>1 DEF InsertRows, InsertDocuments, ragRows
<1>5. ASSUME NEW d \in Docs, EnqueueIngest(r, d)
      PROVE  RequestMove(r)
  <2>1. Gentle(InHand(r))
    BY <1>0, <1>5
    DEF EnqueueIngest, Gentle, RowsGoForward, Hidden, rows, ragRows, docRows, blobs
  <2> QED
    BY <1>0, <1>5, <2>1 DEF EnqueueIngest, rows, ragRows, docRows
<1>6. CASE RecordJobs(r)
  BY <1>0, <1>6, QuietIsGentle DEF RecordJobs, ragRows, blobs
<1>7. CASE FinishUpload(r)
  BY <1>7, QuietIsGentle DEF FinishUpload, stores, rows, ragRows, docRows, blobs
<1> QED
  BY <1>1, <1>2, <1>3, <1>4, <1>5, <1>6, <1>7

\* Deleting: the row goes, or the set is hidden, before the purge is enqueued.
LEMMA DeletingMoves ==
  ASSUME Typed, Sound, UNCHANGED workerVars, NEW r \in Requests,
         DeleteRow(r) \/ EnqueuePurge(r) \/ SoftDelete(r) \/ EnqueuePurgeRag(r)
  PROVE  RequestMove(r)
<1> USE DEF Goto, Respond, RequestMove, RequestIsSound, InHand, RegisterStates, BatchStates,
            Typed, ApiShape, ApiTypeOK
<1>0. RequestIsSound(r)
  BY DEF Sound
<1>1. CASE DeleteRow(r)
  <2>1. /\ \A d \in Docs : docRow[d] = "none" => docRow'[d] = "none"
        /\ \A d \in Docs : docRow[d] # "none" => docRow'[d] # "none"
        /\ \A d \in Docs : docRow[d] = "deleted" => docRow'[d] = "deleted"
        /\ \A d \in adocs[r] : docRow'[d] = "deleted"
    BY <1>0, <1>1 DEF DeleteRow, DeleteDocuments, Live, LiveStates, RowsTypeOK, DocStates
  <2>2. Gentle(InHand(r))
    BY <1>1, <2>1 DEF DeleteRow, Gentle, RowsGoForward, Hidden, ragRows, blobs, queues
  <2> QED
    BY <1>1, <2>1, <2>2 DEF DeleteRow
<1>2. CASE EnqueuePurge(r)
  <2>1. Gentle(InHand(r))
    BY <1>0, <1>2, StoresAssumption
    DEF EnqueuePurge, Gentle, RowsGoForward, Hidden, JobIsSafe, rows, ragRows, docRows, blobs
  <2> QED
    BY <1>2, <2>1 DEF EnqueuePurge
<1>3. CASE SoftDelete(r)
  <2>1. aset[r] \in Rags /\ ragRow[aset[r]] # "none"
    BY <1>0, <1>3 DEF SoftDelete, RequestShape
  <2>2. Hidden(aset[r])' /\ \A g \in Rags : g # aset[r] => ragRow'[g] = ragRow[g]
    BY <1>3, <2>1 DEF SoftDelete, Hidden, RowsTypeOK, RagStates
  <2>3. Gentle(InHand(r))
    BY <1>3, <2>1, <2>2 DEF SoftDelete, Gentle, RowsGoForward, Hidden, docRows, blobs, queues
  <2> QED
    BY <1>3, <2>2, <2>3 DEF SoftDelete
<1>4. CASE EnqueuePurgeRag(r)
  <2>1. Gentle(InHand(r))
    BY <1>0, <1>4, StoresAssumption
    DEF EnqueuePurgeRag, RequestShape, Gentle, RowsGoForward, Hidden, JobIsSafe, rows, ragRows,
        docRows, blobs
  <2> QED
    BY <1>4, <2>1 DEF EnqueuePurgeRag
<1> QED
  BY <1>1, <1>2, <1>3, <1>4

\* Icons, staged archives and failures touch neither rows nor objects.
LEMMA StagingMoves ==
  ASSUME Typed, Sound, UNCHANGED workerVars, NEW r \in Requests,
         \/ PutIconObject(r) \/ SetIconKey(r)
         \/ StageArchive(r) \/ RefuseArchive(r) \/ EnqueueBatch(r) \/ ApiError(r)
  PROVE  RequestMove(r)
<1> USE DEF Goto, Respond, RequestMove, RequestIsSound, InHand, RegisterStates, BatchStates,
            Typed, ApiShape, ApiTypeOK
<1>0. RequestIsSound(r)
  BY DEF Sound
<1>1. CASE PutIconObject(r) \/ SetIconKey(r)
  BY <1>0, <1>1, QuietIsGentle DEF PutIconObject, SetIconKey, rows, ragRows, docRows, blobs
<1>2. CASE StageArchive(r)
  BY <1>0, <1>2, QuietIsGentle DEF StageArchive, rows, ragRows, docRows
<1>3. CASE EnqueueBatch(r)
  <2>1. Gentle(InHand(r))
    BY <1>0, <1>3, StoresAssumption
    DEF EnqueueBatch, RequestShape, Gentle, RowsGoForward, Hidden, JobIsSafe, rows, ragRows,
        docRows, blobs
  <2> QED
    BY <1>3, <2>1 DEF EnqueueBatch
<1>4. CASE RefuseArchive(r) \/ ApiError(r)
  BY <1>4, QuietIsGentle DEF RefuseArchive, ApiError, stores, rows, ragRows, docRows, blobs
<1> QED
  BY <1>1, <1>2, <1>3, <1>4

\* The API keeps Sound, and moves rows forward.
LEMMA ApiKeepsSound ==
  ASSUME Typed, Sound, ApiNext, UNCHANGED workerVars
  PROVE  Sound' /\ RowsGoForward
<1>1. ASSUME NEW g \in Rags, CreateRag(g)
      PROVE  Sound' /\ RowsGoForward
  <2>1. Gentle({})
    BY <1>1 DEF CreateRag, Gentle, RowsGoForward, Hidden, Typed, RowsTypeOK, docRows, blobs, queues
  <2>2. \A q \in Requests : RequestIsSound(q)'
    BY <1>1, <2>1, GentleKeepsRequest DEF CreateRag, Sound, apiVars
  <2>3. \A v \in Workers : WorkerIsSound(v)'
    BY <2>1, GentleKeepsWorker DEF Sound, workerVars, importVars
  <2>4. HandsAreDisjoint'
    BY <1>1 DEF CreateRag, Sound, HandsAreDisjoint, InHand, InImport, apiVars, workerVars, importVars
  <2> QED
    BY <2>1, <2>2, <2>3, <2>4, GentleKeepsObjects, GentleKeepsDrawn, GentleKeepsQueues
    DEF Sound, Gentle
<1>2. ASSUME NEW r \in Requests, RequestMove(r)
      PROVE  Sound' /\ RowsGoForward
  BY <1>2, RequestMoveIsSound DEF RequestMove, Gentle
<1> QED
  BY <1>1, <1>2, OpeningMoves, RegisteringMoves, DeletingMoves, StagingMoves
  DEF ApiNext, ApiContinue

-----------------------------------------------------------------------------
(* So are the steps of the workers.                                        *)

\* Indexing writes only about a document whose row is there, or was there:
\* an UPDATE that comes too late finds no row.
LEMMA IndexingMoves ==
  ASSUME Typed, Sound, UNCHANGED apiVars, NEW w \in Workers,
         \/ \E d \in Docs : TakeIngest(w, d)
         \/ BeginIngest(w) \/ Convert(w) \/ Load(w) \/ Refresh(w)
         \/ MarkSuccess(w) \/ MarkFailed(w) \/ LoadBreaks(w)
  PROVE  WorkerMove(w)
<1> USE DEF Proceed, Take, Release, WorkerMove, WorkerIsSound, InImport, Indexing, IngestStates,
            PurgeStates, ImportStates, Typed, JobShape, WorkerTypeOK, importVars
<1>0. WorkerIsSound(w) /\ (Indexing(w) => wjob[w] \in Docs)
  BY DEF Sound, WorkerShape
<1>1. ASSUME NEW d \in Docs, TakeIngest(w, d)
      PROVE  WorkerMove(w)
  <2>1. docRow[d] # "none"
    BY <1>1 DEF TakeIngest, Sound, QueuesAreSound
  <2>2. Gentle(InImport(w))
    BY <1>1 DEF TakeIngest, Gentle, RowsGoForward, Hidden, rows, ragRows, docRows, blobs
  <2> QED
    BY <1>1, <2>1, <2>2 DEF TakeIngest, rows, docRows
<1>2. CASE BeginIngest(w)
  <2>1. wjob[w] \in Docs
    BY <1>0, <1>2 DEF BeginIngest
  <2>2. \/ UNCHANGED docRow
        \/ Live(wjob[w]) /\ docRow' = [docRow EXCEPT ![wjob[w]] = "processing"]
    BY <1>2 DEF BeginIngest, BeginDocument, docRows
  <2>3. Gentle(InImport(w))
    BY <1>2, <2>1, <2>2
    DEF BeginIngest, Gentle, RowsGoForward, Hidden, Live, LiveStates, RowsTypeOK, ragRows, blobs, queues
  <2> QED
    BY <1>0, <1>2, <2>1, <2>3 DEF BeginIngest, Gentle, RowsGoForward
<1>3. CASE Convert(w) \/ Load(w) \/ Refresh(w) \/ LoadBreaks(w)
  <2>1. \/ wpc'[w] = "idle"
        \/ wpc'[w] \in IngestStates /\ wpc[w] \in IngestStates
    BY <1>3 DEF Convert, Load, Refresh, LoadBreaks
  <2>2. UNCHANGED <<ragRow, docRow, issued, objects, queues, wjob, witem>>
    BY <1>3 DEF Convert, Load, Refresh, LoadBreaks, stores, rows, ragRows, docRows, blobs, queues
  <2>3. \A v \in Workers \ {w} : wpc'[v] = wpc[v]
    BY <1>3 DEF Convert, Load, Refresh, LoadBreaks
  <2> QED
    BY <1>0, <2>1, <2>2, <2>3, QuietIsGentle
<1>4. CASE MarkSuccess(w) \/ MarkFailed(w)
  <2>1. wjob[w] \in Docs
    BY <1>0, <1>4 DEF MarkSuccess, MarkFailed
  <2>2. \A d \in Docs : \/ docRow'[d] = docRow[d]
                        \/ Live(d) /\ docRow'[d] \in LiveStates
    BY <1>4, <2>1 DEF MarkSuccess, MarkFailed, MarkDocument, RowsTypeOK, LiveStates
  <2>3. Gentle(InImport(w))
    BY <1>4, <2>2
    DEF MarkSuccess, MarkFailed, Gentle, RowsGoForward, Hidden, Live, LiveStates, ragRows, blobs, queues
  <2> QED
    BY <1>4, <2>3 DEF MarkSuccess, MarkFailed
<1> QED
  BY <1>1, <1>2, <1>3, <1>4

\* A purge takes objects only of what is deleted or hidden.
LEMMA PurgingMoves ==
  ASSUME Typed, Sound, UNCHANGED apiVars, NEW w \in Workers,
         \/ \E job \in Docs \cup Rags \cup Batches : TakeMaintenance(w, job)
         \/ PurgeChunks(w) \/ PurgeObject(w)
         \/ PurgeRagChunks(w) \/ PurgeRagObjects(w) \/ PurgeRagIcon(w) \/ PurgeRagRow(w)
         \/ WorkerError(w) \/ Crash(w)
  PROVE  WorkerMove(w)
<1> USE DEF Proceed, Take, Release, WorkerMove, WorkerIsSound, InImport, Indexing, IngestStates,
            PurgeStates, ImportStates, Typed, JobShape, WorkerTypeOK, importVars
<1>0. WorkerIsSound(w)
  BY DEF Sound
<1>1. ASSUME NEW job \in Docs \cup Rags \cup Batches, TakeMaintenance(w, job)
      PROVE  WorkerMove(w)
  <2>1. JobIsSafe(job)
    BY <1>1 DEF TakeMaintenance, Sound, QueuesAreSound
  <2>2. Gentle(InImport(w))
    BY <1>1 DEF TakeMaintenance, Gentle, RowsGoForward, Hidden, rows, ragRows, docRows, blobs
  <2>3. wpc'[w] \in {"purgeChunks", "purgeRagChunks", "openBatch"} /\ wjob'[w] = job
    BY <1>1 DEF TakeMaintenance
  <2> QED
    BY <1>1, <2>1, <2>2, <2>3 DEF TakeMaintenance, JobIsSafe, Hidden, rows, ragRows, docRows
<1>2. CASE PurgeChunks(w) \/ PurgeRagChunks(w) \/ PurgeRagIcon(w)
  <2>1. UNCHANGED <<ragRow, docRow, issued, objects, queues, wjob, witem>>
    BY <1>2 DEF PurgeChunks, PurgeRagChunks, PurgeRagIcon, rows, ragRows, docRows, blobs
  <2>2. wpc[w] \in PurgeStates /\ wpc' = [wpc EXCEPT ![w] = wpc'[w]] /\ wpc'[w] \in PurgeStates
    BY <1>2 DEF PurgeChunks, PurgeRagChunks, PurgeRagIcon
  <2>3. JobIsSafe(wjob[w])'
    BY <1>0, <2>1, <2>2 DEF JobIsSafe, Hidden
  <2> QED
    BY <2>1, <2>2, <2>3, QuietIsGentle
<1>3. CASE PurgeObject(w)
  <2>1. wjob[w] \in Docs /\ docRow[wjob[w]] = "deleted"
    BY <1>0, <1>3 DEF PurgeObject, WorkerShape, PurgeDocStates, JobIsSafe
  <2>2. Gentle(InImport(w))
    BY <1>3, <2>1
    DEF PurgeObject, Gentle, RowsGoForward, Hidden, rows, ragRows, docRows, queues
  <2> QED
    BY <1>3, <2>2 DEF PurgeObject
<1>4. CASE PurgeRagObjects(w)
  <2>1. wjob[w] \in Rags /\ Hidden(wjob[w])
    BY <1>0, <1>4 DEF PurgeRagObjects, WorkerShape, PurgeDocStates, PurgeRagStates, JobIsSafe
  <2>2. Gentle(InImport(w))
    BY <1>4, <2>1
    DEF PurgeRagObjects, DocsOf, Gentle, RowsGoForward, Hidden, rows, ragRows, docRows, queues
  <2> QED
    BY <1>0, <1>4, <2>2 DEF PurgeRagObjects, JobIsSafe, Hidden, rows, ragRows, docRows
<1>5. CASE PurgeRagRow(w)
  <2>1. wjob[w] \in Rags /\ Hidden(wjob[w])
    BY <1>0, <1>5 DEF PurgeRagRow, WorkerShape, PurgeDocStates, PurgeRagStates, JobIsSafe
  <2>2. \A d \in Docs : docRow'[d] = docRow[d] \/ (docRow[d] # "none" /\ docRow'[d] = "deleted")
    BY <1>5 DEF PurgeRagRow, DeleteDocuments, Live, LiveStates
  <2>3. \A g \in Rags : ragRow'[g] = ragRow[g] \/ ragRow'[g] = "gone"
    BY <1>5 DEF PurgeRagRow, RowsTypeOK
  <2>4. Gentle(InImport(w))
    BY <1>5, <2>2, <2>3 DEF PurgeRagRow, Gentle, RowsGoForward, Hidden, blobs, queues
  <2> QED
    BY <1>5, <2>4 DEF PurgeRagRow
<1>6. CASE WorkerError(w) \/ Crash(w)
  <2>1. UNCHANGED <<ragRow, docRow, issued, objects, queues>>
    BY <1>6 DEF WorkerError, Crash, stores, rows, ragRows, docRows, blobs
  <2>2. CASE Release(w)
    BY <2>1, <2>2, QuietIsGentle
  <2>3. CASE wpc[w] \in IngestStates /\ Proceed(w, "fail", {})
    BY <1>0, <2>1, <2>3, QuietIsGentle
  <2>4. CASE wpc[w] \in ImportStates /\ (Proceed(w, "failBatch", {}) \/ Proceed(w, "unstage", {}))
    <3>1. JobIsSafe(wjob[w])'
      BY <1>0, <2>1, <2>4 DEF JobIsSafe, Hidden
    <3> QED
      BY <2>1, <2>4, <3>1, QuietIsGentle
  <2> QED
    BY <1>6, <2>2, <2>3, <2>4 DEF WorkerError, Crash
<1> QED
  BY <1>1, <1>2, <1>3, <1>4, <1>5, <1>6

\* Importing registers an item the way an upload registers a file.
LEMMA ImportingMoves ==
  ASSUME Typed, Sound, UNCHANGED apiVars, NEW w \in Workers, ImportStep(w)
  PROVE  WorkerMove(w)
<1> USE DEF Working, Release, WorkerMove, WorkerIsSound, InImport, Indexing, IngestStates,
            PurgeStates, ImportStates, Typed, JobShape, WorkerTypeOK, importVars
<1>0. /\ WorkerIsSound(w)
      /\ wjob[w] \in Batches /\ JobIsSafe(wjob[w])
      /\ wpc[w] \in ItemStates => witem[w] \in Docs
  <2>1. wpc[w] \in ImportStates
    BY DEF ImportStep, OpenBatch, PlanItems, LookupItem, PutItem, InsertItem, EnqueueItem, RecordItem,
           FinishBatch, FailBatch, Unstage
  <2> QED
    BY <2>1 DEF Sound, WorkerShape
<1>1. \* the batch stays one whose set had a row
      ASSUME Gentle(InImport(w)), wjob'[w] = wjob[w]
      PROVE  JobIsSafe(wjob[w])'
  BY <1>0, <1>1, StoresAssumption DEF JobIsSafe, Gentle, RowsGoForward
<1>2. CASE OpenBatch(w) \/ PlanItems(w) \/ FinishBatch(w) \/ FailBatch(w) \/ Unstage(w)
  <2>1. UNCHANGED <<ragRow, docRow, issued, objects, queues>>
    BY <1>2 DEF OpenBatch, PlanItems, FinishBatch, FailBatch, Unstage, rows, ragRows, docRows, blobs
  <2>2. Gentle(InImport(w))
    BY <2>1, QuietIsGentle
  <2>3. Release(w) \/ \E pc \in {"plan", "item", "unstage"} : Working(w, pc, None)
    BY <1>2 DEF OpenBatch, PlanItems, FinishBatch, FailBatch, Unstage, Leave
  <2> QED
    BY <1>1, <2>2, <2>3
<1>3. ASSUME NEW d \in Docs, LookupItem(w, d)
      PROVE  WorkerMove(w)
  <2>1. ragRow[RagOf[d]] # "none" /\ docRow[d] = "none"
    BY <1>0, <1>3, StoresAssumption DEF LookupItem, JobIsSafe, Sound, DrawnBeforeUse
  <2>2. Gentle(InImport(w))
    BY <1>3, <2>1 DEF LookupItem, Gentle, RowsGoForward, Hidden, rows, ragRows, docRows, queues
  <2> QED
    BY <1>1, <1>3, <2>1, <2>2 DEF LookupItem, Unregistered, rows, docRows
<1>4. CASE PutItem(w)
  <2>1. Gentle(InImport(w))
    BY <1>4 DEF PutItem, Gentle, RowsGoForward, Hidden, rows, ragRows, docRows, queues
  <2> QED
    BY <1>0, <1>1, <1>4, <2>1 DEF PutItem, Unregistered, Backed, rows, docRows
<1>5. CASE InsertItem(w)
  <2>1. witem[w] \in Docs /\ Unregistered(witem[w]) /\ Backed(witem[w])
    BY <1>0, <1>5 DEF InsertItem, ItemStates
  <2>2. Gentle(InImport(w))
    BY <1>5, <2>1
    DEF InsertItem, InsertDocuments, Unregistered, Gentle, RowsGoForward, Hidden, ragRows, docRows,
        blobs, queues
  <2> QED
    BY <1>1, <1>5, <2>1, <2>2 DEF InsertItem, InsertDocuments
<1>6. CASE EnqueueItem(w)
  <2>1. Gentle(InImport(w))
    BY <1>0, <1>6 DEF EnqueueItem, Gentle, RowsGoForward, Hidden, rows, ragRows, docRows, blobs
  <2> QED
    BY <1>0, <1>1, <1>6, <2>1 DEF EnqueueItem, rows, docRows
<1>7. CASE RecordItem(w)
  <2>1. Gentle(InImport(w))
    BY <1>7, QuietIsGentle DEF RecordItem, ragRows, blobs
  <2>2. wpc' = [wpc EXCEPT ![w] = wpc'[w]] /\ wpc'[w] \in {"item", "failBatch"} /\ wjob' = wjob
    BY <1>7 DEF RecordItem
  <2>3. \A v \in Workers \ {w} : witem'[v] = witem[v]
    BY <1>7 DEF RecordItem
  <2> QED
    BY <1>1, <2>1, <2>2, <2>3
<1> QED
  BY <1>2, <1>3, <1>4, <1>5, <1>6, <1>7 DEF ImportStep

-----------------------------------------------------------------------------
\* Nothing is drawn, queued or in hand at the start.
LEMMA InitSound == Init => Sound
BY DEF Init, StoresInit, ApiInit, WorkerInit, Sound, RowHasObject, DrawnBeforeUse, HandsAreDisjoint,
       QueuesAreSound, RequestIsSound, WorkerIsSound, InHand, InImport, Indexing, Live, LiveStates,
       RegisterStates, BatchStates, IngestStates, PurgeStates, ImportStates

\* Sound reads neither the index nor counters, icons and staging.
LEMMA UnreadState ==
  ASSUME Sound, UNCHANGED <<ragRow, docRow, issued, objects, queues, apiVars, workerVars>>
  PROVE  Sound'
BY DEF Sound, RowHasObject, DrawnBeforeUse, HandsAreDisjoint, QueuesAreSound, RequestIsSound,
       WorkerIsSound, Unregistered, Backed, InHand, InImport, JobIsSafe, Hidden, Indexing, Live,
       Alive, queues, apiVars, workerVars, importVars

\* Every step of the service keeps Sound, and moves rows forward.
LEMMA NextKeepsSound ==
  ASSUME Typed, Sound, [Next]_vars
  PROVE  Sound' /\ RowsGoForward
<1>1. CASE ApiNext /\ UNCHANGED workerVars
  BY <1>1, ApiKeepsSound
<1>2. ASSUME NEW w \in Workers, WorkerStep(w) \/ JobFault(w), UNCHANGED apiVars
      PROVE  Sound' /\ RowsGoForward
  <2>1. WorkerMove(w)
    BY <1>2, IndexingMoves, PurgingMoves, ImportingMoves DEF WorkerStep, JobStep, JobFault
  <2> QED
    BY <2>1, WorkerMoveIsSound DEF WorkerMove, Gentle
<1>3. CASE (PeriodicRefresh /\ UNCHANGED <<apiVars, workerVars>>) \/ UNCHANGED vars
  <2>1. UNCHANGED <<ragRow, docRow, issued, objects, queues, apiVars, workerVars>>
    BY <1>3 DEF PeriodicRefresh, vars, stores, rows, ragRows, docRows, blobs
  <2> QED
    BY <2>1, UnreadState DEF RowsGoForward, Hidden
<1> QED
  BY <1>1, <1>2, <1>3 DEF Next

\* Shape says what NextKeepsSound needs to know.
LEMMA ShapeIsTyped == Shape => Typed
BY ShapeParts DEF Typed

\* IInv is inductive.
LEMMA Invariance == Spec => []IInv
<1>1. Init => IInv
  BY InitShape, InitSound DEF IInv
<1>2. IInv /\ [Next]_vars => IInv'
  BY NextKeepsShape, NextKeepsSound, ShapeIsTyped DEF IInv
<1> QED
  BY <1>1, <1>2, PTL DEF Spec

\* An uploaded or imported document that its owner sees has its object, in
\* every interleaving and after every failure: the object is stored before the
\* row, is not taken back once the row may exist, and a purge is enqueued only
\* after the row is deleted, or the set hidden, for good.
THEOREM VisibleDocumentHasObject == Spec => []RowHasObject
<1>1. IInv => RowHasObject
  BY DEF IInv, Sound
<1> QED
  BY <1>1, Invariance, PTL

\* No worker is given a document whose row was not committed: a worker that
\* finds no row may conclude that the document was deleted.
THEOREM JobsFollowRows == Spec => []JobFollowsRow
<1>1. IInv => JobFollowsRow
  BY DEF IInv, Sound, JobFollowsRow, QueuesAreSound, WorkerIsSound
<1> QED
  BY <1>1, Invariance, PTL

\* No row comes back: a worker that writes its verdict on a document which was
\* deleted meanwhile, or a second request that hides a set already purged,
\* revives neither.
THEOREM RowsNeverReturn == Spec => [][RowsGoForward]_vars
<1>1. IInv /\ [Next]_vars => RowsGoForward
  BY NextKeepsSound, ShapeIsTyped DEF IInv
<1> QED
  BY <1>1, Invariance, PTL DEF Spec
-----------------------------------------------------------------------------
(* Custody: while no process dies, at every moment some request, queue or  *)
(* worker still owes an unsettled document its next step.  Nobody lets go  *)
(* of a document without handing it on, and a row is only inserted by      *)
(* somebody who holds on to it.                                            *)

\* The documents NoForgottenDocument is about.
Unsettled(d) ==
  /\ docRow[d] \in {"pending", "processing"}
  /\ "import" \in Faults => OriginOf[d] = None

\* An import registers documents of its own batch only.
ItemsHaveOrigin == \A w \in Workers : wpc[w] \in ItemStates => OriginOf[witem[w]] # None

CustodyInv == IInv /\ ItemsHaveOrigin /\ NoForgottenDocument

\* What the queue or a request holds stays held while the requests that let go
\* of a document have enqueued it.
LEMMA RequestsKeepHold ==
  ASSUME NEW d \in Docs, Held(d), UNCHANGED workerVars, ingestQ \subseteq ingestQ',
         \A r \in Requests : apc[r] = "enqueue" /\ d \in adocs[r] =>
           \/ apc'[r] = "enqueue" /\ d \in adocs'[r]
           \/ d \in ingestQ'
  PROVE  Held(d)'
BY DEF Held, Indexing, workerVars, importVars

\* A request that has nothing to enqueue, and gives nothing a row, changes
\* nobody's hold.
LEMMA OtherRequestsKeepHold ==
  ASSUME Typed, NEW d \in Docs, Unsettled(d) => Held(d), Unsettled(d)', UNCHANGED workerVars,
         ingestQ' = ingestQ, NEW r \in Requests, apc[r] # "enqueue",
         \A q \in Requests \ {r} : apc'[q] = apc[q] /\ adocs'[q] = adocs[q],
         docRow'[d] \in {docRow[d], "deleted"}
  PROVE  Held(d)'
BY RequestsKeepHold DEF Unsettled

\* A request lets go of a document only when it has enqueued it.
LEMMA RequestHandsOn ==
  ASSUME Typed, "api" \notin Faults, ApiNext, UNCHANGED workerVars,
         NEW d \in Docs, Unsettled(d) => Held(d), Unsettled(d)'
  PROVE  Held(d)'
<1> USE DEF Typed, ApiShape, ApiTypeOK
<1>1. ASSUME NEW r \in Requests, InsertRows(r)
      PROVE  Held(d)'
  <2>1. CASE docRow'[d] = docRow[d]
    BY <1>1, <2>1, OtherRequestsKeepHold DEF InsertRows, Goto, Respond, queues
  <2>2. CASE docRow'[d] # docRow[d]
    <3>1. d \in adocs[r] /\ Goto(r, "enqueue", adocs[r])
      BY <1>1, <2>2 DEF InsertRows, InsertDocuments, docRows
    <3> QED
      BY <3>1 DEF Goto, Held
  <2> QED
    BY <2>1, <2>2
<1>2. ASSUME NEW r \in Requests, NEW e \in Docs, EnqueueIngest(r, e)
      PROVE  Held(d)'
  <2>1. Held(d)
    BY <1>2 DEF EnqueueIngest, Unsettled, rows, docRows
  <2> QED
    BY <1>2, <2>1, RequestsKeepHold DEF EnqueueIngest
<1>3. ASSUME NEW r \in Requests, RecordJobs(r)
      PROVE  Held(d)'
  <2>1. Held(d) /\ d \notin adocs[r]
    BY <1>3 DEF RecordJobs, Unsettled
  <2> QED
    BY <1>3, <2>1, RequestsKeepHold DEF RecordJobs, Respond, queues
<1>4. ASSUME NEW g \in Rags, CreateRag(g)
      PROVE  Held(d)'
  BY <1>4, RequestsKeepHold DEF CreateRag, Unsettled, docRows, queues, apiVars
<1>5. ASSUME NEW r \in Requests,
             \/ \E g \in Rags : \/ StartUpload(r, g) \/ StartDeleteRag(r, g) \/ StartIcon(r, g)
                                \/ \E S \in SUBSET Foreign :
                                     StartBucket(r, g, S) \/ CreateFromBucket(r, g, S)
             \/ \E e \in Docs : StartDelete(r, e)
             \/ \E b \in Batches : StartArchive(r, b) \/ ImportFromStaging(r, b)
      PROVE  Held(d)'
  <2>1. /\ apc[r] = "idle"
        /\ \A q \in Requests \ {r} : apc'[q] = apc[q] /\ adocs'[q] = adocs[q]
        /\ docRow' = docRow /\ ingestQ' = ingestQ
    BY <1>5 DEF StartUpload, StartDeleteRag, StartIcon, StartBucket, CreateFromBucket, StartDelete,
                StartArchive, ImportFromStaging, Open, stores, rows, docRows, queues
  <2> QED
    BY <2>1, OtherRequestsKeepHold
<1>6. ASSUME NEW r \in Requests,
             \/ \E e \in Docs : PutObject(r, e)
             \/ RejectOverQuota(r) \/ LookupHash(r) \/ DiscardDuplicate(r) \/ FinishUpload(r)
             \/ PutIconObject(r) \/ SetIconKey(r) \/ StageArchive(r) \/ RefuseArchive(r)
             \/ SoftDelete(r) \/ EnqueuePurge(r) \/ EnqueuePurgeRag(r) \/ EnqueueBatch(r)
      PROVE  Held(d)'
  <2>1. apc[r] # "enqueue" /\ docRow' = docRow /\ ingestQ' = ingestQ
    BY <1>6 DEF PutObject, RejectOverQuota, LookupHash, DiscardDuplicate, FinishUpload, PutIconObject,
                SetIconKey, StageArchive, RefuseArchive, SoftDelete, EnqueuePurge, EnqueuePurgeRag,
                EnqueueBatch, stores, rows, docRows, queues
  <2>2. \A q \in Requests \ {r} : apc'[q] = apc[q] /\ adocs'[q] = adocs[q]
    BY <1>6 DEF PutObject, RejectOverQuota, LookupHash, DiscardDuplicate, FinishUpload, PutIconObject,
                SetIconKey, StageArchive, RefuseArchive, SoftDelete, EnqueuePurge, EnqueuePurgeRag,
                EnqueueBatch, Goto, Respond
  <2> QED
    BY <2>1, <2>2, OtherRequestsKeepHold
<1>7. ASSUME NEW r \in Requests, DeleteRow(r)
      PROVE  Held(d)'
  BY <1>7, OtherRequestsKeepHold DEF DeleteRow, DeleteDocuments, Goto, queues
<1> QED
  BY <1>1, <1>2, <1>3, <1>4, <1>5, <1>6, <1>7 DEF ApiNext, ApiContinue, ApiError

-----------------------------------------------------------------------------
(* The workers.                                                            *)

\* What others hold stays held when worker w lets go of nothing unsettled.
LEMMA WorkersKeepHold ==
  ASSUME NEW d \in Docs, Held(d), UNCHANGED apiVars, NEW w \in Workers,
         \A v \in Workers \ {w} : wpc'[v] = wpc[v] /\ wjob'[v] = wjob[v] /\ witem'[v] = witem[v],
         d \in ingestQ => d \in ingestQ' \/ (Indexing(w) /\ wjob[w] = d)',
         Indexing(w) /\ wjob[w] = d => (Indexing(w) /\ wjob[w] = d)',
         wpc[w] = "enqueueItem" /\ witem[w] = d => d \in ingestQ'
  PROVE  Held(d)'
BY DEF Held, Indexing, apiVars

\* A worker that indexes a document holds it until the document is settled.
LEMMA IndexingHandsOn ==
  ASSUME Typed, UNCHANGED apiVars, NEW w \in Workers,
         \/ \E e \in Docs : TakeIngest(w, e)
         \/ BeginIngest(w) \/ Convert(w) \/ Load(w) \/ Refresh(w)
         \/ MarkSuccess(w) \/ MarkFailed(w) \/ LoadBreaks(w),
         NEW d \in Docs, Unsettled(d) => Held(d), Unsettled(d)'
  PROVE  Held(d)'
<1> USE DEF Typed, JobShape, WorkerTypeOK, Proceed, Take, Release, Indexing, IngestStates, importVars
<1>0. Indexing(w) => wjob[w] \in Docs
  BY DEF WorkerShape
<1>1. ASSUME NEW e \in Docs, TakeIngest(w, e)
      PROVE  Held(d)'
  BY <1>1, WorkersKeepHold DEF TakeIngest, Unsettled, rows, docRows
<1>2. CASE BeginIngest(w)
  <2>1. CASE d = wjob[w]
    BY <1>2, <2>1 DEF BeginIngest, Held, Unsettled, Live, LiveStates, docRows
  <2>2. CASE d # wjob[w]
    <3>1. docRow'[d] = docRow[d]
      BY <1>0, <1>2, <2>2 DEF BeginIngest, BeginDocument, RowsTypeOK, docRows
    <3> QED
      BY <1>2, <2>2, <3>1, WorkersKeepHold DEF BeginIngest, Unsettled, queues
  <2> QED
    BY <2>1, <2>2
<1>3. CASE Convert(w) \/ Load(w) \/ Refresh(w) \/ LoadBreaks(w)
  <2>1. UNCHANGED <<docRow, ingestQ, wjob, witem>>
    BY <1>3 DEF Convert, Load, Refresh, LoadBreaks, stores, rows, docRows, queues
  <2>2. /\ wpc[w] \in IngestStates /\ wpc'[w] \in IngestStates
        /\ \A v \in Workers \ {w} : wpc'[v] = wpc[v]
    BY <1>3 DEF Convert, Load, Refresh, LoadBreaks
  <2> QED
    BY <2>1, <2>2, WorkersKeepHold DEF Unsettled
<1>4. CASE MarkSuccess(w) \/ MarkFailed(w)
  <2>1. d # wjob[w]
    BY <1>4 DEF MarkSuccess, MarkFailed, MarkDocument, Live, LiveStates, Unsettled, RowsTypeOK
  <2>2. docRow'[d] = docRow[d]
    BY <1>0, <1>4, <2>1 DEF MarkSuccess, MarkFailed, MarkDocument, RowsTypeOK
  <2> QED
    BY <1>4, <2>1, <2>2, WorkersKeepHold DEF MarkSuccess, MarkFailed, Unsettled, queues
<1> QED
  BY <1>1, <1>2, <1>3, <1>4

\* A purge, and a failure that is caught, lets go of no unsettled document.  An
\* import that fails between row and job drops an imported one.
LEMMA PurgingHandsOn ==
  ASSUME Typed, ItemsHaveOrigin, "crash" \notin Faults, UNCHANGED apiVars, NEW w \in Workers,
         \/ \E job \in Docs \cup Rags \cup Batches : TakeMaintenance(w, job)
         \/ PurgeChunks(w) \/ PurgeObject(w)
         \/ PurgeRagChunks(w) \/ PurgeRagObjects(w) \/ PurgeRagIcon(w) \/ PurgeRagRow(w)
         \/ WorkerError(w) \/ Crash(w),
         NEW d \in Docs, Unsettled(d) => Held(d), Unsettled(d)'
  PROVE  Held(d)'
<1> USE DEF Typed, JobShape, WorkerTypeOK, Proceed, Take, Release, Indexing, IngestStates,
            PurgeStates, importVars
<1>1. ASSUME NEW job \in Docs \cup Rags \cup Batches, TakeMaintenance(w, job)
      PROVE  Held(d)'
  BY <1>1, WorkersKeepHold DEF TakeMaintenance, Unsettled, rows, docRows
<1>2. CASE \/ PurgeChunks(w) \/ PurgeObject(w) \/ PurgeRagChunks(w) \/ PurgeRagObjects(w)
           \/ PurgeRagIcon(w) \/ PurgeRagRow(w)
  <2>1. wpc[w] \in PurgeStates /\ ingestQ' = ingestQ
    BY <1>2 DEF PurgeChunks, PurgeObject, PurgeRagChunks, PurgeRagObjects, PurgeRagIcon, PurgeRagRow,
                queues
  <2>2. docRow'[d] \in {docRow[d], "deleted"}
    BY <1>2 DEF PurgeChunks, PurgeObject, PurgeRagChunks, PurgeRagObjects, PurgeRagIcon, PurgeRagRow,
                DeleteDocuments, rows, docRows
  <2>3. \A v \in Workers \ {w} : wpc'[v] = wpc[v] /\ wjob'[v] = wjob[v] /\ witem'[v] = witem[v]
    BY <1>2 DEF PurgeChunks, PurgeObject, PurgeRagChunks, PurgeRagObjects, PurgeRagIcon, PurgeRagRow
  <2> QED
    BY <2>1, <2>2, <2>3, WorkersKeepHold DEF Unsettled
<1>3. CASE WorkerError(w)
  <2>1. docRow' = docRow /\ ingestQ' = ingestQ
    BY <1>3 DEF WorkerError, stores, rows, docRows, queues
  <2>2. wpc[w] = "enqueueItem" => witem[w] # d
    BY <1>3, <2>1 DEF WorkerError, ItemsHaveOrigin, ItemStates, Unsettled
  <2>3. Indexing(w) => wpc'[w] \in IngestStates /\ wjob' = wjob
    BY <1>3 DEF WorkerError, ImportStates
  <2>4. \A v \in Workers \ {w} : wpc'[v] = wpc[v] /\ wjob'[v] = wjob[v] /\ witem'[v] = witem[v]
    BY <1>3 DEF WorkerError
  <2> QED
    BY <2>1, <2>2, <2>3, <2>4, WorkersKeepHold DEF Unsettled
<1> QED
  BY <1>1, <1>2, <1>3 DEF Crash

\* An import holds the document it registers from the row to the job.
LEMMA ImportingHandsOn ==
  ASSUME Typed, UNCHANGED apiVars, NEW w \in Workers, ImportStep(w),
         NEW d \in Docs, Unsettled(d) => Held(d), Unsettled(d)'
  PROVE  Held(d)'
<1> USE DEF Typed, JobShape, WorkerTypeOK, Working, Release, Indexing, IngestStates, importVars
<1>1. CASE InsertItem(w)
  <2>1. CASE docRow'[d] = docRow[d]
    BY <1>1, <2>1, WorkersKeepHold DEF InsertItem, Unsettled, queues
  <2>2. CASE docRow'[d] # docRow[d]
    BY <1>1, <2>2 DEF InsertItem, InsertDocuments, Held, docRows
  <2> QED
    BY <2>1, <2>2
<1>2. CASE EnqueueItem(w)
  BY <1>2, WorkersKeepHold DEF EnqueueItem, Unsettled, rows, docRows
<1>3. CASE \/ OpenBatch(w) \/ PlanItems(w) \/ (\E e \in Docs : LookupItem(w, e)) \/ PutItem(w)
           \/ RecordItem(w) \/ FinishBatch(w) \/ FailBatch(w) \/ Unstage(w)
  <2>1. /\ wpc[w] \notin IngestStates \cup {"enqueueItem"}
        /\ docRow' = docRow /\ ingestQ' = ingestQ
    BY <1>3 DEF OpenBatch, PlanItems, LookupItem, PutItem, RecordItem, FinishBatch, FailBatch, Unstage,
                rows, docRows, queues
  <2>2. \A v \in Workers \ {w} : wpc'[v] = wpc[v] /\ wjob'[v] = wjob[v] /\ witem'[v] = witem[v]
    BY <1>3 DEF OpenBatch, PlanItems, LookupItem, PutItem, RecordItem, FinishBatch, FailBatch, Unstage,
                Leave
  <2> QED
    BY <2>1, <2>2, WorkersKeepHold DEF Unsettled
<1> QED
  BY <1>1, <1>2, <1>3 DEF ImportStep

\* LookupItem looks at documents of its batch only, and a batch is not None.
LEMMA OriginsStay ==
  ASSUME Shape, ItemsHaveOrigin, [Next]_vars
  PROVE  ItemsHaveOrigin'
<1>0. Typed
  BY ShapeIsTyped
<1> USE <1>0 DEF ItemsHaveOrigin, ItemStates, Typed, JobShape, WorkerTypeOK, importVars
<1>1. CASE UNCHANGED workerVars
  BY <1>1 DEF workerVars
<1>2. ASSUME NEW w \in Workers, ImportStep(w)
      PROVE  ItemsHaveOrigin'
  <2>1. ASSUME NEW e \in Docs, LookupItem(w, e)
        PROVE  ItemsHaveOrigin'
    BY <2>1, StoresAssumption DEF LookupItem, Working, WorkerShape, ImportStates
  <2>2. CASE PutItem(w) \/ InsertItem(w) \/ EnqueueItem(w)
    BY <2>2 DEF PutItem, InsertItem, EnqueueItem, Working
  <2>3. CASE OpenBatch(w) \/ PlanItems(w) \/ RecordItem(w) \/ FinishBatch(w) \/ FailBatch(w) \/ Unstage(w)
    BY <2>3 DEF OpenBatch, PlanItems, RecordItem, FinishBatch, FailBatch, Unstage, Leave, Working, Release
  <2> QED
    BY <1>2, <2>1, <2>2, <2>3 DEF ImportStep
<1>3. ASSUME NEW w \in Workers, JobStep(w) \/ JobFault(w)
      PROVE  ItemsHaveOrigin'
  <2>1. /\ wpc'[w] \notin ItemStates
        /\ \A v \in Workers \ {w} : wpc'[v] = wpc[v] /\ witem'[v] = witem[v]
    <3>1. CASE JobFault(w)
      BY <3>1 DEF JobFault, WorkerError, LoadBreaks, Crash, Proceed, Release
    <3>2. CASE JobStep(w)
      BY <3>2 DEF JobStep, TakeIngest, BeginIngest, Convert, Load, Refresh, MarkSuccess, MarkFailed,
                  TakeMaintenance, PurgeChunks, PurgeObject, PurgeRagChunks, PurgeRagObjects,
                  PurgeRagIcon, PurgeRagRow, Take, Proceed, Release
    <3> QED
      BY <1>3, <3>1, <3>2
  <2> QED
    BY <2>1
<1> QED
  BY <1>1, <1>2, <1>3 DEF Next, WorkerStep, vars

\* Every step hands every unsettled document on.
LEMMA NextHandsOn ==
  ASSUME CustodyInv, {"api", "crash"} \cap Faults = {}, [Next]_vars
  PROVE  NoForgottenDocument'
<1> SUFFICES ASSUME NEW d \in Docs, Unsettled(d)'
             PROVE  Held(d)'
  BY DEF NoForgottenDocument, Unsettled
<1>1. Typed /\ ItemsHaveOrigin /\ (Unsettled(d) => Held(d))
  BY ShapeIsTyped DEF CustodyInv, IInv, NoForgottenDocument, Unsettled
<1>2. CASE ApiNext /\ UNCHANGED workerVars
  BY <1>1, <1>2, RequestHandsOn
<1>3. ASSUME NEW w \in Workers, WorkerStep(w) \/ JobFault(w), UNCHANGED apiVars
      PROVE  Held(d)'
  BY <1>1, <1>3, IndexingHandsOn, PurgingHandsOn, ImportingHandsOn DEF WorkerStep, JobStep, JobFault
<1>4. CASE (PeriodicRefresh /\ UNCHANGED <<apiVars, workerVars>>) \/ UNCHANGED vars
  <2>1. UNCHANGED <<docRow, ingestQ, apiVars, workerVars>>
    BY <1>4 DEF PeriodicRefresh, vars, stores, rows, docRows, queues
  <2> QED
    BY <1>1, <2>1, RequestsKeepHold DEF Unsettled, apiVars
<1> QED
  BY <1>2, <1>3, <1>4 DEF Next

\* Where neither a request nor a worker dies half-way, a document that is
\* neither indexed, failed nor removed is about to be enqueued, queued, or in a
\* worker's hands; steps of a job may raise, but then an import may drop the
\* document it has at hand.
THEOREM NothingIsForgotten ==
  ASSUME {"api", "crash"} \cap Faults = {}
  PROVE  Spec => []NoForgottenDocument
<1>1. Init => CustodyInv
  <2>1. Init => ItemsHaveOrigin /\ NoForgottenDocument
    BY DEF Init, StoresInit, WorkerInit, ItemsHaveOrigin, ItemStates, NoForgottenDocument
  <2> QED
    BY <2>1, InitShape, InitSound DEF CustodyInv, IInv
<1>2. CustodyInv /\ [Next]_vars => CustodyInv'
  BY NextKeepsShape, NextKeepsSound, ShapeIsTyped, OriginsStay, NextHandsOn DEF CustodyInv, IInv
<1>3. CustodyInv => NoForgottenDocument
  BY DEF CustodyInv
<1> QED
  BY <1>1, <1>2, <1>3, PTL DEF Spec
=============================================================================
