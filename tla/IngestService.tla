--------------------------- MODULE IngestService ----------------------------
(***************************************************************************)
(* The API process and the workers over the shared stores.                 *)
(***************************************************************************)
EXTENDS Api, Imports

vars == <<stores, apiVars, workerVars>>

\* Every store and every process holds values of its type.
TypeOK == StoresTypeOK /\ ApiTypeOK /\ WorkerTypeOK

Init == StoresInit /\ ApiInit /\ WorkerInit

WorkerStep(w) == JobStep(w) \/ ImportStep(w)

Next ==
  \/ ApiNext /\ UNCHANGED workerVars
  \/ \E w \in Workers : (WorkerStep(w) \/ JobFault(w)) /\ UNCHANGED apiVars
  \/ PeriodicRefresh /\ UNCHANGED <<apiVars, workerVars>>

Spec == Init /\ [][Next]_vars

\* A request runs to its response, a worker takes and finishes jobs while
\* there are any, the index refreshes by itself.  No call is owed by a client
\* and no failure is owed by the environment.
Fairness ==
  /\ \A r \in Requests : WF_vars(ApiContinue(r) /\ UNCHANGED workerVars)
  /\ \A w \in Workers : WF_vars(WorkerStep(w) /\ UNCHANGED apiVars)
  /\ WF_vars(PeriodicRefresh /\ UNCHANGED <<apiVars, workerVars>>)

FairSpec == Spec /\ Fairness

-----------------------------------------------------------------------------
(* Safety.                                                                 *)

Indexing(w) == wpc[w] \in IngestStates
Purging(w)  == wpc[w] \in PurgeStates

\* The order "object, then row" of an upload, kept by every later deletion:
\* an uploaded document its owner sees has its object (jobs.py:164-169).
RowHasObject ==
  \A d \in Docs \ Foreign : Live(d) /\ Alive(RagOf[d]) => d \in objects

\* The order "row, then job": no worker is given a document whose row was
\* not committed, so a missing row always means a deleted one.
JobFollowsRow ==
  /\ \A d \in ingestQ : docRow[d] # "none"
  /\ \A w \in Workers : Indexing(w) => docRow[wjob[w]] # "none"

\* Whoever owes an unsettled document its next step.
Held(d) ==
  \/ d \in ingestQ
  \/ \E r \in Requests : apc[r] = "enqueue" /\ d \in adocs[r]
  \/ \E w \in Workers :
       \/ Indexing(w) /\ wjob[w] = d
       \/ wpc[w] = "enqueueItem" /\ witem[w] = d

\* While no process dies, no document is forgotten: a pending one is about
\* to be enqueued, queued or taken, a processing one is in a worker's hands.
\* Only an import that cannot reach the queue drops the document at hand.
NoForgottenDocument ==
  \A d \in Docs :
    /\ docRow[d] \in {"pending", "processing"}
    /\ "import" \in Faults => OriginOf[d] = None
    => Held(d)

\* chunks_count tells what a search over the set finds of the document.
CountMatchesSearch ==
  \A d \in Docs : docRow[d] = "success" /\ Alive(RagOf[d])
                     => chunksCount[d] = Cardinality(visible[d])

\* The purge of d, or of its set, is still to come.
PurgeAhead(d) ==
  \/ {d, RagOf[d]} \cap maintQ # {}
  \/ \E w \in Workers : Purging(w) /\ wjob[w] \in {d, RagOf[d]}
  \/ \E r \in Requests :
       \/ apc[r] = "enqueuePurge" /\ d \in adocs[r]
       \/ apc[r] = "enqueuePurgeRag" /\ aset[r] = RagOf[d]

\* Once nothing is left to purge it, a deleted document has no chunk in the
\* index: what a search cannot be told to hide is gone.
PurgeLeavesNoChunks ==
  \A d \in Docs : docRow[d] = "deleted" /\ ~PurgeAhead(d) => index[d] = {}

\* rag_max_bytes_per_set bounds what a set holds.
QuotaRespected == \A g \in Rags : TotalBytes(g) <= MaxDocs

\* An icon_key the owner can follow leads to an object.
IconKeyHasObject == \A g \in iconKey : Alive(g) => g \in icons

\* Uploads into a set that answers searches do not take it out of service, and
\* neither does a job that fails or runs late: while its owner deletes nothing, a
\* set that was "ready" is "ready" (repo.py:28-35).
ReadySetStaysReady ==
  [][\A g \in Rags :
       /\ Alive(g) /\ Alive(g)'
       /\ RowsOf(g) \subseteq RowsOf(g)'
       /\ RagStatus(g) = "ready"
       => RagStatus(g)' = "ready"]_vars

\* The stamps of ingest_jobs, where the worker found a row to stamp, tell the
\* same story as the status of the document.
JobTellsStatus ==
  \A d \in Docs :
    /\ jobRow[d] = "started" => docRow[d] = "processing"
    /\ jobRow[d] = "finished" => docRow[d] \in {"success", "failed"}

\* Whoever still has to take a staged archive away.
StagingOwed(b) ==
  \/ b \in maintQ
  \/ \E r \in Requests : apc[r] = "enqueueBatch" /\ aset[r] = b
  \/ \E w \in Workers : wjob[w] = b

\* Staging is empty once the archive was expanded, however that ended.
StagedArchiveIsOwed == \A b \in staged : StagingOwed(b)

\* The counter of a finished batch agrees with the documents it brought.
BatchCountsDocuments ==
  \A b \in Batches : batchRow[b] = "success" =>
    batchCreated[b] = Cardinality({d \in Docs : OriginOf[d] = b /\ docRow[d] # "none"})

-----------------------------------------------------------------------------
(* The inductive invariant under RowHasObject and JobFollowsRow.           *)

RegisterStates == {"reject", "lookup", "discard", "insert"}
BatchStates    == {"stage", "enqueueBatch"}
PurgeDocStates == {"purgeChunks", "purgeObject"}
PurgeRagStates == PurgeStates \ PurgeDocStates
ItemStates     == {"putItem", "insertItem", "enqueueItem", "recordItem"}

\* What a request or a worker works on is of the kind its step expects.
RequestShape ==
  \A r \in Requests :
    /\ apc[r] \in BatchStates => aset[r] \in Batches
    /\ apc[r] \notin BatchStates \cup {"idle"} => aset[r] \in Rags

WorkerShape ==
  \A w \in Workers :
    /\ wpc[w] \in IngestStates \cup PurgeDocStates => wjob[w] \in Docs
    /\ wpc[w] \in PurgeRagStates => wjob[w] \in Rags
    /\ wpc[w] \in ImportStates => wjob[w] \in Batches
    /\ wpc[w] \in ItemStates => witem[w] \in Docs

Shape == TypeOK /\ RequestShape /\ WorkerShape

\* Documents whose row a request, or an import, has yet to insert.
InHand(r)   == IF apc[r] \in RegisterStates THEN adocs[r] ELSE {}
InImport(w) == IF wpc[w] \in {"putItem", "insertItem"} THEN {witem[w]} ELSE {}

\* No document is in two hands.
HandsAreDisjoint ==
  /\ \A r, q \in Requests : r # q => InHand(r) \cap InHand(q) = {}
  /\ \A w, v \in Workers : w # v => InImport(w) \cap InImport(v) = {}
  /\ \A r \in Requests, w \in Workers : InHand(r) \cap InImport(w) = {}

\* Identifiers are drawn once, for a set that exists, before their row.
DrawnBeforeUse ==
  /\ \A d \in Docs : docRow[d] # "none" => d \in issued
  /\ \A d \in issued : ragRow[RagOf[d]] # "none"

\* A document in hand has no row yet and, if its owner can see it, its object.
Unregistered(d) == d \in issued /\ docRow[d] = "none"
Backed(d)       == d \notin Foreign /\ Alive(RagOf[d]) => d \in objects

\* What is about to be purged is hidden from its owner for good, and a batch
\* imports into a set that had a row.
Hidden(g) == ragRow[g] \in {"hidden", "gone"}

JobIsSafe(job) ==
  /\ job \in Docs => docRow[job] = "deleted"
  /\ job \in Rags => Hidden(job)
  /\ job \in Batches => ragRow[BatchRag[job]] # "none"

QueuesAreSound ==
  /\ \A d \in ingestQ : docRow[d] # "none"
  /\ \A job \in maintQ : JobIsSafe(job)

RequestIsSound(r) ==
  /\ \A d \in InHand(r) : Unregistered(d) /\ Backed(d)
  /\ apc[r] \in RegisterStates \cup {"store", "enqueue", "softDelete"} => ragRow[aset[r]] # "none"
  /\ apc[r] \in BatchStates => ragRow[BatchRag[aset[r]]] # "none"
  /\ apc[r] \in {"enqueue", "deleteRow"} => \A d \in adocs[r] : docRow[d] # "none"
  /\ apc[r] = "enqueuePurge" => \A d \in adocs[r] : docRow[d] = "deleted"
  /\ apc[r] = "enqueuePurgeRag" => Hidden(aset[r])

WorkerIsSound(w) ==
  /\ \A d \in InImport(w) : Unregistered(d) /\ (wpc[w] = "insertItem" => Backed(d))
  /\ Indexing(w) => docRow[wjob[w]] # "none"
  /\ wpc[w] \in PurgeStates \cup ImportStates => JobIsSafe(wjob[w])
  /\ wpc[w] \in {"enqueueItem", "recordItem"} => docRow[witem[w]] # "none"

Sound ==
  /\ RowHasObject
  /\ DrawnBeforeUse
  /\ HandsAreDisjoint
  /\ QueuesAreSound
  /\ \A r \in Requests : RequestIsSound(r)
  /\ \A w \in Workers : WorkerIsSound(w)

IInv == Shape /\ Sound

-----------------------------------------------------------------------------
(* The catalog the service implements.                                     *)

View(d) ==
  CASE ragRow[RagOf[d]] \in {"hidden", "gone"} \/ docRow[d] = "deleted" -> "removed"
    [] OTHER -> docRow[d]

Found(d) == IF View(d) = "success" THEN visible[d] ELSE {}

Catalog == INSTANCE DocumentCatalog WITH
  status <- [d \in Docs |-> View(d)],
  answers <- [d \in Docs |-> Found(d)]

\* Seen from outside, the service is the catalog: statuses only move forward,
\* and what a search finds of an indexed document changes only by removal.
ImplementsCatalog == Catalog!Spec

-----------------------------------------------------------------------------
(* Liveness.                                                               *)

\* Every registered document ends up indexed, failed or removed.
DocumentsSettle == Catalog!Settles

\* A soft-deleted set is finally removed.
HiddenRagsVanish == \A g \in Rags : (ragRow[g] = "hidden") ~> (ragRow[g] = "gone")

\* A batch that was accepted ends with a verdict, or goes with its set.
BatchesSettle ==
  \A b \in Batches :
    (batchRow[b] = "pending") ~> (batchRow[b] \in {"success", "failed", "rejected", "deleted"})

\* An object in our bucket that no row and no request in flight accounts for.
Orphan(d) ==
  /\ d \in objects
  /\ ~Live(d)
  /\ \A r \in Requests : d \notin adocs[r]
  /\ \A w \in Workers : witem[w] # d

\* "An orphaned object is cleaned up by the background reconciliation"
\* (jobs.py:166-167, README.md:662-663).
OrphansCollected == \A d \in Docs : Orphan(d) ~> ~Orphan(d)
=============================================================================
