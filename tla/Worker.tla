------------------------------- MODULE Worker -------------------------------
(***************************************************************************)
(* The RQ workers and the jobs of app/tasks/jobs.py that index a document  *)
(* and purge a document or a set.  A worker listens to "ingest" before     *)
(* "maintenance" and runs one job at a time; no job is ever retried.       *)
(***************************************************************************)
EXTENDS Stores

CONSTANT
  Workers  \* worker processes

VARIABLES
  wpc,     \* next step of a worker
  wjob,    \* the document or set its job is about
  wchunks, \* chunks to load, then chunks loaded
  witem,   \* the document an import job is registering
  wcreated \* how many it has registered

importVars == <<witem, wcreated>>
workerVars == <<wpc, wjob, wchunks, importVars>>

IngestStates == {"begin", "convert", "load", "refresh", "success", "fail"}
PurgeStates  == {"purgeChunks", "purgeObject", "purgeRagChunks", "purgeRagObjects",
                 "purgeRagIcon", "purgeRagRow"}
ImportStates == {"openBatch", "plan", "item", "putItem", "insertItem", "enqueueItem",
                 "recordItem", "failBatch", "unstage"}
WorkerStates == {"idle"} \cup IngestStates \cup PurgeStates \cup ImportStates

WorkerTypeOK ==
  /\ wpc \in [Workers -> WorkerStates]
  /\ wjob \in [Workers -> Docs \cup Rags \cup Batches \cup {None}]
  /\ wchunks \in [Workers -> SUBSET Chunks]
  /\ witem \in [Workers -> Docs \cup {None}]
  /\ wcreated \in [Workers -> Nat]

WorkerInit ==
  /\ wpc = [w \in Workers |-> "idle"]
  /\ wjob = [w \in Workers |-> None]
  /\ wchunks = [w \in Workers |-> {}]
  /\ witem = [w \in Workers |-> None]
  /\ wcreated = [w \in Workers |-> 0]

Proceed(w, pc, chunks) ==
  /\ wpc' = [wpc EXCEPT ![w] = pc]
  /\ wchunks' = [wchunks EXCEPT ![w] = chunks]
  /\ UNCHANGED <<wjob, importVars>>

Take(w, pc, job) ==
  /\ wpc[w] = "idle"
  /\ wpc' = [wpc EXCEPT ![w] = pc]
  /\ wjob' = [wjob EXCEPT ![w] = job]
  /\ UNCHANGED <<wchunks, importVars>>

\* The job is over, well or not.
Release(w) ==
  /\ wpc' = [wpc EXCEPT ![w] = "idle"]
  /\ wjob' = [wjob EXCEPT ![w] = None]
  /\ wchunks' = [wchunks EXCEPT ![w] = {}]
  /\ witem' = [witem EXCEPT ![w] = None]
  /\ wcreated' = [wcreated EXCEPT ![w] = 0]

-----------------------------------------------------------------------------
(* ingest_document.                                                        *)

TakeIngest(w, d) ==
  /\ d \in ingestQ
  /\ Take(w, "begin", d)
  /\ ingestQ' = ingestQ \ {d}
  /\ UNCHANGED <<rows, blobs, search, maintQ>>

\* A document deleted before its turn is skipped.
BeginIngest(w) ==
  /\ wpc[w] = "begin"
  /\ \/ /\ Live(wjob[w])
        /\ BeginDocument(wjob[w])
        /\ Proceed(w, "convert", {})
     \/ /\ ~Live(wjob[w])
        /\ Release(w)
        /\ UNCHANGED docRows
  /\ UNCHANGED <<ragRows, batchRows, blobs, search, queues>>

\* docling reads the object and cuts it; chunks the index knows are dropped.
\* Without the object the conversion fails; nothing left to load is a success.
Convert(w) ==
  /\ wpc[w] = "convert"
  /\ \/ /\ wjob[w] \in objects \cup Foreign
        /\ \E chunks \in SUBSET Chunks :
             LET new == chunks \ visible[wjob[w]]
             IN  Proceed(w, IF new = {} THEN "success" ELSE "load", new)
     \/ /\ wjob[w] \notin objects \cup Foreign
        /\ Proceed(w, "fail", {})
  /\ UNCHANGED stores

\* Mutant: no refresh after the bulk call.
LoadWithoutRefresh(w) ==
  /\ wpc[w] = "load"
  /\ \E ok \in SUBSET wchunks[w] : BulkLoad(wjob[w], ok) /\ Proceed(w, "success", ok)
  /\ UNCHANGED <<rows, blobs, queues>>

\* Mutant: all chunks sent are counted, not those that were taken.
LoadCountsSent(w) ==
  /\ wpc[w] = "load"
  /\ \E ok \in SUBSET wchunks[w] : BulkLoad(wjob[w], ok)
  /\ Proceed(w, "refresh", wchunks[w])
  /\ UNCHANGED <<rows, blobs, queues>>

\* async_bulk with raise_on_error=False: any part of the chunks may be refused.
Load(w) ==
  /\ wpc[w] = "load"
  /\ \E ok \in SUBSET wchunks[w] :
       /\ BulkLoad(wjob[w], ok)
       /\ Proceed(w, IF ok # {} /\ RefreshAfterLoad THEN "refresh" ELSE "success", ok)
  /\ UNCHANGED <<rows, blobs, queues>>

\* Mutant: the document is reported before its chunks are visible.
RefreshLater(w) ==
  /\ wpc[w] = "refresh"
  /\ Proceed(w, "success", wchunks[w])
  /\ UNCHANGED stores

Refresh(w) ==
  /\ wpc[w] = "refresh"
  /\ RefreshIndex
  /\ Proceed(w, "success", wchunks[w])
  /\ UNCHANGED <<rows, blobs, queues>>

MarkSuccess(w) ==
  /\ wpc[w] = "success"
  /\ MarkDocument(wjob[w], "success", Cardinality(wchunks[w]))
  /\ Release(w)
  /\ UNCHANGED <<ragRows, batchRows, blobs, search, queues>>

\* Mutant: the except branch leaves finished_at alone.
MarkFailedOpen(w) ==
  /\ wpc[w] = "fail"
  /\ docRow' = [docRow EXCEPT ![wjob[w]] = IF Live(wjob[w]) THEN "failed" ELSE @]
  /\ Release(w)
  /\ UNCHANGED <<chunksCount, jobRow, ragRows, batchRows, blobs, search, queues>>

\* The except branch: chunks_count keeps its value.
MarkFailed(w) ==
  /\ wpc[w] = "fail"
  /\ MarkDocument(wjob[w], "failed", chunksCount[wjob[w]])
  /\ Release(w)
  /\ UNCHANGED <<ragRows, batchRows, blobs, search, queues>>

-----------------------------------------------------------------------------
(* The maintenance queue: purge_document, purge_rag, and the import jobs    *)
(* of module Imports.                                                      *)

TakeMaintenance(w, job) ==
  /\ ingestQ = {}
  /\ job \in maintQ
  /\ Take(w, CASE job \in Docs -> "purgeChunks"
                [] job \in Rags -> "purgeRagChunks"
                [] OTHER -> "openBatch", job)
  /\ maintQ' = maintQ \ {job}
  /\ UNCHANGED <<rows, blobs, search, ingestQ>>

PurgeChunks(w) ==
  /\ wpc[w] = "purgeChunks"
  /\ DeleteByQuery({wjob[w]})
  /\ Proceed(w, "purgeObject", {})
  /\ UNCHANGED <<rows, blobs, queues>>

\* A foreign object is not ours to delete.
PurgeObject(w) ==
  /\ wpc[w] = "purgeObject"
  /\ objects' = objects \ ({wjob[w]} \ Foreign)
  /\ Release(w)
  /\ UNCHANGED <<rows, issued, icons, staged, search, queues>>

PurgeRagChunks(w) ==
  /\ wpc[w] = "purgeRagChunks"
  /\ DeleteByQuery(DocsOf(wjob[w]))
  /\ Proceed(w, "purgeRagObjects", {})
  /\ UNCHANGED <<rows, blobs, queues>>

\* Mutant: delete_prefix with an empty prefix.
PurgeAllObjects(w) ==
  /\ wpc[w] = "purgeRagObjects"
  /\ objects' = {}
  /\ Proceed(w, "purgeRagIcon", {})
  /\ UNCHANGED <<rows, issued, icons, staged, search, queues>>

PurgeRagObjects(w) ==
  /\ wpc[w] = "purgeRagObjects"
  /\ objects' = objects \ DocsOf(wjob[w])
  /\ Proceed(w, "purgeRagIcon", {})
  /\ UNCHANGED <<rows, issued, icons, staged, search, queues>>

PurgeRagIcon(w) ==
  /\ wpc[w] = "purgeRagIcon"
  /\ icons' = icons \ {wjob[w]}
  /\ Proceed(w, "purgeRagRow", {})
  /\ UNCHANGED <<rows, issued, objects, staged, search, queues>>

\* Mutant: no cascade, so that a set with documents cannot be removed.
PurgeRagRowIfEmpty(w) ==
  /\ wpc[w] = "purgeRagRow"
  /\ ragRow' = [ragRow EXCEPT ![wjob[w]] = IF RowsOf(wjob[w]) = {} THEN "gone" ELSE @]
  /\ Release(w)
  /\ UNCHANGED <<iconKey, docRows, batchRows, blobs, search, queues>>

\* The row of the set goes, and the rows of its documents and batches with it.
PurgeRagRow(w) ==
  /\ wpc[w] = "purgeRagRow"
  /\ ragRow' = [ragRow EXCEPT ![wjob[w]] = "gone"]
  /\ iconKey' = iconKey \ {wjob[w]}
  /\ DeleteDocuments(DocsOf(wjob[w]))
  /\ DeleteBatches({b \in Batches : BatchRag[b] = wjob[w]})
  /\ Release(w)
  /\ UNCHANGED <<blobs, search, queues>>

-----------------------------------------------------------------------------
\* Mutant: no except branch in _ingest_document.
WorkerErrorEscapes(w) ==
  /\ "worker" \in Faults
  /\ wpc[w] \in IngestStates
  /\ Release(w)
  /\ UNCHANGED stores

\* A step raises.  Indexing and importing turn to their except branches, a
\* purge just ends.  RQ's timeout cancels the coroutine of an import: no except
\* branch catches that, the finally clause runs.
WorkerError(w) ==
  /\ \/ "worker" \in Faults /\ wpc[w] \in IngestStates \ {"fail"} /\ Proceed(w, "fail", {})
     \/ /\ "import" \in Faults
        /\ wpc[w] \in ImportStates \ {"failBatch", "unstage"}
        /\ Proceed(w, "failBatch", {})
     \/ /\ "import" \in Faults
        /\ wpc[w] \in ImportStates \ {"unstage"}
        /\ IF wjob[w] \in Archives THEN Proceed(w, "unstage", {}) ELSE Release(w)
     \/ "purge" \in Faults /\ wpc[w] \in PurgeStates /\ Release(w)
  /\ UNCHANGED stores

\* Mutant: the bulk call escapes the except branch.
LoadBreaksOut(w) ==
  /\ "worker" \in Faults
  /\ wpc[w] = "load"
  /\ \E ok \in (SUBSET wchunks[w]) \ {{}} : BulkLoad(wjob[w], ok)
  /\ Release(w)
  /\ UNCHANGED <<rows, blobs, queues>>

\* The bulk call itself raises after some of its batches were indexed.
LoadBreaks(w) ==
  /\ "worker" \in Faults
  /\ wpc[w] = "load"
  /\ \E ok \in (SUBSET wchunks[w]) \ {{}} : BulkLoad(wjob[w], ok)
  /\ Proceed(w, "fail", {})
  /\ UNCHANGED <<rows, blobs, queues>>

\* The process is killed, a step of an except or finally clause raises, or RQ's
\* timeout cancels an indexing job, which has no finally clause that would store
\* a verdict: the job ends there, and RQ does not run it again.
Crash(w) ==
  /\ "crash" \in Faults
  /\ wpc[w] # "idle"
  /\ Release(w)
  /\ UNCHANGED stores

\* Every step of indexing and purging that is not a failure.
JobStep(w) ==
  \/ \E d \in Docs : TakeIngest(w, d)
  \/ BeginIngest(w) \/ Convert(w) \/ Load(w) \/ Refresh(w)
  \/ MarkSuccess(w) \/ MarkFailed(w)
  \/ \E job \in Docs \cup Rags \cup Batches : TakeMaintenance(w, job)
  \/ PurgeChunks(w) \/ PurgeObject(w)
  \/ PurgeRagChunks(w) \/ PurgeRagObjects(w) \/ PurgeRagIcon(w) \/ PurgeRagRow(w)

JobFault(w) == WorkerError(w) \/ LoadBreaks(w) \/ Crash(w)
=============================================================================
