------------------------------ MODULE Imports -------------------------------
(***************************************************************************)
(* The import jobs of app/tasks/jobs.py: expand_archive, with              *)
(* _register_document, and import_s3_prefix.  Both run on a worker, take   *)
(* their items one by one, and register each the way an upload does:       *)
(* lookup, object, row, job.  Neither consults the quota of the set.       *)
(***************************************************************************)
EXTENDS Worker

Working(w, pc, doc) ==
  /\ wpc' = [wpc EXCEPT ![w] = pc]
  /\ witem' = [witem EXCEPT ![w] = doc]
  /\ UNCHANGED <<wjob, wchunks, wcreated>>

\* The finally clause of expand_archive; import_s3_prefix leaves staging alone.
Leave(w) ==
  IF wjob[w] \in Archives THEN Working(w, "unstage", None) ELSE Release(w)

\* The batch may have gone with its set.
OpenBatch(w) ==
  /\ wpc[w] = "openBatch"
  /\ SetBatch(wjob[w], "processing", batchCreated[wjob[w]])
  /\ IF batchRow[wjob[w]] \in BatchLive THEN Working(w, "plan", None) ELSE Leave(w)
  /\ UNCHANGED <<ragRows, docRows, blobs, search, queues>>

\* Mutant: the verdict on a rejected archive is logged and not stored.
PlanSilently(w) ==
  /\ wpc[w] = "plan"
  /\ \/ Working(w, "item", None)
     \/ wjob[w] \in Archives /\ Leave(w)
  /\ UNCHANGED stores

\* The archive is read and its entries are planned, or the prefix is listed.
\* An archive that breaks a limit is rejected as a whole.
PlanItems(w) ==
  /\ wpc[w] = "plan"
  /\ \/ /\ Working(w, "item", None)
        /\ UNCHANGED batchRows
     \/ /\ wjob[w] \in Archives
        /\ SetBatch(wjob[w], "rejected", 0)
        /\ Leave(w)
  /\ UNCHANGED <<ragRows, docRows, blobs, search, queues>>

\* The next item whose content the set does not have gets an identifier.  An
\* item it has, or that is not to be imported, is counted as skipped only.
LookupItem(w, d) ==
  /\ wpc[w] = "item"
  /\ OriginOf[d] = wjob[w]
  /\ d \notin issued
  /\ FindByHash(RagOf[d], ContentOf[d]) = {}
  /\ issued' = issued \cup {d}
  /\ Working(w, "putItem", d)
  /\ UNCHANGED <<rows, objects, icons, staged, search, queues>>

\* Mutant: the row comes before the object.
PutItemLater(w) ==
  /\ wpc[w] = "putItem"
  /\ Working(w, "insertItem", witem[w])
  /\ UNCHANGED stores

PutItem(w) ==
  /\ wpc[w] = "putItem"
  /\ objects' = objects \cup {witem[w]}
  /\ Working(w, "insertItem", witem[w])
  /\ UNCHANGED <<rows, issued, icons, staged, search, queues>>

\* An IntegrityError here fails the whole batch.
InsertItem(w) ==
  /\ wpc[w] = "insertItem"
  /\ \/ /\ CanInsert({witem[w]})
        /\ InsertDocuments({witem[w]})
        /\ Working(w, "enqueueItem", witem[w])
     \/ /\ ~CanInsert({witem[w]})
        /\ Working(w, "failBatch", None)
        /\ UNCHANGED docRows
  /\ UNCHANGED <<ragRows, batchRows, blobs, search, queues>>

EnqueueItem(w) ==
  /\ wpc[w] = "enqueueItem"
  /\ ingestQ' = ingestQ \cup {witem[w]}
  /\ Working(w, "recordItem", witem[w])
  /\ UNCHANGED <<rows, blobs, search, maintQ>>

\* Mutant: a document whose job could not be recorded is not counted.
RecordOrSkip(w) ==
  /\ wpc[w] = "recordItem"
  /\ jobRow' = [jobRow EXCEPT ![witem[w]] = IF Live(witem[w]) THEN "recorded" ELSE @]
  /\ wpc' = [wpc EXCEPT ![w] = "item"]
  /\ witem' = [witem EXCEPT ![w] = None]
  /\ wcreated' = [wcreated EXCEPT ![w] = IF Live(witem[w]) THEN @ + 1 ELSE @]
  /\ UNCHANGED <<wjob, wchunks>>
  /\ UNCHANGED <<ragRows, docRow, chunksCount, batchRows, blobs, search, queues>>

\* A document deleted meanwhile breaks the foreign key, and fails the batch.
RecordItem(w) ==
  /\ wpc[w] = "recordItem"
  /\ \/ /\ Live(witem[w])
        /\ jobRow' = [jobRow EXCEPT ![witem[w]] = "recorded"]
        /\ wpc' = [wpc EXCEPT ![w] = "item"]
        /\ witem' = [witem EXCEPT ![w] = None]
        /\ wcreated' = [wcreated EXCEPT ![w] = @ + 1]
        /\ UNCHANGED <<wjob, wchunks>>
     \/ /\ ~Live(witem[w])
        /\ Working(w, "failBatch", None)
        /\ UNCHANGED jobRow
  /\ UNCHANGED <<ragRows, docRow, chunksCount, batchRows, blobs, search, queues>>

\* No item is left.
FinishBatch(w) ==
  /\ wpc[w] = "item"
  /\ SetBatch(wjob[w], "success", wcreated[w])
  /\ Leave(w)
  /\ UNCHANGED <<ragRows, docRows, blobs, search, queues>>

\* Mutant: the archive is deleted only when all went well.
FailAndKeep(w) ==
  /\ wpc[w] = "failBatch"
  /\ SetBatch(wjob[w], "failed", 0)
  /\ Release(w)
  /\ UNCHANGED <<ragRows, docRows, blobs, search, queues>>

\* The except branch calls finish_batch without counts.
FailBatch(w) ==
  /\ wpc[w] = "failBatch"
  /\ SetBatch(wjob[w], "failed", 0)
  /\ Leave(w)
  /\ UNCHANGED <<ragRows, docRows, blobs, search, queues>>

Unstage(w) ==
  /\ wpc[w] = "unstage"
  /\ staged' = staged \ {wjob[w]}
  /\ Release(w)
  /\ UNCHANGED <<rows, issued, objects, icons, search, queues>>

ImportStep(w) ==
  \/ OpenBatch(w) \/ PlanItems(w)
  \/ \E d \in Docs : LookupItem(w, d)
  \/ PutItem(w) \/ InsertItem(w) \/ EnqueueItem(w) \/ RecordItem(w)
  \/ FinishBatch(w) \/ FailBatch(w) \/ Unstage(w)
=============================================================================
