-------------------------------- MODULE Api ---------------------------------
(***************************************************************************)
(* The HTTP handlers of app/api/rags.py that change the stores.  A request *)
(* is a process: apc says which step it takes next.  Handlers interleave   *)
(* with each other and with the workers between any two steps.             *)
(***************************************************************************)
EXTENDS Stores

CONSTANTS
  Requests,  \* requests in flight at the same time
  Ops        \* the operations clients call

VARIABLES
  apc,    \* next step of a request
  aset,   \* the rag set, or the import batch, it works on
  adocs,  \* documents it has in hand: being registered or deleted
  ajobs,  \* documents it enqueued and has not recorded in ingest_jobs
  aused   \* "used" of upload_documents

apiVars == <<apc, aset, adocs, ajobs, aused>>

ApiStates == {"idle", "store", "reject", "lookup", "discard", "insert", "enqueue",
              "deleteRow", "enqueuePurge", "softDelete", "enqueuePurgeRag",
              "putIcon", "setIconKey", "stage", "enqueueBatch"}

ApiTypeOK ==
  /\ apc \in [Requests -> ApiStates]
  /\ aset \in [Requests -> Rags \cup Batches \cup {None}]
  /\ adocs \in [Requests -> SUBSET Docs]
  /\ ajobs \in [Requests -> SUBSET Docs]
  /\ aused \in [Requests -> Nat]

ApiInit ==
  /\ apc = [r \in Requests |-> "idle"]
  /\ aset = [r \in Requests |-> None]
  /\ adocs = [r \in Requests |-> {}]
  /\ ajobs = [r \in Requests |-> {}]
  /\ aused = [r \in Requests |-> 0]

\* Request r goes on at step pc with the documents S in hand.
Goto(r, pc, S) ==
  /\ apc' = [apc EXCEPT ![r] = pc]
  /\ adocs' = [adocs EXCEPT ![r] = S]
  /\ UNCHANGED <<aset, ajobs, aused>>

\* An idle request starts at step pc on set g.
Open(r, g, pc, S, used) ==
  /\ apc[r] = "idle"
  /\ apc' = [apc EXCEPT ![r] = pc]
  /\ aset' = [aset EXCEPT ![r] = g]
  /\ adocs' = [adocs EXCEPT ![r] = S]
  /\ aused' = [aused EXCEPT ![r] = used]
  /\ UNCHANGED ajobs

\* The response is sent, whatever its code.
Respond(r) ==
  /\ apc' = [apc EXCEPT ![r] = "idle"]
  /\ aset' = [aset EXCEPT ![r] = None]
  /\ adocs' = [adocs EXCEPT ![r] = {}]
  /\ ajobs' = [ajobs EXCEPT ![r] = {}]
  /\ aused' = [aused EXCEPT ![r] = 0]

-----------------------------------------------------------------------------
(* POST /rags.                                                             *)

CreateRag(g) ==
  /\ "createRag" \in Ops
  /\ ragRow[g] = "none"
  /\ ragRow' = [ragRow EXCEPT ![g] = "alive"]
  /\ UNCHANGED <<iconKey, docRows, batchRows, blobs, search, queues, apiVars>>

-----------------------------------------------------------------------------
(* POST /rags/{g}/documents: object, then row, then job, file by file.     *)

StartUpload(r, g) ==
  /\ "upload" \in Ops
  /\ Alive(g)
  /\ Open(r, g, "store", {}, TotalBytes(g))
  /\ UNCHANGED stores

\* The next file is streamed to a key under an identifier of its own.
PutObject(r, d) ==
  /\ apc[r] = "store"
  /\ d \notin issued \cup Foreign
  /\ RagOf[d] = aset[r] /\ OriginOf[d] = None
  /\ issued' = issued \cup {d}
  /\ objects' = objects \cup {d}
  /\ apc' = [apc EXCEPT ![r] = IF aused[r] + 1 > MaxDocs THEN "reject" ELSE "lookup"]
  /\ adocs' = [adocs EXCEPT ![r] = {d}]
  /\ aused' = [aused EXCEPT ![r] = @ + 1]
  /\ UNCHANGED <<rows, icons, staged, search, queues, aset, ajobs>>

\* Over the quota: the object goes, the request ends with 413.
RejectOverQuota(r) ==
  /\ apc[r] = "reject"
  /\ objects' = objects \ adocs[r]
  /\ Respond(r)
  /\ UNCHANGED <<rows, issued, icons, staged, search, queues>>

LookupHash(r) ==
  /\ apc[r] = "lookup"
  /\ LET known == \E d \in adocs[r] : FindByHash(RagOf[d], ContentOf[d]) # {}
     IN  Goto(r, IF known THEN "discard" ELSE "insert", adocs[r])
  /\ UNCHANGED stores

\* Mutant: the key of the existing document is deleted instead.
DiscardExisting(r) ==
  /\ apc[r] = "discard"
  /\ objects' = objects \ UNION {FindByHash(RagOf[d], ContentOf[d]) : d \in adocs[r]}
  /\ Goto(r, "store", {})
  /\ UNCHANGED <<rows, issued, icons, staged, search, queues>>

\* The content is there already: drop the object, go on; used stays.
DiscardDuplicate(r) ==
  /\ apc[r] = "discard"
  /\ objects' = objects \ adocs[r]
  /\ Goto(r, "store", {})
  /\ UNCHANGED <<rows, issued, icons, staged, search, queues>>

\* Mutant: the IntegrityError is swallowed.
InsertOrGoOn(r) ==
  /\ apc[r] = "insert"
  /\ \/ CanInsert(adocs[r]) /\ InsertDocuments(adocs[r])
     \/ ~CanInsert(adocs[r]) /\ UNCHANGED docRows
  /\ Goto(r, "enqueue", adocs[r])
  /\ UNCHANGED <<ragRows, batchRows, blobs, search, queues>>

\* Rows of all documents in hand, in one commit; an IntegrityError is a 500.
InsertRows(r) ==
  /\ apc[r] = "insert"
  /\ \/ /\ CanInsert(adocs[r])
        /\ InsertDocuments(adocs[r])
        /\ Goto(r, "enqueue", adocs[r])
     \/ /\ ~CanInsert(adocs[r])
        /\ Respond(r)
        /\ UNCHANGED docRows
  /\ UNCHANGED <<ragRows, batchRows, blobs, search, queues>>

\* Mutant: one job per set is thought to be enough.
EnqueueOncePerSet(r, d) ==
  /\ apc[r] = "enqueue"
  /\ d \in adocs[r]
  /\ ingestQ' = IF ingestQ \cap DocsOf(RagOf[d]) = {} THEN ingestQ \cup {d} ELSE ingestQ
  /\ adocs' = [adocs EXCEPT ![r] = @ \ {d}]
  /\ ajobs' = [ajobs EXCEPT ![r] = @ \cup {d}]
  /\ UNCHANGED <<rows, blobs, search, maintQ, apc, aset, aused>>

EnqueueIngest(r, d) ==
  /\ apc[r] = "enqueue"
  /\ d \in adocs[r]
  /\ ingestQ' = ingestQ \cup {d}
  /\ adocs' = [adocs EXCEPT ![r] = @ \ {d}]
  /\ ajobs' = [ajobs EXCEPT ![r] = @ \cup {d}]
  /\ UNCHANGED <<rows, blobs, search, maintQ, apc, aset, aused>>

\* All jobs of this commit are enqueued: their ingest_jobs rows, in one
\* commit.  One deleted document breaks the foreign key, and all are lost.
\* An upload then takes its next file, a bucket import is done.
RecordJobs(r) ==
  /\ apc[r] = "enqueue"
  /\ adocs[r] = {}
  /\ \/ /\ \A d \in ajobs[r] : Live(d)
        /\ jobRow' = [d \in Docs |-> IF d \in ajobs[r] THEN "recorded" ELSE jobRow[d]]
        /\ IF ajobs[r] \subseteq Foreign
           THEN Respond(r)
           ELSE /\ apc' = [apc EXCEPT ![r] = "store"]
                /\ ajobs' = [ajobs EXCEPT ![r] = {}]
                /\ UNCHANGED <<aset, adocs, aused>>
     \/ /\ \E d \in ajobs[r] : ~Live(d)
        /\ Respond(r)
        /\ UNCHANGED jobRow
  /\ UNCHANGED <<ragRows, docRow, chunksCount, batchRows, blobs, search, queues>>

\* No file is left, or the next one is refused (400, 413, 415).
FinishUpload(r) ==
  /\ apc[r] = "store"
  /\ Respond(r)
  /\ UNCHANGED stores

-----------------------------------------------------------------------------
(* POST /rags/{g}/documents/from-bucket and POST /rags/from-bucket: the    *)
(* documents S that survive select, drop_known and the quota are           *)
(* references to foreign objects.                                          *)

FreshForeign(g, S) ==
  /\ S # {}
  /\ S \subseteq (Foreign \cap DocsOf(g)) \ issued
  /\ Distinct(S)

StartBucket(r, g, S) ==
  /\ "bucket" \in Ops
  /\ Alive(g)
  /\ FreshForeign(g, S)
  /\ \A d \in S : ContentOf[d] \notin ExistingHashes(g)
  /\ TotalBytes(g) + Cardinality(S) <= MaxDocs
  /\ Open(r, g, "insert", S, 0)
  /\ issued' = issued \cup S
  /\ UNCHANGED <<rows, objects, icons, staged, search, queues>>

\* The new set is committed first; its quota is not consulted.
CreateFromBucket(r, g, S) ==
  /\ "createFromBucket" \in Ops
  /\ ragRow[g] = "none"
  /\ FreshForeign(g, S)
  /\ Open(r, g, "insert", S, 0)
  /\ ragRow' = [ragRow EXCEPT ![g] = "alive"]
  /\ issued' = issued \cup S
  /\ UNCHANGED <<iconKey, docRows, batchRows, objects, icons, staged, search, queues>>

-----------------------------------------------------------------------------
(* DELETE /rags/{g}/documents/{d}: row, then purge job.                    *)

StartDelete(r, d) ==
  /\ "deleteDocument" \in Ops
  /\ Alive(RagOf[d])
  /\ Live(d)
  /\ Open(r, RagOf[d], "deleteRow", {d}, 0)
  /\ UNCHANGED stores

DeleteRow(r) ==
  /\ apc[r] = "deleteRow"
  /\ DeleteDocuments(adocs[r])
  /\ Goto(r, "enqueuePurge", adocs[r])
  /\ UNCHANGED <<ragRows, batchRows, blobs, search, queues>>

EnqueuePurge(r) ==
  /\ apc[r] = "enqueuePurge"
  /\ maintQ' = maintQ \cup adocs[r]
  /\ Respond(r)
  /\ UNCHANGED <<rows, blobs, search, ingestQ>>

-----------------------------------------------------------------------------
(* DELETE /rags/{g}: soft delete, then purge job.                          *)

StartDeleteRag(r, g) ==
  /\ "deleteRag" \in Ops
  /\ Alive(g)
  /\ Open(r, g, "softDelete", {}, 0)
  /\ UNCHANGED stores

SoftDelete(r) ==
  /\ apc[r] = "softDelete"
  /\ ragRow' = [ragRow EXCEPT ![aset[r]] = IF @ = "alive" THEN "hidden" ELSE @]
  /\ Goto(r, "enqueuePurgeRag", {})
  /\ UNCHANGED <<iconKey, docRows, batchRows, blobs, search, queues>>

EnqueuePurgeRag(r) ==
  /\ apc[r] = "enqueuePurgeRag"
  /\ maintQ' = maintQ \cup {aset[r]}
  /\ Respond(r)
  /\ UNCHANGED <<rows, blobs, search, ingestQ>>

-----------------------------------------------------------------------------
(* PUT /rags/{g}/icon: object, then icon_key.                              *)

\* Mutant: the key is committed without an object.
StartIconKey(r, g) ==
  /\ "icon" \in Ops
  /\ Alive(g)
  /\ Open(r, g, "setIconKey", {}, 0)
  /\ UNCHANGED stores

StartIcon(r, g) ==
  /\ "icon" \in Ops
  /\ Alive(g)
  /\ Open(r, g, "putIcon", {}, 0)
  /\ UNCHANGED stores

PutIconObject(r) ==
  /\ apc[r] = "putIcon"
  /\ icons' = icons \cup {aset[r]}
  /\ Goto(r, "setIconKey", {})
  /\ UNCHANGED <<rows, issued, objects, staged, search, queues>>

SetIconKey(r) ==
  /\ apc[r] = "setIconKey"
  /\ iconKey' = IF ragRow[aset[r]] = "gone" THEN iconKey ELSE iconKey \cup {aset[r]}
  /\ Respond(r)
  /\ UNCHANGED <<ragRow, docRows, batchRows, blobs, search, queues>>

-----------------------------------------------------------------------------
(* POST /rags/{g}/imports/archive: the row of the batch, its archive in     *)
(* staging, the job.  POST /admin/rags/{g}/imports/s3: the row, the job.   *)

StartArchive(r, b) ==
  /\ "archive" \in Ops
  /\ b \in Archives
  /\ Alive(BatchRag[b])
  /\ batchRow[b] = "none"
  /\ Open(r, b, "stage", {}, 0)
  /\ batchRow' = [batchRow EXCEPT ![b] = "pending"]
  /\ UNCHANGED <<ragRows, docRows, batchCreated, blobs, search, queues>>

StageArchive(r) ==
  /\ apc[r] = "stage"
  /\ staged' = staged \cup {aset[r]}
  /\ Goto(r, "enqueueBatch", {})
  /\ UNCHANGED <<rows, issued, objects, icons, search, queues>>

\* An archive over the limit is a 413; the row of the batch stays as it is.
RefuseArchive(r) ==
  /\ "tooBig" \in Faults
  /\ apc[r] = "stage"
  /\ Respond(r)
  /\ UNCHANGED stores

ImportFromStaging(r, b) ==
  /\ "prefix" \in Ops
  /\ b \in Batches \ Archives
  /\ Alive(BatchRag[b])
  /\ batchRow[b] = "none"
  /\ Open(r, b, "enqueueBatch", {}, 0)
  /\ batchRow' = [batchRow EXCEPT ![b] = "pending"]
  /\ UNCHANGED <<ragRows, docRows, batchCreated, blobs, search, queues>>

EnqueueBatch(r) ==
  /\ apc[r] = "enqueueBatch"
  /\ maintQ' = maintQ \cup {aset[r]}
  /\ Respond(r)
  /\ UNCHANGED <<rows, blobs, search, ingestQ>>

-----------------------------------------------------------------------------
\* The process restarts, or a store refuses the next step: the request ends.
ApiError(r) ==
  /\ "api" \in Faults
  /\ apc[r] # "idle"
  /\ Respond(r)
  /\ UNCHANGED stores

\* The steps a request in flight owes its client.
ApiContinue(r) ==
  \/ \E d \in Docs : PutObject(r, d)
  \/ RejectOverQuota(r) \/ LookupHash(r) \/ DiscardDuplicate(r)
  \/ InsertRows(r)
  \/ \E d \in Docs : EnqueueIngest(r, d)
  \/ RecordJobs(r) \/ FinishUpload(r)
  \/ DeleteRow(r) \/ EnqueuePurge(r)
  \/ SoftDelete(r) \/ EnqueuePurgeRag(r)
  \/ PutIconObject(r) \/ SetIconKey(r)
  \/ StageArchive(r) \/ EnqueueBatch(r)

ApiNext ==
  \/ \E g \in Rags : CreateRag(g)
  \/ \E r \in Requests :
       \/ \E g \in Rags : StartUpload(r, g) \/ StartDeleteRag(r, g) \/ StartIcon(r, g)
       \/ \E g \in Rags, S \in SUBSET Foreign :
            StartBucket(r, g, S) \/ CreateFromBucket(r, g, S)
       \/ \E d \in Docs : StartDelete(r, d)
       \/ \E b \in Batches : StartArchive(r, b) \/ ImportFromStaging(r, b)
       \/ RefuseArchive(r)
       \/ ApiContinue(r)
       \/ ApiError(r)
=============================================================================
