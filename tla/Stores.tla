------------------------------- MODULE Stores -------------------------------
(***************************************************************************)
(* The stores the ingestion service shares between its API process and its *)
(* RQ workers: the control plane in Postgres (rag_sets, documents,         *)
(* ingest_jobs), the objects in SeaweedFS, the chunks in OpenSearch and    *)
(* the two RQ queues in Redis.  There is no transaction across them, so    *)
(* every operation of Api and Worker is a sequence of steps, each of which *)
(* changes one of these stores.                                            *)
(***************************************************************************)
EXTENDS Naturals, FiniteSets

CONSTANTS
  Rags,             \* identifiers of rag sets
  Docs,             \* document identifiers uuid4 can return
  Contents,         \* values of content_hash
  Chunks,           \* chunks one document can be cut into
  RagOf,            \* the set a document is registered in
  ContentOf,        \* the content_hash of a document
  Foreign,          \* documents that refer to a bucket of somebody else
  Batches,          \* identifiers of import batches
  OriginOf,         \* documents.origin_ref: the batch of a document, or None
  BatchRag,         \* the set a batch imports into
  Archives,         \* batches of kind "archive"; the others are "s3"
  MaxDocs,          \* rag_max_bytes_per_set, in documents of one size
  RefreshAfterLoad, \* settings.refresh_after_load
  Faults,           \* the failures that happen: "api", "tooBig" (an archive),
                    \* "worker", "import" and "purge" (a step of an indexing,
                    \* import or purge job), "crash"
  None              \* "no job", "no set", "no batch"

ASSUME StoresAssumption ==
  /\ IsFiniteSet(Docs) /\ IsFiniteSet(Chunks)
  /\ RagOf \in [Docs -> Rags]
  /\ ContentOf \in [Docs -> Contents]
  /\ Foreign \subseteq Docs
  /\ BatchRag \in [Batches -> Rags]
  /\ Archives \subseteq Batches
  /\ OriginOf \in [Docs -> Batches \cup {None}]
  /\ \A d \in Docs : OriginOf[d] \in Batches => RagOf[d] = BatchRag[OriginOf[d]]
  /\ \A d \in Foreign : OriginOf[d] = None
  /\ MaxDocs \in Nat
  /\ RefreshAfterLoad \in BOOLEAN
  /\ Docs \cap Rags = {} /\ Docs \cap Batches = {} /\ Rags \cap Batches = {}
  /\ None \notin Docs \cup Rags \cup Batches

VARIABLES
  ragRow,       \* rag_sets: no row, visible, soft-deleted, row removed
  iconKey,      \* sets whose row has an icon_key
  docRow,       \* documents.status, or the absence of the row
  chunksCount,  \* documents.chunks_count
  jobRow,       \* ingest_jobs of a document: its started_at and finished_at
  batchRow,     \* import_batches.status, or the absence of the row
  batchCreated, \* import_batches.documents_created
  issued,       \* identifiers uuid4 has returned
  objects,      \* documents whose object lies in rag-docs
  icons,        \* sets whose object lies in rag-icons
  staged,       \* batches whose archive lies in rag-staging
  index,        \* chunks of a document OpenSearch has stored
  visible,      \* chunks of a document a search or a query sees
  ingestQ,      \* queue "ingest": ingest_document jobs
  maintQ        \* queue "maintenance": purge and import jobs, each named by
                \* the document, the set or the batch it is about

ragRows   == <<ragRow, iconKey>>
docRows   == <<docRow, chunksCount, jobRow>>
batchRows == <<batchRow, batchCreated>>
rows      == <<ragRows, docRows, batchRows>>
blobs     == <<issued, objects, icons, staged>>
search    == <<index, visible>>
queues    == <<ingestQ, maintQ>>
stores    == <<rows, blobs, search, queues>>

RagStates  == {"none", "alive", "hidden", "gone"}
LiveStates == {"pending", "processing", "success", "failed"}
DocStates  == LiveStates \cup {"none", "deleted"}
JobStates  == {"none", "recorded", "started", "finished"}
BatchLive  == {"pending", "processing", "success", "failed", "rejected"}

RowsTypeOK ==
  /\ ragRow \in [Rags -> RagStates]
  /\ iconKey \subseteq Rags
  /\ docRow \in [Docs -> DocStates]
  /\ chunksCount \in [Docs -> Nat]
  /\ jobRow \in [Docs -> JobStates]
  /\ batchRow \in [Batches -> BatchLive \cup {"none", "deleted"}]
  /\ batchCreated \in [Batches -> Nat]

BlobsTypeOK ==
  /\ issued \subseteq Docs
  /\ objects \subseteq Docs
  /\ icons \subseteq Rags
  /\ staged \subseteq Batches

SearchTypeOK ==
  /\ index \in [Docs -> SUBSET Chunks]
  /\ visible \in [Docs -> SUBSET Chunks]

QueuesTypeOK ==
  /\ ingestQ \subseteq Docs
  /\ maintQ \subseteq Docs \cup Rags \cup Batches

StoresTypeOK == RowsTypeOK /\ BlobsTypeOK /\ SearchTypeOK /\ QueuesTypeOK

StoresInit ==
  /\ ragRow = [g \in Rags |-> "none"]
  /\ iconKey = {}
  /\ docRow = [d \in Docs |-> "none"]
  /\ chunksCount = [d \in Docs |-> 0]
  /\ jobRow = [d \in Docs |-> "none"]
  /\ batchRow = [b \in Batches |-> "none"]
  /\ batchCreated = [b \in Batches |-> 0]
  /\ issued = {} /\ objects = {} /\ icons = {} /\ staged = {}
  /\ index = [d \in Docs |-> {}]
  /\ visible = [d \in Docs |-> {}]
  /\ ingestQ = {} /\ maintQ = {}

-----------------------------------------------------------------------------
(* Reading the control plane.                                              *)

Live(d)  == docRow[d] \in LiveStates
Alive(g) == ragRow[g] = "alive"          \* what _owned lets through
DocsOf(g) == {d \in Docs : RagOf[d] = g}
RowsOf(g) == {d \in DocsOf(g) : Live(d)}

FindByHash(g, c)  == {d \in RowsOf(g) : ContentOf[d] = c}
ExistingHashes(g) == {ContentOf[d] : d \in RowsOf(g)}
TotalBytes(g)     == Cardinality(RowsOf(g))
Distinct(S)       == \A d, e \in S : ContentOf[d] = ContentOf[e] => d = e

\* Mutant: what is pending is asked for first.
RagStatusPendingFirst(g) ==
  LET S == {docRow[d] : d \in RowsOf(g)} IN
  CASE S = {} -> "empty"
    [] S \cap {"pending", "processing"} # {} -> "ingesting"
    [] "success" \in S -> "ready"
    [] OTHER -> "failed"

\* DocumentCounts.status: what the owner, and the search, see of a set.
RagStatus(g) ==
  LET S == {docRow[d] : d \in RowsOf(g)} IN
  IF S = {} THEN "empty"
  ELSE IF "success" \in S THEN "ready"
  ELSE IF S \cap {"pending", "processing"} # {} THEN "ingesting"
  ELSE "failed"

(* Writing it: each operator sets docRow, chunksCount and jobRow.          *)

\* A new row violates neither the foreign key nor unique (rag_id, content_hash).
CanInsert(S) ==
  /\ Distinct(S)
  /\ \A d \in S : /\ ragRow[RagOf[d]] \in {"alive", "hidden"}
                  /\ FindByHash(RagOf[d], ContentOf[d]) = {}

\* Mutant: a status documents.status does not allow.
InsertAsQueued(S) ==
  /\ docRow' = [d \in Docs |-> IF d \in S THEN "queued" ELSE docRow[d]]
  /\ UNCHANGED <<chunksCount, jobRow>>

InsertDocuments(S) ==
  /\ docRow' = [d \in Docs |-> IF d \in S THEN "pending" ELSE docRow[d]]
  /\ UNCHANGED <<chunksCount, jobRow>>

\* ON DELETE CASCADE takes the rows of ingest_jobs along.
DeleteDocuments(S) ==
  /\ docRow' = [d \in Docs |-> IF d \in S /\ Live(d) THEN "deleted" ELSE docRow[d]]
  /\ chunksCount' = [d \in Docs |-> IF d \in S THEN 0 ELSE chunksCount[d]]
  /\ jobRow' = [d \in Docs |-> IF d \in S THEN "none" ELSE jobRow[d]]

DeleteBatches(S) ==
  /\ batchRow' = [b \in Batches |->
                    IF b \in S /\ batchRow[b] \in BatchLive THEN "deleted" ELSE batchRow[b]]
  /\ batchCreated' = [b \in Batches |-> IF b \in S THEN 0 ELSE batchCreated[b]]

\* UPDATE import_batches WHERE id = b: no row, no effect.
SetBatch(b, status, created) ==
  /\ batchRow' = [batchRow EXCEPT ![b] = IF @ \in BatchLive THEN status ELSE @]
  /\ batchCreated' = [batchCreated EXCEPT ![b] = IF batchRow[b] \in BatchLive THEN created ELSE @]

\* UPDATE ... WHERE document_id = d touches only a row that is there.
StampJob(d, stamp) == [jobRow EXCEPT ![d] = IF @ = "none" THEN @ ELSE stamp]

\* status = "processing" and started_at in one transaction.
BeginDocument(d) ==
  /\ docRow' = [docRow EXCEPT ![d] = "processing"]
  /\ jobRow' = StampJob(d, "started")
  /\ UNCHANGED chunksCount

\* UPDATE documents WHERE id = d: no row, no effect.
MarkDocument(d, status, count) ==
  /\ docRow' = [docRow EXCEPT ![d] = IF Live(d) THEN status ELSE @]
  /\ chunksCount' = [chunksCount EXCEPT ![d] = IF Live(d) THEN count ELSE @]
  /\ jobRow' = StampJob(d, "finished")

-----------------------------------------------------------------------------
(* OpenSearch.                                                             *)

RefreshIndex == visible' = index /\ UNCHANGED index

BulkLoad(d, chunks) ==
  /\ index' = [index EXCEPT ![d] = @ \cup chunks]
  /\ UNCHANGED visible

\* delete_by_query finds only refreshed chunks; if it deleted any,
\* refresh=true makes that, and every write before it, visible.
DeleteByQuery(S) ==
  /\ index' = [d \in Docs |-> IF d \in S THEN index[d] \ visible[d] ELSE index[d]]
  /\ visible' = IF \E d \in S : visible[d] # {} THEN index' ELSE visible

\* index.refresh_interval: what was written becomes visible by itself.
PeriodicRefresh ==
  /\ visible # index
  /\ RefreshIndex
  /\ UNCHANGED <<rows, blobs, queues>>
=============================================================================
