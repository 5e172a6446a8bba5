---------------------------- MODULE BucketImport ----------------------------
(***************************************************************************)
(* Importing from a bucket of somebody else (app/bucket_import.py and the   *)
(* from-bucket handlers): which objects of a listing or of an explicit list *)
(* become documents of the set, and what the caller is told of the others. *)
(* The handlers run one at a time here; module IngestService interleaves    *)
(* them with everything else.                                               *)
(***************************************************************************)
EXTENDS Integers, SequencesExt

CONSTANTS
  Listing,      \* the keys of the bucket in the order S3 lists them
  Suffix,       \* the extension of a key
  Etag,         \* the ETag of the object under a key
  Size,         \* its size
  Allowed,      \* settings.allowed_suffixes
  MaxFiles,     \* bucket_import_max_files
  MaxFileSize,  \* bucket_import_max_file_size
  MaxBytes,     \* rag_max_bytes_per_set
  Requested,    \* lists of keys callers ask for
  Asked         \* lists of extensions callers ask for, as sets

Keys == Range(Listing)

ASSUME BucketAssumption ==
  /\ MaxFiles \in Nat \ {0} /\ MaxFileSize \in Nat /\ MaxBytes \in Nat
  /\ Size \in [Keys -> Nat]
  /\ DOMAIN Suffix = Keys /\ DOMAIN Etag = Keys
  /\ Listing \in Seq(Keys) /\ IsInjective(Listing)
  /\ \A keys \in Requested : keys \in Seq(Keys) /\ keys # <<>> /\ IsInjective(keys)

VARIABLES
  bucket,   \* keys present in the foreign bucket
  created,  \* the set exists
  held,     \* keys the documents of the set refer to
  reply     \* accepted and rejected of the last import, and what it was asked

vars == <<bucket, created, held, reply>>

-----------------------------------------------------------------------------
(* bucket_import.py                                                        *)

NormalizeExtensions(asked) == IF asked = {} THEN Allowed ELSE asked \cap Allowed

\* Mutant: a verdict without its reason.
BareVerdict(keys, reason) == [i \in DOMAIN keys |-> [key |-> keys[i]]]

Verdict(keys, reason) == [i \in DOMAIN keys |-> [key |-> keys[i], reason |-> reason]]

Reject(sel, key, reason) == [sel EXCEPT !.rejected = @ \o Verdict(<<key>>, reason)]

Accept(sel, key) == [sel EXCEPT !.accepted = Append(@, key)]

Nothing == [accepted |-> <<>>, rejected |-> <<>>]

\* What the listing alone says of an object: its extension and its size.
Fit(k, asked) ==
  /\ Suffix[k] \in NormalizeExtensions(asked)
  /\ Size[k] \in 1..MaxFileSize

\* What is in the list so far decides on the next object: the limit is tested
\* before the duplicate, and counts accepted objects only.
Judge(sel, k, asked) ==
  LET full == Len(sel.accepted) >= MaxFiles
      seen == \E a \in ToSet(sel.accepted) : Etag[a] = Etag[k]
  IN  CASE ~Fit(k, asked) -> Reject(sel, k, "unfit")
        [] Fit(k, asked) /\ full -> Reject(sel, k, "limit")
        [] Fit(k, asked) /\ ~full /\ seen -> Reject(sel, k, "duplicate")
        [] OTHER -> Accept(sel, k)

\* Mutant: one object less than the limit.
SelectOneLess(keys, asked) ==
  LET sel[i \in 0..Len(keys)] ==
        IF i = 0 THEN Nothing
        ELSE IF Fit(keys[i], asked) /\ Len(sel[i - 1].accepted) < MaxFiles - 1
             THEN Accept(sel[i - 1], keys[i])
             ELSE Reject(sel[i - 1], keys[i], "limit")
  IN  sel[Len(keys)]

Select(keys, asked) ==
  LET sel[i \in 0..Len(keys)] ==
        IF i = 0 THEN Nothing ELSE Judge(sel[i - 1], keys[i], asked)
  IN  sel[Len(keys)]

\* Mutants: nothing is known; what is known is dropped without a word.
DropNothing(sel, known) == sel

DropSilently(sel, known) ==
  [sel EXCEPT !.accepted = SelectSeq(@, LAMBDA k : Etag[k] \notin known)]

\* A loop over what was accepted begins with the refusals of the loop before.
Again(sel) == [sel EXCEPT !.accepted = <<>>]

DropKnown(sel, known) ==
  LET new[i \in 0..Len(sel.accepted)] ==
        IF i = 0 THEN Again(sel)
        ELSE LET k == sel.accepted[i]
             IN  IF Etag[k] \in known THEN Reject(new[i - 1], k, "known")
                                      ELSE Accept(new[i - 1], k)
  IN  new[Len(sel.accepted)]

TotalSize(S) == FoldFunctionOnSet(LAMBDA a, b : a + b, 0, Size, S)

\* Mutant: used is compared before the object is added to it.
WeighLate(s, k) ==
  [sel  |-> IF s.used > MaxBytes THEN Reject(s.sel, k, "quota") ELSE Accept(s.sel, k),
   used |-> s.used + Size[k]]

\* used grows with every object, taken or not.
Weigh(s, k) ==
  LET total == s.used + Size[k]
  IN  [sel  |-> IF total > MaxBytes THEN Reject(s.sel, k, "quota") ELSE Accept(s.sel, k),
       used |-> total]

\* The loop of add_documents_from_bucket over what is left.
FitQuota(sel, used) ==
  LET run[i \in 0..Len(sel.accepted)] ==
        IF i = 0 THEN [sel |-> Again(sel), used |-> used]
        ELSE Weigh(run[i - 1], sel.accepted[i])
  IN  run[Len(sel.accepted)].sel

\* The elements of a list that are in S, in their order.
Within(list, S) ==
  LET part[i \in 0..Len(list)] ==
        IF i = 0 THEN <<>>
        ELSE IF list[i] \in S THEN Append(part[i - 1], list[i]) ELSE part[i - 1]
  IN  part[Len(list)]

\* list_objects stops after twice the limit.
ListObjects == LET here == Within(Listing, bucket)
               IN  SubSeq(here, 1, Min({Len(here), 2 * MaxFiles}))

-----------------------------------------------------------------------------
(* The handlers.                                                           *)

Answer(asked, sel) ==
  reply' = [asked |-> ToSet(asked), accepted |-> sel.accepted, rejected |-> sel.rejected]

\* POST /rags/from-bucket: nothing to accept is a 400, and no set is made.
CreateFromBucket(asked) ==
  LET sel == Select(ListObjects, asked) IN
  /\ ~created
  /\ sel.accepted # <<>>
  /\ created' = TRUE
  /\ held' = ToSet(sel.accepted)
  /\ Answer(ListObjects, sel)
  /\ UNCHANGED bucket

Register(keys, missing, asked) ==
  LET known == {Etag[k] : k \in held}
      sel   == Select(keys, asked)
      all   == [sel EXCEPT !.rejected = @ \o missing]
      fit   == FitQuota(DropKnown(all, known), TotalSize(held))
  IN  /\ held' = held \cup ToSet(fit.accepted)
      /\ Answer(keys \o [i \in DOMAIN missing |-> missing[i].key], fit)
      /\ UNCHANGED <<bucket, created>>

\* POST /rags/{id}/documents/from-bucket with a prefix.
AddByPrefix(asked) ==
  /\ created
  /\ ListObjects # <<>>
  /\ Register(ListObjects, <<>>, asked)

\* The same with explicit keys, a HEAD for each: what is gone is rejected.
AddByKeys(keys, asked) ==
  LET here == Within(keys, bucket)
      gone == Within(keys, Keys \ bucket)
  IN  /\ created
      /\ Register(here, Verdict(gone, "missing"), asked)

DeleteDocument(k) ==
  /\ k \in held
  /\ held' = held \ {k}
  /\ UNCHANGED <<bucket, created, reply>>

\* The owner of the bucket adds and removes objects as they like.
BucketChanges ==
  /\ \E k \in Keys : bucket' \in {bucket \cup {k}, bucket \ {k}}
  /\ UNCHANGED <<created, held, reply>>

Init ==
  /\ bucket \in SUBSET Keys
  /\ created = FALSE
  /\ held = {}
  /\ reply = [asked |-> {}, accepted |-> <<>>, rejected |-> <<>>]

Next ==
  \/ \E asked \in Asked : CreateFromBucket(asked) \/ AddByPrefix(asked)
  \/ \E keys \in Requested, asked \in Asked : AddByKeys(keys, asked)
  \/ \E k \in Keys : DeleteDocument(k)
  \/ BucketChanges

Spec == Init /\ [][Next]_vars

\* Nothing happens in the bucket or to the set but that the caller, who made the
\* set of the prefix, repeats its import, as README.md:506-509 invites to.
RepeatSpec ==
  Init /\ [][CreateFromBucket({}) \/ AddByPrefix({})]_vars /\ WF_vars(AddByPrefix({}))

-----------------------------------------------------------------------------
(* Properties.                                                             *)

Reasons == {"unfit", "limit", "duplicate", "known", "quota", "missing"}

\* Each variable has its type, and every refusal names its reason.
TypeOK ==
  /\ bucket \subseteq Keys
  /\ created \in BOOLEAN
  /\ held \subseteq Keys
  /\ reply.asked \subseteq Keys
  /\ ToSet(reply.accepted) \subseteq Keys
  /\ ToSet(reply.rejected) \subseteq [key : Keys, reason : Reasons]

\* unique (rag_id, content_hash) is never hit: what select and drop_known let
\* through differs from the rows of the set and from each other, so that the
\* one commit of all rows cannot fail.
RowsNeverCollide == \A k, l \in held : Etag[k] = Etag[l] => k = l

\* Every object the caller asked about gets exactly one verdict.
OneVerdictEach ==
  LET verdicts == reply.accepted \o [i \in DOMAIN reply.rejected |-> reply.rejected[i].key]
  IN  IsInjective(verdicts) /\ ToSet(verdicts) = reply.asked

\* An import into an existing set never takes it over its quota, nor a set
\* over it any further.
ImportKeepsQuota ==
  [][created /\ held \subseteq held' /\ held # held' => TotalSize(held') <= MaxBytes]_vars

\* Repeating the import of a prefix takes what is new (README.md:506-509,
\* schemas/rags.py:178-181): an object of use that stays in the bucket and
\* fits beside what the set holds comes into it, itself or its equal.
Useful(k) == k \in bucket /\ Fit(k, {})

Covered(k) == \E l \in held : Etag[l] = Etag[k]

FitsBeside(k) == TotalSize(held \cup {k}) <= MaxBytes

RepeatedImportTakesNew ==
  \A k \in Keys : (created /\ Useful(k)) ~> (Covered(k) \/ ~Useful(k) \/ ~FitsBeside(k))

\* Below the limits (all of the bucket is listed, no more of it is of use than
\* one import takes, and all of that fits the quota) one more import is enough.
Small ==
  LET useful == {k \in Keys : Useful(k)} IN
  /\ Cardinality(bucket) <= 2 * MaxFiles
  /\ Cardinality(useful) <= MaxFiles
  /\ TotalSize(useful \cup held) <= MaxBytes

SmallPrefixImported ==
  [][AddByPrefix({}) /\ Small => \A k \in Keys : Useful(k) => Covered(k)']_vars
=============================================================================
