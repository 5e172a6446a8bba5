---------------------------- MODULE ArchivePlan -----------------------------
(***************************************************************************)
(* One archive: app/archive.py decides from the central directory what to  *)
(* take, then expand_archive (app/tasks/jobs.py) reads each chosen entry   *)
(* and registers it.  The module Imports has the steps of a registration   *)
(* and abstracts from the entries; here it is the other way round.         *)
(***************************************************************************)
EXTENDS Naturals, Sequences, FiniteSets, FiniteSetsExt

CONSTANTS
  Archives,    \* central directories, sequences of entries
  Contents,    \* bodies of entries
  Bases,       \* names without suffix and counters, "" if safe_name refuses it
  Folders,     \* what an entry's path has before its name
  Extensions,  \* suffixes, with the empty one
  Lower,       \* str.lower on Extensions
  Nested,      \* _NESTED_ARCHIVE_SUFFIXES
  Allowed,     \* allowed_suffixes
  MaxEntries,  \* archive_max_entries
  MaxTotal,    \* archive_max_uncompressed
  MaxRatio,    \* archive_max_ratio
  MaxFile      \* archive_max_file_size

\* The stem "doc_1_2" is the base "doc" with the counters <<1, 2>>.
Names == [base : Bases, counters : Seq(Nat), suffix : Extensions]

RawNames == [at : Folders, base : Bases, counters : Seq(Nat), suffix : Extensions]

Entries == [raw : RawNames, dir : BOOLEAN, encrypted : BOOLEAN,
            size : Nat, packed : Nat, body : Contents]

ASSUME ArchivePlanAssumption ==
  /\ \A a \in Archives : a \in Seq(Entries)
  /\ Lower \in [Extensions -> Extensions]

VARIABLES
  archive,   \* the staged zip
  phase,     \* where expand_archive is
  pos,       \* the next entry of the archive, then of the plan
  entries,   \* ArchivePlan.entries
  skipped,   \* Len(ArchivePlan.skipped), then with those found in the set
  have,      \* contents the set has
  found,     \* contents the set had when this batch looked for them
  created,   \* contents this batch has registered, in order
  batch      \* import_batches: status and counts

vars == <<archive, phase, pos, entries, skipped, have, found, created, batch>>

Batches == [status : {"queued", "processing", "success", "rejected", "failed"},
            created : Nat, skipped : Nat, total : Nat]

\* Every variable has its type.
TypeOK ==
  /\ archive \in Archives
  /\ phase \in {"open", "check", "plan", "register", "insert", "done"}
  /\ pos \in Nat \ {0}
  /\ entries \in Seq([name : Names, raw : RawNames])
  /\ skipped \in Nat
  /\ have \subseteq Contents /\ found \subseteq Contents
  /\ created \in Seq(Contents)
  /\ batch \in Batches

Init ==
  /\ archive \in Archives
  /\ phase = "open"
  /\ pos = 1
  /\ entries = <<>>
  /\ skipped = 0
  /\ have = {} /\ found = {}
  /\ created = <<>>
  /\ batch = [status |-> "queued", created |-> 0, skipped |-> 0, total |-> 0]

-----------------------------------------------------------------------------
(* app/archive.py.                                                         *)

\* infolist() without the directories.
FilesBefore(p) == {i \in 1..Len(archive) : i < p /\ ~archive[i].dir}

Files == FilesBefore(Len(archive) + 1)

\* The checks before anything is unpacked.  A stored entry of no size has no
\* ratio.
Rejected ==
  \/ \E i \in 1..Len(archive) : archive[i].encrypted
  \/ Cardinality(Files) > MaxEntries
  \/ MapThenSumSet(LAMBDA i : archive[i].size, Files) > MaxTotal
  \/ \E i \in Files : archive[i].packed > 0 /\ archive[i].size > MaxRatio * archive[i].packed

\* safe_name: the folders go.
FlatName(raw) == [base |-> raw.base, counters |-> raw.counters, suffix |-> raw.suffix]

\* An entry to be taken: named, of an accepted suffix, not an archive itself,
\* and not too large.
Wanted(e) ==
  /\ ~e.dir
  /\ e.raw.base # ""
  /\ Lower[e.raw.suffix] \in Allowed \ Nested
  /\ e.size <= MaxFile

\* The name tried in round k; round 0 tries the flat name.
Tried(raw, k) ==
  IF k = 0 THEN FlatName(raw)
  ELSE [base |-> raw.base, counters |-> Append(raw.counters, k),
        suffix |-> Lower[raw.suffix]]

Seen(n) == \E i \in 1..Len(entries) : entries[i].name = n

SameName(raw) == {i \in 1..Len(entries) : FlatName(entries[i].raw) = FlatName(raw)}

\* Mutant: the counter is how often the name came, whatever else was called so.
FirstFreeByCount(raw, k) == k = Cardinality(SameName(raw))

FirstFree(raw, k) == ~Seen(Tried(raw, k)) /\ \A i \in 0..k - 1 : Seen(Tried(raw, i))

-----------------------------------------------------------------------------
(* expand_archive.                                                         *)

Finish(status, c, s, t) ==
  /\ batch' = [status |-> status, created |-> c, skipped |-> s, total |-> t]
  /\ phase' = "done"

\* The batch may be gone; its archive is then left unread.
Open ==
  /\ phase = "open"
  /\ \/ phase' = "check" /\ batch' = [batch EXCEPT !.status = "processing"]
     \/ phase' = "done" /\ UNCHANGED batch
  /\ UNCHANGED <<archive, pos, entries, skipped, have, found, created>>

Check ==
  /\ phase = "check"
  /\ \/ Rejected /\ Finish("rejected", 0, 0, 0)
     \/ ~Rejected /\ phase' = "plan" /\ UNCHANGED batch
  /\ UNCHANGED <<archive, pos, entries, skipped, have, found, created>>

\* Mutant: a counter is forgotten where an entry is too large.
PlanEntryQuietly ==
  /\ phase = "plan" /\ pos <= Len(archive)
  /\ LET e == archive[pos] IN
       IF Wanted(e)
       THEN /\ \E k \in 0..Len(entries) :
                 /\ FirstFree(e.raw, k)
                 /\ entries' = Append(entries, [name |-> Tried(e.raw, k), raw |-> e.raw])
            /\ UNCHANGED skipped
       ELSE /\ skipped' = IF e.dir \/ e.size > MaxFile THEN skipped ELSE skipped + 1
            /\ UNCHANGED entries
  /\ pos' = pos + 1
  /\ UNCHANGED <<archive, phase, have, found, created, batch>>

\* One entry: passed over, skipped, or taken under a name not seen yet.
PlanEntry ==
  /\ phase = "plan" /\ pos <= Len(archive)
  /\ LET e == archive[pos] IN
       \/ e.dir /\ UNCHANGED <<entries, skipped>>
       \/ ~e.dir /\ ~Wanted(e) /\ skipped' = skipped + 1 /\ UNCHANGED entries
       \/ /\ Wanted(e)
          /\ \E k \in 0..Len(entries) :
               /\ FirstFree(e.raw, k)
               /\ entries' = Append(entries, [name |-> Tried(e.raw, k), raw |-> e.raw])
          /\ UNCHANGED skipped
  /\ pos' = pos + 1
  /\ UNCHANGED <<archive, phase, have, found, created, batch>>

\* Mutant: the first entry is numbered zero.
StartAtZero ==
  /\ phase = "plan" /\ pos > Len(archive)
  /\ phase' = "register"
  /\ pos' = 0
  /\ UNCHANGED <<archive, entries, skipped, have, found, created, batch>>

StartRegistering ==
  /\ phase = "plan" /\ pos > Len(archive)
  /\ phase' = "register"
  /\ pos' = 1
  /\ UNCHANGED <<archive, entries, skipped, have, found, created, batch>>

\* Mutant: the entry is looked up by its flat name.
ReadFlat(a, raw) ==
  LET same == {i \in 1..Len(a) : FlatName(a[i].raw) = FlatName(raw)}
  IN  a[CHOOSE i \in same : \A j \in same : j <= i].body

\* ZipFile.read by name: of the entries of this name, the last.
Read(a, raw) ==
  LET same == {i \in 1..Len(a) : a[i].raw = raw}
  IN  a[CHOOSE i \in same : \A j \in same : j <= i].body

\* _register_document looks for the content of the next entry, and returns None
\* for one that the set has.
Lookup ==
  /\ phase = "register" /\ pos <= Len(entries)
  /\ LET c == Read(archive, entries[pos].raw) IN
       \/ /\ c \in have
          /\ found' = found \cup {c} /\ skipped' = skipped + 1 /\ pos' = pos + 1
          /\ UNCHANGED phase
       \/ c \notin have /\ phase' = "insert" /\ UNCHANGED <<found, skipped, pos>>
  /\ UNCHANGED <<archive, entries, have, created, batch>>

\* The object is put, then its row inserted.  A row of this content that came
\* in between (uq_documents_rag_hash) fails the batch.
Insert ==
  /\ phase = "insert"
  /\ LET c == Read(archive, entries[pos].raw) IN
       \/ /\ c \notin have
          /\ have' = have \cup {c} /\ created' = Append(created, c) /\ pos' = pos + 1
          /\ phase' = "register"
          /\ UNCHANGED batch
       \/ c \in have /\ Finish("failed", 0, 0, 0) /\ UNCHANGED <<have, created, pos>>
  /\ UNCHANGED <<archive, entries, skipped, found>>

Succeed ==
  /\ phase = "register" /\ pos > Len(entries)
  /\ Finish("success", Len(created), skipped, Len(created) + skipped)
  /\ UNCHANGED <<archive, pos, entries, skipped, have, found, created>>

\* Any step may raise: a damaged entry, a store that is away.  The counts are
\* lost.
Fail ==
  /\ phase \in {"open", "check", "plan", "register", "insert"}
  /\ Finish("failed", 0, 0, 0)
  /\ UNCHANGED <<archive, pos, entries, skipped, have, found, created>>

\* Meanwhile contents come by uploads, and the owner deletes documents, also
\* those that this batch has brought.
Elsewhere(c) ==
  /\ phase \in {"register", "insert"}
  /\ have' \in {have \cup {c}, have \ {c}}
  /\ UNCHANGED <<archive, phase, pos, entries, skipped, found, created, batch>>

Done == phase = "done" /\ UNCHANGED vars

Next ==
  \/ Open \/ Check \/ PlanEntry \/ StartRegistering \/ Lookup \/ Insert \/ Succeed \/ Fail
  \/ \E c \in Contents : Elsewhere(c)
  \/ Done

Spec == Init /\ [][Next]_vars

-----------------------------------------------------------------------------
(* Properties.                                                             *)

\* The counts a user sees under a finished batch add up to the files of the
\* archive, and those created to the documents there are: each entry had one
\* verdict, in the plan or at its registration (jobs.py:224-247).
VerdictsAddUp ==
  batch.status = "success" =>
    /\ batch.total = batch.created + batch.skipped
    /\ batch.total = Cardinality(Files)
    /\ batch.created = Len(created)

\* No two entries of a plan have a name in common, also when an entry is called
\* what another is renamed to (archive.py:109).
NamesStayApart ==
  \A i, k \in 1..Len(entries) : entries[i].name = entries[k].name => i = k

RawNamesDiffer ==
  \A i, k \in 1..Len(archive) : archive[i].raw = archive[k].raw => i = k

Arrived(c) == c \in found \/ \E i \in 1..Len(created) : created[i] = c

\* Entries that differ in their folder only are renamed, not lost ("the contents
\* differ, so they must not be lost", test_archive.py:62): a batch that succeeded
\* has made a document of the content of every entry that was to be taken, or
\* has found one in the set when it came to it.  What the owner deletes
\* meanwhile may be gone again.
EveryContentArrives ==
  batch.status = "success" /\ RawNamesDiffer =>
    \A i \in 1..Len(archive) : Wanted(archive[i]) => Arrived(archive[i].body)

-----------------------------------------------------------------------------
(* The inductive invariant.                                                *)

\* The wanted entries before p are in the plan, and nothing else is.
PlannedBefore(p) ==
  \A i \in 1..Len(archive) :
    i < p /\ Wanted(archive[i]) => \E k \in 1..Len(entries) : entries[k].raw = archive[i].raw

PlanIsOfArchive ==
  \A k \in 1..Len(entries) : \E i \in 1..Len(archive) : entries[k].raw = archive[i].raw

\* The contents of the plan before p were found or registered.
ArrivedBefore(p) == \A k \in 1..Len(entries) : k < p => Arrived(Read(archive, entries[k].raw))

\* Up to pos every entry of the archive has its verdict.
PlanInv ==
  /\ phase \in {"open", "check"} => pos = 1 /\ entries = <<>> /\ skipped = 0 /\ created = <<>>
  /\ phase = "plan" =>
       /\ pos <= Len(archive) + 1 /\ created = <<>>
       /\ Len(entries) + skipped = Cardinality(FilesBefore(pos))
       /\ PlannedBefore(pos)
  /\ PlanIsOfArchive

\* Up to pos every entry of the plan has arrived.
RegisterInv ==
  /\ phase = "insert" => pos <= Len(entries)
  /\ phase \in {"register", "insert"} =>
       /\ pos <= Len(entries) + 1
       /\ Len(created) + skipped + Len(entries) + 1 = Cardinality(Files) + pos
       /\ PlannedBefore(Len(archive) + 1)
       /\ ArrivedBefore(pos)

BatchInv == batch.status = "success" => phase = "done"

IInv ==
  /\ TypeOK
  /\ PlanInv /\ RegisterInv /\ BatchInv
  /\ NamesStayApart /\ VerdictsAddUp /\ EveryContentArrives
=============================================================================
