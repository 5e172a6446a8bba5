------------------------- MODULE ArchivePlanProofs --------------------------
(***************************************************************************)
(* The import of an archive of any length, under any limits.               *)
(***************************************************************************)
EXTENDS ArchivePlan, FiniteSetTheorems, WellFoundedInduction, TLAPS

-----------------------------------------------------------------------------
(* The files of an archive, counted entry by entry.                        *)

\* Of the entries before any position finitely many are files.
LEMMA FilesAreFinite ==
  ASSUME TypeOK, NEW p \in Nat
  PROVE  IsFiniteSet(FilesBefore(p)) /\ Cardinality(FilesBefore(p)) \in Nat
<1>1. Len(archive) \in Nat
  BY ArchivePlanAssumption DEF TypeOK
<1>2. IsFiniteSet(1..Len(archive))
  BY <1>1, FS_Interval
<1>3. FilesBefore(p) \in SUBSET (1..Len(archive))
  BY DEF FilesBefore
<1> QED
  BY <1>2, <1>3, FS_Subset, FS_CardinalityType

\* No file comes before the first entry.
LEMMA NoFilesBeforeFirst ==
  ASSUME TypeOK
  PROVE  Cardinality(FilesBefore(1)) = 0
<1>1. FilesBefore(1) = {}
  BY DEF FilesBefore
<1> QED
  BY <1>1, FS_EmptySet

\* Passing an entry passes one file, or a directory.
LEMMA OneFileMore ==
  ASSUME TypeOK, NEW p \in 1..Len(archive)
  PROVE  Cardinality(FilesBefore(p + 1))
           = IF archive[p].dir THEN Cardinality(FilesBefore(p)) ELSE Cardinality(FilesBefore(p)) + 1
<1>1. Len(archive) \in Nat /\ p \in Nat
  BY ArchivePlanAssumption DEF TypeOK
<1>2. CASE archive[p].dir
  <2>1. FilesBefore(p + 1) = FilesBefore(p)
    BY <1>1, <1>2 DEF FilesBefore
  <2> QED
    BY <1>2, <2>1
<1>3. CASE ~archive[p].dir
  <2>1. FilesBefore(p + 1) = FilesBefore(p) \cup {p} /\ p \notin FilesBefore(p)
    BY <1>1, <1>3 DEF FilesBefore
  <2>2. IsFiniteSet(FilesBefore(p))
    BY <1>1, FilesAreFinite
  <2>3. Cardinality(FilesBefore(p) \cup {p}) = Cardinality(FilesBefore(p)) + 1
    BY <2>1, <2>2, FS_AddElement
  <2> QED
    BY <1>3, <2>1, <2>3
<1> QED
  BY <1>2, <1>3

\* Past the end all files have been passed.
LEMMA AllFilesBeforeEnd ==
  ASSUME TypeOK, NEW p \in Nat, p > Len(archive)
  PROVE  FilesBefore(p) = Files
<1>1. Len(archive) \in Nat
  BY ArchivePlanAssumption DEF TypeOK
<1> QED
  BY <1>1 DEF Files, FilesBefore

\* A set of positions that is not empty has a last one.
LEMMA LastExists ==
  ASSUME NEW n \in Nat, NEW S \in SUBSET (1..n), S # {}
  PROVE  \E i \in S : \A j \in S : j <= i
<1> DEFINE mirror == {m \in Nat : n - m \in S}
<1>1. mirror # {} /\ mirror \in SUBSET Nat
  <2>1. PICK i \in S : TRUE
    OBVIOUS
  <2>2. i \in 1..n
    OBVIOUS
  <2>3. n - i \in mirror
    BY <2>1, <2>2
  <2> QED
    BY <2>3
<1>2. PICK m \in mirror : \A k \in mirror : m <= k
  <2> DEFINE R == OpToRel(<, Nat)
  <2>1. \A a, b \in Nat : a < b => <<a, b>> \in R
    BY DEF OpToRel
  <2>2. IsWellFoundedOn(R, Nat)
    BY NatLessThanWellFounded
  <2> HIDE DEF R
  <2>3. \E m \in mirror : \A k \in mirror : <<k, m>> \notin R
    BY <1>1, <2>2, WFMin
  <2>4. PICK m \in mirror : \A k \in mirror : <<k, m>> \notin R
    BY <2>3
  <2>5. ASSUME NEW k \in mirror
        PROVE  m <= k
    <3>1. k \in Nat /\ m \in Nat /\ ~(k < m)
      BY <1>1, <2>1, <2>4
    <3> QED
      BY <3>1
  <2> QED
    BY <2>5
<1>3. ASSUME NEW j \in S
      PROVE  j <= n - m
  <2>1. j \in 1..n /\ m \in Nat /\ n - j \in Nat /\ n - (n - j) = j
    OBVIOUS
  <2>2. n - j \in mirror
    BY <2>1
  <2> QED
    BY <1>2, <2>1, <2>2
<1> QED
  BY <1>2, <1>3

\* When raw names differ, ZipFile.read returns the body of the entry meant.
LEMMA ReadFindsEntry ==
  ASSUME RawNamesDiffer, NEW i \in 1..Len(archive)
  PROVE  Read(archive, archive[i].raw) = archive[i].body
<1> DEFINE same == {j \in 1..Len(archive) : archive[j].raw = archive[i].raw}
<1>1. same = {i}
  BY DEF RawNamesDiffer
<1>2. (CHOOSE j \in same : \A l \in same : l <= j) = i
  <2>1. \E j \in same : \A l \in same : l <= j
    BY <1>1
  <2> QED
    BY <1>1, <2>1
<1> QED
  BY <1>2 DEF Read

\* What is defined by the archive stays while the archive does.
LEMMA ArchiveStays ==
  ASSUME UNCHANGED archive
  PROVE  /\ Files' = Files
         /\ \A p : FilesBefore(p)' = FilesBefore(p)
         /\ RawNamesDiffer' = RawNamesDiffer
BY DEF Files, FilesBefore, RawNamesDiffer

\* What is defined by the plan stays while the archive and the entries do.
LEMMA PlanStays ==
  ASSUME UNCHANGED <<archive, entries>>
  PROVE  /\ PlanIsOfArchive' = PlanIsOfArchive
         /\ PlannedBefore(Len(archive) + 1)' = PlannedBefore(Len(archive) + 1)
BY DEF PlanIsOfArchive, PlannedBefore, Wanted

-----------------------------------------------------------------------------
(* The steps.                                                              *)

\* Before the job nothing is planned or registered.
LEMMA InitHolds ==
  ASSUME Init
  PROVE  IInv
<1>1. TypeOK
  BY DEF Init, TypeOK, Batches
<1> QED
  BY <1>1 DEF Init, IInv, PlanInv, RegisterInv, BatchInv, NamesStayApart,
     VerdictsAddUp, EveryContentArrives, PlanIsOfArchive

\* Nothing but the phase and the batch changes, and the batch does not succeed.
LEMMA VerdictKeeps ==
  ASSUME IInv, UNCHANGED <<archive, pos, entries, skipped, have, found, created>>,
         batch' \in Batches, batch'.status # "success",
         \/ phase' = "done"
         \/ phase = "open" /\ phase' = "check"
  PROVE  IInv'
<1> USE DEF IInv
<1>1. TypeOK'
  BY DEF TypeOK
<1>2. PlanInv'
  BY PlanStays DEF PlanInv
<1>3. RegisterInv'
  BY DEF RegisterInv
<1>4. BatchInv' /\ NamesStayApart' /\ VerdictsAddUp' /\ EveryContentArrives'
  BY DEF BatchInv, NamesStayApart, VerdictsAddUp, EveryContentArrives
<1> QED
  BY <1>1, <1>2, <1>3, <1>4

\* Opening the archive only moves the batch.
LEMMA OpenKeeps ==
  ASSUME IInv, Open
  PROVE  IInv'
<1>1. batch \in Batches /\ batch.status # "success"
  BY DEF IInv, TypeOK, BatchInv, Open
<1>2. batch' \in Batches /\ batch'.status # "success"
  BY <1>1 DEF Open, Batches
<1> QED
  BY <1>2, VerdictKeeps DEF Open

\* A failure ends the batch and leaves the rest alone.
LEMMA FailKeeps ==
  ASSUME IInv, Fail
  PROVE  IInv'
BY VerdictKeeps DEF Fail, Finish, Batches

\* The check starts a plan with nothing in it, or rejects the archive.
LEMMA CheckKeeps ==
  ASSUME IInv, Check
  PROVE  IInv'
<1>1. CASE Finish("rejected", 0, 0, 0)
  BY <1>1, VerdictKeeps DEF Check, Finish, Batches
<1>2. CASE phase' = "plan" /\ UNCHANGED batch
  <2> USE DEF IInv
  <2>1. phase = "check" /\ UNCHANGED <<archive, pos, entries, skipped, have, found, created>>
    BY DEF Check
  <2>2. pos = 1 /\ entries = <<>> /\ skipped = 0 /\ created = <<>>
    BY <2>1 DEF PlanInv
  <2>3. TypeOK'
    BY <1>2, <2>1 DEF TypeOK
  <2>4. PlanInv'
    <3>1. Len(archive) \in Nat
      BY ArchivePlanAssumption DEF TypeOK
    <3>2. Cardinality(FilesBefore(1)) = 0 /\ FilesBefore(1)' = FilesBefore(1)
      BY <2>1, NoFilesBeforeFirst, ArchiveStays
    <3>3. PlannedBefore(pos)'
      BY <2>1, <2>2 DEF PlannedBefore
    <3> QED
      BY <1>2, <2>1, <2>2, <3>1, <3>2, <3>3, PlanStays DEF PlanInv
  <2>5. RegisterInv'
    BY <1>2, <2>1 DEF RegisterInv
  <2>6. BatchInv' /\ NamesStayApart' /\ VerdictsAddUp'
        /\ EveryContentArrives'
    BY <1>2, <2>1 DEF BatchInv, NamesStayApart, VerdictsAddUp,
       EveryContentArrives
  <2> QED
    BY <2>3, <2>4, <2>5, <2>6
<1> QED
  BY <1>1, <1>2 DEF Check

\* A name with a further counter is a name.
LEMMA TriedIsName ==
  ASSUME ArchivePlanAssumption, NEW raw \in RawNames, NEW k \in Nat
  PROVE  Tried(raw, k) \in Names
<1>1. Append(raw.counters, k) \in Seq(Nat)
  BY DEF RawNames
<1> QED
  BY <1>1 DEF Tried, FlatName, Names, RawNames, ArchivePlanAssumption

\* A verdict on one more entry.
LEMMA PlanEntryKeeps ==
  ASSUME IInv, PlanEntry
  PROVE  IInv'
<1> USE DEF IInv
<1> DEFINE e == archive[pos]
<1>0. /\ phase = "plan" /\ pos \in 1..Len(archive) /\ pos' = pos + 1
      /\ Len(archive) \in Nat /\ archive \in Seq(Entries) /\ e \in Entries
      /\ entries \in Seq([name : Names, raw : RawNames]) /\ Len(entries) \in Nat
      /\ skipped \in Nat /\ pos \in Nat
      /\ UNCHANGED <<archive, phase, have, found, created, batch>>
  BY ArchivePlanAssumption DEF PlanEntry, TypeOK
<1>1. /\ Len(entries) + skipped = Cardinality(FilesBefore(pos))
      /\ Cardinality(FilesBefore(pos)) \in Nat
  BY <1>0, FilesAreFinite DEF PlanInv
<1>2. /\ FilesBefore(pos)' = FilesBefore(pos + 1)
      /\ Cardinality(FilesBefore(pos + 1))
           = IF e.dir THEN Cardinality(FilesBefore(pos)) ELSE Cardinality(FilesBefore(pos)) + 1
  <2>1. FilesBefore(pos)' = FilesBefore(pos + 1)
    BY <1>0 DEF FilesBefore
  <2> QED
    BY <1>0, <2>1, OneFileMore
<1>3. batch.status # "success" /\ created = <<>>
  BY <1>0 DEF BatchInv, PlanInv
<1>4. /\ BatchInv' /\ VerdictsAddUp' /\ EveryContentArrives'
      /\ RegisterInv'
  BY <1>0, <1>3 DEF BatchInv, VerdictsAddUp, EveryContentArrives,
     RegisterInv
<1>5. CASE ~Wanted(e) /\ UNCHANGED entries /\ (\/ e.dir /\ UNCHANGED skipped
                                               \/ ~e.dir /\ skipped' = skipped + 1)
  <2>1. TypeOK'
    BY <1>0, <1>5 DEF TypeOK
  <2>2. Len(entries') + skipped' = Cardinality(FilesBefore(pos)')
    BY <1>0, <1>1, <1>2, <1>5
  <2>3. PlannedBefore(pos)'
    <3>1. \A i \in 1..Len(archive) : i < pos + 1 /\ Wanted(archive[i]) => i < pos
      BY <1>0, <1>5
    <3>2. PlannedBefore(pos)
      BY <1>0 DEF PlanInv
    <3> QED
      BY <1>0, <1>5, <3>1, <3>2 DEF PlannedBefore, Wanted
  <2>4. PlanInv'
    BY <1>0, <1>3, <1>5, <2>2, <2>3, PlanStays DEF PlanInv
  <2>5. NamesStayApart'
    BY <1>5 DEF NamesStayApart
  <2> QED
    BY <1>4, <2>1, <2>4, <2>5
<1>6. ASSUME Wanted(e), UNCHANGED skipped, NEW k \in 0..Len(entries), FirstFree(e.raw, k),
             entries' = Append(entries, [name |-> Tried(e.raw, k), raw |-> e.raw])
      PROVE  IInv'
  <2> DEFINE new == [name |-> Tried(e.raw, k), raw |-> e.raw]
  <2>1. e.raw \in RawNames /\ k \in Nat
    BY <1>0 DEF Entries
  <2>2. new \in [name : Names, raw : RawNames]
    BY <2>1, TriedIsName, ArchivePlanAssumption
  <2>3. /\ entries' \in Seq([name : Names, raw : RawNames])
        /\ Len(entries') = Len(entries) + 1
        /\ \A i \in 1..Len(entries) : entries'[i] = entries[i]
        /\ entries'[Len(entries) + 1] = new
    BY <1>0, <1>6, <2>2
  <2>4. TypeOK'
    BY <1>0, <1>6, <2>3 DEF TypeOK
  <2>5. Len(entries') + skipped' = Cardinality(FilesBefore(pos)')
    <3>1. Cardinality(FilesBefore(pos)') = Cardinality(FilesBefore(pos)) + 1
      BY <1>2, <1>6 DEF Wanted
    <3> QED
      BY <1>0, <1>1, <1>6, <2>3, <3>1
  <2>6. \A i \in 1..Len(archive) :
          i < pos + 1 /\ Wanted(archive[i]) =>
            \E l \in 1..Len(entries') : entries'[l].raw = archive[i].raw
    <3> SUFFICES ASSUME NEW i \in 1..Len(archive), i < pos + 1, Wanted(archive[i])
                 PROVE  \E l \in 1..Len(entries') : entries'[l].raw = archive[i].raw
      OBVIOUS
    <3>1. CASE i < pos
      <4>1. PICK l \in 1..Len(entries) : entries[l].raw = archive[i].raw
        BY <1>0, <3>1 DEF PlanInv, PlannedBefore
      <4> QED
        BY <1>0, <2>3, <4>1
    <3>2. CASE i = pos
      BY <1>0, <2>3, <3>2
    <3> QED
      BY <1>0, <3>1, <3>2
  <2>7. \A l \in 1..Len(entries') : \E i \in 1..Len(archive) : entries'[l].raw = archive[i].raw
    <3> SUFFICES ASSUME NEW l \in 1..Len(entries')
                 PROVE  \E i \in 1..Len(archive) : entries'[l].raw = archive[i].raw
      OBVIOUS
    <3>1. CASE l \in 1..Len(entries)
      BY <2>3, <3>1 DEF PlanInv, PlanIsOfArchive
    <3>2. CASE l = Len(entries) + 1
      <4>1. entries'[l].raw = archive[pos].raw
        BY <2>3, <3>2
      <4> QED
        BY <1>0, <4>1
    <3> QED
      BY <1>0, <2>3, <3>1, <3>2
  <2>8. PlanInv'
    <3>1. PlannedBefore(pos)'
      BY <1>0, <2>6 DEF PlannedBefore, Wanted
    <3>2. PlanIsOfArchive'
      BY <1>0, <2>7 DEF PlanIsOfArchive
    <3> QED
      BY <1>0, <1>3, <2>5, <3>1, <3>2 DEF PlanInv
  <2>9. NamesStayApart'
    <3>1. \A i \in 1..Len(entries) : entries[i].name # new.name
      BY <1>6 DEF FirstFree, Seen
    <3>2. \A i \in 1..Len(entries) + 1 : i \in 1..Len(entries) \/ i = Len(entries) + 1
      BY <1>0
    <3> SUFFICES ASSUME NEW i \in 1..Len(entries) + 1, NEW l \in 1..Len(entries) + 1,
                        entries'[i].name = entries'[l].name
                 PROVE  i = l
      BY <2>3 DEF NamesStayApart
    <3>3. CASE i \in 1..Len(entries) /\ l \in 1..Len(entries)
      BY <2>3, <3>3 DEF NamesStayApart
    <3>4. CASE i = Len(entries) + 1 \/ l = Len(entries) + 1
      BY <2>3, <3>1, <3>2, <3>4
    <3> QED
      BY <3>2, <3>3, <3>4
  <2> QED
    BY <1>4, <2>4, <2>8, <2>9
<1> QED
  BY <1>5, <1>6 DEF PlanEntry, Wanted

\* The plan is complete: every file is in it or was skipped.
LEMMA StartRegisteringKeeps ==
  ASSUME IInv, StartRegistering
  PROVE  IInv'
<1> USE DEF IInv
<1>0. /\ phase = "plan" /\ phase' = "register" /\ pos' = 1 /\ pos > Len(archive)
      /\ pos \in Nat /\ Len(archive) \in Nat /\ Len(entries) \in Nat /\ skipped \in Nat
      /\ UNCHANGED <<archive, entries, skipped, have, found, created, batch>>
  BY ArchivePlanAssumption DEF StartRegistering, TypeOK
<1>1. TypeOK'
  BY <1>0 DEF TypeOK
<1>2. PlanInv'
  BY <1>0, PlanStays DEF PlanInv
<1>3. /\ Len(entries) + skipped = Cardinality(Files) /\ created = <<>>
      /\ Cardinality(Files) \in Nat /\ Files' = Files
  BY <1>0, FilesAreFinite, AllFilesBeforeEnd, ArchiveStays DEF PlanInv
<1>4. PlannedBefore(Len(archive) + 1)
  BY <1>0 DEF PlanInv, PlannedBefore
<1>5. RegisterInv'
  <2>1. ArrivedBefore(pos)'
    BY <1>0 DEF ArrivedBefore
  <2> QED
    BY <1>0, <1>3, <1>4, <2>1, PlanStays DEF RegisterInv
<1>6. BatchInv' /\ NamesStayApart' /\ VerdictsAddUp' /\ EveryContentArrives'
  BY <1>0 DEF BatchInv, NamesStayApart, VerdictsAddUp, EveryContentArrives
<1> QED
  BY <1>1, <1>2, <1>5, <1>6

\* What is read for an entry of the plan is the body of some entry.
LEMMA ReadIsContent ==
  ASSUME TypeOK, PlanIsOfArchive, NEW k \in 1..Len(entries)
  PROVE  Read(archive, entries[k].raw) \in Contents
<1> DEFINE same == {i \in 1..Len(archive) : archive[i].raw = entries[k].raw}
<1> DEFINE last == CHOOSE i \in same : \A j \in same : j <= i
<1>0. archive \in Seq(Entries) /\ Len(archive) \in Nat
  BY ArchivePlanAssumption DEF TypeOK
<1>1. same \in SUBSET (1..Len(archive)) /\ same # {}
  BY DEF PlanIsOfArchive
<1>2. \E i \in same : \A j \in same : j <= i
  BY <1>0, <1>1, LastExists
<1>3. last \in same
  BY <1>2
<1> HIDE DEF last
<1>4. last \in 1..Len(archive)
  BY <1>3
<1>5. archive[last] \in Entries
  BY <1>0, <1>4
<1>6. archive[last].body \in Contents
  BY <1>5 DEF Entries
<1> QED
  BY <1>6 DEF Read, last

\* What has arrived has arrived for good.
LEMMA ArrivedStays ==
  ASSUME TypeOK, found \subseteq found',
         \/ created' = created
         \/ \E c \in Contents : created' = Append(created, c)
  PROVE  \A c : Arrived(c) => Arrived(c)'
<1> SUFFICES ASSUME NEW c, Arrived(c) PROVE Arrived(c)'
  OBVIOUS
<1> USE DEF Arrived
<1>1. created \in Seq(Contents) /\ Len(created) \in Nat
  BY DEF TypeOK
<1>2. CASE created' = created
  BY <1>2
<1>3. ASSUME NEW d \in Contents, created' = Append(created, d)
      PROVE  Arrived(c)'
  <2>1. /\ Len(created') = Len(created) + 1
        /\ \A i \in 1..Len(created) : created'[i] = created[i]
    BY <1>1, <1>3
  <2>2. \A i \in 1..Len(created) : i \in 1..Len(created')
    BY <1>1, <2>1
  <2> QED
    BY <2>1, <2>2
<1> QED
  BY <1>2, <1>3

\* One more entry of the plan is done.
LEMMA EntryDone ==
  ASSUME TypeOK, RegisterInv, UNCHANGED <<archive, entries>>,
         phase \in {"register", "insert"}, phase' = "register", pos' = pos + 1,
         pos <= Len(entries),
         Len(created') + skipped' = Len(created) + skipped + 1,
         Len(created') \in Nat, skipped' \in Nat,
         \A d : Arrived(d) => Arrived(d)',
         NEW c, c = Read(archive, entries[pos].raw), Arrived(c)'
  PROVE  RegisterInv'
<1>0. /\ pos \in Nat /\ Len(entries) \in Nat /\ skipped \in Nat /\ Len(created) \in Nat
      /\ Cardinality(Files) \in Nat /\ Files' = Files
  <2>1. Len(archive) + 1 \in Nat
    BY ArchivePlanAssumption DEF TypeOK
  <2>2. Cardinality(Files) \in Nat
    BY <2>1, FilesAreFinite DEF Files
  <2> QED
    BY <2>2, ArchiveStays DEF TypeOK
<1>1. Len(created) + skipped + Len(entries) + 1 = Cardinality(Files) + pos
  BY DEF RegisterInv
<1>2. Len(created') + skipped' + Len(entries) + 1 = Cardinality(Files) + pos'
  BY <1>0, <1>1
<1>3. PlannedBefore(Len(archive) + 1)'
  BY PlanStays DEF RegisterInv
<1>4. ArrivedBefore(pos)'
  <2> SUFFICES ASSUME NEW k \in 1..Len(entries), k < pos + 1
               PROVE  Arrived(Read(archive, entries[k].raw))'
    BY DEF ArrivedBefore
  <2>1. CASE k = pos
    <3>1. Read(archive, entries[k].raw)' = c
      BY <2>1
    <3> QED
      BY <3>1 DEF Arrived
  <2>2. CASE k < pos
    <3>1. Arrived(Read(archive, entries[k].raw))
      BY <2>2 DEF RegisterInv, ArrivedBefore
    <3>2. Read(archive, entries[k].raw)' = Read(archive, entries[k].raw)
      OBVIOUS
    <3> QED
      BY <3>1, <3>2 DEF Arrived
  <2> QED
    BY <1>0, <2>1, <2>2
<1>5. pos' <= Len(entries') + 1 /\ phase' # "insert"
  BY <1>0
<1> QED
  BY <1>0, <1>2, <1>3, <1>4, <1>5 DEF RegisterInv

\* A content the set has is skipped; another is about to be inserted.
LEMMA LookupKeeps ==
  ASSUME IInv, Lookup
  PROVE  IInv'
<1> USE DEF IInv
<1>c. PICK c : c = Read(archive, entries[pos].raw)
  OBVIOUS
<1>0. /\ phase = "register" /\ pos \in 1..Len(entries) /\ pos \in Nat
      /\ Len(entries) \in Nat /\ skipped \in Nat /\ Len(created) \in Nat
      /\ UNCHANGED <<archive, entries, have, created, batch>>
  BY DEF Lookup, TypeOK
<1>1. batch.status # "success"
  BY <1>0 DEF BatchInv
<1>2. BatchInv' /\ NamesStayApart' /\ VerdictsAddUp' /\ EveryContentArrives'
  BY <1>0, <1>1 DEF BatchInv, NamesStayApart, VerdictsAddUp, EveryContentArrives
<1>3. CASE c \in have /\ found' = found \cup {c} /\ skipped' = skipped + 1 /\ pos' = pos + 1
           /\ UNCHANGED phase
  <2>1. c \in Contents
    BY <1>0, <1>c, ReadIsContent DEF PlanInv
  <2>2. TypeOK'
    BY <1>0, <1>3, <2>1 DEF TypeOK
  <2>3. Arrived(c)'
    BY <1>3 DEF Arrived
  <2>4. \A d : Arrived(d) => Arrived(d)'
    BY <1>0, <1>3, ArrivedStays
  <2>5. RegisterInv'
    BY <1>0, <1>3, <1>c, <2>3, <2>4, EntryDone
  <2>6. PlanInv'
    BY <1>0, <1>3, PlanStays DEF PlanInv
  <2> QED
    BY <1>2, <2>2, <2>5, <2>6
<1>4. CASE phase' = "insert" /\ UNCHANGED <<found, skipped, pos>>
  <2>1. TypeOK'
    BY <1>0, <1>4 DEF TypeOK
  <2>2. PlanInv'
    BY <1>0, <1>4, PlanStays DEF PlanInv
  <2>3. RegisterInv'
    <3>1. ArrivedBefore(pos)' = ArrivedBefore(pos)
      BY <1>0, <1>4 DEF ArrivedBefore, Arrived
    <3> QED
      BY <1>0, <1>4, <3>1, PlanStays, ArchiveStays DEF RegisterInv
  <2> QED
    BY <1>2, <2>1, <2>2, <2>3
<1> QED
  BY <1>3, <1>4, <1>c DEF Lookup

\* The document is registered, or the batch fails on one that came in between.
LEMMA InsertKeeps ==
  ASSUME IInv, Insert
  PROVE  IInv'
<1>c. PICK c : c = Read(archive, entries[pos].raw)
  OBVIOUS
<1>1. CASE Finish("failed", 0, 0, 0) /\ UNCHANGED <<have, created, pos>>
  BY <1>1, VerdictKeeps DEF Insert, Finish, Batches
<1>2. CASE /\ have' = have \cup {c} /\ created' = Append(created, c) /\ pos' = pos + 1
           /\ phase' = "register" /\ UNCHANGED batch
  <2> USE DEF IInv
  <2>0. /\ phase = "insert" /\ pos \in 1..Len(entries) /\ pos \in Nat
        /\ Len(entries) \in Nat /\ skipped \in Nat
        /\ created \in Seq(Contents) /\ Len(created) \in Nat
        /\ UNCHANGED <<archive, entries, skipped, found>>
    BY DEF Insert, RegisterInv, TypeOK
  <2>1. c \in Contents
    BY <1>c, <2>0, ReadIsContent DEF PlanInv
  <2>2. /\ created' \in Seq(Contents) /\ Len(created') = Len(created) + 1
        /\ created'[Len(created) + 1] = c /\ Len(created) + 1 \in 1..Len(created')
    BY <1>2, <2>0, <2>1
  <2>3. TypeOK'
    BY <1>2, <2>0, <2>1, <2>2 DEF TypeOK
  <2>4. Arrived(c)'
    BY <2>2 DEF Arrived
  <2>5. \A d : Arrived(d) => Arrived(d)'
    BY <1>2, <2>0, <2>1, ArrivedStays
  <2>6. Len(created') \in Nat /\ Len(created') + skipped' = Len(created) + skipped + 1
    BY <2>0, <2>2
  <2>7. RegisterInv'
    BY <1>2, <1>c, <2>0, <2>4, <2>5, <2>6, EntryDone
  <2>8. PlanInv'
    BY <1>2, <2>0, PlanStays DEF PlanInv
  <2>9. BatchInv' /\ NamesStayApart' /\ VerdictsAddUp' /\ EveryContentArrives'
    BY <1>2, <2>0 DEF BatchInv, NamesStayApart, VerdictsAddUp, EveryContentArrives
  <2> QED
    BY <2>3, <2>7, <2>8, <2>9
<1> QED
  BY <1>1, <1>2, <1>c DEF Insert

\* The batch ends with every file counted and every chosen content arrived.
LEMMA SucceedKeeps ==
  ASSUME IInv, Succeed
  PROVE  IInv'
<1> USE DEF IInv
<1>0. /\ phase = "register" /\ phase' = "done" /\ pos > Len(entries) /\ pos \in Nat
      /\ Len(entries) \in Nat /\ skipped \in Nat /\ Len(created) \in Nat
      /\ batch' = [status |-> "success", created |-> Len(created), skipped |-> skipped,
                   total |-> Len(created) + skipped]
      /\ UNCHANGED <<archive, pos, entries, skipped, have, found, created>>
  BY DEF Succeed, Finish, TypeOK
<1>1. TypeOK'
  BY <1>0 DEF TypeOK, Batches
<1>2. PlanInv' /\ RegisterInv' /\ BatchInv' /\ NamesStayApart'
  BY <1>0, PlanStays DEF PlanInv, RegisterInv, BatchInv, NamesStayApart
<1>3. /\ pos = Len(entries) + 1
      /\ Len(created) + skipped + Len(entries) + 1 = Cardinality(Files) + pos
      /\ Cardinality(Files) \in Nat /\ Files' = Files
  <2>1. Cardinality(Files) \in Nat
    BY ArchivePlanAssumption, FilesAreFinite DEF Files, TypeOK
  <2> QED
    BY <1>0, <2>1, ArchiveStays DEF RegisterInv
<1>4. VerdictsAddUp'
  BY <1>0, <1>3 DEF VerdictsAddUp
<1>5. EveryContentArrives'
  <2> SUFFICES ASSUME RawNamesDiffer, NEW i \in 1..Len(archive), Wanted(archive[i])
               PROVE  Arrived(archive[i].body)
    BY <1>0 DEF EveryContentArrives, RawNamesDiffer, Wanted, Arrived
  <2>1. PICK k \in 1..Len(entries) : entries[k].raw = archive[i].raw
    <3>1. PlannedBefore(Len(archive) + 1)
      BY <1>0 DEF RegisterInv
    <3>2. Len(archive) \in Nat /\ i < Len(archive) + 1
      BY ArchivePlanAssumption DEF TypeOK
    <3> HIDE DEF IInv
    <3> QED
      BY <3>1, <3>2 DEF PlannedBefore
  <2>2. Arrived(Read(archive, entries[k].raw))
    BY <1>0, <1>3 DEF RegisterInv, ArrivedBefore
  <2> QED
    BY <2>1, <2>2, ReadFindsEntry
<1> QED
  BY <1>1, <1>2, <1>4, <1>5

\* What others add to the set or take from it changes nothing this batch has seen.
LEMMA ElsewhereKeeps ==
  ASSUME IInv, NEW c \in Contents, Elsewhere(c)
  PROVE  IInv'
<1> USE DEF IInv, Elsewhere
<1>1. TypeOK'
  BY DEF TypeOK
<1>2. PlanInv' /\ BatchInv' /\ NamesStayApart' /\ VerdictsAddUp'
      /\ EveryContentArrives'
  BY PlanStays DEF PlanInv, BatchInv, NamesStayApart, VerdictsAddUp,
     EveryContentArrives
<1>3. RegisterInv'
  <2>1. ArrivedBefore(pos)' = ArrivedBefore(pos)
    BY DEF ArrivedBefore, Arrived
  <2> QED
    BY <2>1, ArchiveStays, PlanStays DEF RegisterInv
<1> QED
  BY <1>1, <1>2, <1>3

\* A step of nobody keeps the invariant.
LEMMA StutterKeeps ==
  ASSUME IInv, UNCHANGED vars
  PROVE  IInv'
<1> USE DEF IInv, vars
<1>1. TypeOK' /\ BatchInv' /\ NamesStayApart'
  BY DEF TypeOK, BatchInv, NamesStayApart
<1>2. VerdictsAddUp'
  BY ArchiveStays DEF VerdictsAddUp
<1>3. EveryContentArrives'
  BY DEF EveryContentArrives, RawNamesDiffer, Wanted, Arrived
<1>4. PlanInv'
  <2>1. PlannedBefore(pos)' = PlannedBefore(pos) /\ FilesBefore(pos)' = FilesBefore(pos)
    BY DEF PlannedBefore, Wanted, FilesBefore
  <2> QED
    BY <2>1, PlanStays DEF PlanInv
<1>5. RegisterInv'
  <2>1. ArrivedBefore(pos)' = ArrivedBefore(pos)
    BY DEF ArrivedBefore, Arrived
  <2> QED
    BY <2>1, ArchiveStays, PlanStays DEF RegisterInv
<1> QED
  BY <1>1, <1>2, <1>3, <1>4, <1>5

\* Every step keeps the invariant.
LEMMA StepKeeps ==
  ASSUME IInv, [Next]_vars
  PROVE  IInv'
BY OpenKeeps, CheckKeeps, PlanEntryKeeps, StartRegisteringKeeps, LookupKeeps, InsertKeeps,
   SucceedKeeps, FailKeeps, ElsewhereKeeps, StutterKeeps DEF Next, Done

\* The inductive invariant of the import of an archive.
THEOREM InvariantHolds == Spec => []IInv
<1>1. Init => IInv
  BY InitHolds
<1>2. IInv /\ [Next]_vars => IInv'
  BY StepKeeps
<1> QED
  BY <1>1, <1>2, PTL DEF Spec

-----------------------------------------------------------------------------
(* The results.                                                            *)

\* Every variable keeps its type, through the plan and the registrations.
THEOREM ArchiveTypeCorrect == Spec => []TypeOK
<1>1. IInv => TypeOK
  BY DEF IInv
<1> QED
  BY <1>1, InvariantHolds, PTL

\* The counts of a batch that succeeded account for every file of its archive,
\* and for every document it made (jobs.py:224).
THEOREM CountsAddUp == Spec => []VerdictsAddUp
<1>1. IInv => VerdictsAddUp
  BY DEF IInv
<1> QED
  BY <1>1, InvariantHolds, PTL

\* The names of a plan are pairwise different for an archive of any length
\* (archive.py:109).
THEOREM PlannedNamesDiffer == Spec => []NamesStayApart
<1>1. IInv => NamesStayApart
  BY DEF IInv
<1> QED
  BY <1>1, InvariantHolds, PTL

\* A batch that succeeded leaves no wanted entry behind, if the entries of the
\* archive have different names (jobs.py:229, archive.py:117): whatever others
\* upload and delete, each content was found in the set or registered in its turn.
THEOREM NoEntryIsLost == Spec => []EveryContentArrives
<1>1. IInv => EveryContentArrives
  BY DEF IInv
<1> QED
  BY <1>1, InvariantHolds, PTL
=============================================================================
