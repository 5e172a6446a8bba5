----------------------------- MODULE MCArchive ------------------------------
(* All archives of at most four entries out of ten.                         *)
EXTENDS ArchivePlan, SequencesExt

CONSTANTS x, y, z

Entry(at, base, counters, suffix, size, packed, body) ==
  [raw |-> [at |-> at, base |-> base, counters |-> counters, suffix |-> suffix],
   dir |-> FALSE,
   encrypted |-> FALSE, size |-> size, packed |-> packed, body |-> body]

MCEntries ==
  { Entry("a", "doc", <<>>, "txt", 1, 1, x),
    Entry("b", "doc", <<>>, "txt", 1, 1, y),
    Entry("c", "doc", <<>>, "TXT", 0, 0, x),
    Entry("a", "doc", <<1>>, "txt", 2, 1, z),
    Entry("a", "doc", <<>>, "zip", 2, 2, z),
    Entry("b", "", <<>>, "txt", 1, 1, z),
    Entry("b", "doc", <<>>, "txt", 4, 2, z),
    Entry("d", "doc", <<>>, "exe", 5, 2, z),
    [Entry("d", "", <<>>, "", 0, 0, x) EXCEPT !.dir = TRUE],
    [Entry("d", "", <<>>, "", 0, 0, x) EXCEPT !.dir = TRUE, !.encrypted = TRUE] }

MCArchives == BoundedSeq(MCEntries, 4)

MCExtensions == {"", "txt", "TXT", "zip", "exe"}

MCLower == [s \in MCExtensions |-> IF s = "TXT" THEN "txt" ELSE s]
=============================================================================
