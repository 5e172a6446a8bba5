------------------------------ MODULE MCIngest ------------------------------
(* d1, d2 and d3 are uploads, d1 and d2 of the same content into the same   *)
(* set; f1 and f2 refer to objects of a foreign bucket; i1 comes with       *)
(* archive b1, and has the content of d1, i2 with staging prefix b2.        *)
EXTENDS IngestService, TLC

CONSTANTS g1, g2, d1, d2, d3, f1, f2, i1, i2, b1, b2, x, y, z

MCRagOf == [d \in Docs |-> IF d = d3 THEN g2 ELSE g1]

MCContentOf ==
  [d \in Docs |-> CASE d \in {f1, i2} -> y [] d = f2 -> z [] OTHER -> x]

\* d1 and d2 are different documents.
MCOwnContent == [d \in Docs |-> IF d = d1 THEN x ELSE y]

MCOriginOf == [d \in Docs |-> CASE d = i1 -> b1 [] d = i2 -> b2 [] OTHER -> None]

MCBatchRag == [b \in Batches |-> g1]

\* Requests, chunks and workers are interchangeable.
Symmetry == Permutations(Requests) \cup Permutations(Chunks) \cup Permutations(Workers)
=============================================================================
