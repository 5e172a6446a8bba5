------------------------------ MODULE MCBucket ------------------------------
(* a and b are equal, c is larger than the others and fills the quota, e is *)
(* just another document, n has an extension docling does not take.         *)
EXTENDS BucketImport

CONSTANTS a, b, c, e, n

MCListing == <<a, n, b, e, c>>

MCSmall == <<a, c>>

MCSuffix == [k \in Keys |-> CASE k = n -> "exe" [] k = c -> "docx" [] OTHER -> "pdf"]

MCEtag == [k \in Keys |-> IF k = b THEN a ELSE k]

MCSize == [k \in Keys |-> IF k = c THEN 2 ELSE 1]

\* Callers name one key, two that are equal, one that docling does not take, or
\* three that exceed the limit.
MCRequested == {<<c>>, <<a, b>>, <<b, a>>, <<n, e>>, <<c, e, a>>}

MCAsked == {{}, {"pdf"}, {"exe"}}
=============================================================================
