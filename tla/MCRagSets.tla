----------------------------- MODULE MCRagSets ------------------------------
(* Three sets of one owner.                                                 *)
EXTENDS RagSets, TLC

CONSTANT me

MCOwnerOf == [g \in Rags |-> me]

\* Requests, sets and names are interchangeable.
Symmetry == Permutations(Requests) \cup Permutations(Rags) \cup Permutations(Names)
=============================================================================
