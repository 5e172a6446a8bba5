-------------------------- MODULE DocumentCatalog ---------------------------
(***************************************************************************)
(* What the service promises about a document to its owner and to the      *)
(* search over a set: a document is registered, indexed at most once,      *)
(* settles as success or failed, and what a search finds of it is fixed    *)
(* from its success until it is removed.                                   *)
(***************************************************************************)
CONSTANTS Docs, Chunks

VARIABLES
  status,   \* what the owner sees of a document
  answers   \* what a search finds of an indexed document

vars == <<status, answers>>

Statuses == {"none", "pending", "processing", "success", "failed", "removed"}

TypeOK ==
  /\ status \in [Docs -> Statuses]
  /\ answers \in [Docs -> SUBSET Chunks]

Init ==
  /\ status = [d \in Docs |-> "none"]
  /\ answers = [d \in Docs |-> {}]

Register(S) ==
  /\ \A d \in S : status[d] = "none"
  /\ status' = [d \in Docs |-> IF d \in S THEN "pending" ELSE status[d]]
  /\ UNCHANGED answers

Begin(d) ==
  /\ status[d] = "pending"
  /\ status' = [status EXCEPT ![d] = "processing"]
  /\ UNCHANGED answers

Succeed(d) ==
  /\ status[d] = "processing"
  /\ status' = [status EXCEPT ![d] = "success"]
  /\ \E found \in SUBSET Chunks : answers' = [answers EXCEPT ![d] = found]

Fail(d) ==
  /\ status[d] \in {"pending", "processing"}
  /\ status' = [status EXCEPT ![d] = "failed"]
  /\ UNCHANGED answers

\* One document, or all of a set, with those it would have got later.
Remove(S) ==
  /\ status' = [d \in Docs |-> IF d \in S THEN "removed" ELSE status[d]]
  /\ answers' = [d \in Docs |-> IF d \in S THEN {} ELSE answers[d]]

Settle(d) == Succeed(d) \/ Fail(d) \/ Remove({d})

Next ==
  \/ \E S \in SUBSET Docs : Register(S) \/ Remove(S)
  \/ \E d \in Docs : Begin(d) \/ Succeed(d) \/ Fail(d)

Spec == Init /\ [][Next]_vars

\* Every registered document settles.
Settles ==
  \A d \in Docs : (status[d] = "pending") ~> (status[d] \in {"success", "failed", "removed"})
=============================================================================
