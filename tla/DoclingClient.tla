--------------------------- MODULE DoclingClient ----------------------------
(***************************************************************************)
(* The conversion of one document (app/docling/client.py): submit a task   *)
(* to docling-serve, poll it until it ends or patience does, fetch the     *)
(* chunks.  A job of a worker does this once and never again.  The task is *)
(* external: docling-serve ends it when it likes, or never.                *)
(***************************************************************************)
EXTENDS Naturals, FiniteSets

CONSTANTS
  Jobs,          \* indexing jobs at work, one per worker
  PollInterval,  \* poll_interval, in units of time
  MaxWait,       \* max_wait
  MaxDelay,      \* how long an answer takes at most, see AskStatus
  MaxBatches     \* how many calls of /embed the chunks of a job make

ASSUME DoclingAssumption ==
  /\ PollInterval \in Nat \ {0}
  /\ MaxWait \in Nat
  /\ MaxDelay \in Nat
  /\ MaxBatches \in [Jobs -> Nat]

VARIABLES
  jpc,     \* next step of a job
  task,    \* its task in docling-serve
  seen,    \* the status in the answer that is on its way to the job
  waited,  \* time since _wait set its deadline, which is gone when it returns
  left,    \* batches it still has to embed
  outcome  \* how it ended

jobVars == <<jpc, task, seen, waited, left, outcome>>

\* What RQ stops is no verdict of the client: see Pipeline!JobStopped.
Outcomes == {"none", "empty", "embedded", "failed", "timeout", "stopped"}

Statuses == {"none", "running", "success", "failure"}

DoclingTypeOK ==
  /\ jpc \in [Jobs -> {"idle", "submit", "poll", "reply", "fetch", "embed", "answer", "done"}]
  /\ task \in [Jobs -> Statuses] /\ seen \in [Jobs -> Statuses]
  /\ waited \in [Jobs -> Nat]
  /\ left \in [Jobs -> Nat]
  /\ outcome \in [Jobs -> Outcomes]

DoclingInit ==
  /\ jpc = [j \in Jobs |-> "idle"]
  /\ task = [j \in Jobs |-> "none"] /\ seen = [j \in Jobs |-> "none"]
  /\ waited = [j \in Jobs |-> 0]
  /\ left = [j \in Jobs |-> 0]
  /\ outcome = [j \in Jobs |-> "none"]

AtWork(j) == jpc[j] \notin {"idle", "done"}

\* Mutant: an ending documents.status has no word for.
EndUnnamed(j, how) ==
  /\ jpc' = [jpc EXCEPT ![j] = "done"]
  /\ waited' = [waited EXCEPT ![j] = 0]
  /\ outcome' = [outcome EXCEPT ![j] = IF how = "failed" THEN "error" ELSE how]

\* chunk() returns or raises, and with it the pipeline.
End(j, how) ==
  /\ jpc' = [jpc EXCEPT ![j] = "done"]
  /\ waited' = [waited EXCEPT ![j] = 0]
  /\ outcome' = [outcome EXCEPT ![j] = how]

StartJob(j) ==
  /\ jpc[j] = "idle"
  /\ jpc' = [jpc EXCEPT ![j] = "submit"]
  /\ UNCHANGED <<task, seen, waited, left, outcome>>

\* The deadline is set when the task is known.  A submission can be lost on
\* its way, or its answer: then the task runs and nobody waits for it.
Submit(j) ==
  /\ jpc[j] = "submit"
  /\ \/ /\ task' = [task EXCEPT ![j] = "running"]
        /\ jpc' = [jpc EXCEPT ![j] = "poll"]
        /\ UNCHANGED <<waited, outcome>>
     \/ /\ \E reached \in {"none", "running"} : task' = [task EXCEPT ![j] = reached]
        /\ End(j, "failed")
  /\ UNCHANGED <<seen, left>>

\* docling-serve answers with the status of this moment, and the answer travels.
\* httpx bounds each phase of a request by request_timeout and not the whole of
\* it: that an answer takes at most MaxDelay is an assumption about docling-serve.
AskStatus(j) ==
  /\ jpc[j] = "poll"
  /\ jpc' = [jpc EXCEPT ![j] = "reply"]
  /\ seen' = [seen EXCEPT ![j] = task[j]]
  /\ \E delay \in 0..MaxDelay : waited' = [waited EXCEPT ![j] = @ + delay]
  /\ UNCHANGED <<task, left, outcome>>

\* Mutant: the deadline is compared strictly.
ReadStatusStrictly(j) ==
  /\ jpc[j] = "reply"
  /\ \/ /\ seen[j] = "success"
        /\ jpc' = [jpc EXCEPT ![j] = "fetch"]
        /\ waited' = [waited EXCEPT ![j] = 0]
        /\ UNCHANGED outcome
     \/ seen[j] = "running" /\ waited[j] > MaxWait /\ End(j, "timeout")
     \/ /\ seen[j] = "running" /\ waited[j] <= MaxWait
        /\ jpc' = [jpc EXCEPT ![j] = "poll"]
        /\ waited' = [waited EXCEPT ![j] = @ + PollInterval]
        /\ UNCHANGED outcome
     \/ End(j, "failed")
  /\ seen' = [seen EXCEPT ![j] = "none"]
  /\ UNCHANGED <<task, left>>

\* Mutant: every round sets the deadline anew.
ReadStatusRenewed(j) ==
  /\ jpc[j] = "reply"
  /\ \/ /\ seen[j] = "success"
        /\ jpc' = [jpc EXCEPT ![j] = "fetch"]
        /\ waited' = [waited EXCEPT ![j] = 0]
        /\ UNCHANGED outcome
     \/ seen[j] = "running" /\ waited[j] >= MaxWait /\ End(j, "timeout")
     \/ /\ seen[j] = "running" /\ waited[j] < MaxWait
        /\ jpc' = [jpc EXCEPT ![j] = "poll"]
        /\ waited' = [waited EXCEPT ![j] = 0]
        /\ UNCHANGED outcome
     \/ End(j, "failed")
  /\ seen' = [seen EXCEPT ![j] = "none"]
  /\ UNCHANGED <<task, left>>

\* Mutant: the deadline is tested before the status.
ReadDeadlineFirst(j) ==
  /\ jpc[j] = "reply"
  /\ \/ /\ seen[j] = "success" /\ waited[j] < MaxWait
        /\ jpc' = [jpc EXCEPT ![j] = "fetch"]
        /\ waited' = [waited EXCEPT ![j] = 0]
        /\ UNCHANGED outcome
     \/ waited[j] >= MaxWait /\ End(j, "timeout")
     \/ /\ seen[j] = "running" /\ waited[j] < MaxWait
        /\ jpc' = [jpc EXCEPT ![j] = "poll"]
        /\ waited' = [waited EXCEPT ![j] = @ + PollInterval]
        /\ UNCHANGED outcome
     \/ End(j, "failed")
  /\ seen' = [seen EXCEPT ![j] = "none"]
  /\ UNCHANGED <<task, left>>

\* The answer arrives, or an HTTP error that ends the job like a task that
\* failed.  The status it brings is looked at first, then the clock; a task that
\* is neither over nor late is asked for again after a pause.
ReadStatus(j) ==
  /\ jpc[j] = "reply"
  /\ \/ /\ seen[j] = "success"
        /\ jpc' = [jpc EXCEPT ![j] = "fetch"]
        /\ waited' = [waited EXCEPT ![j] = 0]
        /\ UNCHANGED outcome
     \/ seen[j] = "running" /\ waited[j] >= MaxWait /\ End(j, "timeout")
     \/ /\ seen[j] = "running" /\ waited[j] < MaxWait
        /\ jpc' = [jpc EXCEPT ![j] = "poll"]
        /\ waited' = [waited EXCEPT ![j] = @ + PollInterval]
        /\ UNCHANGED outcome
     \/ End(j, "failed")
  /\ seen' = [seen EXCEPT ![j] = "none"]
  /\ UNCHANGED <<task, left>>

\* The chunks that are not blank and not in the index, in batches; none is a
\* success of its own.
Fetch(j) ==
  /\ jpc[j] = "fetch"
  /\ \/ \E n \in 1..MaxBatches[j] :
          /\ jpc' = [jpc EXCEPT ![j] = "embed"]
          /\ left' = [left EXCEPT ![j] = n]
          /\ UNCHANGED <<waited, outcome>>
     \/ End(j, "empty") /\ UNCHANGED left
     \/ End(j, "failed") /\ UNCHANGED left
  /\ UNCHANGED <<task, seen>>

\* docling-serve finishes a task at any time, also while an answer is on its way
\* that says it runs.  After the job nobody asks for it any more.
TaskEnds(j) ==
  /\ task[j] = "running" /\ AtWork(j)
  /\ \E result \in {"success", "failure"} : task' = [task EXCEPT ![j] = result]
  /\ UNCHANGED <<jpc, seen, waited, left, outcome>>

ClientStep(j) == Submit(j) \/ AskStatus(j) \/ ReadStatus(j) \/ Fetch(j)

-----------------------------------------------------------------------------
(* Properties.                                                             *)

\* A task that does not end holds a worker no longer than max_wait, one pause
\* and one answer (client.py:145, 164-168).
PatienceBounded == \A j \in Jobs : waited[j] < MaxWait + PollInterval + MaxDelay

\* The strengthening: time counts only in _wait, and before a round the deadline
\* has passed by less than a pause.
PatienceInv ==
  /\ PatienceBounded
  /\ \A j \in Jobs :
       /\ jpc[j] \notin {"poll", "reply"} => waited[j] = 0
       /\ jpc[j] = "poll" => waited[j] < MaxWait + PollInterval

Ended(j) == task[j] \in {"success", "failure"}

\* A result that is there before the client asks again is never thrown away,
\* also when it asks after the deadline: every round looks at the status first
\* (client.py:148-168).  Only a task that ends while the last answer is on its
\* way is given up although it has a result.
ResultIsKept ==
  \A j \in Jobs : [](Ended(j) /\ jpc[j] = "poll" => [](outcome[j] # "timeout"))

\* What is known of such a job from then on: it will be told, or has been.
WillBeTold(j) ==
  /\ Ended(j)
  /\ jpc[j] \notin {"idle", "submit"}
  /\ jpc[j] = "reply" => seen[j] # "running"
  /\ outcome[j] # "timeout"
=============================================================================
