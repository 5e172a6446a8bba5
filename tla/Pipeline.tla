------------------------------ MODULE Pipeline ------------------------------
(***************************************************************************)
(* The way of a document from docling-serve to its vectors                  *)
(* (app/pipeline.py): the jobs of the workers convert, then embed batch by *)
(* batch through the API process, which searches use at the same time and  *)
(* which starts, fails to start and dies on its own.                       *)
(***************************************************************************)
EXTENDS DoclingClient, EmbedPool, Startup

CONSTANTS
  JobOf,  \* the job a call of /embed belongs to, None for a search
  None

ASSUME PipelineAssumption ==
  /\ JobOf \in [Calls -> Jobs \cup {None}] /\ None \notin Jobs
  /\ \A c \in Calls : PoolOf[c] = IF JobOf[c] = None THEN "query" ELSE "ingest"

vars == <<jobVars, poolVars, startVars>>

CallsOf(j) == {c \in Calls : JobOf[c] = j}
Searches == CallsOf(None)

\* Every variable has its type.
TypeOK == DoclingTypeOK /\ PoolTypeOK /\ StartTypeOK

Init == DoclingInit /\ PoolInit /\ StartInit

-----------------------------------------------------------------------------
(* The jobs.                                                               *)

Converts(j) == ClientStep(j) /\ UNCHANGED <<poolVars, startVars>>

\* HttpEmbedder sends the next batch, and fails if nobody listens.
SendBatch(j, c) ==
  /\ jpc[j] = "embed"
  /\ c \in CallsOf(j)
  /\ \/ /\ EmbedServed
        /\ Arrive(c)
        /\ jpc' = [jpc EXCEPT ![j] = "answer"]
        /\ UNCHANGED <<waited, outcome>>
     \/ /\ ~EmbedServed
        /\ End(j, "failed")
        /\ UNCHANGED poolVars
  /\ UNCHANGED <<task, seen, left, startVars>>

Sent(j) == {c \in CallsOf(j) : call[c] # "unsent"}

\* Mutant: a batch that failed is passed over.
ReceiveAnything(j) ==
  /\ jpc[j] = "answer"
  /\ \A c \in Sent(j) : ~InFlight(c)
  /\ left' = [left EXCEPT ![j] = @ - 1]
  /\ IF left[j] = 1
     THEN End(j, "embedded")
     ELSE jpc' = [jpc EXCEPT ![j] = "embed"] /\ UNCHANGED <<waited, outcome>>
  /\ UNCHANGED <<task, seen, poolVars, startVars>>

\* The answer to the batch at hand; one batch that fails is the job that fails.
Receive(j) ==
  /\ jpc[j] = "answer"
  /\ \A c \in Sent(j) : ~InFlight(c)
  /\ \/ /\ \E c \in Sent(j) : call[c] = "failed"
        /\ End(j, "failed")
        /\ UNCHANGED left
     \/ /\ \A c \in Sent(j) : call[c] = "answered"
        /\ left' = [left EXCEPT ![j] = @ - 1]
        /\ IF left[j] = 1
           THEN End(j, "embedded")
           ELSE jpc' = [jpc EXCEPT ![j] = "embed"] /\ UNCHANGED <<waited, outcome>>
  /\ UNCHANGED <<task, seen, poolVars, startVars>>

\* The call takes longer than its timeout, and goes on without anyone to read
\* its answer.
BatchAbandoned(j) ==
  /\ jpc[j] = "answer"
  /\ \E c \in Sent(j) : InFlight(c)
  /\ End(j, "failed")
  /\ UNCHANGED <<task, seen, left, poolVars, startVars>>

\* RQ's alarm (rq_job_timeout) raises wherever the process is.  In code of the
\* job that is an exception like any other and the document fails.  In the
\* selector of the event loop, where a job spends its time, asyncio.run cancels
\* the coroutine: "except Exception" (jobs.py:134) does not catch a
\* CancelledError, and the document stays in processing.
JobStopped(j) ==
  /\ AtWork(j)
  /\ End(j, "stopped")
  /\ UNCHANGED <<task, seen, left, poolVars, startVars>>

JobStep(j) == Converts(j) \/ (\E c \in Calls : SendBatch(j, c)) \/ Receive(j)

-----------------------------------------------------------------------------
(* Searches, the models, docling-serve and the process.                    *)

Search(c) ==
  /\ c \in Searches
  /\ EmbedServed
  /\ Arrive(c)
  /\ UNCHANGED <<jobVars, startVars>>

ModelAnswers(c) == Finish(c) /\ UNCHANGED <<jobVars, startVars>>

DoclingWorks(j) == (StartJob(j) \/ TaskEnds(j)) /\ UNCHANGED <<poolVars, startVars>>

ServerStarts == StartContinues /\ UNCHANGED <<jobVars, poolVars>>

StartBreaks == StartFails /\ UNCHANGED <<jobVars, poolVars>>

\* The calls in flight die with the process.
ProcessDies == Kill /\ DropCalls /\ UNCHANGED jobVars

Next ==
  \/ \E j \in Jobs : JobStep(j) \/ BatchAbandoned(j) \/ JobStopped(j) \/ DoclingWorks(j)
  \/ \E c \in Calls : Search(c) \/ ModelAnswers(c)
  \/ ServerStarts \/ StartBreaks \/ ProcessDies

Spec == Init /\ [][Next]_vars

\* A worker goes on with its job, a model comes back from every batch, the
\* start goes on while its steps succeed.  docling-serve owes nothing.
Fairness ==
  /\ \A j \in Jobs : WF_vars(JobStep(j))
  /\ \A c \in Calls : WF_vars(ModelAnswers(c))
  /\ WF_vars(ServerStarts)

FairSpec == Spec /\ Fairness

-----------------------------------------------------------------------------
(* Properties.                                                             *)

\* "without this wait /embed could take a request before the model is loaded"
\* (main.py:78-81): whatever is being embedded, the start was completed first.
EmbedOnlyWhenReady == \A c \in Calls : InFlight(c) => public = "serving"

\* A document counts as embedded only with the vectors of all its batches: no
\* batch is lost in a restart, a failure of the model or a late answer.
EmbeddedMeansAll ==
  \A j \in Jobs : outcome[j] = "embedded" =>
    left[j] = 0 /\ Sent(j) # {} /\ \A c \in Sent(j) : call[c] = "answered"

\* What a job has sent, step by step: the inductive invariant under the two.
JobInv ==
  \A j \in Jobs :
    /\ outcome[j] # "none" => jpc[j] = "done"
    /\ jpc[j] \in {"idle", "submit", "poll", "reply", "fetch"} => Sent(j) = {}
    /\ jpc[j] = "embed" => left[j] > 0 /\ \A c \in Sent(j) : call[c] = "answered"
    /\ jpc[j] = "answer" => left[j] > 0 /\ Sent(j) # {}

IInv ==
  TypeOK /\ PatienceInv /\ PoolInv /\ StartInv /\ JobInv /\ EmbedOnlyWhenReady /\ EmbeddedMeansAll

\* Every job ends, even when docling-serve never answers for its task, models
\* fail and the API process restarts in between.
JobsEnd == \A j \in Jobs : AtWork(j) ~> (jpc[j] = "done")

\* The internal server, which waits for an event of the public one, opens
\* unless the process dies first.
InternalFollows ==
  (mode = "split" /\ public = "serving") ~> (private = "serving" \/ public # "serving")
=============================================================================
