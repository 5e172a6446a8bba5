----------------------------- MODULE EmbedPool ------------------------------
(***************************************************************************)
(* POST /embed (app/api/embed.py): every call names a pool, waits for the  *)
(* semaphore of that pool and runs the model in a thread.  The server does *)
(* not notice when a caller gives up: the call keeps its place in the line *)
(* and, later, its slot, so that giving up is no step of this module.      *)
(***************************************************************************)
EXTENDS Naturals, FiniteSets, Sequences

CONSTANTS
  Calls,   \* HTTP requests to /embed
  PoolOf,  \* the pool a call names
  Slots    \* embed_concurrency and embed_query_concurrency

Pools == {"ingest", "query"}

ASSUME EmbedPoolAssumption ==
  /\ IsFiniteSet(Calls)
  /\ PoolOf \in [Calls -> Pools]
  /\ Slots \in [Pools -> Nat \ {0}]

VARIABLES
  call,  \* what has become of each call
  line,  \* waiters of a semaphore, first come, first served
  free   \* value of a semaphore

poolVars == <<call, line, free>>

CallStates == {"unsent", "waiting", "running", "answered", "failed"}

PoolTypeOK ==
  /\ call \in [Calls -> CallStates]
  /\ line \in [Pools -> Seq(Calls)]
  /\ free \in [Pools -> Nat]

\* The lifespan creates both semaphores anew.
PoolInit ==
  /\ call = [c \in Calls |-> "unsent"]
  /\ line = [p \in Pools |-> <<>>]
  /\ free = Slots

Running(p) == {c \in Calls : PoolOf[c] = p /\ call[c] = "running"}
InFlight(c) == call[c] \in {"waiting", "running"}

\* Mutant: both pools share a semaphore.
ArriveShared(c) ==
  /\ call[c] = "unsent"
  /\ \/ /\ free["ingest"] > 0
        /\ call' = [call EXCEPT ![c] = "running"]
        /\ free' = [free EXCEPT !["ingest"] = @ - 1]
        /\ UNCHANGED line
     \/ /\ free["ingest"] = 0
        /\ call' = [call EXCEPT ![c] = "waiting"]
        /\ line' = [line EXCEPT !["ingest"] = Append(@, c)]
        /\ UNCHANGED free

\* `async with semaphore`: in, or to the end of the line.
Arrive(c) ==
  LET p == PoolOf[c] IN
  /\ call[c] = "unsent"
  /\ \/ /\ free[p] > 0
        /\ call' = [call EXCEPT ![c] = "running"]
        /\ free' = [free EXCEPT ![p] = @ - 1]
        /\ UNCHANGED line
     \/ /\ free[p] = 0
        /\ call' = [call EXCEPT ![c] = "waiting"]
        /\ line' = [line EXCEPT ![p] = Append(@, c)]
        /\ UNCHANGED free

\* Mutant: an exception of the model leaves the semaphore locked.
FinishOrLeak(c) ==
  LET p == PoolOf[c] IN
  /\ call[c] = "running"
  /\ \/ /\ line[p] = <<>>
        /\ free' = [free EXCEPT ![p] = @ + 1]
        /\ call' = [call EXCEPT ![c] = "answered"]
        /\ UNCHANGED line
     \/ /\ line[p] # <<>>
        /\ call' = [call EXCEPT ![c] = "answered", ![Head(line[p])] = "running"]
        /\ line' = [line EXCEPT ![p] = Tail(@)]
        /\ UNCHANGED free
     \/ /\ call' = [call EXCEPT ![c] = "failed"]
        /\ UNCHANGED <<line, free>>

\* The model answers or raises; asyncio hands the slot to the first waiter.
Finish(c) ==
  LET p == PoolOf[c] IN
  /\ call[c] = "running"
  /\ \E result \in {"answered", "failed"} :
       \/ /\ line[p] = <<>>
          /\ call' = [call EXCEPT ![c] = result]
          /\ free' = [free EXCEPT ![p] = @ + 1]
          /\ UNCHANGED line
       \/ /\ line[p] # <<>>
          /\ call' = [call EXCEPT ![c] = result, ![Head(line[p])] = "running"]
          /\ line' = [line EXCEPT ![p] = Tail(@)]
          /\ UNCHANGED free

\* The process dies, and every connection with it.
DropCalls ==
  /\ call' = [c \in Calls |-> IF InFlight(c) THEN "failed" ELSE call[c]]
  /\ line' = [p \in Pools |-> <<>>]
  /\ free' = Slots

-----------------------------------------------------------------------------
(* Properties.                                                             *)

\* Whatever a call came to, its slot came back: no exception, no caller that
\* went away and no restart costs the pool a slot, or gives it one too many.
SlotsAccounted == \A p \in Pools : free[p] + Cardinality(Running(p)) = Slots[p]

\* "on a common semaphore the chat would wait for the depth of the queue"
\* (embed.py:6-8): a call waits only while calls of its own pool take up
\* every slot of that pool.
WaitsForOwnPool ==
  \A c \in Calls : call[c] = "waiting" => Cardinality(Running(PoolOf[c])) = Slots[PoolOf[c]]

\* The inductive invariant under both: the line of a pool holds the calls of
\* that pool that wait, each once, and there is a line only where no slot is free.
LineIsSound(p) ==
  /\ \A i \in 1..Len(line[p]) : call[line[p][i]] = "waiting" /\ PoolOf[line[p][i]] = p
  /\ \A i, k \in 1..Len(line[p]) : line[p][i] = line[p][k] => i = k
  /\ \A c \in Calls : PoolOf[c] = p /\ call[c] = "waiting" => \E i \in 1..Len(line[p]) : line[p][i] = c
  /\ line[p] # <<>> => free[p] = 0

PoolInv == PoolTypeOK /\ SlotsAccounted /\ \A p \in Pools : LineIsSound(p)
=============================================================================
