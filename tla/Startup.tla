------------------------------ MODULE Startup -------------------------------
(***************************************************************************)
(* The start of the API process (app/main.py): one process with a public   *)
(* and an internal server, whose application waits until the public one    *)
(* has built what both use.  uvicorn and the supervisor of the container   *)
(* are external: a server whose lifespan raises returns without an         *)
(* exception, and the container restarts when its process ends.            *)
(***************************************************************************)
CONSTANTS
  Modes,       \* "split": two ports, "single": internal_port = 0, "reload"
  StartFaults  \* steps of the start that may raise

StartSteps == {"load", "index", "calibrate", "buckets"}

ASSUME StartupAssumption ==
  /\ Modes \subseteq {"split", "single", "reload"}
  /\ StartFaults \subseteq StartSteps

VARIABLES
  mode,     \* how the settings make the process serve
  public,   \* the step of lifespan, or what has become of the server
  private,  \* the internal server, if _serve starts one
  ready     \* state.ready

startVars == <<mode, public, private, ready>>

StartTypeOK ==
  /\ mode \in Modes
  /\ public \in StartSteps \cup {"serving", "down"}
  /\ private \in {"absent", "waiting", "serving"}
  /\ ready \in BOOLEAN

\* _serve starts both servers at once; run with reload starts the public one.
FirstOf(m) == IF m = "split" THEN "waiting" ELSE "absent"

StartInit ==
  /\ mode \in Modes
  /\ public = "load"
  /\ private = FirstOf(mode)
  /\ ready = FALSE

Advance(from, to) ==
  /\ public = from
  /\ public' = to
  /\ UNCHANGED <<mode, private, ready>>

LoadModels  == Advance("load", "index")
EnsureIndex == Advance("index", "calibrate")
Calibrate   == Advance("calibrate", "buckets")

\* Mutant: the event is forgotten.
EnsureBucketsOnly == Advance("buckets", "serving")

\* The last step of the lifespan, and ready.set().
EnsureBuckets ==
  /\ public = "buckets"
  /\ public' = "serving"
  /\ ready' = TRUE
  /\ UNCHANGED <<mode, private>>

\* A step raises: uvicorn logs it and the public server returns.
StartFails ==
  /\ public \in StartFaults
  /\ public' = "down"
  /\ UNCHANGED <<mode, private, ready>>

\* Mutant: the internal application does not wait.
OpenAtOnce ==
  /\ private = "waiting"
  /\ private' = "serving"
  /\ UNCHANGED <<mode, public, ready>>

\* internal_lifespan: state.ready.wait().
OpenPrivate ==
  /\ private = "waiting"
  /\ ready
  /\ private' = "serving"
  /\ UNCHANGED <<mode, public, ready>>

Again ==
  /\ public' = "load"
  /\ private' = FirstOf(mode)
  /\ ready' = FALSE
  /\ UNCHANGED mode

\* The process ended by itself: _serve awaited the public server only.
Restart == mode = "single" /\ public = "down" /\ Again

\* The process is killed, by the kernel or by an operator.
Kill == Again

StartContinues ==
  LoadModels \/ EnsureIndex \/ Calibrate \/ EnsureBuckets \/ OpenPrivate \/ Restart

\* Which server has the router of /embed: app includes it for internal_port =
\* 0, internal_app has it, but nothing serves internal_app under reload.
EmbedServed ==
  \/ mode = "split" /\ private = "serving"
  \/ mode = "single" /\ public = "serving"

\* Neither the event nor a server that waits for it outlives the public server.
StartInv ==
  /\ StartTypeOK
  /\ ready => public = "serving"
  /\ private = "serving" => public = "serving"
=============================================================================
