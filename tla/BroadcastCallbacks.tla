------------------------- MODULE BroadcastCallbacks -------------------------
(***************************************************************************)
(* What the owner of a Broadcast and the threads of that Broadcast show    *)
(* each other: start() and stop() in the one direction, startedCallback    *)
(* and failedCallback in the other.  Broadcast.tla implements this, and    *)
(* Dock.tla is composed with it, so what the dock is checked against is    *)
(* what the threads of src/src/broadcast.cpp do.                           *)
(***************************************************************************)

VARIABLES
  broadcast,  \* Instance::broadcast_, and what has been called on it
  worker,     \* its broadcastThread_
  late,       \* a handler of a stopped broadcast is still running
  failed      \* failedCallback has been called

vars == <<broadcast, worker, late, failed>>

Init ==
  /\ broadcast \in {"null", "made"}
  /\ worker = "none"
  /\ late = FALSE
  /\ failed = FALSE

-----------------------------------------------------------------------------
(* The owner *)

\* A new Broadcast in the place of none, or of one that was never started.
Make ==
  /\ broadcast \in {"null", "made"}
  /\ broadcast' = "made"
  /\ failed' \in BOOLEAN
  /\ UNCHANGED <<worker, late>>

\* start()
Start ==
  /\ broadcast = "made"
  /\ broadcast' = "running"
  /\ worker' = "starting"
  /\ UNCHANGED <<late, failed>>

\* stop() is called, on a Broadcast that may never have been started...
CallStop ==
  /\ broadcast \in {"made", "running"}
  /\ broadcast' = "stopping"
  /\ UNCHANGED <<worker, late, failed>>

\* ... and returns, the worker joined.  A handler of the websocket thread may
\* not have.
StopReturns ==
  /\ broadcast = "stopping"
  /\ worker \in {"none", "over"}
  /\ broadcast' = "null"
  /\ worker' = "none"
  /\ late' \in {late, late \/ worker = "over"}
  /\ UNCHANGED failed

-----------------------------------------------------------------------------
(* The threads *)

\* The transition to Live, which only a stop() keeps from happening.
WorkerGoesLive ==
  /\ worker = "starting"
  /\ broadcast = "running"
  /\ worker' = "calling"
  /\ UNCHANGED <<broadcast, late, failed>>

\* startedCallback
CallStarted ==
  /\ worker = "calling"
  /\ worker' = "live"
  /\ UNCHANGED <<broadcast, late, failed>>

\* The worker gives up and says so.
WorkerFails ==
  /\ worker \in {"starting", "live"}
  /\ worker' = "over"
  /\ failed' = TRUE
  /\ UNCHANGED <<broadcast, late>>

\* It gives up because of a stop(), and says nothing.
WorkerStops ==
  /\ worker \in {"starting", "live"}
  /\ broadcast = "stopping"
  /\ worker' = "over"
  /\ UNCHANGED <<broadcast, late, failed>>

\* A takeover or an error of the stage subscription, which ends no thread.
SubscriptionFails ==
  /\ worker # "none"
  /\ failed' = TRUE
  /\ UNCHANGED <<broadcast, worker, late>>

\* The same after the stop() has returned.
LateFailure ==
  /\ late
  /\ failed' = TRUE
  /\ UNCHANGED <<broadcast, worker, late>>

LateEnds ==
  /\ late
  /\ late' = FALSE
  /\ UNCHANGED <<broadcast, worker, failed>>

-----------------------------------------------------------------------------

Next ==
  \/ Make \/ Start \/ CallStop \/ StopReturns
  \/ WorkerGoesLive \/ CallStarted \/ WorkerFails \/ WorkerStops
  \/ SubscriptionFails \/ LateFailure \/ LateEnds

Spec == Init /\ [][Next]_vars
=============================================================================
