------------------------- MODULE BroadcastLifecycle -------------------------
(***************************************************************************)
(* What one caff::Broadcast promises the application that owns it, with no *)
(* thread, websocket or heartbeat in sight: start() and stop() bracket the *)
(* broadcast; the started callback comes at most once, after the server    *)
(* has accepted the broadcast and before stop() has returned; a start that *)
(* is answered by a timeout is never answered by "started" too; "on air"   *)
(* at the server is settled when stop() returns; and no callback comes     *)
(* from a broadcast that has been destroyed.                               *)
(***************************************************************************)

VARIABLES
  phase,     \* where the owner is in the life of the object
  started,   \* startedCallback has been called
  reported,  \* the failures failedCallback_ has been called with
  onAir,     \* the server may hold a broadcast started by this object
  crashed    \* the process has run into undefined behaviour or terminate()

vars == <<phase, started, reported, onAir, crashed>>

Phases == {"created", "running", "stopping", "stopped", "destroyed"}

\* The SessionAuthResponse values a Broadcast reports.
Failures ==
  {"StageSubscriptionTimeOut", "BroadcastFailed", "Disconnected", "Takeover"}

\* start() has been called and stop() has not returned.
Active == phase \in {"running", "stopping"}

TypeOK ==
  /\ phase \in Phases
  /\ started \in BOOLEAN
  /\ reported \subseteq Failures
  /\ onAir \in BOOLEAN
  /\ crashed \in BOOLEAN

Init ==
  /\ phase = "created"
  /\ started = FALSE
  /\ reported = {}
  /\ onAir = FALSE
  /\ crashed = FALSE

Start ==
  /\ phase = "created"
  /\ phase' = "running"
  /\ UNCHANGED <<started, reported, onAir, crashed>>

CallStop ==
  /\ phase \in {"created", "running"}
  /\ phase' = "stopping"
  /\ UNCHANGED <<started, reported, onAir, crashed>>

ReturnFromStop ==
  /\ phase = "stopping"
  /\ phase' = "stopped"
  /\ UNCHANGED <<started, reported, onAir, crashed>>

Destroy ==
  /\ phase = "stopped"
  /\ phase' = "destroyed"
  /\ UNCHANGED <<started, reported, onAir, crashed>>

ReportStarted ==
  /\ Active
  /\ onAir
  /\ ~started
  /\ "StageSubscriptionTimeOut" \notin reported
  /\ started' = TRUE
  /\ UNCHANGED <<phase, reported, onAir, crashed>>

\* When each failure may be reported.
MayReport(f) ==
  CASE f = "StageSubscriptionTimeOut" -> Active /\ ~started /\ ~onAir
    [] f = "Disconnected"             -> Active /\ started
    [] OTHER                          -> phase \notin {"created", "destroyed"}

\* A start attempt that fails may leave the server on air: the answer was lost.
ReportFailure ==
  \E f \in Failures :
    /\ MayReport(f)
    /\ reported' = reported \cup {f}
    /\ \/ onAir' = onAir
       \/ f = "BroadcastFailed" /\ Active /\ ~started /\ onAir' = TRUE
    /\ UNCHANGED <<phase, started, crashed>>

GoOnAir ==
  /\ Active
  /\ ~started
  /\ ~onAir
  /\ onAir' = TRUE
  /\ UNCHANGED <<phase, started, reported, crashed>>

\* Only a stop takes the broadcast off the air.
GoOffAir ==
  /\ phase = "stopping"
  /\ onAir
  /\ onAir' = FALSE
  /\ UNCHANGED <<phase, started, reported, crashed>>

Crash ==
  /\ crashed' = TRUE
  /\ UNCHANGED <<phase, started, reported, onAir>>

Next ==
  /\ ~crashed
  /\ \/ Start
     \/ CallStop
     \/ ReturnFromStop
     \/ Destroy
     \/ ReportStarted
     \/ ReportFailure
     \/ GoOnAir
     \/ GoOffAir
     \/ Crash

Spec == Init /\ [][Next]_vars
=============================================================================
