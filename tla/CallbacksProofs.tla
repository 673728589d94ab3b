--------------------------- MODULE CallbacksProofs ---------------------------
(***************************************************************************)
(* The threads of Broadcast.tla implement what BroadcastCallbacks.tla says *)
(* they show the dock.                                                     *)
(***************************************************************************)
EXTENDS BroadcastProofs

USE DEF vars, appVars, subVars, wsVars, reports, server, Goto

\* How the owner's calls follow from where the application thread is.
CalledFacts ==
  /\ appPc = "created" => Called = "made"
  /\ appPc = "running" => Called = "running"
  /\ appPc \in {"reset", "join"} => Called = "stopping"
  /\ appPc \in {"stopped", "released"} => Called = "null"

LEMMA CalledOf == CalledFacts /\ CalledFacts'
BY DEF CalledFacts, Called

LEMMA LateIsBoolean == Late \in BOOLEAN /\ Late' \in BOOLEAN
BY DEF Late

LEMMA InitCallbacks == Init => Callbacks!Init
BY CalledOf DEF CalledFacts, Init, Callbacks!Init, Shown, Late

\* The application thread calls start() and stop(), and lets go of the object.
LEMMA AppCallbacks ==
  ASSUME IInv, fault = "none", App
  PROVE  [Callbacks!Next]_(Callbacks!vars)
<1> USE DEF Callbacks!Next, Callbacks!vars
<1>1. CASE Start
  <2>0. appPc = "created" /\ appPc' = "running" /\ workerPc = "none"
    BY <1>1 DEF Start, IInv, AppInv
  <2>1. /\ Called = "made" /\ Called' = "running"
        /\ workerPc = "none" /\ workerPc' = "subscribe"
        /\ ~started /\ UNCHANGED <<started, reported, alive>>
    <3>1. Called = "made" /\ Called' = "running"
      BY <2>0, CalledOf DEF CalledFacts
    <3>2. ~started
      BY <2>0 DEF IInv, WorkerInv, StartedPcs
    <3> QED  BY <1>1, <2>0, <3>1, <3>2 DEF Start
  <2>2. "Disconnected" \notin reported
    BY <2>1 DEF IInv, WorkerInv, AnswersAgree
  <2>3. Shown = "none" /\ Shown' = "starting" /\ ~Late /\ ~Late'
    BY <2>1, <2>2 DEF Shown, Late
  <2>4. UNCHANGED <<Late, reported # {}>>
    BY <2>1, <2>3, LateIsBoolean
  <2> QED  BY <2>1, <2>3, <2>4 DEF Callbacks!Start
<1>2. CASE StopAnnounce
  <2>1. /\ Called \in {"made", "running"} /\ Called' = "stopping"
        /\ UNCHANGED <<workerPc, started, reported, alive>>
        /\ Called = "made" => workerPc = "none"
    <3>1. Called \in {"made", "running"} /\ Called' = "stopping"
      BY <1>2, CalledOf DEF CalledFacts, StopAnnounce
    <3>2. appPc = "running" => Called = "running"
      BY CalledOf DEF CalledFacts
    <3>3. Called = "made" => workerPc = "none"
      BY <1>2, <3>2 DEF StopAnnounce, IInv, AppInv
    <3> QED  BY <1>2, <3>1, <3>3 DEF StopAnnounce
  <2>2. UNCHANGED Shown /\ ~Late /\ ~Late'
    BY <2>1 DEF Shown, Late
  <2>3. UNCHANGED <<Late, reported # {}>>
    BY <2>1, <2>2, LateIsBoolean
  <2> QED  BY <2>1, <2>2, <2>3 DEF Callbacks!CallStop
<1>3. CASE StopReset
  <2>1. UNCHANGED <<Called, workerPc, started, reported, alive>>
    BY <1>3, CalledOf DEF CalledFacts, StopReset
  <2> QED  BY <2>1 DEF Shown, Late
<1>4. CASE StopJoin
  <2>1. /\ Called = "stopping" /\ Called' = "null"
        /\ workerPc \in {"none", "done"}
        /\ UNCHANGED <<workerPc, started, reported, alive>>
    BY <1>4, CalledOf DEF CalledFacts, StopJoin
  <2>2. alive
    BY <1>4 DEF StopJoin, IInv, LifetimeInv
  <2>3. /\ Shown = IF workerPc = "none" THEN "none" ELSE "over"
        /\ Shown' = "none"
        /\ ~Late /\ (Late' <=> workerPc # "none")
    BY <2>1, <2>2 DEF Shown, Late
  <2>4. Shown = "over" <=> workerPc # "none"
    BY <2>3
  <2>5. Late' \in {Late, Late \/ Shown = "over"}
    <3>1. Late' \in BOOLEAN /\ Late \in BOOLEAN
      BY DEF Late
    <3> QED  BY <2>3, <2>4, <3>1
  <2>6. Shown \in {"none", "over"}
    BY <2>3
  <2> QED  BY <2>1, <2>3, <2>5, <2>6 DEF Callbacks!StopReturns
<1>5. CASE Release
  <2>1. /\ Called = "null" /\ Called' = "null"
        /\ UNCHANGED <<workerPc, started, reported>>
        /\ UNCHANGED alive \/ alive' = FALSE
    BY <1>5, CalledOf DEF CalledFacts, Release
  <2>2. Shown = "none" /\ Shown' = "none"
    BY <2>1 DEF Shown
  <2>3. CASE UNCHANGED alive
    BY <2>1, <2>2, <2>3 DEF Late
  <2>4. CASE alive' = FALSE /\ ~Late
    BY <2>1, <2>2, <2>4 DEF Late
  <2>5. CASE alive' = FALSE /\ Late
    BY <2>1, <2>2, <2>5 DEF Late, Callbacks!LateEnds
  <2> QED  BY <2>1, <2>3, <2>4, <2>5
<1> QED  BY <1>1, <1>2, <1>3, <1>4, <1>5 DEF App

\* The worker goes live, calls startedCallback, and fails or is stopped; all of
\* it between start() and the return of stop().
LEMMA WorkerCallbacks ==
  ASSUME IInv, fault = "none", Worker
  PROVE  [Callbacks!Next]_(Callbacks!vars)
<1> USE DEF Callbacks!Next, Callbacks!vars
<1>1. UNCHANGED <<Called, alive>>
  BY DEF Worker, appVars, Called
<1>2. workerPc \notin {"none", "done"} => Called \in {"running", "stopping"}
  BY CalledOf DEF CalledFacts, IInv, TypeOK, AppPcs, AppInv
<1>3. workerPc # "none" /\ workerPc' # "none" /\ workerPc # "done"
  BY DEF Worker, WorkerSubscribe, WorkerConnect, ToStreaming, RequireStreaming,
     SubscriptionOpened, SubscriptionTimesOut, StartBroadcastAccepted,
     StartBroadcastRefused, StartBroadcastNotLive, StartBroadcastUnanswered, ToLive,
     UndoStart, CallStarted, LoopCheck, HeartbeatSucceeds, HeartbeatFails, Exit,
     StopBroadcast, RequestThrows, Goto, Transition
<1>4. UNCHANGED Late
  <2>1. ~Late /\ ~Late'
    BY <1>1, <1>2, <1>3 DEF Late
  <2> QED  BY <2>1, LateIsBoolean
<1>5. /\ Shown = IF "Disconnected" \in reported THEN "over"
                 ELSE IF workerPc = "callStarted" THEN "calling"
                 ELSE IF started THEN "live" ELSE "starting"
      /\ Shown' = IF workerPc' = "done" \/ "Disconnected" \in reported' THEN "over"
                  ELSE IF workerPc' = "callStarted" THEN "calling"
                  ELSE IF started' THEN "live" ELSE "starting"
  BY <1>1, <1>2, <1>3 DEF Shown
<1>6. /\ started => workerPc \in StartedPcs
      /\ "Disconnected" \in reported => started /\ workerPc \in {"exit", "stopBroadcast"}
  BY <1>3 DEF IInv, WorkerInv, AnswersAgree
<1>7. workerPc \in {"undoStart", "stopBroadcast"} => Called = "stopping"
  BY <1>2, CalledOf DEF CalledFacts, IInv, TypeOK, AppPcs, AppInv, WorkerInv,
     StateShowsProgress
<1> DEFINE Quiet == UNCHANGED <<started, reported>>
\* The worker stops, or goes on, where nobody sees it.
<1>8. ASSUME Quiet, workerPc' \notin {"done", "callStarted"}, workerPc # "callStarted"
      PROVE  UNCHANGED Callbacks!vars
  <2>1. UNCHANGED Shown  BY <1>3, <1>5, <1>8
  <2>2. UNCHANGED (reported # {})  BY <1>8
  <2> QED  BY <1>1, <1>4, <2>1, <2>2
<1>9. ASSUME Quiet, workerPc' = "done", "Disconnected" \in reported \/ Called = "stopping",
             workerPc # "callStarted"
      PROVE  [Callbacks!Next]_(Callbacks!vars)
  <2>1. Shown' = "over" /\ UNCHANGED (reported # {})  BY <1>5, <1>9
  <2>2. CASE "Disconnected" \in reported
    <3>1. UNCHANGED Shown  BY <1>5, <2>1, <2>2
    <3> QED  BY <1>1, <1>4, <2>1, <3>1
  <2>3. CASE "Disconnected" \notin reported
    <3>1. Shown \in {"starting", "live"} /\ Called = "stopping"  BY <1>5, <1>9, <2>3
    <3> QED  BY <1>1, <1>4, <2>1, <3>1 DEF Callbacks!WorkerStops
  <2> QED  BY <2>2, <2>3
<1>10. ASSUME UNCHANGED started, workerPc' = "done", workerPc \notin {"callStarted", "exit"},
              reported' # {}, "Disconnected" \notin reported
       PROVE  [Callbacks!Next]_(Callbacks!vars)
  <2>1. Shown \in {"starting", "live"} /\ Shown' = "over"  BY <1>5, <1>10
  <2>2. (reported # {})' = TRUE  BY <1>10
  <2> QED  BY <1>1, <1>4, <2>1, <2>2 DEF Callbacks!WorkerFails
<1>11. CASE \/ WorkerSubscribe \/ WorkerConnect \/ SubscriptionOpened
            \/ StartBroadcastAccepted \/ LoopCheck \/ HeartbeatSucceeds \/ RequestThrows
  <2>1. Quiet /\ workerPc' \notin {"done", "callStarted"} /\ workerPc # "callStarted"
    BY <1>11, <1>3 DEF WorkerSubscribe, WorkerConnect, SubscriptionOpened,
       StartBroadcastAccepted, LoopCheck, HeartbeatSucceeds, RequestThrows, Goto
  <2> QED  BY <2>1, <1>8
<1>12. CASE ToStreaming \/ RequireStreaming
  <2>1. Quiet /\ workerPc # "callStarted" /\ workerPc' # "callStarted"
    BY <1>12 DEF ToStreaming, RequireStreaming, Transition, Goto
  <2>2. workerPc' = "done" => Called = "stopping"
    BY <1>2, <1>12, CalledOf DEF CalledFacts, ToStreaming, RequireStreaming, Transition,
       Goto, IInv, TypeOK, AppPcs, AppInv, StateShowsProgress
  <2> QED  BY <2>1, <2>2, <1>8, <1>9
<1>13. CASE \/ SubscriptionTimesOut \/ StartBroadcastRefused \/ StartBroadcastUnanswered
            \/ StartBroadcastNotLive
  <2>1. CASE workerPc' = "done"
    <3>1. /\ UNCHANGED started /\ reported' # {}
          /\ workerPc \in {"awaitOpen", "startBroadcast"}
      BY <1>13, <1>3, <2>1 DEF SubscriptionTimesOut, StartBroadcastRefused,
         StartBroadcastUnanswered, StartBroadcastNotLive, Report
    <3>2. "Disconnected" \notin reported
      BY <1>6, <3>1
    <3> QED  BY <1>10, <2>1, <3>1, <3>2
  <2>2. CASE workerPc' # "done"
    <3>1. Quiet /\ workerPc \in {"awaitOpen", "startBroadcast"} /\ workerPc' = workerPc
      BY <1>13, <2>2 DEF SubscriptionTimesOut, StartBroadcastRefused,
         StartBroadcastUnanswered, StartBroadcastNotLive, Goto
    <3> QED  BY <1>8, <2>2, <3>1
  <2> QED  BY <2>1, <2>2
<1>14. CASE ToLive
  <2>1. workerPc = "toLive" /\ Quiet
    BY <1>14 DEF ToLive
  <2>2. CASE broadcastState = "Streaming"
    <3>1. workerPc' = "callStarted"
      BY <1>14, <2>2 DEF ToLive, Transition, Goto
    <3>2. Called = "running"
      BY <1>2, <2>1, <2>2, CalledOf DEF CalledFacts, IInv, TypeOK, AppPcs, AppInv
    <3>3. Shown = "starting" /\ Shown' = "calling"
      BY <1>5, <1>6, <2>1, <3>1 DEF StartedPcs
    <3>4. UNCHANGED (reported # {})  BY <2>1
    <3> QED  BY <1>1, <1>4, <3>2, <3>3, <3>4 DEF Callbacks!WorkerGoesLive
  <2>3. CASE broadcastState # "Streaming"
    <3>1. workerPc' = "undoStart"
      BY <1>14, <2>3 DEF ToLive, Transition, Goto
    <3> QED  BY <1>8, <2>1, <3>1
  <2> QED  BY <2>2, <2>3
<1>15. CASE UndoStart \/ StopBroadcast
  <2>1. Quiet /\ workerPc' = "done" /\ workerPc \in {"undoStart", "stopBroadcast"}
    BY <1>15 DEF UndoStart, StopBroadcast, Goto
  <2> QED  BY <1>7, <1>9, <2>1
<1>16. CASE CallStarted
  <2>1. /\ workerPc = "callStarted" /\ workerPc' = "loop"
        /\ started' = TRUE /\ UNCHANGED reported
    BY <1>16 DEF CallStarted, Goto
  <2>2. Shown = "calling" /\ Shown' = "live"
    BY <1>5, <1>6, <2>1
  <2>3. UNCHANGED (reported # {})  BY <2>1
  <2> QED  BY <1>1, <1>4, <2>2, <2>3 DEF Callbacks!CallStarted
<1>17. CASE HeartbeatFails
  <2>1. workerPc = "beat" /\ started /\ "Disconnected" \notin reported
    BY <1>6, <1>17 DEF HeartbeatFails, IInv, WorkerInv, StartedPcs
  <2>2. CASE Report("Disconnected") /\ workerPc' = "exit"
    <3>1. Shown = "live" /\ Shown' = "over"
      BY <1>5, <2>1, <2>2 DEF Report
    <3>2. (reported # {})' = TRUE  BY <2>2 DEF Report
    <3> QED  BY <1>1, <1>4, <3>1, <3>2 DEF Callbacks!WorkerFails
  <2>3. CASE Quiet /\ workerPc' = "loop"
    BY <1>8, <2>1, <2>3
  <2>4. \/ Report("Disconnected") /\ workerPc' = "exit"
        \/ Quiet /\ workerPc' = "loop"
    BY <1>17 DEF HeartbeatFails, Goto
  <2> QED  BY <2>2, <2>3, <2>4
<1>18. CASE Exit
  <2>1. workerPc = "exit" /\ Quiet /\ workerPc' \in {"stopBroadcast", "done"}
    BY <1>18 DEF Exit, Goto
  <2>2. workerPc' = "done" => "Disconnected" \in reported
    BY <1>18, <2>1 DEF Exit, Goto, IInv, WorkerInv
  <2> QED  BY <1>8, <1>9, <2>1, <2>2
<1> QED
  BY <1>11, <1>12, <1>13, <1>14, <1>15, <1>16, <1>17, <1>18 DEF Worker

\* The websocket thread reports failures: of a broadcast whose worker has been
\* started, or after a stop() of one that is still there.
LEMMA WsCallbacks ==
  ASSUME IInv, fault = "none", Ws
  PROVE  [Callbacks!Next]_(Callbacks!vars)
<1> USE DEF Callbacks!Next, Callbacks!vars
<1>1. UNCHANGED <<Called, alive, workerPc>>
  BY DEF Ws, appVars, Called
<1>2. CASE WsFailTakeover \/ WsFailErrors
  <2>1. UNCHANGED started /\ (\E f \in Failures : reported' = reported \cup {f} /\ f # "Disconnected")
    BY <1>2 DEF WsFailTakeover, WsFailErrors, Report, Failures
  <2>2. UNCHANGED <<Shown, Late>> /\ reported' # {}
    BY <1>1, <2>1 DEF Shown, Late
  <2>3. alive /\ workerPc # "none" /\ Called # "made"
    BY <1>2, CalledOf DEF CalledFacts, WsFailTakeover, WsFailErrors, IInv, TypeOK, AppPcs,
       AppInv, SubscriptionInv, BeforeConnect, HoldingPcs, LifetimeInv
  <2>4. Called \in {"running", "stopping", "null"}
    BY <2>3, CalledOf DEF CalledFacts, IInv, TypeOK, AppPcs
  <2>5. CASE Called = "null"
    BY <1>1, <2>2, <2>3, <2>5 DEF Late, Callbacks!LateFailure
  <2>6. CASE Called \in {"running", "stopping"}
    <3>1. Shown # "none"
      BY <2>3, <2>6 DEF Shown
    <3> QED  BY <1>1, <2>2, <3>1 DEF Callbacks!SubscriptionFails
  <2> QED  BY <2>4, <2>5, <2>6
<1>3. CASE ~WsFailTakeover /\ ~WsFailErrors
  <2>1. UNCHANGED <<started, reported>>
    BY <1>3 DEF Ws, reports, WsOpened, WsReauthenticate, WsRefreshThrows, WsStageUpdate,
       WsCheckOnline, WsCheckLive, WsGraphqlErrors, WsLeave, WsEnded, WsBackoffOver,
       WsResubscribe, WsConnect
  <2> QED  BY <1>1, <2>1 DEF Shown, Late
<1> QED  BY <1>2, <1>3

\* The snapshot thread calls nobody back.
LEMMA SnapCallbacks ==
  ASSUME Snap
  PROVE  UNCHANGED Callbacks!vars
BY DEF Snap, appVars, reports, Called, Shown, Late, Callbacks!vars

\* What Dock.tla is composed with is what the threads of a Broadcast do.
THEOREM CallbacksImplemented == Safe => ImplementsCallbacks
<1>1. Init => Callbacks!Init  BY InitCallbacks
<1>2. IInv /\ [Next]_vars => [Callbacks!Next]_(Callbacks!vars)
  <2>1. ASSUME IInv, Next PROVE [Callbacks!Next]_(Callbacks!vars)
    BY <2>1, AppCallbacks, WorkerCallbacks, WsCallbacks, SnapCallbacks DEF Next
  <2>2. ASSUME UNCHANGED vars PROVE UNCHANGED Callbacks!vars
    BY <2>2 DEF vars, appVars, reports, Callbacks!vars, Called, Shown, Late
  <2> QED  BY <2>1, <2>2
<1> QED  BY Invariance, <1>1, <1>2, PTL DEF Safe, ImplementsCallbacks, Callbacks!Spec
=============================================================================
