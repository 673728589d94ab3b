-------------------------- MODULE BroadcastProofs --------------------------
(***************************************************************************)
(* What Broadcast promises, proved for every MaxFailures and MaxTry.       *)
(*                                                                         *)
(* The safety properties are invariants because IInv is inductive: one     *)
(* lemma per part of IInv says that a step of any thread keeps it, by one  *)
(* case per action.  The refinement of BroadcastLifecycle then maps every  *)
(* action to a step of the abstract specification or to a stutter.         *)
(***************************************************************************)
EXTENDS BroadcastInvariant, TLAPS

USE MaxFailuresAssumption, MaxTryAssumption
USE DEF vars, appVars, subVars, wsVars, reports, server, Goto

-----------------------------------------------------------------------------
(* The parts of the inductive invariant *)

\* No step leaves the types: the counters stay inside their bounds, and every
\* report is one of the failures a Broadcast reports.
LEMMA TypeKept ==
  ASSUME TypeOK, FailuresInv, Next
  PROVE  TypeOK'
<1> USE DEF TypeOK, FailuresInv, BroadcastStates, Subscriptions, SubscriptionStates,
    Failures, Faults, AppPcs, WorkerPcs, WsPcs, HoldingPcs, SnapPcs
<1>1. CASE App
  <2>1. CASE Start
    BY <2>1 DEF Start, Transition
  <2>2. CASE StopAnnounce
    BY <2>2 DEF StopAnnounce
  <2>3. CASE StopReset
    BY <2>3 DEF StopReset
  <2>4. CASE StopJoin
    BY <2>4 DEF StopJoin
  <2>5. CASE Release
    <3>1. /\ appPc' = "released"
          /\ UNCHANGED <<broadcastState, tryNum, wsVars, workerPc, snapPc, failures, reports,
                         server, fault>>
      BY <2>5 DEF Release
    <3>2. subscription' \in Subscriptions /\ alive' \in BOOLEAN  BY <2>5 DEF Release
    <3> QED  BY <3>1, <3>2
  <2> QED  BY <1>1, <2>1, <2>2, <2>3, <2>4, <2>5 DEF App
<1>2. CASE Worker
  <2>0. UNCHANGED <<wsVars, appVars, alive>>
    BY <1>2 DEF Worker
  <2>1. CASE WorkerSubscribe
    BY <2>0, <2>1 DEF WorkerSubscribe, AssignSubscription
  <2>2. CASE WorkerConnect
    BY <2>0, <2>2 DEF WorkerConnect, ConnectSubscription
  <2>3. CASE ToStreaming
    BY <2>0, <2>3 DEF ToStreaming, Transition
  <2>4. CASE RequireStreaming
    BY <2>0, <2>4 DEF RequireStreaming
  <2>5. CASE SubscriptionOpened
    BY <2>0, <2>5 DEF SubscriptionOpened
  <2>6. CASE SubscriptionTimesOut
    BY <2>0, <2>6 DEF SubscriptionTimesOut, Report
  <2>7. CASE StartBroadcastAccepted
    BY <2>0, <2>7 DEF StartBroadcastAccepted
  <2>8. CASE StartBroadcastRefused
    BY <2>0, <2>8 DEF StartBroadcastRefused, Report
  <2>9. CASE StartBroadcastNotLive
    <3>1. UNCHANGED <<broadcastState, subVars, failures, started, server, snapPc>>
      BY <2>9 DEF StartBroadcastNotLive, Report
    <3>2. workerPc' \in WorkerPcs /\ reported' \subseteq Failures /\ fault' \in Faults
      BY <2>9 DEF StartBroadcastNotLive, Report
    <3> QED  BY <2>0, <3>1, <3>2
  <2>10. CASE StartBroadcastUnanswered
    BY <2>0, <2>10 DEF StartBroadcastUnanswered, Report
  <2>11. CASE ToLive
    BY <2>0, <2>11 DEF ToLive, Transition
  <2>12. CASE UndoStart
    <3>1. /\ workerPc' = "done"
          /\ UNCHANGED <<broadcastState, subVars, failures, reports, fault, snapPc>>
      BY <2>12 DEF UndoStart
    <3>2. stageStarted' \in BOOLEAN /\ lost' \in BOOLEAN
      BY <2>12 DEF UndoStart, RequestStopBroadcast
    <3> QED  BY <2>0, <3>1, <3>2
  <2>13. CASE CallStarted
    BY <2>0, <2>13 DEF CallStarted
  <2>14. CASE LoopCheck
    BY <2>0, <2>14 DEF LoopCheck
  <2>15. CASE HeartbeatSucceeds
    BY <2>0, <2>15 DEF HeartbeatSucceeds
  <2>16. CASE HeartbeatFails
    <3>1. failures' \in 0..(MaxFailures + 1)  BY <2>16 DEF HeartbeatFails
    <3>2. /\ workerPc' \in WorkerPcs /\ reported' \subseteq Failures
          /\ UNCHANGED <<broadcastState, subVars, started, server, fault, snapPc>>
      BY <2>16 DEF HeartbeatFails, Report
    <3> QED  BY <2>0, <3>1, <3>2
  <2>17. CASE Exit
    BY <2>0, <2>17 DEF Exit
  <2>18. CASE StopBroadcast
    <3>1. /\ workerPc' = "done"
          /\ UNCHANGED <<broadcastState, subVars, failures, reports, fault, snapPc>>
      BY <2>18 DEF StopBroadcast
    <3>2. stageStarted' \in BOOLEAN /\ lost' \in BOOLEAN
      BY <2>18 DEF StopBroadcast, RequestStopBroadcast
    <3> QED  BY <2>0, <3>1, <3>2
  <2>19. CASE RequestThrows
    BY <2>0, <2>19 DEF RequestThrows
  <2> QED  BY <1>2, <2>1, <2>2, <2>3, <2>4, <2>5, <2>6, <2>7, <2>8, <2>9, <2>10,
      <2>11, <2>12, <2>13, <2>14, <2>15, <2>16, <2>17, <2>18, <2>19 DEF Worker
<1>3. CASE Ws
  <2>0. UNCHANGED <<appVars, workerPc, snapPc, failures, alive, server>>
    BY <1>3 DEF Ws
  <2>1. CASE WsOpened
    BY <2>0, <2>1 DEF WsOpened
  <2>2. CASE WsReauthenticate
    BY <2>0, <2>2 DEF WsReauthenticate
  <2>3. CASE WsRefreshThrows
    BY <2>0, <2>3 DEF WsRefreshThrows
  <2>4. CASE \E feedIsOnStage, live \in BOOLEAN : WsStageUpdate(feedIsOnStage, live)
    BY <2>0, <2>4 DEF WsStageUpdate, AfterFeed, AfterOpen, WentDark, SeenOnStage
  <2>5. CASE WsCheckOnline
    BY <2>0, <2>5 DEF WsCheckOnline, IsOnline, WentDark
  <2>6. CASE WsCheckLive
    BY <2>0, <2>6 DEF WsCheckLive
  <2>7. CASE WsFailTakeover
    BY <2>0, <2>7 DEF WsFailTakeover, Report
  <2>8. CASE WsGraphqlErrors
    BY <2>0, <2>8 DEF WsGraphqlErrors
  <2>9. CASE WsFailErrors
    BY <2>0, <2>9 DEF WsFailErrors, Report
  <2>10. CASE WsLeave
    BY <2>0, <2>10 DEF WsLeave
  <2>11. CASE \E endType \in {"Closed", "Failed"} : WsEnded(endType)
    <3>1. PICK endType \in {"Closed", "Failed"} : WsEnded(endType)  BY <2>11
    <3>2. /\ subscription' = "ended"
          /\ UNCHANGED <<broadcastState, subscriptionState, opened, stageLive, reports, fault>>
      BY <3>1 DEF WsEnded
    <3>3. wsPc' \in WsPcs /\ tryNum' \in 1..MaxTry
      <4>1. CASE endType = "Closed" /\ WantsSubscription  BY <3>1, <4>1 DEF WsEnded
      <4>2. CASE endType = "Failed" /\ WantsSubscription  BY <3>1, <4>2 DEF WsEnded
      <4>3. CASE ~WantsSubscription  BY <3>1, <4>3 DEF WsEnded
      <4> QED  BY <4>1, <4>2, <4>3
    <3> QED  BY <2>0, <3>2, <3>3
  <2>12. CASE WsBackoffOver
    BY <2>0, <2>12 DEF WsBackoffOver, WantsSubscription
  <2>13. CASE WsResubscribe
    BY <2>0, <2>13 DEF WsResubscribe, AssignSubscription
  <2>14. CASE WsConnect
    BY <2>0, <2>14 DEF WsConnect, ConnectSubscription
  <2> QED  BY <1>3, <2>1, <2>2, <2>3, <2>4, <2>5, <2>6, <2>7, <2>8, <2>9, <2>10,
      <2>11, <2>12, <2>13, <2>14 DEF Ws
<1>4. CASE Snap
  BY <1>4 DEF Snap, SnapWake, SnapUpload
<1> QED  BY <1>1, <1>2, <1>3, <1>4 DEF Next

\* Where the application thread is decides broadcastState_ and, once stop() has
\* joined it, where the worker is.
LEMMA AppKept ==
  ASSUME AppInv, WorkerInv, SubscriptionInv, Next
  PROVE  AppInv'
<1> USE DEF AppInv, StateShowsProgress
<1>1. CASE App
  <2>1. CASE Start
    BY <2>1 DEF Start, Transition
  <2>2. CASE StopAnnounce
    BY <2>2 DEF StopAnnounce
  <2>3. CASE StopReset
    BY <2>3 DEF StopReset
  <2>4. CASE StopJoin
    BY <2>4 DEF StopJoin
  <2>5. CASE Release
    BY <2>5 DEF Release
  <2> QED  BY <1>1, <2>1, <2>2, <2>3, <2>4, <2>5 DEF App
<1>2. CASE Worker
  <2>0. UNCHANGED <<wsVars, appVars, alive>>
    BY <1>2 DEF Worker
  <2>1. CASE WorkerSubscribe
    BY <2>0, <2>1 DEF WorkerSubscribe, AssignSubscription, WorkerInv, SubscriptionInv,
        BeforeConnect
  <2>2. CASE WorkerConnect
    BY <2>0, <2>2 DEF WorkerConnect, ConnectSubscription, WorkerInv, SubscriptionInv,
        BeforeConnect
  <2>3. CASE ToStreaming
    BY <2>0, <2>3 DEF ToStreaming, Transition, WorkerInv, SubscriptionInv,
        BeforeConnect
  <2>4. CASE RequireStreaming
    BY <2>0, <2>4 DEF RequireStreaming, WorkerInv, SubscriptionInv, BeforeConnect
  <2>5. CASE SubscriptionOpened
    BY <2>0, <2>5 DEF SubscriptionOpened, WorkerInv, SubscriptionInv, BeforeConnect
  <2>6. CASE SubscriptionTimesOut
    BY <2>0, <2>6 DEF SubscriptionTimesOut, Report, WorkerInv, SubscriptionInv,
        BeforeConnect
  <2>7. CASE StartBroadcastAccepted
    BY <2>0, <2>7 DEF StartBroadcastAccepted, WorkerInv, SubscriptionInv,
        BeforeConnect
  <2>8. CASE StartBroadcastRefused
    BY <2>0, <2>8 DEF StartBroadcastRefused, Report, WorkerInv, SubscriptionInv,
        BeforeConnect
  <2>9. CASE StartBroadcastNotLive
    BY <2>0, <2>9 DEF StartBroadcastNotLive, Report, WorkerInv, SubscriptionInv,
        BeforeConnect
  <2>10. CASE StartBroadcastUnanswered
    BY <2>0, <2>10 DEF StartBroadcastUnanswered, Report, WorkerInv, SubscriptionInv,
        BeforeConnect
  <2>11. CASE ToLive
    BY <2>0, <2>11 DEF ToLive, Transition, WorkerInv, SubscriptionInv, BeforeConnect
  <2>12. CASE UndoStart
    BY <2>0, <2>12 DEF UndoStart, RequestStopBroadcast, WorkerInv, SubscriptionInv,
        BeforeConnect
  <2>13. CASE CallStarted
    BY <2>0, <2>13 DEF CallStarted, WorkerInv, SubscriptionInv, BeforeConnect
  <2>14. CASE LoopCheck
    BY <2>0, <2>14 DEF LoopCheck, WorkerInv, SubscriptionInv, BeforeConnect
  <2>15. CASE HeartbeatSucceeds
    BY <2>0, <2>15 DEF HeartbeatSucceeds, WorkerInv, SubscriptionInv, BeforeConnect
  <2>16. CASE HeartbeatFails
    BY <2>0, <2>16 DEF HeartbeatFails, Report, WorkerInv, SubscriptionInv,
        BeforeConnect
  <2>17. CASE Exit
    BY <2>0, <2>17 DEF Exit, WorkerInv, SubscriptionInv, BeforeConnect
  <2>18. CASE StopBroadcast
    BY <2>0, <2>18 DEF StopBroadcast, RequestStopBroadcast, WorkerInv,
        SubscriptionInv, BeforeConnect
  <2>19. CASE RequestThrows
    BY <2>0, <2>19 DEF RequestThrows, WorkerInv, SubscriptionInv, BeforeConnect
  <2> QED  BY <1>2, <2>1, <2>2, <2>3, <2>4, <2>5, <2>6, <2>7, <2>8, <2>9, <2>10,
      <2>11, <2>12, <2>13, <2>14, <2>15, <2>16, <2>17, <2>18, <2>19 DEF Worker
<1>3. CASE Ws
  BY <1>3 DEF Ws, WsOpened, WsReauthenticate, WsRefreshThrows, WsStageUpdate,
      AfterFeed, AfterOpen, WentDark, SeenOnStage, WsCheckOnline, IsOnline,
      WsCheckLive, WsFailTakeover, Report, WsGraphqlErrors, WsFailErrors, WsLeave,
      WsEnded, WantsSubscription, WsBackoffOver, WsResubscribe, AssignSubscription,
      WsConnect, ConnectSubscription, SubscriptionInv, BeforeConnect
<1>4. CASE Snap
  BY <1>4 DEF Snap, SnapWake, SnapUpload
<1> QED  BY <1>1, <1>2, <1>3, <1>4 DEF Next

\* What the worker has done is what its place in the code says it has done.
LEMMA WorkerKept ==
  ASSUME TypeOK, AppInv, WorkerInv, Next
  PROVE  WorkerInv'
<1> USE DEF AppInv, WorkerInv, AnswersAgree, StageLeftLiveOnlyIf
<1>1. CASE App
  <2>1. CASE Start
    BY <2>1 DEF Start, Transition, BeforeRequest, BeforeConnect, OnAirPcs, StartedPcs
  <2>2. CASE StopAnnounce
    BY <2>2 DEF StopAnnounce, BeforeRequest, BeforeConnect, OnAirPcs, StartedPcs
  <2>3. CASE StopReset
    BY <2>3 DEF StopReset, BeforeRequest, BeforeConnect, OnAirPcs, StartedPcs
  <2>4. CASE StopJoin
    BY <2>4 DEF StopJoin, StateShowsProgress, TypeOK, AppPcs, BeforeRequest,
        BeforeConnect, OnAirPcs, StartedPcs
  <2>5. CASE Release
    BY <2>5 DEF Release, BeforeRequest, BeforeConnect, OnAirPcs, StartedPcs
  <2> QED  BY <1>1, <2>1, <2>2, <2>3, <2>4, <2>5 DEF App
<1>2. CASE Worker
  <2>0. UNCHANGED <<wsVars, appVars, alive>>
    BY <1>2 DEF Worker
  <2>1. CASE WorkerSubscribe
    BY <2>0, <2>1 DEF WorkerSubscribe, AssignSubscription, BeforeRequest,
        BeforeConnect, OnAirPcs, StartedPcs
  <2>2. CASE WorkerConnect
    BY <2>0, <2>2 DEF WorkerConnect, ConnectSubscription, BeforeRequest,
        BeforeConnect, OnAirPcs, StartedPcs
  <2>3. CASE ToStreaming
    BY <2>0, <2>3 DEF ToStreaming, Transition, BeforeRequest, BeforeConnect, OnAirPcs,
        StartedPcs
  <2>4. CASE RequireStreaming
    BY <2>0, <2>4 DEF RequireStreaming, BeforeRequest, BeforeConnect, OnAirPcs,
        StartedPcs
  <2>5. CASE SubscriptionOpened
    BY <2>0, <2>5 DEF SubscriptionOpened, BeforeRequest, BeforeConnect, OnAirPcs,
        StartedPcs
  <2>6. CASE SubscriptionTimesOut
    BY <2>0, <2>6 DEF SubscriptionTimesOut, Report, BeforeRequest, BeforeConnect,
        OnAirPcs, StartedPcs
  <2>7. CASE StartBroadcastAccepted
    BY <2>0, <2>7 DEF StartBroadcastAccepted, BeforeRequest, BeforeConnect, OnAirPcs,
        StartedPcs
  <2>8. CASE StartBroadcastRefused
    BY <2>0, <2>8 DEF StartBroadcastRefused, Report, BeforeRequest, BeforeConnect,
        OnAirPcs, StartedPcs
  <2>9. CASE StartBroadcastNotLive
    BY <2>0, <2>9 DEF StartBroadcastNotLive, Report, BeforeRequest, BeforeConnect,
        OnAirPcs, StartedPcs
  <2>10. CASE StartBroadcastUnanswered
    BY <2>0, <2>10 DEF StartBroadcastUnanswered, Report, BeforeRequest, BeforeConnect,
        OnAirPcs, StartedPcs
  <2>11. CASE ToLive
    BY <2>0, <2>11 DEF ToLive, Transition, StateShowsProgress, TypeOK, AppPcs,
        BeforeRequest, BeforeConnect, OnAirPcs, StartedPcs
  <2>12. CASE UndoStart
    BY <2>0, <2>12 DEF UndoStart, RequestStopBroadcast, BeforeRequest, BeforeConnect,
        OnAirPcs, StartedPcs
  <2>13. CASE CallStarted
    BY <2>0, <2>13 DEF CallStarted, BeforeRequest, BeforeConnect, OnAirPcs, StartedPcs
  <2>14. CASE LoopCheck
    BY <2>0, <2>14 DEF LoopCheck, StateShowsProgress, TypeOK, AppPcs, BeforeRequest,
        BeforeConnect, OnAirPcs, StartedPcs
  <2>15. CASE HeartbeatSucceeds
    BY <2>0, <2>15 DEF HeartbeatSucceeds, BeforeRequest, BeforeConnect, OnAirPcs,
        StartedPcs
  <2>16. CASE HeartbeatFails
    <3>1. /\ workerPc = "beat"
          /\ \/ workerPc' = "exit" /\ reported' = reported \cup {"Disconnected"}
             \/ workerPc' = "loop" /\ reported' = reported
          /\ UNCHANGED <<broadcastState, started, stageStarted, lost>>
      BY <2>16 DEF HeartbeatFails, Report
    <3> QED  BY <2>0, <3>1 DEF BeforeRequest, BeforeConnect, OnAirPcs, StartedPcs
  <2>17. CASE Exit
    BY <2>0, <2>17 DEF Exit, StateShowsProgress, TypeOK, AppPcs, BeforeRequest,
        BeforeConnect, OnAirPcs, StartedPcs
  <2>18. CASE StopBroadcast
    BY <2>0, <2>18 DEF StopBroadcast, RequestStopBroadcast, BeforeRequest,
        BeforeConnect, OnAirPcs, StartedPcs
  <2>19. CASE RequestThrows
    BY <2>0, <2>19 DEF RequestThrows, BeforeRequest, BeforeConnect, OnAirPcs,
        StartedPcs
  <2> QED  BY <1>2, <2>1, <2>2, <2>3, <2>4, <2>5, <2>6, <2>7, <2>8, <2>9, <2>10,
      <2>11, <2>12, <2>13, <2>14, <2>15, <2>16, <2>17, <2>18, <2>19 DEF Worker
<1>3. CASE Ws
  <2>0. UNCHANGED <<appVars, workerPc, snapPc, failures, alive, server>>
    BY <1>3 DEF Ws
  <2>1. CASE WsOpened
    BY <2>0, <2>1 DEF WsOpened
  <2>2. CASE WsReauthenticate
    BY <2>0, <2>2 DEF WsReauthenticate
  <2>3. CASE WsRefreshThrows
    BY <2>0, <2>3 DEF WsRefreshThrows
  <2>4. CASE \E feedIsOnStage, live \in BOOLEAN : WsStageUpdate(feedIsOnStage, live)
    BY <2>0, <2>4 DEF WsStageUpdate, AfterFeed, AfterOpen, WentDark, SeenOnStage
  <2>5. CASE WsCheckOnline
    BY <2>0, <2>5 DEF WsCheckOnline, IsOnline, WentDark
  <2>6. CASE WsCheckLive
    BY <2>0, <2>6 DEF WsCheckLive
  <2>7. CASE WsFailTakeover
    BY <2>0, <2>7 DEF WsFailTakeover, Report
  <2>8. CASE WsGraphqlErrors
    BY <2>0, <2>8 DEF WsGraphqlErrors
  <2>9. CASE WsFailErrors
    BY <2>0, <2>9 DEF WsFailErrors, Report
  <2>10. CASE WsLeave
    BY <2>0, <2>10 DEF WsLeave
  <2>11. CASE \E endType \in {"Closed", "Failed"} : WsEnded(endType)
    BY <2>0, <2>11 DEF WsEnded, WantsSubscription
  <2>12. CASE WsBackoffOver
    BY <2>0, <2>12 DEF WsBackoffOver, WantsSubscription
  <2>13. CASE WsResubscribe
    BY <2>0, <2>13 DEF WsResubscribe, AssignSubscription
  <2>14. CASE WsConnect
    BY <2>0, <2>14 DEF WsConnect, ConnectSubscription
  <2> QED  BY <1>3, <2>1, <2>2, <2>3, <2>4, <2>5, <2>6, <2>7, <2>8, <2>9, <2>10,
      <2>11, <2>12, <2>13, <2>14 DEF Ws
<1>4. CASE Snap
  BY <1>4 DEF Snap, SnapWake, SnapUpload
<1> QED  BY <1>1, <1>2, <1>3, <1>4 DEF Next

\* The worker leaves the heartbeat loop as soon as max_failures is exceeded.
LEMMA FailuresKept ==
  ASSUME TypeOK, AppInv, FailuresInv, Next
  PROVE  FailuresInv'
<1> USE DEF TypeOK, AppInv, FailuresInv
<1>1. CASE App
  BY <1>1 DEF App, Start, Transition, StopAnnounce, StopReset, StopJoin, Release
<1>2. CASE Worker
  <2>0. UNCHANGED <<wsVars, appVars, alive>>
    BY <1>2 DEF Worker
  <2>1. CASE HeartbeatSucceeds
    BY <2>0, <2>1 DEF HeartbeatSucceeds
  <2>2. CASE HeartbeatFails
    BY <2>0, <2>2 DEF HeartbeatFails, Report
  <2>3. CASE WorkerSubscribe \/ WorkerConnect \/ ToStreaming \/ RequireStreaming \/
             SubscriptionOpened \/ SubscriptionTimesOut \/ StartBroadcastAccepted \/
             StartBroadcastRefused \/ StartBroadcastNotLive \/
             StartBroadcastUnanswered \/ ToLive \/ UndoStart \/ CallStarted \/
             LoopCheck \/ Exit \/ StopBroadcast \/ RequestThrows
    BY <2>0, <2>3 DEF WorkerSubscribe, AssignSubscription, WorkerConnect,
        ConnectSubscription, ToStreaming, Transition, RequireStreaming,
        SubscriptionOpened, SubscriptionTimesOut, Report, StartBroadcastAccepted,
        StartBroadcastRefused, StartBroadcastNotLive, StartBroadcastUnanswered,
        ToLive, UndoStart, RequestStopBroadcast, CallStarted, LoopCheck, Exit,
        StopBroadcast, RequestThrows
  <2> QED  BY <1>2, <2>1, <2>2, <2>3 DEF Worker
<1>3. CASE Ws
  BY <1>3 DEF Ws, WsOpened, WsReauthenticate, WsRefreshThrows, WsStageUpdate,
      AfterFeed, AfterOpen, WentDark, SeenOnStage, WsCheckOnline, IsOnline,
      WsCheckLive, WsFailTakeover, Report, WsGraphqlErrors, WsFailErrors, WsLeave,
      WsEnded, WantsSubscription, WsBackoffOver, WsResubscribe, AssignSubscription,
      WsConnect, ConnectSubscription
<1>4. CASE Snap
  BY <1>4 DEF Snap, SnapWake, SnapUpload
<1> QED  BY <1>1, <1>2, <1>3, <1>4 DEF Next

\* Only a stop() that has begun can take subscription_ away from the threads
\* that use it.
LEMMA SubscriptionKept ==
  ASSUME AppInv, SubscriptionInv, Next
  PROVE  SubscriptionInv'
<1> USE DEF AppInv, SubscriptionInv, BeforeConnect, HoldingPcs
<1>1. CASE App
  <2>1. CASE Start
    BY <2>1 DEF Start, Transition
  <2>2. CASE StopAnnounce
    BY <2>2 DEF StopAnnounce
  <2>3. CASE StopReset
    BY <2>3 DEF StopReset
  <2>4. CASE StopJoin
    BY <2>4 DEF StopJoin
  <2>5. CASE Release
    BY <2>5 DEF Release
  <2> QED  BY <1>1, <2>1, <2>2, <2>3, <2>4, <2>5 DEF App
<1>2. CASE Worker
  <2>0. UNCHANGED <<wsVars, appVars, alive>>
    BY <1>2 DEF Worker
  <2>1. CASE WorkerSubscribe
    BY <2>0, <2>1 DEF WorkerSubscribe, AssignSubscription
  <2>2. CASE WorkerConnect
    BY <2>0, <2>2 DEF WorkerConnect, ConnectSubscription
  <2>3. CASE ToStreaming \/ RequireStreaming \/ SubscriptionOpened \/
             SubscriptionTimesOut \/ StartBroadcastAccepted \/ StartBroadcastRefused
             \/ StartBroadcastNotLive \/ StartBroadcastUnanswered \/ ToLive \/
             UndoStart \/ CallStarted \/ LoopCheck \/ HeartbeatSucceeds \/
             HeartbeatFails \/ Exit \/ StopBroadcast \/ RequestThrows
    BY <2>0, <2>3 DEF ToStreaming, Transition, RequireStreaming, SubscriptionOpened,
        SubscriptionTimesOut, Report, StartBroadcastAccepted, StartBroadcastRefused,
        StartBroadcastNotLive, StartBroadcastUnanswered, ToLive, UndoStart,
        RequestStopBroadcast, CallStarted, LoopCheck, HeartbeatSucceeds,
        HeartbeatFails, Exit, StopBroadcast, RequestThrows
  <2> QED  BY <1>2, <2>1, <2>2, <2>3 DEF Worker
<1>3. CASE Ws
  <2>0. UNCHANGED <<appVars, workerPc, snapPc, failures, alive, server>>
    BY <1>3 DEF Ws
  <2>1. CASE WsOpened
    BY <2>0, <2>1 DEF WsOpened
  <2>2. CASE WsReauthenticate
    BY <2>0, <2>2 DEF WsReauthenticate
  <2>3. CASE WsRefreshThrows
    BY <2>0, <2>3 DEF WsRefreshThrows
  <2>4. CASE \E feedIsOnStage, live \in BOOLEAN : WsStageUpdate(feedIsOnStage, live)
    BY <2>0, <2>4 DEF WsStageUpdate, AfterFeed, AfterOpen, WentDark, SeenOnStage
  <2>5. CASE WsCheckOnline
    BY <2>0, <2>5 DEF WsCheckOnline, IsOnline, WentDark
  <2>6. CASE WsCheckLive
    BY <2>0, <2>6 DEF WsCheckLive
  <2>7. CASE WsFailTakeover
    BY <2>0, <2>7 DEF WsFailTakeover, Report
  <2>8. CASE WsGraphqlErrors
    BY <2>0, <2>8 DEF WsGraphqlErrors
  <2>9. CASE WsFailErrors
    BY <2>0, <2>9 DEF WsFailErrors, Report
  <2>10. CASE WsLeave
    BY <2>0, <2>10 DEF WsLeave
  <2>11. CASE \E endType \in {"Closed", "Failed"} : WsEnded(endType)
    BY <2>0, <2>11 DEF WsEnded, WantsSubscription
  <2>12. CASE WsBackoffOver
    BY <2>0, <2>12 DEF WsBackoffOver, WantsSubscription
  <2>13. CASE WsResubscribe
    BY <2>0, <2>13 DEF WsResubscribe, AssignSubscription
  <2>14. CASE WsConnect
    BY <2>0, <2>14 DEF WsConnect, ConnectSubscription
  <2> QED  BY <1>3, <2>1, <2>2, <2>3, <2>4, <2>5, <2>6, <2>7, <2>8, <2>9, <2>10,
      <2>11, <2>12, <2>13, <2>14 DEF Ws
<1>4. CASE Snap
  BY <1>4 DEF Snap, SnapWake, SnapUpload
<1> QED  BY <1>1, <1>2, <1>3, <1>4 DEF Next

\* The websocket thread reports a takeover only of what it has seen, and what it
\* has seen it does not forget.
LEMMA WsKept ==
  ASSUME TypeOK, AppInv, SubscriptionInv, WsInv, Next
  PROVE  WsInv'
<1> USE DEF AppInv, StateShowsProgress, SubscriptionInv, WsInv, BeforeConnect,
    TakeoverJustified, SeenOnStage
<1>1. CASE App
  BY <1>1 DEF App, Start, Transition, StopAnnounce, StopReset, StopJoin, Release
<1>2. CASE Worker
  <2>0. UNCHANGED <<wsVars, appVars, alive>>
    BY <1>2 DEF Worker
  <2>1. CASE WorkerSubscribe
    BY <2>0, <2>1 DEF WorkerSubscribe, AssignSubscription
  <2>2. CASE WorkerConnect
    BY <2>0, <2>2 DEF WorkerConnect, ConnectSubscription
  <2>3. CASE ToStreaming
    BY <2>0, <2>3 DEF ToStreaming, Transition
  <2>4. CASE RequireStreaming
    BY <2>0, <2>4 DEF RequireStreaming
  <2>5. CASE SubscriptionOpened
    BY <2>0, <2>5 DEF SubscriptionOpened
  <2>6. CASE SubscriptionTimesOut
    BY <2>0, <2>6 DEF SubscriptionTimesOut, Report
  <2>7. CASE StartBroadcastAccepted
    BY <2>0, <2>7 DEF StartBroadcastAccepted
  <2>8. CASE StartBroadcastRefused
    BY <2>0, <2>8 DEF StartBroadcastRefused, Report
  <2>9. CASE StartBroadcastNotLive
    BY <2>0, <2>9 DEF StartBroadcastNotLive, Report
  <2>10. CASE StartBroadcastUnanswered
    BY <2>0, <2>10 DEF StartBroadcastUnanswered, Report
  <2>11. CASE ToLive
    BY <2>0, <2>11 DEF ToLive, Transition
  <2>12. CASE UndoStart
    BY <2>0, <2>12 DEF UndoStart, RequestStopBroadcast
  <2>13. CASE CallStarted
    BY <2>0, <2>13 DEF CallStarted
  <2>14. CASE LoopCheck
    BY <2>0, <2>14 DEF LoopCheck
  <2>15. CASE HeartbeatSucceeds
    BY <2>0, <2>15 DEF HeartbeatSucceeds
  <2>16. CASE HeartbeatFails
    BY <2>0, <2>16 DEF HeartbeatFails, Report
  <2>17. CASE Exit
    BY <2>0, <2>17 DEF Exit
  <2>18. CASE StopBroadcast
    BY <2>0, <2>18 DEF StopBroadcast, RequestStopBroadcast
  <2>19. CASE RequestThrows
    BY <2>0, <2>19 DEF RequestThrows
  <2> QED  BY <1>2, <2>1, <2>2, <2>3, <2>4, <2>5, <2>6, <2>7, <2>8, <2>9, <2>10,
      <2>11, <2>12, <2>13, <2>14, <2>15, <2>16, <2>17, <2>18, <2>19 DEF Worker
<1>3. CASE Ws
  <2>0. UNCHANGED <<appVars, workerPc, snapPc, failures, alive, server>>
    BY <1>3 DEF Ws
  <2>1. CASE WsOpened
    BY <2>0, <2>1 DEF WsOpened
  <2>2. CASE WsReauthenticate
    BY <2>0, <2>2 DEF WsReauthenticate
  <2>3. CASE WsRefreshThrows
    BY <2>0, <2>3 DEF WsRefreshThrows
  <2>4. CASE \E feedIsOnStage, live \in BOOLEAN : WsStageUpdate(feedIsOnStage, live)
    BY <2>0, <2>4 DEF WsStageUpdate, AfterFeed, AfterOpen, WentDark
  <2>5. CASE WsCheckOnline
    BY <2>0, <2>5 DEF WsCheckOnline, IsOnline, WentDark, TypeOK, AppPcs
  <2>6. CASE WsCheckLive
    BY <2>0, <2>6 DEF WsCheckLive, TypeOK, AppPcs
  <2>7. CASE WsFailTakeover
    BY <2>0, <2>7 DEF WsFailTakeover, Report
  <2>8. CASE WsGraphqlErrors
    BY <2>0, <2>8 DEF WsGraphqlErrors
  <2>9. CASE WsFailErrors
    BY <2>0, <2>9 DEF WsFailErrors, Report
  <2>10. CASE WsLeave
    BY <2>0, <2>10 DEF WsLeave
  <2>11. CASE \E endType \in {"Closed", "Failed"} : WsEnded(endType)
    BY <2>0, <2>11 DEF WsEnded, WantsSubscription
  <2>12. CASE WsBackoffOver
    BY <2>0, <2>12 DEF WsBackoffOver, WantsSubscription
  <2>13. CASE WsResubscribe
    BY <2>0, <2>13 DEF WsResubscribe, AssignSubscription
  <2>14. CASE WsConnect
    BY <2>0, <2>14 DEF WsConnect, ConnectSubscription
  <2> QED  BY <1>3, <2>1, <2>2, <2>3, <2>4, <2>5, <2>6, <2>7, <2>8, <2>9, <2>10,
      <2>11, <2>12, <2>13, <2>14 DEF Ws
<1>4. CASE Snap
  BY <1>4 DEF Snap, SnapWake, SnapUpload
<1> QED  BY <1>1, <1>2, <1>3, <1>4 DEF Next

\* The object outlives its threads' use of it until the owner has let go, and
\* is Live only with the server's consent.
LEMMA LifetimeKept ==
  ASSUME TypeOK, AppInv, WorkerInv, SubscriptionInv, LifetimeInv, Next
  PROVE  LifetimeInv'
<1> USE DEF AppInv, SubscriptionInv, LifetimeInv, FaultsNeedStop, LiveOnlyWhenReady,
    HoldingPcs
<1>1. CASE App
  <2>1. CASE Start
    BY <2>1 DEF Start, Transition, TypeOK, AppPcs, StateShowsProgress, WorkerInv,
        OnAirPcs
  <2>2. CASE StopAnnounce
    BY <2>2 DEF StopAnnounce, TypeOK, AppPcs, StateShowsProgress, WorkerInv, OnAirPcs
  <2>3. CASE StopReset
    BY <2>3 DEF StopReset, TypeOK, AppPcs, StateShowsProgress, WorkerInv, OnAirPcs
  <2>4. CASE StopJoin
    BY <2>4 DEF StopJoin, TypeOK, AppPcs, StateShowsProgress, WorkerInv, OnAirPcs
  <2>5. CASE Release
    BY <2>5 DEF Release, TypeOK, AppPcs, StateShowsProgress, WorkerInv, OnAirPcs
  <2> QED  BY <1>1, <2>1, <2>2, <2>3, <2>4, <2>5 DEF App
<1>2. CASE Worker
  <2>0. UNCHANGED <<wsVars, appVars, alive>>
    BY <1>2 DEF Worker
  <2>1. CASE WorkerSubscribe
    BY <2>0, <2>1 DEF WorkerSubscribe, AssignSubscription, TypeOK, AppPcs,
        StateShowsProgress, WorkerInv, OnAirPcs
  <2>2. CASE WorkerConnect
    BY <2>0, <2>2 DEF WorkerConnect, ConnectSubscription, TypeOK, AppPcs,
        StateShowsProgress, WorkerInv, OnAirPcs
  <2>3. CASE ToStreaming
    BY <2>0, <2>3 DEF ToStreaming, Transition, TypeOK, AppPcs, StateShowsProgress,
        WorkerInv, OnAirPcs
  <2>4. CASE RequireStreaming
    BY <2>0, <2>4 DEF RequireStreaming, TypeOK, AppPcs, StateShowsProgress, WorkerInv,
        OnAirPcs
  <2>5. CASE SubscriptionOpened
    BY <2>0, <2>5 DEF SubscriptionOpened, TypeOK, AppPcs, StateShowsProgress,
        WorkerInv, OnAirPcs
  <2>6. CASE SubscriptionTimesOut
    BY <2>0, <2>6 DEF SubscriptionTimesOut, Report, TypeOK, AppPcs,
        StateShowsProgress, WorkerInv, OnAirPcs
  <2>7. CASE StartBroadcastAccepted
    BY <2>0, <2>7 DEF StartBroadcastAccepted, TypeOK, AppPcs, StateShowsProgress,
        WorkerInv, OnAirPcs
  <2>8. CASE StartBroadcastRefused
    BY <2>0, <2>8 DEF StartBroadcastRefused, Report, TypeOK, AppPcs,
        StateShowsProgress, WorkerInv, OnAirPcs
  <2>9. CASE StartBroadcastNotLive
    BY <2>0, <2>9 DEF StartBroadcastNotLive, Report, TypeOK, AppPcs,
        StateShowsProgress, WorkerInv, OnAirPcs
  <2>10. CASE StartBroadcastUnanswered
    BY <2>0, <2>10 DEF StartBroadcastUnanswered, Report, TypeOK, AppPcs,
        StateShowsProgress, WorkerInv, OnAirPcs
  <2>11. CASE ToLive
    BY <2>0, <2>11 DEF ToLive, Transition, TypeOK, AppPcs, StateShowsProgress,
        WorkerInv, OnAirPcs
  <2>12. CASE UndoStart
    BY <2>0, <2>12 DEF UndoStart, RequestStopBroadcast, TypeOK, AppPcs,
        StateShowsProgress, WorkerInv, OnAirPcs
  <2>13. CASE CallStarted
    BY <2>0, <2>13 DEF CallStarted, TypeOK, AppPcs, StateShowsProgress, WorkerInv,
        OnAirPcs
  <2>14. CASE LoopCheck
    BY <2>0, <2>14 DEF LoopCheck, TypeOK, AppPcs, StateShowsProgress, WorkerInv,
        OnAirPcs
  <2>15. CASE HeartbeatSucceeds
    BY <2>0, <2>15 DEF HeartbeatSucceeds, TypeOK, AppPcs, StateShowsProgress,
        WorkerInv, OnAirPcs
  <2>16. CASE HeartbeatFails
    BY <2>0, <2>16 DEF HeartbeatFails, Report, TypeOK, AppPcs, StateShowsProgress,
        WorkerInv, OnAirPcs
  <2>17. CASE Exit
    BY <2>0, <2>17 DEF Exit, TypeOK, AppPcs, StateShowsProgress, WorkerInv, OnAirPcs
  <2>18. CASE StopBroadcast
    BY <2>0, <2>18 DEF StopBroadcast, RequestStopBroadcast, TypeOK, AppPcs,
        StateShowsProgress, WorkerInv, OnAirPcs
  <2>19. CASE RequestThrows
    BY <2>0, <2>19 DEF RequestThrows, TypeOK, AppPcs, StateShowsProgress, WorkerInv,
        OnAirPcs
  <2> QED  BY <1>2, <2>1, <2>2, <2>3, <2>4, <2>5, <2>6, <2>7, <2>8, <2>9, <2>10,
      <2>11, <2>12, <2>13, <2>14, <2>15, <2>16, <2>17, <2>18, <2>19 DEF Worker
<1>3. CASE Ws
  <2>0. UNCHANGED <<appVars, workerPc, snapPc, failures, alive, server>>
    BY <1>3 DEF Ws
  <2>1. CASE WsOpened
    BY <2>0, <2>1 DEF WsOpened, BeforeConnect
  <2>2. CASE WsReauthenticate
    BY <2>0, <2>2 DEF WsReauthenticate, BeforeConnect
  <2>3. CASE WsRefreshThrows
    BY <2>0, <2>3 DEF WsRefreshThrows, BeforeConnect
  <2>4. CASE \E feedIsOnStage, live \in BOOLEAN : WsStageUpdate(feedIsOnStage, live)
    BY <2>0, <2>4 DEF WsStageUpdate, AfterFeed, AfterOpen, WentDark, SeenOnStage,
        BeforeConnect
  <2>5. CASE WsCheckOnline
    BY <2>0, <2>5 DEF WsCheckOnline, IsOnline, WentDark, BeforeConnect
  <2>6. CASE WsCheckLive
    BY <2>0, <2>6 DEF WsCheckLive, BeforeConnect
  <2>7. CASE WsFailTakeover
    BY <2>0, <2>7 DEF WsFailTakeover, Report, BeforeConnect
  <2>8. CASE WsGraphqlErrors
    BY <2>0, <2>8 DEF WsGraphqlErrors, BeforeConnect
  <2>9. CASE WsFailErrors
    BY <2>0, <2>9 DEF WsFailErrors, Report, BeforeConnect
  <2>10. CASE WsLeave
    BY <2>0, <2>10 DEF WsLeave, BeforeConnect
  <2>11. CASE \E endType \in {"Closed", "Failed"} : WsEnded(endType)
    BY <2>0, <2>11 DEF WsEnded, WantsSubscription, BeforeConnect
  <2>12. CASE WsBackoffOver
    BY <2>0, <2>12 DEF WsBackoffOver, WantsSubscription, BeforeConnect
  <2>13. CASE WsResubscribe
    BY <2>0, <2>13 DEF WsResubscribe, AssignSubscription, BeforeConnect
  <2>14. CASE WsConnect
    BY <2>0, <2>14 DEF WsConnect, ConnectSubscription, BeforeConnect
  <2> QED  BY <1>3, <2>1, <2>2, <2>3, <2>4, <2>5, <2>6, <2>7, <2>8, <2>9, <2>10,
      <2>11, <2>12, <2>13, <2>14 DEF Ws
<1>4. CASE Snap
  BY <1>4 DEF Snap, SnapWake, SnapUpload
<1> QED  BY <1>1, <1>2, <1>3, <1>4 DEF Next

-----------------------------------------------------------------------------
(* Safety *)

\* An object that has only been constructed satisfies the invariant.
LEMMA InitIInv == Init => IInv
<1> USE DEF Init
<1>1. Init => TypeOK
  <2>1. Init => failures \in 0..(MaxFailures + 1) /\ tryNum \in 1..MaxTry  OBVIOUS
  <2>2. Init => reported \subseteq Failures  OBVIOUS
  <2> QED
    BY <2>1, <2>2 DEF TypeOK, BroadcastStates, Subscriptions, SubscriptionStates, Faults,
       AppPcs, WorkerPcs, WsPcs, SnapPcs
<1>2. Init => AppInv  BY DEF AppInv
<1>3. Init => WorkerInv
  BY DEF WorkerInv, AnswersAgree, StageLeftLiveOnlyIf, OnAirPcs, StartedPcs
<1>4. Init => FailuresInv  BY DEF FailuresInv
<1>5. Init => SubscriptionInv  BY DEF SubscriptionInv
<1>6. Init => WsInv  BY DEF WsInv, TakeoverJustified
<1>7. Init => LifetimeInv  BY DEF LifetimeInv, FaultsNeedStop, LiveOnlyWhenReady
<1> QED  BY <1>1, <1>2, <1>3, <1>4, <1>5, <1>6, <1>7 DEF IInv

\* No step of any thread breaks it.
LEMMA NextIInv == IInv /\ [Next]_vars => IInv'
<1>1. ASSUME IInv, Next PROVE IInv'
  BY <1>1, TypeKept, AppKept, WorkerKept, FailuresKept, SubscriptionKept, WsKept,
     LifetimeKept DEF IInv
<1>2. ASSUME IInv, UNCHANGED vars PROVE IInv'
  <2> USE <1>2 DEF IInv
  <2>1. TypeOK'  BY DEF TypeOK
  <2>2. AppInv'  BY DEF AppInv, StateShowsProgress
  <2>3. WorkerInv'  BY DEF WorkerInv, AnswersAgree, StageLeftLiveOnlyIf
  <2>4. FailuresInv'  BY DEF FailuresInv
  <2>5. SubscriptionInv'  BY DEF SubscriptionInv
  <2>6. WsInv'  BY DEF WsInv, TakeoverJustified, SeenOnStage
  <2>7. LifetimeInv'  BY DEF LifetimeInv, FaultsNeedStop, LiveOnlyWhenReady
  <2> QED  BY <2>1, <2>2, <2>3, <2>4, <2>5, <2>6, <2>7
<1> QED  BY <1>1, <1>2

\* The inductive invariant holds in every reachable state.
THEOREM Invariance == Safe => []IInv
<1>1. Init => IInv  BY InitIInv
<1>2. IInv /\ [Next]_vars => IInv'  BY NextIInv
<1> QED  BY <1>1, <1>2, PTL DEF Safe

\* Every variable keeps its type; failures never exceeds max_failures by more
\* than the one failure that ends the loop.
THEOREM TypeCorrect == Safe => []TypeOK
<1>1. IInv => TypeOK  BY DEF IInv
<1> QED  BY Invariance, <1>1, PTL

\* A Live broadcast has an open subscription and the server's acceptance.
THEOREM LiveIsReady == Safe => []LiveOnlyWhenReady
<1>1. IInv => LiveOnlyWhenReady  BY DEF IInv, LifetimeInv
<1> QED  BY Invariance, <1>1, PTL

\* The started and failed callbacks never contradict each other.
THEOREM OneAnswer == Safe => []AnswersAgree
<1>1. IInv => AnswersAgree  BY DEF IInv, WorkerInv
<1> QED  BY Invariance, <1>1, PTL

\* Only a lost request or a heartbeat failure leaves the stage live.
THEOREM StageLeftLive == Safe => []StageLeftLiveOnlyIf
<1>1. IInv => StageLeftLiveOnlyIf  BY DEF IInv, WorkerInv
<1> QED  BY Invariance, <1>1, PTL

\* No takeover is reported of a feed that never appeared.
THEOREM NoFalseTakeover == Safe => []TakeoverJustified
<1>1. IInv => TakeoverJustified  BY DEF IInv, WsInv
<1> QED  BY Invariance, <1>1, PTL

\* The destructor never runs under a thread that holds the object.
THEOREM SafeDestruction == Safe => []DestroyedOnlyWhenUnused
<1>1. IInv => DestroyedOnlyWhenUnused
  BY DEF IInv, AppInv, LifetimeInv, DestroyedOnlyWhenUnused
<1> QED  BY Invariance, <1>1, PTL

\* The races on subscription_ and on the object's end all involve a stop().
THEOREM RacesNeedStop == Safe => []FaultsNeedStop
<1>1. IInv => FaultsNeedStop  BY DEF IInv, LifetimeInv
<1> QED  BY Invariance, <1>1, PTL

-----------------------------------------------------------------------------
(* What a step may never do *)

\* broadcastState_ follows its life cycle whatever the threads race for.
THEOREM TransitionsAreLegal == Safe => LegalTransitions
<1> DEFINE Legal ==
      \/ /\ broadcastState \in {"Offline", "Starting", "Streaming"}
         /\ broadcastState' = Following(broadcastState)
      \/ broadcastState' = "Stopping"
      \/ broadcastState = "Stopping" /\ broadcastState' = "Offline"
<1>1. IInv /\ [Next]_vars => [Legal]_broadcastState
  <2> SUFFICES ASSUME IInv, Next PROVE Legal \/ UNCHANGED broadcastState
    OBVIOUS
  <2>1. CASE App
    <3>1. CASE Start  BY <3>1 DEF Start, Transition, Following
    <3>2. CASE StopAnnounce  BY <3>2 DEF StopAnnounce
    <3>3. CASE StopReset \/ Release  BY <3>3 DEF StopReset, Release
    <3>4. CASE StopJoin  BY <3>4 DEF StopJoin, IInv, AppInv
    <3> QED  BY <2>1, <3>1, <3>2, <3>3, <3>4 DEF App
  <2>2. CASE Worker
    <3>1. CASE ToStreaming  BY <3>1 DEF ToStreaming, Transition, Following
    <3>2. CASE ToLive  BY <3>2 DEF ToLive, Transition, Following
    <3>3. CASE ~ToStreaming /\ ~ToLive
      BY <2>2, <3>3 DEF Worker, WorkerSubscribe, WorkerConnect, RequireStreaming,
         SubscriptionOpened, SubscriptionTimesOut, StartBroadcastAccepted,
         StartBroadcastRefused, StartBroadcastNotLive, StartBroadcastUnanswered,
         UndoStart, CallStarted, LoopCheck, HeartbeatSucceeds, HeartbeatFails,
         Exit, StopBroadcast, RequestThrows
    <3> QED  BY <3>1, <3>2, <3>3
  <2>3. CASE Ws
    BY <2>3 DEF Ws, WsOpened, WsReauthenticate, WsRefreshThrows, WsStageUpdate,
       WsCheckOnline, WsCheckLive, WsFailTakeover, WsGraphqlErrors, WsFailErrors, WsLeave, WsEnded, WsBackoffOver,
       WsResubscribe, WsConnect
  <2>4. CASE Snap  BY <2>4 DEF Snap
  <2> QED  BY <2>1, <2>2, <2>3, <2>4 DEF Next
<1> QED  BY Invariance, <1>1, PTL DEF Safe, LegalTransitions

\* What the stage updates have shown is not forgotten.
THEOREM ProgressIsKept == Safe => StageProgressKept
<1> DEFINE Kept ==
      /\ subscriptionState' # "None"
      /\ SeenOnStage(subscriptionState) => SeenOnStage(subscriptionState')
      /\ subscriptionState # "StageHasGoneLive"
<1>1. TypeOK /\ [Next]_vars => [Kept]_subscriptionState
  <2> SUFFICES ASSUME TypeOK, Next PROVE Kept \/ UNCHANGED subscriptionState
    OBVIOUS
  <2>1. CASE App
    BY <2>1 DEF App, Start, StopAnnounce, StopReset, StopJoin, Release
  <2>2. CASE Worker  BY <2>2 DEF Worker
  <2>3. CASE Ws
    <3>1. CASE \E feedIsOnStage, live \in BOOLEAN : WsStageUpdate(feedIsOnStage, live)
      BY <3>1 DEF TypeOK, SubscriptionStates, WsStageUpdate, AfterFeed, AfterOpen, SeenOnStage
    <3>2. CASE ~(\E feedIsOnStage, live \in BOOLEAN : WsStageUpdate(feedIsOnStage, live))
      BY <2>3, <3>2 DEF Ws, WsOpened, WsReauthenticate, WsRefreshThrows, WsCheckOnline,
         WsCheckLive,
         WsFailTakeover, WsGraphqlErrors, WsFailErrors, WsLeave, WsEnded, WsBackoffOver,
         WsResubscribe, WsConnect
    <3> QED  BY <3>1, <3>2
  <2>4. CASE Snap  BY <2>4 DEF Snap
  <2> QED  BY <2>1, <2>2, <2>3, <2>4 DEF Next
<1> QED  BY TypeCorrect, <1>1, PTL DEF Safe, StageProgressKept

-----------------------------------------------------------------------------
(* Refinement *)

\* The phase that the owner's place in the code stands for.
PhaseFacts ==
  /\ appPc \in {"created", "running"} => Phase = appPc
  /\ appPc \in {"reset", "join"} => Phase = "stopping"
  /\ appPc \in {"stopped", "released"} /\ alive => Phase = "stopped"
  /\ appPc \in {"stopped", "released"} /\ ~alive => Phase = "destroyed"

LEMMA PhaseOf == PhaseFacts /\ PhaseFacts'
BY DEF Phase, PhaseFacts

\* An object that has only been constructed maps to the abstract Init.
LEMMA InitLifecycle == Init => Lifecycle!Init
BY PhaseOf DEF PhaseFacts, Init, Lifecycle!Init

\* The application thread starts, stops and destroys the abstract broadcast.
LEMMA AppLifecycle ==
  ASSUME IInv, fault = "none", App
  PROVE  [Lifecycle!Next]_(Lifecycle!vars)
<1> USE PhaseOf DEF PhaseFacts, Lifecycle!Next, Lifecycle!vars
<1>1. CASE Start  BY <1>1 DEF Start, Lifecycle!Start
<1>2. CASE StopAnnounce  BY <1>2 DEF StopAnnounce, Lifecycle!CallStop
<1>3. CASE StopReset  BY <1>3 DEF StopReset
<1>4. CASE StopJoin
  BY <1>4 DEF StopJoin, IInv, LifetimeInv, Lifecycle!ReturnFromStop
<1>5. CASE Release
  BY <1>5 DEF Release, IInv, LifetimeInv, Lifecycle!Destroy
<1> QED  BY <1>1, <1>2, <1>3, <1>4, <1>5 DEF App

\* The worker puts the broadcast on the air, takes it off when it is stopped,
\* and reports; it does so only between start() and the return of stop().
LEMMA WorkerLifecycle ==
  ASSUME IInv, fault = "none", Worker
  PROVE  [Lifecycle!Next]_(Lifecycle!vars)
<1> USE DEF Lifecycle!Next, Lifecycle!vars
<1>1. UNCHANGED Phase
  BY DEF Worker, Phase
<1>2. workerPc \notin {"none", "done"} => Lifecycle!Active
  BY PhaseOf DEF PhaseFacts, IInv, TypeOK, AppPcs, AppInv, Lifecycle!Active
<1>3. CASE \/ WorkerSubscribe \/ ToStreaming \/ RequireStreaming \/ SubscriptionOpened
           \/ ToLive \/ LoopCheck \/ HeartbeatSucceeds \/ Exit
  BY <1>1, <1>3 DEF WorkerSubscribe, ToStreaming, RequireStreaming, SubscriptionOpened,
     ToLive, LoopCheck, HeartbeatSucceeds, Exit, Transition
<1>4. CASE WorkerConnect
  BY <1>1, <1>4 DEF WorkerConnect, ConnectSubscription, Lifecycle!Crash
<1>5. CASE SubscriptionTimesOut
  <2>1. Lifecycle!Active /\ ~started /\ ~stageStarted
    BY <1>2, <1>5 DEF SubscriptionTimesOut, IInv, WorkerInv, BeforeRequest, StartedPcs
  <2> QED
    BY <1>1, <1>5, <2>1 DEF SubscriptionTimesOut, Report, Lifecycle!ReportFailure,
       Lifecycle!MayReport, Lifecycle!Failures
<1>6. CASE StartBroadcastAccepted
  <2>1. Lifecycle!Active /\ ~started /\ ~stageStarted
    BY <1>2, <1>6 DEF StartBroadcastAccepted, IInv, WorkerInv, BeforeRequest, StartedPcs
  <2> QED  BY <1>1, <1>6, <2>1 DEF StartBroadcastAccepted, Lifecycle!GoOnAir
<1>7. CASE StartBroadcastRefused \/ StartBroadcastNotLive \/ StartBroadcastUnanswered
  <2>1. Lifecycle!Active /\ ~started /\ ~stageStarted
    BY <1>2, <1>7 DEF StartBroadcastRefused, StartBroadcastNotLive,
       StartBroadcastUnanswered, IInv, WorkerInv, BeforeRequest, StartedPcs
  <2>2. Lifecycle!MayReport("BroadcastFailed")
    BY <2>1 DEF Lifecycle!Active, Lifecycle!MayReport
  <2>3. CASE StartBroadcastRefused
    BY <1>1, <2>2, <2>3 DEF StartBroadcastRefused, Report, Lifecycle!ReportFailure,
       Lifecycle!Failures
  <2>4. CASE StartBroadcastNotLive
    BY <1>1, <2>2, <2>4 DEF StartBroadcastNotLive, Report, Lifecycle!ReportFailure,
       Lifecycle!Failures, Lifecycle!Crash
  <2>5. CASE StartBroadcastUnanswered
    <3>1. UNCHANGED stageStarted \/ stageStarted' = TRUE
      BY <2>1, <2>5 DEF StartBroadcastUnanswered, IInv, TypeOK
    <3>2. /\ reported' = reported \cup {"BroadcastFailed"}
          /\ UNCHANGED <<started, fault>>
      BY <2>5 DEF StartBroadcastUnanswered, Report
    <3> QED
      BY <1>1, <2>1, <2>2, <3>1, <3>2 DEF Lifecycle!ReportFailure, Lifecycle!Failures
  <2> QED  BY <1>7, <2>3, <2>4, <2>5
<1>8. CASE UndoStart \/ StopBroadcast
  <2>1. Phase = "stopping"
    BY <1>8, PhaseOf DEF PhaseFacts, UndoStart, StopBroadcast, IInv, TypeOK, AppPcs, AppInv,
       WorkerInv, StateShowsProgress
  <2>2. stageStarted' = FALSE \/ UNCHANGED stageStarted
    BY <1>8 DEF UndoStart, StopBroadcast, RequestStopBroadcast
  <2> QED
    BY <1>1, <1>8, <2>1, <2>2 DEF UndoStart, StopBroadcast, IInv, TypeOK, Lifecycle!GoOffAir
<1>9. CASE CallStarted
  <2>1. Lifecycle!Active /\ ~started /\ stageStarted /\ "StageSubscriptionTimeOut" \notin reported
    BY <1>2, <1>9 DEF CallStarted, IInv, WorkerInv, OnAirPcs, StartedPcs, AnswersAgree
  <2> QED  BY <1>1, <1>9, <2>1 DEF CallStarted, Lifecycle!ReportStarted
<1>10. CASE HeartbeatFails
  <2>1. Lifecycle!MayReport("Disconnected")
    BY <1>2, <1>10 DEF HeartbeatFails, IInv, WorkerInv, StartedPcs, Lifecycle!MayReport
  <2>2. /\ UNCHANGED reports \/ Report("Disconnected")
        /\ UNCHANGED <<server, fault>>
    BY <1>10 DEF HeartbeatFails
  <2> QED
    BY <1>1, <2>1, <2>2 DEF Report, Lifecycle!ReportFailure, Lifecycle!Failures
<1>11. CASE RequestThrows
  BY <1>1, <1>11 DEF RequestThrows, Lifecycle!Crash
<1> QED
  BY <1>3, <1>4, <1>5, <1>6, <1>7, <1>8, <1>9, <1>10, <1>11 DEF Worker

\* The websocket thread reports failures, and only of an object that is there.
LEMMA WsLifecycle ==
  ASSUME IInv, fault = "none", Ws
  PROVE  [Lifecycle!Next]_(Lifecycle!vars)
<1> USE DEF Lifecycle!Next, Lifecycle!vars
<1>1. UNCHANGED Phase
  BY DEF Ws, Phase
<1>2. wsPc \in HoldingPcs => Phase \notin {"created", "destroyed"}
  BY PhaseOf DEF PhaseFacts, IInv, TypeOK, AppPcs, AppInv, SubscriptionInv, BeforeConnect,
     HoldingPcs, LifetimeInv
<1>3. CASE WsFailTakeover \/ WsFailErrors
  <2>1. Lifecycle!MayReport("Takeover") /\ Lifecycle!MayReport("BroadcastFailed")
    BY <1>2, <1>3 DEF WsFailTakeover, WsFailErrors, HoldingPcs, Lifecycle!MayReport
  <2> QED
    BY <1>1, <1>3, <2>1 DEF Ws, WsFailTakeover, WsFailErrors, Report,
       Lifecycle!ReportFailure, Lifecycle!Failures
<1>4. CASE ~WsFailTakeover /\ ~WsFailErrors
  <2>1. UNCHANGED <<Phase, reports, server>>
    BY <1>1, <1>4 DEF Ws, WsOpened, WsReauthenticate, WsRefreshThrows, WsStageUpdate,
       WsCheckOnline,
       WsCheckLive, WsGraphqlErrors, WsLeave, WsEnded, WsBackoffOver, WsResubscribe,
       WsConnect
  <2> QED  BY <2>1 DEF Lifecycle!Crash
<1> QED  BY <1>3, <1>4

\* The snapshot thread can only crash.
LEMMA SnapLifecycle ==
  ASSUME fault = "none", Snap
  PROVE  [Lifecycle!Next]_(Lifecycle!vars)
BY DEF Snap, Phase, Lifecycle!Next, Lifecycle!vars, Lifecycle!Crash

\* The four threads together implement the abstract life of a broadcast.
THEOREM Implementation == Safe => ImplementsLifecycle
<1>1. Init => Lifecycle!Init  BY InitLifecycle
<1>2. IInv /\ [Next]_vars => [Lifecycle!Next]_(Lifecycle!vars)
  <2>1. ASSUME IInv, Next PROVE [Lifecycle!Next]_(Lifecycle!vars)
    BY <2>1, AppLifecycle, WorkerLifecycle, WsLifecycle, SnapLifecycle DEF Next
  <2>2. ASSUME UNCHANGED vars PROVE UNCHANGED Lifecycle!vars
    BY <2>2 DEF Lifecycle!vars, Phase
  <2> QED  BY <2>1, <2>2
<1> QED  BY Invariance, <1>1, <1>2, PTL DEF Safe, ImplementsLifecycle, Lifecycle!Spec

\* What the websocket thread knows of the subscription it is about to replace,
\* and of the one it is about to connect.
ResubscribeInv ==
  /\ wsPc \in {"pause", "backoff", "resubscribe"} => subscription \in {"null", "ended"}
  /\ wsPc = "connect" => subscription \in {"null", "fresh"}

\* stop() and ~Broadcast drop it.
LEMMA AppSlot ==
  ASSUME ResubscribeInv, App
  PROVE  ResubscribeInv' /\ [Slot!Reset]_subscription
BY DEF ResubscribeInv, App, Start, StopAnnounce, StopReset, StopJoin, Release, Slot!Reset

\* The worker subscribes before there is any subscription, and no handler runs
\* until it has connected it.
LEMMA WorkerSlot ==
  ASSUME IInv, ResubscribeInv, Worker
  PROVE  ResubscribeInv' /\ [Slot!Next]_subscription
<1> USE DEF IInv, SubscriptionInv, BeforeConnect
<1>0. UNCHANGED wsPc
  BY DEF Worker
<1>1. CASE WorkerSubscribe
  BY <1>0, <1>1 DEF WorkerSubscribe, AssignSubscription, ResubscribeInv, Slot!Next, Slot!Assign
<1>2. CASE WorkerConnect
  BY <1>0, <1>2 DEF WorkerConnect, ConnectSubscription, ResubscribeInv, Slot!Next, Slot!Connect
<1>3. CASE ~WorkerSubscribe /\ ~WorkerConnect
  <2>1. UNCHANGED subscription
    BY <1>3 DEF Worker, ToStreaming, RequireStreaming, SubscriptionOpened,
       SubscriptionTimesOut, StartBroadcastAccepted, StartBroadcastRefused,
       StartBroadcastNotLive, StartBroadcastUnanswered, ToLive, UndoStart, CallStarted,
       LoopCheck, HeartbeatSucceeds, HeartbeatFails, Exit, StopBroadcast, RequestThrows
  <2> QED  BY <1>0, <2>1 DEF ResubscribeInv
<1> QED  BY <1>1, <1>2, <1>3

\* The websocket thread connects, ends and replaces it.
LEMMA WsSlot ==
  ASSUME ResubscribeInv, Ws
  PROVE  ResubscribeInv' /\ [Slot!Next]_subscription
<1> USE DEF ResubscribeInv, Slot!Next
<1>1. CASE WsOpened \/ WsReauthenticate
  BY <1>1 DEF WsOpened, WsReauthenticate, Slot!Open, Slot!Reconnect
<1>2. CASE \E endType \in {"Closed", "Failed"} : WsEnded(endType)
  <2>1. wsPc' \in {"leave", "resubscribe", "pause"}
    BY <1>2 DEF WsEnded
  <2> QED  BY <1>2, <2>1 DEF WsEnded, Slot!End
<1>3. CASE WsBackoffOver \/ WsLeave
  BY <1>3 DEF WsBackoffOver, WsLeave
<1>4. CASE WsResubscribe
  BY <1>4 DEF WsResubscribe, AssignSubscription, Slot!Assign
<1>5. CASE WsConnect
  BY <1>5 DEF WsConnect, ConnectSubscription, Slot!Connect
<1>6. CASE \E feedIsOnStage, live \in BOOLEAN : WsStageUpdate(feedIsOnStage, live)
  BY <1>6 DEF WsStageUpdate
<1>7. CASE \/ WsRefreshThrows \/ WsCheckOnline \/ WsCheckLive \/ WsFailTakeover
           \/ WsGraphqlErrors \/ WsFailErrors
  BY <1>7 DEF WsRefreshThrows, WsCheckOnline, WsCheckLive, WsFailTakeover, WsGraphqlErrors,
     WsFailErrors
<1> QED  BY <1>1, <1>2, <1>3, <1>4, <1>5, <1>6, <1>7 DEF Ws

\* The threads move subscription_ as the connections of StageSubscription do:
\* it is replaced only when there is none or its end has been reported, and
\* setupSubscription connects only what it has just assigned.
THEOREM SlotImplemented == Safe => ImplementsSlot
<1>1. Init => ResubscribeInv /\ Slot!Init
  BY DEF Init, ResubscribeInv, Slot!Init
<1>2. IInv /\ ResubscribeInv /\ [Next]_vars => ResubscribeInv' /\ [Slot!Next]_subscription
  <2>1. ASSUME IInv, ResubscribeInv, Next
        PROVE  ResubscribeInv' /\ [Slot!Next]_subscription
    <3>1. CASE App  BY <2>1, <3>1, AppSlot DEF Slot!Next
    <3>2. CASE Worker  BY <2>1, <3>2, WorkerSlot
    <3>3. CASE Ws  BY <2>1, <3>3, WsSlot
    <3>4. CASE Snap  BY <2>1, <3>4 DEF Snap, ResubscribeInv
    <3> QED  BY <2>1, <3>1, <3>2, <3>3, <3>4 DEF Next
  <2>2. ASSUME ResubscribeInv, UNCHANGED vars  PROVE ResubscribeInv' /\ UNCHANGED subscription
    BY <2>2 DEF ResubscribeInv
  <2> QED  BY <2>1, <2>2
<1> QED  BY Invariance, <1>1, <1>2, PTL DEF Safe, ImplementsSlot, Slot!Spec
=============================================================================
